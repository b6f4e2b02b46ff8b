--------------------------- MODULE SirTree_proofs ---------------------------
(***************************************************************************)
(* A module that is done is a forest (ArenaIsTree), for all scripts.       *)
(*                                                                         *)
(* The argument counts uses.  An id is used by the entries of the module,  *)
(* by the frames of the build functions that run, and by the top frame if  *)
(* it has just been returned to it.  TreeInv says that at all times a      *)
(* block and a statement is used once, and an expression once at most, or  *)
(* not at all and then something is reported; where what a compound        *)
(* assignment assigns to counts as an operand of its value only.  Each     *)
(* step keeps a balance: an id that is new gets one use, an old one's use  *)
(* is moved, from the stack into the module, or up and down the stack, and *)
(* where an expression is given up there is a report.  When the stack is   *)
(* empty, all uses are those of the module.                                *)
(***************************************************************************)
EXTENDS SirBuilder_proofs

(* 1. Uses, as numbers.                                                    *)

(* Where an id is in one entry.                                            *)
Where(id, s) == {k \in DOMAIN s : s[k] = id}

(* How often an id is in one entry.                                        *)
Times(id, s) == Cardinality(Where(id, s))

(* Lists of which there are finitely many, each of them finite.            *)
FiniteLists(lists) ==
    IsFiniteSet(DOMAIN lists) /\ \A i \in DOMAIN lists : IsFiniteSet(DOMAIN lists[i])

LEMMA SpotsAre ==
    ASSUME NEW lists, NEW id, NEW p
    PROVE  p \in Spots(id, lists) <=>
               \E i \in DOMAIN lists : \E k \in DOMAIN lists[i] : lists[i][k] = id /\ p = <<i, k>>
BY DEF Spots

LEMMA TimesFinite ==
    ASSUME NEW s, IsFiniteSet(DOMAIN s), NEW id
    PROVE  IsFiniteSet(Where(id, s)) /\ Times(id, s) \in Nat
<1>1. Where(id, s) \in SUBSET DOMAIN s
  BY DEF Where
<1>2. IsFiniteSet(Where(id, s))
  BY <1>1, FS_Subset
<1>3. QED
  BY <1>2, FS_CardinalityType DEF Times

LEMMA SpotsFinite ==
    ASSUME NEW lists, FiniteLists(lists), NEW id
    PROVE  IsFiniteSet(Spots(id, lists)) /\ Uses(id, lists) \in Nat
<1> DEFINE Inner == UNION {DOMAIN lists[i] : i \in DOMAIN lists}
<1>1. IsFiniteSet(Inner)
  <2> DEFINE D == {DOMAIN lists[i] : i \in DOMAIN lists}
             f == [i \in DOMAIN lists |-> DOMAIN lists[i]]
  <2>1. IsFiniteSet(DOMAIN lists)
    BY DEF FiniteLists
  <2>2. IsFiniteSet(D)
    <3>1. f \in Surjection(DOMAIN lists, D)
      BY DEF Surjection
    <3>2. QED
      BY <2>1, <3>1, FS_Surjection
  <2>3. \A T \in D : IsFiniteSet(T)
    BY DEF FiniteLists
  <2>4. IsFiniteSet(UNION D)
    BY <2>2, <2>3, FS_UNION
  <2>5. QED
    BY <2>4
<1> HIDE DEF Inner
<1>2. IsFiniteSet((DOMAIN lists) \X Inner)
  <2>1. IsFiniteSet(DOMAIN lists)
    BY DEF FiniteLists
  <2>2. QED
    BY <1>1, <2>1, FS_Product
<1>3. Spots(id, lists) \in SUBSET ((DOMAIN lists) \X Inner)
  <2>1. SUFFICES ASSUME NEW p \in Spots(id, lists) PROVE p \in (DOMAIN lists) \X Inner
    OBVIOUS
  <2>2. PICK i \in DOMAIN lists : \E k \in DOMAIN lists[i] : p = <<i, k>>
    BY <2>1, SpotsAre
  <2>3. PICK k \in DOMAIN lists[i] : p = <<i, k>>
    BY <2>2
  <2>4. k \in Inner
    BY DEF Inner
  <2>5. QED
    BY <2>2, <2>3, <2>4
<1>4. IsFiniteSet(Spots(id, lists))
  BY <1>2, <1>3, FS_Subset
<1>5. QED
  BY <1>4, FS_CardinalityType DEF Uses

LEMMA SplitUses ==
    ASSUME NEW lists, FiniteLists(lists), NEW i \in DOMAIN lists, NEW others,
           DOMAIN others = DOMAIN lists \ {i}, \A j \in DOMAIN others : others[j] = lists[j],
           NEW id
    PROVE  /\ FiniteLists(others) /\ Uses(id, others) \in Nat /\ Times(id, lists[i]) \in Nat
           /\ Uses(id, lists) = Uses(id, others) + Times(id, lists[i])
<1> DEFINE W == Where(id, lists[i])
           T == {<<i, k>> : k \in W}
           S == Spots(id, others)
<1>1. FiniteLists(others)
  <2>1. DOMAIN others \in SUBSET DOMAIN lists
    OBVIOUS
  <2>2. IsFiniteSet(DOMAIN others)
    BY <2>1, FS_Subset DEF FiniteLists
  <2>3. QED
    BY <2>1, <2>2 DEF FiniteLists
<1>2. IsFiniteSet(W) /\ Times(id, lists[i]) \in Nat
  BY TimesFinite DEF FiniteLists
<1>3. IsFiniteSet(T) /\ Cardinality(T) = Times(id, lists[i])
  <2> DEFINE f == [k \in W |-> <<i, k>>]
  <2>1. f \in [W -> T] /\ (\A k \in W : f[k] = <<i, k>>)
    OBVIOUS
  <2>2. \A k, m \in W : f[k] = f[m] => k = m
    BY <2>1
  <2>3. \A t \in T : \E k \in W : f[k] = t
    BY <2>1
  <2> HIDE DEF f, W, T
  <2>4. f \in Bijection(W, T)
    BY <2>1, <2>2, <2>3 DEF Bijection, Injection, Surjection, IsInjective
  <2>5. ExistsBijection(W, T)
    BY <2>4 DEF ExistsBijection
  <2>6. QED
    BY <1>2, <2>5, FS_Bijection DEF Times, W
<1>4. IsFiniteSet(S) /\ Uses(id, others) \in Nat
  BY <1>1, SpotsFinite
<1>5. Spots(id, lists) = S \cup T
  <2>1. ASSUME NEW p \in Spots(id, lists) PROVE p \in S \cup T
    <3>1. PICK j \in DOMAIN lists : \E k \in DOMAIN lists[j] : lists[j][k] = id /\ p = <<j, k>>
      BY <2>1, SpotsAre
    <3>2. PICK k \in DOMAIN lists[j] : lists[j][k] = id /\ p = <<j, k>>
      BY <3>1
    <3>3. CASE j = i
      BY <3>2, <3>3 DEF Where
    <3>4. CASE j # i
      <4>1. j \in DOMAIN others /\ others[j] = lists[j]
        BY <3>1, <3>4
      <4>2. p \in S
        BY <3>2, <4>1, SpotsAre
      <4>3. QED
        BY <4>2
    <3>5. QED
      BY <3>3, <3>4
  <2>2. ASSUME NEW p \in S PROVE p \in Spots(id, lists)
    <3>1. PICK j \in DOMAIN others : \E k \in DOMAIN others[j] : others[j][k] = id /\ p = <<j, k>>
      BY <2>2, SpotsAre
    <3>2. j \in DOMAIN lists /\ others[j] = lists[j]
      BY <3>1
    <3>3. QED
      BY <3>1, <3>2, SpotsAre
  <2>3. ASSUME NEW p \in T PROVE p \in Spots(id, lists)
    <3>1. PICK k \in W : p = <<i, k>>
      BY <2>3
    <3>2. k \in DOMAIN lists[i] /\ lists[i][k] = id
      BY <3>1 DEF Where
    <3>3. QED
      BY <3>1, <3>2, SpotsAre
  <2> HIDE DEF S, T
  <2>4. QED
    BY <2>1, <2>2, <2>3
<1>6. S \cap T = {}
  <2>1. SUFFICES ASSUME NEW p \in S, p \in T PROVE FALSE
    OBVIOUS
  <2>2. PICK j \in DOMAIN others : \E k \in DOMAIN others[j] : others[j][k] = id /\ p = <<j, k>>
    BY <2>1, SpotsAre
  <2>3. j # i
    BY <2>2
  <2>4. PICK k \in W : p = <<i, k>>
    BY <2>1
  <2>5. QED
    BY <2>2, <2>3, <2>4
<1> HIDE DEF S, T, W
<1>7. Cardinality(S \cup T) = Cardinality(S) + Cardinality(T)
  <2>1. Cardinality(S \cup T) = Cardinality(S) + Cardinality(T) - Cardinality(S \cap T)
    BY <1>3, <1>4, FS_Union
  <2>2. Cardinality(S \cap T) = 0
    BY <1>6, FS_EmptySet
  <2>3. Cardinality(S) \in Nat /\ Cardinality(T) \in Nat
    BY <1>3, <1>4, FS_CardinalityType
  <2>4. QED
    BY <2>1, <2>2, <2>3
<1>8. Uses(id, lists) = Uses(id, others) + Times(id, lists[i])
  BY <1>3, <1>5, <1>7 DEF Uses, S
<1>9. QED
  BY <1>1, <1>2, <1>4, <1>8

(* One more entry; and an entry in place of another.                       *)
LEMMA MoreUses ==
    ASSUME NEW lists, FiniteLists(lists), NEW n \in Nat, DOMAIN lists = 1..n,
           NEW more, DOMAIN more = 1..(n + 1), \A j \in 1..n : more[j] = lists[j],
           IsFiniteSet(DOMAIN more[n + 1]), NEW id
    PROVE  /\ FiniteLists(more) /\ Uses(id, lists) \in Nat /\ Times(id, more[n + 1]) \in Nat
           /\ Uses(id, more) = Uses(id, lists) + Times(id, more[n + 1])
<1>1. /\ 1..(n + 1) = 1..n \cup {n + 1} /\ n + 1 \in 1..(n + 1)
      /\ 1..n = (1..(n + 1)) \ {n + 1}
  OBVIOUS
<1>2. FiniteLists(more)
  <2>1. IsFiniteSet(1..(n + 1))
    BY FS_Interval
  <2>2. \A j \in 1..n : IsFiniteSet(DOMAIN more[j])
    BY DEF FiniteLists
  <2>3. QED
    BY <1>1, <2>1, <2>2 DEF FiniteLists
<1>3. QED
  BY <1>1, <1>2, SplitUses

LEMMA ChangedUses ==
    ASSUME NEW lists, FiniteLists(lists), NEW i \in DOMAIN lists,
           NEW new, DOMAIN new = DOMAIN lists, \A j \in DOMAIN lists : j # i => new[j] = lists[j],
           IsFiniteSet(DOMAIN new[i]), NEW id
    PROVE  /\ FiniteLists(new) /\ Uses(id, lists) \in Nat /\ Uses(id, new) \in Nat
           /\ Times(id, lists[i]) \in Nat /\ Times(id, new[i]) \in Nat
           /\ Uses(id, new) = Uses(id, lists) - Times(id, lists[i]) + Times(id, new[i])
<1> DEFINE others == [j \in DOMAIN lists \ {i} |-> lists[j]]
<1>1. /\ DOMAIN others = DOMAIN lists \ {i}
      /\ \A j \in DOMAIN others : others[j] = lists[j] /\ others[j] = new[j]
  OBVIOUS
<1> HIDE DEF others
<1>2. FiniteLists(new)
  BY DEF FiniteLists
<1>3. /\ Uses(id, others) \in Nat /\ Times(id, lists[i]) \in Nat
      /\ Uses(id, lists) = Uses(id, others) + Times(id, lists[i])
  BY <1>1, SplitUses
<1>4. /\ Times(id, new[i]) \in Nat
      /\ Uses(id, new) = Uses(id, others) + Times(id, new[i])
  <2>1. /\ i \in DOMAIN new /\ DOMAIN others = DOMAIN new \ {i}
        /\ \A j \in DOMAIN others : others[j] = new[j]
    BY <1>1
  <2>2. QED
    BY <1>2, <2>1, SplitUses
<1>5. QED
  BY <1>2, <1>3, <1>4

LEMMA SomeUse ==
    ASSUME NEW lists, FiniteLists(lists), NEW id
    PROVE  /\ Uses(id, lists) \in Nat
           /\ Uses(id, lists) = 0 <=>
                  \A i \in DOMAIN lists : \A k \in DOMAIN lists[i] : lists[i][k] # id
<1>1. IsFiniteSet(Spots(id, lists)) /\ Uses(id, lists) \in Nat
  BY SpotsFinite
<1>2. Uses(id, lists) = 0 <=> Spots(id, lists) = {}
  BY <1>1, FS_EmptySet DEF Uses
<1>3. (\A i \in DOMAIN lists : \A k \in DOMAIN lists[i] : lists[i][k] # id) =>
          Spots(id, lists) = {}
  BY DEF Spots
<1>4. ASSUME NEW i \in DOMAIN lists, NEW k \in DOMAIN lists[i], lists[i][k] = id
      PROVE  <<i, k>> \in Spots(id, lists)
  BY <1>4, SpotsAre
<1>5. QED
  BY <1>1, <1>2, <1>3, <1>4

(* An id that is used once at most is in one place.                        *)
LEMMA OneUse ==
    ASSUME NEW lists, FiniteLists(lists), NEW id, Uses(id, lists) <= 1,
           NEW i \in DOMAIN lists, NEW k \in DOMAIN lists[i], lists[i][k] = id,
           NEW j \in DOMAIN lists, NEW m \in DOMAIN lists[j], lists[j][m] = id
    PROVE  i = j /\ k = m
<1>1. <<i, k>> \in Spots(id, lists) /\ <<j, m>> \in Spots(id, lists)
  BY SpotsAre
<1>2. IsFiniteSet(Spots(id, lists)) /\ Uses(id, lists) \in Nat
  BY SpotsFinite
<1>3. Cardinality(Spots(id, lists)) = 1
  <2>1. Uses(id, lists) # 0
    BY <1>1, <1>2, FS_EmptySet DEF Uses
  <2>2. QED
    BY <1>2, <2>1 DEF Uses
<1>4. PICK p : Spots(id, lists) = {p}
  BY <1>2, <1>3, FS_Singleton
<1>5. QED
  BY <1>1, <1>4

(* One for what is the case.                                               *)
Num(b) == IF b THEN 1 ELSE 0

LEMMA TimesOfMore ==
    ASSUME NEW S, NEW s \in Seq(S), NEW x, NEW id
    PROVE  /\ Times(id, << >>) = 0
           /\ Times(id, s) \in Nat
           /\ Times(id, Append(s, x)) = Times(id, s) + Num(x = id)
<1> DEFINE n == Len(s)
           t == Append(s, x)
<1>1. Where(id, << >>) = {}
  BY DEF Where
<1>2. n \in Nat /\ DOMAIN s = 1..n
  OBVIOUS
<1>3. IsFiniteSet(1..n)
  BY <1>2, FS_Interval
<1>4. IsFiniteSet(Where(id, s)) /\ Times(id, s) \in Nat
  BY <1>2, <1>3, TimesFinite
<1>5. DOMAIN t = 1..(n + 1) /\ t[n + 1] = x /\ \A k \in 1..n : t[k] = s[k]
  <2>1. s \in Seq(S \cup {x}) /\ x \in S \cup {x}
    OBVIOUS
  <2>2. QED
    BY <2>1, AppendProperties
<1> HIDE DEF n, t
<1>6. Where(id, t) = IF x = id THEN Where(id, s) \cup {n + 1} ELSE Where(id, s)
  <2>1. 1..(n + 1) = 1..n \cup {n + 1} /\ n + 1 \notin 1..n
    BY <1>2
  <2>2. QED
    BY <1>2, <1>5, <2>1 DEF Where
<1>7. n + 1 \notin Where(id, s)
  BY <1>2 DEF Where
<1>8. Cardinality(Where(id, s) \cup {n + 1}) = Cardinality(Where(id, s)) + 1
  BY <1>4, <1>7, FS_AddElement
<1>9. Times(id, t) = Times(id, s) + Num(x = id)
  BY <1>4, <1>6, <1>8 DEF Times, Num
<1>10. QED
  BY <1>1, <1>4, <1>9, FS_EmptySet DEF Times, t

LEMMA TimesOfFew ==
    ASSUME NEW x, NEW y, NEW id
    PROVE  /\ Times(id, << >>) = 0
           /\ Times(id, <<x>>) = Num(x = id)
           /\ Times(id, <<x, y>>) = Num(x = id) + Num(y = id)
<1> DEFINE none == << >>
           one == <<x>>
           two == <<x, y>>
<1>1. none \in Seq({x}) /\ one \in Seq({x})
  OBVIOUS
<1>2. one = Append(none, x) /\ two = Append(one, y)
  OBVIOUS
<1>3. Times(id, none) = 0
  BY <1>1, TimesOfMore
<1> HIDE DEF none, one, two
<1>4. Times(id, Append(none, x)) = Times(id, none) + Num(x = id)
  BY <1>1, TimesOfMore
<1>5. Times(id, Append(one, y)) = Times(id, one) + Num(y = id)
  BY <1>1, TimesOfMore
<1>6. Num(x = id) \in Nat /\ Num(y = id) \in Nat
  BY DEF Num
<1>7. Times(id, one) = Num(x = id) /\ Times(id, two) = Num(x = id) + Num(y = id)
  BY <1>2, <1>3, <1>4, <1>5, <1>6
<1>8. QED
  BY <1>3, <1>7 DEF none, one, two

-----------------------------------------------------------------------------
(* 2. The ids on the call stack: those that the frames keep, and the one   *)
(* that has been returned.                                                 *)

Sorts == {"block", "statement", "expr"}

(* The ids of a sort that a frame keeps.                                   *)
FrameIds(sort, fr) ==
    CASE sort = "statement" /\ fr.at \in {"statements", "declarators"} -> fr.statements
      [] sort = "expr" /\ fr.at = "rhs" -> <<fr.lhs>>
      [] sort = "expr" /\ fr.at = "operands" -> <<fr.acc>>
      [] sort = "expr" /\ fr.at = "arguments" -> fr.args
      [] OTHER -> << >>

FrameLists(sort, st) == [i \in DOMAIN st |-> FrameIds(sort, st[i])]

SortOf(want) == IF want = "declaration" THEN "statement" ELSE want

(* How often an id is on the stack: in the frames, or returned to the top. *)
IsResult(sort, id) == Num(stack # << >> /\ id = returned /\ SortOf(Wants(Top)) = sort)

OnStack(sort, id) == Uses(id, FrameLists(sort, stack)) + IsResult(sort, id)

InBelow(sort, id) == Uses(id, FrameLists(sort, Below))

Listed(fr) == \A sort \in Sorts : IsFiniteSet(DOMAIN FrameIds(sort, fr))

LEMMA SeqFinite ==
    ASSUME NEW S, NEW s \in Seq(S) PROVE IsFiniteSet(DOMAIN s)
<1>1. DOMAIN s = 1..Len(s) /\ Len(s) \in Nat
  OBVIOUS
<1>2. QED
  BY <1>1, FS_Interval

LEMMA FramesListed ==
    ASSUME NEW t, NEW s, NEW f, NEW x, NEW e, NEW fr \in Frames(t, s, f, x, e)
    PROVE  Listed(fr)
<1>1. SUFFICES ASSUME NEW sort \in Sorts PROVE IsFiniteSet(DOMAIN FrameIds(sort, fr))
  BY DEF Listed
<1>2. CASE sort = "statement" /\ fr.at \in {"statements", "declarators"}
  <2>1. fr.statements \in Seq(1..x)
    BY <1>2, FramesAt DEF StatementFrames, DeclaratorFrames
  <2>2. FrameIds(sort, fr) = fr.statements
    BY <1>2 DEF FrameIds
  <2>3. QED
    BY <2>1, <2>2, SeqFinite
<1>3. CASE sort = "expr" /\ fr.at = "arguments"
  <2>1. fr.args \in Seq(1..e)
    BY <1>3, FramesAt DEF ArgumentFrames
  <2>2. FrameIds(sort, fr) = fr.args
    BY <1>3 DEF FrameIds
  <2>3. QED
    BY <2>1, <2>2, SeqFinite
<1>4. CASE sort = "expr" /\ fr.at \in {"rhs", "operands"}
  <2>1. \E y : FrameIds(sort, fr) = <<y>>
    BY <1>4 DEF FrameIds
  <2>2. PICK y : FrameIds(sort, fr) = <<y>>
    BY <2>1
  <2>3. <<y>> \in Seq({y})
    OBVIOUS
  <2>4. QED
    BY <2>2, <2>3, SeqFinite
<1>5. CASE /\ ~(sort = "statement" /\ fr.at \in {"statements", "declarators"})
           /\ ~(sort = "expr" /\ fr.at \in {"arguments", "rhs", "operands"})
  <2>1. FrameIds(sort, fr) = << >>
    BY <1>5 DEF FrameIds
  <2>2. << >> \in Seq({})
    OBVIOUS
  <2>3. QED
    BY <2>1, <2>2, SeqFinite
<1>6. QED
  BY <1>2, <1>3, <1>4, <1>5

LEMMA ListsFinite ==
    ASSUME NEW F, NEW st \in Seq(F), \A fr \in F : Listed(fr), NEW sort \in Sorts
    PROVE  FiniteLists(FrameLists(sort, st))
<1>1. /\ IsFiniteSet(DOMAIN st) /\ DOMAIN FrameLists(sort, st) = DOMAIN st
  BY SeqFinite DEF FrameLists
<1>2. ASSUME NEW i \in DOMAIN st PROVE IsFiniteSet(DOMAIN FrameLists(sort, st)[i])
  <2>1. st[i] \in F
    OBVIOUS
  <2>2. FrameLists(sort, st)[i] = FrameIds(sort, st[i])
    BY DEF FrameLists
  <2>3. QED
    BY <2>1, <2>2 DEF Listed
<1>3. QED
  BY <1>1, <1>2 DEF FiniteLists

(* What one more frame adds to the stack.                                  *)
LEMMA OneMoreFrame ==
    ASSUME NEW F, NEW below \in Seq(F), \A fr \in F : Listed(fr), NEW st, NEW G, st \in Seq(G),
           Len(st) = Len(below) + 1, \A i \in 1..Len(below) : st[i] = below[i],
           Listed(st[Len(st)]), NEW sort \in Sorts, NEW id
    PROVE  /\ Uses(id, FrameLists(sort, below)) \in Nat
           /\ Times(id, FrameIds(sort, st[Len(st)])) \in Nat
           /\ Uses(id, FrameLists(sort, st)) =
                  Uses(id, FrameLists(sort, below)) + Times(id, FrameIds(sort, st[Len(st)]))
<1> DEFINE n == Len(below)
           A == FrameLists(sort, below)
           B == FrameLists(sort, st)
<1>1. /\ n \in Nat /\ DOMAIN A = 1..n /\ DOMAIN B = 1..(n + 1) /\ Len(st) = n + 1
  BY DEF FrameLists
<1>2. FiniteLists(A)
  BY ListsFinite
<1>3. \A j \in 1..n : B[j] = A[j]
  BY DEF FrameLists
<1>4. B[n + 1] = FrameIds(sort, st[Len(st)])
  BY <1>1 DEF FrameLists
<1>5. IsFiniteSet(DOMAIN B[n + 1])
  BY <1>4 DEF Listed
<1> HIDE DEF n, A, B
<1>6. /\ Uses(id, A) \in Nat /\ Times(id, B[n + 1]) \in Nat
      /\ Uses(id, B) = Uses(id, A) + Times(id, B[n + 1])
  BY <1>1, <1>2, <1>3, <1>5, MoreUses
<1>7. QED
  BY <1>4, <1>6 DEF A, B

LEMMA FramesNowListed ==
    ASSUME BuilderInv PROVE stack \in Seq(FramesNow) /\ \A fr \in FramesNow : Listed(fr)
BY FramesListed DEF BuilderInv, StackOK, FramesNow

LEMMA ResultNum == ASSUME NEW sort, NEW id PROVE IsResult(sort, id) \in {0, 1}
BY DEF IsResult, Num

LEMMA StackUses ==
    ASSUME BuilderInv, stack # << >>, NEW sort \in Sorts, NEW id
    PROVE  /\ InBelow(sort, id) \in Nat /\ Times(id, FrameIds(sort, Top)) \in Nat
           /\ OnStack(sort, id) =
                  InBelow(sort, id) + Times(id, FrameIds(sort, Top)) + IsResult(sort, id)
<1>1. /\ stack \in Seq(FramesNow) /\ Below \in Seq(FramesNow) /\ Len(stack) = Len(Below) + 1
      /\ \A i \in 1..Len(Below) : stack[i] = Below[i]
      /\ Top \in FramesNow /\ stack[Len(stack)] = Top
  BY TopFacts DEF BuilderInv, StackOK, Top
<1>2. \A fr \in FramesNow : Listed(fr)
  BY FramesNowListed
<1>3. /\ InBelow(sort, id) \in Nat /\ Times(id, FrameIds(sort, Top)) \in Nat
      /\ Uses(id, FrameLists(sort, stack)) = InBelow(sort, id) + Times(id, FrameIds(sort, Top))
  <2> DEFINE st == stack
             below == Below
             F == FramesNow
  <2>1. /\ st \in Seq(F) /\ below \in Seq(F) /\ Len(st) = Len(below) + 1
        /\ \A i \in 1..Len(below) : st[i] = below[i]
        /\ st[Len(st)] = Top /\ Listed(Top) /\ \A fr \in F : Listed(fr)
    BY <1>1, <1>2
  <2> HIDE DEF st, below, F
  <2>2. /\ Uses(id, FrameLists(sort, below)) \in Nat
        /\ Times(id, FrameIds(sort, Top)) \in Nat
        /\ Uses(id, FrameLists(sort, st)) =
               Uses(id, FrameLists(sort, below)) + Times(id, FrameIds(sort, Top))
    BY <2>1, OneMoreFrame
  <2>3. QED
    BY <2>2 DEF st, below, InBelow
<1>4. QED
  BY <1>3, ResultNum DEF OnStack

LEMMA NoResult ==
    ASSUME returned = Invalid, NEW sort, NEW id \in Ids
    PROVE  IsResult(sort, id) = 0
BY DEF IsResult, Num, Ids

(* What a step of a build function does to what is on the stack.           *)
LEMMA TailUses ==
    ASSUME stack' = stack, returned' = returned, NEW sort, NEW id
    PROVE  OnStack(sort, id)' = OnStack(sort, id)
<1>1. Top' = Top
  BY DEF Top
<1>2. QED
  BY <1>1 DEF OnStack, IsResult

LEMMA ReturnUses ==
    ASSUME BuilderInv, call # Null, NEW r, Return(r), NEW sort \in Sorts, NEW id \in Ids
    PROVE  /\ OnStack(sort, id) \in Nat
           /\ OnStack(sort, id)' = OnStack(sort, id) + Num(id = r /\ SortOf(Wants(Top)) = sort)
<1>1. stack # << >> /\ returned = Invalid
  BY CalledFacts
<1>2. stack' = stack /\ returned' = r /\ Top' = Top
  BY DEF Return, Top
<1>3. /\ InBelow(sort, id) \in Nat /\ Times(id, FrameIds(sort, Top)) \in Nat
      /\ OnStack(sort, id) = InBelow(sort, id) + Times(id, FrameIds(sort, Top)) + IsResult(sort, id)
  BY <1>1, StackUses
<1>4. IsResult(sort, id) = 0
  BY <1>1, NoResult
<1>5. OnStack(sort, id) = Uses(id, FrameLists(sort, stack)) + IsResult(sort, id)
  BY DEF OnStack
<1>6. OnStack(sort, id)' = Uses(id, FrameLists(sort, stack)) + IsResult(sort, id)'
  BY <1>2 DEF OnStack
<1>7. IsResult(sort, id)' = Num(id = r /\ SortOf(Wants(Top)) = sort)
  BY <1>1, <1>2 DEF IsResult
<1>8. Num(id = r /\ SortOf(Wants(Top)) = sort) \in {0, 1}
  BY DEF Num
<1>9. Uses(id, FrameLists(sort, stack)) \in Nat
  BY FramesNowListed, ListsFinite, SpotsFinite
<1>10. QED
  BY <1>4, <1>5, <1>6, <1>7, <1>8, <1>9

LEMMA FrameAdded ==
    ASSUME BuilderInv', NEW below \in Seq(FramesNow), \A f \in FramesNow : Listed(f),
           NEW fr, stack' = Append(below, fr), NEW sort \in Sorts, NEW id
    PROVE  /\ Uses(id, FrameLists(sort, below)) \in Nat
           /\ Times(id, FrameIds(sort, fr)) \in Nat
           /\ Uses(id, FrameLists(sort, stack')) =
                  Uses(id, FrameLists(sort, below)) + Times(id, FrameIds(sort, fr))
<1> DEFINE st == stack'
           G == FramesNow'
           F == FramesNow
<1>1. st \in Seq(G) /\ \A f \in G : Listed(f)
  BY FramesListed DEF BuilderInv, StackOK, FramesNow
<1>2. st = Append(below, fr) /\ below \in Seq(F) /\ \A f \in F : Listed(f)
  OBVIOUS
<1> HIDE DEF st, G, F
<1>3. /\ Len(st) = Len(below) + 1 /\ st[Len(st)] = fr /\ Len(below) \in Nat
      /\ \A i \in 1..Len(below) : st[i] = below[i]
  BY <1>2
<1>4. Len(st) \in 1..Len(st)
  BY <1>3
<1>5. Listed(fr)
  BY <1>1, <1>3, <1>4, ElementOfSeq
<1>6. /\ Uses(id, FrameLists(sort, below)) \in Nat
      /\ Times(id, FrameIds(sort, fr)) \in Nat
      /\ Uses(id, FrameLists(sort, st)) =
             Uses(id, FrameLists(sort, below)) + Times(id, FrameIds(sort, fr))
  BY <1>1, <1>2, <1>3, <1>5, OneMoreFrame
<1>7. QED
  BY <1>6 DEF st

LEMMA CallUses ==
    ASSUME BuilderInv, BuilderInv', call # Null, NEW fr, NEW node, CallFrom(fr, node),
           NEW sort \in Sorts, NEW id \in Ids, Times(id, FrameIds(sort, fr)) = 0
    PROVE  OnStack(sort, id)' = OnStack(sort, id)
<1>1. returned = Invalid /\ stack \in Seq(FramesNow)
  BY CalledFacts, FramesNowListed
<1>2. returned' = Invalid /\ stack' = Append(stack, fr)
  BY <1>1 DEF CallFrom
<1>3. /\ Uses(id, FrameLists(sort, stack)) \in Nat
      /\ Uses(id, FrameLists(sort, stack')) = Uses(id, FrameLists(sort, stack)) + 0
  BY <1>1, <1>2, FramesNowListed, FrameAdded
<1>4. IsResult(sort, id) = 0 /\ IsResult(sort, id)' = 0
  BY <1>1, <1>2 DEF IsResult, Num, Ids
<1>5. QED
  BY <1>3, <1>4 DEF OnStack

LEMMA ResumeUses ==
    ASSUME BuilderInv, BuilderInv', stack # << >>, NEW fr, NEW node, Resume(fr, node),
           NEW sort \in Sorts, NEW id \in Ids
    PROVE  OnStack(sort, id)' = InBelow(sort, id) + Times(id, FrameIds(sort, fr))
<1>1. /\ Below \in Seq(FramesNow)
  BY TopFacts DEF BuilderInv
<1>2. returned' = Invalid /\ stack' = Append(Below, fr)
  BY DEF Resume

<1>4. /\ InBelow(sort, id) \in Nat /\ Times(id, FrameIds(sort, fr)) \in Nat
      /\ Uses(id, FrameLists(sort, stack')) = InBelow(sort, id) + Times(id, FrameIds(sort, fr))
  BY <1>1, <1>2, FramesNowListed, FrameAdded DEF InBelow
<1>5. IsResult(sort, id)' = 0
  BY <1>2 DEF IsResult, Num, Ids
<1>6. OnStack(sort, id)' = Uses(id, FrameLists(sort, stack')) + IsResult(sort, id)'
  BY DEF OnStack
<1>7. QED
  BY <1>4, <1>5, <1>6

LEMMA LeaveUses ==
    ASSUME BuilderInv, BuilderInv', stack # << >>, NEW r, Leave(r),
           NEW sort \in Sorts, NEW id \in Ids
    PROVE  OnStack(sort, id)' = InBelow(sort, id) + Num(id = r /\ SortOf(Gives(Top)) = sort)
<1>1. /\ Below \in Seq(FramesNow) /\ Len(Below) = Len(stack) - 1 /\ Len(stack) \in Nat \ {0}
      /\ \A i \in 1..Len(Below) : Below[i] = stack[i]
      /\ stack \in Seq(FramesNow) /\ Linked(stack)
  BY TopFacts DEF BuilderInv, StackOK
<1>2. stack' = Below /\ returned' = r
  BY DEF Leave
<1>3. OnStack(sort, id)' = InBelow(sort, id) + IsResult(sort, id)'
  BY <1>2 DEF OnStack, InBelow
<1>4. IsResult(sort, id)' = Num(id = r /\ SortOf(Gives(Top)) = sort)
  <2>1. CASE stack' = << >>
    <3>1. Top = stack[1]
      <4>1. Len(Below) = 0
        BY <1>2, <2>1
      <4>2. Len(stack) = 1
        BY <1>1, <4>1
      <4>3. QED
        BY <4>2 DEF Top
    <3>2. Top.at = "script"
      BY <1>1, <3>1 DEF Linked
    <3>3. SortOf(Gives(Top)) # sort
      BY <3>2 DEF Gives, SortOf, Sorts
    <3>4. QED
      BY <2>1, <3>3 DEF IsResult, Num
  <2>2. CASE stack' # << >>
    <3>1. Len(stack) \in 2..Len(stack)
      BY <1>1, <1>2, <2>2, EmptySeq
    <3>2. Top' = stack[Len(stack) - 1]
      BY <1>1, <1>2, <3>1 DEF Top
    <3>3. Gives(Top) = Wants(Top')
      BY <1>1, <3>1, <3>2 DEF Linked, Top
    <3>4. QED
      BY <1>2, <2>2, <3>3 DEF IsResult
  <2>3. QED
    BY <2>1, <2>2
<1>5. QED
  BY <1>3, <1>4

-----------------------------------------------------------------------------
(* 3. The invariant, and the steps that neither add nor move an id.        *)

(* The operands of an expression, without what a compound assignment       *)
(* assigns to: that is an operand of its value.                            *)
OperandsOf(e, xs) == IF IsCompound(e, xs) THEN <<Invalid, e.kids[2]>> ELSE e.kids

Operands(xs) == [i \in DOMAIN xs |-> OperandsOf(xs[i], xs)]

(* How often a block, a statement or an expression is used at all: by the  *)
(* module, or on the stack.                                                *)
BlockUses(b) ==
    Uses(b, BodiesOf(functions)) + Uses(b, BlocksOf(statements)) + OnStack("block", b)

StatementUses(s) == Uses(s, blocks) + OnStack("statement", s)

ExprUses(e) == Uses(e, Operands(exprs)) + Uses(e, KidsOf(statements)) + OnStack("expr", e)

(* Nothing is in two places, and nothing is lost without a report.         *)
BlocksOnce == \A b \in 1..Len(blocks) : BlockUses(b) = 1

StatementsOnce == \A s \in 1..Len(statements) : StatementUses(s) = 1

ExprsOnce ==
    \A e \in 1..Len(exprs) : ExprUses(e) \in {0, 1} /\ (ExprUses(e) = 0 => diags # {})

(* Where IsCompound looks for two operands there are two.                  *)
TwoOperands(xs) ==
    \A e \in 1..Len(xs) : xs[e].kind \in {"Assign", "Binary"} => Len(xs[e].kids) = 2

(* The inductive invariant.                                                *)
TreeInv == BlocksOnce /\ StatementsOnce /\ ExprsOnce /\ TwoOperands(exprs)

(* A step that leaves the stack alone as far as ids are concerned.         *)
SameOnStack == \A sort \in Sorts : \A id \in Ids : OnStack(sort, id)' = OnStack(sort, id)

KeepsNothing(fr) == \A sort \in Sorts : \A id \in Ids : Times(id, FrameIds(sort, fr)) = 0

LEMMA NothingKept ==
    ASSUME NEW fr,
           fr.at \in {"script", "parameters", "body", "initializer", "exprStat", "return",
                      "ternary", "lhs"}
    PROVE  KeepsNothing(fr)
<1>1. \A sort \in Sorts : FrameIds(sort, fr) = << >>
  BY DEF FrameIds
<1>2. QED
  BY <1>1, TimesOfFew DEF KeepsNothing

LEMMA NothingKeptYet ==
    ASSUME NEW fr,
           \/ fr.at \in {"statements", "declarators"} /\ fr.statements = << >>
           \/ fr.at = "operands" /\ fr.acc = Invalid
           \/ fr.at = "arguments" /\ fr.args = << >>
    PROVE  KeepsNothing(fr)
<1>1. SUFFICES ASSUME NEW sort \in Sorts, NEW id \in Ids PROVE Times(id, FrameIds(sort, fr)) = 0
  BY DEF KeepsNothing
<1>2. FrameIds(sort, fr) = << >> \/ FrameIds(sort, fr) = <<Invalid>>
  BY DEF FrameIds
<1>3. Times(id, <<Invalid>>) = 0
  BY TimesOfFew DEF Num, Ids
<1>4. QED
  BY <1>2, <1>3, TimesOfFew

LEMMA TailSame ==
    ASSUME stack' = stack, returned' = returned PROVE SameOnStack
BY TailUses DEF SameOnStack

LEMMA CallSame ==
    ASSUME BuilderInv, BuilderInv', call # Null, NEW fr, NEW node, CallFrom(fr, node),
           KeepsNothing(fr)
    PROVE  SameOnStack
<1>1. SUFFICES ASSUME NEW sort \in Sorts, NEW id \in Ids
               PROVE  OnStack(sort, id)' = OnStack(sort, id)
  BY DEF SameOnStack
<1>2. Times(id, FrameIds(sort, fr)) = 0
  BY DEF KeepsNothing
<1>3. QED
  BY <1>2, CallUses

LEMMA ResumeSame ==
    ASSUME BuilderInv, BuilderInv', stack # << >>, NEW fr, NEW node, Resume(fr, node),
           \A sort \in Sorts : \A id \in Ids :
               Times(id, FrameIds(sort, fr)) = Times(id, FrameIds(sort, Top)) + IsResult(sort, id)
    PROVE  SameOnStack
<1>1. SUFFICES ASSUME NEW sort \in Sorts, NEW id \in Ids
               PROVE  OnStack(sort, id)' = OnStack(sort, id)
  BY DEF SameOnStack
<1>2. /\ InBelow(sort, id) \in Nat /\ Times(id, FrameIds(sort, Top)) \in Nat
      /\ OnStack(sort, id) =
             InBelow(sort, id) + Times(id, FrameIds(sort, Top)) + IsResult(sort, id)
  BY StackUses
<1>3. OnStack(sort, id)' = InBelow(sort, id) + Times(id, FrameIds(sort, fr))
  BY ResumeUses
<1>4. IsResult(sort, id) \in Nat
  BY ResultNum
<1>5. QED
  BY <1>2, <1>3, <1>4

(* A step that leaves the parts of the module that hold ids alone.         *)
SameBodies == \A b \in Ids : Uses(b, BodiesOf(functions')) = Uses(b, BodiesOf(functions))

Quiet ==
    /\ blocks' = blocks /\ statements' = statements /\ exprs' = exprs
    /\ diags \subseteq diags' /\ SameBodies /\ SameOnStack

LEMMA IdsAre == ASSUME NEW n, NEW i \in 1..n PROVE i \in Ids
BY DEF Ids, Invalid

LEMMA QuietKeepsTree ==
    ASSUME BuilderInv, TreeInv, Quiet
    PROVE  TreeInv'
<1>1. \A sort \in Sorts : \A id \in Ids : OnStack(sort, id)' = OnStack(sort, id)
  BY DEF Quiet, SameOnStack
<1>2. /\ blocks' = blocks /\ statements' = statements /\ exprs' = exprs
      /\ "block" \in Sorts /\ "statement" \in Sorts /\ "expr" \in Sorts
  BY DEF Quiet, Sorts
<1>3. BlocksOnce'
  <2>1. SUFFICES ASSUME NEW b \in 1..Len(blocks) PROVE BlockUses(b)' = 1
    BY <1>2 DEF BlocksOnce
  <2>2. b \in Ids /\ BlockUses(b) = 1
    BY IdsAre DEF TreeInv, BlocksOnce
  <2>3. Uses(b, BodiesOf(functions')) = Uses(b, BodiesOf(functions))
    BY <2>2 DEF Quiet, SameBodies
  <2>4. OnStack("block", b)' = OnStack("block", b)
    BY <1>1, <1>2, <2>2
  <2>5. QED
    BY <1>2, <2>2, <2>3, <2>4 DEF BlockUses
<1>4. StatementsOnce'
  <2>1. SUFFICES ASSUME NEW s \in 1..Len(statements) PROVE StatementUses(s)' = 1
    BY <1>2 DEF StatementsOnce
  <2>2. s \in Ids /\ StatementUses(s) = 1
    BY IdsAre DEF TreeInv, StatementsOnce
  <2>3. OnStack("statement", s)' = OnStack("statement", s)
    BY <1>1, <1>2, <2>2
  <2>4. QED
    BY <1>2, <2>2, <2>3 DEF StatementUses
<1>5. ExprsOnce'
  <2>1. SUFFICES ASSUME NEW e \in 1..Len(exprs)
                 PROVE  ExprUses(e)' \in {0, 1} /\ (ExprUses(e)' = 0 => diags' # {})
    BY <1>2 DEF ExprsOnce
  <2>2. e \in Ids /\ ExprUses(e) \in {0, 1} /\ (ExprUses(e) = 0 => diags # {})
    BY IdsAre DEF TreeInv, ExprsOnce
  <2>3. OnStack("expr", e)' = OnStack("expr", e)
    BY <1>1, <1>2, <2>2
  <2>4. Operands(exprs') = Operands(exprs)
    BY <1>2
  <2>5. ExprUses(e)' = ExprUses(e)
    BY <1>2, <2>3, <2>4 DEF ExprUses
  <2>6. QED
    BY <2>2, <2>5 DEF Quiet
<1>6. TwoOperands(exprs')
  BY <1>2 DEF TreeInv, TwoOperands
<1>7. QED
  BY <1>3, <1>4, <1>5, <1>6 DEF TreeInv

LEMMA SameFunctionsSameBodies == ASSUME functions' = functions PROVE SameBodies
BY DEF SameBodies

LEMMA CallsQuiet ==
    ASSUME BuilderInv, BuilderInv',
           \/ BuildStatBlock \/ BuildVarDecl \/ BuildExprStat \/ BuildReturn \/ BuildAssign
           \/ BuildCondition \/ BuildExpr \/ BuildExprTerm \/ BuildFuncCall
    PROVE  Quiet
<1>1. /\ functions' = functions /\ blocks' = blocks /\ statements' = statements
      /\ exprs' = exprs /\ diags \subseteq diags'
  BY DEF BuildStatBlock, BuildVarDecl, BuildExprStat, BuildReturn, BuildAssign,
         BuildCondition, BuildExpr, BuildExprTerm, BuildFuncCall, arena, Report
<1>2. call # Null
  BY CalledIs DEF BuildStatBlock, BuildVarDecl, BuildExprStat, BuildReturn, BuildAssign,
         BuildCondition, BuildExpr, BuildExprTerm, BuildFuncCall
<1>3. \/ stack' = stack /\ returned' = returned
      \/ \E fr, node : CallFrom(fr, node) /\ KeepsNothing(fr)
  <2>1. CASE BuildStatBlock
    <3> DEFINE fr == [at |-> "statements", rest |-> call.statements, statements |-> << >>,
                      isBody |-> Top.at = "body"]
    <3>1. CallFrom(fr, Null)
      BY <2>1 DEF BuildStatBlock
    <3>2. KeepsNothing(fr)
      BY NothingKeptYet
    <3>3. QED
      BY <3>1, <3>2
  <2>2. CASE BuildVarDecl
    <3> DEFINE fr == [at |-> "declarators", rest |-> call.decls, statements |-> << >>,
                      type |-> TypeOf(call.type)]
    <3>1. CallFrom(fr, Null)
      BY <2>2 DEF BuildVarDecl
    <3>2. KeepsNothing(fr)
      BY NothingKeptYet
    <3>3. QED
      BY <3>1, <3>2
  <2>3. CASE BuildExprStat
    <3> DEFINE fr == [at |-> "exprStat"]
    <3>1. CallFrom(fr, call.assign)
      BY <2>3 DEF BuildExprStat
    <3>2. KeepsNothing(fr)
      BY NothingKept
    <3>3. QED
      BY <3>1, <3>2
  <2>4. CASE BuildReturn
    <3> DEFINE fr == [at |-> "return"]
    <3>1. CallFrom(fr, call.value)
      BY <2>4 DEF BuildReturn
    <3>2. KeepsNothing(fr)
      BY NothingKept
    <3>3. QED
      BY <3>1, <3>2
  <2>5. CASE BuildAssign
    <3> DEFINE fr == [at |-> "lhs", op |-> call.op, rhs |-> call.rhs]
    <3>1. TailCall(call.condition) \/ CallFrom(fr, call.condition)
      BY <2>5 DEF BuildAssign
    <3>2. KeepsNothing(fr)
      BY NothingKept
    <3> HIDE DEF fr
    <3>3. QED
      BY <3>1, <3>2 DEF TailCall
  <2>6. CASE BuildCondition
    <3> DEFINE fr == [at |-> "ternary"]
    <3>1. TailCall(call.expr) \/ CallFrom(fr, call.expr)
      BY <2>6 DEF BuildCondition
    <3>2. KeepsNothing(fr)
      BY NothingKept
    <3> HIDE DEF fr
    <3>3. QED
      BY <3>1, <3>2 DEF TailCall
  <2>7. CASE BuildExpr
    <3> DEFINE fr == [at |-> "operands", acc |-> Invalid, op |-> "", rest |-> call.rest]
    <3>1. TailCall(call.first) \/ CallFrom(fr, call.first)
      BY <2>7 DEF BuildExpr
    <3>2. KeepsNothing(fr)
      BY NothingKeptYet
    <3> HIDE DEF fr
    <3>3. QED
      BY <3>1, <3>2 DEF TailCall
  <2>8. CASE BuildExprTerm
    BY <2>8 DEF BuildExprTerm, TailCall
  <2>9. CASE BuildFuncCall
    <3> DEFINE f == Callee(call.name)
               fr == [at |-> "arguments", function |-> f, rest |-> call.args, args |-> << >>]
    <3>1. CallFrom(fr, Null)
      BY <2>9 DEF BuildFuncCall
    <3>2. KeepsNothing(fr)
      BY NothingKeptYet
    <3>3. QED
      BY <3>1, <3>2
  <2>10. QED
    BY <2>1, <2>2, <2>3, <2>4, <2>5, <2>6, <2>7, <2>8, <2>9
<1>4. SameOnStack
  BY <1>2, <1>3, TailSame, CallSame
<1>5. QED
  BY <1>1, <1>4, SameFunctionsSameBodies DEF Quiet

LEMMA TakenUses ==
    ASSUME BuilderInv, NEW point \in {"statements", "declarators"}, At(point),
           NEW fr, fr.at = point, fr.statements = Taken, NEW sort \in Sorts, NEW id \in Ids
    PROVE  Times(id, FrameIds(sort, fr)) = Times(id, FrameIds(sort, Top)) + IsResult(sort, id)
<1>1. /\ stack # << >> /\ Top.at = point /\ Top \in FramesNow
  BY AtFacts
<1>2. Top.statements \in Seq(1..Len(statements))
  <2>1. Top \in Frames(Len(types), Len(symbols), Len(functions), Len(statements), Len(exprs))
    BY AtFacts
  <2>2. QED
    BY <1>1, <2>1, FramesAt DEF StatementFrames, DeclaratorFrames
<1>3. SortOf(Wants(Top)) = "statement"
  BY <1>1 DEF Wants, SortOf
<1>4. CASE sort = "statement"
  <2>1. FrameIds(sort, fr) = Taken /\ FrameIds(sort, Top) = Top.statements
    BY <1>1, <1>4 DEF FrameIds
  <2>2. IsResult(sort, id) = Num(returned = id)
    BY <1>1, <1>3, <1>4 DEF IsResult, Num
  <2> DEFINE s == Top.statements
             t == Append(s, returned)
  <2>3. Times(id, s) \in Nat /\ Times(id, t) = Times(id, s) + Num(returned = id)
    BY <1>2, TimesOfMore
  <2>4. CASE returned = Invalid
    <3>1. Num(returned = id) = 0
      BY <2>4 DEF Num, Ids
    <3> HIDE DEF t
    <3>2. QED
      BY <2>1, <2>2, <2>3, <2>4, <3>1 DEF Taken
  <2>5. CASE returned # Invalid
    <3>1. Taken = t
      BY <2>5 DEF Taken
    <3> HIDE DEF t
    <3>2. QED
      BY <2>1, <2>2, <2>3, <3>1
  <2>6. QED
    BY <2>4, <2>5
<1>5. CASE sort # "statement"
  <2>1. FrameIds(sort, fr) = << >> /\ FrameIds(sort, Top) = << >>
    BY <1>1, <1>5 DEF FrameIds
  <2>2. IsResult(sort, id) = 0
    BY <1>3, <1>5 DEF IsResult, Num
  <2>3. Times(id, << >>) = 0
    BY TimesOfFew
  <2>4. QED
    BY <2>1, <2>2, <2>3
<1>6. QED
  BY <1>4, <1>5

LEMMA NextStatementQuiet ==
    ASSUME BuilderInv, BuilderInv', NextStatement
    PROVE  Quiet
<1>1. /\ functions' = functions /\ blocks' = blocks /\ statements' = statements
      /\ exprs' = exprs /\ diags \subseteq diags' /\ At("statements")
  BY DEF NextStatement, arena
<1> DEFINE fr == [at |-> "statements", rest |-> Tail(Top.rest), statements |-> Taken,
                  isBody |-> Top.isBody]
<1>2. Resume(fr, Head(Top.rest))
  BY DEF NextStatement
<1>3. fr.at = "statements" /\ fr.statements = Taken
  OBVIOUS
<1> HIDE DEF fr
<1>4. stack # << >>
  BY <1>1, AtFacts
<1>5. \A sort \in Sorts : \A id \in Ids :
          Times(id, FrameIds(sort, fr)) = Times(id, FrameIds(sort, Top)) + IsResult(sort, id)
  BY <1>1, <1>3, TakenUses
<1>6. SameOnStack
  BY <1>2, <1>4, <1>5, ResumeSame
<1>7. QED
  BY <1>1, <1>6, SameFunctionsSameBodies DEF Quiet

(* A frame whose function goes on with nothing in hand.                    *)
LEMMA PlainResumeSame ==
    ASSUME BuilderInv, BuilderInv', stack # << >>, NEW fr, NEW node, Resume(fr, node),
           KeepsNothing(fr), KeepsNothing(Top),
           \A sort \in Sorts : \A id \in Ids : IsResult(sort, id) = 0
    PROVE  SameOnStack
<1>1. \A sort \in Sorts : \A id \in Ids :
          Times(id, FrameIds(sort, fr)) = Times(id, FrameIds(sort, Top)) + IsResult(sort, id)
  BY DEF KeepsNothing
<1>2. QED
  BY <1>1, ResumeSame

LEMMA NothingReturned ==
    ASSUME returned = Invalid \/ stack = << >> \/ SortOf(Wants(Top)) \notin Sorts
    PROVE  \A sort \in Sorts : \A id \in Ids : IsResult(sort, id) = 0
BY DEF IsResult, Num, Ids

LEMMA BuildOtherChildQuiet ==
    ASSUME BuilderInv, BuilderInv', BuildOtherChild
    PROVE  Quiet
<1>1. /\ functions' = functions /\ blocks' = blocks /\ statements' = statements
      /\ exprs' = exprs /\ diags \subseteq diags' /\ At("script")
  BY DEF BuildOtherChild, arena, Report
<1> DEFINE fr == [Top EXCEPT !.next = @ + 1]
<1>2. Resume(fr, Null)
  BY DEF BuildOtherChild
<1>3. /\ returned = Invalid /\ Top \in ScriptFrames /\ fr \in ScriptFrames /\ stack # << >>
  BY <1>1, ScriptFound, AtFacts
<1>4. Top.at = "script" /\ fr.at = "script"
  BY <1>3 DEF ScriptFrames
<1> HIDE DEF fr
<1>5. KeepsNothing(fr) /\ KeepsNothing(Top)
  BY <1>4, NothingKept
<1>6. SameOnStack
  BY <1>2, <1>3, <1>5, PlainResumeSame, NothingReturned
<1>7. QED
  BY <1>1, <1>6, SameFunctionsSameBodies DEF Quiet

LEMMA BuildBodyQuiet ==
    ASSUME BuilderInv, BuilderInv', BuildBody
    PROVE  Quiet
<1>1. /\ functions' = functions /\ blocks' = blocks /\ statements' = statements
      /\ exprs' = exprs /\ diags \subseteq diags' /\ At("parameters")
  BY DEF BuildBody, arena
<1> DEFINE fr == [at |-> "body", function |-> Top.function, prev |-> Top.prev]
<1>2. Resume(fr, Top.body)
  BY DEF BuildBody
<1>3. stack # << >> /\ Top.at = "parameters" /\ fr.at = "body"
  BY <1>1, AtFacts
<1>4. SortOf(Wants(Top)) \notin Sorts
  BY <1>3 DEF SortOf, Wants, Sorts
<1> HIDE DEF fr
<1>5. KeepsNothing(fr) /\ KeepsNothing(Top)
  BY <1>3, NothingKept
<1>6. SameOnStack
  BY <1>2, <1>3, <1>4, <1>5, PlainResumeSame, NothingReturned
<1>7. QED
  BY <1>1, <1>6, SameFunctionsSameBodies DEF Quiet

LEMMA DeclareParameterQuiet ==
    ASSUME BuilderInv, BuilderInv', DeclareParameter
    PROVE  Quiet
<1>1. /\ blocks' = blocks /\ statements' = statements
      /\ exprs' = exprs /\ diags \subseteq diags' /\ At("parameters")
  BY DEF DeclareParameter
<1> DEFINE fr == [Top EXCEPT !.next = @ + 1]
<1>2. Resume(fr, Null)
  BY DEF DeclareParameter
<1>3. /\ stack # << >> /\ Top.at = "parameters" /\ Top \in ParameterFrames(Len(functions))
      /\ Top.function \in 1..Len(functions)
  BY <1>1, AtFacts, FunctionFound
<1>4. fr.at = "parameters"
  BY <1>3 DEF ParameterFrames
<1>5. SortOf(Wants(Top)) \notin Sorts
  BY <1>3 DEF SortOf, Wants, Sorts
<1> HIDE DEF fr
<1>6. KeepsNothing(fr) /\ KeepsNothing(Top)
  BY <1>3, <1>4, NothingKept
<1>7. SameOnStack
  BY <1>2, <1>3, <1>5, <1>6, PlainResumeSame, NothingReturned
<1>8. SameBodies
  <2>1. functions \in Seq(FunctionEntry)
    BY DEF BuilderInv, ModuleOK, FunctionsOK
  <2>2. DOMAIN functions' = DOMAIN functions
        /\ \A i \in DOMAIN functions : functions'[i].body = functions[i].body
    <3>1. CASE functions' = functions
      BY <3>1
    <3>2. CASE functions' = [functions EXCEPT
                  ![Top.function].parameters[Top.next].symbol = Len(symbols) + 1]
      <4>1. \A i \in DOMAIN functions : functions[i] \in FunctionEntry
        BY <2>1
      <4>2. QED
        BY <3>2, <4>1 DEF FunctionEntry
    <3>3. QED
      BY <3>1, <3>2 DEF DeclareParameter
  <2>3. BodiesOf(functions') = BodiesOf(functions)
    BY <2>2 DEF BodiesOf
  <2>4. QED
    BY <2>3 DEF SameBodies
<1>9. QED
  BY <1>1, <1>7, <1>8 DEF Quiet

LEMMA EndScriptQuiet ==
    ASSUME BuilderInv, BuilderInv', EndScript
    PROVE  Quiet
<1>1. /\ functions' = functions /\ blocks' = blocks /\ statements' = statements
      /\ exprs' = exprs /\ diags \subseteq diags' /\ At("script") /\ Leave(Invalid)
  BY DEF EndScript, arena
<1>2. returned = Invalid /\ stack # << >> /\ Top.at = "script"
  BY <1>1, ScriptFound, AtFacts
<1>3. KeepsNothing(Top)
  BY <1>2, NothingKept
<1>4. ASSUME NEW sort \in Sorts, NEW id \in Ids PROVE OnStack(sort, id)' = OnStack(sort, id)
  <2>1. /\ InBelow(sort, id) \in Nat
        /\ OnStack(sort, id) =
               InBelow(sort, id) + Times(id, FrameIds(sort, Top)) + IsResult(sort, id)
    BY <1>2, StackUses
  <2>2. OnStack(sort, id)' = InBelow(sort, id) + Num(id = Invalid /\ SortOf(Gives(Top)) = sort)
    BY <1>1, <1>2, LeaveUses
  <2>3. Num(id = Invalid /\ SortOf(Gives(Top)) = sort) = 0
    BY DEF Num, Ids
  <2>4. Times(id, FrameIds(sort, Top)) = 0 /\ IsResult(sort, id) = 0
    BY <1>2, <1>3, NoResult DEF KeepsNothing
  <2>5. QED
    BY <2>1, <2>2, <2>3, <2>4
<1>5. QED
  BY <1>1, <1>4, SameFunctionsSameBodies DEF Quiet, SameOnStack

LEMMA BuildRhsQuiet ==
    ASSUME BuilderInv, BuilderInv', BuildRhs
    PROVE  Quiet
<1>1. /\ functions' = functions /\ blocks' = blocks /\ statements' = statements
      /\ exprs' = exprs /\ diags \subseteq diags' /\ At("lhs")
  BY DEF BuildRhs, arena
<1> DEFINE fr == [at |-> "rhs", op |-> Top.op, lhs |-> returned]
<1>2. Resume(fr, Top.rhs)
  BY DEF BuildRhs
<1>3. stack # << >> /\ Top.at = "lhs" /\ fr.at = "rhs" /\ fr.lhs = returned
  BY <1>1, AtFacts
<1> HIDE DEF fr
<1>4. KeepsNothing(Top)
  BY <1>3, NothingKept
<1>5. ASSUME NEW sort \in Sorts, NEW id \in Ids
      PROVE  Times(id, FrameIds(sort, fr)) = Times(id, FrameIds(sort, Top)) + IsResult(sort, id)
  <2>1. Times(id, FrameIds(sort, Top)) = 0
    BY <1>4 DEF KeepsNothing
  <2>2. SortOf(Wants(Top)) = "expr"
    BY <1>3 DEF Wants, SortOf
  <2>3. FrameIds(sort, fr) = IF sort = "expr" THEN <<returned>> ELSE << >>
    BY <1>3 DEF FrameIds
  <2>4. IsResult(sort, id) = Num(sort = "expr" /\ returned = id)
    BY <1>3, <2>2 DEF IsResult, Num
  <2>5. Times(id, << >>) = 0 /\ Times(id, <<returned>>) = Num(returned = id)
    BY TimesOfFew
  <2>6. QED
    BY <2>1, <2>3, <2>4, <2>5 DEF Num
<1>6. SameOnStack
  BY <1>2, <1>3, <1>5, ResumeSame
<1>7. QED
  BY <1>1, <1>6, SameFunctionsSameBodies DEF Quiet

LEMMA NextDeclaratorQuiet ==
    ASSUME BuilderInv, BuilderInv', NextDeclarator
    PROVE  Quiet
<1>1. /\ functions' = functions /\ blocks' = blocks /\ statements' = statements
      /\ exprs' = exprs /\ diags \subseteq diags' /\ At("declarators") /\ returned' = Invalid
  BY DEF NextDeclarator
<1> DEFINE loop == [at |-> "declarators", rest |-> Tail(Top.rest), statements |-> Taken,
                    type |-> Top.type]
           init == [at |-> "initializer", symbol |-> Len(symbols) + 1, type |-> Top.type]
           F == FramesNow
           G == FramesNow'
           H == F \cup G
           mid == Append(Below, loop)
<1>2. stack' = Below \o <<loop, init>>
  BY DEF NextDeclarator
<1>3. stack # << >> /\ Below \in Seq(F) /\ stack' \in Seq(G)
  BY <1>1, AtFacts, TopFacts DEF BuilderInv, StackOK
<1>4. \A fr \in F : Listed(fr)
  BY FramesNowListed
<1>5. \A fr \in G : Listed(fr)
  BY FramesListed DEF FramesNow
<1>6. /\ loop.at = "declarators" /\ loop.statements = Taken /\ KeepsNothing(init)
  BY NothingKept
<1> HIDE DEF loop, init, F, G
<1>7. /\ Len(stack') = Len(Below) + 2 /\ Len(Below) \in Nat
      /\ \A i \in 1..Len(Below) : stack'[i] = Below[i]
      /\ stack'[Len(Below) + 1] = loop /\ stack'[Len(Below) + 2] = init
  BY <1>2, <1>3
<1>8. loop \in G /\ init \in G
  <2>1. Len(Below) + 1 \in 1..Len(stack') /\ Len(Below) + 2 \in 1..Len(stack')
    BY <1>7
  <2>2. QED
    BY <1>3, <1>7, <2>1, ElementOfSeq
<1>9. /\ mid \in Seq(H) /\ Below \in Seq(H) /\ Len(mid) = Len(Below) + 1
      /\ mid[Len(mid)] = loop /\ \A i \in 1..Len(Below) : mid[i] = Below[i]
  <2>1. Below \in Seq(H) /\ loop \in H
    BY <1>3, <1>8, SeqOfMore
  <2> HIDE DEF H
  <2>2. QED
    BY <2>1, AppendProperties
<1>10. /\ Len(stack') = Len(mid) + 1 /\ \A i \in 1..Len(mid) : stack'[i] = mid[i]
       /\ stack'[Len(stack')] = init
  BY <1>7, <1>9
<1>11. \A fr \in H : Listed(fr)
  BY <1>4, <1>5
<1> HIDE DEF H, mid
<1>12. ASSUME NEW sort \in Sorts, NEW id \in Ids PROVE OnStack(sort, id)' = OnStack(sort, id)
  <2>1. /\ InBelow(sort, id) \in Nat /\ Times(id, FrameIds(sort, Top)) \in Nat
        /\ OnStack(sort, id) =
               InBelow(sort, id) + Times(id, FrameIds(sort, Top)) + IsResult(sort, id)
    BY <1>3, StackUses
  <2>2. /\ Times(id, FrameIds(sort, loop)) \in Nat
        /\ Uses(id, FrameLists(sort, mid)) =
               InBelow(sort, id) + Times(id, FrameIds(sort, loop))
    <3> DEFINE below == Below
    <3>1. Listed(loop)
      BY <1>5, <1>8
    <3>2. InBelow(sort, id) = Uses(id, FrameLists(sort, below))
      BY DEF InBelow
    <3>3. /\ below \in Seq(H) /\ mid \in Seq(H) /\ Len(mid) = Len(below) + 1
          /\ mid[Len(mid)] = loop /\ \A i \in 1..Len(below) : mid[i] = below[i]
      BY <1>9
    <3> HIDE DEF below
    <3>4. QED
      BY <1>11, <3>1, <3>2, <3>3, OneMoreFrame
  <2>3. Uses(id, FrameLists(sort, stack')) = Uses(id, FrameLists(sort, mid)) + 0
    <3> DEFINE st == stack'
    <3>1. /\ st \in Seq(G) /\ Len(st) = Len(mid) + 1 /\ \A i \in 1..Len(mid) : st[i] = mid[i]
          /\ st[Len(st)] = init /\ Listed(init) /\ mid \in Seq(H)
      BY <1>3, <1>5, <1>8, <1>9, <1>10
    <3>2. Times(id, FrameIds(sort, init)) = 0
      BY <1>6 DEF KeepsNothing
    <3> HIDE DEF st
    <3>3. Uses(id, FrameLists(sort, st)) =
              Uses(id, FrameLists(sort, mid)) + Times(id, FrameIds(sort, init))
      BY <1>11, <3>1, OneMoreFrame
    <3>4. QED
      BY <3>2, <3>3 DEF st
  <2>4. Times(id, FrameIds(sort, loop)) = Times(id, FrameIds(sort, Top)) + IsResult(sort, id)
    BY <1>1, <1>6, TakenUses
  <2>5. IsResult(sort, id)' = 0
    BY <1>1 DEF IsResult, Num, Ids
  <2>6. OnStack(sort, id)' = Uses(id, FrameLists(sort, stack')) + IsResult(sort, id)'
    BY DEF OnStack
  <2>7. IsResult(sort, id) \in Nat
    BY ResultNum
  <2>8. QED
    BY <2>1, <2>2, <2>3, <2>4, <2>5, <2>6, <2>7
<1>13. QED
  BY <1>1, <1>12, SameFunctionsSameBodies DEF Quiet, SameOnStack

LEMMA NothingOnStack ==
    ASSUME NEW F, NEW st \in Seq(F), \A fr \in F : Listed(fr),
           \A i \in DOMAIN st : st[i].at \in {"script", "parameters"},
           NEW sort \in Sorts, NEW id
    PROVE  Uses(id, FrameLists(sort, st)) = 0
<1>1. FiniteLists(FrameLists(sort, st))
  BY ListsFinite
<1>2. ASSUME NEW i \in DOMAIN FrameLists(sort, st)
      PROVE  DOMAIN FrameLists(sort, st)[i] = {}
  <2>1. i \in DOMAIN st /\ FrameLists(sort, st)[i] = FrameIds(sort, st[i])
    BY DEF FrameLists
  <2>2. FrameIds(sort, st[i]) = << >>
    BY <2>1 DEF FrameIds
  <2>3. QED
    BY <2>1, <2>2
<1>3. QED
  BY <1>1, <1>2, SomeUse

LEMMA BuildFunctionQuiet ==
    ASSUME BuilderInv, BuilderInv', BuildFunction
    PROVE  Quiet
<1>1. /\ blocks' = blocks /\ statements' = statements /\ exprs' = exprs
      /\ diags \subseteq diags' /\ At("script") /\ returned' = returned
  BY DEF BuildFunction
<1>2. /\ returned = Invalid /\ Top \in ScriptFrames /\ Len(stack) = 1 /\ stack[1] = Top
      /\ Below = << >> /\ [Top EXCEPT !.next = @ + 1] \in ScriptFrames
  BY <1>1, ScriptFound
<1> DEFINE caller == [Top EXCEPT !.next = @ + 1]
<1>3. Top.at = "script" /\ caller.at = "script"
  BY <1>2 DEF ScriptFrames
<1>4. \A i \in DOMAIN stack : stack[i].at \in {"script", "parameters"}
  <2>1. DOMAIN stack = 1..1
    BY <1>2, FramesNowListed
  <2>2. QED
    BY <1>2, <1>3, <2>1
<1>5. \E fr : stack' = <<caller>> \/ (stack' = <<caller, fr>> /\ fr.at = "parameters")
  <2> DEFINE f == script[Top.next]
             fr == [at |-> "parameters", function |-> Len(functions) + 1, next |-> 1,
                    body |-> f.body, prev |-> currentFunction]
  <2>1. \/ stack' = Append(Below, caller)
        \/ stack' = Below \o <<caller, fr>>
    BY DEF BuildFunction
  <2>2. fr.at = "parameters"
    OBVIOUS
  <2> HIDE DEF caller, fr
  <2>3. stack' = <<caller>> \/ stack' = <<caller, fr>>
    BY <1>2, <2>1
  <2>4. QED
    BY <2>2, <2>3
<1> HIDE DEF caller
<1>6. \A i \in DOMAIN stack' : stack'[i].at \in {"script", "parameters"}
  <2>1. PICK fr : stack' = <<caller>> \/ (stack' = <<caller, fr>> /\ fr.at = "parameters")
    BY <1>5
  <2>2. QED
    BY <1>3, <2>1
<1>7. SameOnStack
  <2>1. SUFFICES ASSUME NEW sort \in Sorts, NEW id \in Ids
                 PROVE  OnStack(sort, id)' = OnStack(sort, id)
    BY DEF SameOnStack
  <2>2. stack' \in Seq(FramesNow') /\ \A fr \in FramesNow' : Listed(fr)
    BY FramesListed DEF BuilderInv, StackOK, FramesNow
  <2>3. Uses(id, FrameLists(sort, stack)) = 0
    BY <1>4, FramesNowListed, NothingOnStack
  <2>4. Uses(id, FrameLists(sort, stack')) = 0
    <3> DEFINE st == stack'
               G == FramesNow'
    <3>1. st \in Seq(G) /\ (\A fr \in G : Listed(fr))
          /\ \A i \in DOMAIN st : st[i].at \in {"script", "parameters"}
      BY <1>6, <2>2
    <3> HIDE DEF st, G
    <3>2. Uses(id, FrameLists(sort, st)) = 0
      BY <3>1, NothingOnStack
    <3>3. QED
      BY <3>2 DEF st
  <2>5. IsResult(sort, id) = 0 /\ IsResult(sort, id)' = 0
    BY <1>1, <1>2 DEF IsResult, Num, Ids
  <2>6. QED
    BY <2>3, <2>4, <2>5 DEF OnStack
<1>8. SameBodies
  <2> DEFINE g == functions'[Len(functions) + 1]
             A == BodiesOf(functions)
             B == BodiesOf(functions')
             n == Len(functions)
  <2>1. /\ functions \in Seq(FunctionEntry) /\ functions' \in Seq(FunctionEntry)
    BY DEF BuilderInv, ModuleOK, FunctionsOK
  <2>2. \E x : functions' = Append(functions, x) /\ x.body = Invalid
    <3> DEFINE f == script[Top.next]
               returnType == IF f.returnType = Null THEN voidType ELSE TypeOf(f.returnType)
               parameters == [i \in DOMAIN f.params |->
                                [name |-> f.params[i].name, type |-> TypeOf(f.params[i].type),
                                 symbol |-> Invalid]]
               x == Function(f.name, returnType, parameters, Len(symbols) + 1)
    <3>1. functions' = Append(functions, x)
      BY DEF BuildFunction
    <3>2. x.body = Invalid
      BY DEF Function
    <3> HIDE DEF x
    <3>3. QED
      BY <3>1, <3>2
  <2>3. /\ n \in Nat /\ DOMAIN functions = 1..n /\ DOMAIN functions' = 1..(n + 1)
        /\ (\A i \in 1..n : functions'[i] = functions[i]) /\ g.body = Invalid
    BY <2>1, <2>2
  <2> HIDE DEF n
  <2>4. /\ DOMAIN A = 1..n /\ DOMAIN B = 1..(n + 1) /\ (\A j \in 1..n : B[j] = A[j])
        /\ B[n + 1] = <<Invalid>> /\ \A j \in 1..n : A[j] = <<functions[j].body>>
    BY <2>3 DEF BodiesOf, n
  <2> HIDE DEF A, B
  <2>5. FiniteLists(A)
    <3>1. IsFiniteSet(DOMAIN A)
      BY <2>3, <2>4, FS_Interval
    <3>2. \A x : IsFiniteSet(DOMAIN <<x>>)
      <4>1. SUFFICES ASSUME NEW x PROVE IsFiniteSet(DOMAIN <<x>>)
        OBVIOUS
      <4>2. <<x>> \in Seq({x})
        OBVIOUS
      <4>3. QED
        BY <4>2, SeqFinite
    <3>3. QED
      BY <2>4, <3>1, <3>2 DEF FiniteLists
  <2>6. IsFiniteSet(DOMAIN B[n + 1])
    <3>1. <<Invalid>> \in Seq({Invalid})
      OBVIOUS
    <3>2. QED
      BY <2>4, <3>1, SeqFinite
  <2>7. ASSUME NEW b \in Ids PROVE Uses(b, B) = Uses(b, A)
    <3>1. n \in Nat /\ DOMAIN A = 1..n /\ DOMAIN B = 1..(n + 1)
          /\ (\A j \in 1..n : B[j] = A[j]) /\ IsFiniteSet(DOMAIN B[n + 1])
      BY <2>3, <2>4, <2>6
    <3>4. Uses(b, A) \in Nat /\ Uses(b, B) = Uses(b, A) + Times(b, B[n + 1])
      BY <2>5, <3>1, MoreUses
    <3>2. Times(b, <<Invalid>>) = Num(Invalid = b)
      BY TimesOfFew
    <3>3. Num(Invalid = b) = 0
      BY DEF Num, Ids
    <3>5. QED
      BY <2>4, <3>4, <3>2, <3>3
  <2>8. QED
    BY <2>7 DEF SameBodies, A, B
<1>9. QED
  BY <1>1, <1>7, <1>8 DEF Quiet

-----------------------------------------------------------------------------
(* 4. What Append does to the uses in the lists of the module.             *)

(* The lists of the module are finite.                                     *)
LEMMA FewFinite ==
    ASSUME NEW x, NEW y
    PROVE  IsFiniteSet(DOMAIN << >>) /\ IsFiniteSet(DOMAIN <<x>>) /\ IsFiniteSet(DOMAIN <<x, y>>)
<1> DEFINE S == {x, y}
<1>1. << >> \in Seq(S) /\ <<x>> \in Seq(S) /\ <<x, y>> \in Seq(S)
  OBVIOUS
<1> HIDE DEF S
<1>2. QED
  BY <1>1, SeqFinite

LEMMA ListsOver ==
    ASSUME NEW S, NEW xs \in Seq(S), NEW lists, DOMAIN lists = DOMAIN xs,
           \A i \in DOMAIN xs : IsFiniteSet(DOMAIN lists[i])
    PROVE  FiniteLists(lists)
BY SeqFinite DEF FiniteLists

LEMMA OperandsFinite ==
    ASSUME NEW xs \in Seq(ExprEntry)
    PROVE  FiniteLists(Operands(xs)) /\ FiniteLists(KidsOf(xs))
<1>1. ASSUME NEW i \in DOMAIN xs PROVE IsFiniteSet(DOMAIN xs[i].kids)
  <2>1. xs[i] \in ExprEntry
    OBVIOUS
  <2>2. xs[i].kids \in Seq(Ids)
    BY <2>1 DEF ExprEntry
  <2>3. QED
    BY <2>2, SeqFinite
<1>2. ASSUME NEW i \in DOMAIN xs PROVE IsFiniteSet(DOMAIN OperandsOf(xs[i], xs))
  BY <1>1, FewFinite DEF OperandsOf
<1>3. FiniteLists(Operands(xs))
  <2>1. DOMAIN Operands(xs) = DOMAIN xs
        /\ \A i \in DOMAIN xs : Operands(xs)[i] = OperandsOf(xs[i], xs)
    BY DEF Operands
  <2>2. QED
    BY <1>2, <2>1, ListsOver
<1>4. FiniteLists(KidsOf(xs))
  <2>1. DOMAIN KidsOf(xs) = DOMAIN xs /\ \A i \in DOMAIN xs : KidsOf(xs)[i] = xs[i].kids
    BY DEF KidsOf
  <2>2. QED
    BY <1>1, <2>1, ListsOver
<1>5. QED
  BY <1>3, <1>4

LEMMA StatementListsFinite ==
    ASSUME NEW xs \in Seq(StatementEntry)
    PROVE  FiniteLists(BlocksOf(xs)) /\ FiniteLists(KidsOf(xs))
<1>1. ASSUME NEW i \in DOMAIN xs PROVE IsFiniteSet(DOMAIN xs[i].kids)
  <2>1. xs[i] \in StatementEntry
    OBVIOUS
  <2>2. xs[i].kids \in Seq(Ids)
    BY <2>1 DEF StatementEntry
  <2>3. QED
    BY <2>2, SeqFinite
<1>2. FiniteLists(KidsOf(xs))
  <2>1. DOMAIN KidsOf(xs) = DOMAIN xs /\ \A i \in DOMAIN xs : KidsOf(xs)[i] = xs[i].kids
    BY DEF KidsOf
  <2>2. QED
    BY <1>1, <2>1, ListsOver
<1>3. FiniteLists(BlocksOf(xs))
  <2>1. DOMAIN BlocksOf(xs) = DOMAIN xs
        /\ \A i \in DOMAIN xs :
              BlocksOf(xs)[i] = IF xs[i].kind = "Block" THEN <<xs[i].ref>> ELSE << >>
    BY DEF BlocksOf
  <2>2. \A i \in DOMAIN xs : IsFiniteSet(DOMAIN BlocksOf(xs)[i])
    BY <2>1, FewFinite
  <2>3. QED
    BY <2>1, <2>2, ListsOver
<1>4. QED
  BY <1>2, <1>3

LEMMA BodiesFinite ==
    ASSUME NEW S, NEW gs \in Seq(S) PROVE FiniteLists(BodiesOf(gs))
<1>1. DOMAIN BodiesOf(gs) = DOMAIN gs
      /\ \A i \in DOMAIN gs : BodiesOf(gs)[i] = <<gs[i].body>>
  BY DEF BodiesOf
<1>2. \A i \in DOMAIN gs : IsFiniteSet(DOMAIN BodiesOf(gs)[i])
  BY <1>1, FewFinite
<1>3. QED
  BY <1>1, <1>2, ListsOver

LEMMA BlocksFinite ==
    ASSUME NEW S, NEW bs \in Seq(Seq(S)) PROVE FiniteLists(bs)
<1>1. ASSUME NEW i \in DOMAIN bs PROVE IsFiniteSet(DOMAIN bs[i])
  <2>1. bs[i] \in Seq(S)
    OBVIOUS
  <2>2. QED
    BY <2>1, SeqFinite
<1>2. QED
  BY <1>1, ListsOver

(* One more expression uses its operands, and changes no other's.          *)
KidsFirst(xs) ==
    xs \in Seq(ExprEntry) /\ \A i \in 1..Len(xs) : xs[i].kids \in Seq(1..(i - 1))

LEMMA KidsComeFirst ==
    ASSUME NEW t, NEW s, NEW f, NEW xs, ExprsOK(xs, t, s, f) PROVE KidsFirst(xs)
BY DEF ExprsOK, ExprOK, KidsFirst

LEMMA MoreOperands ==
    ASSUME NEW xs, KidsFirst(xs), TwoOperands(xs),
           NEW x, NEW ys, ys = Append(xs, x), IsFiniteSet(DOMAIN OperandsOf(x, ys)), NEW id
    PROVE  /\ Uses(id, Operands(xs)) \in Nat /\ Times(id, OperandsOf(x, ys)) \in Nat
           /\ Uses(id, Operands(ys)) = Uses(id, Operands(xs)) + Times(id, OperandsOf(x, ys))
<1> DEFINE n == Len(xs)
           A == Operands(xs)
           B == Operands(ys)
<1>1. xs \in Seq(ExprEntry) /\ n \in Nat /\ DOMAIN xs = 1..n
  BY DEF KidsFirst
<1>2. /\ DOMAIN ys = 1..(n + 1) /\ ys[n + 1] = x /\ \A i \in 1..n : ys[i] = xs[i]
  BY <1>1, AppendProperties
<1>3. ASSUME NEW i \in 1..n PROVE OperandsOf(ys[i], ys) = OperandsOf(xs[i], xs)
  <2>1. ys[i] = xs[i]
    BY <1>2
  <2>2. IsCompound(xs[i], ys) <=> IsCompound(xs[i], xs)
    <3>1. CASE xs[i].kind = "Assign"
      <4>1. xs[i].kids \in Seq(1..(i - 1)) /\ Len(xs[i].kids) = 2
        BY <3>1 DEF KidsFirst, TwoOperands
      <4>2. xs[i].kids[2] \in 1..(i - 1)
        BY <4>1, ElementOfSeq
      <4>3. xs[i].kids[2] \in 1..n
        BY <1>1, <4>2
      <4>4. ys[xs[i].kids[2]] = xs[xs[i].kids[2]]
        BY <1>2, <4>3
      <4>5. QED
        BY <4>4 DEF IsCompound
    <3>2. CASE xs[i].kind # "Assign"
      BY <3>2 DEF IsCompound
    <3>3. QED
      BY <3>1, <3>2
  <2>3. QED
    BY <2>1, <2>2 DEF OperandsOf
<1>4. /\ DOMAIN A = 1..n /\ DOMAIN B = 1..(n + 1) /\ B[n + 1] = OperandsOf(x, ys)
      /\ \A i \in 1..n : B[i] = A[i]
  <2>1. n + 1 \in 1..(n + 1) /\ 1..n \subseteq 1..(n + 1)
    BY <1>1
  <2>2. DOMAIN A = 1..n /\ DOMAIN B = 1..(n + 1)
    BY <1>1, <1>2 DEF Operands
  <2>3. B[n + 1] = OperandsOf(x, ys)
    BY <1>2, <2>1 DEF Operands
  <2>4. ASSUME NEW i \in 1..n PROVE B[i] = A[i]
    BY <1>1, <1>2, <1>3, <2>1 DEF Operands
  <2>5. QED
    BY <2>2, <2>3, <2>4
<1>5. FiniteLists(A)
  BY <1>1, OperandsFinite
<1>6. IsFiniteSet(DOMAIN B[n + 1])
  BY <1>4
<1>7. n \in Nat
  BY <1>1
<1> HIDE DEF n, A, B
<1>8. Uses(id, A) \in Nat /\ Times(id, B[n + 1]) \in Nat
      /\ Uses(id, B) = Uses(id, A) + Times(id, B[n + 1])
  BY <1>4, <1>5, <1>6, <1>7, MoreUses
<1>9. QED
  BY <1>4, <1>8 DEF A, B

KidsIn(x) == x.kids

BlockIn(x) == IF x.kind = "Block" THEN <<x.ref>> ELSE << >>

MoreStatement(xs, x, ys) ==
    xs \in Seq(StatementEntry) /\ ys = Append(xs, x) /\ IsFiniteSet(DOMAIN x.kids)

LEMMA MoreStatements ==
    ASSUME NEW xs, NEW x, NEW ys, MoreStatement(xs, x, ys), NEW id
    PROVE  /\ Uses(id, KidsOf(xs)) \in Nat /\ Uses(id, BlocksOf(xs)) \in Nat
           /\ Times(id, KidsIn(x)) \in Nat
           /\ Uses(id, KidsOf(ys)) = Uses(id, KidsOf(xs)) + Times(id, KidsIn(x))
           /\ Uses(id, BlocksOf(ys)) = Uses(id, BlocksOf(xs)) + Times(id, BlockIn(x))
<1> DEFINE n == Len(xs)
           kids == KidsIn(x)
<1>1. /\ n \in Nat /\ DOMAIN xs = 1..n /\ xs \in Seq(StatementEntry)
      /\ ys = Append(xs, x) /\ IsFiniteSet(DOMAIN kids)
  BY DEF MoreStatement, KidsIn
<1>2. x.kids = kids
  BY DEF KidsIn
<1>3. /\ DOMAIN ys = 1..(n + 1) /\ ys[n + 1] = x /\ \A i \in 1..n : ys[i] = xs[i]
  BY <1>1, AppendProperties
<1>4. n + 1 \in 1..(n + 1) /\ 1..n \subseteq 1..(n + 1)
  BY <1>1
<1> HIDE DEF n
<1>5. /\ Uses(id, KidsOf(xs)) \in Nat /\ Times(id, kids) \in Nat
      /\ Uses(id, KidsOf(ys)) = Uses(id, KidsOf(xs)) + Times(id, kids)
  <2> DEFINE A == KidsOf(xs)
             B == KidsOf(ys)
  <2>1. /\ DOMAIN A = 1..n /\ DOMAIN B = 1..(n + 1) /\ B[n + 1] = kids
        /\ \A i \in 1..n : B[i] = A[i]
    BY <1>1, <1>2, <1>3, <1>4 DEF KidsOf
  <2>2. FiniteLists(A) /\ IsFiniteSet(DOMAIN kids)
    BY <1>1, StatementListsFinite
  <2> HIDE DEF A, B
  <2>3. IsFiniteSet(DOMAIN B[n + 1]) /\ n \in Nat
    BY <1>1, <2>1, <2>2
  <2>4. Uses(id, A) \in Nat /\ Times(id, B[n + 1]) \in Nat
        /\ Uses(id, B) = Uses(id, A) + Times(id, B[n + 1])
    BY <2>1, <2>2, <2>3, MoreUses
  <2>5. QED
    BY <2>1, <2>4 DEF A, B
<1>6. /\ Uses(id, BlocksOf(xs)) \in Nat
      /\ Uses(id, BlocksOf(ys)) = Uses(id, BlocksOf(xs)) + Times(id, BlockIn(x))
  <2> DEFINE A == BlocksOf(xs)
             B == BlocksOf(ys)
  <2>1. DOMAIN A = 1..n /\ DOMAIN B = 1..(n + 1) /\ \A i \in 1..n : B[i] = A[i]
    BY <1>1, <1>3, <1>4 DEF BlocksOf
  <2>2. B[n + 1] = BlockIn(x)
    BY <1>3, <1>4 DEF BlocksOf, BlockIn
  <2>3. FiniteLists(A)
    BY <1>1, StatementListsFinite
  <2> HIDE DEF A, B
  <2>4. IsFiniteSet(DOMAIN B[n + 1]) /\ n \in Nat
    BY <1>1, <2>2, FewFinite DEF BlockIn
  <2>5. Uses(id, A) \in Nat /\ Uses(id, B) = Uses(id, A) + Times(id, B[n + 1])
    BY <2>1, <2>3, <2>4, MoreUses
  <2>6. QED
    BY <2>2, <2>5 DEF A, B
<1>7. QED
  BY <1>5, <1>6

LEMMA MoreBlocks ==
    ASSUME NEW S, NEW bs \in Seq(Seq(S)), NEW T, NEW taken \in Seq(T),
           NEW cs, cs = Append(bs, taken), NEW id
    PROVE  /\ Uses(id, bs) \in Nat /\ Times(id, taken) \in Nat
           /\ Uses(id, cs) = Uses(id, bs) + Times(id, taken)
<1> DEFINE n == Len(bs)
<1>1. /\ n \in Nat /\ DOMAIN bs = 1..n
      /\ DOMAIN cs = 1..(n + 1) /\ cs[n + 1] = taken /\ \A i \in 1..n : cs[i] = bs[i]
  BY AppendProperties
<1>2. FiniteLists(bs) /\ IsFiniteSet(DOMAIN taken)
  BY BlocksFinite, SeqFinite
<1> HIDE DEF n
<1>3. n \in Nat /\ IsFiniteSet(DOMAIN cs[n + 1])
  BY <1>1, <1>2
<1>4. Uses(id, bs) \in Nat /\ Times(id, cs[n + 1]) \in Nat
      /\ Uses(id, cs) = Uses(id, bs) + Times(id, cs[n + 1])
  BY <1>1, <1>2, <1>3, MoreUses
<1>5. QED
  BY <1>1, <1>4

-----------------------------------------------------------------------------
(* 5. The id of a new entry is not in use before.                          *)

(* An id that is not given yet is not used.                                *)
SizeOf(sort) ==
    CASE sort = "block" -> Len(blocks)
      [] sort = "statement" -> Len(statements)
      [] sort = "expr" -> Len(exprs)

LEMMA FrameIdsGiven ==
    ASSUME BuilderInv, NEW fr \in FramesNow, NEW sort \in Sorts
    PROVE  \A k \in DOMAIN FrameIds(sort, fr) : FrameIds(sort, fr)[k] \in 0..SizeOf(sort)
<1>1. Len(statements) \in Nat /\ Len(exprs) \in Nat
  BY Lengths DEF BuilderInv
<1>2. fr \in Frames(Len(types), Len(symbols), Len(functions), Len(statements), Len(exprs))
  BY DEF FramesNow
<1>3. CASE sort = "statement" /\ fr.at \in {"statements", "declarators"}
  <2>1. FrameIds(sort, fr) = fr.statements /\ SizeOf(sort) = Len(statements)
    BY <1>3 DEF FrameIds, SizeOf
  <2>2. fr.statements \in Seq(1..Len(statements))
    BY <1>2, <1>3, FramesAt DEF StatementFrames, DeclaratorFrames
  <2>3. QED
    BY <1>1, <2>1, <2>2
<1>4. CASE sort = "expr" /\ fr.at = "rhs"
  <2>1. FrameIds(sort, fr) = <<fr.lhs>> /\ SizeOf(sort) = Len(exprs)
    BY <1>4 DEF FrameIds, SizeOf
  <2>2. fr.lhs \in 1..Len(exprs)
    BY <1>2, <1>4, FramesAt DEF RhsFrames
  <2>3. QED
    BY <1>1, <2>1, <2>2
<1>5. CASE sort = "expr" /\ fr.at = "operands"
  <2>1. FrameIds(sort, fr) = <<fr.acc>> /\ SizeOf(sort) = Len(exprs)
    BY <1>5 DEF FrameIds, SizeOf
  <2>2. fr.acc \in 0..Len(exprs)
    <3>1. fr \in FirstOperandFrames \/ fr \in OperandFrames(Len(exprs))
      BY <1>2, <1>5, FramesAt
    <3>2. fr.acc = 0 \/ fr.acc \in 1..Len(exprs)
      BY <3>1 DEF FirstOperandFrames, OperandFrames, Invalid
    <3>3. QED
      BY <1>1, <3>2
  <2>3. QED
    BY <1>1, <2>1, <2>2
<1>6. CASE sort = "expr" /\ fr.at = "arguments"
  <2>1. FrameIds(sort, fr) = fr.args /\ SizeOf(sort) = Len(exprs)
    BY <1>6 DEF FrameIds, SizeOf
  <2>2. fr.args \in Seq(1..Len(exprs))
    BY <1>2, <1>6, FramesAt DEF ArgumentFrames
  <2>3. QED
    BY <1>1, <2>1, <2>2
<1>7. CASE ~(\/ sort = "statement" /\ fr.at \in {"statements", "declarators"}
             \/ sort = "expr" /\ fr.at \in {"rhs", "operands", "arguments"})
  <2>1. FrameIds(sort, fr) = << >>
    BY <1>7 DEF FrameIds
  <2>2. QED
    BY <2>1
<1>8. QED
  BY <1>3, <1>4, <1>5, <1>6, <1>7

LEMMA FreshOnStack ==
    ASSUME BuilderInv, NEW sort \in Sorts, NEW id \in Ids, id > SizeOf(sort)
    PROVE  OnStack(sort, id) = 0
<1>1. /\ Len(blocks) \in Nat /\ Len(statements) \in Nat /\ Len(exprs) \in Nat
      /\ SizeOf(sort) \in Nat /\ id \in Nat /\ id # 0
  BY Lengths DEF BuilderInv, SizeOf, Sorts, Ids, Invalid
<1>2. Uses(id, FrameLists(sort, stack)) = 0
  <2>1. FiniteLists(FrameLists(sort, stack))
    BY FramesNowListed, ListsFinite
  <2>2. ASSUME NEW i \in DOMAIN FrameLists(sort, stack),
               NEW k \in DOMAIN FrameLists(sort, stack)[i]
        PROVE  FrameLists(sort, stack)[i][k] # id
    <3>1. i \in DOMAIN stack /\ FrameLists(sort, stack)[i] = FrameIds(sort, stack[i])
      BY DEF FrameLists
    <3>2. stack[i] \in FramesNow
      BY <3>1, FramesNowListed
    <3>3. FrameLists(sort, stack)[i][k] \in 0..SizeOf(sort)
      BY <3>1, <3>2, FrameIdsGiven
    <3>4. QED
      BY <1>1, <3>3
  <2>3. QED
    BY <2>1, <2>2, SomeUse
<1>3. IsResult(sort, id) = 0
  <2>1. SUFFICES ASSUME stack # << >>, id = returned, SortOf(Wants(Top)) = sort PROVE FALSE
    BY DEF IsResult, Num
  <2>2. call = Null /\ Settled(Top, returned, Len(blocks), Len(statements), Len(exprs))
    BY <1>1, <2>1 DEF BuilderInv, ControlOK, Invalid
  <2>3. returned \in IdsFor(Wants(Top), Len(blocks), Len(statements), Len(exprs))
    BY <1>1, <2>1, <2>2 DEF Settled, Invalid
  <2>4. returned \in 1..SizeOf(sort)
    BY <2>1, <2>3 DEF IdsFor, SortOf, SizeOf, Sorts
  <2>5. QED
    BY <1>1, <2>1, <2>4
<1>4. QED
  BY <1>2, <1>3 DEF OnStack

LEMMA FreshBlock ==
    ASSUME BuilderInv, NEW b \in Ids, b > Len(blocks)
    PROVE  BlockUses(b) = 0
<1>1. Len(blocks) \in Nat /\ b \in Nat /\ b # 0
  BY Lengths DEF BuilderInv, Ids, Invalid
<1>2. OnStack("block", b) = 0
  BY FreshOnStack DEF SizeOf, Sorts
<1>3. Uses(b, BodiesOf(functions)) = 0
  <2>1. FiniteLists(BodiesOf(functions)) /\ functions \in Seq(FunctionEntry)
    BY BodiesFinite DEF BuilderInv, ModuleOK, FunctionsOK
  <2>2. ASSUME NEW i \in DOMAIN BodiesOf(functions), NEW k \in DOMAIN BodiesOf(functions)[i]
        PROVE  BodiesOf(functions)[i][k] # b
    <3>1. i \in 1..Len(functions) /\ BodiesOf(functions)[i] = <<functions[i].body>> /\ k = 1
      BY <2>1 DEF BodiesOf
    <3>2. functions[i].body \in 0..Len(blocks)
      BY <3>1 DEF BuilderInv, ModuleOK, FunctionsOK, FunctionOK
    <3>3. QED
      BY <1>1, <3>1, <3>2
  <2>3. QED
    BY <2>1, <2>2, SomeUse
<1>4. Uses(b, BlocksOf(statements)) = 0
  <2>1. FiniteLists(BlocksOf(statements)) /\ statements \in Seq(StatementEntry)
    BY StatementListsFinite DEF BuilderInv, ModuleOK, StatementsOK
  <2>2. ASSUME NEW i \in DOMAIN BlocksOf(statements), NEW k \in DOMAIN BlocksOf(statements)[i]
        PROVE  BlocksOf(statements)[i][k] # b
    <3>1. i \in 1..Len(statements) /\ BlocksOf(statements)[i] = <<statements[i].ref>> /\ k = 1
          /\ statements[i].kind = "Block"
      BY <2>1 DEF BlocksOf
    <3>2. statements[i].ref \in 1..Len(blocks)
      BY <3>1 DEF BuilderInv, ModuleOK, StatementsOK, StatementOK
    <3>3. QED
      BY <1>1, <3>1, <3>2
  <2>3. QED
    BY <2>1, <2>2, SomeUse
<1>5. QED
  BY <1>2, <1>3, <1>4 DEF BlockUses

LEMMA FreshStatement ==
    ASSUME BuilderInv, NEW s \in Ids, s > Len(statements)
    PROVE  StatementUses(s) = 0
<1>1. Len(statements) \in Nat /\ s \in Nat /\ s # 0
  BY Lengths DEF BuilderInv, Ids, Invalid
<1>2. OnStack("statement", s) = 0
  BY FreshOnStack DEF SizeOf, Sorts
<1>3. Uses(s, blocks) = 0
  <2>1. blocks \in Seq(Seq(1..Len(statements)))
    BY DEF BuilderInv, ModuleOK
  <2>2. FiniteLists(blocks)
    BY <2>1, BlocksFinite
  <2>3. ASSUME NEW i \in DOMAIN blocks, NEW k \in DOMAIN blocks[i] PROVE blocks[i][k] # s
    <3>1. blocks[i] \in Seq(1..Len(statements))
      BY <2>1
    <3>2. blocks[i][k] \in 1..Len(statements)
      BY <3>1
    <3>3. QED
      BY <1>1, <3>2
  <2>4. QED
    BY <2>2, <2>3, SomeUse
<1>4. QED
  BY <1>2, <1>3 DEF StatementUses

LEMMA OperandsGiven ==
    ASSUME NEW t, NEW s, NEW f, NEW xs, ExprsOK(xs, t, s, f), TwoOperands(xs),
           NEW i \in 1..Len(xs), NEW k \in DOMAIN OperandsOf(xs[i], xs)
    PROVE  OperandsOf(xs[i], xs)[k] \in 0..(i - 1)
<1>1. i \in Nat /\ i # 0
  BY DEF ExprsOK
<1>2. xs[i].kids \in Seq(1..(i - 1))
  BY DEF ExprsOK, ExprOK
<1>3. CASE IsCompound(xs[i], xs)
  <2>1. Len(xs[i].kids) = 2
    BY <1>3 DEF IsCompound, TwoOperands
  <2>2. xs[i].kids[2] \in 1..(i - 1)
    BY <1>2, <2>1, ElementOfSeq
  <2>3. OperandsOf(xs[i], xs) = <<0, xs[i].kids[2]>>
    BY <1>3 DEF OperandsOf, Invalid
  <2>4. QED
    BY <1>1, <2>2, <2>3
<1>4. CASE ~IsCompound(xs[i], xs)
  <2>1. OperandsOf(xs[i], xs) = xs[i].kids
    BY <1>4 DEF OperandsOf
  <2>2. QED
    BY <1>1, <1>2, <2>1
<1>5. QED
  BY <1>3, <1>4

LEMMA FreshExpr ==
    ASSUME BuilderInv, TwoOperands(exprs), NEW e \in Ids, e > Len(exprs)
    PROVE  ExprUses(e) = 0
<1>1. Len(exprs) \in Nat /\ e \in Nat /\ e # 0
  BY Lengths DEF BuilderInv, Ids, Invalid
<1>2. OnStack("expr", e) = 0
  BY FreshOnStack DEF SizeOf, Sorts
<1>3. Uses(e, Operands(exprs)) = 0
  <2>1. exprs \in Seq(ExprEntry) /\ ExprsOK(exprs, Len(types), Len(symbols), Len(functions))
    BY DEF BuilderInv, ModuleOK, ExprsOK
  <2>2. FiniteLists(Operands(exprs))
    BY <2>1, OperandsFinite
  <2>3. ASSUME NEW i \in DOMAIN Operands(exprs), NEW k \in DOMAIN Operands(exprs)[i]
        PROVE  Operands(exprs)[i][k] # e
    <3>1. i \in 1..Len(exprs) /\ Operands(exprs)[i] = OperandsOf(exprs[i], exprs)
      BY <2>1 DEF Operands
    <3>2. OperandsOf(exprs[i], exprs)[k] \in 0..(i - 1)
      BY <2>1, <3>1, OperandsGiven
    <3>3. QED
      BY <1>1, <3>1, <3>2
  <2>4. QED
    BY <2>2, <2>3, SomeUse
<1>4. Uses(e, KidsOf(statements)) = 0
  <2>1. FiniteLists(KidsOf(statements)) /\ statements \in Seq(StatementEntry)
    BY StatementListsFinite DEF BuilderInv, ModuleOK, StatementsOK
  <2>2. ASSUME NEW i \in DOMAIN KidsOf(statements), NEW k \in DOMAIN KidsOf(statements)[i]
        PROVE  KidsOf(statements)[i][k] # e
    <3>1. i \in 1..Len(statements) /\ KidsOf(statements)[i] = statements[i].kids
      BY <2>1 DEF KidsOf
    <3>2. statements[i].kids \in Seq(1..Len(exprs))
      BY <3>1 DEF BuilderInv, ModuleOK, StatementsOK, StatementOK
    <3>3. statements[i].kids[k] \in 1..Len(exprs)
      BY <3>1, <3>2
    <3>4. QED
      BY <1>1, <3>1, <3>3
  <2>3. QED
    BY <2>1, <2>2, SomeUse
<1>5. QED
  BY <1>2, <1>3, <1>4 DEF ExprUses

(* A step adds one use for each new id, and else moves uses at most, but   *)
(* that it may give up expressions with a report.                          *)
IsNew(id, old, new) == Num(Len(old) < id /\ id <= Len(new))

BlocksBalance ==
    \A b \in Ids : BlockUses(b)' = BlockUses(b) + IsNew(b, blocks, blocks')

StatementsBalance ==
    \A s \in Ids : StatementUses(s)' = StatementUses(s) + IsNew(s, statements, statements')

ExprsBalance ==
    \A e \in Ids :
        \E given \in Nat :
            /\ ExprUses(e)' \in Nat
            /\ ExprUses(e)' + given = ExprUses(e) + IsNew(e, exprs, exprs')
            /\ given # 0 => diags' # {}

LEMMA BalanceKeepsTree ==
    ASSUME BuilderInv, BuilderInv', TreeInv, diags \subseteq diags', TwoOperands(exprs'),
           BlocksBalance, StatementsBalance, ExprsBalance
    PROVE  TreeInv'
<1>1. /\ Len(blocks) \in Nat /\ Len(statements) \in Nat /\ Len(exprs) \in Nat
      /\ Len(blocks') \in Nat /\ Len(statements') \in Nat /\ Len(exprs') \in Nat
  BY Lengths DEF BuilderInv
<1>2. BlocksOnce'
  <2>1. SUFFICES ASSUME NEW b \in 1..Len(blocks') PROVE BlockUses(b)' = 1
    BY DEF BlocksOnce
  <2>2. b \in Ids /\ b \in Nat
    BY <1>1, IdsAre
  <2>3. BlockUses(b)' = BlockUses(b) + IsNew(b, blocks, blocks')
    BY <2>2 DEF BlocksBalance
  <2>4. CASE b <= Len(blocks)
    <3>1. b \in 1..Len(blocks)
      BY <1>1, <2>4
    <3>2. BlockUses(b) = 1
      BY <3>1 DEF TreeInv, BlocksOnce
    <3>3. IsNew(b, blocks, blocks') = 0
      BY <1>1, <3>1 DEF IsNew, Num
    <3>4. QED
      BY <2>3, <3>2, <3>3
  <2>5. CASE b > Len(blocks)
    <3>1. BlockUses(b) = 0
      BY <2>2, <2>5, FreshBlock
    <3>2. IsNew(b, blocks, blocks') = 1
      BY <1>1, <2>5 DEF IsNew, Num
    <3>3. QED
      BY <2>3, <3>1, <3>2
  <2>6. QED
    BY <1>1, <2>2, <2>4, <2>5
<1>3. StatementsOnce'
  <2>1. SUFFICES ASSUME NEW s \in 1..Len(statements') PROVE StatementUses(s)' = 1
    BY DEF StatementsOnce
  <2>2. s \in Ids /\ s \in Nat
    BY <1>1, IdsAre
  <2>3. StatementUses(s)' = StatementUses(s) + IsNew(s, statements, statements')
    BY <2>2 DEF StatementsBalance
  <2>4. CASE s <= Len(statements)
    <3>1. s \in 1..Len(statements)
      BY <1>1, <2>4
    <3>2. StatementUses(s) = 1
      BY <3>1 DEF TreeInv, StatementsOnce
    <3>3. IsNew(s, statements, statements') = 0
      BY <1>1, <3>1 DEF IsNew, Num
    <3>4. QED
      BY <2>3, <3>2, <3>3
  <2>5. CASE s > Len(statements)
    <3>1. StatementUses(s) = 0
      BY <2>2, <2>5, FreshStatement
    <3>2. IsNew(s, statements, statements') = 1
      BY <1>1, <2>5 DEF IsNew, Num
    <3>3. QED
      BY <2>3, <3>1, <3>2
  <2>6. QED
    BY <1>1, <2>2, <2>4, <2>5
<1>4. ExprsOnce'
  <2>1. SUFFICES ASSUME NEW e \in 1..Len(exprs')
                 PROVE  ExprUses(e)' \in {0, 1} /\ (ExprUses(e)' = 0 => diags' # {})
    BY DEF ExprsOnce
  <2>2. e \in Ids /\ e \in Nat
    BY <1>1, IdsAre
  <2>3. PICK given \in Nat :
            /\ ExprUses(e)' \in Nat
            /\ ExprUses(e)' + given = ExprUses(e) + IsNew(e, exprs, exprs')
            /\ given # 0 => diags' # {}
    BY <2>2 DEF ExprsBalance
  <2>4. CASE e <= Len(exprs)
    <3>1. e \in 1..Len(exprs)
      BY <1>1, <2>4
    <3>2. ExprUses(e) \in {0, 1} /\ (ExprUses(e) = 0 => diags # {})
      BY <3>1 DEF TreeInv, ExprsOnce
    <3>3. IsNew(e, exprs, exprs') = 0
      BY <1>1, <3>1 DEF IsNew, Num
    <3>4. diags # {} => diags' # {}
      OBVIOUS
    <3>5. ExprUses(e)' + given = ExprUses(e)
      BY <2>3, <3>2, <3>3
    <3>6. ExprUses(e)' \in {0, 1}
      BY <2>3, <3>2, <3>5
    <3>7. ExprUses(e)' = 0 => ExprUses(e) = 0 \/ given # 0
      BY <2>3, <3>5
    <3>8. QED
      BY <2>3, <3>2, <3>4, <3>6, <3>7
  <2>5. CASE e > Len(exprs)
    <3>1. ExprUses(e) = 0
      BY <2>2, <2>5, FreshExpr DEF TreeInv
    <3>2. IsNew(e, exprs, exprs') = 1
      BY <1>1, <2>5 DEF IsNew, Num
    <3>3. ExprUses(e)' + given = 1
      BY <2>3, <3>1, <3>2
    <3>4. QED
      BY <2>3, <3>3
  <2>6. QED
    BY <1>1, <2>2, <2>4, <2>5
<1>5. QED
  BY <1>2, <1>3, <1>4 DEF TreeInv

-----------------------------------------------------------------------------
(* 6. The balance that each of the other steps keeps.                      *)

LEMMA UsesAreNumbers ==
    ASSUME BuilderInv, NEW id
    PROVE  /\ Uses(id, BodiesOf(functions)) \in Nat /\ Uses(id, BlocksOf(statements)) \in Nat
           /\ Uses(id, blocks) \in Nat
           /\ Uses(id, Operands(exprs)) \in Nat /\ Uses(id, KidsOf(statements)) \in Nat
           /\ \A sort \in Sorts : OnStack(sort, id) \in Nat
<1>1. /\ functions \in Seq(FunctionEntry) /\ statements \in Seq(StatementEntry)
      /\ exprs \in Seq(ExprEntry) /\ blocks \in Seq(Seq(1..Len(statements)))
  BY DEF BuilderInv, ModuleOK, FunctionsOK, StatementsOK, ExprsOK
<1>2. /\ FiniteLists(BodiesOf(functions)) /\ FiniteLists(BlocksOf(statements))
      /\ FiniteLists(blocks) /\ FiniteLists(Operands(exprs)) /\ FiniteLists(KidsOf(statements))
  BY <1>1, BodiesFinite, StatementListsFinite, BlocksFinite, OperandsFinite
<1>3. ASSUME NEW sort \in Sorts PROVE OnStack(sort, id) \in Nat
  <2>1. Uses(id, FrameLists(sort, stack)) \in Nat
    BY FramesNowListed, ListsFinite, SpotsFinite
  <2>2. IsResult(sort, id) \in {0, 1}
    BY ResultNum
  <2>3. QED
    BY <2>1, <2>2 DEF OnStack
<1>4. QED
  BY <1>2, <1>3, SpotsFinite

LEMMA NumIs == ASSUME NEW b PROVE Num(b) \in Nat /\ Num(FALSE) = 0 /\ Num(TRUE) = 1
BY DEF Num

LEMMA NothingNew ==
    ASSUME NEW n \in Nat, NEW xs, Len(xs) = n, NEW id \in Ids PROVE IsNew(id, xs, xs) = 0
BY DEF IsNew, Num, Ids

LEMMA OneNew ==
    ASSUME NEW S, NEW xs \in Seq(S), NEW x, NEW ys, ys = Append(xs, x), NEW id \in Ids
    PROVE  IsNew(id, xs, ys) = Num(id = Len(xs) + 1)
<1>1. Len(xs) \in Nat /\ Len(ys) = Len(xs) + 1 /\ id \in Nat
  BY DEF Ids
<1>2. QED
  BY <1>1 DEF IsNew, Num

(* What a step does to the ids of a sort that are on the stack.            *)
SameOn(sort) == \A id \in Ids : OnStack(sort, id)' = OnStack(sort, id)

LEMMA LeaveMoves ==
    ASSUME BuilderInv, BuilderInv', stack # << >>, NEW r, Leave(r),
           NEW sort \in Sorts, NEW id \in Ids
    PROVE  /\ OnStack(sort, id) \in Nat /\ OnStack(sort, id)' \in Nat
           /\ Times(id, FrameIds(sort, Top)) \in Nat /\ IsResult(sort, id) \in Nat
           /\ OnStack(sort, id)' + Times(id, FrameIds(sort, Top)) + IsResult(sort, id) =
                  OnStack(sort, id) + Num(id = r /\ SortOf(Gives(Top)) = sort)
<1>1. /\ InBelow(sort, id) \in Nat /\ Times(id, FrameIds(sort, Top)) \in Nat
      /\ OnStack(sort, id) =
             InBelow(sort, id) + Times(id, FrameIds(sort, Top)) + IsResult(sort, id)
  BY StackUses
<1>2. OnStack(sort, id)' = InBelow(sort, id) + Num(id = r /\ SortOf(Gives(Top)) = sort)
  BY LeaveUses
<1>3. IsResult(sort, id) \in Nat
  BY ResultNum
<1>4. Num(id = r /\ SortOf(Gives(Top)) = sort) \in Nat
  BY NumIs
<1>5. QED
  BY <1>1, <1>2, <1>3, <1>4

LEMMA ResumeMoves ==
    ASSUME BuilderInv, BuilderInv', stack # << >>, NEW fr, NEW node, Resume(fr, node),
           Listed(fr), NEW sort \in Sorts, NEW id \in Ids
    PROVE  /\ OnStack(sort, id) \in Nat /\ OnStack(sort, id)' \in Nat
           /\ Times(id, FrameIds(sort, Top)) \in Nat /\ IsResult(sort, id) \in Nat
           /\ Times(id, FrameIds(sort, fr)) \in Nat
           /\ OnStack(sort, id)' + Times(id, FrameIds(sort, Top)) + IsResult(sort, id) =
                  OnStack(sort, id) + Times(id, FrameIds(sort, fr))
<1>1. /\ InBelow(sort, id) \in Nat /\ Times(id, FrameIds(sort, Top)) \in Nat
      /\ OnStack(sort, id) =
             InBelow(sort, id) + Times(id, FrameIds(sort, Top)) + IsResult(sort, id)
  BY StackUses
<1>2. OnStack(sort, id)' = InBelow(sort, id) + Times(id, FrameIds(sort, fr))
  BY ResumeUses
<1>3. IsResult(sort, id) \in Nat
  BY ResultNum
<1>4. Times(id, FrameIds(sort, fr)) \in Nat
  BY TimesFinite DEF Listed
<1>5. QED
  BY <1>1, <1>2, <1>3, <1>4

LEMMA ReturnSameOn ==
    ASSUME BuilderInv, call # Null, NEW r, Return(r), NEW sort \in Sorts,
           SortOf(Wants(Top)) # sort
    PROVE  SameOn(sort)
<1>1. SUFFICES ASSUME NEW id \in Ids PROVE OnStack(sort, id)' = OnStack(sort, id)
  BY DEF SameOn
<1>2. /\ OnStack(sort, id) \in Nat
      /\ OnStack(sort, id)' = OnStack(sort, id) + Num(id = r /\ SortOf(Wants(Top)) = sort)
  BY ReturnUses
<1>3. Num(id = r /\ SortOf(Wants(Top)) = sort) = 0
  BY DEF Num
<1>4. QED
  BY <1>2, <1>3

LEMMA LeaveSameOn ==
    ASSUME BuilderInv, BuilderInv', stack # << >>, NEW r, Leave(r), NEW sort \in Sorts,
           FrameIds(sort, Top) = << >>, SortOf(Wants(Top)) # sort, SortOf(Gives(Top)) # sort
    PROVE  SameOn(sort)
<1>1. SUFFICES ASSUME NEW id \in Ids PROVE OnStack(sort, id)' = OnStack(sort, id)
  BY DEF SameOn
<1>2. /\ OnStack(sort, id) \in Nat /\ OnStack(sort, id)' \in Nat
      /\ OnStack(sort, id)' + Times(id, FrameIds(sort, Top)) + IsResult(sort, id) =
             OnStack(sort, id) + Num(id = r /\ SortOf(Gives(Top)) = sort)
  BY LeaveMoves
<1>3. Num(id = r /\ SortOf(Gives(Top)) = sort) = 0 /\ IsResult(sort, id) = 0
  BY DEF Num, IsResult
<1>4. Times(id, FrameIds(sort, Top)) = 0
  BY TimesOfFew
<1>5. QED
  BY <1>2, <1>3, <1>4

LEMMA ResumeSameOn ==
    ASSUME BuilderInv, BuilderInv', stack # << >>, NEW fr, NEW node, Resume(fr, node),
           Listed(fr), NEW sort \in Sorts,
           FrameIds(sort, Top) = << >>, FrameIds(sort, fr) = << >>, SortOf(Wants(Top)) # sort
    PROVE  SameOn(sort)
<1>1. SUFFICES ASSUME NEW id \in Ids PROVE OnStack(sort, id)' = OnStack(sort, id)
  BY DEF SameOn
<1>2. /\ OnStack(sort, id) \in Nat /\ OnStack(sort, id)' \in Nat
      /\ OnStack(sort, id)' + Times(id, FrameIds(sort, Top)) + IsResult(sort, id) =
             OnStack(sort, id) + Times(id, FrameIds(sort, fr))
  BY ResumeMoves
<1>3. IsResult(sort, id) = 0
  BY DEF Num, IsResult
<1>4. Times(id, FrameIds(sort, Top)) = 0 /\ Times(id, FrameIds(sort, fr)) = 0
  BY TimesOfFew
<1>5. QED
  BY <1>2, <1>3, <1>4

(* Blocks, and statements, that a step leaves alone.                       *)
LEMMA SameBlocks ==
    ASSUME BuilderInv, blocks' = blocks, SameBodies, SameOn("block"),
           \A b \in Ids : Uses(b, BlocksOf(statements')) = Uses(b, BlocksOf(statements))
    PROVE  BlocksBalance
<1>1. SUFFICES ASSUME NEW b \in Ids
               PROVE  BlockUses(b)' = BlockUses(b) + IsNew(b, blocks, blocks')
  BY DEF BlocksBalance
<1>2. IsNew(b, blocks, blocks) = 0
  BY Lengths, NothingNew DEF BuilderInv
<1>3. /\ Uses(b, BodiesOf(functions)) \in Nat /\ Uses(b, BlocksOf(statements)) \in Nat
      /\ OnStack("block", b) \in Nat
  BY UsesAreNumbers DEF Sorts
<1>4. /\ Uses(b, BodiesOf(functions')) = Uses(b, BodiesOf(functions))
      /\ OnStack("block", b)' = OnStack("block", b)
      /\ Uses(b, BlocksOf(statements')) = Uses(b, BlocksOf(statements))
  BY DEF SameBodies, SameOn
<1>5. BlockUses(b)' = Uses(b, BodiesOf(functions')) + Uses(b, BlocksOf(statements'))
                      + OnStack("block", b)'
  BY DEF BlockUses
<1>6. QED
  BY <1>2, <1>3, <1>4, <1>5 DEF BlockUses

LEMMA SameStatements ==
    ASSUME BuilderInv, statements' = statements, blocks' = blocks, SameOn("statement")
    PROVE  StatementsBalance
<1>1. SUFFICES ASSUME NEW s \in Ids
               PROVE  StatementUses(s)' = StatementUses(s) + IsNew(s, statements, statements')
  BY DEF StatementsBalance
<1>2. IsNew(s, statements, statements) = 0
  BY Lengths, NothingNew DEF BuilderInv
<1>3. Uses(s, blocks) \in Nat /\ OnStack("statement", s) \in Nat
  BY UsesAreNumbers DEF Sorts
<1>4. OnStack("statement", s)' = OnStack("statement", s)
  BY DEF SameOn
<1>5. QED
  BY <1>2, <1>3, <1>4 DEF StatementUses

LEMMA SameExprs ==
    ASSUME BuilderInv, exprs' = exprs, SameOn("expr"),
           \A e \in Ids : Uses(e, KidsOf(statements')) = Uses(e, KidsOf(statements))
    PROVE  ExprsBalance
<1>1. SUFFICES ASSUME NEW e \in Ids
               PROVE  /\ ExprUses(e)' \in Nat
                      /\ ExprUses(e)' + 0 = ExprUses(e) + IsNew(e, exprs, exprs')
  BY DEF ExprsBalance
<1>2. IsNew(e, exprs, exprs) = 0
  BY Lengths, NothingNew DEF BuilderInv
<1>3. /\ Uses(e, Operands(exprs)) \in Nat /\ Uses(e, KidsOf(statements)) \in Nat
      /\ OnStack("expr", e) \in Nat
  BY UsesAreNumbers DEF Sorts
<1>4. /\ OnStack("expr", e)' = OnStack("expr", e)
      /\ Uses(e, KidsOf(statements')) = Uses(e, KidsOf(statements))
  BY DEF SameOn
<1>5. ExprUses(e)' = Uses(e, Operands(exprs)) + Uses(e, KidsOf(statements'))
                     + OnStack("expr", e)'
  BY DEF ExprUses
<1>6. QED
  BY <1>2, <1>3, <1>4, <1>5 DEF ExprUses

LEMMA SameOfAddsExpr ==
    ASSUME BuilderInv, AddsExpr, SameOn("block"), SameOn("statement")
    PROVE  BlocksBalance /\ StatementsBalance
<1>1. functions' = functions /\ blocks' = blocks /\ statements' = statements
  BY DEF AddsExpr
<1>2. SameBodies
  BY <1>1, SameFunctionsSameBodies
<1>3. \A b \in Ids : Uses(b, BlocksOf(statements')) = Uses(b, BlocksOf(statements))
  BY <1>1
<1>4. QED
  BY <1>1, <1>2, <1>3, SameBlocks, SameStatements

-----------------------------------------------------------------------------
(* 7. Expressions, one build function after the other.                     *)

LEMMA MoreTwo ==
    ASSUME NEW S, NEW xs \in Seq(S), TwoOperands(xs), NEW x,
           x.kind \in {"Assign", "Binary"} => Len(x.kids) = 2
    PROVE  TwoOperands(Append(xs, x))
<1> DEFINE ys == Append(xs, x)
<1>1. /\ Len(ys) = Len(xs) + 1 /\ Len(xs) \in Nat /\ ys[Len(xs) + 1] = x
      /\ \A i \in 1..Len(xs) : ys[i] = xs[i]
  BY AppendProperties
<1> HIDE DEF ys
<1>2. SUFFICES ASSUME NEW e \in 1..Len(ys), ys[e].kind \in {"Assign", "Binary"}
               PROVE  Len(ys[e].kids) = 2
  BY DEF TwoOperands, ys
<1>3. e \in 1..Len(xs) \/ e = Len(xs) + 1
  BY <1>1
<1>4. QED
  BY <1>1, <1>2, <1>3 DEF TwoOperands

LEMMA ExprsNow ==
    ASSUME BuilderInv, TreeInv
    PROVE  /\ ExprsOK(exprs, Len(types), Len(symbols), Len(functions))
           /\ TwoOperands(exprs) /\ KidsFirst(exprs)
           /\ exprs \in Seq(ExprEntry) /\ Len(exprs) \in Nat
<1>1. ExprsOK(exprs, Len(types), Len(symbols), Len(functions))
  BY DEF BuilderInv, ModuleOK
<1>2. KidsFirst(exprs)
  BY <1>1, KidsComeFirst
<1>3. QED
  BY <1>1, <1>2 DEF TreeInv, ExprsOK

LEMMA PlainOperands ==
    ASSUME NEW xs, KidsFirst(xs), TwoOperands(xs), NEW x, IsFiniteSet(DOMAIN x.kids),
           NEW ys, ys = Append(xs, x), ~IsCompound(x, ys), NEW id
    PROVE  /\ Uses(id, Operands(xs)) \in Nat /\ Times(id, x.kids) \in Nat
           /\ Uses(id, Operands(ys)) = Uses(id, Operands(xs)) + Times(id, x.kids)
<1>1. OperandsOf(x, ys) = x.kids
  BY DEF OperandsOf
<1>2. IsFiniteSet(DOMAIN OperandsOf(x, ys))
  BY <1>1
<1>3. /\ Uses(id, Operands(xs)) \in Nat /\ Times(id, OperandsOf(x, ys)) \in Nat
      /\ Uses(id, Operands(ys)) = Uses(id, Operands(xs)) + Times(id, OperandsOf(x, ys))
  BY <1>2, MoreOperands
<1>4. QED
  BY <1>1, <1>3

(* A value without operands.                                               *)
LEMMA PlainExpr ==
    ASSUME BuilderInv, TreeInv, NEW x, x.kids = << >>, x.kind \notin {"Assign", "Binary"},
           NEW ys, ys = Append(exprs, x)
    PROVE  /\ TwoOperands(ys)
           /\ \A e \in Ids : /\ Uses(e, Operands(ys)) = Uses(e, Operands(exprs))
                             /\ IsNew(e, exprs, ys) = Num(e = Len(exprs) + 1)
<1>1. TwoOperands(exprs) /\ KidsFirst(exprs) /\ exprs \in Seq(ExprEntry)
  BY ExprsNow
<1>2. TwoOperands(ys)
  BY <1>1, MoreTwo
<1>3. OperandsOf(x, ys) = << >>
  BY DEF OperandsOf, IsCompound
<1>4. ASSUME NEW e \in Ids PROVE Uses(e, Operands(ys)) = Uses(e, Operands(exprs))
  <2>1. IsFiniteSet(DOMAIN OperandsOf(x, ys))
    BY <1>3, FewFinite
  <2>2. Uses(e, Operands(exprs)) \in Nat
        /\ Uses(e, Operands(ys)) = Uses(e, Operands(exprs)) + Times(e, OperandsOf(x, ys))
    BY <1>1, <2>1, MoreOperands
  <2>3. Times(e, OperandsOf(x, ys)) = 0
    BY <1>3, TimesOfFew
  <2>4. QED
    BY <2>2, <2>3
<1>5. \A e \in Ids : IsNew(e, exprs, ys) = Num(e = Len(exprs) + 1)
  BY <1>1, OneNew DEF Num
<1>6. QED
  BY <1>2, <1>4, <1>5

LEMMA ReturnExprTree ==
    ASSUME BuilderInv, BuilderInv', TreeInv, AddsExpr, diags \subseteq diags', call # Null,
           Wants(Top) = "expr", NEW x, x.kids = << >>, x.kind \notin {"Assign", "Binary"},
           exprs' = Append(exprs, x), Return(Len(exprs) + 1)
    PROVE  TreeInv'
<1> DEFINE ys == exprs'
<1>1. /\ TwoOperands(ys)
      /\ \A e \in Ids : /\ Uses(e, Operands(ys)) = Uses(e, Operands(exprs))
                        /\ IsNew(e, exprs, ys) = Num(e = Len(exprs) + 1)
  <2>1. ys = Append(exprs, x)
    OBVIOUS
  <2> HIDE DEF ys
  <2>2. QED
    BY <2>1, PlainExpr
<1>2. SortOf(Wants(Top)) = "expr" /\ {"block", "statement", "expr"} = Sorts
  BY DEF SortOf, Sorts
<1>3. SameOn("block") /\ SameOn("statement")
  BY <1>2, ReturnSameOn
<1>4. statements' = statements
  BY DEF AddsExpr
<1>5. ExprsBalance
  <2>1. SUFFICES ASSUME NEW e \in Ids
                 PROVE  /\ ExprUses(e)' \in Nat
                        /\ ExprUses(e)' + 0 = ExprUses(e) + IsNew(e, exprs, exprs')
    BY DEF ExprsBalance
  <2>2. /\ OnStack("expr", e) \in Nat
        /\ OnStack("expr", e)' = OnStack("expr", e) + Num(e = Len(exprs) + 1)
    <3>1. OnStack("expr", e)' = OnStack("expr", e)
                                + Num(e = Len(exprs) + 1 /\ SortOf(Wants(Top)) = "expr")
      BY <1>2, ReturnUses
    <3>2. OnStack("expr", e) \in Nat
      BY <1>2, UsesAreNumbers
    <3>3. QED
      BY <1>2, <3>1, <3>2
  <2>3. Uses(e, Operands(exprs)) \in Nat /\ Uses(e, KidsOf(statements)) \in Nat
    BY UsesAreNumbers
  <2>4. Num(e = Len(exprs) + 1) \in Nat
    BY NumIs
  <2>5. ExprUses(e)' = Uses(e, Operands(exprs')) + Uses(e, KidsOf(statements'))
                       + OnStack("expr", e)'
    BY DEF ExprUses
  <2>6. Uses(e, Operands(exprs')) = Uses(e, Operands(exprs))
        /\ IsNew(e, exprs, exprs') = Num(e = Len(exprs) + 1)
    BY <1>1
  <2>7. QED
    BY <1>4, <2>2, <2>3, <2>4, <2>5, <2>6 DEF ExprUses
<1>6. BlocksBalance /\ StatementsBalance
  BY <1>3, SameOfAddsExpr
<1>7. QED
  BY <1>1, <1>5, <1>6, BalanceKeepsTree

ExprPoints == {"rhs", "ternary", "operands", "arguments"}

LEMMA ExprPointFacts ==
    ASSUME NEW fr, fr.at \in ExprPoints
    PROVE  /\ Wants(fr) = "expr" /\ Gives(fr) = "expr"
           /\ SortOf(Wants(fr)) = "expr" /\ SortOf(Gives(fr)) = "expr"
           /\ FrameIds("block", fr) = << >> /\ FrameIds("statement", fr) = << >>
           /\ {"block", "statement", "expr"} = Sorts
<1>1. Wants(fr) = "expr" /\ Gives(fr) = "expr"
  BY DEF Wants, Gives, ExprPoints
<1>2. FrameIds("block", fr) = << >> /\ FrameIds("statement", fr) = << >>
  BY DEF FrameIds, ExprPoints
<1>3. QED
  BY <1>1, <1>2 DEF SortOf, Sorts

(* What a step does with the values in hand: they, and those of the frame, *)
(* become operands, or values in hand again, or are given up.              *)
LEMMA LeaveExprTree ==
    ASSUME BuilderInv, BuilderInv', TreeInv, AddsExpr, diags \subseteq diags',
           NEW point \in ExprPoints, At(point), NEW r, Leave(r), TwoOperands(exprs'),
           \A e \in Ids :
               \E given \in Nat :
                   /\ Uses(e, Operands(exprs')) \in Nat
                   /\ Uses(e, Operands(exprs')) + Num(e = r) + given =
                          Uses(e, Operands(exprs)) + Times(e, FrameIds("expr", Top))
                          + Num(e = returned) + IsNew(e, exprs, exprs')
                   /\ given # 0 => diags' # {}
    PROVE  TreeInv'
<1>1. stack # << >> /\ Top.at \in ExprPoints
  BY AtFacts
<1>2. /\ SortOf(Wants(Top)) = "expr" /\ SortOf(Gives(Top)) = "expr"
      /\ FrameIds("block", Top) = << >> /\ FrameIds("statement", Top) = << >>
      /\ {"block", "statement", "expr"} = Sorts
  BY <1>1, ExprPointFacts
<1>3. SameOn("block") /\ SameOn("statement")
  BY <1>1, <1>2, LeaveSameOn
<1>4. statements' = statements
  BY DEF AddsExpr
<1>5. ExprsBalance
  <2>1. SUFFICES ASSUME NEW e \in Ids
                 PROVE  \E given \in Nat :
                            /\ ExprUses(e)' \in Nat
                            /\ ExprUses(e)' + given = ExprUses(e) + IsNew(e, exprs, exprs')
                            /\ given # 0 => diags' # {}
    BY DEF ExprsBalance
  <2>2. PICK given \in Nat :
            /\ Uses(e, Operands(exprs')) \in Nat
            /\ Uses(e, Operands(exprs')) + Num(e = r) + given =
                   Uses(e, Operands(exprs)) + Times(e, FrameIds("expr", Top))
                   + Num(e = returned) + IsNew(e, exprs, exprs')
            /\ given # 0 => diags' # {}
    OBVIOUS
  <2>3. /\ OnStack("expr", e) \in Nat /\ OnStack("expr", e)' \in Nat
        /\ Times(e, FrameIds("expr", Top)) \in Nat
        /\ OnStack("expr", e)' + Times(e, FrameIds("expr", Top)) + IsResult("expr", e) =
               OnStack("expr", e) + Num(e = r /\ SortOf(Gives(Top)) = "expr")
    BY <1>1, <1>2, LeaveMoves
  <2>4. IsResult("expr", e) = Num(e = returned)
    BY <1>1, <1>2 DEF IsResult, Num
  <2>5. Num(e = r /\ SortOf(Gives(Top)) = "expr") = Num(e = r)
    BY <1>2
  <2>6. Uses(e, Operands(exprs)) \in Nat /\ Uses(e, KidsOf(statements)) \in Nat
    BY UsesAreNumbers
  <2>7. Num(e = r) \in Nat /\ Num(e = returned) \in Nat
    BY NumIs
  <2>8. IsNew(e, exprs, exprs') \in Nat
    BY NumIs DEF IsNew
  <2>9. ExprUses(e)' = Uses(e, Operands(exprs')) + Uses(e, KidsOf(statements))
                       + OnStack("expr", e)'
    BY <1>4 DEF ExprUses
  <2>10. ExprUses(e) = Uses(e, Operands(exprs)) + Uses(e, KidsOf(statements))
                       + OnStack("expr", e)
    BY DEF ExprUses
  <2>11. /\ Uses(e, Operands(exprs')) \in Nat
         /\ Uses(e, Operands(exprs')) + Num(e = r) + given =
                Uses(e, Operands(exprs)) + Times(e, FrameIds("expr", Top))
                + Num(e = returned) + IsNew(e, exprs, exprs')
    BY <2>2
  <2>12. ExprUses(e)' \in Nat
    BY <2>3, <2>6, <2>9, <2>11
  <2>13. ExprUses(e)' + given = ExprUses(e) + IsNew(e, exprs, exprs')
    <3> DEFINE a == Uses(e, Operands(exprs'))
               b == OnStack("expr", e)'
               c == Times(e, FrameIds("expr", Top))
    <3>1. a \in Nat /\ b \in Nat /\ c \in Nat
      BY <2>3, <2>11
    <3>2. a + Num(e = r) + given =
              Uses(e, Operands(exprs)) + c + Num(e = returned) + IsNew(e, exprs, exprs')
      BY <2>11
    <3>3. b + c + Num(e = returned) = OnStack("expr", e) + Num(e = r)
      BY <2>3, <2>4, <2>5
    <3>4. ExprUses(e)' = a + Uses(e, KidsOf(statements)) + b
      BY <2>9
    <3> HIDE DEF a, b, c
    <3>5. QED
      BY <2>3, <2>6, <2>7, <2>8, <2>10, <3>1, <3>2, <3>3, <3>4
  <2>14. QED
    BY <2>2, <2>12, <2>13
<1>6. BlocksBalance /\ StatementsBalance
  BY <1>3, SameOfAddsExpr
<1>7. QED
  BY <1>5, <1>6, BalanceKeepsTree

LEMMA ResumeExprTree ==
    ASSUME BuilderInv, BuilderInv', TreeInv, AddsExpr, diags \subseteq diags',
           NEW point \in ExprPoints, At(point), NEW fr, NEW node, Resume(fr, node),
           fr.at = point, Listed(fr), TwoOperands(exprs'),
           \A e \in Ids :
               /\ Uses(e, Operands(exprs')) \in Nat
               /\ Uses(e, Operands(exprs')) + Times(e, FrameIds("expr", fr)) =
                      Uses(e, Operands(exprs)) + Times(e, FrameIds("expr", Top))
                      + Num(e = returned) + IsNew(e, exprs, exprs')
    PROVE  TreeInv'
<1>1. stack # << >> /\ Top.at \in ExprPoints /\ fr.at \in ExprPoints
  BY AtFacts
<1>2. /\ SortOf(Wants(Top)) = "expr"
      /\ FrameIds("block", Top) = << >> /\ FrameIds("statement", Top) = << >>
      /\ {"block", "statement", "expr"} = Sorts
  BY <1>1, ExprPointFacts
<1>3. FrameIds("block", fr) = << >> /\ FrameIds("statement", fr) = << >>
  BY <1>1, ExprPointFacts
<1>4. SameOn("block") /\ SameOn("statement")
  BY <1>1, <1>2, <1>3, ResumeSameOn
<1>5. statements' = statements
  BY DEF AddsExpr
<1>6. ExprsBalance
  <2>1. SUFFICES ASSUME NEW e \in Ids
                 PROVE  /\ ExprUses(e)' \in Nat
                        /\ ExprUses(e)' + 0 = ExprUses(e) + IsNew(e, exprs, exprs')
    BY DEF ExprsBalance
  <2>2. /\ Uses(e, Operands(exprs')) \in Nat
        /\ Uses(e, Operands(exprs')) + Times(e, FrameIds("expr", fr)) =
               Uses(e, Operands(exprs)) + Times(e, FrameIds("expr", Top))
               + Num(e = returned) + IsNew(e, exprs, exprs')
    OBVIOUS
  <2>3. /\ OnStack("expr", e) \in Nat /\ OnStack("expr", e)' \in Nat
        /\ Times(e, FrameIds("expr", Top)) \in Nat /\ Times(e, FrameIds("expr", fr)) \in Nat
        /\ OnStack("expr", e)' + Times(e, FrameIds("expr", Top)) + IsResult("expr", e) =
               OnStack("expr", e) + Times(e, FrameIds("expr", fr))
    BY <1>1, <1>2, ResumeMoves
  <2>4. IsResult("expr", e) = Num(e = returned)
    BY <1>1, <1>2 DEF IsResult, Num
  <2>5. Uses(e, Operands(exprs)) \in Nat /\ Uses(e, KidsOf(statements)) \in Nat
    BY UsesAreNumbers
  <2>6. Num(e = returned) \in Nat
    BY NumIs
  <2>7. IsNew(e, exprs, exprs') \in Nat
    BY NumIs DEF IsNew
  <2>8. ExprUses(e)' = Uses(e, Operands(exprs')) + Uses(e, KidsOf(statements))
                       + OnStack("expr", e)'
    BY <1>5 DEF ExprUses
  <2>9. ExprUses(e) = Uses(e, Operands(exprs)) + Uses(e, KidsOf(statements))
                      + OnStack("expr", e)
    BY DEF ExprUses
  <2>10. QED
    BY <2>2, <2>3, <2>4, <2>5, <2>6, <2>7, <2>8, <2>9
<1>7. BlocksBalance /\ StatementsBalance
  BY <1>4, SameOfAddsExpr
<1>8. QED
  BY <1>6, <1>7, BalanceKeepsTree

(* A conversion uses what it converts, and is used in its place.           *)
LEMMA CastUses ==
    ASSUME BuilderInv, TreeInv, NEW id \in 1..Len(exprs), NEW target \in 1..Len(types)
    PROVE  LET cast == WithCast(id, target)
           IN  /\ ExprsOK(cast, Len(types), Len(symbols), Len(functions))
               /\ TwoOperands(cast) /\ KidsFirst(cast)
               /\ cast \in Seq(ExprEntry) /\ Len(cast) \in Nat /\ Len(exprs) <= Len(cast)
               /\ CastTo(id, target) \in 1..Len(cast)
               /\ \A e \in Ids :
                     /\ Uses(e, Operands(cast)) \in Nat
                     /\ Uses(e, Operands(cast)) + Num(e = CastTo(id, target)) =
                            Uses(e, Operands(exprs)) + Num(e = id) + IsNew(e, exprs, cast)
<1> DEFINE cast == WithCast(id, target)
           Good == /\ TwoOperands(cast)
                   /\ \A e \in Ids :
                        /\ Uses(e, Operands(cast)) \in Nat
                        /\ Uses(e, Operands(cast)) + Num(e = CastTo(id, target)) =
                               Uses(e, Operands(exprs)) + Num(e = id) + IsNew(e, exprs, cast)
<1>1. /\ TwoOperands(exprs) /\ KidsFirst(exprs)
      /\ exprs \in Seq(ExprEntry) /\ Len(exprs) \in Nat
  BY ExprsNow
<1>2. /\ ExprsOK(cast, Len(types), Len(symbols), Len(functions))
      /\ Len(cast) \in Nat /\ Len(exprs) <= Len(cast)
      /\ CastTo(id, target) \in 1..Len(cast)
  BY CastOK DEF BuilderInv
<1> HIDE DEF cast
<1>3. cast \in Seq(ExprEntry) /\ KidsFirst(cast)
  BY <1>2, KidsComeFirst DEF KidsFirst
<1>4. ASSUME ~NeedsCast(id, target) PROVE Good
  <2>1. cast = exprs /\ CastTo(id, target) = id
    BY <1>4 DEF cast, WithCast, CastTo
  <2>2. ASSUME NEW e \in Ids
        PROVE  /\ Uses(e, Operands(exprs)) \in Nat
               /\ IsNew(e, exprs, exprs) = 0 /\ Num(e = id) \in Nat
    BY <1>1, UsesAreNumbers, NothingNew, NumIs
  <2>3. QED
    BY <1>1, <2>1, <2>2
<1>5. ASSUME NeedsCast(id, target) PROVE Good
  <2> DEFINE x == Expr("ImplicitCast", target, <<id>>, Invalid, << >>)
  <2>1. cast = Append(exprs, x) /\ CastTo(id, target) = Len(exprs) + 1
    BY <1>5 DEF cast, WithCast, CastTo
  <2>2. x.kind = "ImplicitCast" /\ x.kids = <<id>>
    BY DEF Expr
  <2> HIDE DEF x
  <2>3. TwoOperands(cast)
    BY <1>1, <2>1, <2>2, MoreTwo
  <2>4. ~IsCompound(x, cast)
    BY <2>2 DEF IsCompound
  <2>5. ASSUME NEW e \in Ids
        PROVE  /\ Uses(e, Operands(cast)) \in Nat
               /\ Uses(e, Operands(cast)) + Num(e = CastTo(id, target)) =
                      Uses(e, Operands(exprs)) + Num(e = id) + IsNew(e, exprs, cast)
    <3>1. IsFiniteSet(DOMAIN x.kids)
      BY <2>2, FewFinite
    <3>2. /\ Uses(e, Operands(exprs)) \in Nat
          /\ Uses(e, Operands(cast)) = Uses(e, Operands(exprs)) + Times(e, x.kids)
      <4>1. /\ KidsFirst(exprs) /\ TwoOperands(exprs) /\ cast = Append(exprs, x)
            /\ IsFiniteSet(DOMAIN x.kids) /\ ~IsCompound(x, cast)
        BY <1>1, <2>1, <2>4, <3>1

      <4>2. QED
        BY <4>1, PlainOperands, Zenon
    <3>3. Times(e, x.kids) = Num(e = id)
      <4>1. Times(e, <<id>>) = Num(id = e)
        BY TimesOfFew
      <4>2. QED
        BY <2>2, <4>1 DEF Num
    <3>4. IsNew(e, exprs, cast) = Num(e = Len(exprs) + 1)
      BY <1>1, <2>1, OneNew DEF Num
    <3>5. Num(e = id) \in Nat /\ Num(e = Len(exprs) + 1) \in Nat
      BY NumIs
    <3>6. QED
      BY <2>1, <3>2, <3>3, <3>4, <3>5
  <2>6. QED
    BY <2>3, <2>5
<1>6. Good
  BY <1>4, <1>5
<1>7. QED
  BY <1>2, <1>3, <1>6 DEF cast

LEMMA ExprIdsAre ==
    ASSUME NEW fr
    PROVE  /\ fr.at = "rhs" => FrameIds("expr", fr) = <<fr.lhs>>
           /\ fr.at = "operands" => FrameIds("expr", fr) = <<fr.acc>>
           /\ fr.at = "arguments" => FrameIds("expr", fr) = fr.args
           /\ fr.at = "ternary" => FrameIds("expr", fr) = << >>
BY DEF FrameIds

LEMMA ResumedListed ==
    ASSUME BuilderInv, BuilderInv', stack # << >>, NEW fr, NEW node, Resume(fr, node)
    PROVE  Listed(fr)
<1> DEFINE st == stack'
           G == FramesNow'
<1>1. st \in Seq(G) /\ \A f \in G : Listed(f)
  BY FramesListed DEF BuilderInv, StackOK, FramesNow
<1>2. st = Append(Below, fr) /\ Below \in Seq(FramesNow)
  BY TopFacts DEF Resume, BuilderInv
<1> HIDE DEF st, G
<1>3. Len(st) = Len(Below) + 1 /\ Len(Below) \in Nat /\ st[Len(st)] = fr
  BY <1>2, AppendProperties
<1>4. Len(st) \in 1..Len(st)
  BY <1>3
<1>5. fr \in G
  BY <1>1, <1>3, <1>4, ElementOfSeq
<1>6. QED
  BY <1>1, <1>5

LEMMA EndTernaryTree ==
    ASSUME BuilderInv, BuilderInv', TreeInv, EndTernary PROVE TreeInv'
<1>1. /\ At("ternary") /\ AddsExpr /\ Leave(Len(exprs) + 1) /\ diags \subseteq diags'
      /\ diags' # {} /\ exprs' = Append(exprs, ErrorExpr)
  BY DEF EndTernary, MakeErrorExpr, Report
<1>2. ErrorExpr.kids = << >> /\ ErrorExpr.kind = "Error"
  BY DEF ErrorExpr, Expr
<1> DEFINE ys == exprs'
<1>3. ys = Append(exprs, ErrorExpr)
  BY <1>1
<1> HIDE DEF ys
<1>4. /\ TwoOperands(ys)
      /\ \A e \in Ids : /\ Uses(e, Operands(ys)) = Uses(e, Operands(exprs))
                        /\ IsNew(e, exprs, ys) = Num(e = Len(exprs) + 1)
  BY <1>2, <1>3, PlainExpr
<1>5. Top.at = "ternary"
  BY <1>1, AtFacts
<1>6. ASSUME NEW e \in Ids
      PROVE  /\ Num(e = returned) \in Nat
             /\ Uses(e, Operands(ys)) \in Nat
             /\ Uses(e, Operands(ys)) + Num(e = Len(exprs) + 1) + Num(e = returned) =
                    Uses(e, Operands(exprs)) + Times(e, FrameIds("expr", Top))
                    + Num(e = returned) + IsNew(e, exprs, ys)
  <2>1. Uses(e, Operands(exprs)) \in Nat
    BY UsesAreNumbers
  <2>2. Num(e = returned) \in Nat /\ Num(e = Len(exprs) + 1) \in Nat
    BY NumIs
  <2>3. Times(e, FrameIds("expr", Top)) = 0
    BY <1>5, ExprIdsAre, TimesOfFew
  <2>4. QED
    BY <1>4, <2>1, <2>2, <2>3
<1>7. QED
  BY <1>1, <1>4, <1>6, LeaveExprTree DEF ys, ExprPoints

LEMMA EndFuncCallTree ==
    ASSUME BuilderInv, BuilderInv', TreeInv, EndFuncCall PROVE TreeInv'
<1>1. /\ At("arguments") /\ AddsExpr /\ diags' = diags /\ Leave(Len(exprs) + 1)
      /\ returned = Invalid
  BY DEF EndFuncCall
<1> DEFINE f == Top.function
           type == IF f = Invalid THEN errorType ELSE functions[f].returnType
           x == Expr("Call", type, Top.args, f, << >>)
           ys == exprs'
<1>2. ys = Append(exprs, x)
  BY DEF EndFuncCall
<1>3. x.kind = "Call" /\ x.kids = Top.args
  BY DEF Expr
<1> HIDE DEF x, ys
<1>4. Top.at = "arguments" /\ Top.args \in Seq(1..Len(exprs))
  BY <1>1, ArgumentsFound
<1>5. /\ TwoOperands(exprs) /\ KidsFirst(exprs) /\ exprs \in Seq(ExprEntry)
  BY ExprsNow
<1>6. TwoOperands(ys)
  BY <1>2, <1>3, <1>5, MoreTwo
<1>7. IsFiniteSet(DOMAIN x.kids) /\ ~IsCompound(x, ys)
  BY <1>3, <1>4, SeqFinite DEF IsCompound
<1>8. ASSUME NEW e \in Ids
      PROVE  /\ Uses(e, Operands(ys)) \in Nat
             /\ Uses(e, Operands(ys)) + Num(e = Len(exprs) + 1) + 0 =
                    Uses(e, Operands(exprs)) + Times(e, FrameIds("expr", Top))
                    + Num(e = returned) + IsNew(e, exprs, ys)
  <2>1. /\ Uses(e, Operands(exprs)) \in Nat /\ Times(e, x.kids) \in Nat
        /\ Uses(e, Operands(ys)) = Uses(e, Operands(exprs)) + Times(e, x.kids)
    BY <1>2, <1>5, <1>7, PlainOperands, Zenon
  <2>2. FrameIds("expr", Top) = x.kids
    BY <1>3, <1>4, ExprIdsAre
  <2>3. IsNew(e, exprs, ys) = Num(e = Len(exprs) + 1)
    BY <1>2, <1>5, OneNew DEF Num
  <2>4. Num(e = Len(exprs) + 1) \in Nat /\ Num(e = returned) = 0
    BY <1>1 DEF Num, Ids
  <2>5. QED
    BY <2>1, <2>2, <2>3, <2>4
<1>9. QED
  BY <1>1, <1>6, <1>8, LeaveExprTree DEF ys, ExprPoints

LEMMA ArgumentAdded ==
    ASSUME NEW S, NEW args \in Seq(S), NEW id, NEW e \in Ids
    PROVE  Times(e, Append(args, id)) = Times(e, args) + Num(e = id)
<1>1. Times(e, Append(args, id)) = Times(e, args) + Num(id = e)
  BY TimesOfMore
<1>2. Num(id = e) = Num(e = id)
  BY DEF Num
<1>3. QED
  BY <1>1, <1>2

(* The arguments' loop: it takes one argument more, or none.               *)
LEMMA ArgumentTree ==
    ASSUME BuilderInv, BuilderInv', TreeInv, AddsExpr, diags' = diags, At("arguments"),
           NEW fr, NEW node, Resume(fr, node), fr.at = "arguments", TwoOperands(exprs'),
           NEW id, \A e \in Ids : Times(e, fr.args) = Times(e, Top.args) + Num(e = id),
           \A e \in Ids :
               /\ Uses(e, Operands(exprs')) \in Nat
               /\ Uses(e, Operands(exprs')) + Num(e = id) =
                      Uses(e, Operands(exprs)) + Num(e = returned) + IsNew(e, exprs, exprs')
    PROVE  TreeInv'
<1>1. stack # << >> /\ Top.at = "arguments" /\ Top.args \in Seq(1..Len(exprs))
  BY ArgumentsFound
<1>2. Listed(fr)
  BY <1>1, ResumedListed
<1>3. ASSUME NEW e \in Ids
      PROVE  /\ Uses(e, Operands(exprs')) \in Nat
             /\ Uses(e, Operands(exprs')) + Times(e, FrameIds("expr", fr)) =
                    Uses(e, Operands(exprs)) + Times(e, FrameIds("expr", Top))
                    + Num(e = returned) + IsNew(e, exprs, exprs')
  <2>1. FrameIds("expr", fr) = fr.args /\ FrameIds("expr", Top) = Top.args
    BY <1>1, ExprIdsAre
  <2>2. Times(e, Top.args) \in Nat /\ Times(e, fr.args) = Times(e, Top.args) + Num(e = id)
    BY <1>1, TimesOfMore
  <2>4. /\ Num(e = id) \in Nat /\ Num(e = returned) \in Nat /\ IsNew(e, exprs, exprs') \in Nat
        /\ Uses(e, Operands(exprs)) \in Nat
    BY NumIs, UsesAreNumbers DEF IsNew
  <2>5. /\ Uses(e, Operands(exprs')) \in Nat
        /\ Uses(e, Operands(exprs')) + Num(e = id) =
               Uses(e, Operands(exprs)) + Num(e = returned) + IsNew(e, exprs, exprs')
    OBVIOUS
  <2> DEFINE a == Num(e = id)
             b == Num(e = returned)
             n == IsNew(e, exprs, exprs')
             u == Uses(e, Operands(exprs'))
  <2>6. /\ a \in Nat /\ b \in Nat /\ n \in Nat /\ u \in Nat
        /\ u + a = Uses(e, Operands(exprs)) + b + n
        /\ Times(e, FrameIds("expr", fr)) = Times(e, FrameIds("expr", Top)) + a
        /\ Times(e, FrameIds("expr", Top)) \in Nat /\ Uses(e, Operands(exprs)) \in Nat
    BY <2>1, <2>2, <2>4, <2>5
  <2> HIDE DEF a, b, n, u
  <2>7. u + Times(e, FrameIds("expr", fr)) =
            Uses(e, Operands(exprs)) + Times(e, FrameIds("expr", Top)) + b + n
    BY <2>6
  <2>8. QED
    BY <2>6, <2>7 DEF b, n, u
<1>4. QED
  BY <1>2, <1>3, ResumeExprTree DEF ExprPoints

LEMMA NextArgumentTree ==
    ASSUME BuilderInv, BuilderInv', TreeInv, NextArgument PROVE TreeInv'
<1>1. /\ At("arguments") /\ AddsExpr /\ diags' = diags /\ returned = Invalid
  BY DEF NextArgument
<1>2. /\ stack # << >> /\ Top.at = "arguments" /\ Top.args \in Seq(1..Len(exprs))
  BY <1>1, ArgumentsFound
<1>3. CASE Head(Top.rest) = Null
  <2> DEFINE fr == [at |-> "arguments", function |-> Top.function, rest |-> Tail(Top.rest),
                    args |-> Append(Top.args, Len(exprs) + 1)]
             ys == exprs'
  <2>1. Resume(fr, Null) /\ ys = Append(exprs, ErrorExpr)
    BY <1>3 DEF NextArgument
  <2>2. ErrorExpr.kids = << >> /\ ErrorExpr.kind = "Error"
    BY DEF ErrorExpr, Expr
  <2>3. fr.at = "arguments" /\ fr.args = Append(Top.args, Len(exprs) + 1)
    OBVIOUS
  <2> HIDE DEF fr, ys
  <2>4. /\ TwoOperands(ys)
        /\ \A e \in Ids : /\ Uses(e, Operands(ys)) = Uses(e, Operands(exprs))
                          /\ IsNew(e, exprs, ys) = Num(e = Len(exprs) + 1)
    BY <2>1, <2>2, PlainExpr
  <2>5. ASSUME NEW e \in Ids
        PROVE  /\ Uses(e, Operands(ys)) \in Nat
               /\ Uses(e, Operands(ys)) + Num(e = Len(exprs) + 1) =
                      Uses(e, Operands(exprs)) + Num(e = returned) + IsNew(e, exprs, ys)
    <3>1. Uses(e, Operands(exprs)) \in Nat
      BY UsesAreNumbers
    <3>2. Num(e = Len(exprs) + 1) \in Nat /\ Num(e = returned) = 0
      BY <1>1 DEF Num, Ids
    <3>3. QED
      BY <2>4, <3>1, <3>2
  <2> DEFINE id == Len(exprs) + 1
  <2>6. /\ TwoOperands(exprs')
        /\ \A e \in Ids : Times(e, fr.args) = Times(e, Top.args) + Num(e = id)
        /\ \A e \in Ids :
              /\ Uses(e, Operands(exprs')) \in Nat
              /\ Uses(e, Operands(exprs')) + Num(e = id) =
                     Uses(e, Operands(exprs)) + Num(e = returned) + IsNew(e, exprs, exprs')
    <3>1. fr.args = Append(Top.args, id)
      BY <2>3
    <3> HIDE DEF id
    <3>2. \A e \in Ids : Times(e, fr.args) = Times(e, Top.args) + Num(e = id)
      BY <1>2, <3>1, ArgumentAdded
    <3>3. QED
      BY <2>4, <2>5, <3>2 DEF ys, id
  <2> HIDE DEF id
  <2>7. QED
    BY <1>1, <2>1, <2>3, <2>6, ArgumentTree DEF Num
<1>4. CASE Head(Top.rest) # Null
  <2> DEFINE fr == [Top EXCEPT !.rest = Tail(@)]
  <2>1. Resume(fr, Head(Top.rest)) /\ exprs' = exprs
    BY <1>4 DEF NextArgument
  <2>2. fr = [at |-> "arguments", function |-> Top.function, rest |-> Tail(Top.rest),
              args |-> Top.args]
    BY <1>1, ArgumentFrameIs
  <2>3. fr.at = "arguments" /\ fr.args = Top.args
    BY <2>2
  <2> HIDE DEF fr
  <2>4. Listed(fr)
    BY <1>2, <2>1, ResumedListed
  <2>5. TwoOperands(exprs')
    BY <2>1, ExprsNow
  <2>6. ASSUME NEW e \in Ids
        PROVE  /\ Uses(e, Operands(exprs')) \in Nat
               /\ Uses(e, Operands(exprs')) + Times(e, FrameIds("expr", fr)) =
                      Uses(e, Operands(exprs)) + Times(e, FrameIds("expr", Top))
                      + Num(e = returned) + IsNew(e, exprs, exprs')
    <3>1. Uses(e, Operands(exprs)) \in Nat /\ Times(e, Top.args) \in Nat
      BY <1>2, UsesAreNumbers, TimesOfMore
    <3>2. FrameIds("expr", fr) = Top.args /\ FrameIds("expr", Top) = Top.args
      BY <1>2, <2>3, ExprIdsAre
    <3>3. Num(e = returned) = 0
      BY <1>1 DEF Num, Ids
    <3>4. IsNew(e, exprs, exprs) = 0
      BY ExprsNow, NothingNew
    <3>5. QED
      BY <2>1, <3>1, <3>2, <3>3, <3>4
  <2>7. QED
    BY <1>1, <2>1, <2>3, <2>4, <2>5, <2>6, ResumeExprTree DEF ExprPoints
<1>5. QED
  BY <1>3, <1>4

LEMMA TakeArgumentTree ==
    ASSUME BuilderInv, BuilderInv', TreeInv, TakeArgument PROVE TreeInv'
<1>1. /\ At("arguments") /\ returned # Invalid /\ AddsExpr /\ diags' = diags
  BY DEF TakeArgument
<1>2. /\ ModuleOK /\ Top.args \in Seq(1..Len(exprs)) /\ Len(exprs) \in Nat
      /\ returned \in 1..Len(exprs) /\ Top.function \in 0..Len(functions)
  BY <1>1, ArgumentsFound DEF Invalid
<1> DEFINE f == Top.function
           index == Len(Top.args) + 1
           known == f # Invalid /\ index \in DOMAIN functions[f].parameters
           target == functions[f].parameters[index].type
           id == IF known THEN CastTo(returned, target) ELSE returned
           fr == [Top EXCEPT !.args = Append(@, id)]
<1>3. /\ exprs' = IF known THEN WithCast(returned, target) ELSE exprs
      /\ Resume(fr, Null)
  BY DEF TakeArgument
<1>4. /\ TwoOperands(exprs')
      /\ \A e \in Ids :
            /\ Uses(e, Operands(exprs')) \in Nat
            /\ Uses(e, Operands(exprs')) + Num(e = id) =
                   Uses(e, Operands(exprs)) + Num(e = returned) + IsNew(e, exprs, exprs')
  <2>1. CASE known
    <3>1. f \in 1..Len(functions)
      BY <1>2, <2>1, Lengths DEF Invalid
    <3>2. target \in 1..Len(types)
      BY <1>2, <2>1, <3>1, FunctionTypes
    <3>3. exprs' = WithCast(returned, target) /\ id = CastTo(returned, target)
      BY <1>3, <2>1
    <3> HIDE DEF target, id
    <3>4. LET cast == WithCast(returned, target)
          IN  /\ TwoOperands(cast)
              /\ \A e \in Ids :
                    /\ Uses(e, Operands(cast)) \in Nat
                    /\ Uses(e, Operands(cast)) + Num(e = CastTo(returned, target)) =
                           Uses(e, Operands(exprs)) + Num(e = returned) + IsNew(e, exprs, cast)
      BY <1>2, <3>2, CastUses
    <3>5. QED
      BY <3>3, <3>4
  <2>2. CASE ~known
    <3>1. exprs' = exprs /\ id = returned
      BY <1>3, <2>2
    <3>2. ASSUME NEW e \in Ids
          PROVE  /\ Uses(e, Operands(exprs)) \in Nat /\ Num(e = returned) \in Nat
                 /\ IsNew(e, exprs, exprs) = 0
      BY ExprsNow, NothingNew, UsesAreNumbers, NumIs
    <3>3. TwoOperands(exprs)
      BY ExprsNow
    <3> HIDE DEF id
    <3>4. QED
      BY <3>1, <3>2, <3>3
  <2>3. QED
    BY <2>1, <2>2
<1> HIDE DEF id
<1>5. fr = [at |-> "arguments", function |-> Top.function, rest |-> Top.rest,
            args |-> Append(Top.args, id)]
  BY <1>1, ArgumentFrameIs
<1>6. fr.at = "arguments" /\ fr.args = Append(Top.args, id)
  BY <1>5
<1> HIDE DEF fr
<1>7. \A e \in Ids : Times(e, fr.args) = Times(e, Top.args) + Num(e = id)
  BY <1>2, <1>6, ArgumentAdded
<1>8. Resume(fr, Null)
  BY <1>3
<1>9. QED
  BY <1>1, <1>4, <1>6, <1>7, <1>8, ArgumentTree DEF Num

LEMMA TimesOfTwo ==
    ASSUME NEW x, NEW y, NEW e \in Ids
    PROVE  Times(e, <<x, y>>) = Num(e = x) + Num(e = y)
<1> DEFINE one == <<x>>
           two == <<x, y>>
<1>1. one \in Seq({x}) /\ two = Append(one, y)
  OBVIOUS
<1>2. Times(e, one) = Num(x = e)
  BY TimesOfFew
<1> HIDE DEF one, two
<1>3. Times(e, Append(one, y)) = Times(e, one) + Num(e = y)
  BY <1>1, ArgumentAdded
<1>4. Num(x = e) = Num(e = x)
  BY DEF Num
<1>5. QED
  BY <1>1, <1>2, <1>3, <1>4 DEF two

(* A term of an expression: the first is the value so far, each other      *)
(* makes a new one of it and itself.                                       *)
LEMMA TakeOperandTree ==
    ASSUME BuilderInv, BuilderInv', TreeInv, TakeOperand PROVE TreeInv'
<1>1. /\ At("operands") /\ AddsExpr /\ diags' = diags
  BY DEF TakeOperand
<1>2. /\ stack # << >> /\ Top.at = "operands"
      /\ Top \in FirstOperandFrames \cup OperandFrames(Len(exprs))
  BY <1>1, AtFacts, FramesAt
<1> DEFINE acc == IF Top.op = "" THEN returned ELSE Len(exprs) + 1
           fr == [at |-> "operands", acc |-> acc, op |-> Head(Top.rest).op, rest |-> Tail(Top.rest)]
           ys == exprs'
<1>3. /\ TwoOperands(ys)
      /\ \A e \in Ids :
            /\ Uses(e, Operands(ys)) \in Nat
            /\ Uses(e, Operands(ys)) + Num(e = acc) =
                   Uses(e, Operands(exprs)) + Num(e = Top.acc) + Num(e = returned)
                   + IsNew(e, exprs, ys)
  <2>1. CASE Top.op = ""
    <3>1. ys = exprs /\ acc = returned
      BY <2>1 DEF TakeOperand
    <3>2. Top.acc = Invalid
      BY <1>2, <2>1 DEF FirstOperandFrames, OperandFrames
    <3>3. ASSUME NEW e \in Ids
          PROVE  /\ Uses(e, Operands(exprs)) \in Nat /\ Num(e = returned) \in Nat
                 /\ IsNew(e, exprs, exprs) = 0 /\ Num(e = Invalid) = 0
      <4>1. Num(e = Invalid) = 0
        BY DEF Num, Ids
      <4>2. QED
        BY <4>1, ExprsNow, NothingNew, UsesAreNumbers, NumIs
    <3>4. TwoOperands(exprs)
      BY ExprsNow
    <3> HIDE DEF acc, ys
    <3>5. QED
      BY <3>1, <3>2, <3>3, <3>4
  <2>2. CASE Top.op # ""
    <3> DEFINE type == IF Top.op \in ComparisonOps THEN BuiltinType("bool") ELSE exprs[Top.acc].type
               x == Expr("Binary", type, <<Top.acc, returned>>, Invalid, <<Top.op>>)
    <3>1. ys = Append(exprs, x) /\ acc = Len(exprs) + 1
      BY <2>2 DEF TakeOperand
    <3>2. x.kind = "Binary" /\ x.kids = <<Top.acc, returned>>
      BY DEF Expr
    <3> HIDE DEF x, ys, acc
    <3>3. TwoOperands(exprs) /\ KidsFirst(exprs) /\ exprs \in Seq(ExprEntry)
      BY ExprsNow
    <3>4. TwoOperands(ys)
      <4>1. Len(x.kids) = 2
        BY <3>2
      <4>2. QED
        BY <3>1, <3>3, <4>1, MoreTwo
    <3>5. IsFiniteSet(DOMAIN x.kids) /\ ~IsCompound(x, ys)
      BY <3>2, FewFinite DEF IsCompound
    <3>6. ASSUME NEW e \in Ids
          PROVE  /\ Uses(e, Operands(ys)) \in Nat
                 /\ Uses(e, Operands(ys)) + Num(e = acc) =
                        Uses(e, Operands(exprs)) + Num(e = Top.acc) + Num(e = returned)
                        + IsNew(e, exprs, ys)
      <4>1. /\ Uses(e, Operands(exprs)) \in Nat /\ Times(e, x.kids) \in Nat
            /\ Uses(e, Operands(ys)) = Uses(e, Operands(exprs)) + Times(e, x.kids)
        BY <3>1, <3>3, <3>5, PlainOperands, Zenon
      <4>2. Times(e, x.kids) = Num(e = Top.acc) + Num(e = returned)
        BY <3>2, TimesOfTwo
      <4>3. IsNew(e, exprs, ys) = Num(e = Len(exprs) + 1)
        BY <3>1, <3>3, OneNew DEF Num
      <4>4. Num(e = Top.acc) \in Nat /\ Num(e = returned) \in Nat
            /\ Num(e = Len(exprs) + 1) \in Nat
        BY NumIs
      <4>5. QED
        BY <3>1, <4>1, <4>2, <4>3, <4>4
    <3>7. QED
      BY <3>4, <3>6
  <2>3. QED
    BY <2>1, <2>2
<1>4. fr.at = "operands" /\ fr.acc = acc
  OBVIOUS
<1>5. /\ Top.rest = << >> => Leave(acc)
      /\ Top.rest # << >> => Resume(fr, Head(Top.rest).term)
  BY DEF TakeOperand
<1> HIDE DEF acc, fr, ys
<1>6. ASSUME NEW e \in Ids PROVE Times(e, FrameIds("expr", Top)) = Num(e = Top.acc)
  <2>1. FrameIds("expr", Top) = <<Top.acc>>
    BY <1>2, ExprIdsAre
  <2>2. Times(e, <<Top.acc>>) = Num(Top.acc = e)
    BY TimesOfFew
  <2>3. QED
    BY <2>1, <2>2 DEF Num
<1>7. CASE Top.rest = << >>
  <2>1. ASSUME NEW e \in Ids
        PROVE  /\ Uses(e, Operands(ys)) \in Nat
               /\ Uses(e, Operands(ys)) + Num(e = acc) + 0 =
                      Uses(e, Operands(exprs)) + Times(e, FrameIds("expr", Top))
                      + Num(e = returned) + IsNew(e, exprs, ys)
    <3>1. Num(e = acc) \in Nat
      BY NumIs
    <3>2. QED
      BY <1>3, <1>6, <3>1
  <2>2. Leave(acc) /\ "operands" \in ExprPoints
    BY <1>5, <1>7 DEF ExprPoints
  <2>3. TwoOperands(exprs')
    BY <1>3 DEF ys
  <2>4. QED
    BY <1>1, <2>1, <2>2, <2>3, LeaveExprTree DEF ys
<1>8. CASE Top.rest # << >>
  <2>1. Resume(fr, Head(Top.rest).term) /\ "operands" \in ExprPoints
    BY <1>5, <1>8 DEF ExprPoints
  <2>2. Listed(fr)
    BY <1>2, <2>1, ResumedListed
  <2>3. ASSUME NEW e \in Ids
        PROVE  /\ Uses(e, Operands(ys)) \in Nat
               /\ Uses(e, Operands(ys)) + Times(e, FrameIds("expr", fr)) =
                      Uses(e, Operands(exprs)) + Times(e, FrameIds("expr", Top))
                      + Num(e = returned) + IsNew(e, exprs, ys)
    <3>1. FrameIds("expr", fr) = <<acc>>
      BY <1>4, ExprIdsAre
    <3>2. Times(e, <<acc>>) = Num(acc = e)
      BY TimesOfFew
    <3>3. Times(e, FrameIds("expr", fr)) = Num(e = acc)
      BY <3>1, <3>2 DEF Num
    <3>4. QED
      BY <1>3, <1>6, <3>3
  <2>4. TwoOperands(exprs')
    BY <1>3 DEF ys
  <2>5. QED
    BY <1>1, <1>4, <2>1, <2>2, <2>3, <2>4, ResumeExprTree DEF ys
<1>9. QED
  BY <1>7, <1>8

(* What is assigned to is in hand, so that no expression uses it.          *)
LEMMA LhsUnused ==
    ASSUME BuilderInv, TreeInv, At("rhs"), NEW i \in 1..Len(exprs),
           NEW k \in DOMAIN Operands(exprs)[i]
    PROVE  Operands(exprs)[i][k] # Top.lhs
<1> DEFINE e == Top.lhs
<1>1. stack # << >> /\ Top.at = "rhs"
  BY AtFacts
<1>2. e \in 1..Len(exprs)
  BY RhsFound
<1> HIDE DEF e
<1>3. e \in Ids /\ ExprUses(e) \in {0, 1}
  BY <1>2, IdsAre DEF TreeInv, ExprsOnce
<1>4. OnStack("expr", e) \in Nat /\ OnStack("expr", e) >= 1
  <2>1. /\ InBelow("expr", e) \in Nat
        /\ OnStack("expr", e) =
               InBelow("expr", e) + Times(e, FrameIds("expr", Top)) + IsResult("expr", e)
    BY <1>1, StackUses DEF Sorts
  <2>2. IsResult("expr", e) \in {0, 1}
    BY ResultNum
  <2>3. Times(e, FrameIds("expr", Top)) = 1
    <3>1. FrameIds("expr", Top) = <<e>>
      BY <1>1, ExprIdsAre DEF e
    <3>2. Times(e, <<e>>) = Num(e = e)
      BY TimesOfFew
    <3>3. QED
      BY <3>1, <3>2 DEF Num
  <2>4. QED
    BY <2>1, <2>2, <2>3
<1>5. Uses(e, KidsOf(statements)) \in Nat /\ Uses(e, Operands(exprs)) \in Nat
  BY UsesAreNumbers
<1>6. Uses(e, Operands(exprs)) = 0
  BY <1>3, <1>4, <1>5 DEF ExprUses
<1>7. FiniteLists(Operands(exprs)) /\ DOMAIN Operands(exprs) = 1..Len(exprs)
  <2>1. exprs \in Seq(ExprEntry)
    BY ExprsNow
  <2>2. QED
    BY <2>1, OperandsFinite DEF Operands
<1>8. QED
  BY <1>6, <1>7, SomeUse DEF e

LEMMA AssignTree ==
    ASSUME BuilderInv, BuilderInv', TreeInv, Assign PROVE TreeInv'
<1>1. At("rhs") /\ AddsExpr /\ diags' = diags
  BY DEF Assign
<1>2. /\ returned \in 1..Len(exprs) /\ Top.lhs \in 1..Len(exprs) /\ Len(exprs) \in Nat
      /\ Top.at = "rhs"
  BY <1>1, RhsFound, AtFacts
<1> DEFINE target == exprs[Top.lhs].type
           cast == WithCast(returned, target)
           v == CastTo(returned, target)
           x == Expr("Assign", target, <<Top.lhs, v>>, Invalid, <<"=">>)
           ys == exprs'
<1>3. target \in 1..Len(types)
  BY <1>1, RhsFound, ExprTypes
<1>4. ys = Append(cast, x) /\ Leave(Len(cast) + 1)
  BY DEF Assign, Assignment
<1>5. x.kind = "Assign" /\ x.kids = <<Top.lhs, v>>
  BY DEF Expr
<1> HIDE DEF target, x, ys
<1>6. LET c == WithCast(returned, target)
      IN  /\ TwoOperands(c) /\ KidsFirst(c)
          /\ c \in Seq(ExprEntry) /\ Len(c) \in Nat /\ Len(exprs) <= Len(c)
          /\ CastTo(returned, target) \in 1..Len(c)
          /\ \A e \in Ids :
                /\ Uses(e, Operands(c)) \in Nat
                /\ Uses(e, Operands(c)) + Num(e = CastTo(returned, target)) =
                       Uses(e, Operands(exprs)) + Num(e = returned) + IsNew(e, exprs, c)
  BY <1>2, <1>3, CastUses
<1>7. /\ TwoOperands(cast) /\ KidsFirst(cast)
      /\ cast \in Seq(ExprEntry) /\ Len(cast) \in Nat /\ Len(exprs) <= Len(cast)
      /\ v \in 1..Len(cast)
      /\ \A e \in Ids :
            /\ Uses(e, Operands(cast)) \in Nat
            /\ Uses(e, Operands(cast)) + Num(e = v) =
                   Uses(e, Operands(exprs)) + Num(e = returned) + IsNew(e, exprs, cast)
  BY <1>6
<1>8. ~IsCompound(x, ys)
  <2>1. SUFFICES ASSUME ys[v].kind = "Binary", ys[v].kids[1] = Top.lhs PROVE FALSE
    <3>1. x.kids[1] = Top.lhs /\ x.kids[2] = v
      BY <1>5
    <3>2. QED
      BY <3>1 DEF IsCompound
  <2>2. ys[v] = cast[v]
    BY <1>4, <1>7, AppendProperties
  <2>3. CASE NeedsCast(returned, target)
    <3>1. cast = Append(exprs, Expr("ImplicitCast", target, <<returned>>, Invalid, << >>))
          /\ v = Len(exprs) + 1
      BY <2>3 DEF WithCast, CastTo
    <3>2. cast[v] = Expr("ImplicitCast", target, <<returned>>, Invalid, << >>)
      BY <3>1, ExprsNow, AppendProperties
    <3>3. cast[v].kind = "ImplicitCast"
      BY <3>2 DEF Expr
    <3>4. QED
      BY <2>1, <2>2, <3>3
  <2>4. CASE ~NeedsCast(returned, target)
    <3>1. cast = exprs /\ v = returned
      BY <2>4 DEF WithCast, CastTo
    <3>2. exprs[returned].kind = "Binary" /\ exprs[returned].kids[1] = Top.lhs
      BY <2>1, <2>2, <3>1
    <3> HIDE DEF v, cast
    <3>3. TwoOperands(exprs) /\ exprs \in Seq(ExprEntry)
      BY ExprsNow
    <3>4. exprs[returned].kids \in Seq(Ids) /\ Len(exprs[returned].kids) = 2
      <4>1. exprs[returned] \in ExprEntry
        BY <1>2, <3>3, ElementOfSeq
      <4>2. QED
        BY <1>2, <3>2, <3>3, <4>1 DEF ExprEntry, TwoOperands
    <3>5. Operands(exprs)[returned] = exprs[returned].kids
      BY <1>2, <3>2, <3>3 DEF Operands, OperandsOf, IsCompound
    <3>6. 1 \in DOMAIN Operands(exprs)[returned]
      BY <3>4, <3>5
    <3>7. Operands(exprs)[returned][1] # Top.lhs
      BY <1>1, <1>2, <3>6, LhsUnused
    <3>8. QED
      BY <3>2, <3>5, <3>7
  <2>5. QED
    BY <2>3, <2>4
<1> HIDE DEF v, cast
<1>9. TwoOperands(ys)
  <2>1. Len(x.kids) = 2
    BY <1>5
  <2>2. QED
    BY <1>4, <1>7, <2>1, MoreTwo
<1>10. ASSUME NEW e \in Ids
       PROVE  /\ Uses(e, Operands(ys)) \in Nat
              /\ Uses(e, Operands(ys)) + Num(e = Len(cast) + 1) + 0 =
                     Uses(e, Operands(exprs)) + Times(e, FrameIds("expr", Top))
                     + Num(e = returned) + IsNew(e, exprs, ys)
  <2>1. IsFiniteSet(DOMAIN x.kids)
    BY <1>5, FewFinite
  <2>2. /\ Times(e, x.kids) \in Nat
        /\ Uses(e, Operands(ys)) = Uses(e, Operands(cast)) + Times(e, x.kids)
    <3>1. /\ KidsFirst(cast) /\ TwoOperands(cast) /\ ys = Append(cast, x)
          /\ IsFiniteSet(DOMAIN x.kids) /\ ~IsCompound(x, ys)
      BY <1>4, <1>7, <1>8, <2>1
    <3>2. QED
      BY <3>1, PlainOperands, Zenon
  <2>3. Times(e, x.kids) = Num(e = Top.lhs) + Num(e = v)
    BY <1>5, TimesOfTwo
  <2>4. /\ IsNew(e, exprs, cast) \in Nat
        /\ IsNew(e, exprs, ys) = IsNew(e, exprs, cast) + Num(e = Len(cast) + 1)
    <3>1. /\ Len(cast) \in Nat /\ Len(exprs) <= Len(cast) /\ Len(exprs) \in Nat
          /\ Len(ys) = Len(cast) + 1 /\ e \in Nat
      BY <1>2, <1>4, <1>7 DEF Ids
    <3>2. QED
      BY <3>1 DEF IsNew, Num
  <2>5. Times(e, FrameIds("expr", Top)) = Num(e = Top.lhs)
    <3>1. FrameIds("expr", Top) = <<Top.lhs>>
      BY <1>2, ExprIdsAre
    <3>2. Times(e, <<Top.lhs>>) = Num(Top.lhs = e)
      BY TimesOfFew
    <3>3. QED
      BY <3>1, <3>2 DEF Num
  <2>6. /\ Num(e = Top.lhs) \in Nat /\ Num(e = v) \in Nat /\ Num(e = returned) \in Nat
        /\ Num(e = Len(cast) + 1) \in Nat
    BY NumIs
  <2>7. Uses(e, Operands(exprs)) \in Nat
    BY UsesAreNumbers
  <2>8. /\ Uses(e, Operands(cast)) \in Nat
        /\ Uses(e, Operands(cast)) + Num(e = v) =
               Uses(e, Operands(exprs)) + Num(e = returned) + IsNew(e, exprs, cast)
    BY <1>7
  <2> DEFINE a == Num(e = Top.lhs)
             b == Num(e = v)
             c == Num(e = returned)
             d == Num(e = Len(cast) + 1)
             new == IsNew(e, exprs, cast)
             u == Uses(e, Operands(cast))
             w == Uses(e, Operands(exprs))
  <2>9. /\ a \in Nat /\ b \in Nat /\ c \in Nat /\ d \in Nat /\ new \in Nat /\ u \in Nat
        /\ w \in Nat /\ u + b = w + c + new
        /\ Uses(e, Operands(ys)) = u + (a + b) /\ IsNew(e, exprs, ys) = new + d
        /\ Times(e, FrameIds("expr", Top)) = a
    BY <2>2, <2>3, <2>4, <2>5, <2>6, <2>7, <2>8
  <2> HIDE DEF a, b, c, d, new, u, w
  <2>10. Uses(e, Operands(ys)) \in Nat
    BY <2>9
  <2>11. Uses(e, Operands(ys)) + d + 0 = w + a + c + IsNew(e, exprs, ys)
    BY <2>9
  <2>12. QED
    BY <2>9, <2>10, <2>11 DEF c, d, w
<1>11. QED
  BY <1>1, <1>4, <1>9, <1>10, LeaveExprTree DEF ys, ExprPoints

LEMMA CompoundAssignTree ==
    ASSUME BuilderInv, BuilderInv', TreeInv, CompoundAssign PROVE TreeInv'
<1>1. At("rhs") /\ Top.op \in Compounds /\ AddsExpr /\ diags' = diags
  BY DEF CompoundAssign
<1>2. /\ returned \in 1..Len(exprs) /\ Top.lhs \in 1..Len(exprs) /\ Len(exprs) \in Nat
      /\ Top.at = "rhs"
  BY <1>1, RhsFound, AtFacts
<1> DEFINE target == exprs[Top.lhs].type
           value == Expr("Binary", target, <<Top.lhs, returned>>, Invalid, <<OperatorOf(Top.op)>>)
           last == Expr("Assign", target, <<Top.lhs, Len(exprs) + 1>>, Invalid, <<"=">>)
           xs == Append(exprs, value)
           ys == exprs'
<1>3. ys = exprs \o <<value, last>> /\ Leave(Len(exprs) + 2)
  BY DEF CompoundAssign, Assignment
<1>4. /\ value.kind = "Binary" /\ value.kids = <<Top.lhs, returned>>
      /\ last.kind = "Assign" /\ last.kids = <<Top.lhs, Len(exprs) + 1>>
  BY DEF Expr
<1>5. target \in 1..Len(types)
  BY <1>1, RhsFound, ExprTypes
<1>6. ExprsOK(xs, Len(types), Len(symbols), Len(functions)) /\ Len(xs) = Len(exprs) + 1
  <2>1. /\ <<Top.lhs, returned>> \in Seq(1..Len(exprs)) /\ <<OperatorOf(Top.op)>> \in Seq(Texts)
        /\ Invalid \in Nat /\ Len(exprs) <= Len(exprs)
    BY <1>1, <1>2, RhsFound DEF Texts, Invalid
  <2>2. ExprOK(value, Len(exprs) + 1, Len(types), Len(symbols), Len(functions))
    BY <1>1, <1>2, <1>5, <2>1, RhsFound, Lengths, ExprIs
  <2>3. QED
    BY <1>1, <2>2, RhsFound, AppendExpr
<1> HIDE DEF target, value, last, ys
<1>7. TwoOperands(exprs) /\ KidsFirst(exprs) /\ exprs \in Seq(ExprEntry)
  BY ExprsNow
<1>8. ys = Append(xs, last)
  <2> DEFINE S == ExprEntry \cup {value, last}
  <2>1. exprs \in Seq(S) /\ value \in S /\ last \in S
    BY <1>7
  <2> HIDE DEF S
  <2>2. Append(Append(exprs, value), last) \in Seq(S)
    BY <2>1
  <2>3. QED
    BY <1>3, <2>1, <2>2, AppendTwice
<1> HIDE DEF xs
<1>9. xs = Append(exprs, value)
  BY DEF xs
<1>10. KidsFirst(xs) /\ xs \in Seq(ExprEntry) /\ TwoOperands(xs)
  <2>1. KidsFirst(xs) /\ xs \in Seq(ExprEntry)
    BY <1>6, KidsComeFirst DEF KidsFirst
  <2>2. Len(value.kids) = 2
    BY <1>4
  <2>3. QED
    BY <1>7, <1>9, <2>1, <2>2, MoreTwo
<1>11. TwoOperands(ys)
  <2>1. Len(last.kids) = 2
    BY <1>4
  <2>2. QED
    BY <1>8, <1>10, <2>1, MoreTwo
<1>12. OperandsOf(last, ys) = <<Invalid, Len(exprs) + 1>>
  <2>1. Len(exprs) + 1 \in 1..Len(xs) /\ xs[Len(exprs) + 1] = value
    BY <1>2, <1>6, <1>7, <1>9, AppendProperties
  <2>2. ys[Len(exprs) + 1] = value
    BY <1>8, <1>10, <2>1, AppendProperties
  <2>3. last.kids[1] = Top.lhs /\ last.kids[2] = Len(exprs) + 1 /\ value.kids[1] = Top.lhs
    BY <1>4
  <2>4. IsCompound(last, ys)
    BY <1>4, <2>2, <2>3 DEF IsCompound
  <2>5. QED
    BY <2>3, <2>4 DEF OperandsOf
<1>13. ASSUME NEW e \in Ids
       PROVE  /\ Uses(e, Operands(ys)) \in Nat
              /\ Uses(e, Operands(ys)) + Num(e = Len(exprs) + 2) + 0 =
                     Uses(e, Operands(exprs)) + Times(e, FrameIds("expr", Top))
                     + Num(e = returned) + IsNew(e, exprs, ys)
  <2>1. /\ Times(e, value.kids) \in Nat
        /\ Uses(e, Operands(xs)) = Uses(e, Operands(exprs)) + Times(e, value.kids)
    <3>1. /\ KidsFirst(exprs) /\ TwoOperands(exprs) /\ xs = Append(exprs, value)
          /\ IsFiniteSet(DOMAIN value.kids) /\ ~IsCompound(value, xs)
      BY <1>4, <1>7, <1>9, FewFinite DEF IsCompound
    <3>2. QED
      BY <3>1, PlainOperands, Zenon
  <2>2. Times(e, value.kids) = Num(e = Top.lhs) + Num(e = returned)
    BY <1>4, TimesOfTwo
  <2>3. /\ Times(e, OperandsOf(last, ys)) \in Nat
        /\ Uses(e, Operands(ys)) = Uses(e, Operands(xs)) + Times(e, OperandsOf(last, ys))
    <3>1. IsFiniteSet(DOMAIN OperandsOf(last, ys))
      BY <1>12, FewFinite
    <3>2. KidsFirst(xs) /\ TwoOperands(xs) /\ ys = Append(xs, last)
          /\ IsFiniteSet(DOMAIN OperandsOf(last, ys))
      BY <1>8, <1>10, <3>1
    <3>3. QED
      BY <3>2, MoreOperands, Zenon
  <2>4. Times(e, OperandsOf(last, ys)) = Num(e = Len(exprs) + 1)
    <3>1. Times(e, OperandsOf(last, ys)) = Num(e = Invalid) + Num(e = Len(exprs) + 1)
      BY <1>12, TimesOfTwo
    <3>2. Num(e = Invalid) = 0 /\ Num(e = Len(exprs) + 1) \in Nat
      BY DEF Num, Ids
    <3>3. QED
      BY <3>1, <3>2
  <2>5. IsNew(e, exprs, ys) = Num(e = Len(exprs) + 1) + Num(e = Len(exprs) + 2)
    <3>1. Len(ys) = Len(xs) + 1 /\ Len(xs) = Len(exprs) + 1
      BY <1>6, <1>8, <1>10, AppendProperties
    <3>2. Len(exprs) \in Nat /\ e \in Nat
      BY <1>2 DEF Ids
    <3>3. QED
      BY <3>1, <3>2 DEF IsNew, Num
  <2>6. Times(e, FrameIds("expr", Top)) = Num(e = Top.lhs)
    <3>1. FrameIds("expr", Top) = <<Top.lhs>>
      BY <1>2, ExprIdsAre
    <3>2. Times(e, <<Top.lhs>>) = Num(Top.lhs = e)
      BY TimesOfFew
    <3>3. QED
      BY <3>1, <3>2 DEF Num
  <2>7. /\ Num(e = Top.lhs) \in Nat /\ Num(e = returned) \in Nat
        /\ Num(e = Len(exprs) + 1) \in Nat /\ Num(e = Len(exprs) + 2) \in Nat
    BY NumIs
  <2>8. Uses(e, Operands(exprs)) \in Nat
    BY UsesAreNumbers
  <2> DEFINE a == Num(e = Top.lhs)
             b == Num(e = Len(exprs) + 1)
             c == Num(e = returned)
             d == Num(e = Len(exprs) + 2)
             u == Uses(e, Operands(xs))
             w == Uses(e, Operands(exprs))
  <2>9. /\ a \in Nat /\ b \in Nat /\ c \in Nat /\ d \in Nat /\ w \in Nat
        /\ u = w + (a + c) /\ Uses(e, Operands(ys)) = u + b /\ IsNew(e, exprs, ys) = b + d
        /\ Times(e, FrameIds("expr", Top)) = a
    BY <2>1, <2>2, <2>3, <2>4, <2>5, <2>6, <2>7, <2>8
  <2> HIDE DEF a, b, c, d, u, w
  <2>10. Uses(e, Operands(ys)) \in Nat
    BY <2>9
  <2>11. Uses(e, Operands(ys)) + d + 0 = w + a + c + IsNew(e, exprs, ys)
    BY <2>9
  <2>12. QED
    BY <2>9, <2>10, <2>11 DEF c, d, w
<1>14. QED
  BY <1>1, <1>3, <1>11, <1>13, LeaveExprTree DEF ys, ExprPoints

-----------------------------------------------------------------------------
(* 8. Statements.                                                          *)

(* A value that takes no other.                                            *)
LEMMA ErrorIs == ErrorExpr.kids = << >> /\ ErrorExpr.kind \notin {"Assign", "Binary"}
BY DEF ErrorExpr, Expr

LEMMA ReturnedValueTree ==
    ASSUME BuilderInv, BuilderInv', TreeInv,
           BuildOtherInitializer \/ BuildOtherValue \/ BuildLiteral \/ BuildVarAccess
    PROVE  TreeInv'
<1>1. AddsExpr /\ diags \subseteq diags' /\ Return(Len(exprs) + 1)
  BY DEF BuildOtherInitializer, BuildOtherValue, BuildLiteral, BuildVarAccess, AddsExpr,
         MakeErrorExpr, Report
<1>2. call # Null /\ call.node \in {"OtherInitializer", "OtherValue", "Literal", "VarAccess"}
  BY CalledIs DEF BuildOtherInitializer, BuildOtherValue, BuildLiteral, BuildVarAccess
<1>3. Wants(Top) = "expr"
  BY <1>2, CalledFacts
<1>4. PICK x : /\ x.kids = << >> /\ x.kind \notin {"Assign", "Binary"}
               /\ exprs' = Append(exprs, x)
  <2>1. CASE exprs' = Append(exprs, ErrorExpr)
    BY <2>1, ErrorIs
  <2>2. CASE BuildLiteral /\ exprs' # Append(exprs, ErrorExpr)
    <3> DEFINE y == Expr("Literal", LiteralType(call.text), << >>, Invalid, call.text)
    <3>1. exprs' = Append(exprs, y)
      BY <2>2 DEF BuildLiteral, MakeErrorExpr
    <3>2. y.kids = << >> /\ y.kind = "Literal"
      BY DEF Expr
    <3> HIDE DEF y
    <3>3. QED
      BY <3>1, <3>2
  <2>3. CASE BuildVarAccess /\ exprs' # Append(exprs, ErrorExpr)
    <3> DEFINE id == Lookup(call.name)
               y == Expr("SymbolRef", symbols[id].type, << >>, id, << >>)
    <3>1. exprs' = Append(exprs, y)
      BY <2>3 DEF BuildVarAccess, MakeErrorExpr
    <3>2. y.kids = << >> /\ y.kind = "SymbolRef"
      BY DEF Expr
    <3> HIDE DEF y
    <3>3. QED
      BY <3>1, <3>2
  <2>4. QED
    BY <2>1, <2>2, <2>3 DEF BuildOtherInitializer, BuildOtherValue, MakeErrorExpr
<1>5. QED
  BY <1>1, <1>2, <1>3, <1>4, ReturnExprTree

(* What a step does that adds a statement of its own: a block uses what it *)
(* refers to, and the statement is used in its place.                      *)
LEMMA StatementTree ==
    ASSUME BuilderInv, BuilderInv', TreeInv, SameBodies, blocks' = blocks,
           diags \subseteq diags', SameOn("block"), TwoOperands(exprs'),
           NEW kind, kind # "Block", NEW S, NEW kids \in Seq(S), NEW ref,
           statements' = Append(statements, Statement(kind, kids, ref)),
           \A s \in Ids : OnStack("statement", s)' =
                              OnStack("statement", s) + Num(s = Len(statements) + 1),
           \A e \in Ids :
               /\ Uses(e, Operands(exprs')) \in Nat /\ OnStack("expr", e)' \in Nat
               /\ Uses(e, Operands(exprs')) + Times(e, kids) + OnStack("expr", e)' =
                      Uses(e, Operands(exprs)) + OnStack("expr", e) + IsNew(e, exprs, exprs')
    PROVE  TreeInv'
<1> DEFINE ys == statements'
<1>1. ys = Append(statements, Statement(kind, kids, ref))
  OBVIOUS
<1>2. statements \in Seq(StatementEntry)
  BY DEF BuilderInv, ModuleOK, StatementsOK
<1> HIDE DEF ys
<1> DEFINE x == Statement(kind, kids, ref)
<1>3. x.kids = kids /\ KidsIn(x) = kids /\ BlockIn(x) = << >>
  BY DEF Statement, KidsIn, BlockIn
<1> HIDE DEF x
<1>4. MoreStatement(statements, x, ys)
  BY <1>1, <1>2, <1>3, SeqFinite DEF MoreStatement, x
<1>5. ASSUME NEW id \in Ids
      PROVE  /\ Uses(id, KidsOf(statements)) \in Nat /\ Times(id, kids) \in Nat
             /\ Uses(id, KidsOf(ys)) = Uses(id, KidsOf(statements)) + Times(id, kids)
             /\ Uses(id, BlocksOf(ys)) = Uses(id, BlocksOf(statements))
             /\ IsNew(id, statements, ys) = Num(id = Len(statements) + 1)
  <2>1. /\ Uses(id, KidsOf(statements)) \in Nat /\ Uses(id, BlocksOf(statements)) \in Nat
        /\ Times(id, kids) \in Nat
        /\ Uses(id, KidsOf(ys)) = Uses(id, KidsOf(statements)) + Times(id, kids)
        /\ Uses(id, BlocksOf(ys)) = Uses(id, BlocksOf(statements))
    <3>1. /\ Uses(id, KidsOf(statements)) \in Nat /\ Uses(id, BlocksOf(statements)) \in Nat
          /\ Times(id, KidsIn(x)) \in Nat
          /\ Uses(id, KidsOf(ys)) = Uses(id, KidsOf(statements)) + Times(id, KidsIn(x))
          /\ Uses(id, BlocksOf(ys)) = Uses(id, BlocksOf(statements)) + Times(id, BlockIn(x))
      BY <1>4, MoreStatements
    <3>2. Times(id, << >>) = 0
      BY TimesOfFew
    <3>3. QED
      BY <1>3, <3>1, <3>2
  <2>3. IsNew(id, statements, ys) = Num(id = Len(statements) + 1)
    BY <1>1, <1>2, OneNew DEF Num
  <2>4. QED
    BY <2>1, <2>3
<1>6. BlocksBalance
  BY <1>5, SameBlocks DEF ys
<1>7. StatementsBalance
  <2>1. SUFFICES ASSUME NEW s \in Ids
                 PROVE  StatementUses(s)' = StatementUses(s) + IsNew(s, statements, ys)
    BY DEF StatementsBalance, ys
  <2>2. OnStack("statement", s) \in Nat /\ Uses(s, blocks) \in Nat
    BY UsesAreNumbers DEF Sorts
  <2>3. StatementUses(s)' = Uses(s, blocks) + OnStack("statement", s)'
    BY DEF StatementUses
  <2>4. /\ OnStack("statement", s)' = OnStack("statement", s) + Num(s = Len(statements) + 1)
        /\ IsNew(s, statements, ys) = Num(s = Len(statements) + 1)
    BY <1>5
  <2>5. Num(s = Len(statements) + 1) \in Nat
    BY NumIs
  <2>6. QED
    BY <2>2, <2>3, <2>4, <2>5 DEF StatementUses
<1>8. ExprsBalance
  <2>1. SUFFICES ASSUME NEW e \in Ids
                 PROVE  /\ ExprUses(e)' \in Nat
                        /\ ExprUses(e)' + 0 = ExprUses(e) + IsNew(e, exprs, exprs')
    BY DEF ExprsBalance
  <2>2. /\ OnStack("expr", e) \in Nat /\ Uses(e, Operands(exprs)) \in Nat
        /\ IsNew(e, exprs, exprs') \in Nat
    BY UsesAreNumbers, NumIs DEF Sorts, IsNew
  <2>3. ExprUses(e)' = Uses(e, Operands(exprs')) + Uses(e, KidsOf(ys)) + OnStack("expr", e)'
    BY DEF ExprUses, ys
  <2>4. /\ Uses(e, KidsOf(statements)) \in Nat /\ Times(e, kids) \in Nat
        /\ Uses(e, KidsOf(ys)) = Uses(e, KidsOf(statements)) + Times(e, kids)
    BY <1>5
  <2>5. /\ Uses(e, Operands(exprs')) \in Nat /\ OnStack("expr", e)' \in Nat
        /\ Uses(e, Operands(exprs')) + Times(e, kids) + OnStack("expr", e)' =
               Uses(e, Operands(exprs)) + OnStack("expr", e) + IsNew(e, exprs, exprs')
    OBVIOUS
  <2> DEFINE u == Uses(e, Operands(exprs'))
             o == OnStack("expr", e)'
             n == IsNew(e, exprs, exprs')
  <2>6. /\ u \in Nat /\ o \in Nat /\ n \in Nat
        /\ u + Times(e, kids) + o = Uses(e, Operands(exprs)) + OnStack("expr", e) + n
        /\ ExprUses(e)' = u + Uses(e, KidsOf(ys)) + o
    BY <2>2, <2>3, <2>5
  <2> HIDE DEF u, o, n
  <2>7. ExprUses(e) = Uses(e, Operands(exprs)) + Uses(e, KidsOf(statements))
                      + OnStack("expr", e)
    BY DEF ExprUses
  <2> DEFINE a == Uses(e, Operands(exprs))
             b == OnStack("expr", e)
             c == Times(e, kids)
             d == Uses(e, KidsOf(statements))
             f == Uses(e, KidsOf(ys))
  <2>8. /\ a \in Nat /\ b \in Nat /\ c \in Nat /\ d \in Nat /\ f = d + c
        /\ u + c + o = a + b + n /\ ExprUses(e)' = u + f + o /\ ExprUses(e) = a + d + b
    BY <2>2, <2>4, <2>6, <2>7
  <2> HIDE DEF a, b, c, d, f
  <2>9. ExprUses(e)' \in Nat /\ ExprUses(e)' + 0 = ExprUses(e) + n
    BY <2>6, <2>8
  <2>10. QED
    BY <2>9 DEF n
<1>9. QED
  BY <1>6, <1>7, <1>8, BalanceKeepsTree

(* A statement that takes the value it has called for, if any.             *)
LEMMA LeaveStatementTree ==
    ASSUME BuilderInv, BuilderInv', TreeInv,
           NEW point \in {"initializer", "exprStat", "return"}, At(point),
           Leave(Len(statements) + 1),
           functions' = functions, blocks' = blocks, diags' = diags, TwoOperands(exprs'),
           NEW kind, kind # "Block", NEW S, NEW kids \in Seq(S), NEW ref,
           statements' = Append(statements, Statement(kind, kids, ref)),
           \A e \in Ids :
               /\ Uses(e, Operands(exprs')) \in Nat
               /\ Uses(e, Operands(exprs')) + Times(e, kids) =
                      Uses(e, Operands(exprs)) + Num(e = returned) + IsNew(e, exprs, exprs')
    PROVE  TreeInv'
<1>1. stack # << >> /\ Top.at = point
  BY AtFacts
<1>2. /\ SortOf(Wants(Top)) = "expr" /\ SortOf(Gives(Top)) = "statement"
      /\ {"block", "statement", "expr"} = Sorts
      /\ \A sort \in Sorts : FrameIds(sort, Top) = << >>
  BY <1>1 DEF Wants, Gives, SortOf, Sorts, FrameIds
<1>3. SameOn("block")
  BY <1>1, <1>2, LeaveSameOn
<1>4. SameBodies
  BY SameFunctionsSameBodies
<1>5. ASSUME NEW s \in Ids
      PROVE  OnStack("statement", s)' = OnStack("statement", s) + Num(s = Len(statements) + 1)
  <2> DEFINE r == Len(statements) + 1
  <2>1. Leave(r)
    OBVIOUS
  <2> HIDE DEF r
  <2>2. /\ OnStack("statement", s) \in Nat /\ OnStack("statement", s)' \in Nat
        /\ OnStack("statement", s)' + Times(s, FrameIds("statement", Top))
           + IsResult("statement", s) =
               OnStack("statement", s) + Num(s = r /\ SortOf(Gives(Top)) = "statement")
    BY <1>1, <1>2, <2>1, LeaveMoves
  <2>3. Num(s = r /\ SortOf(Gives(Top)) = "statement") = Num(s = r) /\ Num(s = r) \in Nat
    BY <1>2, NumIs
  <2>4. IsResult("statement", s) = 0
    BY <1>2 DEF IsResult, Num
  <2>5. Times(s, FrameIds("statement", Top)) = 0
    BY <1>2, TimesOfFew
  <2>6. QED
    BY <2>2, <2>3, <2>4, <2>5 DEF r
<1>6. ASSUME NEW e \in Ids
      PROVE  /\ Uses(e, Operands(exprs')) \in Nat /\ OnStack("expr", e)' \in Nat
             /\ Uses(e, Operands(exprs')) + Times(e, kids) + OnStack("expr", e)' =
                    Uses(e, Operands(exprs)) + OnStack("expr", e) + IsNew(e, exprs, exprs')
  <2> DEFINE r == Len(statements) + 1
  <2>1. Leave(r)
    OBVIOUS
  <2> HIDE DEF r
  <2>2. /\ OnStack("expr", e) \in Nat /\ OnStack("expr", e)' \in Nat
        /\ OnStack("expr", e)' + Times(e, FrameIds("expr", Top)) + IsResult("expr", e) =
               OnStack("expr", e) + Num(e = r /\ SortOf(Gives(Top)) = "expr")
    BY <1>1, <1>2, <2>1, LeaveMoves
  <2>3. Num(e = r /\ SortOf(Gives(Top)) = "expr") = 0
    BY <1>2 DEF Num
  <2>4. IsResult("expr", e) = Num(e = returned)
    BY <1>1, <1>2 DEF IsResult, Num
  <2>5. Times(e, FrameIds("expr", Top)) = 0
    BY <1>2, TimesOfFew
  <2>6. /\ Uses(e, Operands(exprs')) \in Nat
        /\ Uses(e, Operands(exprs')) + Times(e, kids) =
               Uses(e, Operands(exprs)) + Num(e = returned) + IsNew(e, exprs, exprs')
    OBVIOUS
  <2>7. /\ Times(e, kids) \in Nat /\ Num(e = returned) \in Nat /\ IsNew(e, exprs, exprs') \in Nat
        /\ Uses(e, Operands(exprs)) \in Nat
    BY TimesOfMore, NumIs, UsesAreNumbers DEF IsNew
  <2> DEFINE u == Uses(e, Operands(exprs'))
             o == OnStack("expr", e)'
             n == IsNew(e, exprs, exprs')
             c == Num(e = returned)
  <2>8. /\ u \in Nat /\ o \in Nat /\ n \in Nat /\ c \in Nat /\ Uses(e, Operands(exprs)) \in Nat
        /\ Times(e, kids) \in Nat /\ o + c = OnStack("expr", e)
        /\ u + Times(e, kids) = Uses(e, Operands(exprs)) + c + n
    BY <2>2, <2>3, <2>4, <2>5, <2>6, <2>7
  <2> HIDE DEF u, o, n, c
  <2>9. u + Times(e, kids) + o = Uses(e, Operands(exprs)) + OnStack("expr", e) + n
    BY <2>8
  <2>10. QED
    BY <2>8, <2>9 DEF u, o, n
<1>7. QED
  BY <1>3, <1>4, <1>5, <1>6, StatementTree

(* The value in hand as the only one of a statement, converted or not.     *)
LEMMA NoValueUses ==
    ASSUME BuilderInv, TreeInv, returned = Invalid
    PROVE  /\ TwoOperands(exprs)
           /\ \A e \in Ids :
                 /\ Uses(e, Operands(exprs)) \in Nat
                 /\ Uses(e, Operands(exprs)) + Times(e, << >>) =
                        Uses(e, Operands(exprs)) + Num(e = returned) + IsNew(e, exprs, exprs)
<1>1. TwoOperands(exprs)
  BY ExprsNow
<1>2. ASSUME NEW e \in Ids
      PROVE  /\ Uses(e, Operands(exprs)) \in Nat
             /\ Uses(e, Operands(exprs)) + Times(e, << >>) =
                    Uses(e, Operands(exprs)) + Num(e = returned) + IsNew(e, exprs, exprs)
  <2>1. Uses(e, Operands(exprs)) \in Nat
    BY UsesAreNumbers
  <2>2. Num(e = returned) = 0
    BY DEF Num, Ids
  <2>3. IsNew(e, exprs, exprs) = 0
    BY ExprsNow, NothingNew
  <2>4. Times(e, << >>) = 0
    BY TimesOfFew
  <2>5. QED
    BY <2>1, <2>2, <2>3, <2>4
<1>3. QED
  BY <1>1, <1>2

LEMMA OneValueUses ==
    ASSUME NEW id, NEW e PROVE Times(e, <<id>>) = Num(e = id)
<1>1. Times(e, <<id>>) = Num(id = e)
  BY TimesOfFew
<1>2. QED
  BY <1>1 DEF Num

LEMMA ConvertedUses ==
    ASSUME BuilderInv, TreeInv, NEW target \in 1..Len(types), returned \in 1..Len(exprs),
           NEW ys, ys = WithCast(returned, target), NEW id, id = CastTo(returned, target)
    PROVE  /\ TwoOperands(ys)
           /\ \A e \in Ids :
                 /\ Uses(e, Operands(ys)) \in Nat
                 /\ Uses(e, Operands(ys)) + Times(e, <<id>>) =
                        Uses(e, Operands(exprs)) + Num(e = returned) + IsNew(e, exprs, ys)
<1>1. LET c == WithCast(returned, target)
      IN  /\ TwoOperands(c)
          /\ \A e \in Ids :
                /\ Uses(e, Operands(c)) \in Nat
                /\ Uses(e, Operands(c)) + Num(e = CastTo(returned, target)) =
                       Uses(e, Operands(exprs)) + Num(e = returned) + IsNew(e, exprs, c)
  BY CastUses
<1>2. /\ TwoOperands(ys)
      /\ \A e \in Ids :
            /\ Uses(e, Operands(ys)) \in Nat
            /\ Uses(e, Operands(ys)) + Num(e = id) =
                   Uses(e, Operands(exprs)) + Num(e = returned) + IsNew(e, exprs, ys)
  BY <1>1
<1>3. ASSUME NEW e \in Ids
      PROVE  /\ Uses(e, Operands(ys)) \in Nat
             /\ Uses(e, Operands(ys)) + Times(e, <<id>>) =
                    Uses(e, Operands(exprs)) + Num(e = returned) + IsNew(e, exprs, ys)
  <2>1. Times(e, <<id>>) = Num(e = id)
    BY OneValueUses
  <2>2. QED
    BY <1>2, <2>1
<1>4. QED
  BY <1>2, <1>3

(* A statement whose value is converted.                                   *)
LEMMA ConvertTree ==
    ASSUME BuilderInv, BuilderInv', TreeInv, NEW point \in {"initializer", "return"}, At(point),
           Leave(Len(statements) + 1), functions' = functions, blocks' = blocks, diags' = diags,
           NEW target \in 1..Len(types), returned \in 0..Len(exprs),
           NEW kind, kind # "Block", NEW ref,
           IF returned = Invalid
           THEN /\ statements' = Append(statements, Statement(kind, << >>, ref))
                /\ exprs' = exprs
           ELSE /\ statements' =
                       Append(statements, Statement(kind, <<CastTo(returned, target)>>, ref))
                /\ exprs' = WithCast(returned, target)
    PROVE  TreeInv'
<1> DEFINE ys == exprs'
<1>1. CASE returned = Invalid
  <2> DEFINE kids == << >>
  <2>1. ys = exprs /\ statements' = Append(statements, Statement(kind, kids, ref))
        /\ kids \in Seq(Nat)
    BY <1>1
  <2>2. /\ TwoOperands(exprs)
        /\ \A e \in Ids :
              /\ Uses(e, Operands(exprs)) \in Nat
              /\ Uses(e, Operands(exprs)) + Times(e, kids) =
                     Uses(e, Operands(exprs)) + Num(e = returned) + IsNew(e, exprs, exprs)
    BY <1>1, NoValueUses
  <2> HIDE DEF ys, kids
  <2>3. /\ TwoOperands(ys)
        /\ \A e \in Ids :
              /\ Uses(e, Operands(ys)) \in Nat
              /\ Uses(e, Operands(ys)) + Times(e, kids) =
                     Uses(e, Operands(exprs)) + Num(e = returned) + IsNew(e, exprs, ys)
    BY <2>1, <2>2
  <2>4. QED
    BY <2>1, <2>3, LeaveStatementTree DEF ys
<1>2. CASE returned # Invalid
  <2> DEFINE id == CastTo(returned, target)
             kids == <<id>>
  <2>1. /\ ys = WithCast(returned, target)
        /\ statements' = Append(statements, Statement(kind, kids, ref))
    BY <1>2
  <2>2. returned \in 1..Len(exprs)
    BY <1>2, ExprsNow DEF Invalid
  <2>3. id = CastTo(returned, target)
    OBVIOUS
  <2> HIDE DEF ys, id
  <2>4. kids \in Seq({id})
    OBVIOUS
  <2>5. /\ TwoOperands(ys)
        /\ \A e \in Ids :
              /\ Uses(e, Operands(ys)) \in Nat
              /\ Uses(e, Operands(ys)) + Times(e, kids) =
                     Uses(e, Operands(exprs)) + Num(e = returned) + IsNew(e, exprs, ys)
    BY <2>1, <2>2, <2>3, ConvertedUses
  <2> HIDE DEF kids
  <2>6. QED
    BY <2>1, <2>4, <2>5, LeaveStatementTree DEF ys
<1>3. QED
  BY <1>1, <1>2

LEMMA InitializeTree ==
    ASSUME BuilderInv, BuilderInv', TreeInv, Initialize PROVE TreeInv'
<1>1. /\ At("initializer") /\ Leave(Len(statements) + 1)
      /\ functions' = functions /\ blocks' = blocks /\ diags' = diags
  BY DEF Initialize
<1>2. /\ Top.at = "initializer" /\ Top \in InitializerFrames(Len(types), Len(symbols))
      /\ Settled(Top, returned, Len(blocks), Len(statements), Len(exprs))
  BY <1>1, AtFacts, FramesAt
<1>3. Top.type \in 1..Len(types) /\ returned \in 0..Len(exprs)
  BY <1>2, ExprsNow DEF InitializerFrames, Settled, Wants, IdsFor, Invalid
<1> DEFINE target == Top.type
<1>4. IF returned = Invalid
      THEN /\ statements' = Append(statements, Statement("VarDecl", << >>, Top.symbol))
           /\ exprs' = exprs
      ELSE /\ statements' =
                  Append(statements, Statement("VarDecl", <<CastTo(returned, target)>>, Top.symbol))
           /\ exprs' = WithCast(returned, target)
  BY DEF Initialize, VarDecl
<1>5. target \in 1..Len(types)
  BY <1>3
<1> HIDE DEF target
<1>6. QED
  BY <1>1, <1>3, <1>4, <1>5, ConvertTree

LEMMA EndReturnTree ==
    ASSUME BuilderInv, BuilderInv', TreeInv, EndReturn PROVE TreeInv'
<1>1. /\ At("return") /\ Leave(Len(statements) + 1)
      /\ functions' = functions /\ blocks' = blocks /\ diags' = diags
  BY DEF EndReturn
<1>2. returned \in 0..Len(exprs)
  BY <1>1, ExprReturned
<1>3. Expected \in 1..Len(types)
  BY <1>1, ExpectedFound
<1>4. IF returned = Invalid
      THEN /\ statements' = Append(statements, Statement("Return", << >>, Invalid))
           /\ exprs' = exprs
      ELSE /\ statements' =
                  Append(statements, Statement("Return", <<CastTo(returned, Expected)>>, Invalid))
           /\ exprs' = WithCast(returned, Expected)
  BY DEF EndReturn
<1>5. QED
  BY <1>1, <1>2, <1>3, <1>4, ConvertTree

LEMMA EndExprStatTree ==
    ASSUME BuilderInv, BuilderInv', TreeInv, EndExprStat PROVE TreeInv'
<1> DEFINE kids == IF returned = Invalid THEN << >> ELSE <<returned>>
<1>1. /\ At("exprStat") /\ Leave(Len(statements) + 1)
      /\ functions' = functions /\ blocks' = blocks /\ diags' = diags
      /\ exprs' = exprs /\ statements' = Append(statements, Statement("Expr", kids, Invalid))
  BY DEF EndExprStat
<1>2. kids \in Seq({returned})
  <2>1. << >> \in Seq({returned}) /\ <<returned>> \in Seq({returned})
    OBVIOUS
  <2>2. QED
    BY <2>1
<1>3. ASSUME NEW e \in Ids
      PROVE  /\ Uses(e, Operands(exprs)) \in Nat
             /\ Uses(e, Operands(exprs)) + Times(e, kids) =
                    Uses(e, Operands(exprs)) + Num(e = returned) + IsNew(e, exprs, exprs)
  <2>1. Uses(e, Operands(exprs)) \in Nat
    BY UsesAreNumbers
  <2>2. IsNew(e, exprs, exprs) = 0 /\ Num(e = returned) \in Nat
    BY ExprsNow, NothingNew, NumIs
  <2>3. Times(e, kids) = Num(e = returned)
    <3>1. CASE returned = Invalid
      <4>1. kids = << >> /\ Num(e = returned) = 0
        BY <3>1 DEF Num, Ids
      <4>2. QED
        BY <4>1, TimesOfFew
    <3>2. CASE returned # Invalid
      <4>1. kids = <<returned>>
        BY <3>2
      <4>2. Times(e, <<returned>>) = Num(e = returned)
        BY OneValueUses
      <4>3. QED
        BY <4>1, <4>2
    <3>3. QED
      BY <3>1, <3>2
  <2>4. QED
    BY <2>1, <2>2, <2>3
<1>4. TwoOperands(exprs)
  BY ExprsNow
<1> HIDE DEF kids
<1>5. /\ TwoOperands(exprs')
      /\ \A e \in Ids :
            /\ Uses(e, Operands(exprs')) \in Nat
            /\ Uses(e, Operands(exprs')) + Times(e, kids) =
                   Uses(e, Operands(exprs)) + Num(e = returned) + IsNew(e, exprs, exprs')
  BY <1>1, <1>3, <1>4
<1>6. QED
  BY <1>1, <1>2, <1>5, LeaveStatementTree

(* A statement that stands for one that is not supported.                  *)
LEMMA BuildOtherStatementTree ==
    ASSUME BuilderInv, BuilderInv', TreeInv, BuildOtherStatement PROVE TreeInv'
<1>1. /\ functions' = functions /\ blocks' = blocks /\ exprs' = exprs
      /\ diags \subseteq diags' /\ Return(Len(statements) + 1)
      /\ statements' = Append(statements, Statement("Error", << >>, Invalid))
  BY DEF BuildOtherStatement, Report
<1>2. call # Null /\ call.node = "OtherStatement"
  BY CalledIs DEF BuildOtherStatement
<1>3. SortOf(Wants(Top)) = "statement" /\ {"block", "statement", "expr"} = Sorts
  BY <1>2, CalledFacts DEF SortOf, Sorts
<1> DEFINE r == Len(statements) + 1
<1>4. Return(r)
  BY <1>1
<1> HIDE DEF r
<1>5. SameOn("block") /\ SameOn("expr")
  BY <1>2, <1>3, <1>4, ReturnSameOn
<1>6. ASSUME NEW s \in Ids
      PROVE  OnStack("statement", s)' = OnStack("statement", s) + Num(s = Len(statements) + 1)
  <2>1. OnStack("statement", s)' =
            OnStack("statement", s) + Num(s = r /\ SortOf(Wants(Top)) = "statement")
    BY <1>2, <1>3, <1>4, ReturnUses
  <2>2. Num(s = r /\ SortOf(Wants(Top)) = "statement") = Num(s = r)
    BY <1>3
  <2>3. QED
    BY <2>1, <2>2 DEF r
<1> DEFINE kids == << >>
           ys == exprs'
<1>7. /\ kids \in Seq(Nat) /\ ys = exprs
      /\ statements' = Append(statements, Statement("Error", kids, Invalid))
  BY <1>1
<1>8. ASSUME NEW e \in Ids
      PROVE  /\ Uses(e, Operands(ys)) \in Nat /\ OnStack("expr", e)' \in Nat
             /\ Uses(e, Operands(ys)) + Times(e, kids) + OnStack("expr", e)' =
                    Uses(e, Operands(exprs)) + OnStack("expr", e) + IsNew(e, exprs, ys)
  <2>1. Uses(e, Operands(exprs)) \in Nat /\ OnStack("expr", e) \in Nat
    BY <1>3, UsesAreNumbers
  <2>2. OnStack("expr", e)' = OnStack("expr", e)
    BY <1>5 DEF SameOn
  <2>3. IsNew(e, exprs, exprs) = 0
    BY ExprsNow, NothingNew
  <2>4. Times(e, kids) = 0
    BY TimesOfFew
  <2> HIDE DEF ys, kids
  <2>5. QED
    BY <1>7, <2>1, <2>2, <2>3, <2>4
<1>9. TwoOperands(exprs) /\ SameBodies
  BY <1>1, ExprsNow, SameFunctionsSameBodies
<1> HIDE DEF kids, ys
<1>10. TwoOperands(ys)
  BY <1>7, <1>9
<1>11. QED
  BY <1>1, <1>5, <1>6, <1>7, <1>8, <1>9, <1>10, StatementTree DEF ys

-----------------------------------------------------------------------------
(* 9. Blocks, declarators and function bodies.                             *)

(* What a loop has taken leaves the stack when the loop ends.              *)
LEMMA TakenMoves ==
    ASSUME BuilderInv, BuilderInv', NEW point \in {"statements", "declarators"}, At(point),
           NEW r, Leave(r), NEW s \in Ids
    PROVE  /\ Times(s, Taken) \in Nat
           /\ OnStack("statement", s) \in Nat /\ OnStack("statement", s)' \in Nat
           /\ OnStack("statement", s)' + Times(s, Taken) =
                  OnStack("statement", s) + Num(s = r /\ SortOf(Gives(Top)) = "statement")
<1> DEFINE fr == [at |-> point, statements |-> Taken]
<1>1. fr.at = point /\ fr.statements = Taken /\ "statement" \in Sorts
  BY DEF Sorts
<1> HIDE DEF fr
<1>2. Times(s, FrameIds("statement", fr)) =
          Times(s, FrameIds("statement", Top)) + IsResult("statement", s)
  BY <1>1, TakenUses
<1>3. FrameIds("statement", fr) = Taken
  BY <1>1 DEF FrameIds
<1>4. stack # << >>
  BY AtFacts
<1>5. /\ OnStack("statement", s) \in Nat /\ OnStack("statement", s)' \in Nat
      /\ Times(s, FrameIds("statement", Top)) \in Nat /\ IsResult("statement", s) \in Nat
      /\ OnStack("statement", s)' + Times(s, FrameIds("statement", Top))
         + IsResult("statement", s) =
             OnStack("statement", s) + Num(s = r /\ SortOf(Gives(Top)) = "statement")
  BY <1>1, <1>4, LeaveMoves
<1>6. Times(s, Taken) = Times(s, FrameIds("statement", Top)) + IsResult("statement", s)
  BY <1>2, <1>3
<1>7. QED
  BY <1>5, <1>6

(* ... while blocks and expressions stay where they are.                   *)
LEMMA LoopKeepsOthers ==
    ASSUME BuilderInv, BuilderInv', NEW point \in {"statements", "declarators"}, At(point),
           NEW r, Leave(r)
    PROVE  /\ SameOn("expr")
           /\ SortOf(Gives(Top)) = "statement" => SameOn("block")
<1>1. stack # << >> /\ Top.at = point
  BY AtFacts
<1>2. /\ SortOf(Wants(Top)) = "statement" /\ SortOf(Gives(Top)) \in {"statement", "block"}
      /\ FrameIds("expr", Top) = << >> /\ FrameIds("block", Top) = << >>
  BY <1>1 DEF Wants, Gives, SortOf, FrameIds
<1>3. QED
  BY <1>1, <1>2, LeaveSameOn DEF Sorts

(* What is taken becomes a block.                                          *)
LEMMA TakenBlock ==
    ASSUME BuilderInv, NEW point \in {"statements", "declarators"}, At(point),
           NEW bs, bs = Append(blocks, Taken), NEW s \in Ids
    PROVE  /\ Uses(s, blocks) \in Nat /\ Times(s, Taken) \in Nat
           /\ Uses(s, bs) = Uses(s, blocks) + Times(s, Taken)
           /\ IsNew(s, blocks, bs) = Num(s = Len(blocks) + 1)
<1> DEFINE S == 1..Len(statements)
           taken == Taken
<1>1. blocks \in Seq(Seq(S)) /\ taken \in Seq(S) /\ bs = Append(blocks, taken)
  BY TakenOK DEF ModuleOK
<1> HIDE DEF S, taken
<1>2. /\ Uses(s, blocks) \in Nat /\ Times(s, taken) \in Nat
      /\ Uses(s, bs) = Uses(s, blocks) + Times(s, taken)
  BY <1>1, MoreBlocks
<1>3. IsNew(s, blocks, bs) = Num(s = Len(blocks) + 1)
  BY <1>1, OneNew DEF Num
<1>4. QED
  BY <1>2, <1>3 DEF taken

LEMMA BlockStatementTree ==
    ASSUME BuilderInv, BuilderInv', TreeInv,
           NEW point \in {"statements", "declarators"}, At(point), Gives(Top) = "statement",
           functions' = functions, exprs' = exprs, diags' = diags,
           blocks' = Append(blocks, Taken), Leave(Len(statements) + 1),
           statements' = Append(statements, Statement("Block", << >>, Len(blocks) + 1))
    PROVE  TreeInv'
<1> DEFINE r == Len(statements) + 1
           x == Statement("Block", << >>, Len(blocks) + 1)
           xs == statements
           ys == statements'
           bs == blocks'
<1>1. /\ xs \in Seq(StatementEntry) /\ ys = Append(xs, x) /\ Leave(r)
      /\ bs = Append(blocks, Taken)
  BY DEF BuilderInv, ModuleOK, StatementsOK
<1>2. x.kids = << >> /\ KidsIn(x) = << >> /\ BlockIn(x) = <<Len(blocks) + 1>>
  BY DEF Statement, KidsIn, BlockIn
<1>3. SortOf(Gives(Top)) = "statement"
  BY DEF SortOf
<1> HIDE DEF r, x
<1>4. MoreStatement(xs, x, ys)
  BY <1>1, <1>2, FewFinite DEF MoreStatement
<1>5. SameOn("expr") /\ SameOn("block") /\ SameBodies
  BY <1>1, <1>3, LoopKeepsOthers, SameFunctionsSameBodies
<1> HIDE DEF ys, bs
<1>6. ASSUME NEW id \in Ids
      PROVE  /\ Uses(id, KidsOf(ys)) = Uses(id, KidsOf(xs))
             /\ Uses(id, BlocksOf(xs)) \in Nat
             /\ Uses(id, BlocksOf(ys)) = Uses(id, BlocksOf(xs)) + Num(id = Len(blocks) + 1)
             /\ IsNew(id, xs, ys) = Num(id = r)
  <2>1. /\ Uses(id, KidsOf(xs)) \in Nat /\ Uses(id, BlocksOf(xs)) \in Nat
        /\ Uses(id, KidsOf(ys)) = Uses(id, KidsOf(xs)) + Times(id, KidsIn(x))
        /\ Uses(id, BlocksOf(ys)) = Uses(id, BlocksOf(xs)) + Times(id, BlockIn(x))
    BY <1>4, MoreStatements
  <2>2. Times(id, << >>) = 0
    BY TimesOfFew
  <2>3. Times(id, <<Len(blocks) + 1>>) = Num(id = Len(blocks) + 1)
    BY OneValueUses
  <2>4. IsNew(id, xs, ys) = Num(id = r)
    BY <1>1, OneNew DEF Num, r
  <2>5. QED
    BY <1>2, <2>1, <2>2, <2>3, <2>4
<1>7. ASSUME NEW s \in Ids
      PROVE  /\ Uses(s, blocks) \in Nat /\ Times(s, Taken) \in Nat
             /\ Uses(s, bs) = Uses(s, blocks) + Times(s, Taken)
             /\ IsNew(s, blocks, bs) = Num(s = Len(blocks) + 1)
  BY <1>1, TakenBlock
<1>8. BlocksBalance
  <2>1. SUFFICES ASSUME NEW b \in Ids
                 PROVE  BlockUses(b)' = BlockUses(b) + IsNew(b, blocks, bs)
    BY DEF BlocksBalance, bs
  <2>2. OnStack("block", b) \in Nat /\ Uses(b, BodiesOf(functions)) \in Nat
    BY UsesAreNumbers DEF Sorts
  <2>3. BlockUses(b)' = Uses(b, BodiesOf(functions)) + Uses(b, BlocksOf(ys)) + OnStack("block", b)
    BY <1>5 DEF BlockUses, SameOn, ys
  <2>4. BlockUses(b) = Uses(b, BodiesOf(functions)) + Uses(b, BlocksOf(xs)) + OnStack("block", b)
    BY DEF BlockUses
  <2>5. Num(b = Len(blocks) + 1) \in Nat
    BY NumIs
  <2> DEFINE n == Num(b = Len(blocks) + 1)
             c == Uses(b, BlocksOf(ys))
             d == Uses(b, BlocksOf(xs))
  <2>6. /\ n \in Nat /\ d \in Nat /\ c = d + n /\ IsNew(b, blocks, bs) = n
        /\ BlockUses(b)' = Uses(b, BodiesOf(functions)) + c + OnStack("block", b)
        /\ BlockUses(b) = Uses(b, BodiesOf(functions)) + d + OnStack("block", b)
    BY <1>6, <1>7, <2>3, <2>4, <2>5
  <2> HIDE DEF n, c, d
  <2>7. QED
    BY <2>2, <2>6
<1>9. StatementsBalance
  <2>1. SUFFICES ASSUME NEW s \in Ids
                 PROVE  StatementUses(s)' = StatementUses(s) + IsNew(s, xs, ys)
    BY DEF StatementsBalance, ys
  <2>2. /\ Times(s, Taken) \in Nat
        /\ OnStack("statement", s) \in Nat /\ OnStack("statement", s)' \in Nat
        /\ OnStack("statement", s)' + Times(s, Taken) =
               OnStack("statement", s) + Num(s = r /\ SortOf(Gives(Top)) = "statement")
    BY <1>1, TakenMoves
  <2>3. Num(s = r /\ SortOf(Gives(Top)) = "statement") = Num(s = r) /\ Num(s = r) \in Nat
    BY <1>3, NumIs
  <2>4. StatementUses(s)' = Uses(s, bs) + OnStack("statement", s)'
    BY DEF StatementUses, bs
  <2>5. StatementUses(s) = Uses(s, blocks) + OnStack("statement", s)
    BY DEF StatementUses
  <2> DEFINE o == OnStack("statement", s)'
             c == Uses(s, bs)
             t == Times(s, Taken)
             n == Num(s = r)
  <2>6. /\ o \in Nat /\ t \in Nat /\ n \in Nat /\ Uses(s, blocks) \in Nat
        /\ OnStack("statement", s) \in Nat
        /\ o + t = OnStack("statement", s) + n /\ c = Uses(s, blocks) + t
        /\ StatementUses(s)' = c + o /\ IsNew(s, xs, ys) = n
    BY <1>6, <1>7, <2>2, <2>3, <2>4
  <2> HIDE DEF o, c, t, n
  <2>7. StatementUses(s)' = StatementUses(s) + n
    <3> DEFINE u == Uses(s, blocks)
               a == OnStack("statement", s)
               z == StatementUses(s)'
    <3>1. /\ u \in Nat /\ a \in Nat /\ o \in Nat /\ t \in Nat /\ n \in Nat
          /\ StatementUses(s) = u + a /\ o + t = a + n /\ z = u + t + o
      BY <2>5, <2>6
    <3> HIDE DEF u, a, z
    <3>2. z = StatementUses(s) + n
      BY <3>1
    <3>3. QED
      BY <3>2 DEF z
  <2>8. QED
    BY <2>6, <2>7
<1>10. ExprsBalance
  BY <1>5, <1>6, SameExprs DEF ys
<1>11. TwoOperands(exprs') /\ diags \subseteq diags'
  BY ExprsNow
<1>12. QED
  BY <1>8, <1>9, <1>10, <1>11, BalanceKeepsTree

LEMMA CloseBodyTree ==
    ASSUME BuilderInv, BuilderInv', TreeInv, CloseBlock, Top.isBody PROVE TreeInv'
<1> DEFINE r == Len(blocks) + 1
           bs == blocks'
<1>1. /\ At("statements") /\ bs = Append(blocks, Taken) /\ Leave(r)
      /\ functions' = functions /\ statements' = statements /\ exprs' = exprs
      /\ diags' = diags
  BY DEF CloseBlock
<1>2. stack # << >> /\ Top.at = "statements"
  BY <1>1, AtFacts
<1>3. /\ SortOf(Gives(Top)) = "block" /\ SortOf(Wants(Top)) = "statement"
      /\ FrameIds("block", Top) = << >> /\ {"block", "statement", "expr"} = Sorts
  BY <1>2 DEF SortOf, Gives, Wants, FrameIds, Sorts
<1> HIDE DEF r, bs
<1>4. SameOn("expr") /\ SameBodies
  BY <1>1, LoopKeepsOthers, SameFunctionsSameBodies
<1>5. ASSUME NEW s \in Ids
      PROVE  /\ Uses(s, blocks) \in Nat /\ Times(s, Taken) \in Nat
             /\ Uses(s, bs) = Uses(s, blocks) + Times(s, Taken)
             /\ IsNew(s, blocks, bs) = Num(s = r)
  <2>1. IsNew(s, blocks, bs) = Num(s = Len(blocks) + 1)
    BY <1>1, TakenBlock
  <2>2. QED
    BY <1>1, <2>1, TakenBlock DEF r
<1>6. BlocksBalance
  <2>1. SUFFICES ASSUME NEW b \in Ids
                 PROVE  BlockUses(b)' = BlockUses(b) + IsNew(b, blocks, bs)
    BY DEF BlocksBalance, bs
  <2>2. /\ OnStack("block", b) \in Nat /\ OnStack("block", b)' \in Nat
        /\ OnStack("block", b)' + Times(b, FrameIds("block", Top)) + IsResult("block", b) =
               OnStack("block", b) + Num(b = r /\ SortOf(Gives(Top)) = "block")
    BY <1>1, <1>2, <1>3, LeaveMoves
  <2>3. Num(b = r /\ SortOf(Gives(Top)) = "block") = Num(b = r) /\ Num(b = r) \in Nat
    BY <1>3, NumIs
  <2>4. IsResult("block", b) = 0
    BY <1>3 DEF IsResult, Num
  <2>5. Times(b, FrameIds("block", Top)) = 0
    BY <1>3, TimesOfFew
  <2>6. Uses(b, BodiesOf(functions)) \in Nat /\ Uses(b, BlocksOf(statements)) \in Nat
    BY UsesAreNumbers
  <2>7. BlockUses(b)' = Uses(b, BodiesOf(functions)) + Uses(b, BlocksOf(statements))
                        + OnStack("block", b)'
    BY <1>1 DEF BlockUses
  <2> DEFINE o == OnStack("block", b)'
             n == Num(b = r)
             z == BlockUses(b)'
  <2>8. /\ o \in Nat /\ n \in Nat /\ OnStack("block", b) \in Nat
        /\ o = OnStack("block", b) + n /\ IsNew(b, blocks, bs) = n
        /\ z = Uses(b, BodiesOf(functions)) + Uses(b, BlocksOf(statements)) + o
    BY <1>5, <2>2, <2>3, <2>4, <2>5, <2>7
  <2> HIDE DEF o, n, z
  <2>9. z = BlockUses(b) + n
    BY <2>6, <2>8 DEF BlockUses
  <2>10. QED
    BY <2>8, <2>9 DEF z
<1>7. StatementsBalance
  <2>1. SUFFICES ASSUME NEW s \in Ids
                 PROVE  StatementUses(s)' = StatementUses(s) + IsNew(s, statements, statements')
    BY DEF StatementsBalance
  <2>2. /\ Times(s, Taken) \in Nat
        /\ OnStack("statement", s) \in Nat /\ OnStack("statement", s)' \in Nat
        /\ OnStack("statement", s)' + Times(s, Taken) =
               OnStack("statement", s) + Num(s = r /\ SortOf(Gives(Top)) = "statement")
    BY <1>1, TakenMoves
  <2>3. Num(s = r /\ SortOf(Gives(Top)) = "statement") = 0
    BY <1>3 DEF Num
  <2>4. StatementUses(s)' = Uses(s, bs) + OnStack("statement", s)'
    BY DEF StatementUses, bs
  <2>5. IsNew(s, statements, statements') = 0
    BY <1>1, Lengths, NothingNew DEF BuilderInv
  <2> DEFINE u == Uses(s, blocks)
             o == OnStack("statement", s)'
             a == OnStack("statement", s)
             t == Times(s, Taken)
             z == StatementUses(s)'
  <2>6. /\ u \in Nat /\ o \in Nat /\ a \in Nat /\ t \in Nat
        /\ StatementUses(s) = u + a /\ o + t = a /\ z = u + t + o
    BY <1>5, <2>2, <2>3, <2>4 DEF StatementUses
  <2> HIDE DEF u, o, a, t, z
  <2>7. z = StatementUses(s) + 0
    BY <2>6
  <2>8. QED
    BY <2>5, <2>7 DEF z
<1>8. ExprsBalance
  BY <1>1, <1>4, SameExprs
<1>9. TwoOperands(exprs') /\ diags \subseteq diags'
  BY <1>1, ExprsNow
<1>10. QED
  BY <1>6, <1>7, <1>8, <1>9, BalanceKeepsTree

LEMMA CloseBlockTree ==
    ASSUME BuilderInv, BuilderInv', TreeInv, CloseBlock PROVE TreeInv'
<1>1. CASE Top.isBody
  BY <1>1, CloseBodyTree
<1>2. CASE ~Top.isBody
  <2>1. /\ At("statements") /\ functions' = functions /\ exprs' = exprs /\ diags' = diags
        /\ blocks' = Append(blocks, Taken) /\ Leave(Len(statements) + 1)
        /\ statements' = Append(statements, Statement("Block", << >>, Len(blocks) + 1))
    BY <1>2 DEF CloseBlock
  <2>2. Gives(Top) = "statement"
    <3>1. Top.at = "statements"
      BY <2>1, AtFacts
    <3>2. QED
      BY <1>2, <3>1 DEF Gives
  <2>3. QED
    BY <2>1, <2>2, BlockStatementTree
<1>3. QED
  BY <1>1, <1>2

(* The one declarator's statement is passed on.                            *)
LEMMA OneDeclaratorQuiet ==
    ASSUME BuilderInv, BuilderInv', EndVarDecl, Len(Taken) = 1 PROVE Quiet
<1>1. /\ At("declarators") /\ Top.rest = << >> /\ Leave(returned)
      /\ functions' = functions /\ blocks' = blocks /\ statements' = statements
      /\ exprs' = exprs /\ diags' = diags
  BY DEF EndVarDecl
<1>2. Top.at = "declarators" /\ stack # << >>
  BY <1>1, AtFacts
<1>3. Gives(Top) = "statement" /\ SortOf(Gives(Top)) = "statement"
  BY <1>2 DEF Gives, SortOf
<1>4. SameOn("expr") /\ SameOn("block")
  BY <1>1, <1>3, LoopKeepsOthers
<1>5. SameOn("statement")
  <2>1. SUFFICES ASSUME NEW s \in Ids
                 PROVE  OnStack("statement", s)' = OnStack("statement", s)
    BY DEF SameOn
  <2>2. /\ OnStack("statement", s) \in Nat /\ OnStack("statement", s)' \in Nat
        /\ OnStack("statement", s)' + Times(s, Taken) =
               OnStack("statement", s) + Num(s = returned /\ SortOf(Gives(Top)) = "statement")
    BY <1>1, TakenMoves
  <2>3. Num(s = returned /\ SortOf(Gives(Top)) = "statement") = Num(s = returned)
    BY <1>3
  <2>4. Top.statements \in Seq(1..Len(statements))
    BY <1>1, <1>2, AtFacts, FramesAt DEF DeclaratorFrames
  <2>5. Taken = Append(Top.statements, returned)
    <3>1. returned \in 1..Len(statements)
      BY <1>1, TakenOK
    <3>2. returned # Invalid
      BY <3>1 DEF Invalid
    <3>3. QED
      BY <3>2 DEF Taken
  <2>6. Top.statements = << >>
    BY <2>4, <2>5
  <2>7. Taken = <<returned>>
    BY <2>5, <2>6
  <2>8. Times(s, <<returned>>) = Num(s = returned)
    BY OneValueUses
  <2>9. Num(s = returned) \in Nat
    BY NumIs
  <2>10. QED
    BY <2>2, <2>3, <2>7, <2>8, <2>9
<1>6. SameOnStack
  BY <1>4, <1>5 DEF SameOnStack, SameOn, Sorts
<1>7. QED
  BY <1>1, <1>6, SameFunctionsSameBodies DEF Quiet

LEMMA EndVarDeclTree ==
    ASSUME BuilderInv, BuilderInv', TreeInv, EndVarDecl PROVE TreeInv'
<1>1. CASE Len(Taken) = 1
  BY <1>1, OneDeclaratorQuiet, QuietKeepsTree
<1>2. CASE Len(Taken) # 1
  <2>1. /\ At("declarators") /\ functions' = functions /\ exprs' = exprs /\ diags' = diags
        /\ blocks' = Append(blocks, Taken) /\ Leave(Len(statements) + 1)
        /\ statements' = Append(statements, Statement("Block", << >>, Len(blocks) + 1))
    BY <1>2 DEF EndVarDecl
  <2>2. Gives(Top) = "statement"
    <3>1. Top.at = "declarators"
      BY <2>1, AtFacts
    <3>2. QED
      BY <3>1 DEF Gives
  <2>3. QED
    BY <2>1, <2>2, BlockStatementTree
<1>3. QED
  BY <1>1, <1>2

-----------------------------------------------------------------------------
(* 10. Every step.                                                         *)

(* The body of a function is set once, to the block that has been built.   *)
LEMMA EndFunctionTree ==
    ASSUME BuilderInv, BuilderInv', TreeInv, EndFunction PROVE TreeInv'
<1> DEFINE f == Top.function
           gs == functions'
<1>1. /\ At("body") /\ gs = [functions EXCEPT ![f].body = returned] /\ Leave(Invalid)
      /\ blocks' = blocks /\ statements' = statements /\ exprs' = exprs /\ diags' = diags
  BY DEF EndFunction
<1>2. Top.at = "body" /\ stack # << >>
  BY <1>1, AtFacts
<1>3. f \in 1..Len(functions) /\ functions[f].body = Invalid /\ functions \in Seq(FunctionEntry)
  <2>1. f \in 1..Len(functions) /\ stack[2] = Top /\ Len(stack) = 2
    BY <1>1, FunctionFound
  <2>2. functions[stack[2].function].body = Invalid
    BY <2>1 DEF BuilderInv, PendingOK
  <2>3. QED
    BY <2>1, <2>2 DEF BuilderInv, ModuleOK, FunctionsOK
<1>4. /\ SortOf(Gives(Top)) = "nothing" /\ SortOf(Wants(Top)) = "block"
      /\ {"block", "statement", "expr"} = Sorts
      /\ \A sort \in Sorts : FrameIds(sort, Top) = << >>
  BY <1>2 DEF SortOf, Gives, Wants, Sorts, FrameIds
<1>5. SameOn("statement") /\ SameOn("expr")
  BY <1>1, <1>2, <1>4, LeaveSameOn
<1>6. ASSUME NEW b \in Ids
      PROVE  /\ OnStack("block", b)' \in Nat
             /\ OnStack("block", b) = OnStack("block", b)' + Num(b = returned)
  <2>1. /\ OnStack("block", b) \in Nat /\ OnStack("block", b)' \in Nat
        /\ OnStack("block", b)' + Times(b, FrameIds("block", Top)) + IsResult("block", b) =
               OnStack("block", b) + Num(b = Invalid /\ SortOf(Gives(Top)) = "block")
    BY <1>1, <1>2, <1>4, LeaveMoves
  <2>2. Num(b = Invalid /\ SortOf(Gives(Top)) = "block") = 0
    BY <1>4 DEF Num
  <2>3. IsResult("block", b) = Num(b = returned) /\ Num(b = returned) \in Nat
    BY <1>2, <1>4 DEF IsResult, Num
  <2>4. Times(b, FrameIds("block", Top)) = 0
    BY <1>4, TimesOfFew
  <2>5. QED
    BY <2>1, <2>2, <2>3, <2>4
<1>7. ASSUME NEW b \in Ids
      PROVE  /\ Uses(b, BodiesOf(functions)) \in Nat
             /\ Uses(b, BodiesOf(gs)) = Uses(b, BodiesOf(functions)) + Num(b = returned)
  <2> DEFINE A == BodiesOf(functions)
             B == BodiesOf(gs)
  <2>1. DOMAIN functions = 1..Len(functions) /\ DOMAIN gs = DOMAIN functions
    BY <1>1, <1>3
  <2>2. gs[f].body = returned /\ \A j \in DOMAIN functions : j # f => gs[j] = functions[j]
    <3>1. functions[f] \in FunctionEntry
      BY <1>3
    <3>2. QED
      BY <1>1, <1>3, <2>1, <3>1 DEF FunctionEntry
  <2> HIDE DEF f, gs
  <2>3. /\ f \in DOMAIN A /\ DOMAIN B = DOMAIN A /\ A[f] = <<Invalid>> /\ B[f] = <<returned>>
        /\ \A j \in DOMAIN A : j # f => B[j] = A[j]
    BY <1>3, <2>1, <2>2 DEF BodiesOf, f
  <2>4. FiniteLists(A)
    BY <1>3, BodiesFinite
  <2>5. IsFiniteSet(DOMAIN <<returned>>)
    BY FewFinite
  <2> HIDE DEF A, B
  <2>6. IsFiniteSet(DOMAIN B[f])
    BY <2>3, <2>5
  <2>7. /\ Uses(b, A) \in Nat /\ Uses(b, B) = Uses(b, A) - Times(b, A[f]) + Times(b, B[f])
    BY <2>3, <2>4, <2>6, ChangedUses
  <2>8. Times(b, <<returned>>) = Num(b = returned) /\ Times(b, <<Invalid>>) = Num(b = Invalid)
    BY OneValueUses
  <2>9. Num(b = Invalid) = 0 /\ Num(b = returned) \in Nat
    BY DEF Num, Ids
  <2>10. QED
    BY <2>3, <2>7, <2>8, <2>9 DEF A, B
<1>8. BlocksBalance
  <2>1. SUFFICES ASSUME NEW b \in Ids
                 PROVE  BlockUses(b)' = BlockUses(b) + IsNew(b, blocks, blocks')
    BY DEF BlocksBalance
  <2>2. IsNew(b, blocks, blocks') = 0
    BY <1>1, Lengths, NothingNew DEF BuilderInv
  <2>3. BlockUses(b)' = Uses(b, BodiesOf(gs)) + Uses(b, BlocksOf(statements)) + OnStack("block", b)'
    BY <1>1 DEF BlockUses
  <2>4. Uses(b, BlocksOf(statements)) \in Nat
    BY UsesAreNumbers
  <2>5. Num(b = returned) \in Nat
    BY NumIs
  <2> DEFINE c == Uses(b, BodiesOf(gs))
             a == Uses(b, BodiesOf(functions))
             d == Uses(b, BlocksOf(statements))
             o == OnStack("block", b)'
             n == Num(b = returned)
             z == BlockUses(b)'
  <2>6. /\ a \in Nat /\ d \in Nat /\ o \in Nat /\ n \in Nat /\ c = a + n
        /\ z = c + d + o /\ BlockUses(b) = a + d + (o + n)
    BY <1>6, <1>7, <2>3, <2>4, <2>5 DEF BlockUses
  <2> HIDE DEF a, c, d, o, n, z
  <2>7. z = BlockUses(b) + 0
    BY <2>6
  <2>8. QED
    BY <2>2, <2>7 DEF z
<1>9. StatementsBalance /\ ExprsBalance
  BY <1>1, <1>5, SameStatements, SameExprs
<1>10. TwoOperands(exprs') /\ diags \subseteq diags'
  BY <1>1, ExprsNow
<1>11. QED
  BY <1>8, <1>9, <1>10, BalanceKeepsTree

(* Every step keeps the tree.                                              *)
LEMMA NextKeepsTree ==
    ASSUME BuilderInv, BuilderInv', TreeInv, Next PROVE TreeInv'
<1>1. CASE BuildTopLevel
  BY <1>1, BuildOtherChildQuiet, BuildFunctionQuiet, DeclareParameterQuiet, BuildBodyQuiet,
     EndScriptQuiet, QuietKeepsTree, EndFunctionTree DEF BuildTopLevel
<1>2. CASE BuildStatement
  BY <1>2, CallsQuiet, NextStatementQuiet, NextDeclaratorQuiet, QuietKeepsTree, CloseBlockTree,
     BuildOtherStatementTree, ReturnedValueTree, InitializeTree, EndVarDeclTree,
     EndExprStatTree, EndReturnTree DEF BuildStatement
<1>3. CASE BuildExpression
  BY <1>3, CallsQuiet, BuildRhsQuiet, QuietKeepsTree, AssignTree, CompoundAssignTree,
     EndTernaryTree, TakeOperandTree, ReturnedValueTree, NextArgumentTree, TakeArgumentTree,
     EndFuncCallTree DEF BuildExpression
<1>4. QED
  BY <1>1, <1>2, <1>3 DEF Next

LEMMA InitTree == ASSUME Init PROVE TreeInv
<1>1. blocks = << >> /\ statements = << >> /\ exprs = << >>
  BY DEF Init
<1>2. Len(blocks) = 0 /\ Len(statements) = 0 /\ Len(exprs) = 0
  BY <1>1
<1>3. QED
  BY <1>2 DEF TreeInv, BlocksOnce, StatementsOnce, ExprsOnce, TwoOperands

LEMMA TreeStutters ==
    ASSUME BuilderInv, TreeInv, UNCHANGED vars PROVE TreeInv'
<1>1. /\ functions' = functions /\ blocks' = blocks /\ statements' = statements
      /\ exprs' = exprs /\ diags' = diags /\ stack' = stack /\ returned' = returned
  BY DEF vars, arena
<1>2. Quiet
  BY <1>1, TailSame, SameFunctionsSameBodies DEF Quiet
<1>3. QED
  BY <1>2, QuietKeepsTree

(* The invariant holds in every state of the build, whatever the script.   *)
LEMMA TreeInvariance == Spec => []TreeInv
<1>1. Init => TreeInv
  BY InitTree
<1>2. TreeInv /\ BuilderInv /\ BuilderInv' /\ [Next]_vars => TreeInv'
  BY NextKeepsTree, TreeStutters
<1>3. QED
  BY <1>1, <1>2, BuilderInvariance, PTL DEF Spec

-----------------------------------------------------------------------------
(* 11. The module when it is done.                                         *)

(* The operands of an expression are all it refers to, but for what a      *)
(* compound assignment assigns to.                                         *)
LEMMA OperandSpots ==
    ASSUME NEW xs, KidsFirst(xs), TwoOperands(xs), NEW id \in Ids, NEW p
    PROVE  p \in Spots(id, KidsOf(xs)) <=>
               \/ p \in Spots(id, Operands(xs))
               \/ \E i \in 1..Len(xs) :
                      IsCompound(xs[i], xs) /\ xs[i].kids[1] = id /\ p = <<i, 1>>
<1> DEFINE A == Operands(xs)
           B == KidsOf(xs)
<1>1. xs \in Seq(ExprEntry) /\ DOMAIN xs = 1..Len(xs)
  BY DEF KidsFirst
<1>2. DOMAIN A = 1..Len(xs) /\ DOMAIN B = 1..Len(xs)
      /\ \A i \in 1..Len(xs) : A[i] = OperandsOf(xs[i], xs) /\ B[i] = xs[i].kids
  BY <1>1 DEF Operands, KidsOf
<1>3. ASSUME NEW i \in 1..Len(xs), IsCompound(xs[i], xs)
      PROVE  /\ DOMAIN xs[i].kids = {1, 2} /\ DOMAIN OperandsOf(xs[i], xs) = {1, 2}
             /\ OperandsOf(xs[i], xs)[1] # id /\ OperandsOf(xs[i], xs)[2] = xs[i].kids[2]
  <2>1. xs[i].kids \in Seq(1..(i - 1)) /\ Len(xs[i].kids) = 2
    BY <1>3 DEF KidsFirst, TwoOperands, IsCompound
  <2>2. OperandsOf(xs[i], xs) = <<Invalid, xs[i].kids[2]>>
    BY <1>3 DEF OperandsOf
  <2>3. QED
    BY <2>1, <2>2 DEF Ids
<1>4. ASSUME NEW i \in 1..Len(xs), ~IsCompound(xs[i], xs)
      PROVE  OperandsOf(xs[i], xs) = xs[i].kids
  BY <1>4 DEF OperandsOf
<1> HIDE DEF A, B
<1>5. ASSUME p \in Spots(id, B)
      PROVE  \/ p \in Spots(id, A)
             \/ \E i \in 1..Len(xs) :
                    IsCompound(xs[i], xs) /\ xs[i].kids[1] = id /\ p = <<i, 1>>
  <2>1. \E i \in DOMAIN B : \E k \in DOMAIN B[i] : B[i][k] = id /\ p = <<i, k>>
    BY <1>5, SpotsAre
  <2>2. PICK i \in DOMAIN B : \E k \in DOMAIN B[i] : B[i][k] = id /\ p = <<i, k>>
    BY <2>1
  <2>3. PICK k \in DOMAIN B[i] : B[i][k] = id /\ p = <<i, k>>
    BY <2>2
  <2>4. i \in 1..Len(xs) /\ B[i] = xs[i].kids /\ A[i] = OperandsOf(xs[i], xs) /\ i \in DOMAIN A
    BY <1>2
  <2>5. CASE IsCompound(xs[i], xs)
    <3>1. k \in {1, 2}
      BY <1>3, <2>4, <2>5
    <3>2. CASE k = 1
      BY <2>3, <2>4, <2>5, <3>2
    <3>3. CASE k = 2
      <4>1. k \in DOMAIN A[i] /\ A[i][k] = id
        BY <1>3, <2>3, <2>4, <2>5, <3>3
      <4>2. QED
        BY <2>3, <2>4, <4>1, SpotsAre
    <3>4. QED
      BY <3>1, <3>2, <3>3
  <2>6. CASE ~IsCompound(xs[i], xs)
    <3>1. k \in DOMAIN A[i] /\ A[i][k] = id
      BY <1>4, <2>3, <2>4, <2>6
    <3>2. QED
      BY <2>3, <2>4, <3>1, SpotsAre
  <2>7. QED
    BY <2>5, <2>6
<1>6. ASSUME p \in Spots(id, A) PROVE p \in Spots(id, B)
  <2>1. \E i \in DOMAIN A : \E k \in DOMAIN A[i] : A[i][k] = id /\ p = <<i, k>>
    BY <1>6, SpotsAre
  <2>2. PICK i \in DOMAIN A : \E k \in DOMAIN A[i] : A[i][k] = id /\ p = <<i, k>>
    BY <2>1
  <2>3. PICK k \in DOMAIN A[i] : A[i][k] = id /\ p = <<i, k>>
    BY <2>2
  <2>4. i \in 1..Len(xs) /\ B[i] = xs[i].kids /\ A[i] = OperandsOf(xs[i], xs) /\ i \in DOMAIN B
    BY <1>2
  <2>5. k \in DOMAIN B[i] /\ B[i][k] = id
    <3>1. CASE IsCompound(xs[i], xs)
      <4>1. k \in {1, 2} /\ k # 1
        BY <1>3, <2>3, <2>4, <3>1
      <4>2. QED
        BY <1>3, <2>3, <2>4, <3>1, <4>1
    <3>2. CASE ~IsCompound(xs[i], xs)
      BY <1>4, <2>3, <2>4, <3>2
    <3>3. QED
      BY <3>1, <3>2
  <2>6. QED
    BY <2>3, <2>4, <2>5, SpotsAre
<1>7. ASSUME NEW i \in 1..Len(xs), IsCompound(xs[i], xs), xs[i].kids[1] = id, p = <<i, 1>>
      PROVE  p \in Spots(id, B)
  <2>1. i \in DOMAIN B /\ 1 \in DOMAIN B[i] /\ B[i][1] = id
    BY <1>2, <1>3, <1>7
  <2>2. QED
    BY <1>7, <2>1, SpotsAre
<1>8. QED
  BY <1>5, <1>6, <1>7 DEF A, B

(* Where every operand is used once, two compound assignments do not       *)
(* assign to the same expression.                                          *)
LEMMA OneAssignment ==
    ASSUME NEW xs, KidsFirst(xs), TwoOperands(xs),
           \A e \in 1..Len(xs) : Uses(e, Operands(xs)) <= 1,
           NEW i \in 1..Len(xs), IsCompound(xs[i], xs),
           NEW j \in 1..Len(xs), IsCompound(xs[j], xs), xs[i].kids[1] = xs[j].kids[1]
    PROVE  i = j
<1> DEFINE A == Operands(xs)
           id == xs[i].kids[1]
           v == xs[i].kids[2]
           w == xs[j].kids[2]
<1>1. xs \in Seq(ExprEntry) /\ DOMAIN xs = 1..Len(xs) /\ Len(xs) \in Nat
  BY DEF KidsFirst
<1>2. DOMAIN A = 1..Len(xs) /\ \A k \in 1..Len(xs) : A[k] = OperandsOf(xs[k], xs)
  BY <1>1 DEF Operands
<1>3. ASSUME NEW k \in 1..Len(xs), IsCompound(xs[k], xs)
      PROVE  /\ xs[k].kids[1] \in 1..Len(xs) /\ xs[k].kids[2] \in 1..Len(xs)
             /\ 2 \in DOMAIN A[k] /\ A[k][2] = xs[k].kids[2]
             /\ 1 \in DOMAIN A[xs[k].kids[2]] /\ A[xs[k].kids[2]][1] = xs[k].kids[1]
  <2>1. xs[k].kids \in Seq(1..(k - 1)) /\ Len(xs[k].kids) = 2
    BY <1>3 DEF KidsFirst, TwoOperands, IsCompound
  <2>2. xs[k].kids[1] \in 1..(k - 1) /\ xs[k].kids[2] \in 1..(k - 1)
    BY <2>1, ElementOfSeq
  <2>3. xs[k].kids[1] \in 1..Len(xs) /\ xs[k].kids[2] \in 1..Len(xs)
    BY <1>1, <2>2
  <2>4. A[k] = <<Invalid, xs[k].kids[2]>>
    BY <1>2, <1>3 DEF OperandsOf
  <2> DEFINE u == xs[k].kids[2]
  <2>5. xs[u].kind = "Binary" /\ xs[u].kids[1] = xs[k].kids[1]
    BY <1>3 DEF IsCompound
  <2> HIDE DEF A
  <2>6. A[u] = xs[u].kids
    BY <1>2, <2>3, <2>5 DEF OperandsOf, IsCompound
  <2>7. xs[u].kids \in Seq(1..(u - 1)) /\ Len(xs[u].kids) = 2
    BY <2>3, <2>5 DEF KidsFirst, TwoOperands
  <2>8. 1 \in DOMAIN A[u]
    BY <2>6, <2>7
  <2>9. 2 \in DOMAIN A[k] /\ A[k][2] = u
    BY <2>4
  <2>10. QED
    BY <2>3, <2>5, <2>6, <2>8, <2>9
<1>4. FiniteLists(A)
  BY <1>1, OperandsFinite
<1>5. \A e \in 1..Len(xs) : Uses(e, A) <= 1
  OBVIOUS
<1> HIDE DEF A
<1>6. /\ id \in 1..Len(xs) /\ v \in 1..Len(xs) /\ w \in 1..Len(xs)
      /\ 1 \in DOMAIN A[v] /\ A[v][1] = id /\ 1 \in DOMAIN A[w] /\ A[w][1] = id
      /\ 2 \in DOMAIN A[i] /\ A[i][2] = v /\ 2 \in DOMAIN A[j] /\ A[j][2] = w
  BY <1>3
<1> HIDE DEF id, v, w
<1>7. v = w
  <2>1. v \in DOMAIN A /\ w \in DOMAIN A /\ Uses(id, A) <= 1
    BY <1>2, <1>5, <1>6
  <2>2. QED
    BY <1>4, <1>6, <2>1, OneUse
<1>8. QED
  <2>1. i \in DOMAIN A /\ j \in DOMAIN A /\ Uses(v, A) <= 1 /\ A[j][2] = v
    BY <1>2, <1>5, <1>6, <1>7
  <2>2. QED
    BY <1>4, <1>6, <2>1, OneUse

(* When nothing runs any more, no id is on the stack.                      *)
LEMMA NothingLeft ==
    ASSUME BuilderInv, stack = << >>, NEW sort \in Sorts, NEW id
    PROVE  OnStack(sort, id) = 0
<1>1. FiniteLists(FrameLists(sort, stack))
  BY FramesNowListed, ListsFinite
<1>2. DOMAIN FrameLists(sort, stack) = {}
  <2>1. DOMAIN stack = {}
    OBVIOUS
  <2>2. QED
    BY <2>1 DEF FrameLists
<1>3. Uses(id, FrameLists(sort, stack)) = 0
  BY <1>1, <1>2, SomeUse
<1>4. QED
  BY <1>3 DEF OnStack, IsResult, Num

LEMMA ExprUsesAtEnd ==
    ASSUME BuilderInv, TreeInv, stack = << >>, NEW e \in 1..Len(exprs),
           NEW assigned \in BOOLEAN,
           assigned <=> \E a \in 1..Len(exprs) :
                            IsCompound(exprs[a], exprs) /\ exprs[a].kids[1] = e
    PROVE  /\ Uses(e, KidsOf(exprs)) + Uses(e, KidsOf(statements)) <= IF assigned THEN 2 ELSE 1
           /\ Uses(e, KidsOf(exprs)) + Uses(e, KidsOf(statements)) = 0 => diags # {}
<1> DEFINE xs == exprs
           P == Spots(e, Operands(xs))
           Q == Spots(e, KidsOf(xs))
<1>1. KidsFirst(xs) /\ TwoOperands(xs) /\ xs \in Seq(ExprEntry) /\ Len(xs) \in Nat
  BY ExprsNow
<1>2. e \in Ids
  BY <1>1, IdsAre
<1>3. /\ IsFiniteSet(P) /\ Uses(e, Operands(xs)) = Cardinality(P) /\ Cardinality(P) \in Nat
      /\ IsFiniteSet(Q) /\ Uses(e, KidsOf(xs)) = Cardinality(Q) /\ Cardinality(Q) \in Nat
  BY <1>1, OperandsFinite, SpotsFinite DEF Uses
<1>4. Uses(e, KidsOf(statements)) \in Nat
  BY UsesAreNumbers
<1>5. ASSUME NEW c \in 1..Len(xs)
      PROVE  ExprUses(c) = Uses(c, Operands(xs)) + Uses(c, KidsOf(statements))
             /\ ExprUses(c) \in {0, 1} /\ Uses(c, Operands(xs)) <= 1
             /\ (ExprUses(c) = 0 => diags # {})
  <2>1. OnStack("expr", c) = 0
    BY NothingLeft DEF Sorts
  <2>2. Uses(c, Operands(xs)) \in Nat /\ Uses(c, KidsOf(statements)) \in Nat
    BY UsesAreNumbers
  <2>3. ExprUses(c) = Uses(c, Operands(xs)) + Uses(c, KidsOf(statements))
    BY <2>1, <2>2 DEF ExprUses
  <2>4. ExprUses(c) \in {0, 1} /\ (ExprUses(c) = 0 => diags # {})
    BY DEF TreeInv, ExprsOnce
  <2>5. QED
    BY <2>2, <2>3, <2>4
<1> HIDE DEF P, Q
<1>6. P \subseteq Q
  BY <1>1, <1>2, OperandSpots DEF P, Q
<1>7. Cardinality(P) <= Cardinality(Q)
  BY <1>3, <1>6, FS_Subset
<1>8. CASE ~assigned
  <2>1. Q \subseteq P
    BY <1>1, <1>2, <1>8, OperandSpots DEF P, Q
  <2>2. Q = P
    BY <1>6, <2>1
  <2>3. Cardinality(Q) = Cardinality(P)
    BY <2>2
  <2>4. QED
    BY <1>3, <1>4, <1>5, <1>8, <2>3
<1>9. CASE assigned
  <2>1. PICK a \in 1..Len(xs) : IsCompound(xs[a], xs) /\ xs[a].kids[1] = e
    BY <1>9
  <2>2. \A c \in 1..Len(xs) : Uses(c, Operands(xs)) <= 1
    BY <1>5
  <2>3. ASSUME NEW i \in 1..Len(xs), IsCompound(xs[i], xs), xs[i].kids[1] = e PROVE i = a
    BY <1>1, <2>1, <2>2, <2>3, OneAssignment
  <2> DEFINE R == P \cup {<<a, 1>>}
  <2>4. Q \subseteq R
    <3>1. SUFFICES ASSUME NEW p \in Q, p \notin P PROVE p = <<a, 1>>
      OBVIOUS
    <3>2. PICK i \in 1..Len(xs) : IsCompound(xs[i], xs) /\ xs[i].kids[1] = e /\ p = <<i, 1>>
      BY <1>1, <1>2, <3>1, OperandSpots DEF P, Q
    <3>3. QED
      BY <2>3, <3>2
  <2>5. IsFiniteSet(R) /\ Cardinality(R) <= Cardinality(P) + 1
    <3> DEFINE q == <<a, 1>>
    <3> HIDE DEF q
    <3>1. IsFiniteSet(P \cup {q})
          /\ Cardinality(P \cup {q}) = IF q \in P THEN Cardinality(P) ELSE Cardinality(P) + 1
      BY <1>3, FS_AddElement
    <3>2. QED
      BY <1>3, <3>1 DEF q
  <2> HIDE DEF R
  <2>6. Cardinality(Q) <= Cardinality(R) /\ Cardinality(R) \in Nat
    BY <2>4, <2>5, FS_Subset, FS_CardinalityType
  <2>7. Cardinality(Q) <= Cardinality(P) + 1
    BY <1>3, <2>5, <2>6
  <2> DEFINE u == Cardinality(P)
             k == Cardinality(Q)
             s == Uses(e, KidsOf(statements))
  <2>8. /\ u \in Nat /\ k \in Nat /\ s \in Nat /\ k <= u + 1 /\ u <= k
        /\ Uses(e, KidsOf(xs)) = k /\ ExprUses(e) = u + s
        /\ ExprUses(e) \in {0, 1} /\ (ExprUses(e) = 0 => diags # {})
    BY <1>3, <1>4, <1>5, <1>7, <2>7
  <2> HIDE DEF u, k
  <2>9. k + s <= 2 /\ (k + s = 0 => diags # {})
    <3> HIDE DEF s
    <3>1. QED
      BY <2>8
  <2>10. QED
    BY <1>9, <2>8, <2>9
<1>10. QED
  BY <1>8, <1>9

LEMMA TreeAtEnd == ASSUME BuilderInv, TreeInv PROVE ArenaIsTree
<1>1. SUFFICES ASSUME stack = << >>
               PROVE  /\ \A b \in DOMAIN blocks :
                            Uses(b, BodiesOf(functions)) + Uses(b, BlocksOf(statements)) = 1
                      /\ \A s \in DOMAIN statements : Uses(s, blocks) = 1
                      /\ \A e \in DOMAIN exprs :
                            LET uses == Uses(e, KidsOf(exprs)) + Uses(e, KidsOf(statements))
                                assigned == \E a \in DOMAIN exprs :
                                                /\ IsCompound(exprs[a], exprs)
                                                /\ exprs[a].kids[1] = e
                            IN  /\ uses <= IF assigned THEN 2 ELSE 1
                                /\ uses = 0 => diags # {}
  BY DEF ArenaIsTree, Finished
<1>2. /\ DOMAIN blocks = 1..Len(blocks) /\ DOMAIN statements = 1..Len(statements)
      /\ DOMAIN exprs = 1..Len(exprs)
  BY DEF BuilderInv, ModuleOK, StatementsOK, ExprsOK
<1>3. ASSUME NEW b \in 1..Len(blocks)
      PROVE  Uses(b, BodiesOf(functions)) + Uses(b, BlocksOf(statements)) = 1
  <2>1. BlockUses(b) = 1
    BY DEF TreeInv, BlocksOnce
  <2>2. OnStack("block", b) = 0
    BY <1>1, NothingLeft DEF Sorts
  <2>3. Uses(b, BodiesOf(functions)) \in Nat /\ Uses(b, BlocksOf(statements)) \in Nat
    BY UsesAreNumbers
  <2>4. QED
    BY <2>1, <2>2, <2>3 DEF BlockUses
<1>4. ASSUME NEW s \in 1..Len(statements) PROVE Uses(s, blocks) = 1
  <2>1. StatementUses(s) = 1
    BY DEF TreeInv, StatementsOnce
  <2>2. OnStack("statement", s) = 0
    BY <1>1, NothingLeft DEF Sorts
  <2>3. Uses(s, blocks) \in Nat
    BY UsesAreNumbers
  <2>4. QED
    BY <2>1, <2>2, <2>3 DEF StatementUses
<1>5. ASSUME NEW e \in 1..Len(exprs), NEW assigned \in BOOLEAN,
             assigned = \E a \in 1..Len(exprs) :
                            IsCompound(exprs[a], exprs) /\ exprs[a].kids[1] = e
      PROVE  /\ Uses(e, KidsOf(exprs)) + Uses(e, KidsOf(statements))
                    <= IF assigned THEN 2 ELSE 1
             /\ Uses(e, KidsOf(exprs)) + Uses(e, KidsOf(statements)) = 0 => diags # {}
  BY <1>1, <1>5, ExprUsesAtEnd
<1>6. QED
  BY <1>2, <1>3, <1>4, <1>5

(* A module that is done is a forest, whatever the script: BuildSirModule  *)
(* puts each block in one place, each statement in one block, and uses an  *)
(* expression once, but for what a compound assignment assigns to.         *)
THEOREM BuiltArenaIsTree == Spec => []ArenaIsTree
<1>1. BuilderInv /\ TreeInv => ArenaIsTree
  BY TreeAtEnd
<1>2. QED
  BY <1>1, BuilderInvariance, TreeInvariance, PTL
=============================================================================
