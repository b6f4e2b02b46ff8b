------------------------- MODULE ParserReader_proofs -------------------------
(***************************************************************************)
(* Parser uses the token buffer as TokenReader allows (UsesReader), for    *)
(* any source.                                                             *)
(*                                                                         *)
(* The reader's marks are those of the functions that run and of the Trys  *)
(* they are in: AllMarks, read from the stack.  So the lemmas say first    *)
(* what becomes of MarksIn when steps are done, passed over or put in      *)
(* front, and of MarksAlong when a function is called or returns; then     *)
(* which step of the reader a change of the marks, the cursor and the      *)
(* tokens is (ReaderTakes to ReaderPutsBack); and then so for each action  *)
(* (the lemmas that end in `Reads').  To put text back is a step of the    *)
(* reader only if there is a mark for it.  parseScript sets none, and      *)
(* gives nothing back: that is ScriptCalm, an invariant of its own.        *)
(***************************************************************************)
EXTENDS Parser_proofs

(* Induction up to a number, on the set of those it holds of.              *)
LEMMA UpTo ==
    ASSUME NEW n \in Nat, NEW S, 0 \in S, \A i \in 1..n : i - 1 \in S => i \in S
    PROVE  \A i \in 0..n : i \in S
<1> DEFINE T == {i \in 0..n : i \notin S}
<1>1. SUFFICES ASSUME T # {} PROVE FALSE
  OBVIOUS
<1>2. T \in SUBSET Nat
  OBVIOUS
<1>3. Min(T) \in T /\ \A y \in T : Min(T) <= y
  BY <1>1, <1>2, MinIsMinimum
<1>4. Min(T) \in 1..n /\ Min(T) - 1 \in 0..n /\ ~(Min(T) <= Min(T) - 1)
  BY <1>3
<1>5. Min(T) - 1 \in S
  BY <1>3, <1>4
<1>6. QED
  BY <1>3, <1>4, <1>5

(* Sequences that are put together.                                        *)
LEMMA Joins ==
    ASSUME NEW S, NEW a \in Seq(S), NEW b \in Seq(S)
    PROVE  /\ a \o b \in Seq(S) /\ Len(a \o b) = Len(a) + Len(b)
           /\ \A c \in Seq(S) : (a \o b) \o c = a \o (b \o c)
           /\ << >> \o a = a /\ a \o << >> = a
           /\ SubSeq(a \o b, 1, Len(a)) = a
<1>1. a \o b \in Seq(S) /\ Len(a \o b) = Len(a) + Len(b)
  OBVIOUS
<1>2. << >> \o a = a /\ a \o << >> = a
  OBVIOUS
<1>3. ASSUME NEW c \in Seq(S) PROVE (a \o b) \o c = a \o (b \o c)
  BY ConcatAssociative
<1>4. SubSeq(a \o b, 1, Len(a)) = a
  OBVIOUS
<1>5. QED
  BY <1>1, <1>2, <1>3, <1>4

-----------------------------------------------------------------------------
(* The marks in the steps of one function.                                 *)

(* The marks in the steps of a function, read from the last step on.       *)
MarksFrom(steps, f, i) ==
    IF i = Len(steps) + 1 THEN << >>
    ELSE IF steps[i].do = "tried" THEN Append(f[i + 1], steps[i].at)
    ELSE f[i + 1]

ReadsMarks(steps, f, m) ==
    f = [i \in (Len(steps) + 1 - m)..(Len(steps) + 1) |-> MarksFrom(steps, f, i)]

(* MarksIn is read by a recursive function: there is one, by induction on  *)
(* how many steps it reads.                                                *)
LEMMA MarksAreRead ==
    ASSUME NEW steps, Len(steps) \in Nat
    PROVE  \E f : ReadsMarks(steps, f, Len(steps)) /\ MarksIn(steps) = f[1]
<1> DEFINE n == Len(steps)
           S == {m \in 0..n : \E f : ReadsMarks(steps, f, m)}
<1>1. 0 \in S
  <2> DEFINE f == [i \in (n + 1)..(n + 1) |-> << >>]
  <2>1. f = [i \in (n + 1 - 0)..(n + 1) |-> MarksFrom(steps, f, i)]
    <3>1. \A i \in (n + 1)..(n + 1) : i = n + 1
      OBVIOUS
    <3>2. QED
      BY <3>1 DEF MarksFrom
  <2> HIDE DEF f
  <2>2. ReadsMarks(steps, f, 0)
    BY <2>1 DEF ReadsMarks
  <2>3. QED
    BY <2>2
<1>2. ASSUME NEW m \in 1..n, m - 1 \in S PROVE m \in S
  <2>1. PICK f : ReadsMarks(steps, f, m - 1)
    BY <1>2
  <2> DEFINE low == n + 1 - m
             g == [i \in low..(n + 1) |->
                      IF i = low THEN MarksFrom(steps, f, low) ELSE f[i]]
  <2>2. /\ low \in 1..n /\ low + 1 = n + 1 - (m - 1)
        /\ f = [i \in (low + 1)..(n + 1) |-> MarksFrom(steps, f, i)]
    BY <1>2, <2>1 DEF ReadsMarks
  <2>3. g = [i \in low..(n + 1) |-> MarksFrom(steps, g, i)]
    <3>1. ASSUME NEW i \in low..(n + 1) PROVE g[i] = MarksFrom(steps, g, i)
      <4>1. i # n + 1 => i + 1 \in (low + 1)..(n + 1) /\ i + 1 \in low..(n + 1) /\ i + 1 # low
        BY <2>2
      <4>2. i # n + 1 => g[i + 1] = f[i + 1]
        BY <4>1
      <4>3. g[i] = IF i = low THEN MarksFrom(steps, f, i) ELSE f[i]
        OBVIOUS
      <4>4. i # low => i \in (low + 1)..(n + 1)
        BY <2>2
      <4> HIDE DEF g, low
      <4>5. MarksFrom(steps, g, i) = MarksFrom(steps, f, i)
        BY <4>2, Zenon DEF MarksFrom
      <4>6. i # low => f[i] = MarksFrom(steps, f, i)
        BY <2>2, <4>4
      <4>7. QED
        BY <4>3, <4>5, <4>6
    <3>2. QED
      BY <3>1
  <2> HIDE DEF g
  <2>4. QED
    BY <2>3 DEF ReadsMarks
<1>3. n \in S
  <2>1. n \in Nat /\ n \in 0..n
    OBVIOUS
  <2> HIDE DEF S, n
  <2>2. \A m \in 0..n : m \in S
    BY <1>1, <1>2, <2>1, UpTo, Zenon
  <2>3. QED
    BY <2>1, <2>2
<1> DEFINE f == CHOOSE f : f = [i \in 1..(n + 1) |-> MarksFrom(steps, f, i)]
<1>4. \E g : g = [i \in 1..(n + 1) |-> MarksFrom(steps, g, i)]
  BY <1>3 DEF ReadsMarks
<1>5. f = [i \in 1..(n + 1) |-> MarksFrom(steps, f, i)]
  BY <1>4, Zenon
<1>6. MarksIn(steps) = f[1]
  BY DEF MarksIn, MarksFrom
<1> HIDE DEF f
<1>7. ReadsMarks(steps, f, n)
  BY <1>5 DEF ReadsMarks
<1>8. QED
  BY <1>6, <1>7

(* The marks are what the steps have saved.                                *)
MarkedIn(steps, S) ==
    IsSeq(steps) /\ \A i \in 1..Len(steps) : steps[i].do = "tried" => steps[i].at \in S

(* It takes sequences of what the steps have saved for its values.         *)
LEMMA MarksInAre ==
    ASSUME NEW steps, NEW S, MarkedIn(steps, S)
    PROVE  \E f : /\ f \in [1..(Len(steps) + 1) -> Seq(S)]
                  /\ \A i \in 1..(Len(steps) + 1) : f[i] = MarksFrom(steps, f, i)
                  /\ MarksIn(steps) = f[1]
<1> DEFINE n == Len(steps)
<1>1. n \in Nat
  BY DEF MarkedIn, IsSeq
<1>2. PICK f : ReadsMarks(steps, f, n) /\ MarksIn(steps) = f[1]
  BY <1>1, MarksAreRead
<1>3. f = [i \in 1..(n + 1) |-> MarksFrom(steps, f, i)]
  BY <1>1, <1>2 DEF ReadsMarks
<1>4. \A i \in 1..(n + 1) : f[i] = MarksFrom(steps, f, i)
  BY <1>3
<1> DEFINE T == {m \in 0..n : f[n + 1 - m] \in Seq(S)}
<1>5. 0 \in T
  <2>1. f[n + 1] = << >>
    BY <1>1, <1>4 DEF MarksFrom
  <2>2. f[n + 1] \in Seq(S) /\ n + 1 - 0 = n + 1 /\ 0 \in 0..n
    BY <1>1, <2>1
  <2> HIDE DEF n
  <2>3. QED
    BY <2>2, Zenon
<1>6. ASSUME NEW m \in 1..n, m - 1 \in T PROVE m \in T
  <2> DEFINE i == n + 1 - m
  <2>1. i \in 1..n /\ i # n + 1 /\ i + 1 = n + 1 - (m - 1) /\ f[i + 1] \in Seq(S)
    BY <1>1, <1>6
  <2> HIDE DEF i
  <2>2. f[i] = IF steps[i].do = "tried" THEN Append(f[i + 1], steps[i].at) ELSE f[i + 1]
    BY <1>1, <1>4, <2>1 DEF MarksFrom
  <2>3. f[i] \in Seq(S)
    BY <2>1, <2>2 DEF MarkedIn
  <2>4. QED
    BY <2>3 DEF i
<1>7. \A m \in 0..n : m \in T
  BY <1>1, <1>5, <1>6, UpTo
<1>8. ASSUME NEW i \in 1..(n + 1) PROVE f[i] \in Seq(S)
  <2>1. n + 1 - i \in 0..n /\ n + 1 - (n + 1 - i) = i
    BY <1>1
  <2>2. QED
    BY <1>7, <2>1
<1>9. f \in [1..(n + 1) -> Seq(S)]
  BY <1>3, <1>8
<1>10. QED
  BY <1>2, <1>4, <1>9

(* The marks are of what the steps have saved.                             *)
LEMMA MarksTyped ==
    ASSUME NEW steps, NEW S, MarkedIn(steps, S)
    PROVE  MarksIn(steps) \in Seq(S)
<1>1. PICK f : f \in [1..(Len(steps) + 1) -> Seq(S)] /\ MarksIn(steps) = f[1]
  BY MarksInAre
<1>2. Len(steps) \in Nat
  BY DEF MarkedIn, IsSeq
<1>3. QED
  BY <1>1, <1>2

(* The marks of the steps from the q-th on, in the marks of all of them.   *)
LEMMA MarksOfPart ==
    ASSUME NEW steps, NEW S, MarkedIn(steps, S), NEW q \in 1..(Len(steps) + 1),
           NEW f, \A i \in 1..(Len(steps) + 1) : f[i] = MarksFrom(steps, f, i)
    PROVE  MarksIn(SubSeq(steps, q, Len(steps))) = f[q]
<1> DEFINE n == Len(steps)
           part == SubSeq(steps, q, n)
           k == n - q + 1
<1>1. n \in Nat /\ IsSeq(steps) /\ q - 1 \in 0..n /\ n \in (q - 1)..n
  BY DEF MarkedIn, IsSeq
<1>2. IsSeq(part) /\ Len(part) = k /\ \A i \in 1..k : part[i] = steps[q + i - 1]
  BY <1>1, PartSeq
<1>3. k \in 0..n
  BY <1>1
<1> HIDE DEF part
<1>4. MarkedIn(part, S)
  <2>1. \A i \in 1..k : q + i - 1 \in 1..n
    BY <1>1
  <2>2. QED
    BY <1>2, <2>1 DEF MarkedIn
<1>5. PICK g : MarksIn(part) = g[1] /\ \A i \in 1..(k + 1) : g[i] = MarksFrom(part, g, i)
  BY <1>2, <1>4, MarksInAre
<1> DEFINE T == {m \in 0..k : g[k + 1 - m] = f[n + 1 - m]}
<1>6. 0 \in T
  <2>1. g[k + 1] = << >> /\ f[n + 1] = << >>
    <3>1. k + 1 \in 1..(k + 1) /\ n + 1 \in 1..(n + 1)
      BY <1>1, <1>3
    <3>2. g[k + 1] = MarksFrom(part, g, k + 1) /\ f[n + 1] = MarksFrom(steps, f, n + 1)
      BY <1>5, <3>1
    <3> HIDE DEF k
    <3>3. QED
      BY <1>2, <3>2 DEF MarksFrom
  <2>2. k + 1 - 0 = k + 1 /\ n + 1 - 0 = n + 1 /\ 0 \in 0..k
    BY <1>1, <1>3
  <2> HIDE DEF n, k
  <2>3. QED
    BY <2>1, <2>2, Zenon
<1>7. ASSUME NEW m \in 1..k, m - 1 \in T PROVE m \in T
  <2> DEFINE i == k + 1 - m
             j == n + 1 - m
  <2>1. /\ i \in 1..k /\ i \in 1..(k + 1) /\ i # k + 1 /\ i + 1 = k + 1 - (m - 1)
        /\ j \in 1..n /\ j \in 1..(n + 1) /\ j # n + 1 /\ j + 1 = n + 1 - (m - 1)
        /\ j = q + i - 1 /\ m \in 0..k
    BY <1>1, <1>3
  <2>2. g[i + 1] = f[j + 1]
    BY <1>7, <2>1
  <2>3. part[i] = steps[j]
    BY <1>2, <2>1
  <2>4. g[i] = MarksFrom(part, g, i) /\ f[j] = MarksFrom(steps, f, j)
    BY <1>5, <2>1
  <2> HIDE DEF i, j, k
  <2>5. g[i] = f[j]
    BY <1>2, <2>1, <2>2, <2>3, <2>4 DEF MarksFrom
  <2>6. QED
    BY <2>1, <2>5 DEF i, j
<1>8. k \in T
  <2>1. k \in Nat /\ k \in 0..k
    BY <1>3
  <2> HIDE DEF T, k
  <2>2. \A m \in 0..k : m \in T
    BY <1>6, <1>7, <2>1, UpTo, Zenon
  <2>3. QED
    BY <2>1, <2>2
<1>9. k + 1 - k = 1 /\ n + 1 - k = q
  BY <1>1
<1>10. g[1] = f[q]
  <2>1. g[k + 1 - k] = f[n + 1 - k]
    BY <1>8
  <2>2. QED
    BY <1>9, <2>1
<1>11. QED
  BY <1>5, <1>10 DEF part

(* A sequence that is the beginning of another one.                        *)
Begins(a, b) == Len(a) <= Len(b) /\ a = SubSeq(b, 1, Len(a))

(* How sequences begin that are put together.                              *)
LEMMA Beginnings ==
    ASSUME NEW S, NEW a \in Seq(S), NEW b \in Seq(S)
    PROVE  /\ Begins(a, a)
           /\ \A x \in S : Begins(a, b) => Begins(a, Append(b, x))
           /\ Begins(a, a \o b)
           /\ \A c \in Seq(S) : Begins(a, b) => Begins(c \o a, c \o b)
<1>1. Begins(a, a) /\ Begins(a, a \o b)
  BY DEF Begins
<1>2. ASSUME NEW x \in S, Begins(a, b) PROVE Begins(a, Append(b, x))
  <2>1. Append(b, x) \in Seq(S) /\ Len(Append(b, x)) = Len(b) + 1
    OBVIOUS
  <2>2. \A i \in 1..Len(a) : i \in 1..Len(b) /\ Append(b, x)[i] = a[i]
    BY <1>2 DEF Begins
  <2>3. SubSeq(Append(b, x), 1, Len(a)) = a
    BY <1>2, <2>1, <2>2 DEF Begins
  <2>4. QED
    BY <1>2, <2>1, <2>3 DEF Begins
<1>3. ASSUME NEW c \in Seq(S), Begins(a, b) PROVE Begins(c \o a, c \o b)
  <2>1. /\ c \o b \in Seq(S) /\ Len(c \o b) = Len(c) + Len(b)
        /\ c \o a \in Seq(S) /\ Len(c \o a) = Len(c) + Len(a) /\ Len(a) <= Len(b)
    BY <1>3 DEF Begins
  <2>2. \A i \in 1..Len(a) : a[i] = b[i]
    BY <1>3 DEF Begins
  <2>3. ASSUME NEW i \in 1..(Len(c) + Len(a)) PROVE (c \o a)[i] = (c \o b)[i]
    BY <2>1, <2>2
  <2>4. SubSeq(c \o b, 1, Len(c \o a)) = c \o a
    BY <2>1, <2>3
  <2>5. QED
    BY <2>1, <2>4 DEF Begins
<1>4. QED
  BY <1>1, <1>2, <1>3

(* Steps that are passed over take their marks with them.                  *)
LEMMA MarksPassed ==
    ASSUME NEW steps, NEW S, MarkedIn(steps, S), NEW q \in 1..(Len(steps) + 1)
    PROVE  LET part == SubSeq(steps, q, Len(steps)) IN
           /\ MarksIn(part) \in Seq(S)
           /\ Begins(MarksIn(part), MarksIn(steps))
           /\ (\A j \in 1..(q - 1) : steps[j].do # "tried") => MarksIn(part) = MarksIn(steps)
           /\ (q > 1 /\ steps[q - 1].do = "tried"
               /\ \A j \in 1..(q - 2) : steps[j].do # "tried") =>
                  MarksIn(steps) = Append(MarksIn(part), steps[q - 1].at)
<1> DEFINE n == Len(steps)
           part == SubSeq(steps, q, Len(steps))
<1>1. PICK f : /\ f \in [1..(n + 1) -> Seq(S)]
               /\ \A i \in 1..(n + 1) : f[i] = MarksFrom(steps, f, i)
               /\ MarksIn(steps) = f[1]
  BY MarksInAre
<1>2. n \in Nat /\ \A i \in 1..n : steps[i].do = "tried" => steps[i].at \in S
  BY DEF MarkedIn, IsSeq
<1>3. MarksIn(part) = f[q]
  BY <1>1, MarksOfPart
<1>4. f[q] \in Seq(S)
  BY <1>1
<1>5. \A i \in 1..n : f[i] = IF steps[i].do = "tried" THEN Append(f[i + 1], steps[i].at)
                             ELSE f[i + 1]
  <2>1. \A i \in 1..n : i \in 1..(n + 1) /\ i # n + 1
    BY <1>2
  <2>2. QED
    BY <1>1, <2>1 DEF MarksFrom
<1> HIDE DEF n
<1>6. ASSUME NEW p \in 1..(n + 1), \A j \in 1..(p - 1) : steps[j].do # "tried"
      PROVE  f[1] = f[p]
  <2> DEFINE T == {m \in 0..(p - 1) : f[m + 1] = f[1]}
  <2>1. 0 \in T /\ p - 1 \in Nat
    BY <1>2
  <2>2. ASSUME NEW m \in 1..(p - 1), m - 1 \in T PROVE m \in T
    <3>1. m \in 1..n /\ (m - 1) + 1 = m /\ m \in 0..(p - 1)
      BY <1>2
    <3>2. f[m] = f[m + 1] /\ f[m] = f[1]
      BY <1>5, <1>6, <2>2, <3>1
    <3>3. QED
      BY <3>1, <3>2
  <2>3. p - 1 \in T
    <3>1. p - 1 \in 0..(p - 1)
      BY <2>1
    <3> HIDE DEF T
    <3>2. \A m \in 0..(p - 1) : m \in T
      BY <2>1, <2>2, UpTo, Zenon
    <3>3. QED
      BY <3>1, <3>2
  <2>4. (p - 1) + 1 = p
    BY <1>2
  <2>5. QED
    BY <2>3, <2>4
<1>7. Begins(f[q], f[1])
  <2> DEFINE T == {m \in 0..(q - 1) : Begins(f[q], f[q - m])}
  <2>1. q - 1 \in Nat /\ q - 0 = q /\ Begins(f[q], f[q])
    BY <1>2, <1>4, Beginnings
  <2>2. 0 \in T
    BY <2>1
  <2>3. ASSUME NEW m \in 1..(q - 1), m - 1 \in T PROVE m \in T
    <3>1. /\ q - m \in 1..n /\ q - m \in 1..(n + 1) /\ q - (m - 1) = (q - m) + 1
          /\ (q - m) + 1 \in 1..(n + 1) /\ m \in 0..(q - 1)
      BY <1>2 DEF n
    <3>2. Begins(f[q], f[(q - m) + 1])
      BY <2>3, <3>1
    <3>3. f[(q - m) + 1] \in Seq(S)
      BY <1>1, <3>1
    <3>4. Begins(f[q], f[q - m])
      <4> DEFINE i == q - m
      <4>1. /\ f[i] = IF steps[i].do = "tried" THEN Append(f[i + 1], steps[i].at) ELSE f[i + 1]
            /\ steps[i].do = "tried" => steps[i].at \in S
        BY <1>2, <1>5, <3>1
      <4> HIDE DEF i
      <4>2. QED
        BY <1>4, <3>2, <3>3, <4>1, Beginnings DEF i
    <3>5. QED
      BY <3>1, <3>4
  <2>4. q - 1 \in T
    <3>1. q - 1 \in 0..(q - 1)
      BY <2>1
    <3> HIDE DEF T
    <3>2. \A m \in 0..(q - 1) : m \in T
      BY <2>1, <2>2, <2>3, UpTo, Zenon
    <3>3. QED
      BY <3>1, <3>2
  <2>5. q - (q - 1) = 1
    BY <1>2
  <2>6. QED
    BY <2>4, <2>5
<1>8. ASSUME q > 1, steps[q - 1].do = "tried", \A j \in 1..(q - 2) : steps[j].do # "tried"
      PROVE  f[1] = Append(f[q], steps[q - 1].at)
  <2>1. q - 1 \in 1..n /\ q - 1 \in 1..(n + 1) /\ (q - 1) + 1 = q /\ (q - 1) - 1 = q - 2
    BY <1>2, <1>8 DEF n
  <2>2. f[1] = f[q - 1]
    BY <1>6, <1>8, <2>1
  <2>3. QED
    BY <1>5, <1>8, <2>1, <2>2
<1>9. (\A j \in 1..(q - 1) : steps[j].do # "tried") => f[q] = f[1]
  BY <1>6 DEF n
<1>10. QED
  BY <1>1, <1>3, <1>4, <1>7, <1>8, <1>9

(* The marks of what is put in front of the steps left.                    *)
LEMMA MarksBefore ==
    ASSUME NEW front, IsSeq(front), \A j \in 1..Len(front) : front[j].do # "tried",
           NEW rest, NEW S, MarkedIn(rest, S)
    PROVE  /\ MarkedIn(front \o rest, S) /\ MarksIn(front \o rest) = MarksIn(rest)
<1> DEFINE steps == front \o rest
           q == Len(front) + 1
<1>1. /\ IsSeq(rest) /\ Len(front) \in Nat /\ Len(rest) \in Nat
      /\ \A i \in 1..Len(rest) : rest[i].do = "tried" => rest[i].at \in S
  BY DEF MarkedIn, IsSeq
<1>2. /\ IsSeq(steps) /\ Len(steps) = Len(front) + Len(rest)
      /\ \A i \in 1..Len(front) : steps[i] = front[i]
      /\ \A i \in 1..Len(rest) : steps[Len(front) + i] = rest[i]
  BY <1>1, JoinedSeq
<1> HIDE DEF steps
<1>3. ASSUME NEW i \in 1..Len(steps), steps[i].do = "tried" PROVE steps[i].at \in S
  <2>1. i \in 1..Len(front) \/ (i - Len(front) \in 1..Len(rest) /\ Len(front) + (i - Len(front)) = i)
    BY <1>1, <1>2
  <2>2. QED
    BY <1>1, <1>2, <1>3, <2>1
<1>4. MarkedIn(steps, S)
  BY <1>2, <1>3 DEF MarkedIn
<1>5. q \in 1..(Len(steps) + 1) /\ q - 1 = Len(front) /\ Len(steps) \in (q - 1)..Len(steps)
  BY <1>1, <1>2
<1>6. SubSeq(steps, q, Len(steps)) = rest
  <2>1. /\ IsSeq(SubSeq(steps, q, Len(steps)))
        /\ Len(SubSeq(steps, q, Len(steps))) = Len(steps) - q + 1
        /\ \A i \in 1..(Len(steps) - q + 1) : SubSeq(steps, q, Len(steps))[i] = steps[q + i - 1]
    BY <1>2, <1>5, PartSeq
  <2>2. Len(steps) - q + 1 = Len(rest) /\ \A i \in 1..Len(rest) : q + i - 1 = Len(front) + i
    BY <1>1, <1>2
  <2> DEFINE t == SubSeq(steps, q, Len(steps))
  <2> HIDE DEF q
  <2>3. IsSeq(t) /\ Len(t) = Len(rest) /\ \A i \in 1..Len(t) : t[i] = rest[i]
    BY <1>2, <2>1, <2>2
  <2> HIDE DEF t
  <2>4. t = rest
    BY <1>1, <2>3, SameSeq
  <2>5. QED
    BY <2>4 DEF t
<1>7. MarksIn(steps) = MarksIn(rest)
  <2>1. \A j \in 1..(q - 1) : steps[j].do # "tried"
    BY <1>2, <1>5
  <2> HIDE DEF q
  <2>2. QED
    BY <1>4, <1>5, <1>6, <2>1, MarksPassed
<1>8. QED
  BY <1>4, <1>7 DEF steps

(* A mark that is put in front of them.                                    *)
LEMMA MarkBefore ==
    ASSUME NEW m, m.do = "tried", NEW rest, NEW S, MarkedIn(rest, S), m.at \in S
    PROVE  /\ MarkedIn(<<m>> \o rest, S)
           /\ MarksIn(<<m>> \o rest) = Append(MarksIn(rest), m.at)
<1> DEFINE steps == <<m>> \o rest
<1>1. /\ IsSeq(rest) /\ Len(rest) \in Nat
      /\ \A i \in 1..Len(rest) : rest[i].do = "tried" => rest[i].at \in S
      /\ IsSeq(<<m>>) /\ Len(<<m>>) = 1 /\ <<m>>[1] = m
  BY OneSeq DEF MarkedIn, IsSeq
<1>2. /\ IsSeq(steps) /\ Len(steps) = 1 + Len(rest) /\ steps[1] = m
      /\ \A i \in 1..Len(rest) : steps[1 + i] = rest[i]
  BY <1>1, JoinedSeq
<1> HIDE DEF steps
<1>3. ASSUME NEW i \in 1..Len(steps), steps[i].do = "tried" PROVE steps[i].at \in S
  <2>1. i = 1 \/ (i - 1 \in 1..Len(rest) /\ 1 + (i - 1) = i)
    BY <1>1, <1>2
  <2>2. QED
    BY <1>1, <1>2, <1>3, <2>1
<1>4. MarkedIn(steps, S)
  BY <1>2, <1>3 DEF MarkedIn
<1>5. 2 \in 1..(Len(steps) + 1) /\ 2 > 1 /\ 2 - 1 = 1 /\ Len(steps) \in 1..Len(steps) /\ 1..0 = {}
  BY <1>1, <1>2
<1>6. SubSeq(steps, 2, Len(steps)) = rest
  <2>1. /\ IsSeq(SubSeq(steps, 2, Len(steps)))
        /\ Len(SubSeq(steps, 2, Len(steps))) = Len(steps) - 2 + 1
        /\ \A i \in 1..(Len(steps) - 2 + 1) : SubSeq(steps, 2, Len(steps))[i] = steps[2 + i - 1]
    BY <1>2, <1>5, PartSeq
  <2>2. Len(steps) - 2 + 1 = Len(rest) /\ \A i \in 1..Len(rest) : 2 + i - 1 = 1 + i
    BY <1>1, <1>2
  <2> DEFINE t == SubSeq(steps, 2, Len(steps))
  <2>3. IsSeq(t) /\ Len(t) = Len(rest) /\ \A i \in 1..Len(t) : t[i] = rest[i]
    BY <1>2, <2>1, <2>2
  <2> HIDE DEF t
  <2>4. t = rest
    BY <1>1, <2>3, SameSeq
  <2>5. QED
    BY <2>4 DEF t
<1>7. MarksIn(steps) = Append(MarksIn(rest), m.at)
  <2>1. \A j \in 1..(2 - 2) : steps[j].do # "tried"
    OBVIOUS
  <2>2. steps[2 - 1].do = "tried" /\ steps[2 - 1].at = m.at
    BY <1>2, <1>5
  <2>3. QED
    BY <1>4, <1>5, <1>6, <2>1, <2>2, MarksPassed
<1>8. QED
  BY <1>4, <1>7 DEF steps

-----------------------------------------------------------------------------
(* The marks of all functions that run.                                    *)

(* The marks along the stack, read from the bottom.                        *)
MarksTo(st, f, k) == IF k <= 1 THEN << >> ELSE f[k - 1] \o MarksOf(st[k])

(* MarksAlong is read by a recursive function: there is one, likewise.     *)
LEMMA AlongIs ==
    ASSUME NEW st, Len(st) \in Nat
    PROVE  \E f : /\ \A k \in 0..Len(st) : f[k] = MarksTo(st, f, k)
                  /\ MarksAlong(st) = f[Len(st)]
<1> DEFINE n == Len(st)
           ReadTo(f, m) == f = [k \in 0..m |-> MarksTo(st, f, k)]
           S == {m \in 0..n : \E f : ReadTo(f, m)}
<1>1. 0 \in S
  <2> DEFINE f == [k \in 0..0 |-> << >>]
  <2>1. f = [k \in 0..0 |-> MarksTo(st, f, k)]
    BY DEF MarksTo
  <2> HIDE DEF f
  <2>2. ReadTo(f, 0)
    BY <2>1
  <2> HIDE DEF ReadTo
  <2>3. QED
    BY <2>2
<1>2. ASSUME NEW m \in 1..n, m - 1 \in S PROVE m \in S
  <2>1. PICK f : f = [k \in 0..(m - 1) |-> MarksTo(st, f, k)]
    BY <1>2
  <2> DEFINE g == [k \in 0..m |-> IF k = m THEN MarksTo(st, f, m) ELSE f[k]]
  <2>2. ASSUME NEW k \in 0..m PROVE g[k] = MarksTo(st, g, k)
    <3>1. k > 1 => k - 1 \in 0..(m - 1) /\ k - 1 \in 0..m /\ k - 1 # m
      OBVIOUS
    <3>2. k > 1 => g[k - 1] = f[k - 1]
      BY <3>1
    <3>3. g[k] = IF k = m THEN MarksTo(st, f, k) ELSE f[k]
      OBVIOUS
    <3>4. k # m => f[k] = MarksTo(st, f, k)
      BY <2>1
    <3>5. k <= 1 \/ k > 1
      OBVIOUS
    <3> HIDE DEF g
    <3>6. MarksTo(st, g, k) = MarksTo(st, f, k)
      BY <3>2, <3>5, Zenon DEF MarksTo
    <3>7. QED
      BY <3>3, <3>4, <3>6
  <2>3. g = [k \in 0..m |-> MarksTo(st, g, k)]
    BY <2>2
  <2> HIDE DEF g
  <2>4. ReadTo(g, m)
    BY <2>3
  <2>5. m \in 0..n
    OBVIOUS
  <2> HIDE DEF ReadTo
  <2>6. QED
    BY <2>4, <2>5
<1>3. n \in S
  <2>1. n \in Nat /\ n \in 0..n
    OBVIOUS
  <2> HIDE DEF S, n
  <2>2. \A m \in 0..n : m \in S
    BY <1>1, <1>2, <2>1, UpTo, Zenon
  <2>3. QED
    BY <2>1, <2>2
<1> DEFINE f == CHOOSE f : f = [k \in 0..n |-> MarksTo(st, f, k)]
<1>4. \E g : g = [k \in 0..n |-> MarksTo(st, g, k)]
  BY <1>3
<1>5. f = [k \in 0..n |-> MarksTo(st, f, k)]
  BY <1>4, Zenon
<1>6. MarksAlong(st) = f[n]
  BY DEF MarksAlong, MarksTo
<1> HIDE DEF f
<1>7. \A k \in 0..n : f[k] = MarksTo(st, f, k)
  BY <1>5
<1>8. QED
  BY <1>6, <1>7

(* Two stacks have the same marks as far as their functions have.          *)
LEMMA AlongAgrees ==
    ASSUME NEW st, NEW t, NEW n \in Nat, n <= Len(st), n <= Len(t),
           Len(st) \in Nat, Len(t) \in Nat,
           \A k \in 2..n : MarksOf(st[k]) = MarksOf(t[k]),
           NEW f, \A k \in 0..Len(st) : f[k] = MarksTo(st, f, k),
           NEW g, \A k \in 0..Len(t) : g[k] = MarksTo(t, g, k)
    PROVE  f[n] = g[n]
<1> DEFINE T == {k \in 0..n : f[k] = g[k]}
<1>1. 0 \in T
  BY DEF MarksTo
<1>2. ASSUME NEW k \in 1..n, k - 1 \in T PROVE k \in T
  <2>1. k \in 0..Len(st) /\ k \in 0..Len(t) /\ k \in 0..n /\ (k <= 1 \/ k \in 2..n)
    OBVIOUS
  <2>2. f[k] = MarksTo(st, f, k) /\ g[k] = MarksTo(t, g, k) /\ f[k - 1] = g[k - 1]
    BY <1>2, <2>1
  <2>3. f[k] = g[k]
    BY <2>1, <2>2 DEF MarksTo
  <2>4. QED
    BY <2>1, <2>3
<1>3. n \in T
  <2>1. n \in 0..n
    OBVIOUS
  <2> HIDE DEF T
  <2>2. \A m \in 0..n : m \in T
    BY <1>1, <1>2, UpTo, Zenon
  <2>3. QED
    BY <2>1, <2>2
<1>4. QED
  BY <1>3

(* Marks of stacks that are the same, or that begin alike.                 *)
LEMMA AlongSame ==
    ASSUME NEW st, NEW t, IsSeq(st), IsSeq(t), Len(st) = Len(t),
           \A k \in 2..Len(st) : MarksOf(st[k]) = MarksOf(t[k])
    PROVE  MarksAlong(st) = MarksAlong(t)
<1>1. Len(st) \in Nat /\ Len(t) \in Nat
  BY DEF IsSeq
<1>2. PICK f : /\ \A k \in 0..Len(st) : f[k] = MarksTo(st, f, k)
               /\ MarksAlong(st) = f[Len(st)]
  BY <1>1, AlongIs
<1>3. PICK g : /\ \A k \in 0..Len(t) : g[k] = MarksTo(t, g, k)
               /\ MarksAlong(t) = g[Len(t)]
  BY <1>1, AlongIs
<1>4. f[Len(st)] = g[Len(st)]
  BY <1>1, <1>2, <1>3, AlongAgrees
<1>5. QED
  BY <1>2, <1>3, <1>4

(* The marks are those of the function on top, behind those below it.      *)
LEMMA AlongLast ==
    ASSUME NEW st, IsSeq(st)
    PROVE  /\ Len(st) <= 1 => MarksAlong(st) = << >>
           /\ Len(st) > 1 =>
                 MarksAlong(st) = MarksAlong(SubSeq(st, 1, Len(st) - 1)) \o MarksOf(st[Len(st)])
<1> DEFINE n == Len(st)
           t == SubSeq(st, 1, n - 1)
<1>1. n \in Nat
  BY DEF IsSeq
<1>2. PICK f : (\A k \in 0..n : f[k] = MarksTo(st, f, k)) /\ MarksAlong(st) = f[n]
  BY <1>1, AlongIs
<1>3. f[n] = MarksTo(st, f, n)
  BY <1>1, <1>2
<1>4. n <= 1 => MarksAlong(st) = << >>
  BY <1>2, <1>3 DEF MarksTo
<1>5. ASSUME n > 1 PROVE MarksAlong(st) = MarksAlong(t) \o MarksOf(st[n])
  <2>1. 1 \in 1..(n + 1) /\ n - 1 \in (1 - 1)..n /\ (n - 1) - 1 + 1 = n - 1 /\ n - 1 \in Nat
    BY <1>1, <1>5
  <2>2. IsSeq(t) /\ Len(t) = n - 1 /\ \A i \in 1..(n - 1) : t[i] = st[1 + i - 1]
    <3>1. /\ IsSeq(t) /\ Len(t) = (n - 1) - 1 + 1
          /\ \A i \in 1..((n - 1) - 1 + 1) : t[i] = st[1 + i - 1]
      BY <2>1, PartSeq
    <3>2. QED
      BY <2>1, <3>1
  <2> HIDE DEF t
  <2>3. \A k \in 2..(n - 1) : t[k] = st[k]
    BY <1>1, <2>2
  <2>4. PICK g : (\A k \in 0..Len(t) : g[k] = MarksTo(t, g, k)) /\ MarksAlong(t) = g[Len(t)]
    BY <2>1, <2>2, AlongIs
  <2>5. f[n - 1] = g[n - 1]
    <3>1. n - 1 <= Len(st) /\ n - 1 <= Len(t) /\ Len(st) \in Nat /\ Len(t) \in Nat
      BY <1>1, <2>1, <2>2
    <3>2. \A k \in 2..(n - 1) : MarksOf(st[k]) = MarksOf(t[k])
      BY <2>3
    <3>3. \A k \in 0..Len(st) : f[k] = MarksTo(st, f, k)
      BY <1>2
    <3> DEFINE m == n - 1
    <3>4. /\ m \in Nat /\ m <= Len(st) /\ m <= Len(t)
          /\ \A k \in 2..m : MarksOf(st[k]) = MarksOf(t[k])
      BY <2>1, <3>1, <3>2
    <3> HIDE DEF m, n
    <3>5. f[m] = g[m]
      BY <2>4, <3>1, <3>3, <3>4, AlongAgrees
    <3>6. QED
      BY <3>5 DEF m
  <2>6. f[n] = f[n - 1] \o MarksOf(st[n])
    <3>1. ~(n <= 1)
      BY <1>1, <1>5
    <3> HIDE DEF n
    <3>2. QED
      BY <1>3, <3>1 DEF MarksTo
  <2>7. QED
    BY <1>2, <2>2, <2>4, <2>5, <2>6
<1>6. QED
  BY <1>4, <1>5

(* The marks are of what the functions have saved.                         *)
LEMMA AlongTyped ==
    ASSUME NEW st, IsSeq(st), NEW S, \A k \in 2..Len(st) : MarksOf(st[k]) \in Seq(S)
    PROVE  MarksAlong(st) \in Seq(S)
<1> DEFINE n == Len(st)
<1>1. n \in Nat
  BY DEF IsSeq
<1>2. PICK f : (\A k \in 0..n : f[k] = MarksTo(st, f, k)) /\ MarksAlong(st) = f[n]
  BY <1>1, AlongIs
<1> DEFINE T == {k \in 0..n : f[k] \in Seq(S)}
<1>3. 0 \in T
  <2>1. 0 \in 0..n
    BY <1>1
  <2>2. f[0] = << >>
    BY <1>2, <2>1 DEF MarksTo
  <2>3. << >> \in Seq(S)
    OBVIOUS
  <2>4. f[0] \in Seq(S)
    BY <2>2, <2>3
  <2>5. QED
    BY <2>1, <2>4
<1>4. ASSUME NEW k \in 1..n, k - 1 \in T PROVE k \in T
  <2>1. k \in 0..n /\ (k <= 1 \/ k \in 2..n)
    BY <1>1
  <2>2. f[k] = MarksTo(st, f, k) /\ f[k - 1] \in Seq(S)
    BY <1>2, <1>4, <2>1
  <2>3. f[k] \in Seq(S)
    BY <2>1, <2>2 DEF MarksTo
  <2>4. QED
    BY <2>1, <2>3
<1>5. n \in T
  <2>1. n \in 0..n
    BY <1>1
  <2> HIDE DEF T, n
  <2>2. \A m \in 0..n : m \in T
    BY <1>1, <1>3, <1>4, UpTo, Zenon
  <2>3. QED
    BY <2>1, <2>2
<1>6. QED
  BY <1>2, <1>5

-----------------------------------------------------------------------------
(* The text from a token on.                                               *)

(* The characters of the tokens from the (c + 1)-th on.                    *)
TextFrom(ts, c) == UNION {Chars(ts[i]) : i \in (c + 1)..Len(ts)}

LEMMA InTextFrom ==
    ASSUME NEW ts, NEW c, NEW p
    PROVE  p \in TextFrom(ts, c) <=> \E i \in (c + 1)..Len(ts) : p \in Chars(ts[i])
BY DEF TextFrom

(* The characters of a token.                                              *)
LEMMA CharsAre ==
    ASSUME NEW t, t.offset \in Nat, EndOf(t) \in Nat, NEW p
    PROVE  p \in Chars(t) <=> p \in Nat /\ t.offset <= p /\ p < EndOf(t)
BY DEF Chars

(* What is taken comes before what is left, and is not nothing.            *)
LEMMA TextShrinks ==
    ASSUME NEW ts, WellLexed(ts), NEW c \in Nat, NEW d \in 0..(Len(ts) - 1), c < d
    PROVE  /\ TextFrom(ts, d) \subseteq TextFrom(ts, c)
           /\ TextFrom(ts, d) # TextFrom(ts, c)
           /\ \A p \in TextFrom(ts, c) \ TextFrom(ts, d), q \in TextFrom(ts, d) : p < q
<1> DEFINE n == Len(ts)
<1>1. n \in Nat /\ d \in Nat /\ c + 1 \in 1..d /\ d \in 1..n
  BY LexedLength
<1>2. ASSUME NEW i \in 1..n, NEW p \in Chars(ts[i])
      PROVE  p \in Nat /\ ts[i].offset <= p /\ p < EndOf(ts[i])
  BY <1>2, CharsAre, LexedToken
<1>3. ASSUME NEW p \in TextFrom(ts, d) PROVE p \in TextFrom(ts, c)
  <2>1. PICK i \in (d + 1)..n : p \in Chars(ts[i])
    BY <1>3, InTextFrom
  <2>2. i \in (c + 1)..n
    BY <1>1
  <2>3. QED
    BY <2>1, <2>2, InTextFrom
<1>4. ASSUME NEW i \in (c + 1)..d, NEW p \in Chars(ts[i]), NEW q \in TextFrom(ts, d)
      PROVE  p < q
  <2>1. PICK j \in (d + 1)..n : q \in Chars(ts[j])
    BY <1>4, InTextFrom
  <2>2. i \in 1..n /\ j \in 1..n /\ i < j
    BY <1>1
  <2>3. EndOf(ts[i]) <= ts[j].offset /\ EndOf(ts[i]) \in Nat /\ ts[j].offset \in Nat
    BY <2>2, LexedOrder, LexedToken
  <2>4. p \in Nat /\ p < EndOf(ts[i]) /\ q \in Nat /\ ts[j].offset <= q
    BY <1>2, <2>1, <2>2, <1>4
  <2>5. QED
    BY <2>3, <2>4
<1>5. ASSUME NEW p \in TextFrom(ts, c) \ TextFrom(ts, d), NEW q \in TextFrom(ts, d)
      PROVE  p < q
  <2>1. PICK i \in (c + 1)..n : p \in Chars(ts[i])
    BY <1>5, InTextFrom
  <2>2. i \notin (d + 1)..n
    BY <1>5, <2>1, InTextFrom
  <2>3. i \in (c + 1)..d
    BY <1>1, <2>2
  <2>4. QED
    BY <1>4, <1>5, <2>1, <2>3
<1>6. TextFrom(ts, d) # TextFrom(ts, c)
  <2> DEFINE t == ts[c + 1]
  <2>1. c + 1 \in 1..n /\ c + 1 # n /\ c + 1 \in (c + 1)..n /\ c + 1 \in (c + 1)..d
    BY <1>1
  <2>2. t.offset \in Nat /\ t.length \in Nat /\ EndOf(t) \in Nat
    BY <2>1, LexedToken
  <2>3. t.length # 0
    BY <2>1 DEF WellLexed
  <2>4. t.offset < EndOf(t)
    BY <2>2, <2>3 DEF EndOf
  <2>5. t.offset \in Chars(t)
    BY <2>2, <2>4, CharsAre
  <2>6. t.offset \in TextFrom(ts, c)
    BY <2>1, <2>5, InTextFrom
  <2>7. t.offset \notin TextFrom(ts, d)
    <3>1. SUFFICES ASSUME t.offset \in TextFrom(ts, d) PROVE FALSE
      OBVIOUS
    <3>2. t.offset < t.offset
      BY <1>4, <2>1, <2>5, <3>1
    <3>3. QED
      BY <2>2, <3>2
  <2>8. QED
    BY <2>6, <2>7
<1>7. QED
  BY <1>3, <1>5, <1>6

(* A split takes nothing from the text and adds nothing to it.             *)
LEMMA SplitText ==
    ASSUME WellLexed(tokens), cursor \in 0..(Len(tokens) - 1), Cur.text \in DOMAIN AfterGt,
           NEW m \in 0..cursor
    PROVE  TextFrom(Split, m) = TextFrom(tokens, m)
<1> DEFINE n == Len(tokens)
           k == cursor + 1
<1>1. /\ n \in Nat /\ cursor \in Nat /\ m \in Nat /\ m <= cursor /\ k \in 1..n
      /\ k \in (m + 1)..n
  BY LexedLength
<1>2. /\ Len(Split) = n + 1
      /\ \A i \in 1..cursor : Split[i] = tokens[i]
      /\ Split[k] = [Cur EXCEPT !.text = ">", !.length = 1]
      /\ Split[k + 1] = [Cur EXCEPT !.text = AfterGt[Cur.text], !.offset = @ + 1,
                                    !.length = @ - 1]
      /\ \A i \in (cursor + 3)..(n + 1) : Split[i] = tokens[i - 1]
  <2>1. k + 1 = cursor + 2
    BY <1>1
  <2>2. QED
    BY <2>1, SplitParts, Zenon
<1>3. Cur \in Token_ /\ Cur = tokens[k] /\ Cur.offset \in Nat /\ Cur.length \in Nat
  BY <1>1, LexedToken DEF Cur
<1>4. Cur.length >= 2
  <2>1. tokens[k].text \in DOMAIN AfterGt => tokens[k].length = GtWidth(tokens[k].text)
    BY <1>1 DEF WellLexed
  <2>2. QED
    BY <1>3, <2>1, AfterGtIs
<1> DEFINE x == Split[k]
           y == Split[k + 1]
           u == Cur
<1>5. /\ x.offset = u.offset /\ x.length = 1
      /\ y.offset = u.offset + 1 /\ y.length = u.length - 1
  <2>1. /\ x = [u EXCEPT !.text = ">", !.length = 1] /\ u \in Token_
        /\ y = [u EXCEPT !.text = AfterGt[u.text], !.offset = @ + 1, !.length = @ - 1]
    BY <1>2, <1>3
  <2> HIDE DEF x, y, u
  <2>2. QED
    BY <2>1 DEF Token_
<1>6. Chars(x) \cup Chars(y) = Chars(tokens[k])
  <2>1. Chars(x) = u.offset..u.offset
    <3>1. EndOf(x) - 1 = u.offset
      BY <1>3, <1>5 DEF EndOf
    <3> HIDE DEF x, u
    <3>2. QED
      BY <1>5, <3>1 DEF Chars
  <2>2. Chars(y) = (u.offset + 1)..(u.offset + u.length - 1)
    <3>1. EndOf(y) - 1 = u.offset + u.length - 1
      BY <1>3, <1>5 DEF EndOf
    <3> HIDE DEF y, u
    <3>2. QED
      BY <1>5, <3>1 DEF Chars
  <2>3. Chars(tokens[k]) = u.offset..(u.offset + u.length - 1)
    BY <1>3 DEF Chars, EndOf
  <2> HIDE DEF x, y, u
  <2>4. u.offset \in Nat /\ u.length \in Nat /\ u.length >= 2
    BY <1>3, <1>4 DEF u
  <2>5. u.offset..(u.offset + u.length - 1)
           = u.offset..u.offset \cup (u.offset + 1)..(u.offset + u.length - 1)
    BY <2>4
  <2>6. QED
    BY <2>1, <2>2, <2>3, <2>5
<1>7. ASSUME NEW p \in TextFrom(tokens, m) PROVE p \in TextFrom(Split, m)
  <2>1. PICK i \in (m + 1)..n : p \in Chars(tokens[i])
    BY <1>7, InTextFrom
  <2>2. CASE i < k
    <3>1. i \in 1..cursor /\ i \in (m + 1)..(n + 1)
      BY <1>1, <2>2
    <3>2. Split[i] = tokens[i]
      BY <1>2, <3>1
    <3>3. QED
      BY <1>2, <2>1, <3>1, <3>2, InTextFrom
  <2>3. CASE i = k
    <3>1. k \in (m + 1)..(n + 1) /\ k + 1 \in (m + 1)..(n + 1)
      BY <1>1
    <3>2. p \in Chars(x) \/ p \in Chars(y)
      BY <1>6, <2>1, <2>3
    <3>3. QED
      BY <1>2, <3>1, <3>2, InTextFrom
  <2>4. CASE i > k
    <3>1. i + 1 \in (cursor + 3)..(n + 1) /\ i + 1 - 1 = i /\ i + 1 \in (m + 1)..(n + 1)
      BY <1>1, <2>4
    <3>2. Split[i + 1] = tokens[i]
      BY <1>2, <3>1
    <3>3. QED
      BY <1>2, <2>1, <3>1, <3>2, InTextFrom
  <2>5. QED
    BY <1>1, <2>2, <2>3, <2>4
<1>8. ASSUME NEW p \in TextFrom(Split, m) PROVE p \in TextFrom(tokens, m)
  <2>1. PICK i \in (m + 1)..(n + 1) : p \in Chars(Split[i])
    BY <1>2, <1>8, InTextFrom
  <2>2. CASE i < k
    <3>1. i \in 1..cursor /\ i \in (m + 1)..n
      BY <1>1, <2>2
    <3>2. Split[i] = tokens[i]
      BY <1>2, <3>1
    <3>3. QED
      BY <2>1, <3>1, <3>2, InTextFrom
  <2>3. CASE i = k \/ i = k + 1
    <3>1. p \in Chars(tokens[k])
      BY <1>6, <2>1, <2>3
    <3>2. QED
      BY <1>1, <3>1, InTextFrom
  <2>4. CASE i > k + 1
    <3>1. i \in (cursor + 3)..(n + 1) /\ i - 1 \in (m + 1)..n
      BY <1>1, <2>4
    <3>2. Split[i] = tokens[i - 1]
      BY <1>2, <3>1
    <3>3. QED
      BY <2>1, <3>1, <3>2, InTextFrom
  <2>5. QED
    BY <1>1, <2>2, <2>3, <2>4
<1>9. QED
  BY <1>7, <1>8

-----------------------------------------------------------------------------
(* Steps of the reader.                                                    *)

(* What the reader has before it.                                          *)
LEMMA UnreadIs == \A c : Unread(c) = TextFrom(tokens, c) /\ Unread(c)' = TextFrom(tokens', c')
BY DEF Unread, TextFrom

(* What the reader has marked.                                             *)
LEMMA MarkedIs ==
    ASSUME NEW S, AllMarks \in Seq(S)
    PROVE  /\ IsSeq(Marked) /\ Len(Marked) = Len(AllMarks)
           /\ \A k \in 1..Len(AllMarks) : Marked[k] = TextFrom(tokens, AllMarks[k])
<1>1. Len(AllMarks) \in Nat
  OBVIOUS
<1>2. Marked = [k \in 1..Len(AllMarks) |-> Unread(AllMarks[k])]
  BY Zenon DEF Marked
<1>3. QED
  BY <1>1, <1>2, UnreadIs DEF IsSeq

(* What the reader sees when the text from every mark on is as it was.     *)
LEMMA TextStays ==
    ASSUME NEW S, AllMarks \in Seq(S), AllMarks' = AllMarks, 0 \in S,
           \A m \in S : TextFrom(tokens', m) = TextFrom(tokens, m)
    PROVE  Unread(0)' = Unread(0) /\ Marked' = Marked
<1>1. /\ IsSeq(Marked) /\ Len(Marked) = Len(AllMarks)
      /\ \A k \in 1..Len(AllMarks) : Marked[k] = TextFrom(tokens, AllMarks[k])
  BY MarkedIs
<1>2. /\ IsSeq(Marked') /\ Len(Marked') = Len(AllMarks')
      /\ \A k \in 1..Len(AllMarks') : Marked'[k] = TextFrom(tokens', AllMarks'[k])
  <2>1. AllMarks' = [k \in 1..Len(AllMarks) |-> AllMarks[k]] /\ Len(AllMarks) \in Nat
    OBVIOUS
  <2>2. Marked' = [k \in 1..Len(AllMarks') |-> TextFrom(tokens', AllMarks'[k])]
    BY Zenon DEF Marked, Unread, TextFrom
  <2>3. QED
    BY <2>1, <2>2 DEF IsSeq
<1>3. \A k \in 1..Len(AllMarks) : AllMarks[k] \in S
  OBVIOUS
<1>4. \A k \in 1..Len(Marked) : Marked[k] = Marked'[k]
  BY <1>1, <1>2, <1>3
<1>5. Marked' = Marked
  BY <1>1, <1>2, <1>4, SameSeq
<1>6. Unread(0)' = Unread(0)
  BY DEF Unread, TextFrom
<1>7. QED
  BY <1>5, <1>6

(* The text behind a mark, or behind the cursor, in the next state.        *)
LEMMA MarkedNext ==
    ASSUME NEW S, AllMarks' \in Seq(S)
    PROVE  /\ IsSeq(Marked') /\ Len(Marked') = Len(AllMarks')
           /\ \A k \in 1..Len(AllMarks') : Marked'[k] = TextFrom(tokens', AllMarks'[k])
           /\ Unread(0)' = TextFrom(tokens', 0)
           /\ Unread(cursor)' = TextFrom(tokens', cursor')
<1>1. Len(AllMarks') \in Nat
  OBVIOUS
<1>2. Marked' = [k \in 1..Len(AllMarks') |-> TextFrom(tokens', AllMarks'[k])]
  BY Zenon DEF Marked, Unread, TextFrom
<1>3. Unread(0)' = TextFrom(tokens', 0) /\ Unread(cursor)' = TextFrom(tokens', cursor')
  BY DEF Unread, TextFrom
<1>4. QED
  BY <1>1, <1>2, <1>3 DEF IsSeq

(* Nothing is read, marked or forgotten.                                   *)
LEMMA ReaderStays ==
    ASSUME NEW S, AllMarks \in Seq(S), 0 \in S,
           AllMarks' = AllMarks, cursor' = cursor, tokens' = tokens
    PROVE  UNCHANGED Reader!vars
<1>1. Unread(0)' = Unread(0) /\ Marked' = Marked
  BY TextStays
<1>2. Unread(cursor)' = Unread(cursor)
  BY DEF Unread
<1>3. QED
  BY <1>1, <1>2 DEF Reader!vars

(* The cursor moves on, and a token may be split as it does.               *)
LEMMA ReaderTakes ==
    ASSUME cursor \in Nat, AllMarks \in Seq(0..cursor), AllMarks' = AllMarks,
           WellLexed(tokens'), cursor' \in 0..(Len(tokens') - 1), cursor < cursor',
           \A m \in 0..cursor : TextFrom(tokens', m) = TextFrom(tokens, m)
    PROVE  Reader!Take
<1>1. 0 \in 0..cursor /\ cursor \in 0..cursor
  OBVIOUS
<1>2. Unread(0)' = Unread(0) /\ Marked' = Marked
  BY <1>1, TextStays
<1>3. Unread(cursor) = TextFrom(tokens', cursor)
  BY <1>1, UnreadIs
<1>4. Unread(cursor)' = TextFrom(tokens', cursor')
  BY DEF Unread, TextFrom
<1>5. /\ TextFrom(tokens', cursor') \subseteq TextFrom(tokens', cursor)
      /\ TextFrom(tokens', cursor') # TextFrom(tokens', cursor)
      /\ \A p \in TextFrom(tokens', cursor) \ TextFrom(tokens', cursor'),
            q \in TextFrom(tokens', cursor') : p < q
  <2> DEFINE ts == tokens'
             d == cursor'
  <2>1. WellLexed(ts) /\ d \in 0..(Len(ts) - 1) /\ cursor < d
    OBVIOUS
  <2> HIDE DEF ts, d
  <2>2. /\ TextFrom(ts, d) \subseteq TextFrom(ts, cursor)
        /\ TextFrom(ts, d) # TextFrom(ts, cursor)
        /\ \A p \in TextFrom(ts, cursor) \ TextFrom(ts, d), q \in TextFrom(ts, d) : p < q
    BY <2>1, TextShrinks
  <2>3. QED
    BY <2>2 DEF ts, d
<1>6. QED
  BY <1>2, <1>3, <1>4, <1>5 DEF Reader!Take

(* A function starts, or a Try does, at the cursor.                        *)
LEMMA ReaderMarks ==
    ASSUME NEW S, AllMarks \in Seq(S), cursor \in S,
           AllMarks' = Append(AllMarks, cursor), cursor' = cursor, tokens' = tokens
    PROVE  Reader!Mark
<1>1. AllMarks' \in Seq(S) /\ Len(AllMarks) \in Nat /\ Len(AllMarks') = Len(AllMarks) + 1
  OBVIOUS
<1>2. /\ IsSeq(Marked) /\ Len(Marked) = Len(AllMarks)
      /\ \A k \in 1..Len(AllMarks) : Marked[k] = TextFrom(tokens, AllMarks[k])
  BY MarkedIs
<1>3. /\ IsSeq(Marked') /\ Len(Marked') = Len(AllMarks')
      /\ \A k \in 1..Len(AllMarks') : Marked'[k] = TextFrom(tokens', AllMarks'[k])
      /\ Unread(0)' = TextFrom(tokens', 0)
      /\ Unread(cursor)' = TextFrom(tokens', cursor')
  BY <1>1, MarkedNext
<1> DEFINE b == Append(Marked, Unread(cursor))
<1>4. /\ IsSeq(b) /\ Len(b) = Len(Marked) + 1
      /\ \A k \in 1..Len(Marked) : b[k] = Marked[k]
      /\ b[Len(Marked) + 1] = Unread(cursor)
  BY <1>2, AddedSeq
<1> HIDE DEF b
<1>5. ASSUME NEW k \in 1..Len(b) PROVE Marked'[k] = b[k]
  <2>1. CASE k = Len(AllMarks) + 1
    <3>1. AllMarks'[k] = cursor /\ k \in 1..Len(AllMarks')
      BY <1>1, <2>1
    <3>2. QED
      BY <1>2, <1>3, <1>4, <2>1, <3>1, UnreadIs
  <2>2. CASE k # Len(AllMarks) + 1
    <3>1. k \in 1..Len(AllMarks) /\ k \in 1..Len(AllMarks')
      BY <1>1, <1>2, <1>4, <2>2
    <3>2. AllMarks'[k] = AllMarks[k]
      BY <3>1
    <3>3. QED
      BY <1>2, <1>3, <1>4, <3>1, <3>2
  <2>3. QED
    BY <2>1, <2>2
<1>6. Marked' = b
  BY <1>1, <1>2, <1>3, <1>4, <1>5, SameSeq
<1>7. Unread(0)' = Unread(0) /\ Unread(cursor)' = Unread(cursor)
  BY <1>3, UnreadIs
<1>8. QED
  BY <1>6, <1>7 DEF Reader!Mark, b

(* Marks are forgotten, the innermost first.                               *)
LEMMA ReaderForgets ==
    ASSUME NEW S, AllMarks \in Seq(S), AllMarks' \in Seq(S),
           Begins(AllMarks', AllMarks), tokens' = tokens
    PROVE  /\ Reader!Forgetting /\ Len(Marked') = Len(AllMarks') /\ Len(Marked) = Len(AllMarks)
           /\ Len(Marked') <= Len(Marked) /\ Unread(0)' = Unread(0)
<1>1. /\ IsSeq(Marked) /\ Len(Marked) = Len(AllMarks)
      /\ \A k \in 1..Len(AllMarks) : Marked[k] = TextFrom(tokens, AllMarks[k])
  BY MarkedIs
<1>2. /\ IsSeq(Marked') /\ Len(Marked') = Len(AllMarks')
      /\ \A k \in 1..Len(AllMarks') : Marked'[k] = TextFrom(tokens', AllMarks'[k])
      /\ Unread(0)' = TextFrom(tokens', 0)
  BY MarkedNext
<1>3. /\ Len(AllMarks') \in Nat /\ Len(AllMarks) \in Nat /\ Len(AllMarks') <= Len(AllMarks)
      /\ \A k \in 1..Len(AllMarks') : AllMarks'[k] = AllMarks[k]
  BY DEF Begins
<1> DEFINE b == SubSeq(Marked, 1, Len(Marked'))
<1>4. IsSeq(b) /\ Len(b) = Len(Marked') /\ \A k \in 1..Len(Marked') : b[k] = Marked[k]
  <2>1. Len(Marked') \in Nat
    BY <1>2, <1>3
  <2>2. b = [k \in 1..Len(Marked') |-> Marked[k]]
    BY <2>1
  <2> HIDE DEF b
  <2>3. QED
    BY <2>1, <2>2 DEF IsSeq
<1> HIDE DEF b
<1>5. ASSUME NEW k \in 1..Len(Marked') PROVE Marked'[k] = b[k]
  <2>1. k \in 1..Len(AllMarks') /\ k \in 1..Len(AllMarks)
    BY <1>2, <1>3
  <2>2. QED
    BY <1>1, <1>2, <1>3, <1>4, <2>1
<1>6. Marked' = b
  BY <1>2, <1>4, <1>5, SameSeq
<1>7. QED
  BY <1>1, <1>2, <1>3, <1>6, UnreadIs DEF Reader!Forgetting, b

(* Marks are forgotten, or none is.                                        *)
LEMMA ReaderUnmarks ==
    ASSUME NEW S, AllMarks \in Seq(S), AllMarks' \in Seq(S), 0 \in S,
           Begins(AllMarks', AllMarks), tokens' = tokens, cursor' = cursor
    PROVE  Reader!Unmark \/ UNCHANGED Reader!vars
<1>1. /\ Reader!Forgetting /\ Len(Marked') = Len(AllMarks') /\ Len(Marked) = Len(AllMarks)
      /\ Len(Marked') <= Len(Marked) /\ Unread(0)' = Unread(0)
  BY ReaderForgets
<1>2. Len(AllMarks) \in Nat /\ Len(AllMarks') \in Nat
  OBVIOUS
<1>3. Unread(cursor)' = Unread(cursor)
  BY DEF Unread
<1>4. CASE Len(AllMarks') = Len(AllMarks)
  <2>1. AllMarks' = AllMarks
    BY <1>4 DEF Begins
  <2>2. QED
    BY <2>1, ReaderStays
<1>5. CASE Len(AllMarks') # Len(AllMarks)
  <2>1. Len(Marked') < Len(Marked)
    BY <1>1, <1>2, <1>5
  <2>2. QED
    BY <1>1, <1>3, <2>1 DEF Reader!Unmark
<1>6. QED
  BY <1>4, <1>5

(* The cursor goes back to the outermost of the marks that are forgotten.  *)
LEMMA ReaderPutsBack ==
    ASSUME NEW S, AllMarks \in Seq(S), AllMarks' \in Seq(S),
           Begins(AllMarks', AllMarks), Len(AllMarks') < Len(AllMarks), tokens' = tokens,
           cursor' = AllMarks[Len(AllMarks') + 1]
    PROVE  Reader!PutBack
<1> DEFINE i == Len(AllMarks') + 1
<1>1. /\ Reader!Forgetting /\ Len(Marked') = Len(AllMarks') /\ Len(Marked) = Len(AllMarks)
      /\ Len(Marked') <= Len(Marked) /\ Unread(0)' = Unread(0)
  BY ReaderForgets
<1>2. Len(AllMarks) \in Nat /\ Len(AllMarks') \in Nat
  OBVIOUS
<1>3. i \in {Len(Marked'), Len(Marked') + 1} \cap 1..Len(Marked) /\ i \in 1..Len(AllMarks)
  BY <1>1, <1>2
<1>4. Marked[i] = TextFrom(tokens, AllMarks[i])
  BY <1>3, MarkedIs
<1>5. Unread(cursor)' = Marked[i]
  <2>1. Unread(cursor)' = TextFrom(tokens', cursor')
    BY DEF Unread, TextFrom
  <2> HIDE DEF i
  <2>2. cursor' = AllMarks[i]
    BY DEF i
  <2>3. QED
    BY <1>4, <2>1, <2>2
<1> HIDE DEF i
<1>6. QED
  BY <1>1, <1>3, <1>5 DEF Reader!PutBack

-----------------------------------------------------------------------------
(* The marks lie behind the cursor, and what the function on top makes of  *)
(* them.                                                                   *)

(* The marks of a function lie before the place where it is.               *)
LEMMA FrameMarked ==
    ASSUME NEW ts, NEW f, NEW c \in Nat, FrameOK(ts, f, c), NEW d \in Nat, c <= d
    PROVE  /\ MarkedIn(f.todo, 0..d) /\ MarksIn(f.todo) \in Seq(0..d) /\ f.start \in 0..d
           /\ MarksOf(f) \in Seq(0..d)
<1>1. f.start \in Nat /\ f.start <= c /\ IsSeq(f.todo)
  BY DEF FrameOK, Sound
<1>2. ASSUME NEW i \in 1..Len(f.todo), f.todo[i].do = "tried" PROVE f.todo[i].at \in 0..d
  <2>1. f.todo[i].at \in f.start..c
    BY <1>2 DEF FrameOK, MarksOK, MarkOK
  <2>2. QED
    BY <1>1, <2>1
<1>3. MarkedIn(f.todo, 0..d)
  BY <1>1, <1>2 DEF MarkedIn
<1>4. MarksIn(f.todo) \in Seq(0..d) /\ f.start \in 0..d
  BY <1>1, <1>3, MarksTyped
<1>5. MarksOf(f) \in Seq(0..d)
  BY <1>4 DEF MarksOf
<1>6. QED
  BY <1>3, <1>4, <1>5

(* No function has gone further than the cursor.                           *)
LEMMA PlacesReached ==
    ASSUME NEW ts, NEW st, NEW c \in Nat, StackOK(ts, st, c), NEW k \in 1..Len(st)
    PROVE  PlaceOf(st, k, c) \in Nat /\ PlaceOf(st, k, c) <= c
<1> DEFINE n == Len(st)
<1>1. n \in Nat /\ n \in 1..n /\ IsSeq(st)
  BY LengthIsNat DEF StackOK
<1>2. PlaceOf(st, n, c) = c
  BY <1>1 DEF PlaceOf
<1>3. st[n].start \in Nat /\ st[n].start <= c
  BY <1>1, <1>2 DEF StackOK, FrameOK
<1>4. CASE k < n
  <2>1. k + 1 \in 1..n /\ (k + 1 < n \/ k + 1 = n)
    BY <1>1, <1>4
  <2>2. st[k + 1].start \in Nat
    BY <2>1 DEF StackOK, FrameOK
  <2>3. st[k + 1].start <= st[n].start
    BY <1>1, <1>3, <2>1 DEF StackOK
  <2>4. PlaceOf(st, k, c) = st[k + 1].start
    BY <1>4 DEF PlaceOf
  <2>5. QED
    BY <1>3, <2>2, <2>3, <2>4
<1>5. CASE ~(k < n)
  BY <1>5 DEF PlaceOf
<1>6. QED
  BY <1>4, <1>5

(* No mark is past the cursor, whichever function has set it.              *)
LEMMA FramesMarked ==
    ASSUME NEW ts, NEW st, NEW c \in Nat, StackOK(ts, st, c), NEW k \in 1..Len(st)
    PROVE  /\ MarkedIn(st[k].todo, 0..c) /\ MarksIn(st[k].todo) \in Seq(0..c)
           /\ st[k].start \in 0..c /\ MarksOf(st[k]) \in Seq(0..c)
<1>1. FrameOK(ts, st[k], PlaceOf(st, k, c))
  BY DEF StackOK
<1>2. PlaceOf(st, k, c) \in Nat /\ PlaceOf(st, k, c) <= c
  BY PlacesReached
<1> DEFINE p == PlaceOf(st, k, c)
<1> HIDE DEF p
<1>3. FrameOK(ts, st[k], p) /\ p \in Nat /\ p <= c
  BY <1>1, <1>2 DEF p
<1>4. QED
  BY <1>3, FrameMarked

(* So none of the marks is.                                                *)
LEMMA AllMarked ==
    ASSUME ParserInv
    PROVE  /\ cursor \in Nat /\ AllMarks \in Seq(0..cursor)
           /\ \A m \in 0..Len(stack) : MarksAlong(SubSeq(stack, 1, m)) \in Seq(0..cursor)
<1>1. WellLexed(tokens) /\ cursor \in 0..(Len(tokens) - 1) /\ StackOK(tokens, stack, cursor)
  BY DEF ParserInv
<1>2. cursor \in Nat
  BY <1>1, LexedLength
<1>3. IsSeq(stack) /\ Len(stack) \in Nat
  BY <1>1, LengthIsNat DEF StackOK
<1> DEFINE S == 0..cursor
<1>4. \A k \in 1..Len(stack) : MarksOf(stack[k]) \in Seq(S)
  BY <1>1, <1>2, FramesMarked
<1> HIDE DEF S
<1>5. AllMarks \in Seq(S)
  BY <1>3, <1>4, AlongTyped DEF AllMarks
<1>6. ASSUME NEW m \in 0..Len(stack) PROVE MarksAlong(SubSeq(stack, 1, m)) \in Seq(S)
  <2> DEFINE t == SubSeq(stack, 1, m)
  <2>1. IsSeq(t) /\ Len(t) = m /\ \A i \in 1..m : t[i] = stack[i]
    <3>1. 1 \in 1..(Len(stack) + 1) /\ m \in (1 - 1)..Len(stack) /\ m - 1 + 1 = m
          /\ \A i \in 1..m : 1 + i - 1 = i
      BY <1>3
    <3>2. /\ IsSeq(t) /\ Len(t) = m - 1 + 1
          /\ \A i \in 1..(m - 1 + 1) : t[i] = stack[1 + i - 1]
      BY <1>3, <3>1, PartSeq
    <3> HIDE DEF t
    <3>3. QED
      BY <3>1, <3>2
  <2> HIDE DEF t
  <2>2. \A k \in 2..Len(t) : MarksOf(t[k]) \in Seq(S)
    BY <1>3, <1>4, <2>1
  <2>3. MarksAlong(t) \in Seq(S)
    BY <2>1, <2>2, AlongTyped
  <2>4. QED
    BY <2>3 DEF t
<1>7. QED
  BY <1>2, <1>5, <1>6 DEF S

(* The marks of the functions below the one on top.                        *)
MarksBelow == MarksAlong(SubSeq(stack, 1, Len(stack) - 1))

(* The marks are those of the function on top, and those below it.         *)
LEMMA TopMarks ==
    ASSUME ParserInv, stack # << >>
    PROVE  /\ Len(stack) \in Nat \ {0} /\ IsSeq(stack) /\ MarksBelow \in Seq(0..cursor)
           /\ Len(stack) = 1 => AllMarks = << >>
           /\ Len(stack) > 1 => AllMarks = MarksBelow \o MarksOf(Top)
<1>1. Len(stack) \in Nat \ {0} /\ StackOK(tokens, stack, cursor)
  BY TopParts
<1>2. IsSeq(stack)
  BY <1>1 DEF StackOK
<1>3. /\ Len(stack) = 1 => AllMarks = << >>
      /\ Len(stack) > 1 => AllMarks = MarksBelow \o MarksOf(Top)
  BY <1>2, AlongLast DEF AllMarks, MarksBelow, Top
<1>4. MarksBelow \in Seq(0..cursor)
  <2>1. Len(stack) - 1 \in 0..Len(stack)
    BY <1>1
  <2>2. QED
    BY <2>1, AllMarked DEF MarksBelow
<1>5. QED
  BY <1>1, <1>2, <1>3, <1>4

(* The function on top goes on, as f2.                                     *)
LEMMA TopMarksNext ==
    ASSUME ParserInv, stack # << >>, NEW f2, stack' = [stack EXCEPT ![Len(stack)] = f2]
    PROVE  /\ Len(stack) = 1 => AllMarks' = << >>
           /\ Len(stack) > 1 => AllMarks' = MarksBelow \o MarksOf(f2)
<1> DEFINE n == Len(stack)
           st == [stack EXCEPT ![n] = f2]
<1>1. n \in Nat \ {0} /\ IsSeq(stack) /\ n \in 1..n /\ n - 1 \in 0..n
  BY TopMarks
<1>2. /\ IsSeq(st) /\ Len(st) = n /\ st[n] = f2
      /\ \A k \in 1..n : k # n => st[k] = stack[k]
  <2>1. stack = [k \in 1..n |-> stack[k]]
    BY <1>1 DEF IsSeq
  <2>2. st = [k \in 1..n |-> IF k = n THEN f2 ELSE stack[k]]
    BY <1>1, <2>1
  <2> HIDE DEF st
  <2>3. Len(st) = n
    BY <1>1, <2>2
  <2>4. QED
    BY <1>1, <2>2, <2>3 DEF IsSeq
<1>3. stack' = st
  OBVIOUS
<1> HIDE DEF st
<1>4. SubSeq(st, 1, n - 1) = SubSeq(stack, 1, n - 1)
  <2> DEFINE a == SubSeq(st, 1, n - 1)
             b == SubSeq(stack, 1, n - 1)
  <2>1. 1 \in 1..(n + 1) /\ n - 1 \in (1 - 1)..n /\ n - 1 - 1 + 1 = n - 1
        /\ \A i \in 1..(n - 1) : 1 + i - 1 = i /\ i \in 1..n /\ i # n
    BY <1>1
  <2>2. /\ IsSeq(a) /\ Len(a) = n - 1 - 1 + 1
        /\ \A i \in 1..(n - 1 - 1 + 1) : a[i] = st[1 + i - 1]
    BY <1>2, <2>1, PartSeq
  <2>3. /\ IsSeq(b) /\ Len(b) = n - 1 - 1 + 1
        /\ \A i \in 1..(n - 1 - 1 + 1) : b[i] = stack[1 + i - 1]
    <3>1. 1 \in 1..(Len(stack) + 1) /\ n - 1 \in (1 - 1)..Len(stack)
      BY <2>1
    <3> HIDE DEF n
    <3>2. QED
      BY <1>1, <3>1, PartSeq
  <2> HIDE DEF a, b
  <2>4. \A i \in 1..Len(a) : a[i] = b[i]
    BY <1>2, <2>1, <2>2, <2>3
  <2>5. a = b
    BY <2>2, <2>3, <2>4, SameSeq
  <2>6. QED
    BY <2>5 DEF a, b
<1>5. AllMarks' = MarksAlong(st)
  BY <1>3 DEF AllMarks
<1>6. /\ n <= 1 => MarksAlong(st) = << >>
      /\ n > 1 => MarksAlong(st) = MarksAlong(SubSeq(st, 1, n - 1)) \o MarksOf(f2)
  BY <1>2, AlongLast
<1>7. MarksBelow = MarksAlong(SubSeq(st, 1, n - 1))
  BY <1>4 DEF MarksBelow
<1>8. n = 1 => n <= 1
  OBVIOUS
<1> HIDE DEF n
<1>9. /\ n = 1 => AllMarks' = << >>
      /\ n > 1 => AllMarks' = MarksBelow \o MarksOf(f2)
  BY <1>5, <1>6, <1>7, <1>8
<1>10. QED
  BY <1>9 DEF n

(* What the marks in a function's steps make of all the marks.             *)
LEMMA MarksInAll ==
    ASSUME NEW S, NEW below \in Seq(S), NEW a \in S, NEW x \in Seq(S), NEW y \in Seq(S)
    PROVE  /\ below \o (<<a>> \o x) \in Seq(S)
           /\ \A c \in S : below \o (<<a>> \o Append(x, c)) = Append(below \o (<<a>> \o x), c)
           /\ Begins(x, y) => Begins(below \o (<<a>> \o x), below \o (<<a>> \o y))
<1>1. <<a>> \in Seq(S)
  OBVIOUS
<1>2. ASSUME NEW c \in S
      PROVE  below \o (<<a>> \o Append(x, c)) = Append(below \o (<<a>> \o x), c)
  <2>1. <<a>> \o Append(x, c) = Append(<<a>> \o x, c) /\ <<a>> \o x \in Seq(S)
    OBVIOUS
  <2> DEFINE z == <<a>> \o x
  <2> HIDE DEF z
  <2>2. z \in Seq(S)
    BY <2>1 DEF z
  <2>3. below \o Append(z, c) = Append(below \o z, c)
    BY <2>2
  <2>4. QED
    BY <2>1, <2>3 DEF z
<1>3. ASSUME Begins(x, y)
      PROVE  Begins(below \o (<<a>> \o x), below \o (<<a>> \o y))
  <2> DEFINE l == <<a>>
  <2> HIDE DEF l
  <2>1. l \in Seq(S)
    BY <1>1 DEF l
  <2>2. Begins(l \o x, l \o y) /\ l \o x \in Seq(S) /\ l \o y \in Seq(S)
    BY <1>3, <2>1, Beginnings
  <2>3. Begins(below \o (l \o x), below \o (l \o y))
    BY <2>2, Beginnings
  <2>4. QED
    BY <2>3 DEF l
<1>4. below \o (<<a>> \o x) \in Seq(S)
  BY <1>1
<1>5. QED
  BY <1>2, <1>3, <1>4

(* What happens to the marks when the function on top goes on with the     *)
(* steps zs.                                                               *)
LEMMA GoesOnMarks ==
    ASSUME ParserInv, stack # << >>, NEW zs, NEW ks,
           stack' = [stack EXCEPT ![Len(stack)] = GoesOn(Top, zs, ks)]
    PROVE  /\ MarksIn(zs) = MarksIn(Top.todo) => AllMarks' = AllMarks
           /\ MarksIn(zs) \in Seq(0..cursor) /\ Begins(MarksIn(zs), MarksIn(Top.todo)) =>
                 AllMarks' \in Seq(0..cursor) /\ Begins(AllMarks', AllMarks)
           /\ MarksIn(zs) = Append(MarksIn(Top.todo), cursor) =>
                 AllMarks' = AllMarks \/ AllMarks' = Append(AllMarks, cursor)
           /\ \A m \in 0..cursor :
                 /\ Len(stack) > 1 /\ MarksIn(zs) \in Seq(0..cursor)
                 /\ MarksIn(Top.todo) = Append(MarksIn(zs), m)
                 => AllMarks' \in Seq(0..cursor) /\ AllMarks = Append(AllMarks', m)
<1> DEFINE S == 0..cursor
           x == MarksIn(Top.todo)
           y == MarksIn(zs)
           a == Top.start
           f2 == GoesOn(Top, zs, ks)
<1>1. /\ Len(stack) \in Nat \ {0} /\ MarksBelow \in Seq(S)
      /\ Len(stack) = 1 => AllMarks = << >>
      /\ Len(stack) > 1 => AllMarks = MarksBelow \o MarksOf(Top)
  BY TopMarks
<1>2. /\ Len(stack) = 1 => AllMarks' = << >>
      /\ Len(stack) > 1 => AllMarks' = MarksBelow \o MarksOf(f2)
  BY TopMarksNext
<1>3. x \in Seq(S) /\ a \in S /\ cursor \in S
  <2>1. FrameOK(tokens, Top, cursor) /\ cursor \in Nat /\ cursor <= cursor
    BY TopParts
  <2>2. QED
    BY <2>1, FrameMarked
<1>4. MarksOf(Top) = <<a>> \o x /\ MarksOf(f2) = <<a>> \o y
  <2>1. f2.start = a /\ f2.todo = zs
    BY DEF GoesOn
  <2> HIDE DEF f2
  <2>2. QED
    BY <2>1, Zenon DEF MarksOf
<1> HIDE DEF S, x, y, a, f2
<1>5. Len(stack) = 1 \/ Len(stack) > 1
  <2>1. Len(stack) \in Nat \ {0}
    BY <1>1
  <2>2. \A n \in Nat \ {0} : n = 1 \/ n > 1
    OBVIOUS
  <2>3. QED
    BY <2>1, <2>2, Zenon
<1>6. ASSUME y = x PROVE AllMarks' = AllMarks
  BY <1>1, <1>2, <1>4, <1>5, <1>6
<1>7. ASSUME y \in Seq(S), Begins(y, x) PROVE AllMarks' \in Seq(S) /\ Begins(AllMarks', AllMarks)
  <2>1. /\ MarksBelow \o (<<a>> \o y) \in Seq(S)
        /\ Begins(MarksBelow \o (<<a>> \o y), MarksBelow \o (<<a>> \o x))
    BY <1>1, <1>3, <1>7, MarksInAll
  <2>2. << >> \in Seq(S) /\ Begins(<< >>, << >>)
    <3> DEFINE e == << >>
    <3>1. e \in Seq(S)
      OBVIOUS
    <3> HIDE DEF e
    <3>2. QED
      BY <3>1, Beginnings DEF e
  <2>3. QED
    BY <1>1, <1>2, <1>4, <1>5, <2>1, <2>2
<1>8. ASSUME y = Append(x, cursor) PROVE AllMarks' = AllMarks \/ AllMarks' = Append(AllMarks, cursor)
  <2>1. MarksBelow \o (<<a>> \o Append(x, cursor)) = Append(MarksBelow \o (<<a>> \o x), cursor)
    BY <1>1, <1>3, MarksInAll
  <2>2. QED
    BY <1>1, <1>2, <1>4, <1>5, <1>8, <2>1
<1>9. ASSUME NEW m \in S, Len(stack) > 1, y \in Seq(S), x = Append(y, m)
      PROVE  AllMarks' \in Seq(S) /\ AllMarks = Append(AllMarks', m)
  <2>1. /\ MarksBelow \o (<<a>> \o y) \in Seq(S)
        /\ MarksBelow \o (<<a>> \o Append(y, m)) = Append(MarksBelow \o (<<a>> \o y), m)
    BY <1>1, <1>3, <1>9, MarksInAll
  <2>2. QED
    BY <1>1, <1>2, <1>4, <1>9, <2>1
<1>10. QED
  BY <1>6, <1>7, <1>8, <1>9 DEF S, x, y

(* What the actions make of the function on top.                           *)
LEMMA ThenGoesOn ==
    ASSUME ParserInv, stack # << >>, NEW zs, Then(zs)
    PROVE  stack' = [stack EXCEPT ![Len(stack)] = GoesOn(Top, zs, Top.kids)]
<1>1. FrameOK(tokens, Top, cursor)
  BY TopParts
<1>2. [Top EXCEPT !.todo = zs] = GoesOn(Top, zs, Top.kids)
  BY <1>1, FrameThen, Zenon
<1>3. QED
  BY <1>2, Zenon DEF Then, Continue

LEMMA WithGoesOn ==
    ASSUME ParserInv, stack # << >>, NEW zs, NEW ks,
           \/ Continue([Top EXCEPT !.kids = ks, !.todo = zs])
           \/ Continue([Top EXCEPT !.todo = zs, !.kids = ks])
    PROVE  stack' = [stack EXCEPT ![Len(stack)] = GoesOn(Top, zs, ks)]
<1>1. FrameOK(tokens, Top, cursor)
  BY TopParts
<1>2. /\ [Top EXCEPT !.todo = zs, !.kids = ks] = GoesOn(Top, zs, ks)
      /\ [Top EXCEPT !.kids = ks, !.todo = zs] = GoesOn(Top, zs, ks)
  <2> DEFINE g == [Top EXCEPT !.todo = zs, !.kids = ks]
             h == [Top EXCEPT !.kids = ks, !.todo = zs]
  <2>1. g = GoesOn(Top, zs, ks)
    BY <1>1, FrameWith, Zenon
  <2>2. h = GoesOn(Top, zs, ks)
    BY <1>1, FrameWith, Zenon
  <2>3. QED
    BY <2>1, <2>2
<1>3. QED
  BY <1>2, Zenon DEF Continue

(* The marks of the function on top, without those of its next step.       *)
LEMMA RestMarks ==
    ASSUME ParserInv, stack # << >>, Top.todo # << >>
    PROVE  /\ MarkedIn(Rest, 0..cursor) /\ MarksIn(Rest) \in Seq(0..cursor)
           /\ Begins(MarksIn(Rest), MarksIn(Top.todo))
           /\ Top.todo[1].do # "tried" => MarksIn(Rest) = MarksIn(Top.todo)
<1> DEFINE ss == Top.todo
           S == 0..cursor
<1>1. FrameOK(tokens, Top, cursor) /\ cursor \in Nat /\ cursor <= cursor /\ IsSeq(ss)
  BY TopParts
<1>2. MarkedIn(ss, S)
  BY <1>1, FrameMarked
<1>3. Rest = SubSeq(ss, 2, Len(ss)) /\ 2 \in 1..(Len(ss) + 1)
  BY <1>1, TailIsPart DEF Rest
<1> DEFINE q == 2
<1>4. /\ MarksIn(Rest) \in Seq(S) /\ Begins(MarksIn(Rest), MarksIn(ss))
      /\ (\A j \in 1..(q - 1) : ss[j].do # "tried") => MarksIn(Rest) = MarksIn(ss)
  <2>1. q \in 1..(Len(ss) + 1) /\ Rest = SubSeq(ss, q, Len(ss))
    BY <1>3
  <2> HIDE DEF q, S, ss
  <2>2. QED
    BY <1>2, <2>1, MarksPassed, Zenon
<1>5. MarkedIn(Rest, S)
  <2>1. /\ IsSeq(Rest) /\ Len(Rest) = Len(ss) - 1 /\ Len(ss) \in Nat
        /\ \A i \in 1..(Len(ss) - 1) : Rest[i] = ss[i + 1]
    BY <1>1, TailSeq, LengthIsNat DEF Rest
  <2>2. \A i \in 1..(Len(ss) - 1) : i + 1 \in 1..Len(ss)
    BY <2>1
  <2> HIDE DEF ss, S
  <2>3. QED
    BY <1>2, <2>1, <2>2 DEF MarkedIn
<1>6. (\A j \in 1..(q - 1) : j = 1)
  OBVIOUS
<1>7. QED
  BY <1>4, <1>5, <1>6

(* It does steps that are no marks, and then the rest: a step that is no   *)
(* mark itself has been done.                                              *)
LEMMA FrontMarks ==
    ASSUME ParserInv, stack # << >>, Top.todo # << >>, Top.todo[1].do # "tried",
           NEW xs, IsSeq(xs), \A j \in 1..Len(xs) : xs[j].do # "tried"
    PROVE  MarksIn(xs \o Rest) = MarksIn(Top.todo)
<1>1. MarkedIn(Rest, 0..cursor) /\ MarksIn(Rest) = MarksIn(Top.todo)
  BY RestMarks
<1>2. MarksIn(xs \o Rest) = MarksIn(Rest)
  BY <1>1, MarksBefore
<1>3. QED
  BY <1>1, <1>2

(* Steps that are no marks change none.                                    *)
LEMMA ThenSameMarks ==
    ASSUME ParserInv, stack # << >>, Top.todo # << >>, Top.todo[1].do # "tried"
    PROVE  /\ Then(Rest) => AllMarks' = AllMarks
           /\ \A xs : IsSeq(xs) /\ (\A j \in 1..Len(xs) : xs[j].do # "tried")
                      /\ Then(xs \o Rest) => AllMarks' = AllMarks
<1>1. ASSUME Then(Rest) PROVE AllMarks' = AllMarks
  <2> DEFINE zs == Rest
  <2>1. Then(zs) /\ MarksIn(zs) = MarksIn(Top.todo)
    BY <1>1, RestMarks
  <2> HIDE DEF zs
  <2>2. QED
    BY <2>1, ThenGoesOn, GoesOnMarks
<1>2. ASSUME NEW xs, IsSeq(xs), \A j \in 1..Len(xs) : xs[j].do # "tried", Then(xs \o Rest)
      PROVE  AllMarks' = AllMarks
  <2> DEFINE zs == xs \o Rest
  <2>1. Then(zs) /\ MarksIn(zs) = MarksIn(Top.todo)
    BY <1>2, FrontMarks
  <2> HIDE DEF zs
  <2>2. QED
    BY <2>1, ThenGoesOn, GoesOnMarks
<1>3. QED
  BY <1>1, <1>2

-----------------------------------------------------------------------------
(* The actions.                                                            *)

(* A step of the reader, or none.                                          *)
Reads == Reader!Next \/ UNCHANGED Reader!vars

(* Text is consumed, or nothing is.                                        *)
LEMMA ReadsOn ==
    ASSUME ParserInv, ParserInv', AllMarks' = AllMarks, cursor <= cursor',
           \/ tokens' = tokens
           \/ /\ cursor < cursor'
              /\ \A m \in 0..cursor : TextFrom(tokens', m) = TextFrom(tokens, m)
    PROVE  Reads
<1>1. cursor \in Nat /\ AllMarks \in Seq(0..cursor) /\ 0 \in 0..cursor
  <2>1. cursor \in Nat /\ AllMarks \in Seq(0..cursor)
    BY AllMarked
  <2>2. QED
    BY <2>1
<1>2. WellLexed(tokens') /\ cursor' \in 0..(Len(tokens') - 1)
  BY DEF ParserInv
<1>3. cursor' \in Nat
  <2>1. Len(tokens') \in Nat
    BY <1>2, LexedLength
  <2>2. QED
    BY <1>2, <2>1
<1>4. CASE cursor' = cursor
  <2>1. tokens' = tokens
    BY <1>1, <1>4
  <2>2. QED
    BY <1>1, <1>4, <2>1, ReaderStays DEF Reads
<1>5. CASE cursor' # cursor
  <2>1. cursor < cursor'
    BY <1>1, <1>3, <1>5
  <2>2. \A m \in 0..cursor : TextFrom(tokens', m) = TextFrom(tokens, m)
    OBVIOUS
  <2>3. Reader!Take
    BY <1>1, <1>2, <2>1, <2>2, ReaderTakes
  <2>4. QED
    BY <2>3 DEF Reads, Reader!Next
<1>6. QED
  BY <1>4, <1>5

(* The function on top does its next step, or steps of its code.           *)
LEMMA ReadsSteps ==
    ASSUME ParserInv, ParserInv', stack # << >>, Top.todo # << >>, Top.todo[1].do # "tried",
           \/ Then(Rest)
           \/ \E xs : /\ IsSeq(xs) /\ \A j \in 1..Len(xs) : xs[j].do # "tried"
                      /\ Then(xs \o Rest),
           tokens' = tokens, cursor <= cursor'
    PROVE  Reads
<1>1. AllMarks' = AllMarks
  BY ThenSameMarks, Zenon
<1>2. QED
  BY <1>1, ReadsOn

(* Each action that does not go back.                                      *)
LEMMA TakeTokenReads ==
    ASSUME ParserInv, ParserInv', TakeToken
    PROVE  Reads
<1> DEFINE ks == IF Head1.keep THEN Append(Top.kids, Cur) ELSE Top.kids
<1>1. stack # << >> /\ Top.todo # << >> /\ Top.todo[1].do = "token"
  BY DoingIs DEF TakeToken
<1>2. MarksIn(Rest) = MarksIn(Top.todo)
  BY <1>1, RestMarks
<1>3. stack' = [stack EXCEPT ![Len(stack)] = GoesOn(Top, Rest, ks)]
  <2>1. Continue([Top EXCEPT !.todo = Rest, !.kids = ks])
    BY Zenon DEF TakeToken
  <2> HIDE DEF ks
  <2>2. QED
    BY <1>1, <2>1, WithGoesOn
<1> HIDE DEF ks
<1>4. AllMarks' = AllMarks
  BY <1>1, <1>2, <1>3, GoesOnMarks
<1>5. tokens' = tokens /\ cursor <= cursor'
  <2>1. cursor' = Stepped /\ tokens' = tokens
    BY Zenon DEF TakeToken
  <2>2. Stepped \in cursor..(Len(tokens) - 1) /\ cursor \in Nat /\ Len(tokens) \in Nat
    BY <1>1, SteppedInside, TopParts
  <2>3. QED
    BY <2>1, <2>2
<1>6. QED
  BY <1>4, <1>5, ReadsOn

(* The cursor is where it was.                                             *)
LEMMA CursorStays ==
    ASSUME ParserInv, cursor' = cursor
    PROVE  cursor <= cursor'
<1>1. cursor \in Nat
  BY AllMarked
<1>2. QED
  BY <1>1

LEMMA MissTokenReads ==
    ASSUME ParserInv, ParserInv', MissToken
    PROVE  Reads
<1> DEFINE xs == <<Miss(Head1.miss)>>
<1>1. stack # << >> /\ Top.todo # << >> /\ Top.todo[1].do = "token"
  BY DoingIs DEF MissToken
<1>2. Then(xs \o Rest) /\ tokens' = tokens /\ cursor <= cursor'
  BY CursorStays DEF MissToken
<1>3. IsSeq(xs) /\ \A j \in 1..Len(xs) : xs[j].do # "tried"
  BY MissStep
<1> HIDE DEF xs
<1>4. QED
  BY <1>1, <1>2, <1>3, ReadsSteps

LEMMA TakeBranchReads ==
    ASSUME ParserInv, ParserInv', TakeBranch
    PROVE  Reads
<1>1. tokens' = tokens /\ cursor <= cursor'
  BY CursorStays DEF TakeBranch
<1>2. IsSeq(<< >>) /\ \A j \in 1..Len(<< >>) : << >>[j].do # "tried"
  BY EmptyIsSeq
<1>3. CASE Doing("branch") /\ Then((IF Passes(Head1.test) THEN Head1.then
                                    ELSE Head1.otherwise) \o Rest)
  <2> DEFINE xs == IF Passes(Head1.test) THEN Head1.then ELSE Head1.otherwise
  <2>1. stack # << >> /\ Top.todo # << >> /\ Top.todo[1].do = "branch" /\ Head1 = Top.todo[1]
    BY <1>3, DoingIs
  <2>2. IsSeq(xs) /\ \A j \in 1..Len(xs) : xs[j].do # "tried"
    <3>1. /\ IsSeq(Head1.then) /\ IsSeq(Head1.otherwise)
          /\ \A j \in 1..Len(Head1.then) : Head1.then[j].do # "tried"
          /\ \A j \in 1..Len(Head1.otherwise) : Head1.otherwise[j].do # "tried"
      BY <2>1, SoundHere, BranchParts
    <3>2. xs = Head1.then \/ xs = Head1.otherwise
      OBVIOUS
    <3> HIDE DEF xs
    <3>3. QED
      BY <3>1, <3>2
  <2>3. Then(xs \o Rest)
    BY <1>3
  <2> HIDE DEF xs
  <2>4. QED
    BY <1>1, <2>1, <2>2, <2>3, ReadsSteps
<1>4. CASE Doing("lambda") /\ Then((IF CanParseLambda THEN Head1.then ELSE << >>) \o Rest)
  <2> DEFINE xs == IF CanParseLambda THEN Head1.then ELSE << >>
  <2>1. stack # << >> /\ Top.todo # << >> /\ Top.todo[1].do = "lambda" /\ Head1 = Top.todo[1]
    BY <1>4, DoingIs
  <2>2. IsSeq(xs) /\ \A j \in 1..Len(xs) : xs[j].do # "tried"
    <3>1. /\ IsSeq(Head1.then)
          /\ \A j \in 1..Len(Head1.then) : Head1.then[j].do # "tried"
      BY <2>1, SoundHere, BranchParts
    <3>2. xs = Head1.then \/ xs = << >>
      OBVIOUS
    <3> HIDE DEF xs
    <3>3. QED
      BY <1>2, <3>1, <3>2
  <2>3. Then(xs \o Rest)
    BY <1>4
  <2> HIDE DEF xs
  <2>4. QED
    BY <1>1, <2>1, <2>2, <2>3, ReadsSteps
<1>5. CASE Doing("nonEmpty") /\ Then((IF Top.kids = << >> THEN <<Miss(Head1.miss)>>
                                      ELSE << >>) \o Rest)
  <2> DEFINE xs == IF Top.kids = << >> THEN <<Miss(Head1.miss)>> ELSE << >>
  <2>1. stack # << >> /\ Top.todo # << >> /\ Top.todo[1].do = "nonEmpty"
    BY <1>5, DoingIs
  <2>2. IsSeq(xs) /\ \A j \in 1..Len(xs) : xs[j].do # "tried"
    <3> DEFINE m == <<Miss(Head1.miss)>>
    <3>1. IsSeq(m) /\ \A j \in 1..Len(m) : m[j].do # "tried"
      BY MissStep
    <3>2. xs = m \/ xs = << >>
      OBVIOUS
    <3> HIDE DEF xs, m
    <3>3. QED
      BY <1>2, <3>1, <3>2
  <2>3. Then(xs \o Rest)
    BY <1>5
  <2> HIDE DEF xs
  <2>4. QED
    BY <1>1, <2>1, <2>2, <2>3, ReadsSteps
<1>6. QED
  BY <1>3, <1>4, <1>5, Zenon DEF TakeBranch

LEMMA MissOnReads ==
    ASSUME ParserInv, ParserInv', MissOn
    PROVE  Reads
<1>1. /\ stack # << >> /\ Top.todo # << >> /\ Top.todo[1].do = "miss"
      /\ Head1.miss \in {"skip", "report", "error"}
  BY DoingIs DEF MissOn
<1>2. Then(Rest) /\ tokens' = tokens
  BY Zenon DEF MissOn
<1>3. cursor' = cursor \/ cursor' = Stepped
  BY <1>1 DEF MissOn
<1>4. Stepped \in cursor..(Len(tokens) - 1) /\ cursor \in Nat /\ Len(tokens) \in Nat
  BY <1>1, SteppedInside, TopParts
<1>5. cursor <= cursor'
  BY <1>3, <1>4
<1>6. QED
  BY <1>1, <1>2, <1>5, ReadsSteps

LEMMA EnterLoopReads ==
    ASSUME ParserInv, ParserInv', EnterLoop
    PROVE  Reads
<1> DEFINE ss == Top.todo
           m == [Head1 EXCEPT !.do = "again"]
           xs == Head1.body \o <<m>>
<1>1. stack # << >> /\ ss # << >> /\ Head1 = ss[1] /\ ss[1].do = "loop"
  BY DoingIs DEF EnterLoop
<1>2. tokens' = tokens /\ cursor <= cursor'
  BY CursorStays DEF EnterLoop
<1>3. Then(Rest) \/ Then(xs \o Rest)
  BY Zenon DEF EnterLoop
<1>4. IsSeq(xs) /\ \A j \in 1..Len(xs) : xs[j].do # "tried"
  <2>1. Sound(Top.rule, Top.start, cursor, ss)
    BY <1>1, SoundHere
  <2>2. IsSeq(ss[1].body) /\ \A i \in 1..Len(ss[1].body) : ~Mark(ss[1].body[i])
    BY <1>1, <2>1, SoundLoop
  <2>3. m.do # "tried"
    BY <1>1, <2>1, AgainIs
  <2> HIDE DEF m
  <2>4. QED
    BY <1>1, <2>2, <2>3, BodyParts
<1> HIDE DEF xs
<1>5. QED
  BY <1>1, <1>2, <1>3, <1>4, ReadsSteps

LEMMA NextRoundReads ==
    ASSUME ParserInv, ParserInv', NextRound
    PROVE  Reads
<1> DEFINE ss == Top.todo
           zs == Head1.body \o Top.todo
<1>1. stack # << >> /\ ss # << >> /\ Head1 = ss[1] /\ ss[1].do = "again"
  BY DoingIs DEF NextRound
<1>2. tokens' = tokens /\ cursor <= cursor'
  <2>1. cursor' \in cursor..(Len(tokens) - 1) /\ cursor \in Nat /\ Len(tokens) \in Nat
    BY <1>1, CommaInside, TopParts
  <2>2. tokens' = tokens
    BY Zenon DEF NextRound
  <2>3. QED
    BY <2>1, <2>2
<1>3. Then(Rest) \/ Then(zs)
  BY Zenon DEF NextRound
<1>4. CASE Then(Rest)
  BY <1>1, <1>2, <1>4, ReadsSteps
<1>5. CASE Then(zs)
  <2>1. Sound(Top.rule, Top.start, cursor, ss)
    BY <1>1, SoundHere
  <2>2. IsSeq(Head1.body) /\ \A i \in 1..Len(Head1.body) : Head1.body[i].do # "tried"
    <3>1. IsSeq(ss[1].body) /\ \A i \in 1..Len(ss[1].body) : ~Mark(ss[1].body[i])
      BY <1>1, <2>1, SoundAgain
    <3>2. QED
      BY <1>1, <3>1 DEF Mark
  <2>3. MarkedIn(ss, 0..cursor)
    <3>1. FrameOK(tokens, Top, cursor) /\ cursor \in Nat /\ cursor <= cursor
      BY <1>1, TopParts
    <3>2. QED
      BY <3>1, FrameMarked
  <2>4. MarksIn(zs) = MarksIn(ss)
    BY <2>2, <2>3, MarksBefore
  <2> HIDE DEF zs
  <2>5. AllMarks' = AllMarks
    BY <1>1, <1>5, <2>4, ThenGoesOn, GoesOnMarks
  <2>6. QED
    BY <1>2, <2>5, ReadsOn
<1>6. QED
  BY <1>3, <1>4, <1>5

LEMMA SkipMetadataReads ==
    ASSUME ParserInv, ParserInv', SkipMetadata
    PROVE  Reads
<1>1. stack # << >> /\ Top.todo # << >> /\ Top.todo[1].do = "metadata"
  BY DoingIs DEF SkipMetadata
<1>2. WellLexed(tokens) /\ cursor \in 0..(Len(tokens) - 1) /\ cursor \in Nat /\ Len(tokens) \in Nat
  BY <1>1, TopParts
<1>3. cursor' \in cursor..(Len(tokens) - 1)
  BY <1>2, MetadataInside DEF SkipMetadata
<1>4. Then(Rest) /\ tokens' = tokens /\ cursor <= cursor'
  BY <1>2, <1>3 DEF SkipMetadata
<1>5. QED
  BY <1>1, <1>4, ReadsSteps

LEMMA DropOlderTypesReads ==
    ASSUME ParserInv, ParserInv', DropOlderTypes
    PROVE  Reads
<1>1. stack # << >> /\ Top.todo # << >> /\ Top.todo[1].do = "dropTypes"
  BY DoingIs DEF DropOlderTypes
<1>2. \E ks : Continue([Top EXCEPT !.todo = Rest, !.kids = ks])
  BY Zenon DEF DropOlderTypes
<1>3. PICK ks : Continue([Top EXCEPT !.todo = Rest, !.kids = ks])
  BY <1>2
<1>4. stack' = [stack EXCEPT ![Len(stack)] = GoesOn(Top, Rest, ks)]
  BY <1>1, <1>3, WithGoesOn
<1>5. MarksIn(Rest) = MarksIn(Top.todo)
  BY <1>1, RestMarks
<1>6. AllMarks' = AllMarks
  BY <1>1, <1>4, <1>5, GoesOnMarks
<1>7. tokens' = tokens /\ cursor <= cursor'
  BY CursorStays DEF DropOlderTypes
<1>8. QED
  BY <1>6, <1>7, ReadsOn

LEMMA RefuseSecondAccessorReads ==
    ASSUME ParserInv, ParserInv', RefuseSecondAccessor
    PROVE  Reads
<1>1. stack # << >> /\ Top.todo # << >> /\ Top.todo[1].do = "refuseSecond"
  BY DoingIs DEF RefuseSecondAccessor
<1>2. Then(Rest) \/ \E ks : Continue([Top EXCEPT !.todo = Rest, !.kids = ks])
  BY Zenon DEF RefuseSecondAccessor
<1>3. PICK ks : stack' = [stack EXCEPT ![Len(stack)] = GoesOn(Top, Rest, ks)]
  BY <1>1, <1>2, ThenGoesOn, WithGoesOn, Zenon
<1>4. MarksIn(Rest) = MarksIn(Top.todo)
  BY <1>1, RestMarks
<1>5. AllMarks' = AllMarks
  BY <1>1, <1>3, <1>4, GoesOnMarks
<1>6. tokens' = tokens /\ cursor <= cursor'
  BY CursorStays DEF RefuseSecondAccessor
<1>7. QED
  BY <1>5, <1>6, ReadsOn

(* Marks are forgotten, or none is.                                        *)
LEMMA ReadsBack ==
    ASSUME ParserInv, AllMarks' \in Seq(0..cursor), Begins(AllMarks', AllMarks),
           tokens' = tokens, cursor' = cursor
    PROVE  Reads
<1>1. cursor \in Nat /\ AllMarks \in Seq(0..cursor)
  BY AllMarked
<1>2. 0 \in 0..cursor
  BY <1>1
<1>3. Reader!Unmark \/ UNCHANGED Reader!vars
  BY <1>1, <1>2, ReaderUnmarks
<1>4. QED
  BY <1>3 DEF Reads, Reader!Next

(* A mark is set, or none is.                                              *)
LEMMA ReadsMark ==
    ASSUME ParserInv, AllMarks' = AllMarks \/ AllMarks' = Append(AllMarks, cursor),
           tokens' = tokens, cursor' = cursor
    PROVE  Reads
<1>1. cursor \in Nat /\ AllMarks \in Seq(0..cursor)
  BY AllMarked
<1>2. 0 \in 0..cursor /\ cursor \in 0..cursor
  BY <1>1
<1>3. CASE AllMarks' = AllMarks
  BY <1>1, <1>2, <1>3, ReaderStays DEF Reads
<1>4. CASE AllMarks' = Append(AllMarks, cursor)
  BY <1>1, <1>2, <1>4, ReaderMarks DEF Reads, Reader!Next
<1>5. QED
  BY <1>3, <1>4

(* A Try that succeeds, or is left, forgets its mark; one that begins sets *)
(* one where the cursor is.                                                *)
LEMMA TrySucceedsReads ==
    ASSUME ParserInv, ParserInv', TrySucceeds
    PROVE  Reads
<1>1. stack # << >> /\ Top.todo # << >>
  BY DoingIs DEF TrySucceeds
<1>2. Then(Rest) /\ tokens' = tokens /\ cursor' = cursor
  BY Zenon DEF TrySucceeds
<1>3. MarksIn(Rest) \in Seq(0..cursor) /\ Begins(MarksIn(Rest), MarksIn(Top.todo))
  BY <1>1, RestMarks
<1> DEFINE zs == Rest
<1>4. /\ Then(zs) /\ MarksIn(zs) \in Seq(0..cursor) /\ Begins(MarksIn(zs), MarksIn(Top.todo))
  BY <1>2, <1>3
<1> HIDE DEF zs
<1>5. AllMarks' \in Seq(0..cursor) /\ Begins(AllMarks', AllMarks)
  BY <1>1, <1>4, ThenGoesOn, GoesOnMarks
<1>6. QED
  BY <1>2, <1>5, ReadsBack

LEMMA EnterTryReads ==
    ASSUME ParserInv, ParserInv', EnterTry
    PROVE  Reads
<1> DEFINE m == [do |-> "tried", at |-> cursor, kids |-> Top.kids,
                 otherwise |-> Head1.otherwise]
           ss == Top.todo
           ms == <<m>>
           body == Head1.body
           zs == (body \o ms) \o Rest
<1>1. stack # << >> /\ ss # << >> /\ Head1 = ss[1] /\ ss[1].do = "try"
  BY DoingIs DEF EnterTry
<1>2. Then(zs) /\ tokens' = tokens /\ cursor' = cursor
  BY Zenon DEF EnterTry
<1>3. m.do = "tried" /\ m.at = cursor /\ m.otherwise = Head1.otherwise
  OBVIOUS
<1> HIDE DEF m
<1>4. IsSeq(body) /\ \A i \in 1..Len(body) : body[i].do # "tried"
  <2>1. Sound(Top.rule, Top.start, cursor, ss)
    BY <1>1, SoundHere
  <2>2. IsSeq(ss[1].body) /\ \A i \in 1..Len(ss[1].body) : ~Mark(ss[1].body[i])
    BY <1>1, <1>3, <2>1, SoundTry
  <2>3. QED
    BY <1>1, <2>2 DEF Mark
<1>5. MarkedIn(Rest, 0..cursor) /\ MarksIn(Rest) = MarksIn(ss) /\ IsSeq(Rest) /\ cursor \in 0..cursor
  <2>1. cursor \in Nat
    BY AllMarked
  <2>2. QED
    BY <1>1, <2>1, RestMarks, RestIsSeq
<1>6. zs = body \o (ms \o Rest)
  <2>1. IsSeq(ms)
    BY OneSeq
  <2> HIDE DEF ms, body
  <2>2. QED
    BY <1>4, <1>5, <2>1, JoinedTwice
<1>7. MarkedIn(ms \o Rest, 0..cursor) /\ MarksIn(ms \o Rest) = Append(MarksIn(Rest), cursor)
  BY <1>3, <1>5, MarkBefore
<1>8. MarksIn(zs) = Append(MarksIn(ss), cursor)
  <2> DEFINE rs == ms \o Rest
  <2>1. MarkedIn(rs, 0..cursor) /\ MarksIn(rs) = Append(MarksIn(ss), cursor) /\ zs = body \o rs
    BY <1>5, <1>6, <1>7
  <2> HIDE DEF rs, zs, body
  <2>2. QED
    BY <1>4, <2>1, MarksBefore
<1> HIDE DEF zs
<1>9. AllMarks' = AllMarks \/ AllMarks' = Append(AllMarks, cursor)
  BY <1>1, <1>2, <1>8, ThenGoesOn, GoesOnMarks
<1>10. QED
  BY <1>2, <1>9, ReadsMark

(* The marks from the q-th step on.                                        *)
LEMMA FromMarks ==
    ASSUME ParserInv, stack # << >>, NEW q \in 1..(Len(Top.todo) + 1)
    PROVE  /\ MarksIn(From(q)) \in Seq(0..cursor)
           /\ Begins(MarksIn(From(q)), MarksIn(Top.todo))
           /\ (\A j \in 1..(q - 1) : Top.todo[j].do # "tried") =>
                 MarksIn(From(q)) = MarksIn(Top.todo)
           /\ (q > 1 /\ Top.todo[q - 1].do = "tried"
               /\ \A j \in 1..(q - 2) : Top.todo[j].do # "tried") =>
                 MarksIn(Top.todo) = Append(MarksIn(From(q)), Top.todo[q - 1].at)
<1> DEFINE ss == Top.todo
           S == 0..cursor
<1>1. FrameOK(tokens, Top, cursor) /\ cursor \in Nat /\ cursor <= cursor
  BY TopParts
<1>2. MarkedIn(ss, S)
  BY <1>1, FrameMarked
<1>3. From(q) = SubSeq(ss, q, Len(ss)) /\ q \in 1..(Len(ss) + 1)
  BY DEF From
<1> HIDE DEF S, ss
<1>4. /\ MarksIn(From(q)) \in Seq(S)
      /\ Begins(MarksIn(From(q)), MarksIn(ss))
      /\ (\A j \in 1..(q - 1) : ss[j].do # "tried") => MarksIn(From(q)) = MarksIn(ss)
      /\ (q > 1 /\ ss[q - 1].do = "tried" /\ \A j \in 1..(q - 2) : ss[j].do # "tried") =>
            MarksIn(ss) = Append(MarksIn(From(q)), ss[q - 1].at)
  BY <1>2, <1>3, MarksPassed, Zenon
<1>5. QED
  BY <1>4 DEF S, ss

LEMMA MissBreakReads ==
    ASSUME ParserInv, ParserInv', MissBreak
    PROVE  Reads
<1> DEFINE ss == Top.todo
           i == FirstMark("again")
           q == i + 1
           zs == From(q)
<1>1. stack # << >> /\ ss # << >> /\ Head1 = ss[1] /\ ss[1].do = "miss" /\ ss[1].miss = "break"
  BY DoingIs DEF MissBreak
<1>2. Then(zs) /\ tokens' = tokens /\ cursor' = cursor
  BY Zenon DEF MissBreak
<1>3. IsSeq(ss) /\ Len(ss) \in Nat
  BY <1>1, TopParts, LengthIsNat
<1>4. i \in 1..Len(ss)
  <2>1. Sound(Top.rule, Top.start, cursor, ss)
    BY <1>1, SoundHere
  <2>2. PICK j \in 2..Len(ss) : ss[j].do = "again"
    BY <1>1, <2>1, SoundLeaves
  <2>3. j \in 1..Len(ss)
    BY <1>3, <2>2
  <2>4. QED
    BY <1>3, <2>2, <2>3, MarkFound
<1>5. q \in 1..(Len(ss) + 1)
  BY <1>3, <1>4
<1> HIDE DEF q
<1>6. MarksIn(zs) \in Seq(0..cursor) /\ Begins(MarksIn(zs), MarksIn(ss))
  BY <1>1, <1>5, FromMarks
<1> HIDE DEF zs
<1>7. AllMarks' \in Seq(0..cursor) /\ Begins(AllMarks', AllMarks)
  BY <1>1, <1>2, <1>6, ThenGoesOn, GoesOnMarks
<1>8. QED
  BY <1>2, <1>7, ReadsBack

(* The innermost Try.                                                      *)
LEMMA InnermostTry ==
    ASSUME ParserInv, stack # << >>, Top.todo # << >>,
           Top.todo[1].do = "gt" \/ (Top.todo[1].do = "miss" /\ Top.todo[1].miss = "fail"),
           NEW i, i = FirstMark("tried")
    PROVE  /\ i \in 1..Len(Top.todo) /\ i \in Nat /\ Len(Top.todo) \in Nat
           /\ Top.todo[i].do = "tried"
           /\ \A j \in 1..(i - 1) : Top.todo[j].do # "tried"
           /\ Top.todo[i].at \in 0..cursor
<1> DEFINE ss == Top.todo
<1>1. IsSeq(ss) /\ Len(ss) \in Nat
  BY TopParts, LengthIsNat
<1>2. Sound(Top.rule, Top.start, cursor, ss)
  BY SoundHere
<1>3. PICK j \in 2..Len(ss) : ss[j].do = "tried"
  BY <1>2, SoundLeaves
<1>4. j \in 1..Len(ss)
  BY <1>1, <1>3
<1>5. i \in 1..Len(ss) /\ ss[i].do = "tried"
  BY <1>1, <1>3, <1>4, MarkFound
<1>6. ASSUME NEW k \in 1..(i - 1), ss[k].do = "tried" PROVE FALSE
  <2>1. k \in 1..Len(ss) /\ ~(i <= k)
    BY <1>1, <1>5
  <2>2. i <= k
    BY <1>1, <1>6, <2>1, MarkFound
  <2>3. QED
    BY <2>1, <2>2
<1>7. ss[i].at \in 0..cursor
  <2>1. ss[i].at \in Nat /\ ss[i].at <= cursor
    BY <1>5, MarkIsHere
  <2>2. cursor \in Nat
    BY AllMarked
  <2>3. QED
    BY <2>1, <2>2
<1>8. QED
  BY <1>1, <1>5, <1>6, <1>7

(* The token is split behind all marks, so that what they have before them *)
(* is the same text.                                                       *)
LEMMA CloseTemplateReads ==
    ASSUME ParserInv, ParserInv', CloseTemplate
    PROVE  Reads
<1> DEFINE ss == Top.todo
           i == FirstMark("tried")
           zs == From(i)
           ts2 == IF Cur.text = ">" THEN tokens ELSE Split
<1>1. stack # << >> /\ ss # << >> /\ ss[1].do = "gt"
  BY DoingIs DEF CloseTemplate
<1>2. CASE Cur.text \notin DOMAIN AfterGt \cup {">"}
  <2>1. tokens' = tokens /\ cursor' = cursor /\ Then(Rest)
    BY <1>2 DEF CloseTemplate
  <2>2. QED
    BY <1>1, <2>1, CursorStays, ReadsSteps
<1>3. CASE Cur.text \in DOMAIN AfterGt \cup {">"}
  <2>1. tokens' = ts2 /\ cursor' = cursor + 1 /\ Then(zs)
    BY <1>3, Zenon DEF CloseTemplate
  <2>2. WellLexed(tokens) /\ cursor \in 0..(Len(tokens) - 1) /\ cursor \in Nat
    BY <1>1, TopParts
  <2>3. \A m \in 0..cursor : TextFrom(ts2, m) = TextFrom(tokens, m)
    <3>1. CASE Cur.text = ">"
      BY <3>1
    <3>2. CASE Cur.text # ">"
      <4>1. Cur.text \in DOMAIN AfterGt /\ ts2 = Split
        BY <1>3, <3>2
      <4>2. QED
        BY <2>2, <4>1, SplitText
    <3>3. QED
      BY <3>1, <3>2
  <2>4. MarksIn(zs) = MarksIn(ss)
    <3>1. i \in 1..Len(ss) /\ Len(ss) \in Nat /\ \A j \in 1..(i - 1) : ss[j].do # "tried"
      BY <1>1, InnermostTry
    <3>2. i \in 1..(Len(ss) + 1)
      BY <3>1
    <3> HIDE DEF i
    <3>3. QED
      BY <1>1, <3>1, <3>2, FromMarks
  <2> HIDE DEF zs, ts2
  <2>5. AllMarks' = AllMarks
    BY <1>1, <2>1, <2>4, ThenGoesOn, GoesOnMarks
  <2>6. cursor < cursor' /\ cursor <= cursor'
    BY <2>1, <2>2
  <2>7. \A m \in 0..cursor : TextFrom(tokens', m) = TextFrom(tokens, m)
    BY <2>1, <2>3
  <2>8. QED
    BY <2>5, <2>6, <2>7, ReadsOn
<1>4. QED
  BY <1>2, <1>3

(* << >> adds nothing.                                                     *)
LEMMA JoinedEmpty ==
    ASSUME NEW zs, IsSeq(zs)
    PROVE  zs \o << >> = zs
<1> DEFINE e == << >>
<1>1. IsSeq(e) /\ Len(e) = 0
  BY EmptyIsSeq
<1>2. Len(zs) \in Nat
  BY LengthIsNat
<1> HIDE DEF e
<1>3. IsSeq(zs \o e) /\ Len(zs \o e) = Len(zs) /\ \A k \in 1..Len(zs) : (zs \o e)[k] = zs[k]
  BY <1>1, <1>2, JoinedSeq
<1>4. zs \o e = zs
  BY <1>2, <1>3, SameSeq
<1>5. QED
  BY <1>4 DEF e

(* A function that is called may go back to where it starts.               *)
LEMMA CallReads ==
    ASSUME ParserInv, ParserInv', Call
    PROVE  Reads
<1> DEFINE r == Head1.rules[1]
           g == Frame(r, cursor)
           st == Append(stack, g)
           n == Len(stack)
<1>1. /\ stack # << >> /\ Top.todo # << >> /\ Head1 = Top.todo[1] /\ Top.todo[1].do = "rules"
  BY DoingIs DEF Call
<1>2. stack' = st /\ tokens' = tokens /\ cursor' = cursor
  BY Zenon DEF Call
<1>3. /\ n \in Nat \ {0} /\ IsSeq(stack) /\ cursor \in Nat
  BY <1>1, TopMarks, AllMarked
<1>4. r \in RuleNames
  BY <1>1, SoundHere, SoundCall
<1>5. MarksOf(g) = <<cursor>>
  <2>1. g.start = cursor /\ g.todo = Rules[r]
    BY DEF Frame
  <2>2. IsSeq(Rules[r]) /\ \A i \in 1..Len(Rules[r]) : Rules[r][i].do # "tried"
    <3>1. Fresh(r, cursor, cursor, Rules[r])
      BY <1>4, EveryRuleIsSound, Zenon
    <3> DEFINE zs == Rules[r]
    <3> HIDE DEF zs
    <3>2. Fresh(r, cursor, cursor, zs)
      BY <3>1 DEF zs
    <3>3. IsSeq(zs) /\ \A i \in 1..Len(zs) : zs[i].do # "tried"
      BY <3>2 DEF Fresh, Sound, Mark
    <3>4. QED
      BY <3>3 DEF zs
  <2>3. MarksIn(Rules[r]) = << >>
    <3> DEFINE zs == Rules[r]
               e == << >>
    <3>1. IsSeq(zs) /\ \A i \in 1..Len(zs) : zs[i].do # "tried"
      BY <2>2
    <3>2. MarkedIn(e, {}) /\ MarksIn(e) = << >>
      <4>1. MarkedIn(e, {})
        BY EmptyIsSeq DEF MarkedIn
      <4>2. MarksIn(e) \in Seq({})
        BY <4>1, MarksTyped
      <4>3. QED
        BY <4>1, <4>2
    <3> HIDE DEF e, zs
    <3>3. MarksIn(zs \o e) = << >>
      BY <3>1, <3>2, MarksBefore
    <3>4. zs \o e = zs
      BY <3>1, JoinedEmpty DEF e
    <3>5. QED
      BY <3>3, <3>4 DEF zs
  <2> HIDE DEF g
  <2>4. QED
    BY <2>1, <2>3 DEF MarksOf
<1> HIDE DEF g
<1>6. /\ IsSeq(st) /\ Len(st) = n + 1 /\ st[n + 1] = g
      /\ \A k \in 1..n : st[k] = stack[k]
  BY <1>3, AddedSeq
<1> HIDE DEF st
<1>7. SubSeq(st, 1, n) = stack
  <2> DEFINE a == SubSeq(st, 1, n)
  <2>1. 1 \in 1..(Len(st) + 1) /\ n \in (1 - 1)..Len(st) /\ n - 1 + 1 = n
        /\ \A k \in 1..n : 1 + k - 1 = k
    BY <1>3, <1>6
  <2>2. IsSeq(a) /\ Len(a) = n - 1 + 1 /\ \A k \in 1..(n - 1 + 1) : a[k] = st[1 + k - 1]
    BY <1>6, <2>1, PartSeq
  <2> HIDE DEF a
  <2>3. a = stack
    BY <1>3, <1>6, <2>1, <2>2, SameSeq
  <2>4. QED
    BY <2>3 DEF a
<1>8. AllMarks' = AllMarks \o <<cursor>>
  <2>1. Len(st) > 1 /\ Len(st) - 1 = n
    BY <1>3, <1>6
  <2>2. MarksAlong(st) = MarksAlong(SubSeq(st, 1, Len(st) - 1)) \o MarksOf(st[Len(st)])
    BY <1>6, <2>1, AlongLast
  <2>3. MarksAlong(st) = MarksAlong(stack) \o <<cursor>>
    BY <1>5, <1>6, <1>7, <2>1, <2>2
  <2>4. QED
    BY <1>2, <2>3 DEF AllMarks
<1>9. AllMarks' = Append(AllMarks, cursor)
  <2>1. AllMarks \in Seq(0..cursor) /\ cursor \in 0..cursor
    BY <1>3, AllMarked
  <2> DEFINE S == 0..cursor
             a == AllMarks
  <2>2. a \in Seq(S) /\ cursor \in S
    BY <2>1
  <2> HIDE DEF S, a
  <2>3. a \o <<cursor>> = Append(a, cursor)
    BY <2>2
  <2>4. QED
    BY <1>8, <2>3 DEF a
<1>10. QED
  BY <1>2, <1>9, ReadsMark

(* The marks of the steps that follow the first one, which is none.        *)
LEMMA TailMarks ==
    ASSUME NEW ss, NEW S, MarkedIn(ss, S), ss # << >>, ss[1].do # "tried"
    PROVE  MarkedIn(Tail(ss), S) /\ MarksIn(Tail(ss)) = MarksIn(ss)
<1> DEFINE rest == Tail(ss)
           q == 2
<1>1. /\ IsSeq(ss) /\ Len(ss) \in Nat
      /\ \A i \in 1..Len(ss) : ss[i].do = "tried" => ss[i].at \in S
  BY LengthIsNat DEF MarkedIn
<1>2. /\ rest = SubSeq(ss, q, Len(ss)) /\ q \in 1..(Len(ss) + 1)
      /\ IsSeq(rest) /\ Len(rest) = Len(ss) - 1
      /\ \A i \in 1..(Len(ss) - 1) : rest[i] = ss[i + 1]
  BY <1>1, TailIsPart, TailSeq
<1>3. MarkedIn(rest, S)
  <2>1. \A i \in 1..(Len(ss) - 1) : i + 1 \in 1..Len(ss)
    BY <1>1
  <2> HIDE DEF rest
  <2>2. QED
    BY <1>1, <1>2, <2>1 DEF MarkedIn
<1>4. \A j \in 1..(q - 1) : ss[j].do # "tried"
  <2>1. \A j \in 1..(q - 1) : j = 1
    OBVIOUS
  <2>2. QED
    BY <2>1
<1> HIDE DEF q, rest
<1>5. MarksIn(rest) = MarksIn(ss)
  BY <1>2, <1>4, MarksPassed, Zenon
<1>6. QED
  BY <1>3, <1>5 DEF rest

(* What a function has to do when the one it called has returned.          *)
LEMMA ResumedIs ==
    ASSUME NEW ts, NEW f, NEW a, FrameOK(ts, f, a), f.todo # << >>, f.todo[1].do = "rules",
           NEW result
    PROVE  \E xs, ks : /\ IsSeq(xs) /\ \A j \in 1..Len(xs) : xs[j].do # "tried"
                       /\ Resumed(f, result) = GoesOn(f, xs \o Tail(f.todo), ks)
<1> DEFINE ss == f.todo
           call == ss[1]
           x == [call EXCEPT !.rules = Tail(@)]
<1>1. Sound(f.rule, f.start, Onward(ts, a, ss), ss)
  BY DEF FrameOK
<1>2. PICK p \in Places : StepOK(f.rule, p, call)
  BY <1>1, HeadPlace
<1>3. /\ call = [do |-> "rules", rules |-> call.rules, hit |-> call.hit, miss |-> call.miss]
      /\ call.hit \in Hits
  <2>1. call \in Steps(f.rule, p)
    BY <1>2, StepOKIs DEF Mark
  <2>2. QED
    BY <2>1, StepParts
<1>4. CASE result # Null
  <2> DEFINE xs == call.hit
             zs == xs \o Tail(ss)
             ks == Append(f.kids, result)
  <2>1. Resumed(f, result) = [f EXCEPT !.kids = ks, !.todo = zs]
    BY <1>4, Zenon DEF Resumed
  <2>2. IsSeq(xs) /\ \A j \in 1..Len(xs) : xs[j].do # "tried"
    BY <1>3, NoTries
  <2> HIDE DEF zs, ks
  <2>3. Resumed(f, result) = GoesOn(f, zs, ks)
    <3> DEFINE f2 == Resumed(f, result)
    <3>1. f2 = [f EXCEPT !.kids = ks, !.todo = zs]
      BY <2>1
    <3> HIDE DEF f2
    <3>2. f2 = GoesOn(f, zs, ks)
      BY <3>1, FrameWith, Zenon
    <3>3. QED
      BY <3>2 DEF f2
  <2>4. QED
    BY <2>2, <2>3, Zenon DEF zs
<1>5. ASSUME NEW y, y.do # "tried", Resumed(f, result) = [f EXCEPT !.todo = <<y>> \o Tail(ss)]
      PROVE  \E xs, ks : /\ IsSeq(xs) /\ \A j \in 1..Len(xs) : xs[j].do # "tried"
                         /\ Resumed(f, result) = GoesOn(f, xs \o Tail(ss), ks)
  <2> DEFINE xs == <<y>>
             zs == xs \o Tail(ss)
  <2>1. IsSeq(xs) /\ \A j \in 1..Len(xs) : xs[j].do # "tried"
    BY <1>5, NoTries
  <2>2. Resumed(f, result) = [f EXCEPT !.todo = zs]
    BY <1>5
  <2> HIDE DEF zs, xs
  <2>3. Resumed(f, result) = GoesOn(f, zs, f.kids)
    BY <2>2, FrameThen
  <2>4. QED
    BY <2>1, <2>3, Zenon DEF zs
<1>6. CASE result = Null /\ Len(call.rules) > 1
  <2>1. x.do # "tried"
    BY <1>3
  <2>2. Resumed(f, result) = [f EXCEPT !.todo = <<x>> \o Tail(ss)]
    BY <1>6, Zenon DEF Resumed
  <2> HIDE DEF x
  <2>3. QED
    BY <1>5, <2>1, <2>2
<1>7. CASE result = Null /\ ~(Len(call.rules) > 1)
  <2>1. Miss(call.miss).do # "tried"
    BY DEF Miss
  <2>2. Resumed(f, result) = [f EXCEPT !.todo = <<Miss(call.miss)>> \o Tail(ss)]
    BY <1>7, Zenon DEF Resumed
  <2>3. QED
    BY <1>5, <2>1, <2>2
<1>8. QED
  BY <1>4, <1>6, <1>7

(* Its own marks, and where it started, are what they were.                *)
LEMMA ResumedMarks ==
    ASSUME NEW ts, NEW f, NEW a \in Nat, FrameOK(ts, f, a),
           f.todo # << >>, f.todo[1].do = "rules", NEW result
    PROVE  MarksOf(Resumed(f, result)) = MarksOf(f)
<1> DEFINE f2 == Resumed(f, result)
<1>1. PICK xs, ks : /\ IsSeq(xs) /\ \A j \in 1..Len(xs) : xs[j].do # "tried"
                    /\ f2 = GoesOn(f, xs \o Tail(f.todo), ks)
  BY ResumedIs
<1> HIDE DEF f2
<1>2. f2.start = f.start /\ f2.todo = xs \o Tail(f.todo)
  BY <1>1 DEF GoesOn
<1>3. MarkedIn(f.todo, 0..a)
  <2>1. a <= a
    OBVIOUS
  <2>2. QED
    BY <2>1, FrameMarked
<1>4. MarkedIn(Tail(f.todo), 0..a) /\ MarksIn(Tail(f.todo)) = MarksIn(f.todo)
  BY <1>3, TailMarks
<1>5. MarksIn(xs \o Tail(f.todo)) = MarksIn(f.todo)
  BY <1>1, <1>4, MarksBefore
<1>6. MarksOf(f2) = MarksOf(f)
  BY <1>2, <1>5 DEF MarksOf
<1>7. QED
  BY <1>6 DEF f2

(* A function that returns forgets its marks.                              *)
LEMMA ReturnMarks ==
    ASSUME ParserInv, stack # << >>, NEW result, Return(result)
    PROVE  /\ Len(stack) = 1 => AllMarks' = << >>
           /\ Len(stack) # 1 => AllMarks' = MarksBelow
<1> DEFINE n == Len(stack)
           f == stack[n - 1]
           f2 == Resumed(f, result)
           low == SubSeq(stack, 1, n - 1)
           lower == SubSeq(stack, 1, n - 2)
           st == Append(lower, f2)
<1>1. n \in Nat \ {0} /\ IsSeq(stack)
  BY TopMarks
<1>2. ASSUME n = 1 PROVE AllMarks' = << >>
  <2>1. stack' = << >>
    BY <1>2, Zenon DEF Return
  <2>2. IsSeq(<< >>) /\ Len(<< >>) <= 1
    BY EmptyIsSeq
  <2>3. MarksAlong(<< >>) = << >>
    BY <2>2, AlongLast
  <2>4. QED
    BY <2>1, <2>3 DEF AllMarks
<1>3. ASSUME n # 1 PROVE AllMarks' = MarksBelow
  <2>1. stack' = st
    BY <1>3, Zenon DEF Return
  <2>2. /\ n > 1 /\ FrameOK(tokens, f, Top.start) /\ f.todo # << >> /\ f.todo[1].do = "rules"
    BY <1>3, CallerParts DEF Calls
  <2>3. Top.start \in Nat
    BY TopParts
  <2> HIDE DEF f
  <2>4. MarksOf(f2) = MarksOf(f)
    BY <2>2, <2>3, ResumedMarks
  <2> HIDE DEF f2
  <2>5. /\ IsSeq(low) /\ Len(low) = n - 1
        /\ \A k \in 1..(n - 1) : low[k] = stack[k]
    <3>1. 1 \in 1..(n + 1) /\ n - 1 \in (1 - 1)..n /\ n - 1 - 1 + 1 = n - 1
          /\ \A k \in 1..(n - 1) : 1 + k - 1 = k
      BY <1>1
    <3>2. /\ IsSeq(low) /\ Len(low) = n - 1 - 1 + 1
          /\ \A k \in 1..(n - 1 - 1 + 1) : low[k] = stack[1 + k - 1]
      <4>1. 1 \in 1..(Len(stack) + 1) /\ n - 1 \in (1 - 1)..Len(stack)
        BY <3>1
      <4> HIDE DEF n
      <4>2. QED
        BY <1>1, <4>1, PartSeq
    <3> HIDE DEF low
    <3>3. QED
      BY <3>1, <3>2
  <2>6. /\ IsSeq(lower) /\ Len(lower) = n - 2
        /\ \A k \in 1..(n - 2) : lower[k] = stack[k]
    <3>1. 1 \in 1..(n + 1) /\ n - 2 \in (1 - 1)..n /\ n - 2 - 1 + 1 = n - 2
          /\ \A k \in 1..(n - 2) : 1 + k - 1 = k
      BY <1>1, <2>2
    <3>2. /\ IsSeq(lower) /\ Len(lower) = n - 2 - 1 + 1
          /\ \A k \in 1..(n - 2 - 1 + 1) : lower[k] = stack[1 + k - 1]
      <4>1. 1 \in 1..(Len(stack) + 1) /\ n - 2 \in (1 - 1)..Len(stack)
        BY <3>1
      <4> HIDE DEF n
      <4>2. QED
        BY <1>1, <4>1, PartSeq
    <3> HIDE DEF lower
    <3>3. QED
      BY <3>1, <3>2
  <2> HIDE DEF low, lower
  <2>7. /\ IsSeq(st) /\ Len(st) = Len(lower) + 1 /\ st[Len(lower) + 1] = f2
        /\ \A k \in 1..Len(lower) : st[k] = lower[k]
    BY <2>6, AddedSeq
  <2> HIDE DEF st
  <2>8. Len(st) = n - 1 /\ st[n - 1] = f2 /\ \A k \in 1..(n - 2) : st[k] = stack[k]
    BY <1>1, <2>2, <2>6, <2>7
  <2>9. \A k \in 2..(n - 1) : MarksOf(st[k]) = MarksOf(low[k])
    <3>1. \A k \in 2..(n - 1) : k \in 1..(n - 1) /\ (k = n - 1 \/ k \in 1..(n - 2))
      BY <1>1
    <3>2. low[n - 1] = f
      <4>1. n - 1 \in 1..(n - 1)
        BY <1>1, <2>2
      <4>2. QED
        BY <2>5, <4>1 DEF f
    <3>3. QED
      BY <2>4, <2>5, <2>8, <3>1, <3>2
  <2>10. MarksAlong(st) = MarksAlong(low)
    BY <2>5, <2>7, <2>8, <2>9, AlongSame
  <2>11. QED
    BY <2>1, <2>10 DEF AllMarks, MarksBelow, low
<1>4. QED
  BY <1>2, <1>3

(* A function returns where it is, or where it started.                    *)
LEMMA ReturnReads ==
    ASSUME ParserInv, stack # << >>, NEW result, Return(result), tokens' = tokens,
           cursor' = cursor \/ (Len(stack) # 1 /\ cursor' = Top.start)
    PROVE  Reads
<1>1. CASE Len(stack) = 1
  <2>1. AllMarks = << >> /\ AllMarks' = << >> /\ cursor' = cursor
    BY <1>1, TopMarks, ReturnMarks
  <2>2. QED
    BY <2>1, ReadsMark
<1>2. CASE Len(stack) # 1
  <2> DEFINE S == 0..cursor
             below == MarksBelow
             x == MarksIn(Top.todo)
             a == Top.start
  <2>1. AllMarks' = below
    BY <1>2, ReturnMarks
  <2>2. below \in Seq(S) /\ AllMarks = below \o (<<a>> \o x)
    <3>1. Len(stack) > 1
      BY <1>2, CallerParts
    <3>2. QED
      BY <3>1, TopMarks DEF MarksOf
  <2>3. x \in Seq(S) /\ a \in S /\ AllMarks \in Seq(S) /\ 0 \in S
    <3>1. FrameOK(tokens, Top, cursor) /\ cursor \in Nat /\ cursor <= cursor
      BY TopParts, AllMarked
    <3>2. x \in Seq(S) /\ a \in S
      BY <3>1, FrameMarked
    <3>3. QED
      BY <3>1, <3>2, AllMarked
  <2> HIDE DEF S, below, x, a
  <2>4. <<a>> \o x \in Seq(S)
    BY <2>3
  <2>5. Begins(AllMarks', AllMarks) /\ AllMarks' \in Seq(S)
    BY <2>1, <2>2, <2>4, Beginnings
  <2>6. CASE cursor' = cursor
    BY <2>5, <2>6, ReadsBack DEF S
  <2>7. CASE cursor' = a
    <3> DEFINE b == below \o (<<a>> \o x)
    <3>1. b[Len(below) + 1] = a /\ Len(below) < Len(b)
      BY <2>2, <2>3
    <3> HIDE DEF b
    <3>2. Len(AllMarks') < Len(AllMarks) /\ cursor' = AllMarks[Len(AllMarks') + 1]
      <4>1. AllMarks = b
        BY <2>2 DEF b
      <4>2. QED
        BY <2>1, <2>7, <3>1, <4>1
    <3>3. Reader!PutBack
      BY <2>3, <2>5, <3>2, ReaderPutsBack
    <3>4. QED
      BY <3>3 DEF Reads, Reader!Next
  <2>8. QED
    BY <1>2, <2>6, <2>7 DEF a
<1>3. QED
  BY <1>1, <1>2

(* The cursor and the marks are back where the Try began.                  *)
LEMMA MissFailReads ==
    ASSUME ParserInv, MissFail, Len(stack) # 1
    PROVE  Reads
<1> DEFINE ss == Top.todo
           i == FirstMark("tried")
           tried == ss[i]
           q == i + 1
           c2 == tried.at
           zs == tried.otherwise \o From(q)
           S == 0..cursor
<1>1. /\ stack # << >> /\ ss # << >> /\ Head1 = ss[1] /\ ss[1].do = "miss"
      /\ ss[1].miss = "fail"
  BY DoingIs DEF MissFail
<1>2. cursor' = c2 /\ tokens' = tokens
  BY Zenon DEF MissFail
<1>3. Continue([Top EXCEPT !.kids = tried.kids, !.todo = zs])
  BY Zenon DEF MissFail
<1>4. /\ i \in 1..Len(ss) /\ i \in Nat /\ Len(ss) \in Nat /\ tried.do = "tried"
      /\ \A j \in 1..(i - 1) : ss[j].do # "tried"
      /\ c2 \in S
  BY <1>1, InnermostTry
<1> HIDE DEF i
<1>5. q \in 1..(Len(ss) + 1) /\ q > 1 /\ q - 1 = i /\ q - 2 = i - 1
  BY <1>4
<1>6. IsSeq(ss) /\ MarkedIn(ss, S)
  <2>1. FrameOK(tokens, Top, cursor) /\ cursor \in Nat /\ cursor <= cursor /\ IsSeq(ss)
    BY <1>1, TopParts, AllMarked
  <2>2. QED
    BY <2>1, FrameMarked
<1>7. MarksIn(From(q)) \in Seq(S) /\ MarksIn(ss) = Append(MarksIn(From(q)), c2)
  <2> HIDE DEF q
  <2>1. /\ MarksIn(From(q)) \in Seq(S)
        /\ (q > 1 /\ ss[q - 1].do = "tried" /\ \A j \in 1..(q - 2) : ss[j].do # "tried") =>
              MarksIn(ss) = Append(MarksIn(From(q)), ss[q - 1].at)
    BY <1>1, <1>5, FromMarks
  <2>2. QED
    BY <1>4, <1>5, <2>1
<1>8. MarkedIn(From(q), S)
  <2> DEFINE part == From(q)
  <2>1. q \in 1..(Len(ss) + 1) /\ Len(ss) \in (q - 1)..Len(ss)
        /\ \A k \in 1..(Len(ss) - q + 1) : q + k - 1 \in 1..Len(ss)
    BY <1>4, <1>5
  <2>2. /\ IsSeq(part) /\ Len(part) = Len(ss) - q + 1
        /\ \A k \in 1..(Len(ss) - q + 1) : part[k] = ss[q + k - 1]
    BY <1>6, <2>1, PartSeq DEF From
  <2> HIDE DEF part, q
  <2>3. MarkedIn(part, S)
    BY <1>6, <2>1, <2>2 DEF MarkedIn
  <2>4. QED
    BY <2>3 DEF part
<1>9. IsSeq(tried.otherwise) /\ \A j \in 1..Len(tried.otherwise) : tried.otherwise[j].do # "tried"
  <2>1. Sound(Top.rule, Top.start, cursor, ss)
    BY <1>1, SoundHere
  <2>2. QED
    BY <1>4, <2>1, OtherwiseIs
<1>10. MarksIn(zs) = MarksIn(From(q))
  BY <1>8, <1>9, MarksBefore
<1> HIDE DEF q, zs, c2
<1>11. MarksIn(zs) \in Seq(S) /\ MarksIn(ss) = Append(MarksIn(zs), c2)
  BY <1>7, <1>10
<1>12. AllMarks' \in Seq(S) /\ AllMarks = Append(AllMarks', c2)
  <2>1. \E ks : stack' = [stack EXCEPT ![Len(stack)] = GoesOn(Top, zs, ks)]
    BY <1>1, <1>3, WithGoesOn
  <2>2. Len(stack) > 1
    BY <1>1, CallerParts
  <2>3. QED
    BY <1>1, <1>4, <1>11, <2>1, <2>2, GoesOnMarks
<1>13. AllMarks \in Seq(S) /\ 0 \in S
  <2>1. cursor \in Nat /\ AllMarks \in Seq(0..cursor)
    BY AllMarked
  <2>2. QED
    BY <2>1
<1> HIDE DEF S
<1>14. Reader!PutBack
  <2> DEFINE b == AllMarks'
  <2>1. b \in Seq(S) /\ AllMarks = Append(b, c2) /\ c2 \in S
    BY <1>4, <1>12 DEF c2
  <2> HIDE DEF b
  <2>2. b \in Seq(S) /\ AllMarks \in Seq(S) /\ Begins(b, AllMarks)
    BY <1>13, <2>1, Beginnings
  <2>3. Len(b) < Len(AllMarks) /\ AllMarks[Len(b) + 1] = c2
    BY <2>1
  <2>4. cursor' = AllMarks[Len(b) + 1]
    BY <1>2, <2>3 DEF c2
  <2>5. QED
    BY <1>2, <1>13, <2>2, <2>3, <2>4, ReaderPutsBack DEF b
<1>15. QED
  BY <1>14 DEF Reads, Reader!Next

-----------------------------------------------------------------------------
(* parseScript goes on whatever it misses.                                 *)

CalmLeaf(s) ==
    /\ s.do \in {"token", "rules", "miss"} /\ s.miss \in {"skip", "report", "error"}
    /\ s.do = "rules" => s.hit = << >>

CalmLeaves(ss) == \A i \in 1..Len(ss) : CalmLeaf(ss[i])

CalmBranch(s) ==
    CalmLeaf(s) \/ (s.do = "branch" /\ CalmLeaves(s.then) /\ CalmLeaves(s.otherwise))

CalmBody(ss) == \A i \in 1..Len(ss) : CalmBranch(ss[i])

CalmStep(s) == CalmBranch(s) \/ (s.do \in {"loop", "again"} /\ CalmBody(s.body))

Calm(ss) == \A i \in 1..Len(ss) : CalmStep(ss[i])

ScriptCalm == stack # << >> => Calm(stack[1].todo)

(* Steps of these kinds, in a sequence.                                    *)
LEMMA CalmParts ==
    /\ \A ss : CalmLeaves(ss) => Calm(ss)
    /\ \A ss : CalmBody(ss) => Calm(ss)
    /\ \A s : CalmStep(s) => IsSeq(<<s>>) /\ Calm(<<s>>)
    /\ Calm(<< >>)
<1>1. \A s : CalmLeaf(s) => CalmStep(s)
  BY DEF CalmStep, CalmBranch
<1>2. ASSUME NEW s, CalmStep(s) PROVE IsSeq(<<s>>) /\ Calm(<<s>>)
  <2>1. IsSeq(<<s>>) /\ Len(<<s>>) = 1 /\ <<s>>[1] = s
    BY OneSeq
  <2> DEFINE x == <<s>>
  <2> HIDE DEF x
  <2>2. IsSeq(x) /\ Calm(x)
    BY <1>2, <2>1 DEF Calm, x
  <2>3. QED
    BY <2>2 DEF x
<1>3. Calm(<< >>)
  <2>1. Len(<< >>) = 0
    BY EmptyIsSeq
  <2>2. QED
    BY <2>1 DEF Calm
<1>4. QED
  BY <1>1, <1>2, <1>3 DEF Calm, CalmLeaves, CalmBody, CalmStep

LEMMA CalmJoined ==
    ASSUME NEW xs, NEW ys, IsSeq(xs), IsSeq(ys), Calm(xs), Calm(ys)
    PROVE  IsSeq(xs \o ys) /\ Calm(xs \o ys)
<1> DEFINE zs == xs \o ys
<1>1. /\ IsSeq(zs) /\ Len(zs) = Len(xs) + Len(ys)
      /\ \A i \in 1..Len(xs) : zs[i] = xs[i]
      /\ \A i \in 1..Len(ys) : zs[Len(xs) + i] = ys[i]
  BY JoinedSeq
<1>2. Len(xs) \in Nat /\ Len(ys) \in Nat
  BY LengthIsNat
<1> HIDE DEF zs
<1>3. ASSUME NEW i \in 1..Len(zs) PROVE CalmStep(zs[i])
  <2>1. CASE i \in 1..Len(xs)
    BY <1>1, <2>1 DEF Calm
  <2>2. CASE i \notin 1..Len(xs)
    <3>1. i - Len(xs) \in 1..Len(ys) /\ Len(xs) + (i - Len(xs)) = i
      BY <1>1, <1>2, <2>2
    <3>2. zs[i] = ys[i - Len(xs)]
      BY <1>1, <3>1
    <3>3. QED
      BY <3>1, <3>2 DEF Calm
  <2>3. QED
    BY <2>1, <2>2
<1>4. IsSeq(zs) /\ Calm(zs)
  BY <1>1, <1>3 DEF Calm
<1>5. QED
  BY <1>4 DEF zs

LEMMA CalmTail ==
    ASSUME NEW ss, IsSeq(ss), ss # << >>, Calm(ss)
    PROVE  CalmStep(ss[1]) /\ IsSeq(Tail(ss)) /\ Calm(Tail(ss))
<1> DEFINE rest == Tail(ss)
<1>1. /\ IsSeq(rest) /\ Len(rest) = Len(ss) - 1
      /\ \A i \in 1..(Len(ss) - 1) : rest[i] = ss[i + 1]
  BY TailSeq
<1>2. Len(ss) \in Nat \ {0}
  BY LengthIsNat, EmptyIsSeq
<1> HIDE DEF rest
<1>3. 1 \in 1..Len(ss) /\ \A i \in 1..(Len(ss) - 1) : i + 1 \in 1..Len(ss)
  BY <1>2
<1>4. CalmStep(ss[1]) /\ IsSeq(rest) /\ Calm(rest)
  BY <1>1, <1>3 DEF Calm
<1>5. QED
  BY <1>4 DEF rest

(* What parseScript has yet to do when it is on top.                       *)
LEMMA CalmTop ==
    ASSUME ParserInv, ScriptCalm, stack # << >>, Len(stack) = 1
    PROVE  /\ Top = stack[1] /\ IsSeq(Top.todo) /\ Calm(Top.todo)
           /\ Top.todo # << >> =>
                 /\ CalmStep(Head1) /\ IsSeq(Rest) /\ Calm(Rest)
                 /\ \A xs : IsSeq(xs) /\ Calm(xs) => Calm(xs \o Rest)
<1>1. Top = stack[1] /\ IsSeq(Top.todo) /\ Calm(Top.todo)
  BY TopParts DEF ScriptCalm, Top
<1>2. ASSUME Top.todo # << >> PROVE CalmStep(Head1) /\ IsSeq(Rest) /\ Calm(Rest)
  BY <1>1, <1>2, CalmTail DEF Head1, Rest
<1>3. QED
  BY <1>1, <1>2, CalmJoined

(* A change of the function on top.                                        *)
LEMMA CalmGoesOn ==
    ASSUME ParserInv, ScriptCalm, stack # << >>, NEW f, Continue(f),
           Len(stack) = 1 => Calm(f.todo)
    PROVE  ScriptCalm'
<1> DEFINE n == Len(stack)
<1>1. n \in Nat \ {0} /\ IsSeq(stack)
  BY TopMarks
<1>2. stack' = [stack EXCEPT ![n] = f]
  BY DEF Continue
<1>3. stack'[1] = IF n = 1 THEN f ELSE stack[1]
  <2>1. stack = [k \in 1..n |-> stack[k]] /\ 1 \in 1..n
    BY <1>1 DEF IsSeq
  <2> HIDE DEF n
  <2>2. QED
    BY <1>1, <1>2, <2>1
<1>4. Calm(stack'[1].todo)
  BY <1>3 DEF ScriptCalm
<1>5. QED
  BY <1>4 DEF ScriptCalm

(* ... that changes what it has yet to do.                                 *)
LEMMA CalmThen ==
    ASSUME ParserInv, ScriptCalm, stack # << >>, NEW zs, Then(zs), Len(stack) = 1 => Calm(zs)
    PROVE  ScriptCalm'
<1> DEFINE f == [Top EXCEPT !.todo = zs]
<1>1. Continue(f)
  BY Zenon DEF Then
<1>2. f.todo = zs
  <2>1. FrameOK(tokens, Top, cursor)
    BY TopParts
  <2>2. f = GoesOn(Top, zs, Top.kids)
    BY <2>1, FrameThen
  <2> HIDE DEF f
  <2>3. QED
    BY <2>2 DEF GoesOn
<1> HIDE DEF f
<1>3. QED
  BY <1>1, <1>2, CalmGoesOn

(* What parseScript may be doing.                                          *)
LEMMA CalmDoing ==
    ASSUME ParserInv, ScriptCalm, stack # << >>, Len(stack) = 1, Top.todo # << >>
    PROVE  /\ Head1.do \in {"token", "rules", "miss", "branch", "loop", "again"}
           /\ Head1.do \in {"token", "rules", "miss"} =>
                 Head1.miss \in {"skip", "report", "error"}
           /\ Head1.do = "rules" => Head1.hit = << >>
           /\ Head1.do = "branch" => Calm(Head1.then) /\ Calm(Head1.otherwise)
           /\ Head1.do \in {"loop", "again"} => Calm(Head1.body)
<1>1. CalmStep(Head1)
  BY CalmTop
<1>2. QED
  BY <1>1, CalmParts DEF CalmStep, CalmBranch, CalmLeaf

(* parseScript misses a token and goes on.                                 *)
LEMMA CalmMiss ==
    ASSUME NEW m \in {"skip", "report", "error"}
    PROVE  IsSeq(<<Miss(m)>>) /\ Calm(<<Miss(m)>>)
<1> DEFINE s == Miss(m)
<1>1. s.do = "miss" /\ s.miss = m
  BY DEF Miss
<1> HIDE DEF s
<1>2. CalmStep(s)
  BY <1>1 DEF CalmStep, CalmBranch, CalmLeaf
<1>3. IsSeq(<<s>>) /\ Calm(<<s>>)
  BY <1>2, CalmParts
<1>4. QED
  BY <1>3 DEF s

(* Each action leaves parseScript as calm as it was.                       *)
LEMMA TakeTokenCalm ==
    ASSUME ParserInv, ScriptCalm, TakeToken
    PROVE  ScriptCalm'
<1> DEFINE ks == IF Head1.keep THEN Append(Top.kids, Cur) ELSE Top.kids
           f == [Top EXCEPT !.todo = Rest, !.kids = ks]
<1>1. stack # << >> /\ Top.todo # << >>
  BY DoingIs DEF TakeToken
<1>2. Continue(f)
  BY Zenon DEF TakeToken
<1> HIDE DEF ks
<1>3. f.todo = Rest
  <2>1. FrameOK(tokens, Top, cursor)
    BY <1>1, TopParts
  <2>2. f = GoesOn(Top, Rest, ks)
    BY <2>1, FrameWith, Zenon
  <2> HIDE DEF f
  <2>3. QED
    BY <2>2 DEF GoesOn
<1>4. Len(stack) = 1 => Calm(Rest)
  BY <1>1, CalmTop
<1> HIDE DEF f
<1>5. QED
  BY <1>1, <1>2, <1>3, <1>4, CalmGoesOn

LEMMA MissTokenCalm ==
    ASSUME ParserInv, ScriptCalm, MissToken
    PROVE  ScriptCalm'
<1> DEFINE xs == <<Miss(Head1.miss)>>
           zs == xs \o Rest
<1>1. stack # << >> /\ Top.todo # << >> /\ Head1.do = "token"
  BY DoingIs DEF MissToken, Doing
<1>2. Then(zs)
  BY DEF MissToken
<1>3. ASSUME Len(stack) = 1 PROVE Calm(zs)
  <2>1. Head1.miss \in {"skip", "report", "error"}
    BY <1>1, <1>3, CalmDoing
  <2>2. IsSeq(xs) /\ Calm(xs)
    BY <2>1, CalmMiss
  <2> HIDE DEF xs
  <2>3. QED
    BY <1>1, <1>3, <2>2, CalmTop
<1> HIDE DEF zs
<1>4. QED
  BY <1>1, <1>2, <1>3, CalmThen

LEMMA TakeBranchCalm ==
    ASSUME ParserInv, ScriptCalm, TakeBranch
    PROVE  ScriptCalm'
<1>1. stack # << >> /\ Top.todo # << >> /\ Head1 = Top.todo[1]
      /\ Head1.do \in {"branch", "lambda", "nonEmpty"}
  BY DoingIs DEF TakeBranch, Doing
<1>2. CASE Len(stack) = 1
  <2> DEFINE xs == IF Passes(Head1.test) THEN Head1.then ELSE Head1.otherwise
             zs == xs \o Rest
  <2>1. Head1.do = "branch" /\ Calm(Head1.then) /\ Calm(Head1.otherwise)
    BY <1>1, <1>2, CalmDoing
  <2>2. Then(zs)
    BY <2>1 DEF TakeBranch, Doing
  <2>3. IsSeq(xs) /\ Calm(xs)
    <3>1. IsSeq(Head1.then) /\ IsSeq(Head1.otherwise)
      BY <1>1, <2>1, SoundHere, BranchParts
    <3>2. xs = Head1.then \/ xs = Head1.otherwise
      OBVIOUS
    <3> HIDE DEF xs
    <3>3. QED
      BY <2>1, <3>1, <3>2
  <2> HIDE DEF xs
  <2>4. Calm(zs)
    BY <1>1, <1>2, <2>3, CalmTop
  <2> HIDE DEF zs
  <2>5. QED
    BY <1>1, <2>2, <2>4, CalmThen
<1>3. CASE Len(stack) # 1
  <2>1. \E zs : Then(zs)
    BY Zenon DEF TakeBranch
  <2>2. QED
    BY <1>1, <1>3, <2>1, CalmThen
<1>4. QED
  BY <1>2, <1>3

LEMMA MissOnCalm ==
    ASSUME ParserInv, ScriptCalm, MissOn
    PROVE  ScriptCalm'
<1> DEFINE zs == Rest
<1>1. stack # << >> /\ Top.todo # << >> /\ Then(zs)
  BY DoingIs, Zenon DEF MissOn
<1>2. Len(stack) = 1 => Calm(zs)
  BY <1>1, CalmTop
<1> HIDE DEF zs
<1>3. QED
  BY <1>1, <1>2, CalmThen

LEMMA EnterLoopCalm ==
    ASSUME ParserInv, ScriptCalm, EnterLoop
    PROVE  ScriptCalm'
<1> DEFINE m == [Head1 EXCEPT !.do = "again"]
           ms == <<m>>
           body == Head1.body
           rs == ms \o Rest
           zs == (body \o ms) \o Rest
<1>1. stack # << >> /\ Top.todo # << >> /\ Head1 = Top.todo[1] /\ Head1.do = "loop"
  BY DoingIs DEF EnterLoop, Doing
<1>2. \E ys : Then(ys) /\ (ys = Rest \/ ys = zs)
  BY Zenon DEF EnterLoop
<1>3. ASSUME Len(stack) = 1 PROVE Calm(Rest) /\ Calm(zs)
  <2>1. Calm(body) /\ CalmStep(Head1)
    BY <1>1, <1>3, CalmDoing, CalmTop
  <2>2. CalmBody(body)
    BY <1>1, <2>1 DEF CalmStep, CalmBranch, CalmLeaf
  <2>3. Sound(Top.rule, Top.start, cursor, Top.todo)
    BY <1>1, SoundHere
  <2>4. IsSeq(body)
    BY <1>1, <2>3, SoundLoop
  <2>5. m.do = "again" /\ m.body = body
    <3>1. PICK c \in Places : StepOK(Top.rule, c, Head1)
      BY <1>1, <2>3, HeadPlace
    <3>2. Head1 \in Steps(Top.rule, c)
      BY <1>1, <3>1, StepOKIs DEF Mark
    <3>3. Head1 = [do |-> "loop", stop |-> Head1.stop, sep |-> Head1.sep, body |-> Head1.body]
      BY <1>1, <3>2, StepParts
    <3>4. \A s, a, b : s = [do |-> "loop", stop |-> a, sep |-> b, body |-> s.body] =>
             [s EXCEPT !.do = "again"].do = "again" /\ [s EXCEPT !.do = "again"].body = s.body
      OBVIOUS
    <3>5. QED
      BY <3>3, <3>4
  <2> HIDE DEF m, body
  <2>6. CalmStep(m)
    BY <2>2, <2>5 DEF CalmStep
  <2>7. IsSeq(ms) /\ Calm(ms)
    BY <2>6, CalmParts
  <2> HIDE DEF ms
  <2>8. IsSeq(body \o ms) /\ Calm(body \o ms)
    BY <2>1, <2>4, <2>7, CalmJoined
  <2>9. QED
    BY <1>1, <1>3, <2>8, CalmTop
<1> HIDE DEF zs
<1>4. QED
  BY <1>1, <1>2, <1>3, CalmThen

LEMMA NextRoundCalm ==
    ASSUME ParserInv, ScriptCalm, NextRound
    PROVE  ScriptCalm'
<1> DEFINE zs == Head1.body \o Top.todo
<1>1. stack # << >> /\ Top.todo # << >> /\ Head1 = Top.todo[1] /\ Head1.do = "again"
  BY DoingIs DEF NextRound, Doing
<1>2. \E ys : Then(ys) /\ (ys = Rest \/ ys = zs)
  BY Zenon DEF NextRound
<1>3. ASSUME Len(stack) = 1 PROVE Calm(Rest) /\ Calm(zs)
  <2>1. Calm(Head1.body) /\ IsSeq(Top.todo) /\ Calm(Top.todo) /\ Calm(Rest)
    BY <1>1, <1>3, CalmDoing, CalmTop
  <2>2. Sound(Top.rule, Top.start, cursor, Top.todo)
    BY <1>1, SoundHere
  <2>3. IsSeq(Head1.body)
    BY <1>1, <2>2, SoundAgain
  <2>4. QED
    BY <2>1, <2>3, CalmJoined
<1> HIDE DEF zs
<1>4. QED
  BY <1>1, <1>2, <1>3, CalmThen

LEMMA CallCalm ==
    ASSUME ParserInv, ScriptCalm, Call
    PROVE  ScriptCalm'
<1> DEFINE g == Frame(Head1.rules[1], cursor)
           st == Append(stack, g)
<1>1. stack # << >> /\ stack' = st
  BY DoingIs, Zenon DEF Call
<1>2. Len(stack) \in Nat \ {0} /\ IsSeq(stack)
  BY <1>1, TopMarks
<1> HIDE DEF g
<1>3. \A k \in 1..Len(stack) : st[k] = stack[k]
  BY <1>2, AddedSeq
<1> HIDE DEF st
<1>4. stack'[1] = stack[1]
  BY <1>1, <1>2, <1>3
<1>5. QED
  BY <1>1, <1>4 DEF ScriptCalm

(* parseScript takes up what a function has returned.                      *)
LEMMA ResumedCalm ==
    ASSUME NEW ts, NEW f, NEW a, FrameOK(ts, f, a), Calm(f.todo),
           f.todo # << >>, f.todo[1].do = "rules", NEW result
    PROVE  Calm(Resumed(f, result).todo)
<1> DEFINE ss == f.todo
           call == ss[1]
           x == [call EXCEPT !.rules = Tail(@)]
           f2 == Resumed(f, result)
<1>1. Sound(f.rule, f.start, Onward(ts, a, ss), ss) /\ IsSeq(ss)
  BY DEF FrameOK, Sound
<1>2. CalmStep(call) /\ IsSeq(Tail(ss)) /\ Calm(Tail(ss))
  BY <1>1, CalmTail
<1>3. call.miss \in {"skip", "report", "error"} /\ call.hit = << >>
  BY <1>2 DEF CalmStep, CalmBranch, CalmLeaf
<1>4. PICK p \in Places : StepOK(f.rule, p, call)
  BY <1>1, HeadPlace
<1>5. call = [do |-> "rules", rules |-> call.rules, hit |-> call.hit, miss |-> call.miss]
  <2>1. call \in Steps(f.rule, p)
    BY <1>4, StepOKIs DEF Mark
  <2>2. QED
    BY <2>1, StepParts
<1>6. ASSUME NEW xs, NEW ks, IsSeq(xs), Calm(xs), f2 = GoesOn(f, xs \o Tail(ss), ks)
      PROVE  Calm(f2.todo)
  <2>1. Calm(xs \o Tail(ss))
    BY <1>2, <1>6, CalmJoined
  <2> HIDE DEF f2
  <2>2. f2.todo = xs \o Tail(ss)
    BY <1>6 DEF GoesOn
  <2>3. QED
    BY <2>1, <2>2
<1>7. ASSUME NEW y, CalmStep(y), f2 = [f EXCEPT !.todo = <<y>> \o Tail(ss)]
      PROVE  Calm(f2.todo)
  <2> DEFINE xs == <<y>>
             zs == xs \o Tail(ss)
  <2>1. IsSeq(xs) /\ Calm(xs)
    BY <1>7, CalmParts
  <2>2. f2 = [f EXCEPT !.todo = zs]
    BY <1>7
  <2> HIDE DEF zs, f2
  <2>3. f2 = GoesOn(f, zs, f.kids)
    BY <2>2, FrameThen
  <2> HIDE DEF xs
  <2>4. f2 = GoesOn(f, xs \o Tail(ss), f.kids)
    BY <2>3 DEF zs
  <2>5. Calm(f2.todo)
    BY <1>6, <2>1, <2>4 DEF f2
  <2>6. QED
    BY <2>5 DEF f2
<1>8. CASE result # Null
  <2> DEFINE zs == call.hit \o Tail(ss)
             ks == Append(f.kids, result)
  <2>1. f2 = [f EXCEPT !.kids = ks, !.todo = zs]
    BY <1>8, Zenon DEF Resumed
  <2> HIDE DEF zs, ks, f2
  <2>2. f2 = GoesOn(f, zs, ks)
    BY <2>1, FrameWith, Zenon
  <2>3. IsSeq(call.hit) /\ Calm(call.hit)
    BY <1>3, CalmParts, EmptyIsSeq
  <2>4. f2 = GoesOn(f, call.hit \o Tail(ss), ks)
    BY <2>2 DEF zs
  <2>5. QED
    BY <1>6, <2>3, <2>4 DEF f2
<1>9. CASE result = Null /\ Len(call.rules) > 1
  <2>1. x.do = "rules" /\ x.hit = call.hit /\ x.miss = call.miss
    <3>1. \A s, b : s = [do |-> "rules", rules |-> b, hit |-> s.hit, miss |-> s.miss] =>
             /\ [s EXCEPT !.rules = Tail(@)].do = "rules"
             /\ [s EXCEPT !.rules = Tail(@)].hit = s.hit
             /\ [s EXCEPT !.rules = Tail(@)].miss = s.miss
      OBVIOUS
    <3>2. QED
      BY <1>5, <3>1
  <2>2. f2 = [f EXCEPT !.todo = <<x>> \o Tail(ss)]
    BY <1>9, Zenon DEF Resumed
  <2> HIDE DEF x, f2
  <2>3. CalmStep(x)
    BY <1>3, <2>1 DEF CalmStep, CalmBranch, CalmLeaf
  <2>4. QED
    BY <1>7, <2>2, <2>3 DEF f2
<1>10. CASE result = Null /\ ~(Len(call.rules) > 1)
  <2>1. CalmStep(Miss(call.miss))
    BY <1>3 DEF CalmStep, CalmBranch, CalmLeaf, Miss
  <2>2. f2 = [f EXCEPT !.todo = <<Miss(call.miss)>> \o Tail(ss)]
    BY <1>10, Zenon DEF Resumed
  <2> HIDE DEF f2
  <2>3. QED
    BY <1>7, <2>1, <2>2 DEF f2
<1>11. QED
  BY <1>8, <1>9, <1>10

(* A function above it returns, to it or to another one.                   *)
LEMMA ReturnCalm ==
    ASSUME ParserInv, ScriptCalm, stack # << >>, NEW result, Return(result)
    PROVE  ScriptCalm'
<1> DEFINE n == Len(stack)
           f == stack[n - 1]
           f2 == Resumed(f, result)
           lower == SubSeq(stack, 1, n - 2)
           st == Append(lower, f2)
<1>1. n \in Nat \ {0} /\ IsSeq(stack)
  BY TopMarks
<1>2. CASE n = 1
  <2>1. stack' = << >>
    BY <1>2, Zenon DEF Return
  <2>2. QED
    BY <2>1 DEF ScriptCalm
<1>3. CASE n # 1
  <2>1. stack' = st
    BY <1>3, Zenon DEF Return
  <2>2. /\ n > 1 /\ FrameOK(tokens, f, Top.start) /\ f.todo # << >> /\ f.todo[1].do = "rules"
    BY <1>3, CallerParts DEF Calls
  <2>3. Calm(f.todo) => Calm(f2.todo)
    <3> HIDE DEF f
    <3>1. QED
      BY <2>2, ResumedCalm
  <2> HIDE DEF f2
  <2>4. /\ IsSeq(lower) /\ Len(lower) = n - 2
        /\ \A k \in 1..(n - 2) : lower[k] = stack[k]
    <3>1. 1 \in 1..(n + 1) /\ n - 2 \in (1 - 1)..n /\ n - 2 - 1 + 1 = n - 2
          /\ \A k \in 1..(n - 2) : 1 + k - 1 = k
      BY <1>1, <2>2
    <3>2. /\ IsSeq(lower) /\ Len(lower) = n - 2 - 1 + 1
          /\ \A k \in 1..(n - 2 - 1 + 1) : lower[k] = stack[1 + k - 1]
      <4>1. 1 \in 1..(Len(stack) + 1) /\ n - 2 \in (1 - 1)..Len(stack)
        BY <3>1
      <4> HIDE DEF n
      <4>2. QED
        BY <1>1, <4>1, PartSeq
    <3> HIDE DEF lower
    <3>3. QED
      BY <3>1, <3>2
  <2> HIDE DEF lower
  <2>5. /\ IsSeq(st) /\ Len(st) = Len(lower) + 1 /\ st[Len(lower) + 1] = f2
        /\ \A k \in 1..Len(lower) : st[k] = lower[k]
    BY <2>4, AddedSeq
  <2> HIDE DEF st
  <2>6. CASE n = 2
    <3>1. st[1] = f2 /\ f = stack[1]
      BY <2>4, <2>5, <2>6
    <3>2. Calm(st[1].todo)
      BY <2>3, <3>1 DEF ScriptCalm
    <3>3. QED
      BY <2>1, <3>2 DEF ScriptCalm
  <2>7. CASE n # 2
    <3>1. 1 \in 1..(n - 2)
      <4>1. n \in Nat \ {0} /\ n > 1 /\ n # 2
        BY <1>1, <2>2, <2>7
      <4> HIDE DEF n
      <4>2. QED
        BY <4>1
    <3>2. st[1] = stack[1]
      BY <2>4, <2>5, <3>1
    <3>3. QED
      BY <2>1, <3>2 DEF ScriptCalm
  <2>8. QED
    BY <2>6, <2>7
<1>4. QED
  BY <1>2, <1>3

-----------------------------------------------------------------------------
(* The code of parseScript.                                                *)
LEMMA InitCalm == Init => ScriptCalm
<1> SUFFICES ASSUME Init PROVE ScriptCalm
  OBVIOUS
<1> DEFINE any == Any(ScriptKinds, "error")
           anys == <<any>>
           eats == <<Eat(";")>>
           step == IfElse(";", << >>, anys)
           body == <<step>>
           loop == Until(Never, body)
           code == <<loop>>
           g == Frame("Script", 0)
           st == <<g>>
<1>1. stack = st
  BY Zenon DEF Init
<1>2. st[1] = g
  BY OneSeq
<1>3. g.todo = code
  <2>1. Rules["Script"] = code
    BY Zenon DEF Rules, parseScript
  <2> HIDE DEF code
  <2>2. QED
    BY <2>1 DEF Frame
<1>4. CalmLeaf(any)
  BY DEF CalmLeaf, Any
<1>5. CalmLeaf(Eat(";"))
  BY DEF CalmLeaf, Eat, Token
<1>6. \A x : Len(<<x>>) = 1 /\ <<x>>[1] = x
  BY OneSeq
<1>7. CalmLeaves(anys) /\ CalmLeaves(eats)
  <2> HIDE DEF any
  <2>1. \A x : CalmLeaf(x) => CalmLeaves(<<x>>)
    BY <1>6 DEF CalmLeaves
  <2>2. QED
    BY <1>4, <1>5, <2>1
<1>8. step.do = "branch" /\ step.then = eats /\ step.otherwise = anys
  <2>1. eats \o << >> = eats
    BY OneSeq, JoinedEmpty
  <2> HIDE DEF anys, any
  <2>2. step = [do |-> "branch", test |-> Text(";"), then |-> <<Eat(";")>> \o << >>,
                otherwise |-> anys]
    BY Zenon DEF IfElse, Branch
  <2> HIDE DEF step, eats
  <2>3. step.do = "branch" /\ step.then = <<Eat(";")>> \o << >> /\ step.otherwise = anys
    BY <2>2
  <2>4. QED
    BY <2>1, <2>3 DEF eats
<1> HIDE DEF anys, eats, any, step
<1>9. CalmBranch(step)
  BY <1>7, <1>8 DEF CalmBranch
<1>10. CalmBody(body)
  <2>1. Len(<<step>>) = 1 /\ <<step>>[1] = step
    BY <1>6
  <2>2. QED
    BY <1>9, <2>1 DEF CalmBody
<1>11. loop.do = "loop" /\ loop.body = body
  BY DEF Until
<1> HIDE DEF body, loop
<1>12. CalmStep(loop)
  BY <1>10, <1>11 DEF CalmStep
<1>13. Calm(code)
  BY <1>12, CalmParts
<1> HIDE DEF code, st, g
<1>14. QED
  BY <1>1, <1>2, <1>3, <1>13 DEF ScriptCalm

LEMMA StepCalm ==
    ASSUME ParserInv, ScriptCalm, Step
    PROVE  ScriptCalm'
<1>1. CASE TakeToken \/ MissToken \/ TakeBranch \/ Call \/ MissOn \/ EnterLoop \/ NextRound
  BY <1>1, TakeTokenCalm, MissTokenCalm, TakeBranchCalm, CallCalm, MissOnCalm,
     EnterLoopCalm, NextRoundCalm
<1>2. CASE ReturnNode \/ ReturnChild \/ MissNull
  <2>1. stack # << >> /\ \E result : Return(result)
    BY <1>2, Zenon DEF ReturnNode, ReturnChild, MissNull, Doing
  <2>2. QED
    BY <2>1, ReturnCalm
<1>3. CASE MissBreak \/ MissFail \/ EnterTry \/ TrySucceeds \/ CloseTemplate \/ SkipMetadata
           \/ DropOlderTypes \/ RefuseSecondAccessor
  <2>1. /\ stack # << >> /\ Top.todo # << >>
        /\ \/ Head1.do \in {"try", "tried", "gt", "metadata", "dropTypes", "refuseSecond"}
           \/ Head1.do = "miss" /\ Head1.miss \in {"break", "fail"}
    BY <1>3 DEF MissBreak, MissFail, EnterTry, TrySucceeds, CloseTemplate, SkipMetadata,
                DropOlderTypes, RefuseSecondAccessor, Doing
  <2>2. Len(stack) # 1
    <3>1. SUFFICES ASSUME Len(stack) = 1 PROVE FALSE
      OBVIOUS
    <3>2. /\ Head1.do \in {"token", "rules", "miss", "branch", "loop", "again"}
          /\ Head1.do = "miss" => Head1.miss \in {"skip", "report", "error"}
      BY <2>1, <3>1, CalmDoing
    <3>3. QED
      BY <2>1, <3>2
  <2>3. \E f : Continue(f)
    BY <1>3, Zenon DEF MissBreak, MissFail, EnterTry, TrySucceeds, CloseTemplate, SkipMetadata,
                       DropOlderTypes, RefuseSecondAccessor, Then
  <2>4. QED
    BY <2>1, <2>2, <2>3, CalmGoesOn
<1>4. QED
  BY <1>1, <1>2, <1>3, Zenon DEF Step

LEMMA NextCalm == ParserInv /\ ScriptCalm /\ [Next]_vars => ScriptCalm'
<1> SUFFICES ASSUME ParserInv, ScriptCalm, [Next]_vars PROVE ScriptCalm'
  OBVIOUS
<1>1. CASE UNCHANGED vars
  BY <1>1 DEF vars, ScriptCalm
<1>2. CASE Step
  BY <1>2, StepCalm
<1>3. QED
  BY <1>1, <1>2, Zenon DEF Next, Finished

(* parseScript gives nothing back.                                         *)
LEMMA NotScript ==
    ASSUME ParserInv, ScriptCalm, Doing("miss"),
           Head1.miss \notin {"skip", "report", "error"}
    PROVE  Len(stack) # 1
<1>1. stack # << >> /\ Top.todo # << >> /\ Head1.do = "miss"
  BY DEF Doing
<1>2. QED
  BY <1>1, CalmDoing

LEMMA ReturnsRead ==
    ASSUME ParserInv, ScriptCalm, ReturnNode \/ ReturnChild \/ MissNull
    PROVE  Reads
<1>1. CASE ReturnNode \/ ReturnChild
  <2>1. stack # << >> /\ tokens' = tokens /\ cursor' = cursor /\ \E result : Return(result)
    BY <1>1, Zenon DEF ReturnNode, ReturnChild, Doing
  <2>2. QED
    BY <2>1, ReturnReads
<1>2. CASE MissNull
  <2>1. Doing("miss") /\ Head1.miss \in {"null", "back", "reportNull", "reportBack"}
    BY <1>2 DEF MissNull
  <2>2. Len(stack) # 1
    BY <2>1, NotScript
  <2>3. stack # << >> /\ tokens' = tokens /\ Return(Null)
    BY <1>2, Zenon DEF MissNull, Doing
  <2>4. cursor' = cursor \/ cursor' = Top.start
    BY <1>2 DEF MissNull
  <2>5. QED
    BY <2>2, <2>3, <2>4, ReturnReads
<1>3. QED
  BY <1>1, <1>2

(* Each action is a step of the reader, or none.                           *)
LEMMA StepReads ==
    ASSUME ParserInv, ParserInv', ScriptCalm, Step
    PROVE  Reads
<1>1. CASE MissFail
  <2>1. Doing("miss") /\ Head1.miss = "fail"
    BY <1>1, Zenon DEF MissFail
  <2>2. Len(stack) # 1
    BY <2>1, NotScript
  <2>3. QED
    BY <1>1, <2>2, MissFailReads
<1>2. QED
  BY <1>1, TakeTokenReads, MissTokenReads, TakeBranchReads, CallReads, ReturnsRead,
     MissOnReads, MissBreakReads, EnterLoopReads, NextRoundReads, EnterTryReads,
     TrySucceedsReads, CloseTemplateReads, SkipMetadataReads, DropOlderTypesReads,
     RefuseSecondAccessorReads, Zenon DEF Step

LEMMA NextReads ==
    ParserInv /\ ParserInv' /\ ScriptCalm /\ [Next]_vars => [Reader!Next]_(Reader!vars)
<1> SUFFICES ASSUME ParserInv, ParserInv', ScriptCalm, [Next]_vars
             PROVE  Reader!Next \/ UNCHANGED Reader!vars
  OBVIOUS
<1>1. CASE UNCHANGED vars
  <2>1. tokens' = tokens /\ cursor' = cursor /\ stack' = stack
    BY <1>1 DEF vars
  <2>2. AllMarks' = AllMarks
    BY <2>1 DEF AllMarks
  <2>3. QED
    BY <2>1, <2>2, ReadsMark DEF Reads
<1>2. CASE Step
  BY <1>2, StepReads DEF Reads
<1>3. QED
  BY <1>1, <1>2, Zenon DEF Next, Finished

LEMMA InitReads == Init => Reader!Init
<1> SUFFICES ASSUME Init PROVE Reader!Init
  OBVIOUS
<1> DEFINE st == <<Frame("Script", 0)>>
<1>1. source \in Inputs /\ tokens = source /\ cursor = 0 /\ stack = st
  BY Zenon DEF Init
<1>2. IsSeq(st) /\ Len(st) <= 1
  <2>1. IsSeq(st) /\ Len(st) = 1
    BY OneSeq
  <2> HIDE DEF st
  <2>2. QED
    BY <2>1
<1> HIDE DEF st
<1>3. AllMarks = << >>
  BY <1>1, <1>2, AlongLast DEF AllMarks
<1>4. Marked = << >>
  <2>1. IsSeq(Marked) /\ Len(Marked) = Len(AllMarks)
    <3>1. AllMarks \in Seq({})
      BY <1>3
    <3>2. QED
      BY <3>1, MarkedIs
  <2>2. Len(Marked) = 0
    BY <1>3, <2>1
  <2>3. QED
    BY <2>1, <2>2, EmptyIsSeq
<1>5. Unread(0) = UNION {Chars(source[i]) : i \in 1..Len(source)}
  BY <1>1 DEF Unread
<1>6. Unread(0) \in {UNION {Chars(ts[i]) : i \in 1..Len(ts)} : ts \in Inputs}
  BY <1>1, <1>5
<1>7. Unread(cursor) = Unread(0)
  BY <1>1
<1>8. QED
  BY <1>4, <1>6, <1>7 DEF Reader!Init

(* Whatever the source: every step of the parse functions takes text in    *)
(* order, sets or forgets a mark, or puts back what was read since one.    *)
(* For every rewindTo of parser.cpp there is a function that runs, or a    *)
(* Try that it is in, which saved that cursor, and what was read since is  *)
(* put back as it was, also when consumeOneGt has split a token.           *)
THEOREM ParsingReads == Spec => UsesReader
<1>1. Spec => []ScriptCalm
  BY InitCalm, NextCalm, Invariance, PTL DEF Spec
<1>2. QED
  BY <1>1, InitReads, NextReads, Invariance, PTL DEF Spec, UsesReader, Reader!Spec
=============================================================================
