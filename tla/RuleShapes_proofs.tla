-------------------------- MODULE RuleShapes_proofs --------------------------
(***************************************************************************)
(* Every parse function of ParserRules keeps the discipline of RuleShapes. *)
(*                                                                         *)
(* The functions are data, so this is about their text, and the proof goes *)
(* along it: each step is one of Steps because its parts are, and one step *)
(* of the function is named that it does not get past without a token.     *)
(*                                                                         *)
(* The second part is about what is left of a function as it does it.      *)
(***************************************************************************)
EXTENDS RuleShapes, SequenceTheorems, TLAPS

(* The places a step can be at.                                            *)
LEMMA PlacesClosed ==
    /\ {} \in Places /\ {"fed"} \in Places
    /\ \A c \in Places : /\ WhenFed(c) \in Places
                         /\ InALoop(c) \in Places
                         /\ InATry(c) \in Places
BY DEF Places, PlaceFlags, WhenFed, InALoop, InATry

(* The tests that the functions make are Tests.                            *)
LEMMA WordTests ==
    ASSUME NEW ts, ts \subseteq TestWords
    PROVE  OneOf(ts) \in Tests
BY DEF OneOf, Tests

LEMMA TextTests == \A t \in TestWords : Text(t) \in Tests
BY WordTests DEF Text

LEMMA NameTests ==
    /\ IsName \in Tests /\ Never \in Tests /\ Kind("String") \in Tests
    /\ \A t \in TestWords : Before(IsName, {t}) \in Tests
BY DEF IsName, Kind, Tests, Never, OneOf, Before

(* What a step may do on a miss, by where it is.                           *)
LEMMA CarryOn ==
    ASSUME NEW c \in Places
    PROVE  /\ \A m \in GivesUp \cup {"skip", "report", "error"} : m \in MissesIn(c)
           /\ "loop" \in c => "break" \in MissesIn(c)
           /\ "try" \in c => "fail" \in MissesIn(c)
BY DEF MissesIn, Misses, GivesUp

(* The steps that have no steps in them.                                   *)
LEMMA TokenIn ==
    ASSUME NEW r, NEW c, NEW t \in Tests, NEW m \in MissesIn(c)
    PROVE  Token(t, m) \in Simple(r, c) /\ Keep(t, m) \in Simple(r, c)
BY SMT DEF Simple, Token, Keep

LEMMA WordIn ==
    ASSUME NEW r, NEW c \in Places, NEW t \in TestWords
    PROVE  /\ Want(t) \in Simple(r, c) /\ WantBack(t) \in Simple(r, c)
           /\ Eat(t) \in Simple(r, c) /\ Expect(t) \in Simple(r, c)
           /\ Must(t) \in Simple(r, c) /\ MustBack(t) \in Simple(r, c)
BY TextTests, TokenIn, CarryOn DEF Want, WantBack, Eat, Expect, Must, MustBack, GivesUp

LEMMA CallIn ==
    ASSUME NEW r, NEW c,
           NEW rs \in Seq(Bearing) \ {<< >>},
           NEW m \in MissesIn(c)
    PROVE  /\ Any(rs, m) \in Simple(r, c)
           /\ AnyDone(rs, m) \in Simple(r, c)
           /\ Offer(rs, m) \in Simple(r, c)
BY SMT DEF Simple, Any, AnyDone, Offer, Hits

LEMMA MissIn ==
    ASSUME NEW r, NEW c, NEW m \in MissesIn(c)
    PROVE  Miss(m) \in Simple(r, c) /\ NonEmpty(m) \in Simple(r, c)
BY SMT DEF Simple, Miss, NonEmpty

LEMMA OtherIn ==
    ASSUME NEW r, NEW c
    PROVE  /\ Metadata \in Simple(r, c)
           /\ "fed" \in c => Done \in Simple(r, c) /\ Give \in Simple(r, c)
           /\ "try" \in c => SucceedAtGt \in Simple(r, c)
           /\ r = "Scope" => DropTypes \in Simple(r, c)
           /\ r = "VirtualProp" => RefuseSecond \in Simple(r, c)
BY SMT DEF Simple, Specials, Metadata, Done, Give, SucceedAtGt, DropTypes, RefuseSecond

(* The steps that have others in them.                                     *)
LEMMA SimpleIn ==
    \A r, c, A, F, L, T : Simple(r, c) \subseteq Made(r, c, A, F, L, T)
BY SMT DEF Made

LEMMA BranchIn ==
    ASSUME NEW r, NEW c, NEW A, NEW F, NEW L, NEW T,
           NEW t \in Tests, NEW xs, NEW ys \in Seq(A),
           xs \in Seq(A) \/ (xs \in Seq(F) /\ Guarded(Branch(t, xs, ys)))
    PROVE Branch(t, xs, ys) \in Made(r, c, A, F, L, T)
BY SMT DEF Made, Branch

LEMMA LoopIn ==
    ASSUME NEW r, NEW c, NEW A, NEW F, NEW L, NEW T, NEW t \in Tests, NEW xs \in Seq(L)
    PROVE /\ Until(t, xs) \in Made(r, c, A, F, L, T)
          /\ List(t, xs) \in Made(r, c, A, F, L, T)
          /\ TrailingList(t, xs) \in Made(r, c, A, F, L, T)
BY SMT DEF Made, Until, List, TrailingList, Separators

LEMMA TryIn ==
    ASSUME NEW r, NEW c, NEW A, NEW F, NEW L, NEW T, NEW xs \in Seq(T), NEW ys \in Seq(A)
    PROVE Try(xs, ys) \in Made(r, c, A, F, L, T)
BY SMT DEF Made, Try

LEMMA LambdaIn ==
    ASSUME NEW r, NEW c, NEW A, NEW F, NEW L, NEW T, NEW xs \in Seq(A)
    PROVE IfLambda(xs) \in Made(r, c, A, F, L, T)
BY SMT DEF Made, IfLambda

(* Who may nest deep may also nest less deep.                              *)
LEMMA MadeMonotone ==
    ASSUME NEW r, NEW c, NEW A, NEW F, NEW L, NEW T, NEW B, NEW G, NEW M, NEW U,
           A \subseteq B, F \subseteq G, L \subseteq M, T \subseteq U
    PROVE  Made(r, c, A, F, L, T) \subseteq Made(r, c, B, G, M, U)
<1>1. ASSUME NEW X, NEW Y, X \subseteq Y PROVE Seq(X) \subseteq Seq(Y)
  BY <1>1
<1>2. Seq(A) \subseteq Seq(B) /\ Seq(F) \subseteq Seq(G) /\ Seq(L) \subseteq Seq(M) /\ Seq(T) \subseteq Seq(U)
  BY <1>1
<1>3. QED
  BY <1>2 DEF Made

LEMMA Depths ==
    ASSUME NEW r
    PROVE \A c \in Places : 
           /\ Depth1(r, c) \subseteq Depth2(r, c) /\ Depth2(r, c) \subseteq Depth3(r, c)
           /\ Depth3(r, c) \subseteq Depth4(r, c) /\ Depth4(r, c) \subseteq Depth5(r, c)
           /\ Depth5(r, c) \subseteq Steps(r, c)
<1>1. \A c \in Places : Depth1(r, c) \subseteq Depth2(r, c)
  BY MadeMonotone, SMT DEF Depth1, Depth2
<1>2. \A c \in Places : Depth2(r, c) \subseteq Depth3(r, c)
  BY <1>1, PlacesClosed, MadeMonotone, SMT DEF Depth2, Depth3
<1>3. \A c \in Places : Depth3(r, c) \subseteq Depth4(r, c)
  BY <1>2, PlacesClosed, MadeMonotone, SMT DEF Depth3, Depth4
<1>4. \A c \in Places : Depth4(r, c) \subseteq Depth5(r, c)
  BY <1>3, PlacesClosed, MadeMonotone, SMT DEF Depth4, Depth5
<1>5. \A c \in Places : Depth5(r, c) \subseteq Steps(r, c)
  BY <1>4, PlacesClosed, MadeMonotone, SMT DEF Depth5, Steps
<1>6. QED
  BY <1>1, <1>2, <1>3, <1>4, <1>5

(* if (t) { consume; ... }: what is in it has consumed a token.            *)
LEMMA Prefixed ==
    ASSUME NEW S, NEW x \in S, NEW xs \in Seq(S)
    PROVE  <<x>> \o xs \in Seq(S) /\ <<x>> \o xs # << >> /\ (<<x>> \o xs)[1] = x
OBVIOUS

LEMMA IfElseIn ==
    ASSUME NEW r, NEW c \in Places, NEW A, NEW F, NEW L, NEW T, NEW t \in TestWords,
           NEW xs \in Seq(F), NEW ys \in Seq(A), Simple(r, WhenFed(c)) \subseteq F
    PROVE  IfElse(t, xs, ys) \in Made(r, c, A, F, L, T)
<1> DEFINE zs == <<Eat(t)>> \o xs
<1>1. Eat(t) \in F
  BY WordIn, PlacesClosed
<1>2. zs \in Seq(F) /\ zs # << >> /\ zs[1] = Eat(t)
  BY <1>1, Prefixed
<1> HIDE DEF zs
<1>3. Guarded(Branch(Text(t), zs, ys))
  BY <1>2 DEF Guarded, Branch, Eat, Token
<1>4. Branch(Text(t), zs, ys) \in Made(r, c, A, F, L, T)
  BY <1>2, <1>3, BranchIn, TextTests, Zenon
<1>5. QED
  BY <1>4, Zenon DEF IfElse, zs

(* The steps of the parse functions, by how deep they are nested.          *)
LEMMA SimpleSteps ==
    ASSUME NEW r, NEW c
    PROVE  /\ Simple(r, c) \subseteq Depth1(r, c) /\ Simple(r, c) \subseteq Depth2(r, c)
          /\ Simple(r, c) \subseteq Depth3(r, c) /\ Simple(r, c) \subseteq Depth4(r, c)
          /\ Simple(r, c) \subseteq Depth5(r, c) /\ Simple(r, c) \subseteq Steps(r, c)
<1>1. Simple(r, c) \subseteq Depth1(r, c)
  BY SimpleIn, Zenon DEF Depth1
<1>2. Simple(r, c) \subseteq Depth2(r, c)
  BY SimpleIn, Zenon DEF Depth2
<1>3. Simple(r, c) \subseteq Depth3(r, c)
  BY SimpleIn, Zenon DEF Depth3
<1>4. Simple(r, c) \subseteq Depth4(r, c)
  BY SimpleIn, Zenon DEF Depth4
<1>5. Simple(r, c) \subseteq Depth5(r, c)
  BY SimpleIn, Zenon DEF Depth5
<1>6. Simple(r, c) \subseteq Steps(r, c)
  BY SimpleIn, Zenon DEF Steps
<1>7. QED
  BY <1>1, <1>2, <1>3, <1>4, <1>5, <1>6

LEMMA IfElseSteps ==
    ASSUME NEW r, NEW c \in Places
    PROVE  /\ \A t \in TestWords, xs \in Seq(Depth5(r, WhenFed(c))), ys \in Seq(Depth5(r, c)) :
                 IfElse(t, xs, ys) \in Steps(r, c)
           /\ \A t \in TestWords, xs \in Seq(Depth4(r, WhenFed(c))), ys \in Seq(Depth4(r, c)) :
                 IfElse(t, xs, ys) \in Depth5(r, c)
           /\ \A t \in TestWords, xs \in Seq(Depth3(r, WhenFed(c))), ys \in Seq(Depth3(r, c)) :
                 IfElse(t, xs, ys) \in Depth4(r, c)
           /\ \A t \in TestWords, xs \in Seq(Depth2(r, WhenFed(c))), ys \in Seq(Depth2(r, c)) :
                 IfElse(t, xs, ys) \in Depth3(r, c)
           /\ \A t \in TestWords, xs \in Seq(Depth1(r, WhenFed(c))), ys \in Seq(Depth1(r, c)) :
                 IfElse(t, xs, ys) \in Depth2(r, c)
<1>1. \A t \in TestWords, xs \in Seq(Depth5(r, WhenFed(c))), ys \in Seq(Depth5(r, c)) :
            IfElse(t, xs, ys) \in Steps(r, c)
  BY IfElseIn, SimpleSteps, Zenon DEF Steps
<1>2. \A t \in TestWords, xs \in Seq(Depth4(r, WhenFed(c))), ys \in Seq(Depth4(r, c)) :
            IfElse(t, xs, ys) \in Depth5(r, c)
  BY IfElseIn, SimpleSteps, Zenon DEF Depth5
<1>3. \A t \in TestWords, xs \in Seq(Depth3(r, WhenFed(c))), ys \in Seq(Depth3(r, c)) :
            IfElse(t, xs, ys) \in Depth4(r, c)
  BY IfElseIn, SimpleSteps, Zenon DEF Depth4
<1>4. \A t \in TestWords, xs \in Seq(Depth2(r, WhenFed(c))), ys \in Seq(Depth2(r, c)) :
            IfElse(t, xs, ys) \in Depth3(r, c)
  BY IfElseIn, SimpleSteps, Zenon DEF Depth3
<1>5. \A t \in TestWords, xs \in Seq(Depth1(r, WhenFed(c))), ys \in Seq(Depth1(r, c)) :
            IfElse(t, xs, ys) \in Depth2(r, c)
  BY IfElseIn, SimpleSteps, Zenon DEF Depth2
<1>6. QED
  BY <1>1, <1>2, <1>3, <1>4, <1>5

LEMMA BranchSteps ==
    ASSUME NEW r, NEW c \in Places
    PROVE  /\ \A t \in Tests, xs, ys \in Seq(Depth5(r, c)) :
                 Branch(t, xs, ys) \in Steps(r, c)
           /\ \A t \in Tests, xs, ys \in Seq(Depth4(r, c)) :
                 Branch(t, xs, ys) \in Depth5(r, c)
           /\ \A t \in Tests, xs, ys \in Seq(Depth3(r, c)) :
                 Branch(t, xs, ys) \in Depth4(r, c)
           /\ \A t \in Tests, xs, ys \in Seq(Depth2(r, c)) :
                 Branch(t, xs, ys) \in Depth3(r, c)
           /\ \A t \in Tests, xs, ys \in Seq(Depth1(r, c)) :
                 Branch(t, xs, ys) \in Depth2(r, c)
<1>1. \A t \in Tests, xs, ys \in Seq(Depth5(r, c)) :
            Branch(t, xs, ys) \in Steps(r, c)
  BY BranchIn, Zenon DEF Steps
<1>2. \A t \in Tests, xs, ys \in Seq(Depth4(r, c)) :
            Branch(t, xs, ys) \in Depth5(r, c)
  BY BranchIn, Zenon DEF Depth5
<1>3. \A t \in Tests, xs, ys \in Seq(Depth3(r, c)) :
            Branch(t, xs, ys) \in Depth4(r, c)
  BY BranchIn, Zenon DEF Depth4
<1>4. \A t \in Tests, xs, ys \in Seq(Depth2(r, c)) :
            Branch(t, xs, ys) \in Depth3(r, c)
  BY BranchIn, Zenon DEF Depth3
<1>5. \A t \in Tests, xs, ys \in Seq(Depth1(r, c)) :
            Branch(t, xs, ys) \in Depth2(r, c)
  BY BranchIn, Zenon DEF Depth2
<1>6. QED
  BY <1>1, <1>2, <1>3, <1>4, <1>5

LEMMA LoopSteps ==
    ASSUME NEW r, NEW c \in Places
    PROVE  /\ \A t \in Tests, xs \in Seq(Depth5(r, InALoop(c))) :
                 /\ Until(t, xs) \in Steps(r, c) /\ List(t, xs) \in Steps(r, c)
                 /\ TrailingList(t, xs) \in Steps(r, c)
           /\ \A t \in Tests, xs \in Seq(Depth4(r, InALoop(c))) :
                 /\ Until(t, xs) \in Depth5(r, c) /\ List(t, xs) \in Depth5(r, c)
                 /\ TrailingList(t, xs) \in Depth5(r, c)
           /\ \A t \in Tests, xs \in Seq(Depth3(r, InALoop(c))) :
                 /\ Until(t, xs) \in Depth4(r, c) /\ List(t, xs) \in Depth4(r, c)
                 /\ TrailingList(t, xs) \in Depth4(r, c)
           /\ \A t \in Tests, xs \in Seq(Depth2(r, InALoop(c))) :
                 /\ Until(t, xs) \in Depth3(r, c) /\ List(t, xs) \in Depth3(r, c)
                 /\ TrailingList(t, xs) \in Depth3(r, c)
           /\ \A t \in Tests, xs \in Seq(Depth1(r, InALoop(c))) :
                 /\ Until(t, xs) \in Depth2(r, c) /\ List(t, xs) \in Depth2(r, c)
                 /\ TrailingList(t, xs) \in Depth2(r, c)
<1>1. \A t \in Tests, xs \in Seq(Depth5(r, InALoop(c))) :
            /\ Until(t, xs) \in Steps(r, c) /\ List(t, xs) \in Steps(r, c)
            /\ TrailingList(t, xs) \in Steps(r, c)
  BY LoopIn, Zenon DEF Steps
<1>2. \A t \in Tests, xs \in Seq(Depth4(r, InALoop(c))) :
            /\ Until(t, xs) \in Depth5(r, c) /\ List(t, xs) \in Depth5(r, c)
            /\ TrailingList(t, xs) \in Depth5(r, c)
  BY LoopIn, Zenon DEF Depth5
<1>3. \A t \in Tests, xs \in Seq(Depth3(r, InALoop(c))) :
            /\ Until(t, xs) \in Depth4(r, c) /\ List(t, xs) \in Depth4(r, c)
            /\ TrailingList(t, xs) \in Depth4(r, c)
  BY LoopIn, Zenon DEF Depth4
<1>4. \A t \in Tests, xs \in Seq(Depth2(r, InALoop(c))) :
            /\ Until(t, xs) \in Depth3(r, c) /\ List(t, xs) \in Depth3(r, c)
            /\ TrailingList(t, xs) \in Depth3(r, c)
  BY LoopIn, Zenon DEF Depth3
<1>5. \A t \in Tests, xs \in Seq(Depth1(r, InALoop(c))) :
            /\ Until(t, xs) \in Depth2(r, c) /\ List(t, xs) \in Depth2(r, c)
            /\ TrailingList(t, xs) \in Depth2(r, c)
  BY LoopIn, Zenon DEF Depth2
<1>6. QED
  BY <1>1, <1>2, <1>3, <1>4, <1>5

LEMMA TrySteps ==
    ASSUME NEW r, NEW c \in Places
    PROVE  /\ \A xs \in Seq(Depth5(r, InATry(c))), ys \in Seq(Depth5(r, c)) :
                 Try(xs, ys) \in Steps(r, c)
           /\ \A xs \in Seq(Depth4(r, InATry(c))), ys \in Seq(Depth4(r, c)) :
                 Try(xs, ys) \in Depth5(r, c)
           /\ \A xs \in Seq(Depth3(r, InATry(c))), ys \in Seq(Depth3(r, c)) :
                 Try(xs, ys) \in Depth4(r, c)
           /\ \A xs \in Seq(Depth2(r, InATry(c))), ys \in Seq(Depth2(r, c)) :
                 Try(xs, ys) \in Depth3(r, c)
           /\ \A xs \in Seq(Depth1(r, InATry(c))), ys \in Seq(Depth1(r, c)) :
                 Try(xs, ys) \in Depth2(r, c)
<1>1. \A xs \in Seq(Depth5(r, InATry(c))), ys \in Seq(Depth5(r, c)) :
            Try(xs, ys) \in Steps(r, c)
  BY TryIn, Zenon DEF Steps
<1>2. \A xs \in Seq(Depth4(r, InATry(c))), ys \in Seq(Depth4(r, c)) :
            Try(xs, ys) \in Depth5(r, c)
  BY TryIn, Zenon DEF Depth5
<1>3. \A xs \in Seq(Depth3(r, InATry(c))), ys \in Seq(Depth3(r, c)) :
            Try(xs, ys) \in Depth4(r, c)
  BY TryIn, Zenon DEF Depth4
<1>4. \A xs \in Seq(Depth2(r, InATry(c))), ys \in Seq(Depth2(r, c)) :
            Try(xs, ys) \in Depth3(r, c)
  BY TryIn, Zenon DEF Depth3
<1>5. \A xs \in Seq(Depth1(r, InATry(c))), ys \in Seq(Depth1(r, c)) :
            Try(xs, ys) \in Depth2(r, c)
  BY TryIn, Zenon DEF Depth2
<1>6. QED
  BY <1>1, <1>2, <1>3, <1>4, <1>5
-----------------------------------------------------------------------------
(* What a function has yet to do, as a sequence.                           *)
LEMMA SeqIsSeq ==
    ASSUME NEW S, NEW s \in Seq(S)
    PROVE  IsSeq(s)
<1>1. Len(s) \in Nat /\ DOMAIN s = 1..Len(s)
  OBVIOUS
<1>2. s = [i \in DOMAIN s |-> s[i]]
  OBVIOUS
<1>3. QED
  BY <1>1, <1>2 DEF IsSeq

LEMMA LengthIsNat == \A s : IsSeq(s) => Len(s) \in Nat
BY DEF IsSeq

(* Marks are put in todo while a function runs, none is in its code.       *)
LEMMA StepsAreNoMarks ==
    ASSUME NEW r, NEW c, NEW s \in Steps(r, c)
    PROVE  ~Mark(s)
BY SMT DEF Mark, Steps, Made, Simple, Specials

(* A function keeps the discipline if its k-th step feeds, the steps       *)
(* before it are fit for a function that has consumed nothing yet, and     *)
(* those behind it for one that has.                                       *)
LEMMA SoundAt ==
    ASSUME NEW r, NEW start, NEW at, NEW ss, NEW k \in 1..Len(ss), IsSeq(ss), Feeds(ss[k]),
           \A i \in 1..k : ss[i] \in Steps(r, {}), 
           \A i \in (k + 1)..Len(ss) : ss[i] \in Steps(r, {"fed"})
    PROVE  Sound(r, start, at, ss)
<1> Len(ss) \in Nat /\ k \in Nat
  BY LengthIsNat
<1>0. \A i \in (k+1)..Len(ss) : ~Mark(ss[i])
  BY StepsAreNoMarks
<1>1. ASSUME NEW i \in (k+1)..(Len(ss) + 1) PROVE FedBy(start, at, ss, i)
  <2>1. k \in 1..(i - 1) /\ \A j \in (k + 1)..(i - 1) : ~Mark(ss[j])
    BY <1>0
  <2>2. QED
    BY <2>1 DEF FedBy
<1>2. ASSUME NEW i \in 1..Len(ss) PROVE \E c \in Places :
          /\ PlacedIn(c, ss, i) /\ StepOK(r, c, ss[i])
          /\ "fed" \in c => FedBy(start, at, ss, i)
  <2>1. CASE i \in 1..k
    <3>1. PlacedIn({}, ss, i)
      BY DEF PlacedIn
    <3>2. StepOK(r, {}, ss[i])
      BY <2>1 DEF StepOK
    <3> DEFINE c == {}
    <3>3. c \in Places /\ "fed" \notin c
      BY PlacesClosed
    <3>4. QED
      BY <3>1, <3>2, <3>3
  <2>2. CASE i \in (k+1)..Len(ss)
    <3>1. PlacedIn({"fed"}, ss, i)
      BY DEF PlacedIn
    <3>2. StepOK(r, {"fed"}, ss[i])
      BY <2>2 DEF StepOK
    <3>3. FedBy(start, at, ss, i)
      BY <1>1, <2>2
    <3>4. QED
      BY <3>1, <3>2, <3>3, PlacesClosed
  <2>3. QED
    BY <2>1, <2>2
<1>3. FedBy(start, at, ss, Len(ss) + 1)
  BY <1>1
<1>4. QED
  BY <1>2, <1>3 DEF Sound

LEMMA SoundIf ==
    ASSUME NEW r, NEW start, NEW at, NEW S, NEW T, S = Steps(r, {}), T = Steps(r, {"fed"}),
           NEW ss \in Seq(S \cup T), NEW k \in 1..Len(ss), Feeds(ss[k]),
           \A i \in 1..Len(ss) : (i <= k => ss[i] \in S) /\ (i > k => ss[i] \in T)
    PROVE  Fresh(r, start, at, ss)
<1>1. Len(ss) \in Nat /\ k \in Nat
  OBVIOUS
<1>2. \A i \in 1..k : ss[i] \in S
  BY <1>1
<1>3. \A i \in (k + 1)..Len(ss) : ss[i] \in T
  BY <1>1
<1>4. \A i \in 1..Len(ss) : ~Mark(ss[i])
  BY StepsAreNoMarks
<1>5. QED
  BY <1>2, <1>3, <1>4, SeqIsSeq, SoundAt DEF Fresh

(* The same for tuples of steps, SoundNAtK for N steps of which the K-th   *)
(* feeds.                                                                  *)
LEMMA Sound1At1 ==
    ASSUME NEW r, NEW start, NEW at,
           NEW a \in Steps(r, {}), Feeds(a)
    PROVE  Fresh(r, start, at, <<a>>)
<1> DEFINE S == Steps(r, {})
           T == Steps(r, {"fed"})
           ss == <<a>>
<1> HIDE DEF S, T
<1>1. ss \in Seq(S \cup T) /\ Len(ss) = 1 /\ ss[1] = a
  BY DEF S, T
<1>2. \A i \in 1..1 : (i <= 1 => ss[i] \in S) /\ (i > 1 => ss[i] \in T)
  BY DEF S, T
<1> HIDE DEF ss
<1>3. /\ 1 \in 1..Len(ss) /\ Feeds(ss[1])
      /\ \A i \in 1..Len(ss) : (i <= 1 => ss[i] \in S) /\ (i > 1 => ss[i] \in T)
  BY <1>1, <1>2
<1>4. Fresh(r, start, at, ss)
  BY SoundIf, <1>1, <1>3, Zenon DEF S, T
<1>5. QED
  BY <1>4 DEF ss

LEMMA Sound2At1 ==
    ASSUME NEW r, NEW start, NEW at,
           NEW a \in Steps(r, {}), Feeds(a), NEW b \in Steps(r, {"fed"})
    PROVE  Fresh(r, start, at, <<a, b>>)
<1> DEFINE S == Steps(r, {})
           T == Steps(r, {"fed"})
           ss == <<a, b>>
<1> HIDE DEF S, T
<1>1. ss \in Seq(S \cup T) /\ Len(ss) = 2 /\ ss[1] = a
  BY DEF S, T
<1>2. \A i \in 1..2 : (i <= 1 => ss[i] \in S) /\ (i > 1 => ss[i] \in T)
  BY DEF S, T
<1> HIDE DEF ss
<1>3. /\ 1 \in 1..Len(ss) /\ Feeds(ss[1])
      /\ \A i \in 1..Len(ss) : (i <= 1 => ss[i] \in S) /\ (i > 1 => ss[i] \in T)
  BY <1>1, <1>2
<1>4. Fresh(r, start, at, ss)
  BY SoundIf, <1>1, <1>3, Zenon DEF S, T
<1>5. QED
  BY <1>4 DEF ss

LEMMA Sound2At2 ==
    ASSUME NEW r, NEW start, NEW at,
           NEW a \in Steps(r, {}), NEW b \in Steps(r, {}), Feeds(b)
    PROVE  Fresh(r, start, at, <<a, b>>)
<1> DEFINE S == Steps(r, {})
           T == Steps(r, {"fed"})
           ss == <<a, b>>
<1> HIDE DEF S, T
<1>1. ss \in Seq(S \cup T) /\ Len(ss) = 2 /\ ss[2] = b
  BY DEF S, T
<1>2. \A i \in 1..2 : (i <= 2 => ss[i] \in S) /\ (i > 2 => ss[i] \in T)
  BY DEF S, T
<1> HIDE DEF ss
<1>3. /\ 2 \in 1..Len(ss) /\ Feeds(ss[2])
      /\ \A i \in 1..Len(ss) : (i <= 2 => ss[i] \in S) /\ (i > 2 => ss[i] \in T)
  BY <1>1, <1>2
<1>4. Fresh(r, start, at, ss)
  BY SoundIf, <1>1, <1>3, Zenon DEF S, T
<1>5. QED
  BY <1>4 DEF ss

LEMMA Sound3At1 ==
    ASSUME NEW r, NEW start, NEW at,
           NEW a \in Steps(r, {}), Feeds(a), NEW b \in Steps(r, {"fed"}),
           NEW c \in Steps(r, {"fed"})
    PROVE  Fresh(r, start, at, <<a, b, c>>)
<1> DEFINE S == Steps(r, {})
           T == Steps(r, {"fed"})
           ss == <<a, b, c>>
<1> HIDE DEF S, T
<1>1. ss \in Seq(S \cup T) /\ Len(ss) = 3 /\ ss[1] = a
  BY DEF S, T
<1>2. \A i \in 1..3 : (i <= 1 => ss[i] \in S) /\ (i > 1 => ss[i] \in T)
  BY DEF S, T
<1> HIDE DEF ss
<1>3. /\ 1 \in 1..Len(ss) /\ Feeds(ss[1])
      /\ \A i \in 1..Len(ss) : (i <= 1 => ss[i] \in S) /\ (i > 1 => ss[i] \in T)
  BY <1>1, <1>2
<1>4. Fresh(r, start, at, ss)
  BY SoundIf, <1>1, <1>3, Zenon DEF S, T
<1>5. QED
  BY <1>4 DEF ss

LEMMA Sound3At2 ==
    ASSUME NEW r, NEW start, NEW at,
           NEW a \in Steps(r, {}), NEW b \in Steps(r, {}), Feeds(b),
           NEW c \in Steps(r, {"fed"})
    PROVE  Fresh(r, start, at, <<a, b, c>>)
<1> DEFINE S == Steps(r, {})
           T == Steps(r, {"fed"})
           ss == <<a, b, c>>
<1> HIDE DEF S, T
<1>1. ss \in Seq(S \cup T) /\ Len(ss) = 3 /\ ss[2] = b
  BY DEF S, T
<1>2. \A i \in 1..3 : (i <= 2 => ss[i] \in S) /\ (i > 2 => ss[i] \in T)
  BY DEF S, T
<1> HIDE DEF ss
<1>3. /\ 2 \in 1..Len(ss) /\ Feeds(ss[2])
      /\ \A i \in 1..Len(ss) : (i <= 2 => ss[i] \in S) /\ (i > 2 => ss[i] \in T)
  BY <1>1, <1>2
<1>4. Fresh(r, start, at, ss)
  BY SoundIf, <1>1, <1>3, Zenon DEF S, T
<1>5. QED
  BY <1>4 DEF ss

LEMMA Sound3At3 ==
    ASSUME NEW r, NEW start, NEW at,
           NEW a \in Steps(r, {}), NEW b \in Steps(r, {}),
           NEW c \in Steps(r, {}), Feeds(c)
    PROVE  Fresh(r, start, at, <<a, b, c>>)
<1> DEFINE S == Steps(r, {})
           T == Steps(r, {"fed"})
           ss == <<a, b, c>>
<1> HIDE DEF S, T
<1>1. ss \in Seq(S \cup T) /\ Len(ss) = 3 /\ ss[3] = c
  BY DEF S, T
<1>2. \A i \in 1..3 : (i <= 3 => ss[i] \in S) /\ (i > 3 => ss[i] \in T)
  BY DEF S, T
<1> HIDE DEF ss
<1>3. /\ 3 \in 1..Len(ss) /\ Feeds(ss[3])
      /\ \A i \in 1..Len(ss) : (i <= 3 => ss[i] \in S) /\ (i > 3 => ss[i] \in T)
  BY <1>1, <1>2
<1>4. Fresh(r, start, at, ss)
  BY SoundIf, <1>1, <1>3, Zenon DEF S, T
<1>5. QED
  BY <1>4 DEF ss

LEMMA Sound4At1 ==
    ASSUME NEW r, NEW start, NEW at,
           NEW a \in Steps(r, {}), Feeds(a), NEW b \in Steps(r, {"fed"}),
           NEW c \in Steps(r, {"fed"}), NEW d \in Steps(r, {"fed"})
    PROVE  Fresh(r, start, at, <<a, b, c, d>>)
<1> DEFINE S == Steps(r, {})
           T == Steps(r, {"fed"})
           ss == <<a, b, c, d>>
<1> HIDE DEF S, T
<1>1. ss \in Seq(S \cup T) /\ Len(ss) = 4 /\ ss[1] = a
  BY DEF S, T
<1>2. \A i \in 1..4 : (i <= 1 => ss[i] \in S) /\ (i > 1 => ss[i] \in T)
  BY DEF S, T
<1> HIDE DEF ss
<1>3. /\ 1 \in 1..Len(ss) /\ Feeds(ss[1])
      /\ \A i \in 1..Len(ss) : (i <= 1 => ss[i] \in S) /\ (i > 1 => ss[i] \in T)
  BY <1>1, <1>2
<1>4. Fresh(r, start, at, ss)
  BY SoundIf, <1>1, <1>3, Zenon DEF S, T
<1>5. QED
  BY <1>4 DEF ss

LEMMA Sound4At2 ==
    ASSUME NEW r, NEW start, NEW at,
           NEW a \in Steps(r, {}), NEW b \in Steps(r, {}), Feeds(b),
           NEW c \in Steps(r, {"fed"}), NEW d \in Steps(r, {"fed"})
    PROVE  Fresh(r, start, at, <<a, b, c, d>>)
<1> DEFINE S == Steps(r, {})
           T == Steps(r, {"fed"})
           ss == <<a, b, c, d>>
<1> HIDE DEF S, T
<1>1. ss \in Seq(S \cup T) /\ Len(ss) = 4 /\ ss[2] = b
  BY DEF S, T
<1>2. \A i \in 1..4 : (i <= 2 => ss[i] \in S) /\ (i > 2 => ss[i] \in T)
  BY DEF S, T
<1> HIDE DEF ss
<1>3. /\ 2 \in 1..Len(ss) /\ Feeds(ss[2])
      /\ \A i \in 1..Len(ss) : (i <= 2 => ss[i] \in S) /\ (i > 2 => ss[i] \in T)
  BY <1>1, <1>2
<1>4. Fresh(r, start, at, ss)
  BY SoundIf, <1>1, <1>3, Zenon DEF S, T
<1>5. QED
  BY <1>4 DEF ss

LEMMA Sound4At3 ==
    ASSUME NEW r, NEW start, NEW at,
           NEW a \in Steps(r, {}), NEW b \in Steps(r, {}),
           NEW c \in Steps(r, {}), Feeds(c), NEW d \in Steps(r, {"fed"})
    PROVE  Fresh(r, start, at, <<a, b, c, d>>)
<1> DEFINE S == Steps(r, {})
           T == Steps(r, {"fed"})
           ss == <<a, b, c, d>>
<1> HIDE DEF S, T
<1>1. ss \in Seq(S \cup T) /\ Len(ss) = 4 /\ ss[3] = c
  BY DEF S, T
<1>2. \A i \in 1..4 : (i <= 3 => ss[i] \in S) /\ (i > 3 => ss[i] \in T)
  BY DEF S, T
<1> HIDE DEF ss
<1>3. /\ 3 \in 1..Len(ss) /\ Feeds(ss[3])
      /\ \A i \in 1..Len(ss) : (i <= 3 => ss[i] \in S) /\ (i > 3 => ss[i] \in T)
  BY <1>1, <1>2
<1>4. Fresh(r, start, at, ss)
  BY SoundIf, <1>1, <1>3, Zenon DEF S, T
<1>5. QED
  BY <1>4 DEF ss

LEMMA Sound4At4 ==
    ASSUME NEW r, NEW start, NEW at,
           NEW a \in Steps(r, {}), NEW b \in Steps(r, {}),
           NEW c \in Steps(r, {}), NEW d \in Steps(r, {}), Feeds(d)
    PROVE  Fresh(r, start, at, <<a, b, c, d>>)
<1> DEFINE S == Steps(r, {})
           T == Steps(r, {"fed"})
           ss == <<a, b, c, d>>
<1> HIDE DEF S, T
<1>1. ss \in Seq(S \cup T) /\ Len(ss) = 4 /\ ss[4] = d
  BY DEF S, T
<1>2. \A i \in 1..4 : (i <= 4 => ss[i] \in S) /\ (i > 4 => ss[i] \in T)
  BY DEF S, T
<1> HIDE DEF ss
<1>3. /\ 4 \in 1..Len(ss) /\ Feeds(ss[4])
      /\ \A i \in 1..Len(ss) : (i <= 4 => ss[i] \in S) /\ (i > 4 => ss[i] \in T)
  BY <1>1, <1>2
<1>4. Fresh(r, start, at, ss)
  BY SoundIf, <1>1, <1>3, Zenon DEF S, T
<1>5. QED
  BY <1>4 DEF ss

LEMMA Sound5At1 ==
    ASSUME NEW r, NEW start, NEW at,
           NEW a \in Steps(r, {}), Feeds(a), NEW b \in Steps(r, {"fed"}),
           NEW c \in Steps(r, {"fed"}), NEW d \in Steps(r, {"fed"}),
           NEW e \in Steps(r, {"fed"})
    PROVE  Fresh(r, start, at, <<a, b, c, d, e>>)
<1> DEFINE S == Steps(r, {})
           T == Steps(r, {"fed"})
           ss == <<a, b, c, d, e>>
<1> HIDE DEF S, T
<1>1. ss \in Seq(S \cup T) /\ Len(ss) = 5 /\ ss[1] = a
  BY DEF S, T
<1>2. \A i \in 1..5 : (i <= 1 => ss[i] \in S) /\ (i > 1 => ss[i] \in T)
  BY DEF S, T
<1> HIDE DEF ss
<1>3. /\ 1 \in 1..Len(ss) /\ Feeds(ss[1])
      /\ \A i \in 1..Len(ss) : (i <= 1 => ss[i] \in S) /\ (i > 1 => ss[i] \in T)
  BY <1>1, <1>2
<1>4. Fresh(r, start, at, ss)
  BY SoundIf, <1>1, <1>3, Zenon DEF S, T
<1>5. QED
  BY <1>4 DEF ss

LEMMA Sound5At3 ==
    ASSUME NEW r, NEW start, NEW at,
           NEW a \in Steps(r, {}), NEW b \in Steps(r, {}),
           NEW c \in Steps(r, {}), Feeds(c), NEW d \in Steps(r, {"fed"}),
           NEW e \in Steps(r, {"fed"})
    PROVE  Fresh(r, start, at, <<a, b, c, d, e>>)
<1> DEFINE S == Steps(r, {})
           T == Steps(r, {"fed"})
           ss == <<a, b, c, d, e>>
<1> HIDE DEF S, T
<1>1. ss \in Seq(S \cup T) /\ Len(ss) = 5 /\ ss[3] = c
  BY DEF S, T
<1>2. \A i \in 1..5 : (i <= 3 => ss[i] \in S) /\ (i > 3 => ss[i] \in T)
  BY DEF S, T
<1> HIDE DEF ss
<1>3. /\ 3 \in 1..Len(ss) /\ Feeds(ss[3])
      /\ \A i \in 1..Len(ss) : (i <= 3 => ss[i] \in S) /\ (i > 3 => ss[i] \in T)
  BY <1>1, <1>2
<1>4. Fresh(r, start, at, ss)
  BY SoundIf, <1>1, <1>3, Zenon DEF S, T
<1>5. QED
  BY <1>4 DEF ss

LEMMA Sound6At1 ==
    ASSUME NEW r, NEW start, NEW at,
           NEW a \in Steps(r, {}), Feeds(a), NEW b \in Steps(r, {"fed"}),
           NEW c \in Steps(r, {"fed"}), NEW d \in Steps(r, {"fed"}),
           NEW e \in Steps(r, {"fed"}), NEW f \in Steps(r, {"fed"})
    PROVE  Fresh(r, start, at, <<a, b, c, d, e, f>>)
<1> DEFINE S == Steps(r, {})
           T == Steps(r, {"fed"})
           ss == <<a, b, c, d, e, f>>
<1> HIDE DEF S, T
<1>1. ss \in Seq(S \cup T) /\ Len(ss) = 6 /\ ss[1] = a
  BY DEF S, T
<1>2. \A i \in 1..6 : (i <= 1 => ss[i] \in S) /\ (i > 1 => ss[i] \in T)
  BY DEF S, T
<1> HIDE DEF ss
<1>3. /\ 1 \in 1..Len(ss) /\ Feeds(ss[1])
      /\ \A i \in 1..Len(ss) : (i <= 1 => ss[i] \in S) /\ (i > 1 => ss[i] \in T)
  BY <1>1, <1>2
<1>4. Fresh(r, start, at, ss)
  BY SoundIf, <1>1, <1>3, Zenon DEF S, T
<1>5. QED
  BY <1>4 DEF ss

LEMMA Sound6At3 ==
    ASSUME NEW r, NEW start, NEW at,
           NEW a \in Steps(r, {}), NEW b \in Steps(r, {}),
           NEW c \in Steps(r, {}), Feeds(c), NEW d \in Steps(r, {"fed"}),
           NEW e \in Steps(r, {"fed"}), NEW f \in Steps(r, {"fed"})
    PROVE  Fresh(r, start, at, <<a, b, c, d, e, f>>)
<1> DEFINE S == Steps(r, {})
           T == Steps(r, {"fed"})
           ss == <<a, b, c, d, e, f>>
<1> HIDE DEF S, T
<1>1. ss \in Seq(S \cup T) /\ Len(ss) = 6 /\ ss[3] = c
  BY DEF S, T
<1>2. \A i \in 1..6 : (i <= 3 => ss[i] \in S) /\ (i > 3 => ss[i] \in T)
  BY DEF S, T
<1> HIDE DEF ss
<1>3. /\ 3 \in 1..Len(ss) /\ Feeds(ss[3])
      /\ \A i \in 1..Len(ss) : (i <= 3 => ss[i] \in S) /\ (i > 3 => ss[i] \in T)
  BY <1>1, <1>2
<1>4. Fresh(r, start, at, ss)
  BY SoundIf, <1>1, <1>3, Zenon DEF S, T
<1>5. QED
  BY <1>4 DEF ss

LEMMA Sound7At1 ==
    ASSUME NEW r, NEW start, NEW at,
           NEW a \in Steps(r, {}), Feeds(a), NEW b \in Steps(r, {"fed"}),
           NEW c \in Steps(r, {"fed"}), NEW d \in Steps(r, {"fed"}),
           NEW e \in Steps(r, {"fed"}), NEW f \in Steps(r, {"fed"}),
           NEW g \in Steps(r, {"fed"})
    PROVE  Fresh(r, start, at, <<a, b, c, d, e, f, g>>)
<1> DEFINE S == Steps(r, {})
           T == Steps(r, {"fed"})
           ss == <<a, b, c, d, e, f, g>>
<1> HIDE DEF S, T
<1>1. ss \in Seq(S \cup T) /\ Len(ss) = 7 /\ ss[1] = a
  BY DEF S, T
<1>2. \A i \in 1..7 : (i <= 1 => ss[i] \in S) /\ (i > 1 => ss[i] \in T)
  BY DEF S, T
<1> HIDE DEF ss
<1>3. /\ 1 \in 1..Len(ss) /\ Feeds(ss[1])
      /\ \A i \in 1..Len(ss) : (i <= 1 => ss[i] \in S) /\ (i > 1 => ss[i] \in T)
  BY <1>1, <1>2
<1>4. Fresh(r, start, at, ss)
  BY SoundIf, <1>1, <1>3, Zenon DEF S, T
<1>5. QED
  BY <1>4 DEF ss

LEMMA Sound7At2 ==
    ASSUME NEW r, NEW start, NEW at,
           NEW a \in Steps(r, {}), NEW b \in Steps(r, {}), Feeds(b),
           NEW c \in Steps(r, {"fed"}), NEW d \in Steps(r, {"fed"}),
           NEW e \in Steps(r, {"fed"}), NEW f \in Steps(r, {"fed"}),
           NEW g \in Steps(r, {"fed"})
    PROVE  Fresh(r, start, at, <<a, b, c, d, e, f, g>>)
<1> DEFINE S == Steps(r, {})
           T == Steps(r, {"fed"})
           ss == <<a, b, c, d, e, f, g>>
<1> HIDE DEF S, T
<1>1. ss \in Seq(S \cup T) /\ Len(ss) = 7 /\ ss[2] = b
  BY DEF S, T
<1>2. \A i \in 1..7 : (i <= 2 => ss[i] \in S) /\ (i > 2 => ss[i] \in T)
  BY DEF S, T
<1> HIDE DEF ss
<1>3. /\ 2 \in 1..Len(ss) /\ Feeds(ss[2])
      /\ \A i \in 1..Len(ss) : (i <= 2 => ss[i] \in S) /\ (i > 2 => ss[i] \in T)
  BY <1>1, <1>2
<1>4. Fresh(r, start, at, ss)
  BY SoundIf, <1>1, <1>3, Zenon DEF S, T
<1>5. QED
  BY <1>4 DEF ss

LEMMA Sound7At7 ==
    ASSUME NEW r, NEW start, NEW at,
           NEW a \in Steps(r, {}), NEW b \in Steps(r, {}),
           NEW c \in Steps(r, {}), NEW d \in Steps(r, {}),
           NEW e \in Steps(r, {}), NEW f \in Steps(r, {}),
           NEW g \in Steps(r, {}), Feeds(g)
    PROVE  Fresh(r, start, at, <<a, b, c, d, e, f, g>>)
<1> DEFINE S == Steps(r, {})
           T == Steps(r, {"fed"})
           ss == <<a, b, c, d, e, f, g>>
<1> HIDE DEF S, T
<1>1. ss \in Seq(S \cup T) /\ Len(ss) = 7 /\ ss[7] = g
  BY DEF S, T
<1>2. \A i \in 1..7 : (i <= 7 => ss[i] \in S) /\ (i > 7 => ss[i] \in T)
  BY DEF S, T
<1> HIDE DEF ss
<1>3. /\ 7 \in 1..Len(ss) /\ Feeds(ss[7])
      /\ \A i \in 1..Len(ss) : (i <= 7 => ss[i] \in S) /\ (i > 7 => ss[i] \in T)
  BY <1>1, <1>2
<1>4. Fresh(r, start, at, ss)
  BY SoundIf, <1>1, <1>3, Zenon DEF S, T
<1>5. QED
  BY <1>4 DEF ss

LEMMA Sound8At2 ==
    ASSUME NEW r, NEW start, NEW at,
           NEW a \in Steps(r, {}), NEW b \in Steps(r, {}), Feeds(b),
           NEW c \in Steps(r, {"fed"}), NEW d \in Steps(r, {"fed"}),
           NEW e \in Steps(r, {"fed"}), NEW f \in Steps(r, {"fed"}),
           NEW g \in Steps(r, {"fed"}), NEW h \in Steps(r, {"fed"})
    PROVE  Fresh(r, start, at, <<a, b, c, d, e, f, g, h>>)
<1> DEFINE S == Steps(r, {})
           T == Steps(r, {"fed"})
           ss == <<a, b, c, d, e, f, g, h>>
<1> HIDE DEF S, T
<1>1. ss \in Seq(S \cup T) /\ Len(ss) = 8 /\ ss[2] = b
  BY DEF S, T
<1>2. \A i \in 1..8 : (i <= 2 => ss[i] \in S) /\ (i > 2 => ss[i] \in T)
  BY DEF S, T
<1> HIDE DEF ss
<1>3. /\ 2 \in 1..Len(ss) /\ Feeds(ss[2])
      /\ \A i \in 1..Len(ss) : (i <= 2 => ss[i] \in S) /\ (i > 2 => ss[i] \in T)
  BY <1>1, <1>2
<1>4. Fresh(r, start, at, ss)
  BY SoundIf, <1>1, <1>3, Zenon DEF S, T
<1>5. QED
  BY <1>4 DEF ss

LEMMA Sound8At3 ==
    ASSUME NEW r, NEW start, NEW at,
           NEW a \in Steps(r, {}), NEW b \in Steps(r, {}),
           NEW c \in Steps(r, {}), Feeds(c), NEW d \in Steps(r, {"fed"}),
           NEW e \in Steps(r, {"fed"}), NEW f \in Steps(r, {"fed"}),
           NEW g \in Steps(r, {"fed"}), NEW h \in Steps(r, {"fed"})
    PROVE  Fresh(r, start, at, <<a, b, c, d, e, f, g, h>>)
<1> DEFINE S == Steps(r, {})
           T == Steps(r, {"fed"})
           ss == <<a, b, c, d, e, f, g, h>>
<1> HIDE DEF S, T
<1>1. ss \in Seq(S \cup T) /\ Len(ss) = 8 /\ ss[3] = c
  BY DEF S, T
<1>2. \A i \in 1..8 : (i <= 3 => ss[i] \in S) /\ (i > 3 => ss[i] \in T)
  BY DEF S, T
<1> HIDE DEF ss
<1>3. /\ 3 \in 1..Len(ss) /\ Feeds(ss[3])
      /\ \A i \in 1..Len(ss) : (i <= 3 => ss[i] \in S) /\ (i > 3 => ss[i] \in T)
  BY <1>1, <1>2
<1>4. Fresh(r, start, at, ss)
  BY SoundIf, <1>1, <1>3, Zenon DEF S, T
<1>5. QED
  BY <1>4 DEF ss

LEMMA Sound9At1 ==
    ASSUME NEW r, NEW start, NEW at,
           NEW a \in Steps(r, {}), Feeds(a), NEW b \in Steps(r, {"fed"}),
           NEW c \in Steps(r, {"fed"}), NEW d \in Steps(r, {"fed"}),
           NEW e \in Steps(r, {"fed"}), NEW f \in Steps(r, {"fed"}),
           NEW g \in Steps(r, {"fed"}), NEW h \in Steps(r, {"fed"}),
           NEW m \in Steps(r, {"fed"})
    PROVE  Fresh(r, start, at, <<a, b, c, d, e, f, g, h, m>>)
<1> DEFINE S == Steps(r, {})
           T == Steps(r, {"fed"})
           ss == <<a, b, c, d, e, f, g, h, m>>
<1> HIDE DEF S, T
<1>1. ss \in Seq(S \cup T) /\ Len(ss) = 9 /\ ss[1] = a
  BY DEF S, T
<1>2. \A i \in 1..9 : (i <= 1 => ss[i] \in S) /\ (i > 1 => ss[i] \in T)
  BY DEF S, T
<1> HIDE DEF ss
<1>3. /\ 1 \in 1..Len(ss) /\ Feeds(ss[1])
      /\ \A i \in 1..Len(ss) : (i <= 1 => ss[i] \in S) /\ (i > 1 => ss[i] \in T)
  BY <1>1, <1>2
<1>4. Fresh(r, start, at, ss)
  BY SoundIf, <1>1, <1>3, Zenon DEF S, T
<1>5. QED
  BY <1>4 DEF ss

LEMMA Sound10At4 ==
    ASSUME NEW r, NEW start, NEW at,
           NEW a \in Steps(r, {}), NEW b \in Steps(r, {}),
           NEW c \in Steps(r, {}), NEW d \in Steps(r, {}), Feeds(d),
           NEW e \in Steps(r, {"fed"}), NEW f \in Steps(r, {"fed"}),
           NEW g \in Steps(r, {"fed"}), NEW h \in Steps(r, {"fed"}),
           NEW m \in Steps(r, {"fed"}), NEW n \in Steps(r, {"fed"})
    PROVE  Fresh(r, start, at, <<a, b, c, d, e, f, g, h, m, n>>)
<1> DEFINE S == Steps(r, {})
           T == Steps(r, {"fed"})
           ss == <<a, b, c, d, e, f, g, h, m, n>>
<1> HIDE DEF S, T
<1>1. ss \in Seq(S \cup T) /\ Len(ss) = 10 /\ ss[4] = d
  BY DEF S, T
<1>2. \A i \in 1..10 : (i <= 4 => ss[i] \in S) /\ (i > 4 => ss[i] \in T)
  BY DEF S, T
<1> HIDE DEF ss
<1>3. /\ 4 \in 1..Len(ss) /\ Feeds(ss[4])
      /\ \A i \in 1..Len(ss) : (i <= 4 => ss[i] \in S) /\ (i > 4 => ss[i] \in T)
  BY <1>1, <1>2
<1>4. Fresh(r, start, at, ss)
  BY SoundIf, <1>1, <1>3, Zenon DEF S, T
<1>5. QED
  BY <1>4 DEF ss

LEMMA Sound11At5 ==
    ASSUME NEW r, NEW start, NEW at,
           NEW a \in Steps(r, {}), NEW b \in Steps(r, {}),
           NEW c \in Steps(r, {}), NEW d \in Steps(r, {}),
           NEW e \in Steps(r, {}), Feeds(e), NEW f \in Steps(r, {"fed"}),
           NEW g \in Steps(r, {"fed"}), NEW h \in Steps(r, {"fed"}),
           NEW m \in Steps(r, {"fed"}), NEW n \in Steps(r, {"fed"}),
           NEW o \in Steps(r, {"fed"})
    PROVE  Fresh(r, start, at, <<a, b, c, d, e, f, g, h, m, n, o>>)
<1> DEFINE S == Steps(r, {})
           T == Steps(r, {"fed"})
           ss == <<a, b, c, d, e, f, g, h, m, n, o>>
<1> HIDE DEF S, T
<1>1. ss \in Seq(S \cup T) /\ Len(ss) = 11 /\ ss[5] = e
  BY DEF S, T
<1>2. \A i \in 1..11 : (i <= 5 => ss[i] \in S) /\ (i > 5 => ss[i] \in T)
  BY DEF S, T
<1> HIDE DEF ss
<1>3. /\ 5 \in 1..Len(ss) /\ Feeds(ss[5])
      /\ \A i \in 1..Len(ss) : (i <= 5 => ss[i] \in S) /\ (i > 5 => ss[i] \in T)
  BY <1>1, <1>2
<1>4. Fresh(r, start, at, ss)
  BY SoundIf, <1>1, <1>3, Zenon DEF S, T
<1>5. QED
  BY <1>4 DEF ss
-----------------------------------------------------------------------------
(* What the proofs about single functions use of tuples, places and tests. *)
LEMMA Tuples ==
    ASSUME NEW S
    PROVE  /\ << >> \in Seq(S)
           /\ \A a \in S : <<a>> \in Seq(S)
           /\ \A a, b \in S : <<a, b>> \in Seq(S)
           /\ \A a, b, c \in S : <<a, b, c>> \in Seq(S)
           /\ \A a, b, c, d \in S : <<a, b, c, d>> \in Seq(S)
           /\ \A a, b, c, d, e, f, g, h, i, j, k \in S : <<a, b, c, d, e, f, g, h,
                  i, j, k>> \in Seq(S)
           /\ \A a, b, c, d, e, f, g, h, i, j, k, l \in S : <<a, b, c, d, e, f, g,
                  h, i, j, k, l>> \in Seq(S)
OBVIOUS

LEMMA FlagsKept ==
    /\ "fed" \in {"fed"}
    /\ \A c : /\ "fed" \in WhenFed(c) /\ "try" \in InATry(c) /\ "loop" \in InALoop(c)
              /\ "fed" \in c => "fed" \in InALoop(c) /\ "fed" \in InATry(c)
              /\ "try" \in c => "try" \in InALoop(c) /\ "try" \in WhenFed(c)
              /\ "loop" \in c => "loop" \in InATry(c) /\ "loop" \in WhenFed(c)
BY DEF WhenFed, InALoop, InATry

LEMMA BeforeTests ==
    \A t, w \in TestWords : Before(Text(t), {w}) \in Tests /\ Before(IsName, {w}) \in Tests
BY DEF Before, Text, OneOf, IsName, Kind, Tests

LEMMA BeforeSetTests ==
    \A t \in TestWords, ts \in SUBSET TestWords : Before(Text(t), ts) \in Tests
BY DEF Before, Text, OneOf, Tests

LEMMA NameIn ==
    ASSUME NEW r, NEW c, NEW m \in MissesIn(c)
    PROVE  Name(m) \in Simple(r, c)
BY TokenIn, NameTests, Zenon DEF Name

LEMMA OneCallIn ==
    ASSUME NEW r, NEW c \in Places, NEW x \in RuleNames, x \in Bearing \/ "fed" \in c
    PROVE  /\ May(x) \in Simple(r, c) /\ Need(x) \in Simple(r, c)
           /\ NeedBack(x) \in Simple(r, c)
           /\ "break" \in MissesIn(c) => NeedBreak(x) \in Simple(r, c)
<1>1. /\ <<x>> \in Seq(Bearing) \/ ("fed" \in c /\ <<x>> \in Seq(RuleNames))
      /\ <<x>> # << >>
  OBVIOUS
<1>2. \A m \in GivesUp \cup {"skip"} : m \in MissesIn(c)
  BY CarryOn
<1>3. \A m \in MissesIn(c) : Any(<<x>>, m) \in Simple(r, c)
  BY <1>1, SMT DEF Simple, Any, Hits
<1>4. QED
  BY <1>2, <1>3 DEF May, Need, NeedBack, NeedBreak, GivesUp

(* The steps that return nullptr if nothing has been consumed.             *)
LEMMA WordsFeed ==
    \A t : Feeds(Want(t)) /\ Feeds(WantBack(t))
BY DEF Feeds, FeedsAtOnce, Want, WantBack, Token, GivesUp

LEMMA NamesFeed ==
    \A m \in GivesUp : Feeds(Name(m)) /\ Feeds(NonEmpty(m)) /\ \A t : Feeds(Keep(t, m)) /\ Feeds(Token(t, m))
BY DEF Feeds, FeedsAtOnce, Name, NonEmpty, Keep, Token, GivesUp

LEMMA CallsFeed ==
    \A x \in Bearing : Feeds(Need(x)) /\ Feeds(NeedBack(x))
BY DEF Feeds, FeedsAtOnce, Need, NeedBack, Any, GivesUp

LEMMA OffersFeed ==
    \A xs \in Seq(Bearing) : Feeds(Offer(xs, "null"))
BY DEF Feeds, FeedsAtOnce, Offer, Any, GivesUp

(* The functions that may return a node without text have only to keep to  *)
(* their loops and Trys.                                                   *)
LEMMA SoundEmpty ==
    ASSUME NEW r, r \notin Bearing, NEW start, NEW at, NEW ss \in Seq(Steps(r, {}))
    PROVE  Fresh(r, start, at, ss)
<1>1. IsSeq(ss)
  BY SeqIsSeq
<1>2. ASSUME NEW i \in 1..Len(ss)
      PROVE  \E c \in Places : /\ PlacedIn(c, ss, i) /\ StepOK(r, c, ss[i])
                               /\ "fed" \in c => FedBy(start, at, ss, i)
  <2> DEFINE c == {}
  <2>1. c \in Places /\ "fed" \notin c /\ PlacedIn(c, ss, i)
    BY PlacesClosed DEF PlacedIn
  <2>2. StepOK(r, c, ss[i])
    BY DEF StepOK
  <2>3. QED
    BY <2>1, <2>2
<1>3. \A i \in 1..Len(ss) : ~Mark(ss[i])
  BY StepsAreNoMarks
<1>4. QED
  BY <1>1, <1>2, <1>3 DEF Sound, Fresh

(* The words that the functions test for are TestWords.                    *)
LEMMA WordSets ==
    /\ PrimTypes \subseteq TestWords /\ ExprPreOps \subseteq TestWords
    /\ ExprOps \subseteq TestWords /\ AssignOps \subseteq TestWords
    /\ Keywords \subseteq TestWords /\ Punctuation \subseteq TestWords
BY SMT DEF TestWords

LEMMA PunctuationIn ==
    /\ "(" \in TestWords /\ ")" \in TestWords /\ "," \in TestWords
    /\ "." \in TestWords /\ "..." \in TestWords /\ ":" \in TestWords
    /\ "::" \in TestWords /\ ";" \in TestWords /\ "?" \in TestWords
    /\ "[" \in TestWords /\ "]" \in TestWords /\ "{" \in TestWords
    /\ "}" \in TestWords
<1>1. /\ "(" \in Punctuation /\ ")" \in Punctuation /\ "," \in Punctuation
      /\ "." \in Punctuation /\ "..." \in Punctuation /\ ":" \in Punctuation
      /\ "::" \in Punctuation /\ ";" \in Punctuation /\ "?" \in Punctuation
      /\ "[" \in Punctuation /\ "]" \in Punctuation /\ "{" \in Punctuation
      /\ "}" \in Punctuation
  BY Zenon DEF Punctuation
<1>2. QED
  BY <1>1, WordSets, Zenon

LEMMA KeywordsIn ==
    /\ "break" \in TestWords /\ "case" \in TestWords /\ "cast" \in TestWords
    /\ "catch" \in TestWords /\ "class" \in TestWords /\ "const" \in TestWords
    /\ "continue" \in TestWords /\ "default" \in TestWords
    /\ "do" \in TestWords /\ "else" \in TestWords /\ "enum" \in TestWords
    /\ "for" \in TestWords /\ "foreach" \in TestWords /\ "from" \in TestWords
    /\ "funcdef" \in TestWords /\ "function" \in TestWords
    /\ "get" \in TestWords /\ "if" \in TestWords
    /\ "if_handle_then_const" \in TestWords /\ "import" \in TestWords
    /\ "interface" \in TestWords /\ "mixin" \in TestWords
    /\ "namespace" \in TestWords /\ "return" \in TestWords
    /\ "set" \in TestWords /\ "switch" \in TestWords /\ "try" \in TestWords
    /\ "typedef" \in TestWords /\ "using" \in TestWords
    /\ "while" \in TestWords
BY WordSets, SMT DEF Keywords

LEMMA OperatorsIn ==
    /\ "&" \in TestWords /\ "+" \in TestWords /\ "<" \in TestWords
    /\ "=" \in TestWords /\ ">" \in TestWords /\ "@" \in TestWords
    /\ "void" \in TestWords /\ "~" \in TestWords
BY WordSets, SMT DEF ExprPreOps, ExprOps, AssignOps, PrimTypes

LEMMA WordSetsIn ==
    /\ {"++", "--"} \subseteq TestWords /\ {"get", "set"} \subseteq TestWords
    /\ {"in", "out", "inout"} \subseteq TestWords
    /\ {"override", "final", "explicit", "property", "delete", "nodiscard"} \subseteq TestWords
    /\ {"private", "protected"} \subseteq TestWords
    /\ {"repeat", "repeat_same"} \subseteq TestWords
    /\ {"shared", "external", "abstract", "final"} \subseteq TestWords
BY WordSets, SMT DEF Keywords, ExprPreOps, ExprOps

(* The functions that are called in turn.                                  *)
LEMMA CallLists ==
    /\ <<"Accessor">> \in Seq(Bearing) \ {<< >>}
    /\ <<"ArgList">> \in Seq(Bearing) \ {<< >>}
    /\ <<"Assign">> \in Seq(Bearing) \ {<< >>}
    /\ <<"Case">> \in Seq(Bearing) \ {<< >>}
    /\ <<"Cast", "Literal">> \in Seq(Bearing) \ {<< >>}
    /\ <<"ConstructorCall">> \in Seq(Bearing) \ {<< >>}
    /\ <<"FuncCall">> \in Seq(Bearing) \ {<< >>}
    /\ <<"FuncDef", "Func", "VirtualProp", "Var">> \in Seq(Bearing) \ {<< >>}
    /\ <<"If", "For", "ForEach", "While", "Return", "StatBlock", "Break",
           "Continue", "DoWhile", "Switch", "Try",
           "ExprStat">> \in Seq(Bearing) \ {<< >>}
    /\ <<"InitList", "Assign">> \in Seq(Bearing) \ {<< >>}
    /\ <<"InitList">> \in Seq(Bearing) \ {<< >>}
    /\ <<"InterfaceMethod", "VirtualProp">> \in Seq(Bearing) \ {<< >>}
    /\ <<"Lambda">> \in Seq(Bearing) \ {<< >>}
    /\ <<"Type">> \in Seq(Bearing) \ {<< >>}
    /\ <<"Using", "Var", "Statement">> \in Seq(Bearing) \ {<< >>}
    /\ <<"Var", "ExprStat">> \in Seq(Bearing) \ {<< >>}
    /\ <<"VarAccess">> \in Seq(Bearing) \ {<< >>}
    /\ <<"VoidLiteral">> \in Seq(Bearing) \ {<< >>}
    /\ ScriptKinds \in Seq(Bearing) \ {<< >>}
BY DEF Bearing, RuleNames, ScriptKinds

(* The parts that several functions share.                                 *)
LEMMA LambdaSteps ==
    ASSUME NEW r, NEW c \in Places, NEW xs \in Seq(Depth5(r, c))
    PROVE  IfLambda(xs) \in Steps(r, c)
BY LambdaIn, Zenon DEF Steps

LEMMA EntityAttributeIn ==
    ASSUME NEW r, NEW c \in Places
    PROVE  parseEntityAttribute \in Steps(r, c)
<1>1. Token(OneOf({"shared", "external", "abstract", "final"}), "break") \in Simple(r, InALoop(c))
  BY PlacesClosed, TokenIn, CarryOn, FlagsKept, WordTests, WordSetsIn,
     Zenon DEF GivesUp
<1>2. <<Token(OneOf({"shared", "external", "abstract", "final"}),
          "break")>> \in Seq(Depth5(r, InALoop(c)))
  BY <1>1, SimpleSteps, Tuples, Zenon
<1>3. QED
  BY <1>2, LoopSteps, PlacesClosed, NameTests, Zenon DEF All, Repeat, parseEntityAttribute

LEMMA FuncAttrIn ==
    ASSUME NEW r, NEW c \in Places
    PROVE  parseFuncAttr \in Steps(r, c)
<1>1. Token(OneOf({"override", "final", "explicit", "property", "delete", "nodiscard"}), "break") \in Simple(r, InALoop(c))
  BY PlacesClosed, TokenIn, CarryOn, FlagsKept, WordTests, WordSetsIn,
     Zenon DEF GivesUp
<1>2. <<Token(OneOf({"override", "final", "explicit", "property", "delete",
          "nodiscard"}), "break")>> \in Seq(Depth5(r, InALoop(c)))
  BY <1>1, SimpleSteps, Tuples, Zenon
<1>3. QED
  BY <1>2, LoopSteps, PlacesClosed, NameTests, Zenon DEF All, Repeat, parseFuncAttr

LEMMA TypeModifierIn ==
    ASSUME NEW r, NEW c \in Places
    PROVE  parseTypeModifier \in Steps(r, c)
<1>1. Token(OneOf({"in", "out", "inout"}), "skip") \in Simple(r, WhenFed(c))
  BY PlacesClosed, TokenIn, CarryOn, FlagsKept, WordTests, WordSetsIn,
     Zenon DEF GivesUp
<1>2. Eat("+") \in Simple(r, WhenFed(c))
  BY PlacesClosed, WordIn, OperatorsIn, Zenon
<1>3. Eat("if_handle_then_const") \in Simple(r, WhenFed(c))
  BY PlacesClosed, WordIn, KeywordsIn, Zenon
<1>4. /\ <<Token(OneOf({"in", "out", "inout"}), "skip"), Eat("+"),
             Eat("if_handle_then_const")>> \in Seq(Depth5(r, WhenFed(c)))
      /\ << >> \in Seq(Depth5(r, c))
  BY <1>1, <1>2, <1>3, SimpleSteps, Tuples, Zenon
<1>5. QED
  BY <1>4, IfElseSteps, PlacesClosed, OperatorsIn, Zenon DEF When, parseTypeModifier

LEMMA NamePathIn ==
    ASSUME NEW r, NEW c \in Places
    PROVE  NamePath \in Steps(r, c)
<1>1. Name("break") \in Simple(r, InALoop(c))
  BY PlacesClosed, NameIn, CarryOn, FlagsKept, Zenon DEF GivesUp
<1>2. Token(Text("::"), "break") \in Simple(r, InALoop(c))
  BY PlacesClosed, TokenIn, CarryOn, FlagsKept, TextTests, PunctuationIn,
     Zenon DEF GivesUp
<1>3. <<Name("break"), Token(Text("::"), "break")>> \in Seq(Depth5(r, InALoop(c)))
  BY <1>1, <1>2, SimpleSteps, Tuples, Zenon
<1>4. QED
  BY <1>3, LoopSteps, PlacesClosed, NameTests, Zenon DEF Repeat, NamePath

LEMMA BodyIn ==
    ASSUME NEW r, NEW c \in Places
    PROVE  Body \in Steps(r, c)
<1>1. May("StatBlock") \in Simple(r, c)
  BY PlacesClosed, OneCallIn, FlagsKept, Zenon DEF Bearing, RuleNames
<1>2. /\ << >> \in Seq(Depth5(r, WhenFed(c)))
      /\ <<May("StatBlock")>> \in Seq(Depth5(r, c))
  BY <1>1, SimpleSteps, Tuples, Zenon
<1>3. QED
  BY <1>2, IfElseSteps, PlacesClosed, PunctuationIn, Zenon DEF Body

LEMMA BasesIn ==
    ASSUME NEW r, NEW c \in Places
    PROVE  Bases \in Steps(r, c)
<1>1. List(Text("{"), <<May("Scope"), Name("skip")>>) \in Depth5(r, WhenFed(c))
  <2>1. May("Scope") \in Simple(r, InALoop(WhenFed(c)))
    BY PlacesClosed, OneCallIn, FlagsKept, Zenon DEF Bearing, RuleNames
  <2>2. Name("skip") \in Simple(r, InALoop(WhenFed(c)))
    BY PlacesClosed, NameIn, CarryOn, FlagsKept, Zenon DEF GivesUp
  <2>3. <<May("Scope"), Name("skip")>> \in Seq(Depth4(r, InALoop(WhenFed(c))))
    BY <2>1, <2>2, SimpleSteps, Tuples, Zenon
  <2>4. QED
    BY <2>3, LoopSteps, PlacesClosed, TextTests, PunctuationIn, Zenon
<1>2. /\ <<List(Text("{"), <<May("Scope"), Name("skip")>>)>> \in Seq(Depth5(r,
             WhenFed(c)))
      /\ << >> \in Seq(Depth5(r, c))
  BY <1>1, Tuples, Zenon
<1>3. QED
  BY <1>2, IfElseSteps, PlacesClosed, PunctuationIn, Zenon DEF When, Bases

LEMMA ArgNameIn ==
    ASSUME NEW r, NEW c \in Places
    PROVE  ArgName \in Depth5(r, c) /\ ArgName \in Depth4(r, c)
<1>1. ArgName \in Depth5(r, c)
  <2>1. Name("skip") \in Simple(r, c)
    BY PlacesClosed, NameIn, CarryOn, FlagsKept, Zenon DEF GivesUp
  <2>2. Eat(":") \in Simple(r, c)
    BY PlacesClosed, WordIn, PunctuationIn, Zenon
  <2>3. /\ <<Name("skip"), Eat(":")>> \in Seq(Depth4(r, c))
        /\ << >> \in Seq(Depth4(r, c))
    BY <2>1, <2>2, SimpleSteps, Tuples, Zenon
  <2>4. QED
    BY <2>3, BranchSteps, PlacesClosed, BeforeTests, PunctuationIn, Zenon DEF ArgName
<1>2. ArgName \in Depth4(r, c)
  <2>1. Name("skip") \in Simple(r, c)
    BY PlacesClosed, NameIn, CarryOn, FlagsKept, Zenon DEF GivesUp
  <2>2. Eat(":") \in Simple(r, c)
    BY PlacesClosed, WordIn, PunctuationIn, Zenon
  <2>3. /\ <<Name("skip"), Eat(":")>> \in Seq(Depth3(r, c))
        /\ << >> \in Seq(Depth3(r, c))
    BY <2>1, <2>2, SimpleSteps, Tuples, Zenon
  <2>4. QED
    BY <2>3, BranchSteps, PlacesClosed, BeforeTests, PunctuationIn, Zenon DEF ArgName
<1>3. QED
  BY <1>1, <1>2

LEMMA TemplateArgsIn ==
    ASSUME NEW r, NEW c \in Places
    PROVE  TemplateArgs \in Steps(r, c)
<1>1. Token(Text("<"), "fail") \in Simple(r, InATry(c))
  BY PlacesClosed, TokenIn, CarryOn, FlagsKept, TextTests, OperatorsIn,
     Zenon DEF GivesUp
<1>2. Fail \in Simple(r, InATry(c))
  BY PlacesClosed, MissIn, CarryOn, FlagsKept, Zenon DEF Fail
<1>3. Repeat(<<Any(<<"Type">>, "fail"), SucceedAtGt, Token(Text(","),
          "fail")>>) \in Depth5(r, InATry(c))
  <2>1. Any(<<"Type">>, "fail") \in Simple(r, InALoop(InATry(c)))
    BY PlacesClosed, CallIn, CallLists, CarryOn, FlagsKept, Zenon DEF GivesUp
  <2>2. SucceedAtGt \in Simple(r, InALoop(InATry(c)))
    BY PlacesClosed, OtherIn, FlagsKept, Zenon
  <2>3. Token(Text(","), "fail") \in Simple(r, InALoop(InATry(c)))
    BY PlacesClosed, TokenIn, CarryOn, FlagsKept, TextTests, PunctuationIn,
       Zenon DEF GivesUp
  <2>4. <<Any(<<"Type">>, "fail"), SucceedAtGt, Token(Text(","),
            "fail")>> \in Seq(Depth4(r, InALoop(InATry(c))))
    BY <2>1, <2>2, <2>3, SimpleSteps, Tuples, Zenon
  <2>5. QED
    BY <2>4, LoopSteps, PlacesClosed, NameTests, Zenon DEF Repeat
<1>4. /\ <<Token(Text("<"), "fail"), Repeat(<<Any(<<"Type">>, "fail"), SucceedAtGt,
             Token(Text(","), "fail")>>), Fail>> \in Seq(Depth5(r, InATry(c)))
      /\ << >> \in Seq(Depth5(r, c))
  BY <1>1, <1>2, <1>3, SimpleSteps, Tuples, Zenon
<1>5. QED
  BY <1>4, TrySteps, PlacesClosed, Zenon DEF TemplateArgs, parseTemplateTypeArgs

LEMMA TemplateTypeArgsIn ==
    ASSUME NEW r, NEW c \in Places, "try" \in c
    PROVE  parseTemplateTypeArgs(<<Fail>>) \in Depth3(r, c)
<1>1. Token(Text("<"), "fail") \in Simple(r, InATry(c))
  BY PlacesClosed, TokenIn, CarryOn, FlagsKept, TextTests, OperatorsIn,
     Zenon DEF GivesUp
<1>2. Fail \in Simple(r, InATry(c))
  BY PlacesClosed, MissIn, CarryOn, FlagsKept, Zenon DEF Fail
<1>3. Repeat(<<Any(<<"Type">>, "fail"), SucceedAtGt, Token(Text(","),
          "fail")>>) \in Depth2(r, InATry(c))
  <2>1. Any(<<"Type">>, "fail") \in Simple(r, InALoop(InATry(c)))
    BY PlacesClosed, CallIn, CallLists, CarryOn, FlagsKept, Zenon DEF GivesUp
  <2>2. SucceedAtGt \in Simple(r, InALoop(InATry(c)))
    BY PlacesClosed, OtherIn, FlagsKept, Zenon
  <2>3. Token(Text(","), "fail") \in Simple(r, InALoop(InATry(c)))
    BY PlacesClosed, TokenIn, CarryOn, FlagsKept, TextTests, PunctuationIn,
       Zenon DEF GivesUp
  <2>4. <<Any(<<"Type">>, "fail"), SucceedAtGt, Token(Text(","),
            "fail")>> \in Seq(Depth1(r, InALoop(InATry(c))))
    BY <2>1, <2>2, <2>3, SimpleSteps, Tuples, Zenon
  <2>5. QED
    BY <2>4, LoopSteps, PlacesClosed, NameTests, Zenon DEF Repeat
<1>4. Fail \in Simple(r, c)
  BY PlacesClosed, MissIn, CarryOn, FlagsKept, Zenon DEF Fail
<1>5. /\ <<Token(Text("<"), "fail"), Repeat(<<Any(<<"Type">>, "fail"), SucceedAtGt,
             Token(Text(","), "fail")>>), Fail>> \in Seq(Depth2(r, InATry(c)))
      /\ <<Fail>> \in Seq(Depth2(r, c))
  BY <1>1, <1>2, <1>3, <1>4, SimpleSteps, Tuples, Zenon
<1>6. QED
  BY <1>5, TrySteps, PlacesClosed, Zenon DEF parseTemplateTypeArgs

LEMMA OtherTests ==
    /\ [Text("?") EXCEPT !.kinds = {"Name"}] \in Tests
    /\ [OneOf({"true", "false", "null", "void"})
           EXCEPT !.kinds = {"Number", "String", "Bits"}] \in Tests
<1>1. {"true", "false", "null", "void"} \subseteq TestWords
  BY WordSets, SMT DEF Keywords, PrimTypes
<1>2. \A ts \in SUBSET TestWords, ks \in SUBSET {"Name", "Number", "String", "Bits"} :
         [OneOf(ts) EXCEPT !.kinds = ks] \in Tests
  BY DEF OneOf, Tests
<1>3. {"?"} \in SUBSET TestWords
  BY PunctuationIn, Zenon
<1>4. QED
  BY <1>1, <1>2, <1>3 DEF Text

LEMMA CaseTest ==
    OneOf({"case", "default", "}"}) \in Tests
<1>1. \A a, b, c \in TestWords : {a, b, c} \subseteq TestWords
  OBVIOUS
<1>2. QED
  BY <1>1, KeywordsIn, PunctuationIn, WordTests, Zenon

LEMMA CallsFeedAtOnce ==
    \A x \in Bearing : FeedsAtOnce(Need(x)) /\ FeedsAtOnce(NeedBack(x))
BY DEF FeedsAtOnce, Need, NeedBack, Any, GivesUp

LEMMA FeedsFirst ==
    ASSUME NEW s, s.do = "branch", Guarded(s) \/ HasFeed(s.then), HasFeed(s.otherwise)
    PROVE  Feeds(s)
BY DEF Feeds
-----------------------------------------------------------------------------
(* The parse functions, in the order of ParserRules.                       *)
(* parseScript                                                             *)
LEMMA ScriptSound ==
    ASSUME NEW start, NEW at
    PROVE  Fresh("Script", start, at, parseScript(Never))
<1>1. Until(Never, <<IfElse(";", << >>, <<Any(ScriptKinds,
          "error")>>)>>) \in Steps("Script", {})
  <2>1. IfElse(";", << >>, <<Any(ScriptKinds, "error")>>) \in Depth5("Script",
            InALoop({}))
    <3>1. Any(ScriptKinds, "error") \in Simple("Script", InALoop({}))
      BY PlacesClosed, CallIn, CallLists, CarryOn, FlagsKept,
         Zenon DEF GivesUp
    <3>2. /\ << >> \in Seq(Depth4("Script", WhenFed(InALoop({}))))
          /\ <<Any(ScriptKinds, "error")>> \in Seq(Depth4("Script", InALoop({})))
      BY <3>1, SimpleSteps, Tuples, Zenon
    <3>3. QED
      BY <3>2, IfElseSteps, PlacesClosed, PunctuationIn, Zenon
  <2>2. <<IfElse(";", << >>, <<Any(ScriptKinds,
            "error")>>)>> \in Seq(Depth5("Script", InALoop({})))
    BY <2>1, Tuples, Zenon
  <2>3. QED
    BY <2>2, LoopSteps, PlacesClosed, NameTests, Zenon
<1>2. QED
  BY <1>1, SoundEmpty, Tuples, Zenon DEF parseScript, Bearing, RuleNames

(* parseScript, in a namespace                                             *)
LEMMA ScriptBodySound ==
    ASSUME NEW start, NEW at
    PROVE  Fresh("ScriptBody", start, at, parseScript(Text("}")))
<1>1. Until(Text("}"), <<IfElse(";", << >>, <<Any(ScriptKinds,
          "error")>>)>>) \in Steps("ScriptBody", {})
  <2>1. IfElse(";", << >>, <<Any(ScriptKinds, "error")>>) \in Depth5("ScriptBody",
            InALoop({}))
    <3>1. Any(ScriptKinds, "error") \in Simple("ScriptBody", InALoop({}))
      BY PlacesClosed, CallIn, CallLists, CarryOn, FlagsKept,
         Zenon DEF GivesUp
    <3>2. /\ << >> \in Seq(Depth4("ScriptBody", WhenFed(InALoop({}))))
          /\ <<Any(ScriptKinds, "error")>> \in Seq(Depth4("ScriptBody", InALoop({})))
      BY <3>1, SimpleSteps, Tuples, Zenon
    <3>3. QED
      BY <3>2, IfElseSteps, PlacesClosed, PunctuationIn, Zenon
  <2>2. <<IfElse(";", << >>, <<Any(ScriptKinds,
            "error")>>)>> \in Seq(Depth5("ScriptBody", InALoop({})))
    BY <2>1, Tuples, Zenon
  <2>3. QED
    BY <2>2, LoopSteps, PlacesClosed, TextTests, PunctuationIn, Zenon
<1>2. QED
  BY <1>1, SoundEmpty, Tuples, Zenon DEF parseScript, Bearing, RuleNames

(* parseNamespace                                                          *)
LEMMA NamespaceSound ==
    ASSUME NEW start, NEW at, NEW r
    PROVE  Fresh(r, start, at, parseNamespace)
<1>1. Want("namespace") \in Simple(r, {})
  BY PlacesClosed, WordIn, KeywordsIn, Zenon
<1>2. NonEmpty("null") \in Simple(r, {"fed"})
  BY PlacesClosed, MissIn, CarryOn, Zenon DEF GivesUp
<1>3. /\ Must("{") \in Simple(r, {"fed"})
      /\ Expect("}") \in Simple(r, {"fed"})
  BY PlacesClosed, WordIn, PunctuationIn, Zenon
<1>4. May("ScriptBody") \in Simple(r, {"fed"})
  BY PlacesClosed, OneCallIn, FlagsKept, Zenon DEF Bearing, RuleNames
<1>5. NamePath \in Steps(r, {"fed"})
  BY NamePathIn, PlacesClosed, FlagsKept, Zenon
<1>6. Feeds(Want("namespace"))
  BY WordsFeed, Zenon
<1>7. QED
  BY <1>1, <1>2, <1>3, <1>4, <1>5, <1>6, SimpleSteps, Sound6At1,
     Zenon DEF parseNamespace

(* parseUsing                                                              *)
LEMMA UsingSound ==
    ASSUME NEW start, NEW at, NEW r
    PROVE  Fresh(r, start, at, parseUsing)
<1>1. Want("using") \in Simple(r, {})
  BY PlacesClosed, WordIn, KeywordsIn, Zenon
<1>2. WantBack("namespace") \in Simple(r, {"fed"})
  BY PlacesClosed, WordIn, KeywordsIn, Zenon
<1>3. NonEmpty("back") \in Simple(r, {"fed"})
  BY PlacesClosed, MissIn, CarryOn, Zenon DEF GivesUp
<1>4. Expect(";") \in Simple(r, {"fed"})
  BY PlacesClosed, WordIn, PunctuationIn, Zenon
<1>5. NamePath \in Steps(r, {"fed"})
  BY NamePathIn, PlacesClosed, FlagsKept, Zenon
<1>6. Feeds(Want("using"))
  BY WordsFeed, Zenon
<1>7. QED
  BY <1>1, <1>2, <1>3, <1>4, <1>5, <1>6, SimpleSteps, Sound5At1,
     Zenon DEF parseUsing

(* parseEnum                                                               *)
LEMMA EnumSound ==
    ASSUME NEW start, NEW at, NEW r
    PROVE  Fresh(r, start, at, parseEnum)
<1>1. WantBack("enum") \in Simple(r, {})
  BY PlacesClosed, WordIn, KeywordsIn, Zenon
<1>2. parseEntityAttribute \in Steps(r, {})
  BY EntityAttributeIn, PlacesClosed, FlagsKept, Zenon
<1>3. Name("null") \in Simple(r, {"fed"})
  BY PlacesClosed, NameIn, CarryOn, FlagsKept, Zenon DEF GivesUp
<1>4. /\ Expect("{") \in Simple(r, {"fed"})
      /\ Expect("}") \in Simple(r, {"fed"})
  BY PlacesClosed, WordIn, PunctuationIn, Zenon
<1>5. When(":", <<Keep(OneOf(PrimTypes), "skip")>>) \in Steps(r, {"fed"})
  <2>1. Keep(OneOf(PrimTypes), "skip") \in Simple(r, WhenFed({"fed"}))
    BY PlacesClosed, TokenIn, CarryOn, FlagsKept, WordTests, WordSets,
       Zenon DEF GivesUp
  <2>2. /\ <<Keep(OneOf(PrimTypes), "skip")>> \in Seq(Depth5(r, WhenFed({"fed"})))
        /\ << >> \in Seq(Depth5(r, {"fed"}))
    BY <2>1, SimpleSteps, Tuples, Zenon
  <2>3. QED
    BY <2>2, IfElseSteps, PlacesClosed, PunctuationIn, Zenon DEF When
<1>6. When(";", <<Done>>) \in Steps(r, {"fed"})
  <2>1. Done \in Simple(r, WhenFed({"fed"}))
    BY PlacesClosed, OtherIn, FlagsKept, Zenon
  <2>2. /\ <<Done>> \in Seq(Depth5(r, WhenFed({"fed"})))
        /\ << >> \in Seq(Depth5(r, {"fed"}))
    BY <2>1, SimpleSteps, Tuples, Zenon
  <2>3. QED
    BY <2>2, IfElseSteps, PlacesClosed, PunctuationIn, Zenon DEF When
<1>7. TrailingList(Text("}"), <<Name("break"), When("=",
          <<May("Expr")>>)>>) \in Steps(r, {"fed"})
  <2>1. Name("break") \in Simple(r, InALoop({"fed"}))
    BY PlacesClosed, NameIn, CarryOn, FlagsKept, Zenon DEF GivesUp
  <2>2. When("=", <<May("Expr")>>) \in Depth5(r, InALoop({"fed"}))
    <3>1. May("Expr") \in Simple(r, WhenFed(InALoop({"fed"})))
      BY PlacesClosed, OneCallIn, FlagsKept, Zenon DEF Bearing, RuleNames
    <3>2. /\ <<May("Expr")>> \in Seq(Depth4(r, WhenFed(InALoop({"fed"}))))
          /\ << >> \in Seq(Depth4(r, InALoop({"fed"})))
      BY <3>1, SimpleSteps, Tuples, Zenon
    <3>3. QED
      BY <3>2, IfElseSteps, PlacesClosed, OperatorsIn, Zenon DEF When
  <2>3. <<Name("break"), When("=", <<May("Expr")>>)>> \in Seq(Depth5(r,
            InALoop({"fed"})))
    BY <2>1, <2>2, SimpleSteps, Tuples, Zenon
  <2>4. QED
    BY <2>3, LoopSteps, PlacesClosed, TextTests, PunctuationIn, Zenon
<1>8. Feeds(WantBack("enum"))
  BY WordsFeed, Zenon
<1>9. QED
  BY <1>1, <1>2, <1>3, <1>4, <1>5, <1>6, <1>7, <1>8, SimpleSteps, Sound8At2,
     Zenon DEF parseEnum

(* parseClass                                                              *)
LEMMA ClassSound ==
    ASSUME NEW start, NEW at, NEW r
    PROVE  Fresh(r, start, at, parseClass)
<1>1. Metadata \in Simple(r, {})
  BY PlacesClosed, OtherIn, FlagsKept, Zenon
<1>2. /\ Eat("mixin") \in Simple(r, {})
      /\ WantBack("class") \in Simple(r, {})
  BY PlacesClosed, WordIn, KeywordsIn, Zenon
<1>3. parseEntityAttribute \in Steps(r, {})
  BY EntityAttributeIn, PlacesClosed, FlagsKept, Zenon
<1>4. Name("back") \in Simple(r, {"fed"})
  BY PlacesClosed, NameIn, CarryOn, FlagsKept, Zenon DEF GivesUp
<1>5. /\ Expect("{") \in Simple(r, {"fed"})
      /\ Expect("}") \in Simple(r, {"fed"})
  BY PlacesClosed, WordIn, PunctuationIn, Zenon
<1>6. When(";", <<Done>>) \in Steps(r, {"fed"})
  <2>1. Done \in Simple(r, WhenFed({"fed"}))
    BY PlacesClosed, OtherIn, FlagsKept, Zenon
  <2>2. /\ <<Done>> \in Seq(Depth5(r, WhenFed({"fed"})))
        /\ << >> \in Seq(Depth5(r, {"fed"}))
    BY <2>1, SimpleSteps, Tuples, Zenon
  <2>3. QED
    BY <2>2, IfElseSteps, PlacesClosed, PunctuationIn, Zenon DEF When
<1>7. Bases \in Steps(r, {"fed"})
  BY BasesIn, PlacesClosed, FlagsKept, Zenon
<1>8. Members("}", <<"FuncDef", "Func", "VirtualProp", "Var">>) \in Steps(r, {"fed"})
  <2>1. Any(<<"FuncDef", "Func", "VirtualProp", "Var">>, "error") \in Simple(r,
            InALoop({"fed"}))
    BY PlacesClosed, CallIn, CallLists, CarryOn, FlagsKept, Zenon DEF GivesUp
  <2>2. <<Any(<<"FuncDef", "Func", "VirtualProp", "Var">>,
            "error")>> \in Seq(Depth5(r, InALoop({"fed"})))
    BY <2>1, SimpleSteps, Tuples, Zenon
  <2>3. QED
    BY <2>2, LoopSteps, PlacesClosed, TextTests, PunctuationIn,
       Zenon DEF Members
<1>9. Feeds(WantBack("class"))
  BY WordsFeed, Zenon
<1>10. QED
  BY <1>1, <1>2, <1>3, <1>4, <1>5, <1>6, <1>7, <1>8, <1>9, SimpleSteps,
     Sound10At4, Zenon DEF parseClass

(* parseTypeDef                                                            *)
LEMMA TypeDefSound ==
    ASSUME NEW start, NEW at, NEW r
    PROVE  Fresh(r, start, at, parseTypeDef)
<1>1. Want("typedef") \in Simple(r, {})
  BY PlacesClosed, WordIn, KeywordsIn, Zenon
<1>2. Keep(OneOf(PrimTypes), "null") \in Simple(r, {"fed"})
  BY PlacesClosed, TokenIn, CarryOn, FlagsKept, WordTests, WordSets,
     Zenon DEF GivesUp
<1>3. Name("null") \in Simple(r, {"fed"})
  BY PlacesClosed, NameIn, CarryOn, FlagsKept, Zenon DEF GivesUp
<1>4. Expect(";") \in Simple(r, {"fed"})
  BY PlacesClosed, WordIn, PunctuationIn, Zenon
<1>5. Feeds(Want("typedef"))
  BY WordsFeed, Zenon
<1>6. QED
  BY <1>1, <1>2, <1>3, <1>4, <1>5, SimpleSteps, Sound4At1,
     Zenon DEF parseTypeDef

(* parseFunc                                                               *)
LEMMA FuncSound ==
    ASSUME NEW start, NEW at, NEW r
    PROVE  Fresh(r, start, at, parseFunc)
<1>1. Metadata \in Simple(r, {})
  BY PlacesClosed, OtherIn, FlagsKept, Zenon
<1>2. parseAccessModifier \in Simple(r, {})
  BY PlacesClosed, TokenIn, WordTests, WordSetsIn, CarryOn,
     Zenon DEF parseAccessModifier
<1>3. Name("back") \in Simple(r, {})
  BY PlacesClosed, NameIn, CarryOn, FlagsKept, Zenon DEF GivesUp
<1>4. parseEntityAttribute \in Steps(r, {})
  BY EntityAttributeIn, PlacesClosed, FlagsKept, Zenon
<1>5. IfElse("~", << >>, <<Branch(Before(IsName, {"("}), << >>, <<NeedBack("Type"),
          Eat("&")>>)>>) \in Steps(r, {})
  <2>1. Branch(Before(IsName, {"("}), << >>, <<NeedBack("Type"),
            Eat("&")>>) \in Depth5(r, {})
    <3>1. NeedBack("Type") \in Simple(r, {})
      BY PlacesClosed, OneCallIn, FlagsKept, Zenon DEF Bearing, RuleNames
    <3>2. Eat("&") \in Simple(r, {})
      BY PlacesClosed, WordIn, OperatorsIn, Zenon
    <3>3. /\ << >> \in Seq(Depth4(r, {}))
          /\ <<NeedBack("Type"), Eat("&")>> \in Seq(Depth4(r, {}))
      BY <3>1, <3>2, SimpleSteps, Tuples, Zenon
    <3>4. QED
      BY <3>3, BranchSteps, PlacesClosed, BeforeTests, PunctuationIn, Zenon
  <2>2. /\ << >> \in Seq(Depth5(r, WhenFed({})))
        /\ <<Branch(Before(IsName, {"("}), << >>, <<NeedBack("Type"),
               Eat("&")>>)>> \in Seq(Depth5(r, {}))
    BY <2>1, Tuples, Zenon
  <2>3. QED
    BY <2>2, IfElseSteps, PlacesClosed, OperatorsIn, Zenon
<1>6. /\ NeedBack("ParamList") \in Simple(r, {"fed"})
      /\ May("ListPattern") \in Simple(r, {"fed"})
  BY PlacesClosed, OneCallIn, FlagsKept, Zenon DEF Bearing, RuleNames
<1>7. Eat("const") \in Simple(r, {"fed"})
  BY PlacesClosed, WordIn, KeywordsIn, Zenon
<1>8. TemplateArgs \in Steps(r, {"fed"})
  BY TemplateArgsIn, PlacesClosed, FlagsKept, Zenon
<1>9. parseFuncAttr \in Steps(r, {"fed"})
  BY FuncAttrIn, PlacesClosed, FlagsKept, Zenon
<1>10. Body \in Steps(r, {"fed"})
  BY BodyIn, PlacesClosed, FlagsKept, Zenon
<1>11. Feeds(Name("back"))
  BY NamesFeed, Zenon DEF GivesUp
<1>12. QED
  BY <1>1, <1>2, <1>3, <1>4, <1>5, <1>6, <1>7, <1>8, <1>9, <1>10, <1>11,
     SimpleSteps, Sound11At5, Zenon DEF parseFunc

(* parseListPattern                                                        *)
LEMMA ListPatternSound ==
    ASSUME NEW start, NEW at, NEW r
    PROVE  Fresh(r, start, at, parseListPattern)
<1>1. Want("{") \in Simple(r, {})
  BY PlacesClosed, WordIn, PunctuationIn, Zenon
<1>2. NonEmpty("back") \in Simple(r, {"fed"})
  BY PlacesClosed, MissIn, CarryOn, Zenon DEF GivesUp
<1>3. WantBack("}") \in Simple(r, {"fed"})
  BY PlacesClosed, WordIn, PunctuationIn, Zenon
<1>4. List(Text("}"), <<NeedBack("ListEntry")>>) \in Steps(r, {"fed"})
  <2>1. NeedBack("ListEntry") \in Simple(r, InALoop({"fed"}))
    BY PlacesClosed, OneCallIn, FlagsKept, Zenon DEF Bearing, RuleNames
  <2>2. <<NeedBack("ListEntry")>> \in Seq(Depth5(r, InALoop({"fed"})))
    BY <2>1, SimpleSteps, Tuples, Zenon
  <2>3. QED
    BY <2>2, LoopSteps, PlacesClosed, TextTests, PunctuationIn, Zenon
<1>5. Feeds(Want("{"))
  BY WordsFeed, Zenon
<1>6. QED
  BY <1>1, <1>2, <1>3, <1>4, <1>5, SimpleSteps, Sound4At1,
     Zenon DEF parseListPattern

(* parseListEntry                                                          *)
LEMMA ListEntrySound ==
    ASSUME NEW start, NEW at, NEW r
    PROVE  Fresh(r, start, at, parseListEntry)
<1> DEFINE Kinds == {"repeat", "repeat_same"}
           Sub   == IfElse("{", <<May("ListEntry"), Expect("}")>>, <<May("Type")>>)
           More  == Branch(Before(Text(","), Kinds), <<Break>>, <<Token(Text(","),
               "break")>>)
           Types == Repeat(<<NeedBreak("Type"), More>>)
           Then1 == <<Token(OneOf(Kinds), "skip"), Sub, Done>>
           Else1 == <<Types, NonEmpty("back")>>
           Entry == Branch(OneOf(Kinds), Then1, Else1)
<1>1. Kinds \subseteq TestWords
  BY WordSetsIn
<1>2. /\ Kinds # {} /\ OneOf(Kinds) \in Tests
      /\ Before(Text(","), Kinds) \in Tests
  <2>1. \A ts \in SUBSET TestWords : OneOf(ts) \in Tests /\ Before(Text(","), ts) \in Tests
    BY PunctuationIn, WordTests, BeforeSetTests, Zenon
  <2>2. QED
    BY <1>1, <2>1
<1> HIDE DEF Kinds
<1>3. Token(OneOf(Kinds), "skip") \in Simple(r, {"fed"})
  BY <1>2, PlacesClosed, TokenIn, CarryOn, Zenon
<1>4. Done \in Simple(r, {"fed"})
  BY PlacesClosed, OtherIn, FlagsKept, Zenon
<1>5. Sub \in Depth5(r, {"fed"})
  <2>1. May("ListEntry") \in Simple(r, WhenFed({"fed"}))
    BY PlacesClosed, OneCallIn, FlagsKept, Zenon DEF Bearing, RuleNames
  <2>2. Expect("}") \in Simple(r, WhenFed({"fed"}))
    BY PlacesClosed, WordIn, PunctuationIn, Zenon
  <2>3. May("Type") \in Simple(r, {"fed"})
    BY PlacesClosed, OneCallIn, FlagsKept, Zenon DEF Bearing, RuleNames
  <2>4. /\ <<May("ListEntry"), Expect("}")>> \in Seq(Depth4(r, WhenFed({"fed"})))
        /\ <<May("Type")>> \in Seq(Depth4(r, {"fed"}))
    BY <2>1, <2>2, <2>3, SimpleSteps, Tuples, Zenon
  <2>5. QED
    BY <2>4, IfElseSteps, PlacesClosed, PunctuationIn, Zenon
<1>6. Types \in Depth5(r, {})
  <2>1. NeedBreak("Type") \in Simple(r, InALoop({}))
    BY PlacesClosed, OneCallIn, FlagsKept, CarryOn, Zenon DEF Bearing, RuleNames
  <2>2. More \in Depth4(r, InALoop({}))
    <3>1. Break \in Simple(r, InALoop({}))
      BY PlacesClosed, MissIn, CarryOn, FlagsKept, Zenon DEF Break
    <3>2. Token(Text(","), "break") \in Simple(r, InALoop({}))
      BY PlacesClosed, TokenIn, CarryOn, FlagsKept, TextTests, PunctuationIn,
         Zenon DEF GivesUp
    <3>3. /\ <<Break>> \in Seq(Depth3(r, InALoop({})))
          /\ <<Token(Text(","), "break")>> \in Seq(Depth3(r, InALoop({})))
      BY <3>1, <3>2, SimpleSteps, Tuples, Zenon
    <3>4. QED
      BY <1>2, <3>3, BranchSteps, PlacesClosed, Zenon
  <2>3. <<NeedBreak("Type"), More>> \in Seq(Depth4(r, InALoop({})))
    BY <2>1, <2>2, SimpleSteps, Tuples, Zenon
  <2>4. QED
    BY <2>3, LoopSteps, PlacesClosed, NameTests, Zenon DEF Repeat
<1>7. NonEmpty("back") \in Simple(r, {})
  BY PlacesClosed, MissIn, CarryOn, Zenon DEF GivesUp
<1> HIDE DEF Sub, Types
<1>8. Then1 \in Seq(Depth5(r, {"fed"})) /\ Else1 \in Seq(Depth5(r, {}))
  BY <1>3, <1>4, <1>5, <1>6, <1>7, SimpleSteps, Tuples, Zenon
<1>9. Then1 # << >> /\ Then1[1] = Token(OneOf(Kinds), "skip")
  OBVIOUS
<1>10. HasFeed(Else1)
  <2>1. FeedsAtOnce(Else1[2])
    BY DEF FeedsAtOnce, NonEmpty, GivesUp
  <2>2. QED
    BY <2>1 DEF HasFeed
<1> HIDE DEF Then1, Else1
<1>11. /\ Guarded(Entry)
       /\ Entry.do = "branch" /\ Entry.otherwise = Else1
  BY <1>9 DEF Guarded, Branch, Token
<1>12. Feeds(Entry)
  BY <1>10, <1>11, FeedsFirst
<1>13. {"fed"} = WhenFed({})
  BY DEF WhenFed
<1>14. Entry \in Steps(r, {})
  BY <1>2, <1>8, <1>11, <1>13, BranchIn, Zenon DEF Steps
<1>15. Fresh(r, start, at, <<Entry>>)
  BY <1>12, <1>14, Sound1At1
<1>16. QED
  BY <1>15 DEF Entry, Else1, Then1, Types, Sub, Kinds, parseListEntry, More

(* parseInterface                                                          *)
LEMMA InterfaceSound ==
    ASSUME NEW start, NEW at, NEW r
    PROVE  Fresh(r, start, at, parseInterface)
<1>1. WantBack("interface") \in Simple(r, {})
  BY PlacesClosed, WordIn, KeywordsIn, Zenon
<1>2. parseEntityAttribute \in Steps(r, {})
  BY EntityAttributeIn, PlacesClosed, FlagsKept, Zenon
<1>3. Name("null") \in Simple(r, {"fed"})
  BY PlacesClosed, NameIn, CarryOn, FlagsKept, Zenon DEF GivesUp
<1>4. /\ Expect("{") \in Simple(r, {"fed"})
      /\ Expect("}") \in Simple(r, {"fed"})
  BY PlacesClosed, WordIn, PunctuationIn, Zenon
<1>5. When(";", <<Done>>) \in Steps(r, {"fed"})
  <2>1. Done \in Simple(r, WhenFed({"fed"}))
    BY PlacesClosed, OtherIn, FlagsKept, Zenon
  <2>2. /\ <<Done>> \in Seq(Depth5(r, WhenFed({"fed"})))
        /\ << >> \in Seq(Depth5(r, {"fed"}))
    BY <2>1, SimpleSteps, Tuples, Zenon
  <2>3. QED
    BY <2>2, IfElseSteps, PlacesClosed, PunctuationIn, Zenon DEF When
<1>6. Bases \in Steps(r, {"fed"})
  BY BasesIn, PlacesClosed, FlagsKept, Zenon
<1>7. Members("}", <<"InterfaceMethod", "VirtualProp">>) \in Steps(r, {"fed"})
  <2>1. Any(<<"InterfaceMethod", "VirtualProp">>, "error") \in Simple(r,
            InALoop({"fed"}))
    BY PlacesClosed, CallIn, CallLists, CarryOn, FlagsKept, Zenon DEF GivesUp
  <2>2. <<Any(<<"InterfaceMethod", "VirtualProp">>, "error")>> \in Seq(Depth5(r,
            InALoop({"fed"})))
    BY <2>1, SimpleSteps, Tuples, Zenon
  <2>3. QED
    BY <2>2, LoopSteps, PlacesClosed, TextTests, PunctuationIn,
       Zenon DEF Members
<1>8. Feeds(WantBack("interface"))
  BY WordsFeed, Zenon
<1>9. QED
  BY <1>1, <1>2, <1>3, <1>4, <1>5, <1>6, <1>7, <1>8, SimpleSteps, Sound8At2,
     Zenon DEF parseInterface

(* parseVar                                                                *)
LEMMA VarSound ==
    ASSUME NEW start, NEW at, NEW r
    PROVE  Fresh(r, start, at, parseVar)
<1>1. Metadata \in Simple(r, {})
  BY PlacesClosed, OtherIn, FlagsKept, Zenon
<1>2. parseAccessModifier \in Simple(r, {})
  BY PlacesClosed, TokenIn, WordTests, WordSetsIn, CarryOn,
     Zenon DEF parseAccessModifier
<1>3. NeedBack("Type") \in Simple(r, {})
  BY PlacesClosed, OneCallIn, FlagsKept, Zenon DEF Bearing, RuleNames
<1>4. MustBack(";") \in Simple(r, {"fed"})
  BY PlacesClosed, WordIn, PunctuationIn, Zenon
<1>5. Ahead(IsName, "back") \in Steps(r, {"fed"})
  <2>1. Miss("back") \in Simple(r, {"fed"})
    BY PlacesClosed, MissIn, CarryOn, Zenon DEF GivesUp
  <2>2. /\ << >> \in Seq(Depth5(r, {"fed"}))
        /\ <<Miss("back")>> \in Seq(Depth5(r, {"fed"}))
    BY <2>1, SimpleSteps, Tuples, Zenon
  <2>3. QED
    BY <2>2, BranchSteps, PlacesClosed, NameTests, Zenon DEF Ahead
<1>6. List(Never, <<Name("break"), IfElse("=", <<Any(<<"InitList", "Assign">>,
          "skip")>>, <<May("ArgList")>>)>>) \in Steps(r, {"fed"})
  <2>1. Name("break") \in Simple(r, InALoop({"fed"}))
    BY PlacesClosed, NameIn, CarryOn, FlagsKept, Zenon DEF GivesUp
  <2>2. IfElse("=", <<Any(<<"InitList", "Assign">>, "skip")>>,
            <<May("ArgList")>>) \in Depth5(r, InALoop({"fed"}))
    <3>1. Any(<<"InitList", "Assign">>, "skip") \in Simple(r, WhenFed(InALoop({"fed"})))
      BY PlacesClosed, CallIn, CallLists, CarryOn, FlagsKept,
         Zenon DEF GivesUp
    <3>2. May("ArgList") \in Simple(r, InALoop({"fed"}))
      BY PlacesClosed, OneCallIn, FlagsKept, Zenon DEF Bearing, RuleNames
    <3>3. /\ <<Any(<<"InitList", "Assign">>, "skip")>> \in Seq(Depth4(r,
                 WhenFed(InALoop({"fed"}))))
          /\ <<May("ArgList")>> \in Seq(Depth4(r, InALoop({"fed"})))
      BY <3>1, <3>2, SimpleSteps, Tuples, Zenon
    <3>4. QED
      BY <3>3, IfElseSteps, PlacesClosed, OperatorsIn, Zenon
  <2>3. <<Name("break"), IfElse("=", <<Any(<<"InitList", "Assign">>, "skip")>>,
            <<May("ArgList")>>)>> \in Seq(Depth5(r, InALoop({"fed"})))
    BY <2>1, <2>2, SimpleSteps, Tuples, Zenon
  <2>4. QED
    BY <2>3, LoopSteps, PlacesClosed, NameTests, Zenon
<1>7. Feeds(NeedBack("Type"))
  BY CallsFeed, Zenon DEF Bearing, RuleNames
<1>8. QED
  BY <1>1, <1>2, <1>3, <1>4, <1>5, <1>6, <1>7, SimpleSteps, Sound6At3,
     Zenon DEF parseVar

(* parseImport                                                             *)
LEMMA ImportSound ==
    ASSUME NEW start, NEW at, NEW r
    PROVE  Fresh(r, start, at, parseImport)
<1>1. Want("import") \in Simple(r, {})
  BY PlacesClosed, WordIn, KeywordsIn, Zenon
<1>2. /\ Need("Type") \in Simple(r, {"fed"})
      /\ Need("ParamList") \in Simple(r, {"fed"})
  BY PlacesClosed, OneCallIn, FlagsKept, Zenon DEF Bearing, RuleNames
<1>3. Eat("&") \in Simple(r, {"fed"})
  BY PlacesClosed, WordIn, OperatorsIn, Zenon
<1>4. Name("null") \in Simple(r, {"fed"})
  BY PlacesClosed, NameIn, CarryOn, FlagsKept, Zenon DEF GivesUp
<1>5. Want("from") \in Simple(r, {"fed"})
  BY PlacesClosed, WordIn, KeywordsIn, Zenon
<1>6. Keep(Kind("String"), "null") \in Simple(r, {"fed"})
  BY PlacesClosed, TokenIn, CarryOn, FlagsKept, NameTests, Zenon DEF GivesUp
<1>7. Expect(";") \in Simple(r, {"fed"})
  BY PlacesClosed, WordIn, PunctuationIn, Zenon
<1>8. parseFuncAttr \in Steps(r, {"fed"})
  BY FuncAttrIn, PlacesClosed, FlagsKept, Zenon
<1>9. Feeds(Want("import"))
  BY WordsFeed, Zenon
<1>10. QED
  BY <1>1, <1>2, <1>3, <1>4, <1>5, <1>6, <1>7, <1>8, <1>9, SimpleSteps,
     Sound9At1, Zenon DEF parseImport

(* parseFuncDef                                                            *)
LEMMA FuncDefSound ==
    ASSUME NEW start, NEW at, NEW r
    PROVE  Fresh(r, start, at, parseFuncDef)
<1>1. WantBack("funcdef") \in Simple(r, {})
  BY PlacesClosed, WordIn, KeywordsIn, Zenon
<1>2. parseEntityAttribute \in Steps(r, {})
  BY EntityAttributeIn, PlacesClosed, FlagsKept, Zenon
<1>3. /\ Need("Type") \in Simple(r, {"fed"})
      /\ Need("ParamList") \in Simple(r, {"fed"})
  BY PlacesClosed, OneCallIn, FlagsKept, Zenon DEF Bearing, RuleNames
<1>4. Eat("&") \in Simple(r, {"fed"})
  BY PlacesClosed, WordIn, OperatorsIn, Zenon
<1>5. Name("null") \in Simple(r, {"fed"})
  BY PlacesClosed, NameIn, CarryOn, FlagsKept, Zenon DEF GivesUp
<1>6. Expect(";") \in Simple(r, {"fed"})
  BY PlacesClosed, WordIn, PunctuationIn, Zenon
<1>7. Feeds(WantBack("funcdef"))
  BY WordsFeed, Zenon
<1>8. QED
  BY <1>1, <1>2, <1>3, <1>4, <1>5, <1>6, <1>7, SimpleSteps, Sound7At2,
     Zenon DEF parseFuncDef

(* parseVirtualProp                                                        *)
LEMMA VirtualPropSound ==
    ASSUME NEW start, NEW at
    PROVE  Fresh("VirtualProp", start, at, parseVirtualProp)
<1>1. Metadata \in Simple("VirtualProp", {})
  BY PlacesClosed, OtherIn, FlagsKept, Zenon
<1>2. parseAccessModifier \in Simple("VirtualProp", {})
  BY PlacesClosed, TokenIn, WordTests, WordSetsIn, CarryOn,
     Zenon DEF parseAccessModifier
<1>3. NeedBack("Type") \in Simple("VirtualProp", {})
  BY PlacesClosed, OneCallIn, FlagsKept, Zenon DEF Bearing, RuleNames
<1>4. Eat("&") \in Simple("VirtualProp", {"fed"})
  BY PlacesClosed, WordIn, OperatorsIn, Zenon
<1>5. Name("back") \in Simple("VirtualProp", {"fed"})
  BY PlacesClosed, NameIn, CarryOn, FlagsKept, Zenon DEF GivesUp
<1>6. /\ WantBack("{") \in Simple("VirtualProp", {"fed"})
      /\ Expect("}") \in Simple("VirtualProp", {"fed"})
  BY PlacesClosed, WordIn, PunctuationIn, Zenon
<1>7. Until(Text("}"), <<Any(<<"Accessor">>, "error"),
          RefuseSecond>>) \in Steps("VirtualProp", {"fed"})
  <2>1. Any(<<"Accessor">>, "error") \in Simple("VirtualProp", InALoop({"fed"}))
    BY PlacesClosed, CallIn, CallLists, CarryOn, FlagsKept, Zenon DEF GivesUp
  <2>2. RefuseSecond \in Simple("VirtualProp", InALoop({"fed"}))
    BY PlacesClosed, OtherIn, FlagsKept, Zenon
  <2>3. <<Any(<<"Accessor">>, "error"), RefuseSecond>> \in Seq(Depth5("VirtualProp",
            InALoop({"fed"})))
    BY <2>1, <2>2, SimpleSteps, Tuples, Zenon
  <2>4. QED
    BY <2>3, LoopSteps, PlacesClosed, TextTests, PunctuationIn, Zenon
<1>8. Feeds(NeedBack("Type"))
  BY CallsFeed, Zenon DEF Bearing, RuleNames
<1>9. QED
  BY <1>1, <1>2, <1>3, <1>4, <1>5, <1>6, <1>7, <1>8, SimpleSteps, Sound8At3,
     Zenon DEF parseVirtualProp

(* parseVirtualProp's accessors                                            *)
LEMMA AccessorSound ==
    ASSUME NEW start, NEW at, NEW r
    PROVE  Fresh(r, start, at, Accessor)
<1>1. Keep(OneOf({"get", "set"}), "null") \in Simple(r, {})
  BY PlacesClosed, TokenIn, CarryOn, FlagsKept, WordTests, WordSetsIn,
     Zenon DEF GivesUp
<1>2. Eat("const") \in Simple(r, {"fed"})
  BY PlacesClosed, WordIn, KeywordsIn, Zenon
<1>3. parseFuncAttr \in Steps(r, {"fed"})
  BY FuncAttrIn, PlacesClosed, FlagsKept, Zenon
<1>4. Body \in Steps(r, {"fed"})
  BY BodyIn, PlacesClosed, FlagsKept, Zenon
<1>5. Feeds(Keep(OneOf({"get", "set"}), "null"))
  BY NamesFeed, Zenon DEF GivesUp
<1>6. QED
  BY <1>1, <1>2, <1>3, <1>4, <1>5, SimpleSteps, Sound4At1, Zenon DEF Accessor

(* parseInterfaceMethod                                                    *)
LEMMA InterfaceMethodSound ==
    ASSUME NEW start, NEW at, NEW r
    PROVE  Fresh(r, start, at, parseInterfaceMethod)
<1>1. Need("Type") \in Simple(r, {})
  BY PlacesClosed, OneCallIn, FlagsKept, Zenon DEF Bearing, RuleNames
<1>2. Eat("&") \in Simple(r, {"fed"})
  BY PlacesClosed, WordIn, OperatorsIn, Zenon
<1>3. Name("back") \in Simple(r, {"fed"})
  BY PlacesClosed, NameIn, CarryOn, FlagsKept, Zenon DEF GivesUp
<1>4. NeedBack("ParamList") \in Simple(r, {"fed"})
  BY PlacesClosed, OneCallIn, FlagsKept, Zenon DEF Bearing, RuleNames
<1>5. Eat("const") \in Simple(r, {"fed"})
  BY PlacesClosed, WordIn, KeywordsIn, Zenon
<1>6. MustBack(";") \in Simple(r, {"fed"})
  BY PlacesClosed, WordIn, PunctuationIn, Zenon
<1>7. parseFuncAttr \in Steps(r, {"fed"})
  BY FuncAttrIn, PlacesClosed, FlagsKept, Zenon
<1>8. Feeds(Need("Type"))
  BY CallsFeed, Zenon DEF Bearing, RuleNames
<1>9. QED
  BY <1>1, <1>2, <1>3, <1>4, <1>5, <1>6, <1>7, <1>8, SimpleSteps, Sound7At1,
     Zenon DEF parseInterfaceMethod

(* parseStatBlock                                                          *)
LEMMA StatBlockSound ==
    ASSUME NEW start, NEW at, NEW r
    PROVE  Fresh(r, start, at, parseStatBlock)
<1>1. Want("{") \in Simple(r, {})
  BY PlacesClosed, WordIn, PunctuationIn, Zenon
<1>2. Expect("}") \in Simple(r, {"fed"})
  BY PlacesClosed, WordIn, PunctuationIn, Zenon
<1>3. Members("}", <<"Using", "Var", "Statement">>) \in Steps(r, {"fed"})
  <2>1. Any(<<"Using", "Var", "Statement">>, "error") \in Simple(r, InALoop({"fed"}))
    BY PlacesClosed, CallIn, CallLists, CarryOn, FlagsKept, Zenon DEF GivesUp
  <2>2. <<Any(<<"Using", "Var", "Statement">>, "error")>> \in Seq(Depth5(r,
            InALoop({"fed"})))
    BY <2>1, SimpleSteps, Tuples, Zenon
  <2>3. QED
    BY <2>2, LoopSteps, PlacesClosed, TextTests, PunctuationIn,
       Zenon DEF Members
<1>4. Feeds(Want("{"))
  BY WordsFeed, Zenon
<1>5. QED
  BY <1>1, <1>2, <1>3, <1>4, SimpleSteps, Sound3At1, Zenon DEF parseStatBlock

(* parseParamList                                                          *)
LEMMA ParamListSound ==
    ASSUME NEW start, NEW at, NEW r
    PROVE  Fresh(r, start, at, parseParamList)
<1>1. Want("(") \in Simple(r, {})
  BY PlacesClosed, WordIn, PunctuationIn, Zenon
<1>2. Expect(")") \in Simple(r, {"fed"})
  BY PlacesClosed, WordIn, PunctuationIn, Zenon
<1>3. Branch(Before(Text("void"), {")"}), <<Eat("void"), Eat(")"), Done>>,
          << >>) \in Steps(r, {"fed"})
  <2>1. Eat("void") \in Simple(r, {"fed"})
    BY PlacesClosed, WordIn, OperatorsIn, Zenon
  <2>2. Eat(")") \in Simple(r, {"fed"})
    BY PlacesClosed, WordIn, PunctuationIn, Zenon
  <2>3. Done \in Simple(r, {"fed"})
    BY PlacesClosed, OtherIn, FlagsKept, Zenon
  <2>4. /\ <<Eat("void"), Eat(")"), Done>> \in Seq(Depth5(r, {"fed"}))
        /\ << >> \in Seq(Depth5(r, {"fed"}))
    BY <2>1, <2>2, <2>3, SimpleSteps, Tuples, Zenon
  <2>5. QED
    BY <2>4, BranchSteps, PlacesClosed, BeforeTests, OperatorsIn,
       PunctuationIn, Zenon
<1>4. List(Text(")"), <<NeedBreak("Parameter")>>) \in Steps(r, {"fed"})
  <2>1. NeedBreak("Parameter") \in Simple(r, InALoop({"fed"}))
    BY PlacesClosed, OneCallIn, FlagsKept, CarryOn, Zenon DEF Bearing,
       RuleNames
  <2>2. <<NeedBreak("Parameter")>> \in Seq(Depth5(r, InALoop({"fed"})))
    BY <2>1, SimpleSteps, Tuples, Zenon
  <2>3. QED
    BY <2>2, LoopSteps, PlacesClosed, TextTests, PunctuationIn, Zenon
<1>5. Feeds(Want("("))
  BY WordsFeed, Zenon
<1>6. QED
  BY <1>1, <1>2, <1>3, <1>4, <1>5, SimpleSteps, Sound4At1,
     Zenon DEF parseParamList

(* parseParameter                                                          *)
LEMMA ParameterSound ==
    ASSUME NEW start, NEW at, NEW r
    PROVE  Fresh(r, start, at, parseParameter)
<1>1. Need("Type") \in Simple(r, {})
  BY PlacesClosed, OneCallIn, FlagsKept, Zenon DEF Bearing, RuleNames
<1>2. Name("skip") \in Simple(r, {"fed"})
  BY PlacesClosed, NameIn, CarryOn, FlagsKept, Zenon DEF GivesUp
<1>3. parseTypeModifier \in Steps(r, {"fed"})
  BY TypeModifierIn, PlacesClosed, FlagsKept, Zenon
<1>4. IfElse("...", << >>, <<When("=", <<IfElse("void", << >>,
          <<May("Expr")>>)>>)>>) \in Steps(r, {"fed"})
  <2>1. When("=", <<IfElse("void", << >>, <<May("Expr")>>)>>) \in Depth5(r, {"fed"})
    <3>1. IfElse("void", << >>, <<May("Expr")>>) \in Depth4(r, WhenFed({"fed"}))
      <4>1. May("Expr") \in Simple(r, WhenFed({"fed"}))
        BY PlacesClosed, OneCallIn, FlagsKept, Zenon DEF Bearing, RuleNames
      <4>2. /\ << >> \in Seq(Depth3(r, WhenFed(WhenFed({"fed"}))))
            /\ <<May("Expr")>> \in Seq(Depth3(r, WhenFed({"fed"})))
        BY <4>1, SimpleSteps, Tuples, Zenon
      <4>3. QED
        BY <4>2, IfElseSteps, PlacesClosed, OperatorsIn, Zenon
    <3>2. /\ <<IfElse("void", << >>, <<May("Expr")>>)>> \in Seq(Depth4(r,
                 WhenFed({"fed"})))
          /\ << >> \in Seq(Depth4(r, {"fed"}))
      BY <3>1, Tuples, Zenon
    <3>3. QED
      BY <3>2, IfElseSteps, PlacesClosed, OperatorsIn, Zenon DEF When
  <2>2. /\ << >> \in Seq(Depth5(r, WhenFed({"fed"})))
        /\ <<When("=", <<IfElse("void", << >>,
               <<May("Expr")>>)>>)>> \in Seq(Depth5(r, {"fed"}))
    BY <2>1, Tuples, Zenon
  <2>3. QED
    BY <2>2, IfElseSteps, PlacesClosed, PunctuationIn, Zenon
<1>5. Feeds(Need("Type"))
  BY CallsFeed, Zenon DEF Bearing, RuleNames
<1>6. QED
  BY <1>1, <1>2, <1>3, <1>4, <1>5, SimpleSteps, Sound4At1,
     Zenon DEF parseParameter

(* parseType                                                               *)
LEMMA TypeSound ==
    ASSUME NEW start, NEW at, NEW r
    PROVE  Fresh(r, start, at, parseType)
<1>1. Eat("const") \in Simple(r, {})
  BY PlacesClosed, WordIn, KeywordsIn, Zenon
<1>2. /\ May("Scope") \in Simple(r, {})
      /\ NeedBack("DataType") \in Simple(r, {})
  BY PlacesClosed, OneCallIn, FlagsKept, Zenon DEF Bearing, RuleNames
<1>3. TemplateArgs \in Steps(r, {"fed"})
  BY TemplateArgsIn, PlacesClosed, FlagsKept, Zenon
<1>4. Repeat(<<Branch(Before(Text("["), {"]"}), <<Eat("["), Eat("]")>>,
          <<IfElse("@", <<Eat("+"), Eat("const")>>, <<Break>>)>>)>>) \in Steps(r,
          {"fed"})
  <2>1. Branch(Before(Text("["), {"]"}), <<Eat("["), Eat("]")>>, <<IfElse("@",
            <<Eat("+"), Eat("const")>>, <<Break>>)>>) \in Depth5(r,
            InALoop({"fed"}))
    <3>1. /\ Eat("[") \in Simple(r, InALoop({"fed"}))
          /\ Eat("]") \in Simple(r, InALoop({"fed"}))
      BY PlacesClosed, WordIn, PunctuationIn, Zenon
    <3>2. IfElse("@", <<Eat("+"), Eat("const")>>, <<Break>>) \in Depth4(r,
              InALoop({"fed"}))
      <4>1. Eat("+") \in Simple(r, WhenFed(InALoop({"fed"})))
        BY PlacesClosed, WordIn, OperatorsIn, Zenon
      <4>2. Eat("const") \in Simple(r, WhenFed(InALoop({"fed"})))
        BY PlacesClosed, WordIn, KeywordsIn, Zenon
      <4>3. Break \in Simple(r, InALoop({"fed"}))
        BY PlacesClosed, MissIn, CarryOn, FlagsKept, Zenon DEF Break
      <4>4. /\ <<Eat("+"), Eat("const")>> \in Seq(Depth3(r, WhenFed(InALoop({"fed"}))))
            /\ <<Break>> \in Seq(Depth3(r, InALoop({"fed"})))
        BY <4>1, <4>2, <4>3, SimpleSteps, Tuples, Zenon
      <4>5. QED
        BY <4>4, IfElseSteps, PlacesClosed, OperatorsIn, Zenon
    <3>3. /\ <<Eat("["), Eat("]")>> \in Seq(Depth4(r, InALoop({"fed"})))
          /\ <<IfElse("@", <<Eat("+"), Eat("const")>>,
                 <<Break>>)>> \in Seq(Depth4(r, InALoop({"fed"})))
      BY <3>1, <3>2, SimpleSteps, Tuples, Zenon
    <3>4. QED
      BY <3>3, BranchSteps, PlacesClosed, BeforeTests, PunctuationIn, Zenon
  <2>2. <<Branch(Before(Text("["), {"]"}), <<Eat("["), Eat("]")>>, <<IfElse("@",
            <<Eat("+"), Eat("const")>>, <<Break>>)>>)>> \in Seq(Depth5(r,
            InALoop({"fed"})))
    BY <2>1, Tuples, Zenon
  <2>3. QED
    BY <2>2, LoopSteps, PlacesClosed, NameTests, Zenon DEF Repeat
<1>5. Feeds(NeedBack("DataType"))
  BY CallsFeed, Zenon DEF Bearing, RuleNames
<1>6. QED
  BY <1>1, <1>2, <1>3, <1>4, <1>5, SimpleSteps, Sound5At3, Zenon DEF parseType

(* parseInitList                                                           *)
LEMMA InitListSound ==
    ASSUME NEW start, NEW at, NEW r
    PROVE  Fresh(r, start, at, parseInitList)
<1>1. Want("{") \in Simple(r, {})
  BY PlacesClosed, WordIn, PunctuationIn, Zenon
<1>2. Expect("}") \in Simple(r, {"fed"})
  BY PlacesClosed, WordIn, PunctuationIn, Zenon
<1>3. TrailingList(Text("}"), <<Any(<<"InitList", "Assign">>,
          "break")>>) \in Steps(r, {"fed"})
  <2>1. Any(<<"InitList", "Assign">>, "break") \in Simple(r, InALoop({"fed"}))
    BY PlacesClosed, CallIn, CallLists, CarryOn, FlagsKept, Zenon DEF GivesUp
  <2>2. <<Any(<<"InitList", "Assign">>, "break")>> \in Seq(Depth5(r, InALoop({"fed"})))
    BY <2>1, SimpleSteps, Tuples, Zenon
  <2>3. QED
    BY <2>2, LoopSteps, PlacesClosed, TextTests, PunctuationIn, Zenon
<1>4. Feeds(Want("{"))
  BY WordsFeed, Zenon
<1>5. QED
  BY <1>1, <1>2, <1>3, <1>4, SimpleSteps, Sound3At1, Zenon DEF parseInitList

(* parseScope                                                              *)
LEMMA ScopeSound ==
    ASSUME NEW start, NEW at
    PROVE  Fresh("Scope", start, at, parseScope)
<1>1. Keep(Text("::"), "skip") \in Simple("Scope", {})
  BY PlacesClosed, TokenIn, CarryOn, FlagsKept, TextTests, PunctuationIn,
     Zenon DEF GivesUp
<1>2. NonEmpty("null") \in Simple("Scope", {})
  BY PlacesClosed, MissIn, CarryOn, Zenon DEF GivesUp
<1>3. Repeat(<<Try(<<Name("fail"), IfElse("::", << >>, <<DropTypes,
          parseTemplateTypeArgs(<<Fail>>), Token(Text("::"), "fail")>>)>>,
          <<Break>>)>>) \in Steps("Scope", {})
  <2>1. Try(<<Name("fail"), IfElse("::", << >>, <<DropTypes,
            parseTemplateTypeArgs(<<Fail>>), Token(Text("::"), "fail")>>)>>,
            <<Break>>) \in Depth5("Scope", InALoop({}))
    <3>1. Name("fail") \in Simple("Scope", InATry(InALoop({})))
      BY PlacesClosed, NameIn, CarryOn, FlagsKept, Zenon DEF GivesUp
    <3>2. IfElse("::", << >>, <<DropTypes, parseTemplateTypeArgs(<<Fail>>),
              Token(Text("::"), "fail")>>) \in Depth4("Scope", InATry(InALoop({})))
      <4>1. DropTypes \in Simple("Scope", InATry(InALoop({})))
        BY PlacesClosed, OtherIn, FlagsKept, Zenon
      <4>2. Token(Text("::"), "fail") \in Simple("Scope", InATry(InALoop({})))
        BY PlacesClosed, TokenIn, CarryOn, FlagsKept, TextTests,
           PunctuationIn, Zenon DEF GivesUp
      <4>3. parseTemplateTypeArgs(<<Fail>>) \in Depth3("Scope", InATry(InALoop({})))
        BY TemplateTypeArgsIn, PlacesClosed, FlagsKept, Zenon
      <4>4. /\ << >> \in Seq(Depth3("Scope", WhenFed(InATry(InALoop({})))))
            /\ <<DropTypes, parseTemplateTypeArgs(<<Fail>>), Token(Text("::"),
                   "fail")>> \in Seq(Depth3("Scope", InATry(InALoop({}))))
        BY <4>1, <4>2, <4>3, SimpleSteps, Tuples, Zenon
      <4>5. QED
        BY <4>4, IfElseSteps, PlacesClosed, PunctuationIn, Zenon
    <3>3. Break \in Simple("Scope", InALoop({}))
      BY PlacesClosed, MissIn, CarryOn, FlagsKept, Zenon DEF Break
    <3>4. /\ <<Name("fail"), IfElse("::", << >>, <<DropTypes,
                 parseTemplateTypeArgs(<<Fail>>), Token(Text("::"),
                 "fail")>>)>> \in Seq(Depth4("Scope", InATry(InALoop({}))))
          /\ <<Break>> \in Seq(Depth4("Scope", InALoop({})))
      BY <3>1, <3>2, <3>3, SimpleSteps, Tuples, Zenon
    <3>5. QED
      BY <3>4, TrySteps, PlacesClosed, Zenon
  <2>2. <<Try(<<Name("fail"), IfElse("::", << >>, <<DropTypes,
            parseTemplateTypeArgs(<<Fail>>), Token(Text("::"), "fail")>>)>>,
            <<Break>>)>> \in Seq(Depth5("Scope", InALoop({})))
    BY <2>1, Tuples, Zenon
  <2>3. QED
    BY <2>2, LoopSteps, PlacesClosed, NameTests, Zenon DEF Repeat
<1>4. Feeds(NonEmpty("null"))
  BY NamesFeed, Zenon DEF GivesUp
<1>5. QED
  BY <1>1, <1>2, <1>3, <1>4, SimpleSteps, Sound3At3, Zenon DEF parseScope

(* parseDataType                                                           *)
LEMMA DataTypeSound ==
    ASSUME NEW start, NEW at, NEW r
    PROVE  Fresh(r, start, at, parseDataType)
<1>1. Keep([Text("?") EXCEPT !. kinds = {"Name"}], "null") \in Simple(r, {})
  BY PlacesClosed, TokenIn, CarryOn, FlagsKept, OtherTests, Zenon DEF GivesUp
<1>2. Feeds(Keep([Text("?") EXCEPT !. kinds = {"Name"}], "null"))
  BY NamesFeed, Zenon DEF GivesUp
<1>3. QED
  BY <1>1, <1>2, SimpleSteps, Sound1At1, Zenon DEF parseDataType

(* parseStatement                                                          *)
LEMMA StatementSound ==
    ASSUME NEW start, NEW at, NEW r
    PROVE  Fresh(r, start, at, parseStatement)
<1>1. Offer(<<"If", "For", "ForEach", "While", "Return", "StatBlock", "Break",
          "Continue", "DoWhile", "Switch", "Try", "ExprStat">>,
          "null") \in Simple(r, {})
  BY PlacesClosed, CallIn, CallLists, CarryOn, FlagsKept, Zenon DEF GivesUp
<1>2. Feeds(Offer(<<"If", "For", "ForEach", "While", "Return", "StatBlock", "Break",
          "Continue", "DoWhile", "Switch", "Try", "ExprStat">>, "null"))
  BY OffersFeed, CallLists, Zenon
<1>3. QED
  BY <1>1, <1>2, SimpleSteps, Sound1At1, Zenon DEF parseStatement

(* parseSwitch                                                             *)
LEMMA SwitchSound ==
    ASSUME NEW start, NEW at, NEW r
    PROVE  Fresh(r, start, at, parseSwitch)
<1>1. Want("switch") \in Simple(r, {})
  BY PlacesClosed, WordIn, KeywordsIn, Zenon
<1>2. /\ Must("(") \in Simple(r, {"fed"})
      /\ Expect(")") \in Simple(r, {"fed"})
      /\ Expect("{") \in Simple(r, {"fed"})
      /\ Expect("}") \in Simple(r, {"fed"})
  BY PlacesClosed, WordIn, PunctuationIn, Zenon
<1>3. Need("Assign") \in Simple(r, {"fed"})
  BY PlacesClosed, OneCallIn, FlagsKept, Zenon DEF Bearing, RuleNames
<1>4. Members("}", <<"Case">>) \in Steps(r, {"fed"})
  <2>1. Any(<<"Case">>, "error") \in Simple(r, InALoop({"fed"}))
    BY PlacesClosed, CallIn, CallLists, CarryOn, FlagsKept, Zenon DEF GivesUp
  <2>2. <<Any(<<"Case">>, "error")>> \in Seq(Depth5(r, InALoop({"fed"})))
    BY <2>1, SimpleSteps, Tuples, Zenon
  <2>3. QED
    BY <2>2, LoopSteps, PlacesClosed, TextTests, PunctuationIn,
       Zenon DEF Members
<1>5. Feeds(Want("switch"))
  BY WordsFeed, Zenon
<1>6. QED
  BY <1>1, <1>2, <1>3, <1>4, <1>5, SimpleSteps, Sound7At1,
     Zenon DEF parseSwitch

(* parseBreak                                                              *)
LEMMA BreakSound ==
    ASSUME NEW start, NEW at, NEW r
    PROVE  Fresh(r, start, at, parseBreak)
<1>1. Want("break") \in Simple(r, {})
  BY PlacesClosed, WordIn, KeywordsIn, Zenon
<1>2. Expect(";") \in Simple(r, {"fed"})
  BY PlacesClosed, WordIn, PunctuationIn, Zenon
<1>3. Feeds(Want("break"))
  BY WordsFeed, Zenon
<1>4. QED
  BY <1>1, <1>2, <1>3, SimpleSteps, Sound2At1, Zenon DEF parseBreak

(* parseFor                                                                *)
LEMMA ForSound ==
    ASSUME NEW start, NEW at, NEW r
    PROVE  Fresh(r, start, at, parseFor)
<1>1. Want("for") \in Simple(r, {})
  BY PlacesClosed, WordIn, KeywordsIn, Zenon
<1>2. /\ Must("(") \in Simple(r, {"fed"})
      /\ Expect(")") \in Simple(r, {"fed"})
  BY PlacesClosed, WordIn, PunctuationIn, Zenon
<1>3. Any(<<"Var", "ExprStat">>, "null") \in Simple(r, {"fed"})
  BY PlacesClosed, CallIn, CallLists, CarryOn, FlagsKept, Zenon DEF GivesUp
<1>4. /\ May("ExprStat") \in Simple(r, {"fed"})
      /\ May("Statement") \in Simple(r, {"fed"})
  BY PlacesClosed, OneCallIn, FlagsKept, Zenon DEF Bearing, RuleNames
<1>5. List(Text(")"), <<NeedBreak("Assign")>>) \in Steps(r, {"fed"})
  <2>1. NeedBreak("Assign") \in Simple(r, InALoop({"fed"}))
    BY PlacesClosed, OneCallIn, FlagsKept, CarryOn, Zenon DEF Bearing,
       RuleNames
  <2>2. <<NeedBreak("Assign")>> \in Seq(Depth5(r, InALoop({"fed"})))
    BY <2>1, SimpleSteps, Tuples, Zenon
  <2>3. QED
    BY <2>2, LoopSteps, PlacesClosed, TextTests, PunctuationIn, Zenon
<1>6. Feeds(Want("for"))
  BY WordsFeed, Zenon
<1>7. QED
  BY <1>1, <1>2, <1>3, <1>4, <1>5, <1>6, SimpleSteps, Sound7At1,
     Zenon DEF parseFor

(* parseForEach                                                            *)
LEMMA ForEachSound ==
    ASSUME NEW start, NEW at, NEW r
    PROVE  Fresh(r, start, at, parseForEach)
<1>1. Want("foreach") \in Simple(r, {})
  BY PlacesClosed, WordIn, KeywordsIn, Zenon
<1>2. /\ Must("(") \in Simple(r, {"fed"})
      /\ Expect(":") \in Simple(r, {"fed"})
      /\ Expect(")") \in Simple(r, {"fed"})
  BY PlacesClosed, WordIn, PunctuationIn, Zenon
<1>3. /\ May("Assign") \in Simple(r, {"fed"})
      /\ May("Statement") \in Simple(r, {"fed"})
  BY PlacesClosed, OneCallIn, FlagsKept, Zenon DEF Bearing, RuleNames
<1>4. List(Text(":"), <<NeedBreak("Type"), Name("skip")>>) \in Steps(r, {"fed"})
  <2>1. NeedBreak("Type") \in Simple(r, InALoop({"fed"}))
    BY PlacesClosed, OneCallIn, FlagsKept, CarryOn, Zenon DEF Bearing,
       RuleNames
  <2>2. Name("skip") \in Simple(r, InALoop({"fed"}))
    BY PlacesClosed, NameIn, CarryOn, FlagsKept, Zenon DEF GivesUp
  <2>3. <<NeedBreak("Type"), Name("skip")>> \in Seq(Depth5(r, InALoop({"fed"})))
    BY <2>1, <2>2, SimpleSteps, Tuples, Zenon
  <2>4. QED
    BY <2>3, LoopSteps, PlacesClosed, TextTests, PunctuationIn, Zenon
<1>5. Feeds(Want("foreach"))
  BY WordsFeed, Zenon
<1>6. QED
  BY <1>1, <1>2, <1>3, <1>4, <1>5, SimpleSteps, Sound7At1,
     Zenon DEF parseForEach

(* parseWhile                                                              *)
LEMMA WhileSound ==
    ASSUME NEW start, NEW at, NEW r
    PROVE  Fresh(r, start, at, parseWhile)
<1>1. Want("while") \in Simple(r, {})
  BY PlacesClosed, WordIn, KeywordsIn, Zenon
<1>2. /\ Must("(") \in Simple(r, {"fed"})
      /\ Must(")") \in Simple(r, {"fed"})
  BY PlacesClosed, WordIn, PunctuationIn, Zenon
<1>3. /\ Need("Assign") \in Simple(r, {"fed"})
      /\ May("Statement") \in Simple(r, {"fed"})
  BY PlacesClosed, OneCallIn, FlagsKept, Zenon DEF Bearing, RuleNames
<1>4. Feeds(Want("while"))
  BY WordsFeed, Zenon
<1>5. QED
  BY <1>1, <1>2, <1>3, <1>4, SimpleSteps, Sound5At1, Zenon DEF parseWhile

(* parseDoWhile                                                            *)
LEMMA DoWhileSound ==
    ASSUME NEW start, NEW at, NEW r
    PROVE  Fresh(r, start, at, parseDoWhile)
<1>1. Want("do") \in Simple(r, {})
  BY PlacesClosed, WordIn, KeywordsIn, Zenon
<1>2. /\ May("Statement") \in Simple(r, {"fed"})
      /\ May("Assign") \in Simple(r, {"fed"})
  BY PlacesClosed, OneCallIn, FlagsKept, Zenon DEF Bearing, RuleNames
<1>3. Must("while") \in Simple(r, {"fed"})
  BY PlacesClosed, WordIn, KeywordsIn, Zenon
<1>4. /\ Must("(") \in Simple(r, {"fed"})
      /\ Expect(")") \in Simple(r, {"fed"})
      /\ Expect(";") \in Simple(r, {"fed"})
  BY PlacesClosed, WordIn, PunctuationIn, Zenon
<1>5. Feeds(Want("do"))
  BY WordsFeed, Zenon
<1>6. QED
  BY <1>1, <1>2, <1>3, <1>4, <1>5, SimpleSteps, Sound7At1,
     Zenon DEF parseDoWhile

(* parseIf                                                                 *)
LEMMA IfSound ==
    ASSUME NEW start, NEW at, NEW r
    PROVE  Fresh(r, start, at, parseIf)
<1>1. Want("if") \in Simple(r, {})
  BY PlacesClosed, WordIn, KeywordsIn, Zenon
<1>2. /\ Must("(") \in Simple(r, {"fed"})
      /\ Must(")") \in Simple(r, {"fed"})
  BY PlacesClosed, WordIn, PunctuationIn, Zenon
<1>3. /\ Need("Assign") \in Simple(r, {"fed"})
      /\ May("Statement") \in Simple(r, {"fed"})
  BY PlacesClosed, OneCallIn, FlagsKept, Zenon DEF Bearing, RuleNames
<1>4. When("else", <<May("Statement")>>) \in Steps(r, {"fed"})
  <2>1. May("Statement") \in Simple(r, WhenFed({"fed"}))
    BY PlacesClosed, OneCallIn, FlagsKept, Zenon DEF Bearing, RuleNames
  <2>2. /\ <<May("Statement")>> \in Seq(Depth5(r, WhenFed({"fed"})))
        /\ << >> \in Seq(Depth5(r, {"fed"}))
    BY <2>1, SimpleSteps, Tuples, Zenon
  <2>3. QED
    BY <2>2, IfElseSteps, PlacesClosed, KeywordsIn, Zenon DEF When
<1>5. Feeds(Want("if"))
  BY WordsFeed, Zenon
<1>6. QED
  BY <1>1, <1>2, <1>3, <1>4, <1>5, SimpleSteps, Sound6At1, Zenon DEF parseIf

(* parseContinue                                                           *)
LEMMA ContinueSound ==
    ASSUME NEW start, NEW at, NEW r
    PROVE  Fresh(r, start, at, parseContinue)
<1>1. Want("continue") \in Simple(r, {})
  BY PlacesClosed, WordIn, KeywordsIn, Zenon
<1>2. Expect(";") \in Simple(r, {"fed"})
  BY PlacesClosed, WordIn, PunctuationIn, Zenon
<1>3. Feeds(Want("continue"))
  BY WordsFeed, Zenon
<1>4. QED
  BY <1>1, <1>2, <1>3, SimpleSteps, Sound2At1, Zenon DEF parseContinue

(* parseExprStat                                                           *)
LEMMA ExprStatSound ==
    ASSUME NEW start, NEW at, NEW r
    PROVE  Fresh(r, start, at, parseExprStat)
<1>1. Need("Assign") \in Simple(r, {})
  BY PlacesClosed, OneCallIn, FlagsKept, Zenon DEF Bearing, RuleNames
<1>2. When(";", <<Done>>) \in Steps(r, {})
  <2>1. Done \in Simple(r, WhenFed({}))
    BY PlacesClosed, OtherIn, FlagsKept, Zenon
  <2>2. /\ <<Done>> \in Seq(Depth5(r, WhenFed({})))
        /\ << >> \in Seq(Depth5(r, {}))
    BY <2>1, SimpleSteps, Tuples, Zenon
  <2>3. QED
    BY <2>2, IfElseSteps, PlacesClosed, PunctuationIn, Zenon DEF When
<1>3. Expect(";") \in Simple(r, {"fed"})
  BY PlacesClosed, WordIn, PunctuationIn, Zenon
<1>4. Feeds(Need("Assign"))
  BY CallsFeed, Zenon DEF Bearing, RuleNames
<1>5. QED
  BY <1>1, <1>2, <1>3, <1>4, SimpleSteps, Sound3At2, Zenon DEF parseExprStat

(* parseTry                                                                *)
LEMMA TrySound ==
    ASSUME NEW start, NEW at, NEW r
    PROVE  Fresh(r, start, at, parseTry)
<1>1. Want("try") \in Simple(r, {})
  BY PlacesClosed, WordIn, KeywordsIn, Zenon
<1>2. /\ Need("StatBlock") \in Simple(r, {"fed"})
      /\ May("StatBlock") \in Simple(r, {"fed"})
  BY PlacesClosed, OneCallIn, FlagsKept, Zenon DEF Bearing, RuleNames
<1>3. Must("catch") \in Simple(r, {"fed"})
  BY PlacesClosed, WordIn, KeywordsIn, Zenon
<1>4. Feeds(Want("try"))
  BY WordsFeed, Zenon
<1>5. QED
  BY <1>1, <1>2, <1>3, <1>4, SimpleSteps, Sound4At1, Zenon DEF parseTry

(* parseReturn                                                             *)
LEMMA ReturnSound ==
    ASSUME NEW start, NEW at, NEW r
    PROVE  Fresh(r, start, at, parseReturn)
<1>1. Want("return") \in Simple(r, {})
  BY PlacesClosed, WordIn, KeywordsIn, Zenon
<1>2. Expect(";") \in Simple(r, {"fed"})
  BY PlacesClosed, WordIn, PunctuationIn, Zenon
<1>3. Branch(Text(";"), << >>, <<May("Assign")>>) \in Steps(r, {"fed"})
  <2>1. May("Assign") \in Simple(r, {"fed"})
    BY PlacesClosed, OneCallIn, FlagsKept, Zenon DEF Bearing, RuleNames
  <2>2. /\ << >> \in Seq(Depth5(r, {"fed"}))
        /\ <<May("Assign")>> \in Seq(Depth5(r, {"fed"}))
    BY <2>1, SimpleSteps, Tuples, Zenon
  <2>3. QED
    BY <2>2, BranchSteps, PlacesClosed, TextTests, PunctuationIn, Zenon
<1>4. Feeds(Want("return"))
  BY WordsFeed, Zenon
<1>5. QED
  BY <1>1, <1>2, <1>3, <1>4, SimpleSteps, Sound3At1, Zenon DEF parseReturn

(* parseCase                                                               *)
LEMMA CaseSound ==
    ASSUME NEW start, NEW at, NEW r
    PROVE  Fresh(r, start, at, parseCase)
<1>1. IfElse("case", <<May("Expr")>>, <<Want("default")>>) \in Steps(r, {})
  <2>1. May("Expr") \in Simple(r, WhenFed({}))
    BY PlacesClosed, OneCallIn, FlagsKept, Zenon DEF Bearing, RuleNames
  <2>2. Want("default") \in Simple(r, {})
    BY PlacesClosed, WordIn, KeywordsIn, Zenon
  <2>3. /\ <<May("Expr")>> \in Seq(Depth5(r, WhenFed({})))
        /\ <<Want("default")>> \in Seq(Depth5(r, {}))
    BY <2>1, <2>2, SimpleSteps, Tuples, Zenon
  <2>4. QED
    BY <2>3, IfElseSteps, PlacesClosed, KeywordsIn, Zenon
<1>2. Expect(":") \in Simple(r, {"fed"})
  BY PlacesClosed, WordIn, PunctuationIn, Zenon
<1>3. Until(OneOf({"case", "default", "}"}),
          <<NeedBreak("Statement")>>) \in Steps(r, {"fed"})
  <2>1. NeedBreak("Statement") \in Simple(r, InALoop({"fed"}))
    BY PlacesClosed, OneCallIn, FlagsKept, CarryOn, Zenon DEF Bearing,
       RuleNames
  <2>2. <<NeedBreak("Statement")>> \in Seq(Depth5(r, InALoop({"fed"})))
    BY <2>1, SimpleSteps, Tuples, Zenon
  <2>3. QED
    BY <2>2, LoopSteps, PlacesClosed, CaseTest, Zenon
<1>4. Feeds(IfElse("case", <<May("Expr")>>, <<Want("default")>>))
  <2> DEFINE s == IfElse("case", <<May("Expr")>>, <<Want("default")>>)
  <2>1. s.do = "branch" /\ s.otherwise = <<Want("default")>> /\ s.then[1] = Eat("case")
        /\ s.then # << >> /\ s.test = Text("case")
    BY DEF IfElse, Branch
  <2>2. Guarded(s)
    BY <2>1 DEF Guarded, Eat, Token
  <2>3. HasFeed(<<Want("default")>>)
    BY DEF HasFeed, FeedsAtOnce, Want, Token, GivesUp
  <2>4. QED
    BY <2>1, <2>2, <2>3, FeedsFirst
<1>5. QED
  BY <1>1, <1>2, <1>3, <1>4, SimpleSteps, Sound3At1, Zenon DEF parseCase

(* parseExpr                                                               *)
LEMMA ExprSound ==
    ASSUME NEW start, NEW at, NEW r
    PROVE  Fresh(r, start, at, parseExpr)
<1>1. Need("ExprTerm") \in Simple(r, {})
  BY PlacesClosed, OneCallIn, FlagsKept, Zenon DEF Bearing, RuleNames
<1>2. Repeat(<<NeedBreak("OpTerm")>>) \in Steps(r, {"fed"})
  <2>1. NeedBreak("OpTerm") \in Simple(r, InALoop({"fed"}))
    BY PlacesClosed, OneCallIn, FlagsKept, CarryOn, Zenon DEF Bearing,
       RuleNames
  <2>2. <<NeedBreak("OpTerm")>> \in Seq(Depth5(r, InALoop({"fed"})))
    BY <2>1, SimpleSteps, Tuples, Zenon
  <2>3. QED
    BY <2>2, LoopSteps, PlacesClosed, NameTests, Zenon DEF Repeat
<1>3. Feeds(Need("ExprTerm"))
  BY CallsFeed, Zenon DEF Bearing, RuleNames
<1>4. QED
  BY <1>1, <1>2, <1>3, SimpleSteps, Sound2At1, Zenon DEF parseExpr

(* A round of parseExpr                                                    *)
LEMMA OpTermSound ==
    ASSUME NEW start, NEW at, NEW r
    PROVE  Fresh(r, start, at, OpTerm)
<1>1. Keep(OneOf(ExprOps), "null") \in Simple(r, {})
  BY PlacesClosed, TokenIn, CarryOn, FlagsKept, WordTests, WordSets,
     Zenon DEF GivesUp
<1>2. Need("ExprTerm") \in Simple(r, {"fed"})
  BY PlacesClosed, OneCallIn, FlagsKept, Zenon DEF Bearing, RuleNames
<1>3. Feeds(Keep(OneOf(ExprOps), "null"))
  BY NamesFeed, Zenon DEF GivesUp
<1>4. QED
  BY <1>1, <1>2, <1>3, SimpleSteps, Sound2At1, Zenon DEF OpTerm

(* parseExprTerm                                                           *)
LEMMA ExprTermSound ==
    ASSUME NEW start, NEW at, NEW r
    PROVE  Fresh(r, start, at, parseExprTerm)
<1>1. Branch(Text("{"), <<AnyDone(<<"InitList">>, "skip")>>, << >>) \in Steps(r, {})
  <2>1. AnyDone(<<"InitList">>, "skip") \in Simple(r, {})
    BY PlacesClosed, CallIn, CallLists, CarryOn, FlagsKept, Zenon DEF GivesUp
  <2>2. /\ <<AnyDone(<<"InitList">>, "skip")>> \in Seq(Depth5(r, {}))
        /\ << >> \in Seq(Depth5(r, {}))
    BY <2>1, SimpleSteps, Tuples, Zenon
  <2>3. QED
    BY <2>2, BranchSteps, PlacesClosed, TextTests, PunctuationIn, Zenon
<1>2. Try(<<Any(<<"Type">>, "fail"), Token(Text("="), "fail"),
          AnyDone(<<"InitList">>, "fail")>>, << >>) \in Steps(r, {})
  <2>1. /\ Any(<<"Type">>, "fail") \in Simple(r, InATry({}))
        /\ AnyDone(<<"InitList">>, "fail") \in Simple(r, InATry({}))
    BY PlacesClosed, CallIn, CallLists, CarryOn, FlagsKept, Zenon DEF GivesUp
  <2>2. Token(Text("="), "fail") \in Simple(r, InATry({}))
    BY PlacesClosed, TokenIn, CarryOn, FlagsKept, TextTests, OperatorsIn,
       Zenon DEF GivesUp
  <2>3. /\ <<Any(<<"Type">>, "fail"), Token(Text("="), "fail"),
               AnyDone(<<"InitList">>, "fail")>> \in Seq(Depth5(r, InATry({})))
        /\ << >> \in Seq(Depth5(r, {}))
    BY <2>1, <2>2, SimpleSteps, Tuples, Zenon
  <2>4. QED
    BY <2>3, TrySteps, PlacesClosed, Zenon
<1>3. Branch(OneOf(ExprPreOps), <<All(Keep(OneOf(ExprPreOps), "break")),
          NeedBack("ExprValue")>>, <<Need("ExprValue")>>) \in Steps(r, {})
  <2>1. /\ NeedBack("ExprValue") \in Simple(r, {})
        /\ Need("ExprValue") \in Simple(r, {})
    BY PlacesClosed, OneCallIn, FlagsKept, Zenon DEF Bearing, RuleNames
  <2>2. All(Keep(OneOf(ExprPreOps), "break")) \in Depth5(r, {})
    <3>1. Keep(OneOf(ExprPreOps), "break") \in Simple(r, InALoop({}))
      BY PlacesClosed, TokenIn, CarryOn, FlagsKept, WordTests, WordSets,
         Zenon DEF GivesUp
    <3>2. <<Keep(OneOf(ExprPreOps), "break")>> \in Seq(Depth4(r, InALoop({})))
      BY <3>1, SimpleSteps, Tuples, Zenon
    <3>3. QED
      BY <3>2, LoopSteps, PlacesClosed, NameTests, Zenon DEF All, Repeat
  <2>3. /\ <<All(Keep(OneOf(ExprPreOps), "break")),
               NeedBack("ExprValue")>> \in Seq(Depth5(r, {}))
        /\ <<Need("ExprValue")>> \in Seq(Depth5(r, {}))
    BY <2>1, <2>2, SimpleSteps, Tuples, Zenon
  <2>4. QED
    BY <2>3, BranchSteps, PlacesClosed, WordTests, WordSets, Zenon
<1>4. Repeat(<<NeedBreak("ExprPostOp")>>) \in Steps(r, {"fed"})
  <2>1. NeedBreak("ExprPostOp") \in Simple(r, InALoop({"fed"}))
    BY PlacesClosed, OneCallIn, FlagsKept, CarryOn, Zenon DEF Bearing,
       RuleNames
  <2>2. <<NeedBreak("ExprPostOp")>> \in Seq(Depth5(r, InALoop({"fed"})))
    BY <2>1, SimpleSteps, Tuples, Zenon
  <2>3. QED
    BY <2>2, LoopSteps, PlacesClosed, NameTests, Zenon DEF Repeat
<1>5. Feeds(Branch(OneOf(ExprPreOps), <<All(Keep(OneOf(ExprPreOps), "break")),
          NeedBack("ExprValue")>>, <<Need("ExprValue")>>))
  <2> DEFINE xs == <<All(Keep(OneOf(ExprPreOps), "break")), NeedBack("ExprValue")>>
             ys == <<Need("ExprValue")>>
  <2>1. FeedsAtOnce(xs[2]) /\ FeedsAtOnce(ys[1])
    <3>1. "ExprValue" \in Bearing
      BY Zenon DEF Bearing, RuleNames
    <3>2. QED
      BY <3>1, CallsFeedAtOnce
  <2>2. HasFeed(xs) /\ HasFeed(ys)
    BY <2>1 DEF HasFeed
  <2> HIDE DEF xs, ys
  <2>3. Feeds(Branch(OneOf(ExprPreOps), xs, ys))
    BY <2>2 DEF Feeds, Branch
  <2>4. QED
    BY <2>3 DEF xs, ys
<1>6. QED
  BY <1>1, <1>2, <1>3, <1>4, <1>5, SimpleSteps, Sound4At3,
     Zenon DEF parseExprTerm

(* parseExprValue                                                          *)
LEMMA ExprValueSound ==
    ASSUME NEW start, NEW at, NEW r
    PROVE  Fresh(r, start, at, parseExprValue)
<1>1. /\ Offer(<<"Cast", "Literal">>, "skip") \in Simple(r, {})
      /\ Offer(<<"VarAccess">>, "null") \in Simple(r, {})
  BY PlacesClosed, CallIn, CallLists, CarryOn, FlagsKept, Zenon DEF GivesUp
<1>2. Branch(Text("void"), <<Offer(<<"VoidLiteral">>, "skip")>>, << >>) \in Steps(r, {})
  <2>1. Offer(<<"VoidLiteral">>, "skip") \in Simple(r, {})
    BY PlacesClosed, CallIn, CallLists, CarryOn, FlagsKept, Zenon DEF GivesUp
  <2>2. /\ <<Offer(<<"VoidLiteral">>, "skip")>> \in Seq(Depth5(r, {}))
        /\ << >> \in Seq(Depth5(r, {}))
    BY <2>1, SimpleSteps, Tuples, Zenon
  <2>3. QED
    BY <2>2, BranchSteps, PlacesClosed, TextTests, OperatorsIn, Zenon
<1>3. When("(", <<May("Assign"), Expect(")"), Give>>) \in Steps(r, {})
  <2>1. May("Assign") \in Simple(r, WhenFed({}))
    BY PlacesClosed, OneCallIn, FlagsKept, Zenon DEF Bearing, RuleNames
  <2>2. Expect(")") \in Simple(r, WhenFed({}))
    BY PlacesClosed, WordIn, PunctuationIn, Zenon
  <2>3. Give \in Simple(r, WhenFed({}))
    BY PlacesClosed, OtherIn, FlagsKept, Zenon
  <2>4. /\ <<May("Assign"), Expect(")"), Give>> \in Seq(Depth5(r, WhenFed({})))
        /\ << >> \in Seq(Depth5(r, {}))
    BY <2>1, <2>2, <2>3, SimpleSteps, Tuples, Zenon
  <2>5. QED
    BY <2>4, IfElseSteps, PlacesClosed, PunctuationIn, Zenon DEF When
<1>4. IfLambda(<<Offer(<<"Lambda">>, "null")>>) \in Steps(r, {})
  <2>1. Offer(<<"Lambda">>, "null") \in Simple(r, {})
    BY PlacesClosed, CallIn, CallLists, CarryOn, FlagsKept, Zenon DEF GivesUp
  <2>2. <<Offer(<<"Lambda">>, "null")>> \in Seq(Depth5(r, {}))
    BY <2>1, SimpleSteps, Tuples, Zenon
  <2>3. QED
    BY <2>2, LambdaSteps, PlacesClosed, Zenon
<1>5. Try(<<Offer(<<"ConstructorCall">>, "fail")>>, << >>) \in Steps(r, {})
  <2>1. Offer(<<"ConstructorCall">>, "fail") \in Simple(r, InATry({}))
    BY PlacesClosed, CallIn, CallLists, CarryOn, FlagsKept, Zenon DEF GivesUp
  <2>2. /\ <<Offer(<<"ConstructorCall">>, "fail")>> \in Seq(Depth5(r, InATry({})))
        /\ << >> \in Seq(Depth5(r, {}))
    BY <2>1, SimpleSteps, Tuples, Zenon
  <2>3. QED
    BY <2>2, TrySteps, PlacesClosed, Zenon
<1>6. Try(<<Offer(<<"FuncCall">>, "fail")>>, << >>) \in Steps(r, {})
  <2>1. Offer(<<"FuncCall">>, "fail") \in Simple(r, InATry({}))
    BY PlacesClosed, CallIn, CallLists, CarryOn, FlagsKept, Zenon DEF GivesUp
  <2>2. /\ <<Offer(<<"FuncCall">>, "fail")>> \in Seq(Depth5(r, InATry({})))
        /\ << >> \in Seq(Depth5(r, {}))
    BY <2>1, SimpleSteps, Tuples, Zenon
  <2>3. QED
    BY <2>2, TrySteps, PlacesClosed, Zenon
<1>7. Feeds(Offer(<<"VarAccess">>, "null"))
  BY OffersFeed, CallLists, Zenon
<1>8. QED
  BY <1>1, <1>2, <1>3, <1>4, <1>5, <1>6, <1>7, SimpleSteps, Sound7At7,
     Zenon DEF parseExprValue

(* parseExprValue at `void'                                                *)
LEMMA VoidLiteralSound ==
    ASSUME NEW start, NEW at, NEW r
    PROVE  Fresh(r, start, at, VoidLiteral)
<1>1. Want("void") \in Simple(r, {})
  BY PlacesClosed, WordIn, OperatorsIn, Zenon
<1>2. Feeds(Want("void"))
  BY WordsFeed, Zenon
<1>3. QED
  BY <1>1, <1>2, SimpleSteps, Sound1At1, Zenon DEF VoidLiteral

(* parseConstructorCall                                                    *)
LEMMA ConstructorCallSound ==
    ASSUME NEW start, NEW at, NEW r
    PROVE  Fresh(r, start, at, parseConstructorCall)
<1>1. Need("Type") \in Simple(r, {})
  BY PlacesClosed, OneCallIn, FlagsKept, Zenon DEF Bearing, RuleNames
<1>2. Need("ArgList") \in Simple(r, {"fed"})
  BY PlacesClosed, OneCallIn, FlagsKept, Zenon DEF Bearing, RuleNames
<1>3. Feeds(Need("Type"))
  BY CallsFeed, Zenon DEF Bearing, RuleNames
<1>4. QED
  BY <1>1, <1>2, <1>3, SimpleSteps, Sound2At1, Zenon DEF parseConstructorCall

(* parseExprPostOp                                                         *)
LEMMA ExprPostOpSound ==
    ASSUME NEW start, NEW at, NEW r
    PROVE  Fresh(r, start, at, parseExprPostOp)
<1>1. AnyDone(<<"ArgList">>, "skip") \in Simple(r, {})
  BY PlacesClosed, CallIn, CallLists, CarryOn, FlagsKept, Zenon DEF GivesUp
<1>2. Token(OneOf({"++", "--"}), "null") \in Simple(r, {})
  BY PlacesClosed, TokenIn, CarryOn, FlagsKept, WordTests, WordSetsIn,
     Zenon DEF GivesUp
<1>3. When(".", <<AnyDone(<<"FuncCall">>, "skip"), Name("null"),
          Done>>) \in Steps(r, {})
  <2>1. AnyDone(<<"FuncCall">>, "skip") \in Simple(r, WhenFed({}))
    BY PlacesClosed, CallIn, CallLists, CarryOn, FlagsKept, Zenon DEF GivesUp
  <2>2. Name("null") \in Simple(r, WhenFed({}))
    BY PlacesClosed, NameIn, CarryOn, FlagsKept, Zenon DEF GivesUp
  <2>3. Done \in Simple(r, WhenFed({}))
    BY PlacesClosed, OtherIn, FlagsKept, Zenon
  <2>4. /\ <<AnyDone(<<"FuncCall">>, "skip"), Name("null"), Done>> \in Seq(Depth5(r,
               WhenFed({})))
        /\ << >> \in Seq(Depth5(r, {}))
    BY <2>1, <2>2, <2>3, SimpleSteps, Tuples, Zenon
  <2>5. QED
    BY <2>4, IfElseSteps, PlacesClosed, PunctuationIn, Zenon DEF When
<1>4. When("[", <<List(Text("]"), <<ArgName, May("Assign")>>), Expect("]"),
          Done>>) \in Steps(r, {})
  <2>1. Expect("]") \in Simple(r, WhenFed({}))
    BY PlacesClosed, WordIn, PunctuationIn, Zenon
  <2>2. Done \in Simple(r, WhenFed({}))
    BY PlacesClosed, OtherIn, FlagsKept, Zenon
  <2>3. List(Text("]"), <<ArgName, May("Assign")>>) \in Depth5(r, WhenFed({}))
    <3>1. May("Assign") \in Simple(r, InALoop(WhenFed({})))
      BY PlacesClosed, OneCallIn, FlagsKept, Zenon DEF Bearing, RuleNames
    <3>2. ArgName \in Depth4(r, InALoop(WhenFed({})))
      BY ArgNameIn, PlacesClosed, FlagsKept, Zenon
    <3>3. <<ArgName, May("Assign")>> \in Seq(Depth4(r, InALoop(WhenFed({}))))
      BY <3>1, <3>2, SimpleSteps, Tuples, Zenon
    <3>4. QED
      BY <3>3, LoopSteps, PlacesClosed, TextTests, PunctuationIn, Zenon
  <2>4. /\ <<List(Text("]"), <<ArgName, May("Assign")>>), Expect("]"),
               Done>> \in Seq(Depth5(r, WhenFed({})))
        /\ << >> \in Seq(Depth5(r, {}))
    BY <2>1, <2>2, <2>3, SimpleSteps, Tuples, Zenon
  <2>5. QED
    BY <2>4, IfElseSteps, PlacesClosed, PunctuationIn, Zenon DEF When
<1>5. Feeds(Token(OneOf({"++", "--"}), "null"))
  BY NamesFeed, Zenon DEF GivesUp
<1>6. QED
  BY <1>1, <1>2, <1>3, <1>4, <1>5, SimpleSteps, Sound4At4,
     Zenon DEF parseExprPostOp

(* parseCast                                                               *)
LEMMA CastSound ==
    ASSUME NEW start, NEW at, NEW r
    PROVE  Fresh(r, start, at, parseCast)
<1>1. Want("cast") \in Simple(r, {})
  BY PlacesClosed, WordIn, KeywordsIn, Zenon
<1>2. /\ Must("<") \in Simple(r, {"fed"})
      /\ Expect(">") \in Simple(r, {"fed"})
  BY PlacesClosed, WordIn, OperatorsIn, Zenon
<1>3. /\ May("Type") \in Simple(r, {"fed"})
      /\ May("Assign") \in Simple(r, {"fed"})
  BY PlacesClosed, OneCallIn, FlagsKept, Zenon DEF Bearing, RuleNames
<1>4. /\ Expect("(") \in Simple(r, {"fed"})
      /\ Expect(")") \in Simple(r, {"fed"})
  BY PlacesClosed, WordIn, PunctuationIn, Zenon
<1>5. Feeds(Want("cast"))
  BY WordsFeed, Zenon
<1>6. QED
  BY <1>1, <1>2, <1>3, <1>4, <1>5, SimpleSteps, Sound7At1, Zenon DEF parseCast

(* parseLambda                                                             *)
LEMMA LambdaSound ==
    ASSUME NEW start, NEW at, NEW r
    PROVE  Fresh(r, start, at, parseLambda)
<1>1. Want("function") \in Simple(r, {})
  BY PlacesClosed, WordIn, KeywordsIn, Zenon
<1>2. /\ Expect("(") \in Simple(r, {"fed"})
      /\ Expect(")") \in Simple(r, {"fed"})
  BY PlacesClosed, WordIn, PunctuationIn, Zenon
<1>3. May("StatBlock") \in Simple(r, {"fed"})
  BY PlacesClosed, OneCallIn, FlagsKept, Zenon DEF Bearing, RuleNames
<1>4. List(Text(")"), <<NeedBreak("LambdaParam")>>) \in Steps(r, {"fed"})
  <2>1. NeedBreak("LambdaParam") \in Simple(r, InALoop({"fed"}))
    BY PlacesClosed, OneCallIn, FlagsKept, CarryOn, Zenon DEF Bearing,
       RuleNames
  <2>2. <<NeedBreak("LambdaParam")>> \in Seq(Depth5(r, InALoop({"fed"})))
    BY <2>1, SimpleSteps, Tuples, Zenon
  <2>3. QED
    BY <2>2, LoopSteps, PlacesClosed, TextTests, PunctuationIn, Zenon
<1>5. Feeds(Want("function"))
  BY WordsFeed, Zenon
<1>6. QED
  BY <1>1, <1>2, <1>3, <1>4, <1>5, SimpleSteps, Sound5At1,
     Zenon DEF parseLambda

(* parseLambdaParam                                                        *)
LEMMA LambdaParamSound ==
    ASSUME NEW start, NEW at
    PROVE  Fresh("LambdaParam", start, at, parseLambdaParam)
<1>1. May("Type") \in Simple("LambdaParam", {})
  BY PlacesClosed, OneCallIn, FlagsKept, Zenon DEF Bearing, RuleNames
<1>2. Name("skip") \in Simple("LambdaParam", {})
  BY PlacesClosed, NameIn, CarryOn, FlagsKept, Zenon DEF GivesUp
<1>3. parseTypeModifier \in Steps("LambdaParam", {})
  BY TypeModifierIn, PlacesClosed, FlagsKept, Zenon
<1>4. QED
  BY <1>1, <1>2, <1>3, SoundEmpty, Tuples, SimpleSteps,
     Zenon DEF parseLambdaParam, Bearing, RuleNames

(* parseLiteral                                                            *)
LEMMA LiteralSound ==
    ASSUME NEW start, NEW at, NEW r
    PROVE  Fresh(r, start, at, parseLiteral)
<1>1. Keep([OneOf({"true", "false", "null", "void"}) EXCEPT !. kinds = {"Number", "String", "Bits"}], "null") \in Simple(r, {})
  BY PlacesClosed, TokenIn, CarryOn, FlagsKept, OtherTests, Zenon DEF GivesUp
<1>2. Feeds(Keep([OneOf({"true", "false", "null", "void"}) EXCEPT !. kinds = {"Number", "String", "Bits"}], "null"))
  BY NamesFeed, Zenon DEF GivesUp
<1>3. QED
  BY <1>1, <1>2, SimpleSteps, Sound1At1, Zenon DEF parseLiteral

(* parseFuncCall                                                           *)
LEMMA FuncCallSound ==
    ASSUME NEW start, NEW at, NEW r
    PROVE  Fresh(r, start, at, parseFuncCall)
<1>1. May("Scope") \in Simple(r, {})
  BY PlacesClosed, OneCallIn, FlagsKept, Zenon DEF Bearing, RuleNames
<1>2. Name("null") \in Simple(r, {})
  BY PlacesClosed, NameIn, CarryOn, FlagsKept, Zenon DEF GivesUp
<1>3. Need("ArgList") \in Simple(r, {"fed"})
  BY PlacesClosed, OneCallIn, FlagsKept, Zenon DEF Bearing, RuleNames
<1>4. TemplateArgs \in Steps(r, {"fed"})
  BY TemplateArgsIn, PlacesClosed, FlagsKept, Zenon
<1>5. Feeds(Name("null"))
  BY NamesFeed, Zenon DEF GivesUp
<1>6. QED
  BY <1>1, <1>2, <1>3, <1>4, <1>5, SimpleSteps, Sound4At2,
     Zenon DEF parseFuncCall

(* parseVarAccess                                                          *)
LEMMA VarAccessSound ==
    ASSUME NEW start, NEW at, NEW r
    PROVE  Fresh(r, start, at, parseVarAccess)
<1>1. May("Scope") \in Simple(r, {})
  BY PlacesClosed, OneCallIn, FlagsKept, Zenon DEF Bearing, RuleNames
<1>2. Name("null") \in Simple(r, {})
  BY PlacesClosed, NameIn, CarryOn, FlagsKept, Zenon DEF GivesUp
<1>3. Feeds(Name("null"))
  BY NamesFeed, Zenon DEF GivesUp
<1>4. QED
  BY <1>1, <1>2, <1>3, SimpleSteps, Sound2At2, Zenon DEF parseVarAccess

(* parseArgList                                                            *)
LEMMA ArgListSound ==
    ASSUME NEW start, NEW at, NEW r
    PROVE  Fresh(r, start, at, parseArgList)
<1>1. Want("(") \in Simple(r, {})
  BY PlacesClosed, WordIn, PunctuationIn, Zenon
<1>2. Expect(")") \in Simple(r, {"fed"})
  BY PlacesClosed, WordIn, PunctuationIn, Zenon
<1>3. List(Text(")"), <<ArgName, May("Assign")>>) \in Steps(r, {"fed"})
  <2>1. May("Assign") \in Simple(r, InALoop({"fed"}))
    BY PlacesClosed, OneCallIn, FlagsKept, Zenon DEF Bearing, RuleNames
  <2>2. ArgName \in Depth5(r, InALoop({"fed"}))
    BY ArgNameIn, PlacesClosed, FlagsKept, Zenon
  <2>3. <<ArgName, May("Assign")>> \in Seq(Depth5(r, InALoop({"fed"})))
    BY <2>1, <2>2, SimpleSteps, Tuples, Zenon
  <2>4. QED
    BY <2>3, LoopSteps, PlacesClosed, TextTests, PunctuationIn, Zenon
<1>4. Feeds(Want("("))
  BY WordsFeed, Zenon
<1>5. QED
  BY <1>1, <1>2, <1>3, <1>4, SimpleSteps, Sound3At1, Zenon DEF parseArgList

(* parseAssign                                                             *)
LEMMA AssignSound ==
    ASSUME NEW start, NEW at, NEW r
    PROVE  Fresh(r, start, at, parseAssign)
<1>1. Need("Condition") \in Simple(r, {})
  BY PlacesClosed, OneCallIn, FlagsKept, Zenon DEF Bearing, RuleNames
<1>2. Branch(OneOf(AssignOps), <<Keep(OneOf(AssignOps), "skip"), Any(<<"Assign">>,
          "report")>>, << >>) \in Steps(r, {"fed"})
  <2>1. Keep(OneOf(AssignOps), "skip") \in Simple(r, {"fed"})
    BY PlacesClosed, TokenIn, CarryOn, FlagsKept, WordTests, WordSets,
       Zenon DEF GivesUp
  <2>2. Any(<<"Assign">>, "report") \in Simple(r, {"fed"})
    BY PlacesClosed, CallIn, CallLists, CarryOn, FlagsKept, Zenon DEF GivesUp
  <2>3. /\ <<Keep(OneOf(AssignOps), "skip"), Any(<<"Assign">>,
               "report")>> \in Seq(Depth5(r, {"fed"}))
        /\ << >> \in Seq(Depth5(r, {"fed"}))
    BY <2>1, <2>2, SimpleSteps, Tuples, Zenon
  <2>4. QED
    BY <2>3, BranchSteps, PlacesClosed, WordTests, WordSets, Zenon
<1>3. Feeds(Need("Condition"))
  BY CallsFeed, Zenon DEF Bearing, RuleNames
<1>4. QED
  BY <1>1, <1>2, <1>3, SimpleSteps, Sound2At1, Zenon DEF parseAssign

(* parseCondition                                                          *)
LEMMA ConditionSound ==
    ASSUME NEW start, NEW at, NEW r
    PROVE  Fresh(r, start, at, parseCondition)
<1>1. Need("Expr") \in Simple(r, {})
  BY PlacesClosed, OneCallIn, FlagsKept, Zenon DEF Bearing, RuleNames
<1>2. When("?", <<May("Assign"), Expect(":"), May("Assign")>>) \in Steps(r, {"fed"})
  <2>1. May("Assign") \in Simple(r, WhenFed({"fed"}))
    BY PlacesClosed, OneCallIn, FlagsKept, Zenon DEF Bearing, RuleNames
  <2>2. Expect(":") \in Simple(r, WhenFed({"fed"}))
    BY PlacesClosed, WordIn, PunctuationIn, Zenon
  <2>3. /\ <<May("Assign"), Expect(":"), May("Assign")>> \in Seq(Depth5(r,
               WhenFed({"fed"})))
        /\ << >> \in Seq(Depth5(r, {"fed"}))
    BY <2>1, <2>2, SimpleSteps, Tuples, Zenon
  <2>4. QED
    BY <2>3, IfElseSteps, PlacesClosed, PunctuationIn, Zenon DEF When
<1>3. Feeds(Need("Expr"))
  BY CallsFeed, Zenon DEF Bearing, RuleNames
<1>4. QED
  BY <1>1, <1>2, <1>3, SimpleSteps, Sound2At1, Zenon DEF parseCondition
-----------------------------------------------------------------------------
LEMMA RulesAre ==
    /\ Rules["Script"] = parseScript(Never)
    /\ Rules["ScriptBody"] = parseScript(Text("}"))
    /\ Rules["Namespace"] = parseNamespace
    /\ Rules["Using"] = parseUsing
    /\ Rules["Enum"] = parseEnum
    /\ Rules["Class"] = parseClass
    /\ Rules["TypeDef"] = parseTypeDef
    /\ Rules["Func"] = parseFunc
    /\ Rules["ListPattern"] = parseListPattern
    /\ Rules["ListEntry"] = parseListEntry
    /\ Rules["Interface"] = parseInterface
    /\ Rules["Var"] = parseVar
    /\ Rules["Import"] = parseImport
    /\ Rules["FuncDef"] = parseFuncDef
    /\ Rules["VirtualProp"] = parseVirtualProp
    /\ Rules["Accessor"] = Accessor
    /\ Rules["InterfaceMethod"] = parseInterfaceMethod
    /\ Rules["StatBlock"] = parseStatBlock
    /\ Rules["ParamList"] = parseParamList
    /\ Rules["Parameter"] = parseParameter
    /\ Rules["Type"] = parseType
    /\ Rules["InitList"] = parseInitList
    /\ Rules["Scope"] = parseScope
    /\ Rules["DataType"] = parseDataType
    /\ Rules["Statement"] = parseStatement
    /\ Rules["Switch"] = parseSwitch
    /\ Rules["Break"] = parseBreak
    /\ Rules["For"] = parseFor
    /\ Rules["ForEach"] = parseForEach
    /\ Rules["While"] = parseWhile
    /\ Rules["DoWhile"] = parseDoWhile
    /\ Rules["If"] = parseIf
    /\ Rules["Continue"] = parseContinue
    /\ Rules["ExprStat"] = parseExprStat
    /\ Rules["Try"] = parseTry
    /\ Rules["Return"] = parseReturn
    /\ Rules["Case"] = parseCase
    /\ Rules["Expr"] = parseExpr
    /\ Rules["OpTerm"] = OpTerm
    /\ Rules["ExprTerm"] = parseExprTerm
    /\ Rules["ExprValue"] = parseExprValue
    /\ Rules["VoidLiteral"] = VoidLiteral
    /\ Rules["ConstructorCall"] = parseConstructorCall
    /\ Rules["ExprPostOp"] = parseExprPostOp
    /\ Rules["Cast"] = parseCast
    /\ Rules["Lambda"] = parseLambda
    /\ Rules["LambdaParam"] = parseLambdaParam
    /\ Rules["Literal"] = parseLiteral
    /\ Rules["FuncCall"] = parseFuncCall
    /\ Rules["VarAccess"] = parseVarAccess
    /\ Rules["ArgList"] = parseArgList
    /\ Rules["Assign"] = parseAssign
    /\ Rules["Condition"] = parseCondition
<1>1. /\ Rules["Script"] = parseScript(Never)
      /\ Rules["ScriptBody"] = parseScript(Text("}"))
      /\ Rules["Namespace"] = parseNamespace
      /\ Rules["Using"] = parseUsing
      /\ Rules["Enum"] = parseEnum
      /\ Rules["Class"] = parseClass
      /\ Rules["TypeDef"] = parseTypeDef
      /\ Rules["Func"] = parseFunc
      /\ Rules["ListPattern"] = parseListPattern
  BY ZenonT(30) DEF Rules
<1>2. /\ Rules["ListEntry"] = parseListEntry
      /\ Rules["Interface"] = parseInterface
      /\ Rules["Var"] = parseVar
      /\ Rules["Import"] = parseImport
      /\ Rules["FuncDef"] = parseFuncDef
      /\ Rules["VirtualProp"] = parseVirtualProp
      /\ Rules["Accessor"] = Accessor
      /\ Rules["InterfaceMethod"] = parseInterfaceMethod
      /\ Rules["StatBlock"] = parseStatBlock
  BY ZenonT(30) DEF Rules
<1>3. /\ Rules["ParamList"] = parseParamList
      /\ Rules["Parameter"] = parseParameter
      /\ Rules["Type"] = parseType
      /\ Rules["InitList"] = parseInitList
      /\ Rules["Scope"] = parseScope
      /\ Rules["DataType"] = parseDataType
      /\ Rules["Statement"] = parseStatement
      /\ Rules["Switch"] = parseSwitch
      /\ Rules["Break"] = parseBreak
  BY ZenonT(30) DEF Rules
<1>4. /\ Rules["For"] = parseFor
      /\ Rules["ForEach"] = parseForEach
      /\ Rules["While"] = parseWhile
      /\ Rules["DoWhile"] = parseDoWhile
      /\ Rules["If"] = parseIf
      /\ Rules["Continue"] = parseContinue
      /\ Rules["ExprStat"] = parseExprStat
      /\ Rules["Try"] = parseTry
      /\ Rules["Return"] = parseReturn
  BY ZenonT(30) DEF Rules
<1>5. /\ Rules["Case"] = parseCase
      /\ Rules["Expr"] = parseExpr
      /\ Rules["OpTerm"] = OpTerm
      /\ Rules["ExprTerm"] = parseExprTerm
      /\ Rules["ExprValue"] = parseExprValue
      /\ Rules["VoidLiteral"] = VoidLiteral
      /\ Rules["ConstructorCall"] = parseConstructorCall
      /\ Rules["ExprPostOp"] = parseExprPostOp
      /\ Rules["Cast"] = parseCast
  BY ZenonT(30) DEF Rules
<1>6. /\ Rules["Lambda"] = parseLambda
      /\ Rules["LambdaParam"] = parseLambdaParam
      /\ Rules["Literal"] = parseLiteral
      /\ Rules["FuncCall"] = parseFuncCall
      /\ Rules["VarAccess"] = parseVarAccess
      /\ Rules["ArgList"] = parseArgList
      /\ Rules["Assign"] = parseAssign
      /\ Rules["Condition"] = parseCondition
  BY ZenonT(30) DEF Rules
<1>7. QED
  BY <1>1, <1>2, <1>3, <1>4, <1>5, <1>6

(* Every parse function there is keeps the discipline.  What it says of    *)
(* parser.cpp: no function leaves a loop or fails a trial it is not in,    *)
(* and none of them, MayBeEmpty's excepted, gets to the return of its node *)
(* unless a token has been consumed since it was called.                   *)
THEOREM EveryRuleIsSound ==
    /\ DOMAIN Rules = RuleNames
    /\ \A start, at : \A r \in RuleNames : Fresh(r, start, at, Rules[r])
<1>1. DOMAIN Rules = RuleNames
  BY Zenon DEF Rules, RuleNames
<1>2. ASSUME NEW start, NEW at
      PROVE  \A r \in RuleNames : Fresh(r, start, at, Rules[r])
  <2>1. /\ Fresh("Script", start, at, Rules["Script"])
        /\ Fresh("ScriptBody", start, at, Rules["ScriptBody"])
        /\ Fresh("Namespace", start, at, Rules["Namespace"])
        /\ Fresh("Using", start, at, Rules["Using"])
        /\ Fresh("Enum", start, at, Rules["Enum"])
        /\ Fresh("Class", start, at, Rules["Class"])
        /\ Fresh("TypeDef", start, at, Rules["TypeDef"])
        /\ Fresh("Func", start, at, Rules["Func"])
        /\ Fresh("ListPattern", start, at, Rules["ListPattern"])
    BY RulesAre, ScriptSound, ScriptBodySound, NamespaceSound,
       UsingSound, EnumSound, ClassSound, TypeDefSound, FuncSound,
       ListPatternSound, Zenon
  <2>2. /\ Fresh("ListEntry", start, at, Rules["ListEntry"])
        /\ Fresh("Interface", start, at, Rules["Interface"])
        /\ Fresh("Var", start, at, Rules["Var"])
        /\ Fresh("Import", start, at, Rules["Import"])
        /\ Fresh("FuncDef", start, at, Rules["FuncDef"])
        /\ Fresh("VirtualProp", start, at, Rules["VirtualProp"])
        /\ Fresh("Accessor", start, at, Rules["Accessor"])
        /\ Fresh("InterfaceMethod", start, at, Rules["InterfaceMethod"])
        /\ Fresh("StatBlock", start, at, Rules["StatBlock"])
    BY RulesAre, ListEntrySound, InterfaceSound, VarSound, ImportSound,
       FuncDefSound, VirtualPropSound, AccessorSound,
       InterfaceMethodSound, StatBlockSound, Zenon
  <2>3. /\ Fresh("ParamList", start, at, Rules["ParamList"])
        /\ Fresh("Parameter", start, at, Rules["Parameter"])
        /\ Fresh("Type", start, at, Rules["Type"])
        /\ Fresh("InitList", start, at, Rules["InitList"])
        /\ Fresh("Scope", start, at, Rules["Scope"])
        /\ Fresh("DataType", start, at, Rules["DataType"])
        /\ Fresh("Statement", start, at, Rules["Statement"])
        /\ Fresh("Switch", start, at, Rules["Switch"])
        /\ Fresh("Break", start, at, Rules["Break"])
    BY RulesAre, ParamListSound, ParameterSound, TypeSound,
       InitListSound, ScopeSound, DataTypeSound, StatementSound,
       SwitchSound, BreakSound, Zenon
  <2>4. /\ Fresh("For", start, at, Rules["For"])
        /\ Fresh("ForEach", start, at, Rules["ForEach"])
        /\ Fresh("While", start, at, Rules["While"])
        /\ Fresh("DoWhile", start, at, Rules["DoWhile"])
        /\ Fresh("If", start, at, Rules["If"])
        /\ Fresh("Continue", start, at, Rules["Continue"])
        /\ Fresh("ExprStat", start, at, Rules["ExprStat"])
        /\ Fresh("Try", start, at, Rules["Try"])
        /\ Fresh("Return", start, at, Rules["Return"])
    BY RulesAre, ForSound, ForEachSound, WhileSound, DoWhileSound,
       IfSound, ContinueSound, ExprStatSound, TrySound, ReturnSound,
       Zenon
  <2>5. /\ Fresh("Case", start, at, Rules["Case"])
        /\ Fresh("Expr", start, at, Rules["Expr"])
        /\ Fresh("OpTerm", start, at, Rules["OpTerm"])
        /\ Fresh("ExprTerm", start, at, Rules["ExprTerm"])
        /\ Fresh("ExprValue", start, at, Rules["ExprValue"])
        /\ Fresh("VoidLiteral", start, at, Rules["VoidLiteral"])
        /\ Fresh("ConstructorCall", start, at, Rules["ConstructorCall"])
        /\ Fresh("ExprPostOp", start, at, Rules["ExprPostOp"])
        /\ Fresh("Cast", start, at, Rules["Cast"])
    BY RulesAre, CaseSound, ExprSound, OpTermSound, ExprTermSound,
       ExprValueSound, VoidLiteralSound, ConstructorCallSound,
       ExprPostOpSound, CastSound, Zenon
  <2>6. /\ Fresh("Lambda", start, at, Rules["Lambda"])
        /\ Fresh("LambdaParam", start, at, Rules["LambdaParam"])
        /\ Fresh("Literal", start, at, Rules["Literal"])
        /\ Fresh("FuncCall", start, at, Rules["FuncCall"])
        /\ Fresh("VarAccess", start, at, Rules["VarAccess"])
        /\ Fresh("ArgList", start, at, Rules["ArgList"])
        /\ Fresh("Assign", start, at, Rules["Assign"])
        /\ Fresh("Condition", start, at, Rules["Condition"])
    BY RulesAre, LambdaSound, LambdaParamSound, LiteralSound,
       FuncCallSound, VarAccessSound, ArgListSound, AssignSound,
       ConditionSound, Zenon
  <2>7. QED
    BY <2>1, <2>2, <2>3, <2>4, <2>5, <2>6, ZenonT(60) DEF RuleNames
<1>3. QED
  BY <1>1, <1>2
-----------------------------------------------------------------------------
(* What a function has yet to do stays sound as it does it: for every kind *)
(* of step that Parser's actions take, the steps that are left after it    *)
(* are Sound when those before it were.  A step is put in the place of the *)
(* first one (Replaced, and what follows from it), or steps are passed     *)
(* over up to a mark (SoundPart).                                          *)

(* Sequences as IsSeq has them: their elements need not be of a set.       *)

(* A sequence of elements of S is in Seq(S).                               *)
LEMMA AsSeq ==
    ASSUME NEW s, IsSeq(s), NEW S, \A i \in 1..Len(s) : s[i] \in S
    PROVE  s \in Seq(S) /\ Len(s) \in Nat /\ DOMAIN s = 1..Len(s)
BY DEF IsSeq

LEMMA EmptyIsSeq ==
    /\ IsSeq(<< >>) /\ Len(<< >>) = 0
    /\ \A s : IsSeq(s) => (s = << >> <=> Len(s) = 0)
<1>1. IsSeq(<< >>) /\ Len(<< >>) = 0
  BY DEF IsSeq
<1>2. ASSUME NEW s, IsSeq(s) PROVE s = << >> <=> Len(s) = 0
  <2>1. s \in Seq({s[i] : i \in 1..Len(s)})
    BY <1>2, AsSeq
  <2>2. QED
    BY <2>1
<1>3. QED
  BY <1>1, <1>2, Zenon

LEMMA SameSeq ==
    ASSUME NEW s, NEW t, IsSeq(s), IsSeq(t), Len(s) = Len(t),
           \A i \in 1..Len(s) : s[i] = t[i]
    PROVE  s = t
BY DEF IsSeq

LEMMA OneSeq ==
    ASSUME NEW x
    PROVE  IsSeq(<<x>>) /\ Len(<<x>>) = 1 /\ <<x>>[1] = x
BY DEF IsSeq

(* What \o, Tail, SubSeq, Append and EXCEPT make of sequences.             *)
LEMMA JoinedSeq ==
    ASSUME NEW s, NEW t, IsSeq(s), IsSeq(t)
    PROVE  /\ IsSeq(s \o t) /\ Len(s \o t) = Len(s) + Len(t)
           /\ \A i \in 1..Len(s) : (s \o t)[i] = s[i]
           /\ \A i \in 1..Len(t) : (s \o t)[Len(s) + i] = t[i]
<1> DEFINE S == {s[i] : i \in 1..Len(s)} \cup {t[i] : i \in 1..Len(t)}
<1>1. s \in Seq(S) /\ t \in Seq(S)
  BY AsSeq
<1> HIDE DEF S
<1>2. s \o t \in Seq(S) /\ Len(s \o t) = Len(s) + Len(t)
  BY <1>1
<1>3. \A i \in 1..Len(s) : (s \o t)[i] = s[i]
  BY <1>1
<1>4. \A i \in 1..Len(t) : (s \o t)[Len(s) + i] = t[i]
  BY <1>1
<1>5. QED
  BY <1>2, <1>3, <1>4, SeqIsSeq

LEMMA TailSeq ==
    ASSUME NEW s, IsSeq(s), s # << >>
    PROVE  /\ IsSeq(Tail(s)) /\ Len(Tail(s)) = Len(s) - 1
           /\ \A i \in 1..(Len(s) - 1) : Tail(s)[i] = s[i + 1]
<1> DEFINE S == {s[i] : i \in 1..Len(s)}
<1>1. s \in Seq(S)
  BY AsSeq
<1> HIDE DEF S
<1>2. Tail(s) \in Seq(S) /\ Len(Tail(s)) = Len(s) - 1
  BY <1>1
<1>3. \A i \in 1..(Len(s) - 1) : Tail(s)[i] = s[i + 1]
  BY <1>1
<1>4. QED
  BY <1>2, <1>3, SeqIsSeq

LEMMA PartSeq ==
    ASSUME NEW s, IsSeq(s), NEW m \in 1..(Len(s) + 1), NEW n \in (m - 1)..Len(s)
    PROVE  /\ IsSeq(SubSeq(s, m, n)) /\ Len(SubSeq(s, m, n)) = n - m + 1
           /\ \A i \in 1..(n - m + 1) : SubSeq(s, m, n)[i] = s[m + i - 1]
<1> DEFINE S == {s[i] : i \in 1..Len(s)}
<1>1. s \in Seq(S) /\ Len(s) \in Nat
  BY AsSeq
<1> HIDE DEF S
<1>2. m \in Nat /\ m >= 1 /\ n \in Nat /\ n <= Len(s) /\ m <= n + 1
  BY <1>1
<1>3. SubSeq(s, m, n) = [i \in 1..(n - m + 1) |-> s[m + i - 1]]
  BY <1>1, <1>2, SubSeqProperties
<1>4. \A i \in 1..(n - m + 1) : s[m + i - 1] \in S
  BY <1>1, <1>2
<1>5. SubSeq(s, m, n) \in Seq(S) /\ Len(SubSeq(s, m, n)) = n - m + 1
  BY <1>2, <1>3, <1>4
<1>6. QED
  BY <1>3, <1>5, SeqIsSeq

LEMMA AddedSeq ==
    ASSUME NEW s, NEW x, IsSeq(s)
    PROVE  /\ IsSeq(Append(s, x)) /\ Len(Append(s, x)) = Len(s) + 1
           /\ \A i \in 1..Len(s) : Append(s, x)[i] = s[i]
           /\ Append(s, x)[Len(s) + 1] = x
           /\ Append(s, x) # << >>
<1> DEFINE S == {s[i] : i \in 1..Len(s)} \cup {x}
<1>1. s \in Seq(S) /\ Len(s) \in Nat /\ x \in S
  BY AsSeq
<1> HIDE DEF S
<1>2. Append(s, x) \in Seq(S) /\ Len(Append(s, x)) = Len(s) + 1
  BY <1>1
<1>3. \A i \in 1..Len(s) : Append(s, x)[i] = s[i]
  BY <1>1
<1>4. Append(s, x)[Len(s) + 1] = x
  BY <1>1
<1>5. IsSeq(Append(s, x))
  BY <1>2, SeqIsSeq
<1>6. QED
  BY <1>1, <1>2, <1>3, <1>4, <1>5, EmptyIsSeq

LEMMA ReplacedSeq ==
    ASSUME NEW s, NEW x, IsSeq(s), NEW n \in 1..Len(s)
    PROVE  /\ IsSeq([s EXCEPT ![n] = x]) /\ Len([s EXCEPT ![n] = x]) = Len(s)
           /\ [s EXCEPT ![n] = x][n] = x
           /\ \A i \in 1..Len(s) : i # n => [s EXCEPT ![n] = x][i] = s[i]
<1> DEFINE S == {s[i] : i \in 1..Len(s)} \cup {x}
<1>1. s \in Seq(S) /\ Len(s) \in Nat /\ x \in S
  BY AsSeq
<1> HIDE DEF S
<1>2. [s EXCEPT ![n] = x] \in Seq(S) /\ Len([s EXCEPT ![n] = x]) = Len(s)
  BY <1>1
<1>3. IsSeq([s EXCEPT ![n] = x])
  BY <1>2, SeqIsSeq
<1>4. QED
  BY <1>1, <1>2, <1>3
-----------------------------------------------------------------------------
(* What the steps of a function are made of.                               *)
LEMMA MadeOf ==
    ASSUME NEW r, NEW c, NEW A, NEW F, NEW L, NEW T, NEW s \in Made(r, c, A, F, L, T)
    PROVE  /\ s.do \in {"token", "rules", "miss", "nonEmpty", "metadata", "dropTypes",
                        "refuseSecond", "done", "give", "gt", "branch", "lambda",
                        "loop", "try"}
           /\ s.do = "token" =>
                 /\ s = [do |-> "token", test |-> s.test, keep |-> s.keep, miss |-> s.miss]
                 /\ s.test \in Tests /\ s.miss \in MissesIn(c)
           /\ s.do = "rules" =>
                 /\ s = [do |-> "rules", rules |-> s.rules, hit |-> s.hit, miss |-> s.miss]
                 /\ s.hit \in Hits /\ s.miss \in MissesIn(c) /\ s.rules # << >>
                 /\ s.rules \in Seq(Bearing) \/ ("fed" \in c /\ s.rules \in Seq(RuleNames))
           /\ s.do \in {"miss", "nonEmpty"} => s.miss \in MissesIn(c)
           /\ s.do = "dropTypes" => r = "Scope"
           /\ s.do = "refuseSecond" => r = "VirtualProp"
           /\ s.do \in {"done", "give"} => "fed" \in c
           /\ s.do = "gt" => "try" \in c
           /\ s.do = "branch" =>
                 /\ s.test \in Tests /\ s.otherwise \in Seq(A)
                 /\ s.then \in Seq(A) \/ (s.then \in Seq(F) /\ Guarded(s))
           /\ s.do = "lambda" => s.then \in Seq(A)
           /\ s.do = "loop" =>
                 /\ s = [do |-> "loop", stop |-> s.stop, sep |-> s.sep, body |-> s.body]
                 /\ s.stop \in Tests /\ s.sep \in Separators /\ s.body \in Seq(L)
           /\ s.do = "try" => s.body \in Seq(T) /\ s.otherwise \in Seq(A)
<1>1. CASE s \in Simple(r, c)
  BY <1>1, SMT DEF Simple, Specials
<1>2. CASE s \notin Simple(r, c)
  BY <1>2, SMT DEF Made
<1>3. QED
  BY <1>1, <1>2

(* What the parts of a step are, of each kind.                             *)
LEMMA StepParts ==
    ASSUME NEW r, NEW c \in Places, NEW s \in Steps(r, c)
    PROVE  /\ s.do \in {"token", "rules", "miss", "nonEmpty", "metadata", "dropTypes",
                        "refuseSecond", "done", "give", "gt", "branch", "lambda",
                        "loop", "try"}
           /\ s.do = "token" =>
                 /\ s = [do |-> "token", test |-> s.test, keep |-> s.keep, miss |-> s.miss]
                 /\ s.test \in Tests /\ s.miss \in MissesIn(c)
           /\ s.do = "rules" =>
                 /\ s = [do |-> "rules", rules |-> s.rules, hit |-> s.hit, miss |-> s.miss]
                 /\ s.hit \in Hits /\ s.miss \in MissesIn(c) /\ s.rules # << >>
                 /\ s.rules \in Seq(Bearing) \/ ("fed" \in c /\ s.rules \in Seq(RuleNames))
           /\ s.do \in {"miss", "nonEmpty"} => s.miss \in MissesIn(c)
           /\ s.do = "dropTypes" => r = "Scope"
           /\ s.do = "refuseSecond" => r = "VirtualProp"
           /\ s.do \in {"done", "give"} => "fed" \in c
           /\ s.do = "gt" => "try" \in c
           /\ s.do = "branch" =>
                 /\ s.test \in Tests /\ s.otherwise \in Seq(Steps(r, c))
                 /\ \/ s.then \in Seq(Steps(r, c))
                    \/ s.then \in Seq(Steps(r, WhenFed(c))) /\ Guarded(s)
           /\ s.do = "lambda" => s.then \in Seq(Steps(r, c))
           /\ s.do = "loop" =>
                 /\ s = [do |-> "loop", stop |-> s.stop, sep |-> s.sep, body |-> s.body]
                 /\ s.stop \in Tests /\ s.sep \in Separators
                 /\ s.body \in Seq(Steps(r, InALoop(c)))
           /\ s.do = "try" => /\ s.body \in Seq(Steps(r, InATry(c)))
                              /\ s.otherwise \in Seq(Steps(r, c))
<1>1. ASSUME NEW X, NEW Y, X \subseteq Y PROVE Seq(X) \subseteq Seq(Y)
  BY <1>1
<1>2. /\ Depth5(r, c) \subseteq Steps(r, c)
      /\ Depth5(r, WhenFed(c)) \subseteq Steps(r, WhenFed(c))
      /\ Depth5(r, InALoop(c)) \subseteq Steps(r, InALoop(c))
      /\ Depth5(r, InATry(c)) \subseteq Steps(r, InATry(c))
  BY Depths, PlacesClosed, Zenon
<1>3. /\ Seq(Depth5(r, c)) \subseteq Seq(Steps(r, c))
      /\ Seq(Depth5(r, WhenFed(c))) \subseteq Seq(Steps(r, WhenFed(c)))
      /\ Seq(Depth5(r, InALoop(c))) \subseteq Seq(Steps(r, InALoop(c)))
      /\ Seq(Depth5(r, InATry(c))) \subseteq Seq(Steps(r, InATry(c)))
  BY <1>1, <1>2, Zenon
<1> DEFINE A == Depth5(r, c)
           F == Depth5(r, WhenFed(c))
           L == Depth5(r, InALoop(c))
           T == Depth5(r, InATry(c))
<1>4. s \in Made(r, c, A, F, L, T)
  BY DEF Steps
<1> HIDE DEF A, F, L, T
<1>5. /\ Seq(A) \subseteq Seq(Steps(r, c)) /\ Seq(F) \subseteq Seq(Steps(r, WhenFed(c)))
      /\ Seq(L) \subseteq Seq(Steps(r, InALoop(c))) /\ Seq(T) \subseteq Seq(Steps(r, InATry(c)))
  BY <1>3 DEF A, F, L, T
<1>6. QED
  BY <1>4, <1>5, MadeOf

(* Which steps feed.                                                       *)
LEMMA FeedingSteps ==
    ASSUME NEW s, Feeds(s)
    PROVE  /\ s.do \in {"token", "rules", "miss", "nonEmpty", "branch"}
           /\ s.do # "branch" => s.miss \in GivesUp
           /\ s.do = "rules" => s.rules \in Seq(Bearing)
           /\ s.do = "branch" => /\ Guarded(s) \/ HasFeed(s.then)
                                 /\ HasFeed(s.otherwise)
BY DEF Feeds, FeedsAtOnce

(* A function that gives up returns no node.                               *)
LEMMA MissFeeds ==
    ASSUME NEW m \in GivesUp
    PROVE  Feeds(Miss(m))
BY DEF Miss, Feeds, FeedsAtOnce
-----------------------------------------------------------------------------
(* Where the next step is.                                                 *)
LEMMA HeadPlace ==
    ASSUME NEW r, NEW start, NEW at, NEW ss, Sound(r, start, at, ss), ss # << >>
    PROVE  /\ Len(ss) \in Nat \ {0} /\ 1 \in 1..Len(ss)
           /\ \E c \in Places : /\ PlacedIn(c, ss, 1) /\ StepOK(r, c, ss[1])
                                /\ "fed" \in c => start < at
<1>1. Len(ss) \in Nat \ {0} /\ 1 \in 1..Len(ss)
  BY LengthIsNat, EmptyIsSeq DEF Sound
<1>2. FedBy(start, at, ss, 1) => start < at
  BY DEF FedBy
<1>3. QED
  BY <1>1, <1>2 DEF Sound

(* What is sound at one token is sound at a later one.                     *)
LEMMA SoundLater ==
    ASSUME NEW r, NEW start, NEW at, NEW at2, NEW ss, Sound(r, start, at, ss),
           start < at => start < at2
    PROVE  Sound(r, start, at2, ss)
<1>1. \A i : FedBy(start, at, ss, i) => FedBy(start, at2, ss, i)
  BY DEF FedBy
<1>2. QED
  BY <1>1 DEF Sound

(* A step that feeds is behind the function once it is done, if no mark    *)
(* leads past it.                                                          *)
LEMMA FedIf ==
    ASSUME NEW start, NEW at, NEW ss, NEW i, NEW k \in 1..(i - 1), Feeds(ss[k]),
           \A j \in (k + 1)..(i - 1) : ~Mark(ss[j])
    PROVE  FedBy(start, at, ss, i)
BY DEF FedBy

(* The next step is replaced by what is left of it to do.                  *)
LEMMA Replaced ==
    ASSUME NEW r, NEW start, NEW at, NEW at2, NEW ss, Sound(r, start, at, ss), ss # << >>,
           NEW xs, IsSeq(xs), start < at => start < at2,
           \A j \in 1..Len(xs) : \E d \in Places :
               /\ PlacedIn(d, xs \o Tail(ss), j) /\ StepOK(r, d, xs[j])
               /\ "fed" \in d => start < at2,
           \/ ~Feeds(ss[1]) \/ start < at2
           \/ \E k \in 1..Len(xs) : /\ Feeds(xs[k])
                                    /\ \A j \in (k + 1)..Len(xs) : ~Mark(xs[j])
    PROVE  Sound(r, start, at2, xs \o Tail(ss))
<1> DEFINE zs == xs \o Tail(ss)
           n == Len(xs)
           m == Len(ss)
<1>1. /\ IsSeq(ss) /\ m \in Nat \ {0} /\ n \in Nat
      /\ IsSeq(zs) /\ Len(zs) = n + m - 1
      /\ \A j \in 1..n : zs[j] = xs[j]
      /\ \A i \in 2..m : zs[n + i - 1] = ss[i]
  <2>1. IsSeq(ss) /\ m \in Nat \ {0} /\ n \in Nat
    BY HeadPlace, LengthIsNat DEF Sound
  <2>2. /\ IsSeq(Tail(ss)) /\ Len(Tail(ss)) = m - 1
        /\ \A i \in 1..(m - 1) : Tail(ss)[i] = ss[i + 1]
    BY <2>1, TailSeq
  <2>3. /\ IsSeq(zs) /\ Len(zs) = n + (m - 1)
        /\ \A j \in 1..n : zs[j] = xs[j]
        /\ \A i \in 1..(m - 1) : zs[n + i] = Tail(ss)[i]
    BY <2>2, JoinedSeq
  <2> HIDE DEF zs, n, m
  <2>4. ASSUME NEW i \in 2..m PROVE zs[n + i - 1] = ss[i]
    <3>1. i - 1 \in 1..(m - 1) /\ n + (i - 1) = n + i - 1 /\ (i - 1) + 1 = i
      BY <2>1
    <3>2. zs[n + (i - 1)] = Tail(ss)[i - 1] /\ Tail(ss)[i - 1] = ss[(i - 1) + 1]
      BY <2>2, <2>3, <3>1
    <3>3. QED
      BY <3>1, <3>2
  <2>5. QED
    BY <2>1, <2>3, <2>4
<1> HIDE DEF zs, n, m
<1>2. ASSUME NEW i \in 2..(m + 1), FedBy(start, at, ss, i)
      PROVE  FedBy(start, at2, zs, n + i - 1)
  <2>1. CASE start < at
    BY <2>1 DEF FedBy
  <2>2. ASSUME NEW k \in 1..(i - 1), Feeds(ss[k]), \A j \in (k + 1)..(i - 1) : ~Mark(ss[j])
        PROVE  FedBy(start, at2, zs, n + i - 1)
    <3>1. ASSUME NEW j \in (n + 1)..(n + i - 2), j - n + 1 > k PROVE ~Mark(zs[j])
      <4>1. j - n + 1 \in 2..m /\ n + (j - n + 1) - 1 = j /\ j - n + 1 \in (k + 1)..(i - 1)
        BY <1>1, <3>1
      <4>2. zs[j] = ss[j - n + 1]
        BY <1>1, <4>1
      <4>3. QED
        BY <2>2, <4>1, <4>2
    <3>2. CASE k > 1
      <4> DEFINE l == n + k - 1
                 e == n + i - 1
      <4>1. l \in 1..(e - 1) /\ zs[l] = ss[k]
        BY <1>1, <3>2
      <4>2. \A j \in (l + 1)..(e - 1) : ~Mark(zs[j])
        BY <1>1, <3>1, <3>2
      <4>3. Feeds(zs[l])
        BY <2>2, <4>1
      <4> HIDE DEF l, e
      <4>4. FedBy(start, at2, zs, e)
        BY <4>1, <4>2, <4>3, FedIf
      <4>5. QED
        BY <4>4 DEF e
    <3>3. CASE k = 1 /\ ~(start < at2)
      <4>1. PICK l \in 1..n : Feeds(xs[l]) /\ \A j \in (l + 1)..n : ~Mark(xs[j])
        BY <2>2, <3>3 DEF n
      <4> DEFINE e == n + i - 1
      <4>2. l \in 1..(e - 1) /\ Feeds(zs[l])
        BY <1>1, <4>1
      <4>3. \A j \in (l + 1)..n : ~Mark(zs[j])
        BY <1>1, <4>1
      <4>4. \A j \in (n + 1)..(n + i - 2) : ~Mark(zs[j])
        BY <1>1, <3>1, <3>3
      <4>5. \A j \in (l + 1)..(e - 1) : ~Mark(zs[j])
        BY <1>1, <4>3, <4>4
      <4> HIDE DEF e
      <4>6. FedBy(start, at2, zs, e)
        BY <4>2, <4>5, FedIf
      <4>7. QED
        BY <4>6 DEF e
    <3>4. CASE start < at2
      BY <3>4 DEF FedBy
    <3>5. QED
      BY <3>2, <3>3, <3>4
  <2>3. QED
    BY <1>2, <2>1, <2>2 DEF FedBy
<1>3. ASSUME NEW j \in 1..Len(zs)
      PROVE  \E c \in Places : /\ PlacedIn(c, zs, j) /\ StepOK(r, c, zs[j])
                               /\ "fed" \in c => FedBy(start, at2, zs, j)
  <2>1. CASE j \in 1..n
    <3>1. PICK d \in Places : /\ PlacedIn(d, zs, j) /\ StepOK(r, d, xs[j])
                              /\ "fed" \in d => start < at2
      BY <2>1 DEF n, zs
    <3>2. QED
      BY <1>1, <2>1, <3>1 DEF FedBy
  <2>2. CASE j \notin 1..n
    <3> DEFINE i == j - n + 1
    <3>1. i \in 2..m /\ n + i - 1 = j /\ zs[j] = ss[i]
      BY <1>1, <2>2
    <3> HIDE DEF i
    <3>2. PICK c \in Places : /\ PlacedIn(c, ss, i) /\ StepOK(r, c, ss[i])
                              /\ "fed" \in c => FedBy(start, at, ss, i)
      BY <3>1 DEF Sound, m
    <3>3. \A l \in (i + 1)..m : n + l - 1 \in (j + 1)..Len(zs) /\ zs[n + l - 1] = ss[l]
      BY <1>1, <3>1
    <3>4. PlacedIn(c, zs, j)
      BY <3>2, <3>3 DEF PlacedIn, m
    <3>5. "fed" \in c => FedBy(start, at2, zs, j)
      <4>1. i \in 2..(m + 1)
        BY <1>1, <3>1
      <4>2. FedBy(start, at, ss, i) => FedBy(start, at2, zs, n + i - 1)
        BY <1>2, <4>1
      <4>3. QED
        BY <3>1, <3>2, <4>2
    <3>6. QED
      BY <3>1, <3>2, <3>4, <3>5
  <2>3. QED
    BY <2>1, <2>2
<1>4. r \in Bearing => FedBy(start, at2, zs, Len(zs) + 1)
  <2>1. r \in Bearing => FedBy(start, at, ss, m + 1)
    BY DEF Sound, m
  <2>2. m + 1 \in 2..(m + 1) /\ n + (m + 1) - 1 = Len(zs) + 1
    BY <1>1
  <2>3. QED
    BY <1>2, <2>1, <2>2
<1>5. QED
  BY <1>1, <1>3, <1>4 DEF Sound, zs

(* What is left behind the mark of a loop or of a Try.                     *)
LEMMA SoundPart ==
    ASSUME NEW r, NEW start, NEW at, NEW at2, NEW ss, Sound(r, start, at, ss),
           NEW i \in 1..(Len(ss) + 1), start < at => start < at2,
           start < at2 \/ (i > 1 /\ Mark(ss[i - 1]))
    PROVE  Sound(r, start, at2, SubSeq(ss, i, Len(ss)))
<1> DEFINE zs == SubSeq(ss, i, Len(ss))
           m == Len(ss)
<1>1. IsSeq(ss) /\ m \in Nat /\ i \in Nat
  BY LengthIsNat DEF Sound
<1>2. m \in (i - 1)..m
  BY <1>1
<1>3. /\ IsSeq(zs) /\ Len(zs) = m - i + 1
      /\ \A j \in 1..(m - i + 1) : zs[j] = ss[i + j - 1]
  BY <1>1, <1>2, PartSeq
<1> HIDE DEF zs, m
<1>4. ASSUME NEW j \in i..(m + 1), FedBy(start, at, ss, j)
      PROVE  FedBy(start, at2, zs, j - i + 1)
  <2>1. CASE start < at2
    BY <2>1 DEF FedBy
  <2>2. CASE ~(start < at2)
    <3>1. i > 1 /\ Mark(ss[i - 1])
      BY <2>2
    <3>2. PICK k \in 1..(j - 1) : Feeds(ss[k]) /\ \A l \in (k + 1)..(j - 1) : ~Mark(ss[l])
      BY <1>4, <2>2 DEF FedBy
    <3>3. k # i - 1
      BY <3>1, <3>2, FeedingSteps DEF Mark
    <3>4. ~(k < i - 1)
      BY <1>1, <3>1, <3>2
    <3>5. k >= i
      BY <1>1, <3>3, <3>4
    <3>6. k - i + 1 \in 1..(j - i + 1 - 1) /\ zs[k - i + 1] = ss[k]
      BY <1>1, <1>3, <3>5
    <3>7. ASSUME NEW l \in (k - i + 1 + 1)..(j - i + 1 - 1) PROVE ~Mark(zs[l])
      <4>1. l \in 1..(m - i + 1) /\ i + l - 1 \in (k + 1)..(j - 1)
        BY <1>1, <3>5
      <4>2. QED
        BY <1>3, <3>2, <4>1
    <3>8. QED
      BY <3>2, <3>6, <3>7 DEF FedBy
  <2>3. QED
    BY <2>1, <2>2
<1>5. ASSUME NEW j \in 1..Len(zs)
      PROVE  \E c \in Places : /\ PlacedIn(c, zs, j) /\ StepOK(r, c, zs[j])
                               /\ "fed" \in c => FedBy(start, at2, zs, j)
  <2> DEFINE q == i + j - 1
  <2>1. q \in 1..m /\ q \in i..(m + 1) /\ q - i + 1 = j /\ zs[j] = ss[q]
    BY <1>1, <1>3
  <2> HIDE DEF q
  <2>2. PICK c \in Places : /\ PlacedIn(c, ss, q) /\ StepOK(r, c, ss[q])
                            /\ "fed" \in c => FedBy(start, at, ss, q)
    BY <2>1 DEF Sound, m
  <2>3. \A l \in (q + 1)..m : l - i + 1 \in (j + 1)..Len(zs) /\ zs[l - i + 1] = ss[l]
    BY <1>1, <1>3, <2>1
  <2>4. PlacedIn(c, zs, j)
    BY <2>2, <2>3 DEF PlacedIn, m
  <2>5. QED
    BY <1>4, <2>1, <2>2, <2>4
<1>6. r \in Bearing => FedBy(start, at2, zs, Len(zs) + 1)
  <2>1. r \in Bearing => FedBy(start, at, ss, m + 1)
    BY DEF Sound, m
  <2>2. m + 1 \in i..(m + 1) /\ (m + 1) - i + 1 = Len(zs) + 1
    BY <1>1, <1>3 DEF m
  <2>3. QED
    BY <1>4, <2>1, <2>2
<1>7. QED
  BY <1>3, <1>5, <1>6 DEF Sound, zs
-----------------------------------------------------------------------------
(* The marks behind the first step are behind what is put in its place.    *)
LEMMA PlacedLater ==
    ASSUME NEW c, NEW ss, IsSeq(ss), ss # << >>, PlacedIn(c, ss, 1), NEW xs, IsSeq(xs)
    PROVE  \A j \in 1..Len(xs) : PlacedIn(c, xs \o Tail(ss), j)
<1> DEFINE zs == xs \o Tail(ss)
           n == Len(xs)
           m == Len(ss)
<1>1. /\ m \in Nat \ {0} /\ n \in Nat
      /\ Len(zs) = n + (m - 1)
      /\ \A i \in 1..(m - 1) : zs[n + i] = Tail(ss)[i] /\ Tail(ss)[i] = ss[i + 1]
  BY TailSeq, JoinedSeq, LengthIsNat, EmptyIsSeq
<1> HIDE DEF zs, n, m
<1>2. ASSUME NEW j \in 1..n, NEW l \in 2..m
      PROVE  n + l - 1 \in (j + 1)..Len(zs) /\ zs[n + l - 1] = ss[l]
  <2>1. l - 1 \in 1..(m - 1) /\ n + (l - 1) = n + l - 1 /\ (l - 1) + 1 = l
    BY <1>1
  <2>2. zs[n + (l - 1)] = ss[(l - 1) + 1]
    BY <1>1, <2>1
  <2>3. QED
    BY <1>1, <2>1, <2>2
<1>3. \A j \in 1..n : PlacedIn(c, zs, j)
  BY <1>2, SMTT(20) DEF PlacedIn, m
<1>4. QED
  BY <1>3 DEF zs, n

LEMMA EmptyJoined ==
    ASSUME NEW s, IsSeq(s)
    PROVE  << >> \o s = s
BY EmptyIsSeq, JoinedSeq, SameSeq, LengthIsNat

(* The next step is over.                                                  *)
LEMMA SoundRest ==
    ASSUME NEW r, NEW start, NEW at, NEW at2, NEW ss, Sound(r, start, at, ss), ss # << >>,
           start < at => start < at2, ~Feeds(ss[1]) \/ start < at2
    PROVE  Sound(r, start, at2, Tail(ss))
<1> DEFINE xs == << >>
<1>1. IsSeq(xs) /\ \A j : j \notin 1..Len(xs)
  <2>1. IsSeq(xs) /\ Len(xs) = 0
    BY EmptyIsSeq, Zenon
  <2>2. QED
    BY <2>1
<1>2. IsSeq(Tail(ss))
  BY TailSeq DEF Sound
<1> HIDE DEF xs
<1>3. Sound(r, start, at2, xs \o Tail(ss))
  BY <1>1, Replaced
<1>4. xs \o Tail(ss) = Tail(ss)
  BY <1>2, EmptyJoined DEF xs
<1>5. QED
  BY <1>3, <1>4

(* It is replaced by steps that may be where it is.                        *)
LEMMA ReplacedHere ==
    ASSUME NEW r, NEW start, NEW at, NEW at2, NEW ss, Sound(r, start, at, ss), ss # << >>,
           start < at => start < at2,
           NEW c \in Places, PlacedIn(c, ss, 1), NEW d \in Places,
           d = c \/ d = WhenFed(c),
           "fed" \in d => start < at2,
           NEW xs \in Seq(Steps(r, d)),
           ~Feeds(ss[1]) \/ start < at2 \/ \E k \in 1..Len(xs) : Feeds(xs[k])
    PROVE  Sound(r, start, at2, xs \o Tail(ss))
<1> DEFINE S == Steps(r, d)
<1>1. IsSeq(xs) /\ IsSeq(ss)
  BY SeqIsSeq DEF Sound
<1>2. \A s \in S : ~Mark(s) /\ StepOK(r, d, s)
  BY StepsAreNoMarks DEF StepOK
<1> HIDE DEF S
<1>3. \A j \in 1..Len(xs) : xs[j] \in S
  BY DEF S
<1>4. \A j \in 1..Len(xs) : PlacedIn(d, xs \o Tail(ss), j)
  <2>1. "loop" \in d => "loop" \in c
    BY DEF WhenFed
  <2>2. "try" \in d => "try" \in c
    BY DEF WhenFed
  <2>3. \A j \in 1..Len(xs) : PlacedIn(c, xs \o Tail(ss), j)
    BY <1>1, PlacedLater
  <2>4. QED
    BY <2>1, <2>2, <2>3 DEF PlacedIn
<1>5. \A j \in 1..Len(xs) : \E e \in Places :
          /\ PlacedIn(e, xs \o Tail(ss), j) /\ StepOK(r, e, xs[j])
          /\ "fed" \in e => start < at2
  BY <1>2, <1>3, <1>4
<1>6. \A k \in 1..Len(xs) : \A j \in (k + 1)..Len(xs) : ~Mark(xs[j])
  <2>1. Len(xs) \in Nat
    BY <1>1, LengthIsNat
  <2>2. QED
    BY <1>2, <1>3, <2>1
<1>7. \/ ~Feeds(ss[1]) \/ start < at2
      \/ \E k \in 1..Len(xs) : /\ Feeds(xs[k])
                               /\ \A j \in (k + 1)..Len(xs) : ~Mark(xs[j])
  BY <1>6
<1>8. QED
  BY <1>1, <1>5, <1>7, Replaced

(* Only a mark has steps that a step has not.                              *)
LEMMA StepOKIs ==
    ASSUME NEW r, NEW c, NEW s, StepOK(r, c, s), ~Mark(s)
    PROVE  s \in Steps(r, c)
BY DEF StepOK, Mark

(* A token, a call or a child is missing.                                  *)
LEMMA SoundMiss ==
    ASSUME NEW r, NEW start, NEW at, NEW at2, NEW ss, Sound(r, start, at, ss), ss # << >>,
           start < at => start < at2, ss[1].do \in {"token", "rules", "nonEmpty"}
    PROVE  Sound(r, start, at2, <<Miss(ss[1].miss)>> \o Tail(ss))
<1> DEFINE s == ss[1]
           xs == <<Miss(s.miss)>>
<1>1. PICK c \in Places : /\ PlacedIn(c, ss, 1) /\ StepOK(r, c, s)
                          /\ "fed" \in c => start < at
  BY HeadPlace
<1>2. s \in Steps(r, c)
  BY <1>1, StepOKIs DEF Mark
<1>3. s.miss \in MissesIn(c)
  BY <1>2, StepParts
<1>4. Miss(s.miss) \in Steps(r, c)
  BY <1>3, MissIn, SimpleSteps
<1>5. xs \in Seq(Steps(r, c)) /\ Len(xs) = 1 /\ xs[1] = Miss(s.miss)
  BY <1>4
<1>6. Feeds(s) => Feeds(xs[1])
  <2>1. Feeds(s) => s.miss \in GivesUp
    BY FeedingSteps
  <2>2. QED
    BY <1>5, <2>1, MissFeeds
<1>7. ~Feeds(s) \/ \E k \in 1..Len(xs) : Feeds(xs[k])
  BY <1>5, <1>6
<1> HIDE DEF xs, s
<1>8. Sound(r, start, at2, xs \o Tail(ss))
  BY <1>1, <1>5, <1>7, ReplacedHere DEF s
<1>9. QED
  BY <1>8 DEF xs, s

(* Both ways of an if.                                                     *)
LEMMA SoundBranch ==
    ASSUME NEW r, NEW start, NEW at, NEW at2, NEW ss, Sound(r, start, at, ss), ss # << >>,
           start < at => start < at2, ss[1].do = "branch"
    PROVE  /\ Sound(r, start, at2, ss[1].otherwise \o Tail(ss))
           /\ ~Guarded(ss[1]) \/ start < at2 => Sound(r, start, at2, ss[1].then \o Tail(ss))
<1> DEFINE s == ss[1]
<1>1. PICK c \in Places : /\ PlacedIn(c, ss, 1) /\ StepOK(r, c, s)
                          /\ "fed" \in c => start < at
  BY HeadPlace
<1>2. s \in Steps(r, c)
  BY <1>1, StepOKIs DEF Mark
<1>3. /\ s.otherwise \in Seq(Steps(r, c))
      /\ s.then \in Seq(Steps(r, c)) \/ (s.then \in Seq(Steps(r, WhenFed(c))) /\ Guarded(s))
  BY <1>2, StepParts
<1>4. \A xs : HasFeed(xs) => \E k \in 1..Len(xs) : Feeds(xs[k])
  BY DEF HasFeed, Feeds
<1>5. Feeds(s) => HasFeed(s.otherwise) /\ (Guarded(s) \/ HasFeed(s.then))
  BY FeedingSteps
<1> HIDE DEF s
<1>6. Sound(r, start, at2, s.otherwise \o Tail(ss))
  BY <1>1, <1>3, <1>4, <1>5, ReplacedHere DEF s
<1>7. ASSUME ~Guarded(s) PROVE Sound(r, start, at2, s.then \o Tail(ss))
  BY <1>1, <1>3, <1>4, <1>5, <1>7, ReplacedHere DEF s
<1>8. ASSUME start < at2 PROVE Sound(r, start, at2, s.then \o Tail(ss))
  <2>1. CASE s.then \in Seq(Steps(r, c))
    BY <1>1, <1>8, <2>1, ReplacedHere
  <2>2. CASE s.then \in Seq(Steps(r, WhenFed(c)))
    <3>1. WhenFed(c) \in Places
      BY PlacesClosed
    <3>2. QED
      BY <1>1, <1>8, <2>2, <3>1, ReplacedHere
  <2>3. QED
    BY <1>3, <2>1, <2>2
<1>9. QED
  BY <1>6, <1>7, <1>8 DEF s

(* A lambda comes next.                                                    *)
LEMMA SoundLambda ==
    ASSUME NEW r, NEW start, NEW at, NEW at2, NEW ss, Sound(r, start, at, ss), ss # << >>,
           start < at => start < at2, ss[1].do = "lambda"
    PROVE  Sound(r, start, at2, ss[1].then \o Tail(ss))
<1> DEFINE s == ss[1]
<1>1. PICK c \in Places : /\ PlacedIn(c, ss, 1) /\ StepOK(r, c, s)
                          /\ "fed" \in c => start < at
  BY HeadPlace
<1>2. s \in Steps(r, c)
  BY <1>1, StepOKIs DEF Mark
<1>3. s.then \in Seq(Steps(r, c)) /\ ~Feeds(s)
  BY <1>2, StepParts, FeedingSteps
<1>4. QED
  BY <1>1, <1>3, ReplacedHere
-----------------------------------------------------------------------------
(* A body is entered: the mark m is put behind it.                         *)
LEMMA SoundBody ==
    ASSUME NEW r, NEW start, NEW at, NEW at2, NEW ss, Sound(r, start, at, ss), ss # << >>,
           start < at => start < at2, ~Feeds(ss[1]),
           NEW c \in Places, PlacedIn(c, ss, 1), "fed" \in c => start < at,
           NEW m, StepOK(r, c, m), NEW d \in Places,
           \/ d = InALoop(c) /\ m.do = "again"
           \/ d = InATry(c) /\ m.do = "tried",
           NEW body \in Seq(Steps(r, d))
    PROVE  Sound(r, start, at2, (body \o <<m>>) \o Tail(ss))
<1> DEFINE S == Steps(r, d)
           n == Len(body)
           xs == body \o <<m>>
           zs == xs \o Tail(ss)
<1>1. IsSeq(body) /\ IsSeq(ss) /\ n \in Nat
  BY SeqIsSeq DEF Sound
<1>2. \A s \in S : StepOK(r, d, s)
  BY DEF StepOK
<1> HIDE DEF S
<1>3. \A j \in 1..n : body[j] \in S
  BY DEF S
<1>4. /\ IsSeq(xs) /\ Len(xs) = n + 1 /\ xs[n + 1] = m
      /\ \A j \in 1..n : xs[j] = body[j]
  BY <1>1, OneSeq, JoinedSeq
<1>5. /\ IsSeq(Tail(ss)) /\ Len(Tail(ss)) \in Nat
  BY <1>1, TailSeq, LengthIsNat
<1>6. /\ Len(zs) \in Nat /\ Len(zs) >= n + 1 /\ zs[n + 1] = m
  BY <1>1, <1>4, <1>5, JoinedSeq
<1>7. \A j \in 1..Len(xs) : PlacedIn(c, zs, j)
  BY <1>1, <1>4, PlacedLater
<1>8. ASSUME NEW j \in 1..n PROVE PlacedIn(d, zs, j)
  <2>1. n + 1 \in (j + 1)..Len(zs) /\ j \in 1..Len(xs)
    BY <1>1, <1>4, <1>6
  <2>2. PlacedIn(c, zs, j)
    BY <1>7, <2>1
  <2> HIDE DEF zs, xs
  <2>3. CASE d = InALoop(c) /\ m.do = "again"
    <3>1. "try" \in d => "try" \in c
      BY <2>3 DEF InALoop
    <3>2. QED
      BY <1>6, <2>1, <2>2, <2>3, <3>1 DEF PlacedIn
  <2>4. CASE d = InATry(c) /\ m.do = "tried"
    <3>1. "loop" \in d => "loop" \in c
      BY <2>4 DEF InATry
    <3>2. QED
      BY <1>6, <2>1, <2>2, <2>4, <3>1 DEF PlacedIn
  <2>5. QED
    BY <2>3, <2>4
<1>9. "fed" \in d => "fed" \in c
  BY DEF InALoop, InATry
<1> HIDE DEF zs
<1>10. ASSUME NEW j \in 1..Len(xs)
       PROVE  \E e \in Places : /\ PlacedIn(e, zs, j) /\ StepOK(r, e, xs[j])
                                /\ "fed" \in e => start < at2
  <2>1. CASE j = n + 1
    BY <1>4, <1>7, <2>1
  <2>2. CASE j \in 1..n
    BY <1>2, <1>3, <1>4, <1>8, <1>9, <2>2
  <2>3. QED
    BY <1>1, <1>4, <2>1, <2>2
<1> HIDE DEF xs
<1>11. \A j \in 1..Len(xs) : \E e \in Places :
           /\ PlacedIn(e, xs \o Tail(ss), j) /\ StepOK(r, e, xs[j])
           /\ "fed" \in e => start < at2
  BY <1>10 DEF zs
<1>12. Sound(r, start, at2, xs \o Tail(ss))
  BY <1>4, <1>11, Replaced
<1>13. QED
  BY <1>12 DEF xs

(* A loop is entered: its body, and the mark, come before the rest.        *)
LEMMA SoundLoop ==
    ASSUME NEW r, NEW start, NEW at, NEW at2, NEW ss, Sound(r, start, at, ss), ss # << >>,
           start < at => start < at2, ss[1].do = "loop"
    PROVE  /\ IsSeq(ss[1].body) /\ ss[1].stop \in Tests
           /\ \A i \in 1..Len(ss[1].body) : ~Mark(ss[1].body[i])
           /\ Sound(r, start, at2,
                    ss[1].body \o <<[ss[1] EXCEPT !.do = "again"]>> \o Tail(ss))
<1> DEFINE s == ss[1]
           m == [s EXCEPT !.do = "again"]
<1>1. PICK c \in Places : /\ PlacedIn(c, ss, 1) /\ StepOK(r, c, s)
                          /\ "fed" \in c => start < at
  BY HeadPlace
<1>2. s \in Steps(r, c)
  BY <1>1, StepOKIs DEF Mark
<1>3. /\ s = [do |-> "loop", stop |-> s.stop, sep |-> s.sep, body |-> s.body]
      /\ s.stop \in Tests /\ s.sep \in Separators
      /\ s.body \in Seq(Steps(r, InALoop(c)))
  BY <1>2, StepParts
<1>4. ~Feeds(s)
  BY FeedingSteps
<1>5. /\ m = [do |-> "again", stop |-> s.stop, sep |-> s.sep, body |-> s.body]
  BY <1>3
<1> HIDE DEF s, m
<1>6. m.do = "again" /\ m.stop = s.stop /\ m.sep = s.sep /\ m.body = s.body
  BY <1>5
<1>7. StepOK(r, c, m)
  BY <1>3, <1>5, <1>6, Zenon DEF StepOK
<1>8. InALoop(c) \in Places
  BY PlacesClosed
<1>9. Sound(r, start, at2, (s.body \o <<m>>) \o Tail(ss))
  BY <1>1, <1>3, <1>4, <1>6, <1>7, <1>8, SoundBody DEF s
<1>10. IsSeq(s.body) /\ \A i \in 1..Len(s.body) : ~Mark(s.body[i])
  BY <1>3, SeqIsSeq, StepsAreNoMarks
<1>11. QED
  BY <1>3, <1>9, <1>10 DEF s, m

(* Another round of a loop.                                                *)
LEMMA SoundAgain ==
    ASSUME NEW r, NEW start, NEW at, NEW at2, NEW ss, Sound(r, start, at, ss), ss # << >>,
           start < at => start < at2, ss[1].do = "again"
    PROVE  /\ IsSeq(ss[1].body) /\ ss[1].stop \in Tests /\ ss[1].sep \in Separators
           /\ \A i \in 1..Len(ss[1].body) : ~Mark(ss[1].body[i])
           /\ Sound(r, start, at2, (ss[1].body \o <<ss[1]>>) \o Tail(ss))
<1> DEFINE s == ss[1]
<1>1. PICK c \in Places : /\ PlacedIn(c, ss, 1) /\ StepOK(r, c, s)
                          /\ "fed" \in c => start < at
  BY HeadPlace
<1>2. s \notin Steps(r, c)
  BY <1>1, StepsAreNoMarks DEF Mark
<1>3. s.body \in Seq(Steps(r, InALoop(c))) /\ s.stop \in Tests /\ s.sep \in Separators
  BY <1>1, <1>2 DEF StepOK
<1>4. ~Feeds(s)
  BY FeedingSteps
<1>5. InALoop(c) \in Places
  BY PlacesClosed
<1>6. Sound(r, start, at2, (s.body \o <<s>>) \o Tail(ss))
  BY <1>1, <1>3, <1>4, <1>5, SoundBody
<1>7. IsSeq(s.body) /\ \A i \in 1..Len(s.body) : ~Mark(s.body[i])
  BY <1>3, SeqIsSeq, StepsAreNoMarks
<1>8. QED
  BY <1>3, <1>6, <1>7

(* The otherwise steps of a Try can follow wherever its body could.        *)
LEMMA SoundTry ==
    ASSUME NEW r, NEW start, NEW at, NEW at2, NEW ss, Sound(r, start, at, ss), ss # << >>,
           start < at => start < at2, ss[1].do = "try", NEW m, m.do = "tried",
           m.otherwise = ss[1].otherwise
    PROVE  /\ IsSeq(ss[1].body)
           /\ \A i \in 1..Len(ss[1].body) : ~Mark(ss[1].body[i])
           /\ Sound(r, start, at2, (ss[1].body \o <<m>>) \o Tail(ss))
           /\ Sound(r, start, at2, ss[1].otherwise \o Tail(ss))
<1> DEFINE s == ss[1]
<1>1. PICK c \in Places : /\ PlacedIn(c, ss, 1) /\ StepOK(r, c, s)
                          /\ "fed" \in c => start < at
  BY HeadPlace
<1>2. s \in Steps(r, c)
  BY <1>1, StepOKIs DEF Mark
<1>3. s.body \in Seq(Steps(r, InATry(c))) /\ s.otherwise \in Seq(Steps(r, c))
  BY <1>2, StepParts
<1>4. ~Feeds(s)
  BY FeedingSteps
<1>5. InATry(c) \in Places
  BY PlacesClosed
<1>6. StepOK(r, c, m)
  BY <1>3 DEF StepOK
<1>7. Sound(r, start, at2, (s.body \o <<m>>) \o Tail(ss))
  BY <1>1, <1>3, <1>4, <1>5, <1>6, SoundBody
<1>8. Sound(r, start, at2, s.otherwise \o Tail(ss))
  BY <1>1, <1>3, <1>4, ReplacedHere
<1>9. IsSeq(s.body) /\ \A i \in 1..Len(s.body) : ~Mark(s.body[i])
  BY <1>3, SeqIsSeq, StepsAreNoMarks
<1>10. QED
  BY <1>7, <1>8, <1>9

(* A call that has returned a node, or nullptr, or is followed by others.  *)
LEMMA SoundCall ==
    ASSUME NEW r, NEW start, NEW at, NEW at2, NEW ss, Sound(r, start, at, ss), ss # << >>,
           start < at => start < at2, ss[1].do = "rules"
    PROVE  /\ ss[1].rules[1] \in RuleNames
           /\ ss[1].rules[1] \in Bearing \/ start < at
           /\ start < at2 => Sound(r, start, at2, ss[1].hit \o Tail(ss))
           /\ Len(ss[1].rules) > 1 =>
                 Sound(r, start, at2,
                       <<[ss[1] EXCEPT !.rules = Tail(@)]>> \o Tail(ss))
<1> DEFINE s == ss[1]
<1>1. PICK c \in Places : /\ PlacedIn(c, ss, 1) /\ StepOK(r, c, s)
                          /\ "fed" \in c => start < at
  BY HeadPlace
<1>2. s \in Steps(r, c)
  BY <1>1, StepOKIs DEF Mark
<1>3. /\ s = [do |-> "rules", rules |-> s.rules, hit |-> s.hit, miss |-> s.miss]
      /\ s.hit \in Hits /\ s.miss \in MissesIn(c) /\ s.rules # << >>
      /\ s.rules \in Seq(Bearing) \/ ("fed" \in c /\ s.rules \in Seq(RuleNames))
  BY <1>2, StepParts
<1> HIDE DEF s
<1>4. s.rules[1] \in RuleNames /\ (s.rules[1] \in Bearing \/ start < at)
  <2>1. s.rules \in Seq(Bearing) => s.rules[1] \in Bearing
    BY <1>3
  <2>2. s.rules \in Seq(RuleNames) => s.rules[1] \in RuleNames
    BY <1>3
  <2>3. Bearing \subseteq RuleNames
    BY DEF Bearing
  <2>4. QED
    BY <1>1, <1>3, <2>1, <2>2, <2>3
<1>5. ASSUME start < at2 PROVE Sound(r, start, at2, s.hit \o Tail(ss))
  <2>1. Done \in Steps(r, WhenFed(c)) /\ Give \in Steps(r, WhenFed(c))
    BY OtherIn, FlagsKept, SimpleSteps
  <2>2. s.hit \in Seq(Steps(r, WhenFed(c)))
    BY <1>3, <2>1, Tuples DEF Hits
  <2>3. WhenFed(c) \in Places
    BY PlacesClosed
  <2>4. QED
    BY <1>1, <1>5, <2>2, <2>3, ReplacedHere
<1>6. ASSUME Len(s.rules) > 1
      PROVE  Sound(r, start, at2, <<[s EXCEPT !.rules = Tail(@)]>> \o Tail(ss))
  <2> DEFINE x == [s EXCEPT !.rules = Tail(@)]
             xs == <<x>>
  <2>1. x = [do |-> "rules", rules |-> Tail(s.rules), hit |-> s.hit, miss |-> s.miss]
    BY <1>3, SMTT(20)
  <2>2. /\ s.rules \in Seq(Bearing) => Tail(s.rules) \in Seq(Bearing) \ {<< >>}
        /\ s.rules \in Seq(RuleNames) => Tail(s.rules) \in Seq(RuleNames) \ {<< >>}
    <3>1. ASSUME NEW S, NEW q \in Seq(S), Len(q) > 1
          PROVE  Tail(q) \in Seq(S) /\ Tail(q) # << >>
      <4>1. Tail(q) \in Seq(S) /\ Len(Tail(q)) = Len(q) - 1 /\ Len(q) \in Nat
        BY <3>1
      <4>2. Len(Tail(q)) # 0
        BY <3>1, <4>1
      <4>3. Tail(q) # << >>
        <5>1. Len(<< >>) = 0
          BY EmptyIsSeq
        <5>2. QED
          BY <4>2, <5>1, Zenon
      <4>4. QED
        BY <4>1, <4>3
    <3>2. QED
      BY <1>6, <3>1
  <2>3. x \in Simple(r, c)
    BY <1>3, <2>1, <2>2 DEF Simple
  <2>4. Feeds(s) => Feeds(x)
    <3>1. x.do = "rules" /\ x.miss = s.miss /\ x.rules = Tail(s.rules) /\ s.do = "rules"
      BY <1>3, <2>1
    <3>2. QED
      BY <2>2, <3>1, FeedingSteps DEF Feeds, FeedsAtOnce
  <2> HIDE DEF x
  <2>5. xs \in Seq(Steps(r, c)) /\ Len(xs) = 1 /\ xs[1] = x
    BY <2>3, SimpleSteps
  <2> HIDE DEF xs
  <2>6. ~Feeds(s) \/ \E k \in 1..Len(xs) : Feeds(xs[k])
    BY <2>4, <2>5
  <2>7. Sound(r, start, at2, xs \o Tail(ss))
    BY <1>1, <2>5, <2>6, ReplacedHere DEF s
  <2>8. QED
    BY <2>7 DEF xs, x
<1>7. QED
  BY <1>4, <1>5, <1>6 DEF s

(* A function returns its node, or a child, only where text was consumed.  *)
LEMMA SoundReturn ==
    ASSUME NEW r, NEW start, NEW at, NEW ss, Sound(r, start, at, ss)
    PROVE  /\ ss = << >> /\ r \in Bearing => start < at
           /\ ss # << >> /\ ss[1].do \in {"done", "give"} => start < at
<1>1. ASSUME ss = << >>, r \in Bearing PROVE start < at
  <2>1. FedBy(start, at, ss, 1)
    BY <1>1, EmptyIsSeq DEF Sound
  <2>2. QED
    BY <2>1 DEF FedBy
<1>2. ASSUME ss # << >>, ss[1].do \in {"done", "give"} PROVE start < at
  <2>1. PICK c \in Places : StepOK(r, c, ss[1]) /\ ("fed" \in c => start < at)
    BY <1>2, HeadPlace
  <2>2. ss[1] \in Steps(r, c)
    BY <1>2, <2>1, StepOKIs DEF Mark
  <2>3. QED
    BY <1>2, <2>1, <2>2, StepParts
<1>3. QED
  BY <1>1, <1>2

(* A "break" is in a loop and a "fail" in a Try.                           *)
LEMMA SoundLeaves ==
    ASSUME NEW r, NEW start, NEW at, NEW ss, Sound(r, start, at, ss), ss # << >>
    PROVE  /\ ss[1].do = "miss" => ss[1].miss \in Misses
           /\ ss[1].do = "miss" /\ ss[1].miss = "break" =>
                 \E j \in 2..Len(ss) : ss[j].do = "again"
           /\ \/ ss[1].do = "miss" /\ ss[1].miss = "fail"
              \/ ss[1].do = "gt"
              => \E j \in 2..Len(ss) : ss[j].do = "tried"
           /\ ss[1].do = "dropTypes" => r = "Scope"
           /\ ss[1].do = "refuseSecond" => r = "VirtualProp"
           /\ ss[1].do = "token" =>
                 ss[1].test \in Tests
<1>1. PICK c \in Places : PlacedIn(c, ss, 1) /\ StepOK(r, c, ss[1])
  BY HeadPlace
<1>2. ss[1].do \in {"miss", "gt", "dropTypes", "refuseSecond", "token"} => ss[1] \in Steps(r, c)
  BY <1>1, StepOKIs DEF Mark
<1>3. /\ "loop" \in c => \E j \in 2..Len(ss) : ss[j].do = "again"
      /\ "try" \in c => \E j \in 2..Len(ss) : ss[j].do = "tried"
  BY <1>1 DEF PlacedIn
<1>4. ss[1].do = "miss" => ss[1].miss \in MissesIn(c)
  BY <1>2, StepParts
<1>5. /\ ss[1].do = "gt" => "try" \in c
      /\ ss[1].do = "dropTypes" => r = "Scope"
      /\ ss[1].do = "refuseSecond" => r = "VirtualProp"
      /\ ss[1].do = "token" => ss[1].test \in Tests
  BY <1>2, StepParts
<1>6. QED
  BY <1>3, <1>4, <1>5 DEF MissesIn
=============================================================================
