-------------------------- MODULE SirTypes_proofs ---------------------------
(***************************************************************************)
(* The types of a module that is built agree, for all scripts.             *)
(*                                                                         *)
(* Two invariants are needed for it, besides BuilderInv.  TypesInv says of *)
(* the frames, and of the id that has been returned, what the module is to *)
(* be told of types; OwnersInv says that each statement, wherever it is    *)
(* kept, belongs to the function whose body was being built when it was    *)
(* added.                                                                  *)
(***************************************************************************)
EXTENDS SirBuilder_proofs

(* What a frame holds has the type it is for, given the symbols, functions *)
(* and expressions; and if nothing has been reported, it has one.          *)
FrameSays(fr, ys, gs, xs, ds) ==
    /\ fr.at = "arguments" /\ fr.function # Invalid =>
          \A k \in DOMAIN fr.args \cap DOMAIN gs[fr.function].parameters :
              Agree(xs[fr.args[k]].type, gs[fr.function].parameters[k].type)
    /\ fr.at = "initializer" => fr.type = ys[fr.symbol].type
    /\ ds = {} =>
          /\ fr.at = "arguments" => fr.function # Invalid
          /\ fr.at \in {"declarators", "initializer"} => fr.type # errorType
          /\ fr.at = "rhs" => xs[fr.lhs].type # errorType
          /\ fr.at = "operands" /\ fr.acc # Invalid => xs[fr.acc].type # errorType

DeclAgrees(s, ys, xs) ==
    s.kind = "VarDecl" => \A k \in DOMAIN s.kids : Agree(xs[s.kids[k]].type, ys[s.ref].type)

ExprClean(e, ds) == ds = {} => (e.type = errorType => e.kind = "Error")

(* The values of an assignment, and that which is converted, are there.    *)
KidsThere(e) ==
    /\ e.kind = "Assign" => Len(e.kids) = 2
    /\ e.kind = "ImplicitCast" => Len(e.kids) = 1

SymbolClean(y, ds) == ds = {} => y.type # errorType

FunctionClean(g, ds) ==
    ds = {} => /\ g.returnType # errorType
               /\ \A k \in DOMAIN g.parameters : g.parameters[k].type # errorType

ResultClean ==
    diags = {} /\ returned # Invalid /\ stack # << >> /\ Wants(Top) = "expr" =>
        exprs[returned].type # errorType

TypesInv ==
    /\ \A i \in DOMAIN exprs :
          /\ ExprAgrees(exprs[i], exprs, functions) /\ KidsThere(exprs[i])
          /\ ExprClean(exprs[i], diags)
    /\ \A i \in DOMAIN statements : DeclAgrees(statements[i], symbols, exprs)
    /\ \A i \in DOMAIN symbols : SymbolClean(symbols[i], diags)
    /\ \A i \in DOMAIN functions : FunctionClean(functions[i], diags)
    /\ \A i \in DOMAIN stack : FrameSays(stack[i], symbols, functions, exprs, diags)
    /\ ResultClean

(* The indices of what a step has added to a sequence.                     *)
Added(new, old) == (Len(old) + 1)..Len(new)

NewTyped ==
    /\ diags \subseteq diags'
    /\ \A i \in Added(exprs', exprs) :
          /\ ExprAgrees(exprs'[i], exprs', functions') /\ KidsThere(exprs'[i])
          /\ ExprClean(exprs'[i], diags')
    /\ \A i \in Added(statements', statements) : DeclAgrees(statements'[i], symbols', exprs')
    /\ \A i \in Added(symbols', symbols) : SymbolClean(symbols'[i], diags')
    /\ \A i \in Added(functions', functions) : FunctionClean(functions'[i], diags')

NewFrames ==
    \A i \in DOMAIN stack' :
        \/ \E j \in DOMAIN stack : stack'[i] = stack[j]
        \/ FrameSays(stack'[i], symbols', functions', exprs', diags')

(* What is there stays there, and keeps its type.                          *)
LEMMA TypesKept ==
    ASSUME BuilderInv, BuilderInv', ModuleGrows
    PROVE  /\ \A i \in 1..Len(exprs) : i \in 1..Len(exprs') /\ exprs'[i] = exprs[i]
           /\ \A i \in 1..Len(symbols) : i \in 1..Len(symbols') /\ symbols'[i] = symbols[i]
           /\ \A i \in 1..Len(statements) :
                 i \in 1..Len(statements') /\ statements'[i] = statements[i]
           /\ \A i \in 1..Len(functions) :
                 /\ i \in 1..Len(functions')
                 /\ functions'[i].returnType = functions[i].returnType
                 /\ DOMAIN functions'[i].parameters = DOMAIN functions[i].parameters
                 /\ \A k \in DOMAIN functions[i].parameters :
                       functions'[i].parameters[k].type = functions[i].parameters[k].type
           /\ \A i \in 1..Len(exprs') : i \in 1..Len(exprs) \/ i \in Added(exprs', exprs)
           /\ \A i \in 1..Len(symbols') : i \in 1..Len(symbols) \/ i \in Added(symbols', symbols)
           /\ \A i \in 1..Len(statements') :
                 i \in 1..Len(statements) \/ i \in Added(statements', statements)
           /\ \A i \in 1..Len(functions') :
                 i \in 1..Len(functions) \/ i \in Added(functions', functions)
<1>1. /\ exprs \in Seq(ExprEntry) /\ exprs' \in Seq(ExprEntry)
      /\ symbols \in Seq(SymbolEntry) /\ symbols' \in Seq(SymbolEntry)
      /\ statements \in Seq(StatementEntry) /\ statements' \in Seq(StatementEntry)
      /\ functions \in Seq(FunctionEntry) /\ functions' \in Seq(FunctionEntry)
  BY DEF BuilderInv, ModuleOK, SymbolsOK, StatementsOK, FunctionsOK, ExprsOK
<1>2. \A S : \A s \in Seq(S), t \in Seq(S) :
          IsPrefixOf(s, t) =>
              /\ \A i \in 1..Len(s) : i \in 1..Len(t) /\ t[i] = s[i]
              /\ \A i \in 1..Len(t) : i \in 1..Len(s) \/ i \in Added(t, s)
  BY DEF IsPrefixOf, Added
<1>3. /\ IsPrefixOf(exprs, exprs') /\ IsPrefixOf(symbols, symbols')
      /\ IsPrefixOf(statements, statements')
  BY DEF ModuleGrows
<1>4. /\ \A i \in 1..Len(exprs) : i \in 1..Len(exprs') /\ exprs'[i] = exprs[i]
      /\ \A i \in 1..Len(exprs') : i \in 1..Len(exprs) \/ i \in Added(exprs', exprs)
  BY <1>1, <1>2, <1>3, Zenon
<1>5. /\ \A i \in 1..Len(symbols) : i \in 1..Len(symbols') /\ symbols'[i] = symbols[i]
      /\ \A i \in 1..Len(symbols') : i \in 1..Len(symbols) \/ i \in Added(symbols', symbols)
  BY <1>1, <1>2, <1>3, Zenon
<1>6. /\ \A i \in 1..Len(statements) :
            i \in 1..Len(statements') /\ statements'[i] = statements[i]
      /\ \A i \in 1..Len(statements') :
            i \in 1..Len(statements) \/ i \in Added(statements', statements)
  BY <1>1, <1>2, <1>3, Zenon
<1>7. /\ Len(functions) <= Len(functions') /\ DOMAIN functions = 1..Len(functions)
      /\ \A i \in DOMAIN functions : FunctionGrows(functions[i], functions'[i])
  BY <1>1 DEF ModuleGrows, FunctionsGrow
<1>8. \A i \in 1..Len(functions) :
          /\ i \in 1..Len(functions')
          /\ functions'[i].returnType = functions[i].returnType
          /\ DOMAIN functions'[i].parameters = DOMAIN functions[i].parameters
          /\ \A k \in DOMAIN functions[i].parameters :
                functions'[i].parameters[k].type = functions[i].parameters[k].type
  BY <1>1, <1>7 DEF FunctionGrows
<1>9. \A i \in 1..Len(functions') :
          i \in 1..Len(functions) \/ i \in Added(functions', functions)
  BY <1>1 DEF Added
<1>10. QED
  BY <1>4, <1>5, <1>6, <1>8, <1>9, Zenon

LEMMA ExprStays ==
    ASSUME BuilderInv, BuilderInv', ModuleGrows, NEW i \in 1..Len(exprs),
           ExprAgrees(exprs[i], exprs, functions), KidsThere(exprs[i])
    PROVE  ExprAgrees(exprs[i], exprs', functions')
<1> DEFINE e == exprs[i]
<1>1. /\ e.kids \in Seq(1..(i - 1)) /\ (e.kind = "Call" => e.ref \in 0..Len(functions))
      /\ Len(functions) \in Nat /\ Len(exprs) \in Nat
  BY Lengths DEF BuilderInv, ModuleOK, ExprsOK, ExprOK
<1>2. /\ \A k \in DOMAIN e.kids : e.kids[k] \in 1..Len(exprs)
      /\ DOMAIN e.kids = 1..Len(e.kids)
  BY <1>1, SMTT(20)
<1>3. /\ \A k \in DOMAIN e.kids : exprs'[e.kids[k]] = exprs[e.kids[k]]
      /\ e.kind = "Call" /\ e.ref # Invalid => e.ref \in 1..Len(functions)
  BY <1>1, <1>2, TypesKept DEF Invalid
<1>4. /\ e.kind = "Assign" => 1 \in DOMAIN e.kids /\ 2 \in DOMAIN e.kids
      /\ e.kind = "ImplicitCast" => 1 \in DOMAIN e.kids
  <2>1. KidsThere(e) /\ DOMAIN e.kids = 1..Len(e.kids)
    BY <1>2
  <2> HIDE DEF e
  <2>2. /\ e.kind = "Assign" => Len(e.kids) = 2
        /\ e.kind = "ImplicitCast" => Len(e.kids) = 1
    BY <2>1 DEF KidsThere
  <2>3. ASSUME NEW n, DOMAIN e.kids = 1..n
        PROVE  (n = 2 => 1 \in DOMAIN e.kids /\ 2 \in DOMAIN e.kids) /\ (n = 1 => 1 \in DOMAIN e.kids)
    BY <2>3
  <2>4. QED
    BY <2>1, <2>2, <2>3, Zenon
<1>5. \A f \in 1..Len(functions) :
          /\ DOMAIN functions'[f].parameters = DOMAIN functions[f].parameters
          /\ \A k \in DOMAIN functions[f].parameters :
                functions'[f].parameters[k].type = functions[f].parameters[k].type
  BY TypesKept
<1> HIDE DEF e
<1>6. ExprAgrees(e, exprs, functions)
  BY DEF e
<1>7. ExprAgrees(e, exprs', functions')
  BY <1>3, <1>4, <1>5, <1>6 DEF ExprAgrees
<1>8. QED
  BY <1>7 DEF e

LEMMA DeclStays ==
    ASSUME BuilderInv, BuilderInv', ModuleGrows, NEW i \in 1..Len(statements),
           DeclAgrees(statements[i], symbols, exprs)
    PROVE  DeclAgrees(statements[i], symbols', exprs')
<1> DEFINE s == statements[i]
<1>1. s.kids \in Seq(1..Len(exprs)) /\ (s.kind = "VarDecl" => s.ref \in 1..Len(symbols))
  BY DEF BuilderInv, ModuleOK, StatementsOK, StatementOK
<1>2. \A k \in DOMAIN s.kids : s.kids[k] \in 1..Len(exprs)
  BY <1>1
<1>3. /\ \A k \in DOMAIN s.kids : exprs'[s.kids[k]] = exprs[s.kids[k]]
      /\ s.kind = "VarDecl" => symbols'[s.ref] = symbols[s.ref]
  BY <1>1, <1>2, TypesKept
<1> HIDE DEF s
<1>4. DeclAgrees(s, symbols, exprs)
  BY DEF s
<1>5. DeclAgrees(s, symbols', exprs')
  BY <1>3, <1>4, Zenon DEF DeclAgrees
<1>6. QED
  BY <1>5 DEF s

LEMMA FrameStays ==
    ASSUME BuilderInv, BuilderInv', ModuleGrows, diags \subseteq diags',
           NEW fr \in FramesNow, FrameSays(fr, symbols, functions, exprs, diags)
    PROVE  FrameSays(fr, symbols', functions', exprs', diags')
<1>1. fr \in Frames(Len(types), Len(symbols), Len(functions), Len(statements), Len(exprs))
  BY DEF FramesNow
<1>2. /\ fr.at = "arguments" => fr \in ArgumentFrames(Len(functions), Len(exprs))
      /\ fr.at = "initializer" => fr \in InitializerFrames(Len(types), Len(symbols))
      /\ fr.at = "rhs" => fr \in RhsFrames(Len(exprs))
      /\ fr.at = "operands" => fr \in FirstOperandFrames \cup OperandFrames(Len(exprs))
  BY <1>1, FramesAt, Zenon
<1>3. Len(functions) \in Nat /\ Len(exprs) \in Nat
  BY Lengths DEF BuilderInv
<1>4. /\ fr.at = "arguments" =>
            /\ \A k \in DOMAIN fr.args : fr.args[k] \in 1..Len(exprs)
            /\ fr.function # Invalid => fr.function \in 1..Len(functions)
      /\ fr.at = "initializer" => fr.symbol \in 1..Len(symbols)
      /\ fr.at = "rhs" => fr.lhs \in 1..Len(exprs)
      /\ fr.at = "operands" /\ fr.acc # Invalid => fr.acc \in 1..Len(exprs)
  <2>1. fr.at = "arguments" => fr.function \in 0..Len(functions) /\ fr.args \in Seq(1..Len(exprs))
    BY <1>2 DEF ArgumentFrames
  <2>2. fr.at = "arguments" => \A k \in DOMAIN fr.args : fr.args[k] \in 1..Len(exprs)
    BY <2>1
  <2>3. /\ fr.at = "initializer" => fr.symbol \in 1..Len(symbols)
        /\ fr.at = "rhs" => fr.lhs \in 1..Len(exprs)
    BY <1>2 DEF InitializerFrames, RhsFrames
  <2>4. fr.at = "operands" => fr.acc = Invalid \/ fr.acc \in 1..Len(exprs)
    BY <1>2 DEF FirstOperandFrames, OperandFrames
  <2>5. QED
    BY <1>3, <2>1, <2>2, <2>3, <2>4 DEF Invalid
<1>5. /\ \A i \in 1..Len(exprs) : exprs'[i] = exprs[i]
      /\ \A i \in 1..Len(symbols) : symbols'[i] = symbols[i]
      /\ \A f \in 1..Len(functions) :
            /\ DOMAIN functions'[f].parameters = DOMAIN functions[f].parameters
            /\ \A k \in DOMAIN functions[f].parameters :
                  functions'[f].parameters[k].type = functions[f].parameters[k].type
  BY TypesKept
<1>6. diags' = {} => diags = {}
  OBVIOUS
<1>7. QED
  BY <1>4, <1>5, <1>6 DEF FrameSays

LEMMA TypesStay ==
    ASSUME BuilderInv, BuilderInv', ModuleGrows, TypesInv, NewTyped, NewFrames, ResultClean'
    PROVE  TypesInv'
<1>1. /\ DOMAIN exprs = 1..Len(exprs) /\ DOMAIN exprs' = 1..Len(exprs')
      /\ DOMAIN symbols = 1..Len(symbols) /\ DOMAIN symbols' = 1..Len(symbols')
      /\ DOMAIN statements = 1..Len(statements) /\ DOMAIN statements' = 1..Len(statements')
      /\ DOMAIN functions = 1..Len(functions) /\ DOMAIN functions' = 1..Len(functions')
      /\ DOMAIN stack = 1..Len(stack) /\ DOMAIN stack' = 1..Len(stack')
      /\ \A j \in 1..Len(stack) : stack[j] \in FramesNow
  <2>1. ASSUME NEW s, NEW S, s \in Seq(S)
        PROVE  DOMAIN s = 1..Len(s) /\ \A j \in 1..Len(s) : s[j] \in S
    BY <2>1
  <2>2. /\ exprs \in Seq(ExprEntry) /\ exprs' \in Seq(ExprEntry)
        /\ symbols \in Seq(SymbolEntry) /\ symbols' \in Seq(SymbolEntry)
        /\ statements \in Seq(StatementEntry) /\ statements' \in Seq(StatementEntry)
        /\ functions \in Seq(FunctionEntry) /\ functions' \in Seq(FunctionEntry)
    BY DEF BuilderInv, ModuleOK, SymbolsOK, StatementsOK, FunctionsOK, ExprsOK
  <2>3. stack \in Seq(FramesNow) /\ stack' \in Seq(FramesNow')
    BY DEF BuilderInv, StackOK
  <2>4. QED
    BY <2>1, <2>2, <2>3, Zenon
<1>2. diags' = {} => diags = {}
  BY DEF NewTyped
<1>3. ASSUME NEW i \in DOMAIN exprs'
      PROVE  /\ ExprAgrees(exprs'[i], exprs', functions') /\ KidsThere(exprs'[i])
             /\ ExprClean(exprs'[i], diags')
  <2>1. CASE i \in 1..Len(exprs)
    <3>1. /\ exprs'[i] = exprs[i] /\ ExprAgrees(exprs[i], exprs, functions)
          /\ KidsThere(exprs[i]) /\ ExprClean(exprs[i], diags)
      BY <1>1, <2>1, TypesKept DEF TypesInv
    <3>2. ExprAgrees(exprs[i], exprs', functions')
      BY <2>1, <3>1, ExprStays
    <3>3. QED
      BY <1>2, <3>1, <3>2 DEF ExprClean
  <2>2. CASE i \in Added(exprs', exprs)
    BY <2>2 DEF NewTyped
  <2>3. QED
    BY <1>1, <2>1, <2>2, TypesKept
<1>4. ASSUME NEW i \in DOMAIN statements' PROVE DeclAgrees(statements'[i], symbols', exprs')
  <2>1. CASE i \in 1..Len(statements)
    <3>1. statements'[i] = statements[i] /\ DeclAgrees(statements[i], symbols, exprs)
      BY <1>1, <2>1, TypesKept DEF TypesInv
    <3>2. QED
      BY <2>1, <3>1, DeclStays
  <2>2. CASE i \in Added(statements', statements)
    BY <2>2 DEF NewTyped
  <2>3. QED
    BY <1>1, <2>1, <2>2, TypesKept
<1>5. ASSUME NEW i \in DOMAIN symbols' PROVE SymbolClean(symbols'[i], diags')
  <2>1. CASE i \in 1..Len(symbols)
    <3>1. symbols'[i] = symbols[i] /\ SymbolClean(symbols[i], diags)
      BY <1>1, <2>1, TypesKept DEF TypesInv
    <3>2. QED
      BY <1>2, <3>1 DEF SymbolClean
  <2>2. CASE i \in Added(symbols', symbols)
    BY <2>2 DEF NewTyped
  <2>3. QED
    BY <1>1, <2>1, <2>2, TypesKept
<1>6. ASSUME NEW i \in DOMAIN functions' PROVE FunctionClean(functions'[i], diags')
  <2>1. CASE i \in 1..Len(functions)
    <3>1. /\ functions'[i].returnType = functions[i].returnType
          /\ DOMAIN functions'[i].parameters = DOMAIN functions[i].parameters
          /\ \A k \in DOMAIN functions[i].parameters :
                functions'[i].parameters[k].type = functions[i].parameters[k].type
          /\ FunctionClean(functions[i], diags)
      BY <1>1, <2>1, TypesKept DEF TypesInv
    <3>2. QED
      BY <1>2, <3>1 DEF FunctionClean
  <2>2. CASE i \in Added(functions', functions)
    BY <2>2 DEF NewTyped
  <2>3. QED
    BY <1>1, <2>1, <2>2, TypesKept
<1>7. ASSUME NEW i \in DOMAIN stack'
      PROVE  FrameSays(stack'[i], symbols', functions', exprs', diags')
  <2>1. ASSUME NEW j \in DOMAIN stack, stack'[i] = stack[j]
        PROVE  FrameSays(stack'[i], symbols', functions', exprs', diags')
    <3>1. stack[j] \in FramesNow /\ FrameSays(stack[j], symbols, functions, exprs, diags)
      BY <1>1 DEF TypesInv
    <3>2. FrameSays(stack[j], symbols', functions', exprs', diags')
      BY <3>1, FrameStays DEF NewTyped
    <3>3. QED
      BY <2>1, <3>2
  <2>2. QED
    BY <2>1 DEF NewFrames
<1>8. QED
  BY <1>3, <1>4, <1>5, <1>6, <1>7, Zenon DEF TypesInv
-----------------------------------------------------------------------------
(* The ways in which a step changes the stack.                             *)
LEMMA PlainFrame ==
    ASSUME NEW fr,
           fr.at \notin {"arguments", "initializer", "declarators", "rhs", "operands"}
    PROVE  FrameSays(fr, symbols', functions', exprs', diags')
BY DEF FrameSays

LEMMA ReturnTyped ==
    ASSUME BuilderInv, NEW id, Return(id),
           Wants(Top) = "expr" /\ diags' = {} => exprs'[id].type # errorType
    PROVE  NewFrames /\ ResultClean'
<1>1. stack' = stack /\ returned' = id /\ Top' = Top
  BY DEF Return, Top
<1>2. QED
  BY <1>1 DEF NewFrames, ResultClean

LEMMA TailTyped ==
    ASSUME BuilderInv, call # Null, stack' = stack, returned' = returned
    PROVE  NewFrames /\ ResultClean'
<1>1. returned = Invalid
  BY CalledFacts
<1>2. QED
  BY <1>1 DEF NewFrames, ResultClean

LEMMA PushTyped ==
    ASSUME BuilderInv, call # Null, NEW fr, NEW node, CallFrom(fr, node),
           FrameSays(fr, symbols', functions', exprs', diags')
    PROVE  NewFrames /\ ResultClean'
<1>1. returned = Invalid /\ stack \in Seq(FramesNow)
  BY CalledFacts DEF BuilderInv, StackOK
<1>2. returned' = Invalid /\ stack' = Append(stack, fr)
  BY <1>1 DEF CallFrom
<1>3. /\ DOMAIN stack = 1..Len(stack) /\ DOMAIN stack' = 1..(Len(stack) + 1)
      /\ \A i \in 1..Len(stack) : stack'[i] = stack[i]
      /\ stack'[Len(stack) + 1] = fr /\ Len(stack) \in Nat
  BY <1>1, <1>2
<1>4. \A i \in DOMAIN stack' : i \in DOMAIN stack \/ i = Len(stack) + 1
  BY <1>3
<1>5. QED
  BY <1>2, <1>3, <1>4 DEF NewFrames, ResultClean

LEMMA ResumeTyped ==
    ASSUME BuilderInv, stack # << >>, NEW fr, NEW node, Resume(fr, node),
           FrameSays(fr, symbols', functions', exprs', diags')
    PROVE  NewFrames /\ ResultClean'
<1>1. /\ Below \in Seq(FramesNow) /\ Len(Below) = Len(stack) - 1 /\ Len(stack) \in Nat \ {0}
      /\ \A i \in 1..Len(Below) : Below[i] = stack[i]
      /\ stack \in Seq(FramesNow)
  BY TopFacts DEF BuilderInv, StackOK
<1>2. returned' = Invalid /\ stack' = Append(Below, fr)
  BY DEF Resume
<1>3. /\ DOMAIN stack = 1..Len(stack) /\ DOMAIN stack' = 1..Len(stack)
      /\ \A i \in 1..(Len(stack) - 1) : stack'[i] = stack[i]
      /\ stack'[Len(stack)] = fr
  BY <1>1, <1>2
<1>4. \A i \in DOMAIN stack' : i \in 1..(Len(stack) - 1) \/ i = Len(stack)
  BY <1>1, <1>3
<1>5. QED
  BY <1>2, <1>3, <1>4 DEF NewFrames, ResultClean

LEMMA LeaveTyped ==
    ASSUME BuilderInv, stack # << >>, NEW id, Leave(id),
           Gives(Top) = "expr" /\ diags' = {} => exprs'[id].type # errorType
    PROVE  NewFrames /\ ResultClean'
<1>1. /\ Below \in Seq(FramesNow) /\ Len(Below) = Len(stack) - 1 /\ Len(stack) \in Nat \ {0}
      /\ \A i \in 1..Len(Below) : Below[i] = stack[i]
      /\ stack \in Seq(FramesNow) /\ Linked(stack)
  BY TopFacts DEF BuilderInv, StackOK
<1>2. returned' = id /\ stack' = Below
  BY DEF Leave
<1>3. /\ DOMAIN stack = 1..Len(stack) /\ DOMAIN stack' = 1..(Len(stack) - 1)
      /\ Len(stack') = Len(stack) - 1
      /\ \A i \in 1..(Len(stack) - 1) : stack'[i] = stack[i]
  BY <1>1, <1>2
<1>4. NewFrames
  BY <1>1, <1>3 DEF NewFrames
<1>5. stack' # << >> => Gives(Top) = Wants(Top')
  <2>1. SUFFICES ASSUME stack' # << >> PROVE Gives(Top) = Wants(Top')
    OBVIOUS
  <2>2. Len(stack) \in 2..Len(stack)
    BY <1>1, <1>2, <1>3, <2>1, EmptySeq
  <2>3. Top' = stack[Len(stack) - 1]
    BY <1>3, <2>2 DEF Top
  <2>4. QED
    BY <1>1, <2>2, <2>3 DEF Linked, Top
<1>6. QED
  BY <1>2, <1>4, <1>5 DEF ResultClean

(* What a step that does not touch a part of the module adds to it.        *)
LEMMA NothingAdded ==
    ASSUME NEW S, NEW s \in Seq(S) PROVE Added(s, s) = {}
BY DEF Added

LEMMA OneAdded ==
    ASSUME NEW S, NEW s \in Seq(S), NEW x
    PROVE  /\ \A i \in Added(Append(s, x), s) : i = Len(s) + 1 /\ Append(s, x)[i] = x
           /\ \A i \in 1..Len(s) : Append(s, x)[i] = s[i]
           /\ Len(Append(s, x)) = Len(s) + 1 /\ Append(s, x)[Len(s) + 1] = x
BY DEF Added

LEMMA ModuleSeqs ==
    ASSUME BuilderInv
    PROVE  /\ exprs \in Seq(ExprEntry) /\ symbols \in Seq(SymbolEntry)
           /\ statements \in Seq(StatementEntry) /\ functions \in Seq(FunctionEntry)
           /\ Len(exprs) \in Nat /\ Len(symbols) \in Nat /\ Len(statements) \in Nat
           /\ Len(functions) \in Nat
           /\ Added(exprs, exprs) = {} /\ Added(symbols, symbols) = {}
           /\ Added(statements, statements) = {} /\ Added(functions, functions) = {}
<1>1. /\ exprs \in Seq(ExprEntry) /\ symbols \in Seq(SymbolEntry)
      /\ statements \in Seq(StatementEntry) /\ functions \in Seq(FunctionEntry)
  BY DEF BuilderInv, ModuleOK, SymbolsOK, StatementsOK, FunctionsOK, ExprsOK
<1>2. QED
  BY <1>1, NothingAdded, Lengths DEF BuilderInv

LEMMA QuietTyped ==
    ASSUME BuilderInv, UNCHANGED arena, diags \subseteq diags' PROVE NewTyped
BY ModuleSeqs DEF NewTyped, arena

(* The kinds of statement and expression about which there is nothing to   *)
(* say.                                                                    *)
LEMMA OtherExpr ==
    ASSUME NEW e, e.kind \notin {"Assign", "ImplicitCast", "Call"}, NEW xs, NEW gs
    PROVE  ExprAgrees(e, xs, gs) /\ KidsThere(e)
BY DEF ExprAgrees, KidsThere

LEMMA OtherDecl ==
    ASSUME NEW s, s.kind # "VarDecl", NEW ys, NEW xs
    PROVE  DeclAgrees(s, ys, xs)
BY DEF DeclAgrees

LEMMA ExprsTyped ==
    ASSUME BuilderInv, AddsExpr, diags \subseteq diags',
           \A i \in Added(exprs', exprs) :
               /\ ExprAgrees(exprs'[i], exprs', functions') /\ KidsThere(exprs'[i])
               /\ ExprClean(exprs'[i], diags')
    PROVE  NewTyped
BY ModuleSeqs DEF NewTyped, AddsExpr

LEMMA OneExprTyped ==
    ASSUME BuilderInv, AddsExpr, diags \subseteq diags', NEW e, exprs' = Append(exprs, e),
           ExprAgrees(e, exprs', functions'), KidsThere(e), ExprClean(e, diags')
    PROVE  NewTyped
BY ModuleSeqs, OneAdded, ExprsTyped
-----------------------------------------------------------------------------
(* The steps that build expressions.                                       *)
LEMMA TopSays ==
    ASSUME BuilderInv, TypesInv, stack # << >>
    PROVE  FrameSays(Top, symbols, functions, exprs, diags)
<1>1. stack \in Seq(FramesNow) /\ Len(stack) \in Nat \ {0}
  BY TopFacts DEF BuilderInv, StackOK
<1>2. Len(stack) \in DOMAIN stack
  BY <1>1
<1>3. QED
  BY <1>2, Zenon DEF TypesInv, Top

(* A value that has been converted agrees with the type it is meant for,   *)
(* and the conversion is one.                                              *)
LEMMA CastTyped ==
    ASSUME BuilderInv, NEW id \in 1..Len(exprs), NEW target, NEW cast,
           cast = WithCast(id, target), NEW xs,
           \A i \in 1..Len(cast) : xs[i] = cast[i]
    PROVE  /\ \A i \in 1..Len(exprs) : i \in 1..Len(cast) /\ cast[i] = exprs[i]
           /\ Len(cast) \in Nat /\ Len(exprs) <= Len(cast) /\ CastTo(id, target) \in 1..Len(cast)
           /\ cast \in Seq(ExprEntry \cup {Expr("ImplicitCast", target, <<id>>, Invalid, << >>)})
           /\ Agree(xs[CastTo(id, target)].type, target)
           /\ \A gs, ds : \A i \in Added(cast, exprs) :
                 ExprAgrees(cast[i], xs, gs) /\ KidsThere(cast[i]) /\ ExprClean(cast[i], ds)
<1> DEFINE e == Expr("ImplicitCast", target, <<id>>, Invalid, << >>)
<1>1. exprs \in Seq(ExprEntry) /\ Len(exprs) \in Nat /\ Added(exprs, exprs) = {}
  BY ModuleSeqs
<1>2. e.kind = "ImplicitCast" /\ e.type = target /\ Len(e.kids) = 1 /\ e.kids[1] = id
  BY DEF Expr
<1>3. CASE ~NeedsCast(id, target)
  <2>1. cast = exprs /\ CastTo(id, target) = id
    BY <1>3 DEF WithCast, CastTo
  <2>2. Agree(exprs[id].type, target)
    BY <1>3 DEF NeedsCast, Agree
  <2>3. xs[id] = exprs[id]
    BY <2>1
  <2>4. exprs \in Seq(ExprEntry \cup {e})
    BY <1>1
  <2> HIDE DEF e
  <2>5. QED
    BY <1>1, <2>1, <2>2, <2>3, <2>4 DEF e
<1>4. CASE NeedsCast(id, target)
  <2>1. cast = Append(exprs, e) /\ CastTo(id, target) = Len(exprs) + 1
    BY <1>4 DEF WithCast, CastTo
  <2>2. ~Agree(exprs[id].type, target) /\ target # errorType
    BY <1>4 DEF NeedsCast, Agree
  <2> HIDE DEF e
  <2>3. exprs \in Seq(ExprEntry \cup {e})
    BY <1>1
  <2>4. cast \in Seq(ExprEntry \cup {e})
    BY <2>1, <2>3
  <2>5. /\ \A i \in Added(cast, exprs) : i = Len(exprs) + 1 /\ cast[i] = e
        /\ \A i \in 1..Len(exprs) : cast[i] = exprs[i]
        /\ Len(cast) = Len(exprs) + 1 /\ cast[Len(exprs) + 1] = e
    BY <1>1, <2>1, OneAdded
  <2>6. xs[id] = exprs[id] /\ xs[Len(exprs) + 1] = e
    BY <1>1, <2>5
  <2>7. Agree(xs[CastTo(id, target)].type, target)
    BY <1>2, <2>1, <2>6 DEF Agree
  <2>8. ASSUME NEW gs, NEW ds
        PROVE  ExprAgrees(e, xs, gs) /\ KidsThere(e) /\ ExprClean(e, ds)
    BY <1>2, <2>2, <2>6 DEF ExprAgrees, KidsThere, ExprClean
  <2>9. CastTo(id, target) \in 1..Len(cast) /\ Len(exprs) <= Len(cast) /\ Len(cast) \in Nat
    BY <1>1, <2>1, <2>5
  <2>10. \A i \in 1..Len(exprs) : i \in 1..Len(cast)
    BY <1>1, <2>5
  <2>11. QED
    BY <2>4, <2>5, <2>7, <2>8, <2>9, <2>10 DEF e
<1>5. QED
  BY <1>3, <1>4

LEMMA RhsClean ==
    ASSUME BuilderInv, TypesInv, At("rhs")
    PROVE  diags = {} => exprs[Top.lhs].type # errorType
<1>1. stack # << >> /\ Top.at = "rhs"
  BY DEF At
<1>2. QED
  BY <1>1, TopSays DEF FrameSays

(* The value that has been returned, if nothing has been reported.         *)
LEMMA ReturnedClean ==
    ASSUME BuilderInv, TypesInv,
           NEW point \in {"initializer", "exprStat", "return", "lhs", "rhs", "ternary",
                          "operands", "arguments"},
           At(point), returned # Invalid
    PROVE  diags = {} => exprs[returned].type # errorType
<1>1. stack # << >> /\ Wants(Top) = "expr"
  BY DEF At, Wants
<1>2. QED
  BY <1>1 DEF TypesInv, ResultClean

LEMMA AssignTyped ==
    ASSUME BuilderInv, TypesInv, Assign
    PROVE  NewTyped /\ NewFrames /\ ResultClean'
<1> DEFINE target == exprs[Top.lhs].type
           cast == WithCast(returned, target)
           id == CastTo(returned, target)
           e == Expr("Assign", target, <<Top.lhs, id>>, Invalid, <<"=">>)
<1>1. /\ At("rhs") /\ AddsExpr /\ diags' = diags /\ Leave(Len(cast) + 1)
      /\ exprs' = Append(cast, e)
  BY DEF Assign, Assignment
<1>2. /\ returned \in 1..Len(exprs) /\ Top.lhs \in 1..Len(exprs) /\ Len(exprs) \in Nat
      /\ stack # << >>
  BY <1>1, RhsFound DEF At
<1>3. e.kind = "Assign" /\ e.type = target /\ Len(e.kids) = 2 /\ e.kids[1] = Top.lhs
      /\ e.kids[2] = id
  BY DEF Expr
<1>4. diags = {} => target # errorType
  BY <1>1, RhsClean
<1> HIDE DEF e, cast, id
<1>5. Len(cast) \in Nat /\ cast \in Seq(ExprEntry \cup
          {Expr("ImplicitCast", target, <<returned>>, Invalid, << >>)})
  BY <1>2, CastTyped DEF cast
<1>6. /\ \A i \in 1..Len(cast) : exprs'[i] = cast[i]
      /\ Len(exprs') = Len(cast) + 1 /\ exprs'[Len(cast) + 1] = e
  BY <1>1, <1>5, OneAdded
<1>7. /\ \A i \in 1..Len(exprs) : i \in 1..Len(cast) /\ cast[i] = exprs[i]
      /\ Agree(exprs'[id].type, target)
      /\ \A i \in Added(cast, exprs) :
            /\ ExprAgrees(cast[i], exprs', functions') /\ KidsThere(cast[i])
            /\ ExprClean(cast[i], diags')
  <2>1. cast = WithCast(returned, target) /\ id = CastTo(returned, target)
    BY DEF cast, id
  <2>2. /\ returned \in 1..Len(exprs)
        /\ \A i \in 1..Len(cast) : exprs'[i] = cast[i]
    BY <1>2, <1>6
  <2> HIDE DEF target
  <2>3. QED
    BY <2>1, <2>2, CastTyped, ZenonT(60)
<1>8. exprs'[Top.lhs].type = target
  BY <1>2, <1>6, <1>7
<1>9. ExprAgrees(e, exprs', functions') /\ KidsThere(e) /\ ExprClean(e, diags')
  BY <1>1, <1>3, <1>4, <1>7, <1>8 DEF ExprAgrees, KidsThere, ExprClean
<1>10. \A i \in Added(exprs', exprs) :
          i = Len(cast) + 1 \/ (i \in Added(cast, exprs) /\ exprs'[i] = cast[i])
  <2>1. Len(exprs) \in Nat /\ Len(cast) \in Nat /\ Len(exprs') = Len(cast) + 1
    BY <1>2, <1>5, <1>6
  <2>2. \A i \in 1..Len(cast) : exprs'[i] = cast[i]
    BY <1>6
  <2>3. QED
    BY <2>1, <2>2, SMTT(20) DEF Added
<1>11. NewTyped
  BY <1>1, <1>6, <1>7, <1>9, <1>10, ExprsTyped
<1>12. NewFrames /\ ResultClean'
  BY <1>1, <1>2, <1>3, <1>4, <1>6, LeaveTyped
<1>13. QED
  BY <1>11, <1>12

LEMMA CompoundAssignTyped ==
    ASSUME BuilderInv, TypesInv, CompoundAssign
    PROVE  NewTyped /\ NewFrames /\ ResultClean'
<1> DEFINE target == exprs[Top.lhs].type
           value == Expr("Binary", target, <<Top.lhs, returned>>, Invalid,
                         <<OperatorOf(Top.op)>>)
           e == Expr("Assign", target, <<Top.lhs, Len(exprs) + 1>>, Invalid, <<"=">>)
<1>1. /\ At("rhs") /\ AddsExpr /\ diags' = diags /\ Leave(Len(exprs) + 2)
      /\ exprs' = exprs \o <<value, e>>
  BY DEF CompoundAssign, Assignment
<1>2. /\ returned \in 1..Len(exprs) /\ Top.lhs \in 1..Len(exprs) /\ Len(exprs) \in Nat
      /\ stack # << >> /\ exprs \in Seq(ExprEntry)
  BY <1>1, RhsFound, ModuleSeqs DEF At
<1>3. /\ e.kind = "Assign" /\ e.type = target /\ Len(e.kids) = 2 /\ e.kids[1] = Top.lhs
      /\ e.kids[2] = Len(exprs) + 1
      /\ value.kind = "Binary" /\ value.type = target
  BY DEF Expr
<1>4. diags = {} => target # errorType
  BY <1>1, RhsClean
<1> HIDE DEF e, value, target
<1>5. /\ \A i \in 1..Len(exprs) : exprs'[i] = exprs[i]
      /\ Len(exprs') = Len(exprs) + 2
      /\ exprs'[Len(exprs) + 1] = value /\ exprs'[Len(exprs) + 2] = e
  BY <1>1, <1>2
<1>6. exprs'[Top.lhs].type = target /\ exprs'[Len(exprs) + 1].type = target
  BY <1>2, <1>3, <1>5 DEF target
<1>7. ExprAgrees(e, exprs', functions') /\ KidsThere(e) /\ ExprClean(e, diags')
  BY <1>1, <1>3, <1>4, <1>6 DEF ExprAgrees, KidsThere, ExprClean, Agree
<1>8. ExprAgrees(value, exprs', functions') /\ KidsThere(value) /\ ExprClean(value, diags')
  BY <1>1, <1>3, <1>4, OtherExpr DEF ExprClean
<1>9. \A i \in Added(exprs', exprs) : i = Len(exprs) + 1 \/ i = Len(exprs) + 2
  BY <1>2, <1>5 DEF Added
<1>10. NewTyped
  BY <1>1, <1>5, <1>7, <1>8, <1>9, ExprsTyped
<1>11. NewFrames /\ ResultClean'
  BY <1>1, <1>2, <1>3, <1>4, <1>5, LeaveTyped
<1>12. QED
  BY <1>10, <1>11
(* Only the first of the built-in types is the error type.                 *)
LEMMA BuiltinClean ==
    /\ voidType # errorType /\ BuiltinType("bool") # errorType
    /\ \A name \in Keywords : BuiltinType(name) # errorType
<1>1. ASSUME NEW name, NEW t \in 1..17, name = Builtins[t], name # Builtins[1]
      PROVE  BuiltinType(name) # errorType
  <2>1. Len(Builtins) = 17
    BY BuiltinTypes
  <2>2. Builtins[BuiltinType(name)] = name
    BY <1>1, <2>1, Zenon DEF BuiltinType
  <2>3. QED
    BY <1>1, <2>2 DEF errorType
<1>2. /\ Builtins[1] = "<error>" /\ Builtins[2] = "void" /\ Builtins[3] = "bool"
      /\ Len(Builtins) = 17
  BY DEF Builtins
<1>3. voidType # errorType
  BY <1>1, <1>2 DEF voidType
<1>4. BuiltinType("bool") # errorType
  BY <1>1, <1>2
<1>5. ASSUME NEW name \in Keywords PROVE BuiltinType(name) # errorType
  <2>1. PICK t \in 1..17 : name = Builtins[t]
    BY <1>2 DEF Keywords
  <2>2. name # Builtins[1]
    BY <1>2 DEF Keywords
  <2>3. QED
    BY <1>1, <2>1, <2>2
<1>6. QED
  BY <1>3, <1>4, <1>5

LEMMA BuildAssignTyped ==
    ASSUME BuilderInv, TypesInv, BuildAssign
    PROVE  NewTyped /\ NewFrames /\ ResultClean'
<1>1. call # Null /\ UNCHANGED arena /\ diags' = diags
  BY CalledIs DEF BuildAssign
<1>2. NewTyped
  BY <1>1, QuietTyped
<1>3. CASE call.rhs = Null
  <2>1. stack' = stack /\ returned' = returned
    BY <1>3 DEF BuildAssign, TailCall
  <2>2. QED
    BY <1>1, <1>2, <2>1, TailTyped
<1>4. CASE call.rhs # Null
  <2> DEFINE fr == [at |-> "lhs", op |-> call.op, rhs |-> call.rhs]
  <2>1. CallFrom(fr, call.condition)
    BY <1>4 DEF BuildAssign
  <2>2. FrameSays(fr, symbols', functions', exprs', diags')
    BY PlainFrame
  <2> HIDE DEF fr
  <2>3. QED
    BY <1>1, <1>2, <2>1, <2>2, PushTyped
<1>5. QED
  BY <1>3, <1>4

LEMMA BuildRhsTyped ==
    ASSUME BuilderInv, TypesInv, BuildRhs
    PROVE  NewTyped /\ NewFrames /\ ResultClean'
<1> DEFINE fr == [at |-> "rhs", op |-> Top.op, lhs |-> returned]
<1>1. /\ At("lhs") /\ Resume(fr, Top.rhs) /\ UNCHANGED arena /\ diags' = diags
      /\ exprs' = exprs
  BY DEF BuildRhs, arena
<1>2. stack # << >> /\ returned \in 1..Len(exprs) /\ Len(exprs) \in Nat
  BY <1>1, AtFacts, ModuleSeqs DEF Settled, Wants, IdsFor
<1>3. diags = {} => exprs[returned].type # errorType
  BY <1>1, <1>2, ReturnedClean DEF Invalid
<1>4. fr.at = "rhs" /\ fr.lhs = returned
  OBVIOUS
<1> HIDE DEF fr
<1>5. FrameSays(fr, symbols', functions', exprs', diags')
  BY <1>1, <1>3, <1>4 DEF FrameSays
<1>6. QED
  BY <1>1, <1>2, <1>5, ResumeTyped, QuietTyped

LEMMA BuildConditionTyped ==
    ASSUME BuilderInv, TypesInv, BuildCondition
    PROVE  NewTyped /\ NewFrames /\ ResultClean'
<1>1. call # Null /\ UNCHANGED arena /\ diags' = diags
  BY CalledIs DEF BuildCondition
<1>2. NewTyped
  BY <1>1, QuietTyped
<1>3. CASE call.thenExpr = Null
  <2>1. stack' = stack /\ returned' = returned
    BY <1>3 DEF BuildCondition, TailCall
  <2>2. QED
    BY <1>1, <1>2, <2>1, TailTyped
<1>4. CASE call.thenExpr # Null
  <2> DEFINE fr == [at |-> "ternary"]
  <2>1. CallFrom(fr, call.expr)
    BY <1>4 DEF BuildCondition
  <2>2. FrameSays(fr, symbols', functions', exprs', diags')
    BY PlainFrame
  <2> HIDE DEF fr
  <2>3. QED
    BY <1>1, <1>2, <2>1, <2>2, PushTyped
<1>5. QED
  BY <1>3, <1>4

(* An error expression, for which there is a report or none.               *)
LEMMA ErrorExprTyped ==
    ASSUME BuilderInv, AddsExpr, diags \subseteq diags', exprs' = Append(exprs, ErrorExpr)
    PROVE  NewTyped
<1>1. ErrorExpr.kind = "Error"
  BY DEF ErrorExpr, Expr
<1>2. ExprAgrees(ErrorExpr, exprs', functions') /\ KidsThere(ErrorExpr)
  BY <1>1, OtherExpr
<1>3. ExprClean(ErrorExpr, diags')
  BY <1>1 DEF ExprClean
<1>4. QED
  BY <1>2, <1>3, OneExprTyped

LEMMA EndTernaryTyped ==
    ASSUME BuilderInv, TypesInv, EndTernary
    PROVE  NewTyped /\ NewFrames /\ ResultClean'
<1>1. /\ stack # << >> /\ Leave(Len(exprs) + 1) /\ AddsExpr /\ diags \subseteq diags'
      /\ diags' # {} /\ exprs' = Append(exprs, ErrorExpr)
  BY DEF EndTernary, At, MakeErrorExpr, Report
<1>2. QED
  BY <1>1, ErrorExprTyped, LeaveTyped

LEMMA BuildExprTyped ==
    ASSUME BuilderInv, TypesInv, BuildExpr
    PROVE  NewTyped /\ NewFrames /\ ResultClean'
<1>1. call # Null /\ UNCHANGED arena /\ diags' = diags
  BY CalledIs DEF BuildExpr
<1>2. NewTyped
  BY <1>1, QuietTyped
<1>3. CASE call.rest = << >>
  <2>1. stack' = stack /\ returned' = returned
    BY <1>3 DEF BuildExpr, TailCall
  <2>2. QED
    BY <1>1, <1>2, <2>1, TailTyped
<1>4. CASE call.rest # << >>
  <2> DEFINE fr == [at |-> "operands", acc |-> Invalid, op |-> "", rest |-> call.rest]
  <2>1. CallFrom(fr, call.first)
    BY <1>4 DEF BuildExpr
  <2>2. FrameSays(fr, symbols', functions', exprs', diags')
    BY DEF FrameSays
  <2> HIDE DEF fr
  <2>3. QED
    BY <1>1, <1>2, <2>1, <2>2, PushTyped
<1>5. QED
  BY <1>3, <1>4

LEMMA TakeOperandTyped ==
    ASSUME BuilderInv, TypesInv, TakeOperand
    PROVE  NewTyped /\ NewFrames /\ ResultClean'
<1>1. At("operands") /\ AddsExpr /\ diags' = diags
  BY DEF TakeOperand
<1>2. /\ stack # << >> /\ Top.at = "operands" /\ returned \in 1..Len(exprs)
      /\ Top \in FirstOperandFrames \cup OperandFrames(Len(exprs))
      /\ Len(exprs) \in Nat /\ exprs \in Seq(ExprEntry)
  BY <1>1, AtFacts, FramesAt, ModuleSeqs DEF Settled, Wants, IdsFor
<1>3. diags = {} => exprs[returned].type # errorType
  BY <1>1, <1>2, ReturnedClean DEF Invalid
<1> DEFINE acc == IF Top.op = "" THEN returned ELSE Len(exprs) + 1
           fr == [at |-> "operands", acc |-> acc, op |-> Head(Top.rest).op, rest |-> Tail(Top.rest)]
<1>4. NewTyped /\ (diags' = {} => exprs'[acc].type # errorType)
  <2>1. CASE Top.op = ""
    <3>1. exprs' = exprs /\ acc = returned
      BY <2>1 DEF TakeOperand
    <3> HIDE DEF acc
    <3>2. NewTyped
      BY <1>1, <3>1, QuietTyped DEF AddsExpr, arena
    <3>3. QED
      BY <1>1, <1>3, <3>1, <3>2
  <2>2. CASE Top.op # ""
    <3> DEFINE type == IF Top.op \in ComparisonOps THEN BuiltinType("bool") ELSE exprs[Top.acc].type
               e == Expr("Binary", type, <<Top.acc, returned>>, Invalid, <<Top.op>>)
    <3>1. Top.acc # Invalid
      <4>1. Top \notin FirstOperandFrames
        BY <2>2 DEF FirstOperandFrames
      <4>2. Top.acc \in 1..Len(exprs)
        BY <1>2, <4>1 DEF OperandFrames
      <4>3. QED
        BY <1>2, <4>2 DEF Invalid
    <3>2. diags = {} => type # errorType
      BY <1>2, <3>1, TopSays, BuiltinClean DEF FrameSays
    <3>3. e.kind = "Binary" /\ e.type = type
      BY DEF Expr
    <3>4. exprs' = Append(exprs, e) /\ acc = Len(exprs) + 1
      BY <2>2 DEF TakeOperand
    <3> HIDE DEF e, type, acc
    <3>5. exprs'[acc] = e
      BY <1>2, <3>4, OneAdded
    <3>6. ExprAgrees(e, exprs', functions') /\ KidsThere(e) /\ ExprClean(e, diags')
      BY <1>1, <3>2, <3>3, OtherExpr DEF ExprClean
    <3>7. NewTyped
      BY <1>1, <3>4, <3>6, OneExprTyped
    <3>8. QED
      BY <1>1, <3>2, <3>3, <3>5, <3>7
  <2>3. QED
    BY <2>1, <2>2
<1>5. CASE Top.rest = << >>
  <2>1. Leave(acc)
    BY <1>5 DEF TakeOperand
  <2> HIDE DEF acc
  <2>2. QED
    BY <1>2, <1>4, <2>1, LeaveTyped
<1>6. CASE Top.rest # << >>
  <2>1. Resume(fr, Head(Top.rest).term)
    BY <1>6 DEF TakeOperand
  <2>2. fr.at = "operands" /\ fr.acc = acc
    OBVIOUS
  <2> HIDE DEF fr, acc
  <2>3. FrameSays(fr, symbols', functions', exprs', diags')
    BY <1>4, <2>2 DEF FrameSays
  <2>4. QED
    BY <1>2, <1>4, <2>1, <2>3, ResumeTyped
<1>7. QED
  BY <1>5, <1>6

LEMMA BuildExprTermTyped ==
    ASSUME BuilderInv, TypesInv, BuildExprTerm
    PROVE  NewTyped /\ NewFrames /\ ResultClean'
<1>1. /\ call # Null /\ UNCHANGED arena /\ diags \subseteq diags'
      /\ stack' = stack /\ returned' = returned
  BY CalledIs DEF BuildExprTerm, Report, TailCall
<1>2. QED
  BY <1>1, QuietTyped, TailTyped

LEMMA BuildOtherValueTyped ==
    ASSUME BuilderInv, TypesInv, BuildOtherValue
    PROVE  NewTyped /\ NewFrames /\ ResultClean'
<1>1. /\ Return(Len(exprs) + 1) /\ AddsExpr /\ diags \subseteq diags'
      /\ diags' # {} /\ exprs' = Append(exprs, ErrorExpr)
  BY DEF BuildOtherValue, MakeErrorExpr, Report
<1>2. QED
  BY <1>1, ErrorExprTyped, ReturnTyped

(* An expression of a type that is none but if something has been reported,*)
(* and of which there is nothing else to say.                              *)
LEMMA ValueTyped ==
    ASSUME BuilderInv, AddsExpr, diags' = diags, Return(Len(exprs) + 1),
           NEW e, exprs' = Append(exprs, e), e.kind \notin {"Assign", "ImplicitCast", "Call"},
           diags = {} => e.type # errorType
    PROVE  NewTyped /\ NewFrames /\ ResultClean'
<1>1. exprs'[Len(exprs) + 1] = e
  BY ModuleSeqs, OneAdded
<1>2. ExprAgrees(e, exprs', functions') /\ KidsThere(e) /\ ExprClean(e, diags')
  BY OtherExpr DEF ExprClean
<1>3. NewTyped
  BY <1>2, OneExprTyped
<1>4. QED
  BY <1>1, <1>3, ReturnTyped

LEMMA BuildLiteralTyped ==
    ASSUME BuilderInv, TypesInv, BuildLiteral
    PROVE  NewTyped /\ NewFrames /\ ResultClean'
<1> DEFINE type == LiteralType(call.text)
           e == Expr("Literal", type, << >>, Invalid, call.text)
<1>1. Return(Len(exprs) + 1) /\ AddsExpr
  BY DEF BuildLiteral
<1>2. CASE type = errorType
  <2>1. diags \subseteq diags' /\ diags' # {} /\ exprs' = Append(exprs, ErrorExpr)
    BY <1>2 DEF BuildLiteral, MakeErrorExpr, Report
  <2>2. QED
    BY <1>1, <2>1, ErrorExprTyped, ReturnTyped
<1>3. CASE type # errorType
  <2>1. exprs' = Append(exprs, e) /\ diags' = diags
    BY <1>3 DEF BuildLiteral
  <2>2. e.kind = "Literal" /\ e.type = type
    BY DEF Expr
  <2> HIDE DEF e, type
  <2>3. QED
    BY <1>1, <1>3, <2>1, <2>2, ValueTyped
<1>4. QED
  BY <1>2, <1>3

LEMMA BuildVarAccessTyped ==
    ASSUME BuilderInv, TypesInv, BuildVarAccess
    PROVE  NewTyped /\ NewFrames /\ ResultClean'
<1> DEFINE id == Lookup(call.name)
           e == Expr("SymbolRef", symbols[id].type, << >>, id, << >>)
<1>1. Return(Len(exprs) + 1) /\ AddsExpr
  BY DEF BuildVarAccess
<1>2. CASE id = Invalid
  <2>1. diags \subseteq diags' /\ diags' # {} /\ exprs' = Append(exprs, ErrorExpr)
    BY <1>2 DEF BuildVarAccess, MakeErrorExpr, Report
  <2>2. QED
    BY <1>1, <2>1, ErrorExprTyped, ReturnTyped
<1>3. CASE id # Invalid
  <2>1. exprs' = Append(exprs, e) /\ diags' = diags
    BY <1>3 DEF BuildVarAccess
  <2>2. e.kind = "SymbolRef" /\ e.type = symbols[id].type
    BY DEF Expr
  <2>3. id \in 0..Len(symbols)
    BY LookupFinds DEF BuilderInv
  <2> HIDE DEF e, id
  <2>4. id \in DOMAIN symbols
    BY <1>3, <2>3, ModuleSeqs DEF Invalid
  <2>5. diags = {} => symbols[id].type # errorType
    BY <2>4 DEF TypesInv, SymbolClean
  <2>6. QED
    BY <1>1, <2>1, <2>2, <2>5, ValueTyped
<1>4. QED
  BY <1>2, <1>3

LEMMA BuildFuncCallTyped ==
    ASSUME BuilderInv, TypesInv, BuildFuncCall
    PROVE  NewTyped /\ NewFrames /\ ResultClean'
<1> DEFINE f == Callee(call.name)
           fr == [at |-> "arguments", function |-> f, rest |-> call.args, args |-> << >>]
<1>1. /\ call # Null /\ UNCHANGED arena /\ diags \subseteq diags' /\ CallFrom(fr, Null)
      /\ f = Invalid => diags' # {}
  BY CalledIs DEF BuildFuncCall, Report
<1>2. fr.at = "arguments" /\ fr.function = f /\ fr.args = << >>
  OBVIOUS
<1> HIDE DEF fr, f
<1>3. FrameSays(fr, symbols', functions', exprs', diags')
  BY <1>1, <1>2 DEF FrameSays
<1>4. QED
  BY <1>1, <1>3, QuietTyped, PushTyped

(* The arguments that a call has got.                                      *)
LEMMA ArgumentsSay ==
    ASSUME BuilderInv, TypesInv, At("arguments")
    PROVE  /\ Top.function # Invalid =>
                 \A k \in DOMAIN Top.args \cap DOMAIN functions[Top.function].parameters :
                     Agree(exprs[Top.args[k]].type, functions[Top.function].parameters[k].type)
           /\ diags = {} => Top.function # Invalid
<1>1. stack # << >> /\ Top.at = "arguments"
  BY DEF At
<1>2. QED
  BY <1>1, TopSays DEF FrameSays

(* One more argument, of a type that agrees, in a module that has grown.   *)
LEMMA MoreArguments ==
    ASSUME BuilderInv, TypesInv, At("arguments"), functions' = functions, diags' = diags,
           \A i \in 1..Len(exprs) : exprs'[i] = exprs[i],
           NEW id, NEW fr, fr.at = "arguments", fr.function = Top.function,
           fr.args = Append(Top.args, id),
           Top.function # Invalid
               /\ Len(Top.args) + 1 \in DOMAIN functions[Top.function].parameters
               => Agree(exprs'[id].type,
                        functions[Top.function].parameters[Len(Top.args) + 1].type)
    PROVE  FrameSays(fr, symbols', functions', exprs', diags')
<1>1. Top.args \in Seq(1..Len(exprs))
  BY ArgumentsFound
<1>2. /\ DOMAIN fr.args = 1..(Len(Top.args) + 1) /\ Len(Top.args) \in Nat
      /\ DOMAIN Top.args = 1..Len(Top.args)
      /\ \A k \in 1..Len(Top.args) : fr.args[k] = Top.args[k] /\ Top.args[k] \in 1..Len(exprs)
      /\ fr.args[Len(Top.args) + 1] = id
  <2>1. \A k \in 1..Len(Top.args) : Top.args[k] \in 1..Len(exprs)
    BY <1>1
  <2>2. DOMAIN fr.args = 1..(Len(Top.args) + 1)
    BY <1>1
  <2>3. QED
    BY <1>1, <2>1, <2>2, OneAdded
<1>3. ASSUME fr.function # Invalid,
             NEW k \in DOMAIN fr.args \cap DOMAIN functions[fr.function].parameters
      PROVE  Agree(exprs'[fr.args[k]].type, functions[fr.function].parameters[k].type)
  <2>1. CASE k \in 1..Len(Top.args)
    <3>1. exprs'[fr.args[k]] = exprs[Top.args[k]]
      BY <1>2, <2>1
    <3>2. Agree(exprs[Top.args[k]].type, functions[Top.function].parameters[k].type)
      BY <1>2, <1>3, <2>1, ArgumentsSay
    <3>3. QED
      BY <3>1, <3>2
  <2>2. CASE k = Len(Top.args) + 1
    BY <1>2, <1>3, <2>2
  <2>3. QED
    BY <1>2, <1>3, <2>1, <2>2
<1>4. diags' = {} => fr.function # Invalid
  BY ArgumentsSay
<1>5. QED
  BY <1>3, <1>4 DEF FrameSays

LEMMA NextArgumentTyped ==
    ASSUME BuilderInv, TypesInv, NextArgument
    PROVE  NewTyped /\ NewFrames /\ ResultClean'
<1>1. At("arguments") /\ AddsExpr /\ diags' = diags /\ functions' = functions
  BY DEF NextArgument, AddsExpr
<1>2. stack # << >> /\ Top.at = "arguments"
  BY <1>1 DEF At
<1>3. CASE Head(Top.rest) = Null
  <2> DEFINE fr == [at |-> "arguments", function |-> Top.function, rest |-> Tail(Top.rest),
                    args |-> Append(Top.args, Len(exprs) + 1)]
  <2>1. exprs' = Append(exprs, ErrorExpr) /\ Resume(fr, Null)
    BY <1>3 DEF NextArgument
  <2>2. fr.at = "arguments" /\ fr.function = Top.function
        /\ fr.args = Append(Top.args, Len(exprs) + 1)
    OBVIOUS
  <2> HIDE DEF fr
  <2>3. (\A i \in 1..Len(exprs) : exprs'[i] = exprs[i]) /\ exprs'[Len(exprs) + 1] = ErrorExpr
    BY <2>1, ModuleSeqs, OneAdded
  <2>4. \A t : Agree(exprs'[Len(exprs) + 1].type, t)
    BY <2>3 DEF Agree, ErrorExpr, Expr
  <2>5. FrameSays(fr, symbols', functions', exprs', diags')
    BY <1>1, <2>2, <2>3, <2>4, MoreArguments
  <2>6. NewTyped
    BY <1>1, <2>1, ErrorExprTyped
  <2>7. QED
    BY <1>2, <2>1, <2>5, <2>6, ResumeTyped
<1>4. CASE Head(Top.rest) # Null
  <2> DEFINE fr == [Top EXCEPT !.rest = Tail(@)]
  <2>1. exprs' = exprs /\ Resume(fr, Head(Top.rest))
    BY <1>4 DEF NextArgument
  <2>2. fr = [at |-> "arguments", function |-> Top.function, rest |-> Tail(Top.rest),
              args |-> Top.args]
    BY <1>1, ArgumentFrameIs
  <2>3. fr.at = "arguments" /\ fr.function = Top.function /\ fr.args = Top.args
    BY <2>2
  <2> HIDE DEF fr
  <2>4. FrameSays(fr, symbols', functions', exprs', diags')
    BY <1>1, <2>1, <2>3, ArgumentsSay DEF FrameSays
  <2>5. NewTyped
    BY <1>1, <2>1, QuietTyped DEF AddsExpr, arena
  <2>6. QED
    BY <1>2, <2>1, <2>4, <2>5, ResumeTyped
<1>5. QED
  BY <1>3, <1>4

LEMMA TakeArgumentTyped ==
    ASSUME BuilderInv, TypesInv, TakeArgument
    PROVE  NewTyped /\ NewFrames /\ ResultClean'
<1>1. /\ At("arguments") /\ returned # Invalid /\ AddsExpr /\ diags' = diags
      /\ functions' = functions
  BY DEF TakeArgument, AddsExpr
<1>2. stack # << >> /\ Top.at = "arguments" /\ returned \in 1..Len(exprs)
  BY <1>1, ArgumentsFound DEF At, Invalid
<1> DEFINE f == Top.function
           index == Len(Top.args) + 1
           known == f # Invalid /\ index \in DOMAIN functions[f].parameters
           target == functions[f].parameters[index].type
           id == IF known THEN CastTo(returned, target) ELSE returned
           fr == [Top EXCEPT !.args = Append(@, id)]
<1>3. /\ exprs' = IF known THEN WithCast(returned, target) ELSE exprs
      /\ Resume(fr, Null)
  BY DEF TakeArgument
<1>4. /\ \A i \in 1..Len(exprs) : exprs'[i] = exprs[i]
      /\ known => Agree(exprs'[id].type, target)
      /\ \A i \in Added(exprs', exprs) :
            /\ ExprAgrees(exprs'[i], exprs', functions') /\ KidsThere(exprs'[i])
            /\ ExprClean(exprs'[i], diags')
  <2>1. CASE known
    <3>1. exprs' = WithCast(returned, target) /\ id = CastTo(returned, target)
      BY <1>3, <2>1
    <3> HIDE DEF id, target, known
    <3>2. \A i \in 1..Len(exprs') : exprs'[i] = exprs'[i]
      OBVIOUS
    <3>3. QED
      BY <1>2, <3>1, <3>2, CastTyped, Zenon
  <2>2. CASE ~known
    <3>1. exprs' = exprs
      BY <1>3, <2>2
    <3>2. QED
      BY <2>2, <3>1, ModuleSeqs
  <2>3. QED
    BY <2>1, <2>2
<1>5. fr = [at |-> "arguments", function |-> Top.function, rest |-> Top.rest,
            args |-> Append(Top.args, id)]
  BY <1>1, ArgumentFrameIs
<1>6. fr.at = "arguments" /\ fr.function = Top.function /\ fr.args = Append(Top.args, id)
  BY <1>5
<1> HIDE DEF fr, id
<1>7. FrameSays(fr, symbols', functions', exprs', diags')
  BY <1>1, <1>4, <1>6, MoreArguments
<1> HIDE DEF known, target
<1>8. NewTyped
  BY <1>1, <1>4, ExprsTyped
<1>9. QED
  BY <1>2, <1>3, <1>7, <1>8, ResumeTyped

LEMMA EndFuncCallTyped ==
    ASSUME BuilderInv, TypesInv, EndFuncCall
    PROVE  NewTyped /\ NewFrames /\ ResultClean'
<1> DEFINE f == Top.function
           type == IF f = Invalid THEN errorType ELSE functions[f].returnType
           e == Expr("Call", type, Top.args, f, << >>)
<1>1. /\ At("arguments") /\ AddsExpr /\ diags' = diags /\ Leave(Len(exprs) + 1)
      /\ exprs' = Append(exprs, e) /\ functions' = functions
  BY DEF EndFuncCall, AddsExpr
<1>2. /\ f \in 0..Len(functions) /\ Top.args \in Seq(1..Len(exprs)) /\ stack # << >>
      /\ Len(functions) \in Nat /\ DOMAIN functions = 1..Len(functions)
  BY <1>1, ArgumentsFound, ModuleSeqs
<1>3. /\ \A i \in 1..Len(exprs) : exprs'[i] = exprs[i]
      /\ exprs'[Len(exprs) + 1] = e
  BY <1>1, ModuleSeqs, OneAdded
<1>4. diags = {} => type # errorType
  <2>1. diags = {} => f # Invalid
    BY <1>1, ArgumentsSay
  <2>2. f # Invalid => f \in DOMAIN functions
    BY <1>2 DEF Invalid
  <2>3. QED
    BY <2>1, <2>2 DEF TypesInv, FunctionClean
<1>5. e.kind = "Call" /\ e.type = type /\ e.kids = Top.args /\ e.ref = f
  BY DEF Expr
<1>6. \A k \in DOMAIN Top.args : exprs'[Top.args[k]] = exprs[Top.args[k]]
  BY <1>2, <1>3
<1>7. f # Invalid =>
          \A k \in DOMAIN Top.args \cap DOMAIN functions[f].parameters :
              Agree(exprs[Top.args[k]].type, functions[f].parameters[k].type)
  BY <1>1, ArgumentsSay
<1> HIDE DEF e, type, f
<1>8. ExprAgrees(e, exprs', functions') /\ KidsThere(e) /\ ExprClean(e, diags')
  BY <1>1, <1>4, <1>5, <1>6, <1>7 DEF ExprAgrees, KidsThere, ExprClean
<1>9. NewTyped
  BY <1>1, <1>8, OneExprTyped
<1>10. QED
  BY <1>1, <1>2, <1>3, <1>4, <1>5, <1>9, LeaveTyped
-----------------------------------------------------------------------------
(* The steps that build statements.                                        *)
LEMMA StatementTyped ==
    ASSUME BuilderInv, symbols' = symbols, functions' = functions, diags \subseteq diags',
           NEW s, statements' = Append(statements, s), DeclAgrees(s, symbols', exprs'),
           \A i \in Added(exprs', exprs) :
               /\ ExprAgrees(exprs'[i], exprs', functions') /\ KidsThere(exprs'[i])
               /\ ExprClean(exprs'[i], diags')
    PROVE  NewTyped
BY ModuleSeqs, OneAdded DEF NewTyped

(* A statement about which there is nothing to say.                        *)
LEMMA PlainStatementTyped ==
    ASSUME BuilderInv, symbols' = symbols, functions' = functions, exprs' = exprs,
           diags \subseteq diags', NEW kind, kind # "VarDecl", NEW kids, NEW ref,
           statements' = Append(statements, Statement(kind, kids, ref))
    PROVE  NewTyped
<1> DEFINE s == Statement(kind, kids, ref)
<1>1. s.kind # "VarDecl" /\ statements' = Append(statements, s)
  BY DEF Statement
<1> HIDE DEF s
<1>2. DeclAgrees(s, symbols', exprs')
  BY <1>1, OtherDecl
<1>3. QED
  BY <1>1, <1>2, ModuleSeqs, StatementTyped

LEMMA BuildStatBlockTyped ==
    ASSUME BuilderInv, TypesInv, BuildStatBlock
    PROVE  NewTyped /\ NewFrames /\ ResultClean'
<1> DEFINE fr == [at |-> "statements", rest |-> call.statements, statements |-> << >>,
                  isBody |-> Top.at = "body"]
<1>1. call # Null /\ UNCHANGED arena /\ diags' = diags /\ CallFrom(fr, Null)
  BY CalledIs DEF BuildStatBlock
<1>2. FrameSays(fr, symbols', functions', exprs', diags')
  BY PlainFrame
<1> HIDE DEF fr
<1>3. QED
  BY <1>1, <1>2, QuietTyped, PushTyped

LEMMA NextStatementTyped ==
    ASSUME BuilderInv, TypesInv, NextStatement
    PROVE  NewTyped /\ NewFrames /\ ResultClean'
<1> DEFINE fr == [at |-> "statements", rest |-> Tail(Top.rest), statements |-> Taken,
                  isBody |-> Top.isBody]
<1>1. stack # << >> /\ UNCHANGED arena /\ diags' = diags /\ Resume(fr, Head(Top.rest))
  BY DEF NextStatement, At
<1>2. FrameSays(fr, symbols', functions', exprs', diags')
  BY PlainFrame
<1> HIDE DEF fr
<1>3. QED
  BY <1>1, <1>2, QuietTyped, ResumeTyped

LEMMA CloseBlockTyped ==
    ASSUME BuilderInv, TypesInv, CloseBlock
    PROVE  NewTyped /\ NewFrames /\ ResultClean'
<1>1. /\ stack # << >> /\ Top.at = "statements" /\ diags' = diags /\ symbols' = symbols
      /\ functions' = functions /\ exprs' = exprs /\ \E id : Leave(id)
      /\ \/ statements' = statements
         \/ statements' = Append(statements, Statement("Block", << >>, Len(blocks) + 1))
  BY DEF CloseBlock, At
<1>2. Gives(Top) # "expr"
  BY <1>1 DEF Gives
<1>3. NewTyped
  <2>1. CASE statements' = statements
    BY <1>1, <2>1, ModuleSeqs DEF NewTyped
  <2>2. CASE statements' # statements
    BY <1>1, <2>2, PlainStatementTyped
  <2>3. QED
    BY <2>1, <2>2
<1>4. QED
  BY <1>1, <1>2, <1>3, LeaveTyped

LEMMA BuildOtherStatementTyped ==
    ASSUME BuilderInv, TypesInv, BuildOtherStatement
    PROVE  NewTyped /\ NewFrames /\ ResultClean'
<1>1. /\ call # Null /\ call.node = "OtherStatement" /\ Return(Len(statements) + 1)
      /\ statements' = Append(statements, Statement("Error", << >>, Invalid))
      /\ symbols' = symbols /\ functions' = functions /\ exprs' = exprs
      /\ diags \subseteq diags'
  BY CalledIs DEF BuildOtherStatement, Report
<1>2. Wants(Top) = "statement"
  BY <1>1, CalledFacts
<1>3. QED
  BY <1>1, <1>2, PlainStatementTyped, ReturnTyped

(* The types that a step reports are those it has resolved to the error.   *)
LEMMA UnreportedTypes ==
    ASSUME NEW ts, NEW ds, ds \cup TypeReports(ts) = {}, NEW t \in ts
    PROVE  TypeOf(t) # errorType
BY Zenon DEF TypeReports

LEMMA BuildVarDeclTyped ==
    ASSUME BuilderInv, TypesInv, BuildVarDecl
    PROVE  NewTyped /\ NewFrames /\ ResultClean'
<1> DEFINE type == TypeOf(call.type)
           fr == [at |-> "declarators", rest |-> call.decls, statements |-> << >>, type |-> type]
<1>1. /\ call # Null /\ UNCHANGED arena /\ CallFrom(fr, Null)
      /\ diags' = diags \cup TypeReports({call.type})
  BY CalledIs DEF BuildVarDecl
<1>2. diags' = {} => type # errorType
  BY <1>1, UnreportedTypes
<1>3. fr.at = "declarators" /\ fr.type = type
  OBVIOUS
<1> HIDE DEF fr, type
<1>4. FrameSays(fr, symbols', functions', exprs', diags')
  BY <1>2, <1>3 DEF FrameSays
<1>5. diags \subseteq diags'
  BY <1>1
<1>6. QED
  BY <1>1, <1>4, <1>5, QuietTyped, PushTyped

(* A symbol of a type that is none but if something has been reported.     *)
LEMMA SymbolTyped ==
    ASSUME BuilderInv, functions' = functions, exprs' = exprs, statements' = statements,
           diags' = diags, NEW y, symbols' = Append(symbols, y), SymbolClean(y, diags)
    PROVE  NewTyped
BY ModuleSeqs, OneAdded DEF NewTyped

LEMMA NextDeclaratorTyped ==
    ASSUME BuilderInv, TypesInv, NextDeclarator
    PROVE  NewTyped /\ NewFrames /\ ResultClean'
<1> DEFINE decl == Head(Top.rest)
           id == Len(symbols) + 1
           loop == [at |-> "declarators", rest |-> Tail(Top.rest), statements |-> Taken,
                    type |-> Top.type]
           fr == [at |-> "initializer", symbol |-> id, type |-> Top.type]
           y == Symbol("LocalVar", decl.name, Top.type, Invalid)
<1>1. /\ At("declarators") /\ symbols' = Append(symbols, y)
      /\ stack' = Below \o <<loop, fr>> /\ returned' = Invalid
      /\ functions' = functions /\ statements' = statements /\ exprs' = exprs
      /\ diags' = diags
  BY DEF NextDeclarator, DeclareSymbol
<1>2. stack # << >> /\ Top.at = "declarators"
  BY <1>1 DEF At
<1>3. diags = {} => Top.type # errorType
  BY <1>2, TopSays DEF FrameSays
<1>4. /\ y.type = Top.type /\ loop.at = "declarators" /\ loop.type = Top.type
      /\ fr.at = "initializer" /\ fr.symbol = id /\ fr.type = Top.type
  BY DEF Symbol
<1> HIDE DEF y, loop, fr
<1>5. symbols'[id] = y
  BY <1>1, ModuleSeqs, OneAdded
<1>6. NewTyped
  BY <1>1, <1>3, <1>4, SymbolTyped DEF SymbolClean
<1>7. /\ FrameSays(loop, symbols', functions', exprs', diags')
      /\ FrameSays(fr, symbols', functions', exprs', diags')
  BY <1>1, <1>3, <1>4, <1>5 DEF FrameSays
<1>8. /\ Below \in Seq(FramesNow) /\ Len(Below) = Len(stack) - 1 /\ Len(stack) \in Nat \ {0}
      /\ \A i \in 1..Len(Below) : Below[i] = stack[i]
      /\ stack \in Seq(FramesNow)
  BY <1>2, TopFacts DEF BuilderInv, StackOK
<1>9. /\ DOMAIN stack' = 1..(Len(stack) + 1) /\ DOMAIN stack = 1..Len(stack)
      /\ \A i \in 1..(Len(stack) - 1) : stack'[i] = stack[i]
      /\ stack'[Len(stack)] = loop /\ stack'[Len(stack) + 1] = fr
  <2> DEFINE S == FramesNow \cup {loop, fr}
  <2>1. Below \in Seq(S) /\ loop \in S /\ fr \in S
    BY <1>8
  <2> HIDE DEF S
  <2>2. stack' = Append(Append(Below, loop), fr)
    BY <1>1, <2>1, AppendTwice
  <2>3. QED
    BY <1>8, <2>1, <2>2
<1>10. \A i \in DOMAIN stack' :
          i \in 1..(Len(stack) - 1) \/ i = Len(stack) \/ i = Len(stack) + 1
  BY <1>8, <1>9
<1>11. \A i \in 1..(Len(stack) - 1) : i \in DOMAIN stack
  BY <1>8, <1>9
<1>12. NewFrames
  BY <1>7, <1>9, <1>10, <1>11 DEF NewFrames
<1>13. QED
  BY <1>1, <1>6, <1>12 DEF ResultClean

LEMMA BuildOtherInitializerTyped ==
    ASSUME BuilderInv, TypesInv, BuildOtherInitializer
    PROVE  NewTyped /\ NewFrames /\ ResultClean'
<1>1. /\ Return(Len(exprs) + 1) /\ AddsExpr /\ diags \subseteq diags'
      /\ diags' # {} /\ exprs' = Append(exprs, ErrorExpr)
  BY DEF BuildOtherInitializer, AddsExpr, Report
<1>2. QED
  BY <1>1, ErrorExprTyped, ReturnTyped

(* What a conversion adds, and that it agrees with what is asked for.      *)
LEMMA ConvertTyped ==
    ASSUME BuilderInv, NEW id \in 1..Len(exprs), NEW target, exprs' = WithCast(id, target)
    PROVE  /\ Agree(exprs'[CastTo(id, target)].type, target)
           /\ \A i \in Added(exprs', exprs) :
                 /\ ExprAgrees(exprs'[i], exprs', functions') /\ KidsThere(exprs'[i])
                 /\ ExprClean(exprs'[i], diags')
<1>1. \A i \in 1..Len(exprs') : exprs'[i] = exprs'[i]
  OBVIOUS
<1>2. QED
  BY <1>1, CastTyped, Zenon

LEMMA InitializeTyped ==
    ASSUME BuilderInv, TypesInv, Initialize
    PROVE  NewTyped /\ NewFrames /\ ResultClean'
<1>1. /\ At("initializer") /\ Leave(Len(statements) + 1) /\ symbols' = symbols
      /\ functions' = functions /\ diags' = diags
  BY DEF Initialize
<1>2. stack # << >> /\ Top.at = "initializer"
  BY <1>1 DEF At
<1>3. Top.type = symbols[Top.symbol].type /\ Gives(Top) # "expr"
  BY <1>2, TopSays DEF FrameSays, Gives
<1>4. NewTyped
  <2>1. CASE returned = Invalid
    <3> DEFINE s == VarDecl(Top.symbol, << >>)
    <3>1. exprs' = exprs /\ statements' = Append(statements, s)
      BY <2>1 DEF Initialize
    <3>2. s.kids = << >>
      BY DEF VarDecl, Statement
    <3> HIDE DEF s
    <3>3. DeclAgrees(s, symbols', exprs')
      BY <3>2 DEF DeclAgrees
    <3>4. QED
      BY <1>1, <3>1, <3>3, ModuleSeqs, StatementTyped
  <2>2. CASE returned # Invalid
    <3> DEFINE id == CastTo(returned, Top.type)
               s == VarDecl(Top.symbol, <<id>>)
    <3>1. exprs' = WithCast(returned, Top.type) /\ statements' = Append(statements, s)
      BY <2>2 DEF Initialize
    <3>2. returned \in 1..Len(exprs)
      BY <1>1, <1>2, <2>2, AtFacts DEF Settled, Wants, IdsFor
    <3>3. s.kids = <<id>> /\ s.ref = Top.symbol
      BY DEF VarDecl, Statement
    <3> HIDE DEF s
    <3>4. /\ Agree(exprs'[id].type, Top.type)
          /\ \A i \in Added(exprs', exprs) :
                /\ ExprAgrees(exprs'[i], exprs', functions') /\ KidsThere(exprs'[i])
                /\ ExprClean(exprs'[i], diags')
      BY <3>1, <3>2, ConvertTyped
    <3> HIDE DEF id
    <3>5. DeclAgrees(s, symbols', exprs')
      BY <1>1, <1>3, <3>3, <3>4 DEF DeclAgrees
    <3>6. QED
      BY <1>1, <3>1, <3>4, <3>5, StatementTyped
  <2>3. QED
    BY <2>1, <2>2
<1>5. QED
  BY <1>1, <1>2, <1>3, <1>4, LeaveTyped

LEMMA EndVarDeclTyped ==
    ASSUME BuilderInv, TypesInv, EndVarDecl
    PROVE  NewTyped /\ NewFrames /\ ResultClean'
<1>1. /\ stack # << >> /\ Top.at = "declarators" /\ diags' = diags /\ symbols' = symbols
      /\ functions' = functions /\ exprs' = exprs /\ \E id : Leave(id)
      /\ \/ statements' = statements
         \/ statements' = Append(statements, Statement("Block", << >>, Len(blocks) + 1))
  BY DEF EndVarDecl, At
<1>2. Gives(Top) # "expr"
  BY <1>1 DEF Gives
<1>3. NewTyped
  <2>1. CASE statements' = statements
    BY <1>1, <2>1, ModuleSeqs DEF NewTyped
  <2>2. CASE statements' # statements
    BY <1>1, <2>2, PlainStatementTyped
  <2>3. QED
    BY <2>1, <2>2
<1>4. QED
  BY <1>1, <1>2, <1>3, LeaveTyped

LEMMA BuildExprStatTyped ==
    ASSUME BuilderInv, TypesInv, BuildExprStat
    PROVE  NewTyped /\ NewFrames /\ ResultClean'
<1> DEFINE fr == [at |-> "exprStat"]
<1>1. call # Null /\ UNCHANGED arena /\ diags' = diags /\ CallFrom(fr, call.assign)
  BY CalledIs DEF BuildExprStat
<1>2. FrameSays(fr, symbols', functions', exprs', diags')
  BY PlainFrame
<1> HIDE DEF fr
<1>3. QED
  BY <1>1, <1>2, QuietTyped, PushTyped

LEMMA EndExprStatTyped ==
    ASSUME BuilderInv, TypesInv, EndExprStat
    PROVE  NewTyped /\ NewFrames /\ ResultClean'
<1>1. PICK kids : statements' = Append(statements, Statement("Expr", kids, Invalid))
  BY DEF EndExprStat
<1>2. /\ stack # << >> /\ Top.at = "exprStat" /\ Leave(Len(statements) + 1)
      /\ symbols' = symbols /\ functions' = functions /\ exprs' = exprs /\ diags' = diags
  BY DEF EndExprStat, At
<1>3. Gives(Top) # "expr"
  BY <1>2 DEF Gives
<1>4. QED
  BY <1>1, <1>2, <1>3, PlainStatementTyped, LeaveTyped

LEMMA BuildReturnTyped ==
    ASSUME BuilderInv, TypesInv, BuildReturn
    PROVE  NewTyped /\ NewFrames /\ ResultClean'
<1> DEFINE fr == [at |-> "return"]
<1>1. call # Null /\ UNCHANGED arena /\ diags' = diags /\ CallFrom(fr, call.value)
  BY CalledIs DEF BuildReturn
<1>2. FrameSays(fr, symbols', functions', exprs', diags')
  BY PlainFrame
<1> HIDE DEF fr
<1>3. QED
  BY <1>1, <1>2, QuietTyped, PushTyped

(* A return statement has no value, or one that agrees with the type of    *)
(* the function that is being built.                                       *)
LEMMA EndReturnFacts ==
    ASSUME BuilderInv, EndReturn
    PROVE  /\ stack # << >> /\ Top.at = "return" /\ Leave(Len(statements) + 1)
           /\ symbols' = symbols /\ functions' = functions /\ diags' = diags
           /\ blocks' = blocks /\ currentFunction' = currentFunction
           /\ \E kids :
                 /\ statements' = Append(statements, Statement("Return", kids, Invalid))
                 /\ \A k \in DOMAIN kids : Agree(exprs'[kids[k]].type, Expected)
           /\ \A i \in Added(exprs', exprs) :
                 /\ ExprAgrees(exprs'[i], exprs', functions') /\ KidsThere(exprs'[i])
                 /\ ExprClean(exprs'[i], diags')
<1>1. /\ At("return") /\ Leave(Len(statements) + 1) /\ symbols' = symbols
      /\ functions' = functions /\ diags' = diags
      /\ blocks' = blocks /\ currentFunction' = currentFunction
  BY DEF EndReturn
<1>2. stack # << >> /\ Top.at = "return"
  BY <1>1 DEF At
<1>3. CASE returned = Invalid
  <2>1. /\ exprs' = exprs
        /\ statements' = Append(statements, Statement("Return", << >>, Invalid))
    BY <1>3 DEF EndReturn
  <2>2. QED
    BY <1>1, <1>2, <2>1, ModuleSeqs
<1>4. CASE returned # Invalid
  <2> DEFINE id == CastTo(returned, Expected)
  <2>1. /\ exprs' = WithCast(returned, Expected)
        /\ statements' = Append(statements, Statement("Return", <<id>>, Invalid))
    BY <1>4 DEF EndReturn
  <2>2. returned \in 1..Len(exprs)
    BY <1>1, <1>4, ExprReturned DEF Invalid
  <2>3. /\ Agree(exprs'[id].type, Expected)
        /\ \A i \in Added(exprs', exprs) :
              /\ ExprAgrees(exprs'[i], exprs', functions') /\ KidsThere(exprs'[i])
              /\ ExprClean(exprs'[i], diags')
    BY <2>1, <2>2, ConvertTyped
  <2> HIDE DEF id
  <2>4. \A k \in DOMAIN <<id>> : Agree(exprs'[<<id>>[k]].type, Expected)
    BY <2>3
  <2>5. QED
    BY <1>1, <1>2, <2>1, <2>3, <2>4
<1>5. QED
  BY <1>3, <1>4

LEMMA EndReturnTyped ==
    ASSUME BuilderInv, TypesInv, EndReturn
    PROVE  NewTyped /\ NewFrames /\ ResultClean'
<1>1. /\ stack # << >> /\ Top.at = "return" /\ Leave(Len(statements) + 1)
      /\ symbols' = symbols /\ functions' = functions /\ diags' = diags
      /\ \A i \in Added(exprs', exprs) :
            /\ ExprAgrees(exprs'[i], exprs', functions') /\ KidsThere(exprs'[i])
            /\ ExprClean(exprs'[i], diags')
  BY EndReturnFacts
<1>2. PICK kids : statements' = Append(statements, Statement("Return", kids, Invalid))
  BY EndReturnFacts
<1> DEFINE s == Statement("Return", kids, Invalid)
<1>3. s.kind = "Return" /\ statements' = Append(statements, s)
  BY <1>2 DEF Statement
<1> HIDE DEF s
<1>4. DeclAgrees(s, symbols', exprs')
  BY <1>3, OtherDecl
<1>5. NewTyped
  BY <1>1, <1>3, <1>4, StatementTyped
<1>6. Gives(Top) # "expr"
  BY <1>1 DEF Gives
<1>7. QED
  BY <1>1, <1>5, <1>6, LeaveTyped
-----------------------------------------------------------------------------
(* The steps of the script and of its functions.                           *)
LEMMA BuildOtherChildTyped ==
    ASSUME BuilderInv, TypesInv, BuildOtherChild
    PROVE  NewTyped /\ NewFrames /\ ResultClean'
<1> DEFINE fr == [Top EXCEPT !.next = @ + 1]
<1>1. At("script") /\ Resume(fr, Null) /\ UNCHANGED arena /\ diags \subseteq diags'
  BY DEF BuildOtherChild, Report
<1>2. stack # << >> /\ fr \in ScriptFrames
  BY <1>1, ScriptFound DEF At
<1> HIDE DEF fr
<1>3. fr.at = "script"
  BY <1>2 DEF ScriptFrames
<1>4. FrameSays(fr, symbols', functions', exprs', diags')
  BY <1>3, PlainFrame
<1>5. QED
  BY <1>1, <1>2, <1>4, QuietTyped, ResumeTyped

LEMMA EndScriptTyped ==
    ASSUME BuilderInv, TypesInv, EndScript
    PROVE  NewTyped /\ NewFrames /\ ResultClean'
<1>1. stack # << >> /\ Top.at = "script" /\ UNCHANGED arena /\ diags' = diags /\ Leave(Invalid)
  BY DEF EndScript, At
<1>2. Gives(Top) # "expr"
  BY <1>1 DEF Gives
<1>3. QED
  BY <1>1, <1>2, QuietTyped, LeaveTyped

LEMMA BuildBodyTyped ==
    ASSUME BuilderInv, TypesInv, BuildBody
    PROVE  NewTyped /\ NewFrames /\ ResultClean'
<1> DEFINE fr == [at |-> "body", function |-> Top.function, prev |-> Top.prev]
<1>1. stack # << >> /\ UNCHANGED arena /\ diags' = diags /\ Resume(fr, Top.body)
  BY DEF BuildBody, At
<1>2. FrameSays(fr, symbols', functions', exprs', diags')
  BY PlainFrame
<1> HIDE DEF fr
<1>3. QED
  BY <1>1, <1>2, QuietTyped, ResumeTyped

LEMMA EndFunctionTyped ==
    ASSUME BuilderInv, TypesInv, EndFunction
    PROVE  NewTyped /\ NewFrames /\ ResultClean'
<1>1. /\ stack # << >> /\ Top.at = "body" /\ diags' = diags /\ Leave(Invalid)
      /\ symbols' = symbols /\ statements' = statements /\ exprs' = exprs
  BY DEF EndFunction, At
<1>2. Len(functions') = Len(functions)
  <2>1. PICK f, g : functions' = [functions EXCEPT ![f] = g]
    BY DEF EndFunction
  <2>2. functions \in Seq(FunctionEntry)
    BY ModuleSeqs
  <2>3. QED
    BY <2>1, <2>2
<1>3. NewTyped
  BY <1>1, <1>2, ModuleSeqs DEF NewTyped, Added
<1>4. Gives(Top) # "expr"
  BY <1>1 DEF Gives
<1>5. QED
  BY <1>1, <1>3, <1>4, LeaveTyped

LEMMA DeclareParameterTyped ==
    ASSUME BuilderInv, TypesInv, DeclareParameter
    PROVE  NewTyped /\ NewFrames /\ ResultClean'
<1> DEFINE f == Top.function
           k == Top.next
           p == functions[f].parameters[k]
           y == Symbol("Parameter", p.name, p.type, Invalid)
           fr == [Top EXCEPT !.next = @ + 1]
<1>1. /\ At("parameters") /\ k \in DOMAIN functions[f].parameters /\ Resume(fr, Null)
      /\ exprs' = exprs /\ statements' = statements /\ diags' = diags
      /\ \/ symbols' = symbols /\ functions' = functions
         \/ /\ symbols' = Append(symbols, y)
            /\ \E g : functions' = [functions EXCEPT ![f] = g]
  BY DEF DeclareParameter
<1>2. /\ stack # << >> /\ f \in 1..Len(functions) /\ Top \in ParameterFrames(Len(functions))
  BY <1>1, FunctionFound DEF At
<1>3. functions \in Seq(FunctionEntry)
  BY ModuleSeqs
<1>4. Len(functions') = Len(functions)
  BY <1>1, <1>3
<1>5. diags = {} => p.type # errorType
  <2>1. f \in DOMAIN functions
    BY <1>2, <1>3
  <2>2. QED
    BY <1>1, <2>1 DEF TypesInv, FunctionClean
<1>6. y.type = p.type
  BY DEF Symbol
<1> HIDE DEF y, p
<1>7. NewTyped
  <2>1. Added(functions', functions) = {}
    BY <1>4, ModuleSeqs DEF Added
  <2>2. \A i \in Added(symbols', symbols) : symbols'[i] = y
    BY <1>1, ModuleSeqs, OneAdded
  <2>3. SymbolClean(y, diags')
    BY <1>1, <1>5, <1>6 DEF SymbolClean
  <2>4. QED
    BY <1>1, <2>1, <2>2, <2>3, ModuleSeqs DEF NewTyped
<1>8. fr.at = "parameters"
  <2>1. PICK n, b : Top = [at |-> "parameters", function |-> f, next |-> n, body |-> b,
                           prev |-> Invalid]
    BY <1>2 DEF ParameterFrames
  <2>2. QED
    BY <2>1
<1> HIDE DEF fr
<1>9. FrameSays(fr, symbols', functions', exprs', diags')
  BY <1>8, PlainFrame
<1>10. QED
  BY <1>1, <1>2, <1>7, <1>9, ResumeTyped

LEMMA BuildFunctionTyped ==
    ASSUME BuilderInv, TypesInv, BuildFunction
    PROVE  NewTyped /\ NewFrames /\ ResultClean'
<1> DEFINE n == script[Top.next]
           returnType == IF n.returnType = Null THEN voidType ELSE TypeOf(n.returnType)
           parameters == [i \in DOMAIN n.params |->
                            [name |-> n.params[i].name, type |-> TypeOf(n.params[i].type),
                             symbol |-> Invalid]]
           symbol == Len(symbols) + 1
           id == Len(functions) + 1
           caller == [Top EXCEPT !.next = @ + 1]
           y == Symbol("Function", n.name, Len(types) + 1, id)
           g == Function(n.name, returnType, parameters, symbol)
           fr == [at |-> "parameters", function |-> id, next |-> 1, body |-> n.body,
                  prev |-> currentFunction]
           ts == {n.params[i].type : i \in DOMAIN n.params} \cup ({n.returnType} \ {Null})
<1>1. /\ At("script") /\ symbols' = Append(symbols, y) /\ functions' = Append(functions, g)
      /\ statements' = statements /\ exprs' = exprs /\ returned' = returned
      /\ diags' = diags \cup TypeReports(ts)
      /\ stack' = Append(Below, caller) \/ stack' = Below \o <<caller, fr>>
  BY DEF BuildFunction
<1>2. returned = Invalid /\ Below = << >> /\ caller \in ScriptFrames
  BY <1>1, ScriptFound
<1>3. y.type # errorType
  <2>1. Len(types) \in Nat /\ Len(types) >= 17
    BY Lengths, BuiltinTypes DEF BuilderInv, ModuleOK
  <2>2. y.type = Len(types) + 1
    BY DEF Symbol
  <2> HIDE DEF y
  <2>3. QED
    BY <2>1, <2>2 DEF errorType
<1>4. FunctionClean(g, diags')
  <2>1. g.returnType = returnType /\ g.parameters = parameters
    BY DEF Function
  <2>2. diags' = {} => returnType # errorType
    <3>1. n.returnType # Null => n.returnType \in ts
      OBVIOUS
    <3>2. diags' = {} /\ n.returnType # Null => TypeOf(n.returnType) # errorType
      BY <1>1, <3>1, UnreportedTypes
    <3>3. QED
      BY <3>2, BuiltinClean
  <2>3. diags' = {} => \A k \in DOMAIN parameters : parameters[k].type # errorType
    <3>1. \A k \in DOMAIN n.params : n.params[k].type \in ts
      OBVIOUS
    <3>2. diags' = {} => \A k \in DOMAIN n.params : TypeOf(n.params[k].type) # errorType
      BY <1>1, <3>1, UnreportedTypes
    <3>3. /\ DOMAIN parameters = DOMAIN n.params
          /\ \A k \in DOMAIN n.params : parameters[k].type = TypeOf(n.params[k].type)
      OBVIOUS
    <3> HIDE DEF n, parameters, ts
    <3>4. QED
      BY <3>2, <3>3
  <2> HIDE DEF g, parameters, returnType, ts
  <2>4. QED
    BY <2>1, <2>2, <2>3 DEF FunctionClean
<1> HIDE DEF y, g, ts
<1>5. NewTyped
  <2>1. /\ \A i \in Added(symbols', symbols) : symbols'[i] = y
        /\ \A i \in Added(functions', functions) : functions'[i] = g
    BY <1>1, ModuleSeqs, OneAdded
  <2>2. SymbolClean(y, diags')
    BY <1>3 DEF SymbolClean
  <2>3. diags \subseteq diags'
    BY <1>1
  <2>4. QED
    BY <1>1, <1>4, <2>1, <2>2, <2>3, ModuleSeqs DEF NewTyped
<1>6. caller.at = "script" /\ fr.at = "parameters"
  BY <1>2 DEF ScriptFrames
<1> HIDE DEF caller, fr
<1>7. /\ FrameSays(caller, symbols', functions', exprs', diags')
      /\ FrameSays(fr, symbols', functions', exprs', diags')
  BY <1>6, PlainFrame
<1>8. \A i \in DOMAIN stack' : stack'[i] = caller \/ stack'[i] = fr
  <2>1. stack' = <<caller>> \/ stack' = <<caller, fr>>
    BY <1>1, <1>2, ShortAppend
  <2>2. QED
    BY <2>1
<1>9. NewFrames
  BY <1>7, <1>8 DEF NewFrames
<1>10. QED
  BY <1>1, <1>2, <1>5, <1>9 DEF ResultClean

(* Every step keeps the types.                                             *)
LEMMA NextTyped ==
    ASSUME BuilderInv, TypesInv, Next
    PROVE  NewTyped /\ NewFrames /\ ResultClean'
<1>1. CASE BuildTopLevel
  BY <1>1, BuildOtherChildTyped, BuildFunctionTyped, DeclareParameterTyped, BuildBodyTyped,
     EndFunctionTyped, EndScriptTyped DEF BuildTopLevel
<1>2. CASE BuildStatement
  BY <1>2, BuildStatBlockTyped, NextStatementTyped, CloseBlockTyped, BuildOtherStatementTyped,
     BuildVarDeclTyped, NextDeclaratorTyped, BuildOtherInitializerTyped, InitializeTyped,
     EndVarDeclTyped, BuildExprStatTyped, EndExprStatTyped, BuildReturnTyped, EndReturnTyped
     DEF BuildStatement
<1>3. CASE BuildExpression
  BY <1>3, BuildAssignTyped, BuildRhsTyped, AssignTyped, CompoundAssignTyped,
     BuildConditionTyped, EndTernaryTyped, BuildExprTyped, TakeOperandTyped,
     BuildExprTermTyped, BuildOtherValueTyped, BuildLiteralTyped, BuildVarAccessTyped,
     BuildFuncCallTyped, NextArgumentTyped, TakeArgumentTyped, EndFuncCallTyped
     DEF BuildExpression
<1>4. QED
  BY <1>1, <1>2, <1>3 DEF Next

LEMMA TypesInvariance == Spec => []TypesInv
<1>1. Init => TypesInv
  <2>1. SUFFICES ASSUME Init PROVE TypesInv
    OBVIOUS
  <2>2. /\ symbols = << >> /\ functions = << >> /\ statements = << >> /\ exprs = << >>
        /\ stack = <<[at |-> "script", next |-> 1]>> /\ returned = Invalid
    BY <2>1 DEF Init
  <2> DEFINE fr == [at |-> "script", next |-> 1]
  <2>3. FrameSays(fr, symbols, functions, exprs, diags)
    BY DEF FrameSays
  <2> HIDE DEF fr
  <2>4. \A i \in DOMAIN stack : FrameSays(stack[i], symbols, functions, exprs, diags)
    BY <2>2, <2>3 DEF fr
  <2>5. QED
    BY <2>2, <2>4 DEF TypesInv, ResultClean
<1>2. TypesInv /\ BuilderInv /\ BuilderInv' /\ [Next]_vars => TypesInv'
  <2>1. CASE Next
    BY <2>1, NextGrows, NextTyped, TypesStay
  <2>2. CASE UNCHANGED vars
    BY <2>2 DEF vars, arena, TypesInv, ResultClean, Top
  <2>3. QED
    BY <2>1, <2>2
<1>3. QED
  BY <1>1, <1>2, BuilderInvariance, PTL DEF Spec
-----------------------------------------------------------------------------
(* Returns agree.  Each statement belongs to the function whose body is    *)
(* being built when it is added; and so do the statements a frame has, and *)
(* the one or the block that has been returned to it.                      *)
FrameOwned(fr, owner, cur) ==
    fr.at \in {"statements", "declarators"} =>
        \A k \in DOMAIN fr.statements : owner[fr.statements[k]] = cur

BlockOwned(block, owner, f) == \A k \in DOMAIN block : owner[block[k]] = f

StatementOwned(s, f, owner, bs, gs, xs) ==
    /\ s.kind = "Block" => BlockOwned(bs[s.ref], owner, f)
    /\ s.kind = "Return" =>
          \A k \in DOMAIN s.kids : Agree(xs[s.kids[k]].type, gs[f].returnType)

ResultOwned(owner) ==
    returned # Invalid /\ stack # << >> =>
        /\ Wants(Top) \in {"statement", "declaration"} => owner[returned] = currentFunction
        /\ Wants(Top) = "block" => BlockOwned(blocks[returned], owner, currentFunction)

Owned(owner) ==
    /\ \A i \in DOMAIN functions :
          functions[i].body # Invalid => BlockOwned(blocks[functions[i].body], owner, i)
    /\ \A i \in DOMAIN statements :
          StatementOwned(statements[i], owner[i], owner, blocks, functions, exprs)
    /\ \A i \in DOMAIN stack : FrameOwned(stack[i], owner, currentFunction)
    /\ ResultOwned(owner)

OwnersInv == \E owner \in [DOMAIN statements -> DOMAIN functions] : Owned(owner)

(* The owners after a step say the same of the statements there were.      *)
OwnersExtend(owner2, owner) ==
    /\ owner2 \in [DOMAIN statements' -> DOMAIN functions']
    /\ \A i \in DOMAIN statements : owner2[i] = owner[i]

LEMMA BlockStays ==
    ASSUME NEW S, NEW block \in Seq(S), NEW owner, NEW owner2,
           \A i \in S : owner2[i] = owner[i], NEW f, BlockOwned(block, owner, f)
    PROVE  BlockOwned(block, owner2, f)
<1>1. \A k \in DOMAIN block : block[k] \in S
  OBVIOUS
<1>2. QED
  BY <1>1 DEF BlockOwned

LEMMA BlocksKept ==
    ASSUME BuilderInv, BuilderInv', ModuleGrows
    PROVE  /\ \A b \in 1..Len(blocks) :
                 /\ b \in 1..Len(blocks') /\ blocks'[b] = blocks[b]
                 /\ blocks[b] \in Seq(1..Len(statements))
           /\ DOMAIN statements = 1..Len(statements) /\ DOMAIN functions = 1..Len(functions)
           /\ DOMAIN statements' = 1..Len(statements') /\ DOMAIN functions' = 1..Len(functions')
           /\ DOMAIN stack = 1..Len(stack)
<1>1. /\ blocks \in Seq(Seq(1..Len(statements))) /\ blocks' \in Seq(Seq(1..Len(statements')))
      /\ IsPrefixOf(blocks, blocks')
  BY DEF BuilderInv, ModuleOK, ModuleGrows
<1>2. /\ statements \in Seq(StatementEntry) /\ functions \in Seq(FunctionEntry)
      /\ statements' \in Seq(StatementEntry) /\ functions' \in Seq(FunctionEntry)
      /\ stack \in Seq(FramesNow)
  BY DEF BuilderInv, ModuleOK, StackOK, StatementsOK, FunctionsOK
<1>3. \A b \in 1..Len(blocks) : b \in 1..Len(blocks') /\ blocks'[b] = blocks[b]
  BY <1>1 DEF IsPrefixOf
<1>4. \A b \in 1..Len(blocks) : blocks[b] \in Seq(1..Len(statements))
  BY <1>1, ElementOfSeq
<1> HIDE DEF FramesNow
<1>5. QED
  BY <1>2, <1>3, <1>4

LEMMA StatementStays ==
    ASSUME BuilderInv, BuilderInv', ModuleGrows, NEW i \in 1..Len(statements),
           NEW f \in 1..Len(functions), NEW owner, NEW owner2, OwnersExtend(owner2, owner),
           StatementOwned(statements[i], f, owner, blocks, functions, exprs)
    PROVE  StatementOwned(statements'[i], f, owner2, blocks', functions', exprs')
<1> DEFINE s == statements[i]
<1>1. /\ s.kids \in Seq(1..Len(exprs)) /\ (s.kind = "Block" => s.ref \in 1..Len(blocks))
  BY DEF BuilderInv, ModuleOK, StatementsOK, StatementOK
<1>2. \A k \in DOMAIN s.kids : s.kids[k] \in 1..Len(exprs)
  BY <1>1
<1>3. /\ \A k \in DOMAIN s.kids : exprs'[s.kids[k]] = exprs[s.kids[k]]
      /\ functions'[f].returnType = functions[f].returnType /\ statements'[i] = s
  BY <1>2, TypesKept
<1>4. s.kind = "Block" => BlockOwned(blocks'[s.ref], owner2, f)
  <2>1. SUFFICES ASSUME s.kind = "Block" PROVE BlockOwned(blocks'[s.ref], owner2, f)
    OBVIOUS
  <2>2. /\ blocks'[s.ref] = blocks[s.ref] /\ blocks[s.ref] \in Seq(1..Len(statements))
        /\ DOMAIN statements = 1..Len(statements)
    BY <1>1, <2>1, BlocksKept
  <2>3. BlockOwned(blocks[s.ref], owner, f)
    BY <2>1 DEF StatementOwned
  <2>4. \A j \in 1..Len(statements) : owner2[j] = owner[j]
    BY <2>2 DEF OwnersExtend
  <2> HIDE DEF s
  <2>5. QED
    BY <2>2, <2>3, <2>4, BlockStays
<1>5. StatementOwned(s, f, owner, blocks, functions, exprs)
  OBVIOUS
<1> HIDE DEF s
<1>6. QED
  BY <1>3, <1>4, <1>5 DEF StatementOwned

LEMMA FrameStaysOwned ==
    ASSUME BuilderInv, NEW fr \in FramesNow, NEW owner, NEW owner2, NEW cur,
           \A i \in 1..Len(statements) : owner2[i] = owner[i], FrameOwned(fr, owner, cur)
    PROVE  FrameOwned(fr, owner2, cur)
<1>1. fr \in Frames(Len(types), Len(symbols), Len(functions), Len(statements), Len(exprs))
  BY DEF FramesNow
<1>2. /\ fr.at = "statements" => fr \in StatementFrames(Len(statements))
      /\ fr.at = "declarators" => fr \in DeclaratorFrames(Len(types), Len(statements))
  BY <1>1, FramesAt
<1>3. fr.at \in {"statements", "declarators"} => fr.statements \in Seq(1..Len(statements))
  BY <1>2 DEF StatementFrames, DeclaratorFrames
<1>4. fr.at \in {"statements", "declarators"} =>
          \A k \in DOMAIN fr.statements : fr.statements[k] \in 1..Len(statements)
  BY <1>3
<1>5. QED
  BY <1>4 DEF FrameOwned

(* What a step must show of what it changes.                               *)
NewStatementsOwned(owner2) ==
    \A i \in Added(statements', statements) :
        StatementOwned(statements'[i], owner2[i], owner2, blocks', functions', exprs')

NewBodiesOwned(owner2) ==
    \A i \in DOMAIN functions' :
        functions'[i].body # Invalid =>
            \/ i \in DOMAIN functions /\ functions'[i].body = functions[i].body
            \/ BlockOwned(blocks'[functions'[i].body], owner2, i)

NewFramesOwned(owner2) ==
    \A i \in DOMAIN stack' :
        \/ /\ currentFunction' = currentFunction
           /\ \E j \in DOMAIN stack : stack'[i] = stack[j]
        \/ FrameOwned(stack'[i], owner2, currentFunction')

LEMMA OwnersStay ==
    ASSUME BuilderInv, BuilderInv', ModuleGrows,
           NEW owner \in [DOMAIN statements -> DOMAIN functions], Owned(owner),
           NEW owner2, OwnersExtend(owner2, owner), NewStatementsOwned(owner2),
           NewBodiesOwned(owner2), NewFramesOwned(owner2), ResultOwned(owner2)'
    PROVE  OwnersInv'
<1>1. /\ DOMAIN statements = 1..Len(statements) /\ DOMAIN functions = 1..Len(functions)
      /\ DOMAIN statements' = 1..Len(statements') /\ DOMAIN functions' = 1..Len(functions')
      /\ DOMAIN stack = 1..Len(stack)
  BY BlocksKept
<1>2. \A i \in 1..Len(statements) : owner2[i] = owner[i]
  BY <1>1 DEF OwnersExtend
<1>3. ASSUME NEW i \in DOMAIN functions', functions'[i].body # Invalid
      PROVE  BlockOwned(blocks'[functions'[i].body], owner2, i)
  <2>1. CASE i \in DOMAIN functions /\ functions'[i].body = functions[i].body
    <3>1. BlockOwned(blocks[functions[i].body], owner, i)
      BY <1>3, <2>1 DEF Owned
    <3>2. functions[i].body \in 1..Len(blocks)
      <4>1. functions[i].body \in 0..Len(blocks) /\ Len(blocks) \in Nat
        BY <1>1, <2>1, Lengths DEF BuilderInv, ModuleOK, FunctionsOK, FunctionOK
      <4>2. QED
        BY <1>3, <2>1, <4>1 DEF Invalid
    <3>3. /\ blocks'[functions[i].body] = blocks[functions[i].body]
          /\ blocks[functions[i].body] \in Seq(1..Len(statements))
      BY <3>2, BlocksKept
    <3>4. BlockOwned(blocks[functions[i].body], owner2, i)
      <4> DEFINE block == blocks[functions[i].body]
                 S == 1..Len(statements)
      <4>1. block \in Seq(S) /\ BlockOwned(block, owner, i)
        BY <3>1, <3>3
      <4>2. \A j \in S : owner2[j] = owner[j]
        BY <1>2
      <4> HIDE DEF block, S
      <4>3. BlockOwned(block, owner2, i)
        BY <4>1, <4>2, BlockStays
      <4>4. QED
        BY <4>3 DEF block
    <3>5. QED
      BY <2>1, <3>3, <3>4
  <2>2. QED
    BY <1>3, <2>1 DEF NewBodiesOwned
<1>4. ASSUME NEW i \in DOMAIN statements'
      PROVE  StatementOwned(statements'[i], owner2[i], owner2, blocks', functions', exprs')
  <2>1. CASE i \in 1..Len(statements)
    <3>1. /\ owner[i] \in 1..Len(functions) /\ owner2[i] = owner[i]
          /\ StatementOwned(statements[i], owner[i], owner, blocks, functions, exprs)
      BY <1>1, <1>2, <2>1 DEF Owned
    <3>2. StatementOwned(statements'[i], owner[i], owner2, blocks', functions', exprs')
      BY <2>1, <3>1, StatementStays
    <3>3. QED
      BY <3>1, <3>2
  <2>2. CASE i \in Added(statements', statements)
    BY <2>2 DEF NewStatementsOwned
  <2>3. QED
    BY <1>1, <2>1, <2>2, TypesKept
<1>5. ASSUME NEW i \in DOMAIN stack' PROVE FrameOwned(stack'[i], owner2, currentFunction')
  <2>1. ASSUME currentFunction' = currentFunction, NEW j \in DOMAIN stack, stack'[i] = stack[j]
        PROVE  FrameOwned(stack'[i], owner2, currentFunction')
    <3>1. stack[j] \in FramesNow
      BY <1>1, ElementOfSeq DEF BuilderInv, StackOK
    <3>2. FrameOwned(stack[j], owner, currentFunction)
      BY DEF Owned
    <3>3. FrameOwned(stack[j], owner2, currentFunction)
      BY <1>2, <3>1, <3>2, FrameStaysOwned
    <3>4. QED
      BY <2>1, <3>3
  <2>2. QED
    BY <2>1 DEF NewFramesOwned
<1>6. Owned(owner2)'
  BY <1>3, <1>4, <1>5, Zenon DEF Owned
<1>7. owner2 \in [DOMAIN statements' -> DOMAIN functions']
  BY DEF OwnersExtend
<1>8. QED
  BY <1>6, <1>7 DEF OwnersInv

(* The ways in which a step changes the stack.                             *)
NoStatements(fr) == fr.at \in {"statements", "declarators"} => fr.statements = << >>

LEMMA NoneOwned ==
    ASSUME NEW fr, NoStatements(fr), NEW owner2, NEW cur PROVE FrameOwned(fr, owner2, cur)
BY DEF NoStatements, FrameOwned

LEMMA ReturnOwned ==
    ASSUME BuilderInv, NEW id, Return(id), currentFunction' = currentFunction,
           Wants(Top) \notin {"declaration", "block"}, NEW owner2,
           Wants(Top) = "statement" => owner2[id] = currentFunction
    PROVE  NewFramesOwned(owner2) /\ ResultOwned(owner2)'
<1>1. stack' = stack /\ returned' = id /\ Top' = Top
  BY DEF Return, Top
<1>2. QED
  BY <1>1 DEF NewFramesOwned, ResultOwned

LEMMA TailOwned ==
    ASSUME BuilderInv, call # Null, stack' = stack, returned' = returned,
           currentFunction' = currentFunction, NEW owner2
    PROVE  NewFramesOwned(owner2) /\ ResultOwned(owner2)'
<1>1. returned = Invalid
  BY CalledFacts
<1>2. QED
  BY <1>1 DEF NewFramesOwned, ResultOwned

LEMMA PushOwned ==
    ASSUME BuilderInv, call # Null, NEW fr, NEW node, CallFrom(fr, node), NoStatements(fr),
           currentFunction' = currentFunction, NEW owner2
    PROVE  NewFramesOwned(owner2) /\ ResultOwned(owner2)'
<1>1. returned = Invalid /\ stack \in Seq(FramesNow)
  BY CalledFacts DEF BuilderInv, StackOK
<1>2. returned' = Invalid /\ stack' = Append(stack, fr)
  BY <1>1 DEF CallFrom
<1>3. /\ DOMAIN stack = 1..Len(stack) /\ DOMAIN stack' = 1..(Len(stack) + 1)
      /\ \A i \in 1..Len(stack) : stack'[i] = stack[i]
      /\ stack'[Len(stack) + 1] = fr /\ Len(stack) \in Nat
  BY <1>1, <1>2
<1>4. \A i \in DOMAIN stack' : i \in DOMAIN stack \/ i = Len(stack) + 1
  BY <1>3
<1>5. FrameOwned(fr, owner2, currentFunction')
  BY NoneOwned
<1>6. QED
  BY <1>2, <1>3, <1>4, <1>5 DEF NewFramesOwned, ResultOwned

LEMMA ResumeOwned ==
    ASSUME BuilderInv, stack # << >>, NEW fr, NEW node, Resume(fr, node),
           currentFunction' = currentFunction, NEW owner2,
           FrameOwned(fr, owner2, currentFunction)
    PROVE  NewFramesOwned(owner2) /\ ResultOwned(owner2)'
<1>1. /\ Below \in Seq(FramesNow) /\ Len(Below) = Len(stack) - 1 /\ Len(stack) \in Nat \ {0}
      /\ \A i \in 1..Len(Below) : Below[i] = stack[i]
      /\ stack \in Seq(FramesNow)
  BY TopFacts DEF BuilderInv, StackOK
<1>2. returned' = Invalid /\ stack' = Append(Below, fr)
  BY DEF Resume
<1>3. /\ DOMAIN stack = 1..Len(stack) /\ DOMAIN stack' = 1..Len(stack)
      /\ \A i \in 1..(Len(stack) - 1) : stack'[i] = stack[i]
      /\ stack'[Len(stack)] = fr
  BY <1>1, <1>2
<1>4. \A i \in DOMAIN stack' : i \in 1..(Len(stack) - 1) \/ i = Len(stack)
  BY <1>1, <1>3
<1>5. QED
  BY <1>2, <1>3, <1>4 DEF NewFramesOwned, ResultOwned

LEMMA LeaveOwned ==
    ASSUME BuilderInv, stack # << >>, NEW id, Leave(id), currentFunction' = currentFunction,
           NEW owner2,
           Gives(Top) \in {"statement", "declaration"} => owner2[id] = currentFunction,
           Gives(Top) = "block" => BlockOwned(blocks'[id], owner2, currentFunction)
    PROVE  NewFramesOwned(owner2) /\ ResultOwned(owner2)'
<1>1. /\ Below \in Seq(FramesNow) /\ Len(Below) = Len(stack) - 1 /\ Len(stack) \in Nat \ {0}
      /\ \A i \in 1..Len(Below) : Below[i] = stack[i]
      /\ stack \in Seq(FramesNow) /\ Linked(stack)
  BY TopFacts DEF BuilderInv, StackOK
<1>2. returned' = id /\ stack' = Below
  BY DEF Leave
<1>3. /\ DOMAIN stack = 1..Len(stack) /\ DOMAIN stack' = 1..(Len(stack) - 1)
      /\ Len(stack') = Len(stack) - 1
      /\ \A i \in 1..(Len(stack) - 1) : stack'[i] = stack[i]
  BY <1>1, <1>2
<1>4. NewFramesOwned(owner2)
  BY <1>1, <1>3 DEF NewFramesOwned
<1>5. stack' # << >> => Gives(Top) = Wants(Top')
  <2>1. SUFFICES ASSUME stack' # << >> PROVE Gives(Top) = Wants(Top')
    OBVIOUS
  <2>2. Len(stack) \in 2..Len(stack)
    BY <1>1, <1>2, <1>3, <2>1, EmptySeq
  <2>3. Top' = stack[Len(stack) - 1]
    BY <1>3, <2>2 DEF Top
  <2>4. QED
    BY <1>1, <2>2, <2>3 DEF Linked, Top
<1>6. QED
  BY <1>2, <1>4, <1>5 DEF ResultOwned

(* A step that adds no statement, sets no body and returns none of either. *)
Calm ==
    /\ statements' = statements /\ Len(functions') = Len(functions)
    /\ \A i \in DOMAIN functions : functions'[i].body = functions[i].body
    /\ \A owner2 : NewFramesOwned(owner2) /\ ResultOwned(owner2)'

LEMMA CalmKeepsOwners ==
    ASSUME BuilderInv, BuilderInv', ModuleGrows, OwnersInv, Calm
    PROVE  OwnersInv'
<1>1. PICK owner \in [DOMAIN statements -> DOMAIN functions] : Owned(owner)
  BY DEF OwnersInv
<1>2. DOMAIN statements' = DOMAIN statements /\ DOMAIN functions' = DOMAIN functions
  BY BlocksKept DEF Calm
<1>3. OwnersExtend(owner, owner)
  BY <1>2 DEF OwnersExtend
<1>4. NewStatementsOwned(owner)
  BY ModuleSeqs DEF Calm, NewStatementsOwned
<1>5. NewBodiesOwned(owner)
  BY <1>2 DEF Calm, NewBodiesOwned
<1>6. QED
  BY <1>1, <1>3, <1>4, <1>5, OwnersStay DEF Calm

LEMMA SameFunctions ==
    ASSUME BuilderInv, functions' = functions, statements' = statements,
           \A owner2 : NewFramesOwned(owner2) /\ ResultOwned(owner2)'
    PROVE  Calm
BY DEF Calm

LEMMA ReturnsCalm ==
    ASSUME BuilderInv,
           \/ BuildOtherInitializer \/ BuildExprTerm \/ BuildOtherValue \/ BuildLiteral
           \/ BuildVarAccess
    PROVE  Calm
<1>1. /\ functions' = functions /\ statements' = statements
      /\ currentFunction' = currentFunction
  BY DEF BuildOtherInitializer, BuildExprTerm, BuildOtherValue, BuildLiteral, BuildVarAccess,
         AddsExpr, arena
<1>2. /\ call # Null
      /\ call.node \in {"OtherInitializer", "ExprTerm", "OtherValue", "Literal", "VarAccess"}
  BY CalledIs DEF BuildOtherInitializer, BuildExprTerm, BuildOtherValue, BuildLiteral,
                  BuildVarAccess
<1>3. Wants(Top) = "expr"
  BY <1>2, CalledFacts
<1>4. \/ stack' = stack /\ returned' = returned
      \/ Return(Len(exprs) + 1)
  <2>1. CASE BuildExprTerm
    BY <2>1 DEF BuildExprTerm, TailCall
  <2>2. CASE BuildOtherInitializer
    BY <2>2 DEF BuildOtherInitializer
  <2>3. CASE BuildOtherValue
    BY <2>3 DEF BuildOtherValue
  <2>4. CASE BuildLiteral
    BY <2>4 DEF BuildLiteral
  <2>5. CASE BuildVarAccess
    BY <2>5 DEF BuildVarAccess
  <2>6. QED
    BY <2>1, <2>2, <2>3, <2>4, <2>5
<1>5. ASSUME NEW owner2 PROVE NewFramesOwned(owner2) /\ ResultOwned(owner2)'
  BY <1>1, <1>2, <1>3, <1>4, ReturnOwned, TailOwned
<1>6. QED
  BY <1>1, <1>5, SameFunctions

LEMMA CallsCalm ==
    ASSUME BuilderInv,
           \/ BuildStatBlock \/ BuildVarDecl \/ BuildExprStat \/ BuildReturn \/ BuildFuncCall
           \/ BuildAssign \/ BuildCondition \/ BuildExpr
    PROVE  Calm
<1>1. /\ functions' = functions /\ statements' = statements
      /\ currentFunction' = currentFunction
  BY DEF BuildStatBlock, BuildVarDecl, BuildExprStat, BuildReturn, BuildFuncCall, BuildAssign,
         BuildCondition, BuildExpr, arena
<1>2. call # Null
  BY CalledIs DEF BuildStatBlock, BuildVarDecl, BuildExprStat, BuildReturn, BuildFuncCall,
                  BuildAssign, BuildCondition, BuildExpr
<1>3. ASSUME NEW fr, NEW node, CallFrom(fr, node), NoStatements(fr) PROVE Calm
  BY <1>1, <1>2, <1>3, PushOwned, SameFunctions
<1>4. ASSUME NEW node, TailCall(node) PROVE Calm
  BY <1>1, <1>2, <1>4, TailOwned, SameFunctions DEF TailCall
<1>5. CASE BuildStatBlock
  <2> DEFINE fr == [at |-> "statements", rest |-> call.statements, statements |-> << >>,
                    isBody |-> Top.at = "body"]
  <2>1. CallFrom(fr, Null)
    BY <1>5 DEF BuildStatBlock
  <2>2. NoStatements(fr)
    BY DEF NoStatements
  <2> HIDE DEF fr
  <2>3. QED
    BY <1>3, <2>1, <2>2
<1>6. CASE BuildVarDecl
  <2> DEFINE fr == [at |-> "declarators", rest |-> call.decls, statements |-> << >>,
                    type |-> TypeOf(call.type)]
  <2>1. CallFrom(fr, Null)
    BY <1>6 DEF BuildVarDecl
  <2>2. NoStatements(fr)
    BY DEF NoStatements
  <2> HIDE DEF fr
  <2>3. QED
    BY <1>3, <2>1, <2>2
<1>7. CASE BuildExprStat \/ BuildReturn
  <2>1. PICK fr, node : CallFrom(fr, node) /\ fr.at \in {"exprStat", "return"}
    BY <1>7 DEF BuildExprStat, BuildReturn
  <2>2. QED
    BY <1>3, <2>1 DEF NoStatements
<1>8. CASE BuildFuncCall
  <2> DEFINE fr == [at |-> "arguments", function |-> Callee(call.name), rest |-> call.args,
                    args |-> << >>]
  <2>1. CallFrom(fr, Null)
    BY <1>8 DEF BuildFuncCall
  <2>2. NoStatements(fr)
    BY DEF NoStatements
  <2> HIDE DEF fr
  <2>3. QED
    BY <1>3, <2>1, <2>2
<1>9. CASE BuildAssign
  <2> DEFINE fr == [at |-> "lhs", op |-> call.op, rhs |-> call.rhs]
  <2>1. \E node : TailCall(node) \/ CallFrom(fr, node)
    BY <1>9 DEF BuildAssign
  <2>2. NoStatements(fr)
    BY DEF NoStatements
  <2> HIDE DEF fr
  <2>3. QED
    BY <1>3, <1>4, <2>1, <2>2
<1>10. CASE BuildCondition
  <2> DEFINE fr == [at |-> "ternary"]
  <2>1. \E node : TailCall(node) \/ CallFrom(fr, node)
    BY <1>10 DEF BuildCondition
  <2>2. NoStatements(fr)
    BY DEF NoStatements
  <2> HIDE DEF fr
  <2>3. QED
    BY <1>3, <1>4, <2>1, <2>2
<1>11. CASE BuildExpr
  <2> DEFINE fr == [at |-> "operands", acc |-> Invalid, op |-> "", rest |-> call.rest]
  <2>1. \E node : TailCall(node) \/ CallFrom(fr, node)
    BY <1>11 DEF BuildExpr
  <2>2. NoStatements(fr)
    BY DEF NoStatements
  <2> HIDE DEF fr
  <2>3. QED
    BY <1>3, <1>4, <2>1, <2>2
<1>12. QED
  BY <1>5, <1>6, <1>7, <1>8, <1>9, <1>10, <1>11

LEMMA LeavesCalm ==
    ASSUME BuilderInv,
           Assign \/ CompoundAssign \/ EndTernary \/ EndFuncCall \/ EndScript
    PROVE  Calm
<1>1. /\ functions' = functions /\ statements' = statements
      /\ currentFunction' = currentFunction /\ stack # << >>
      /\ Top.at \in {"rhs", "ternary", "arguments", "script"}
  BY DEF At, AddsExpr, Assign, CompoundAssign, EndTernary, EndFuncCall, EndScript, arena
<1>2. PICK id : Leave(id)
  <2>1. CASE Assign
    BY <2>1 DEF Assign
  <2>2. CASE CompoundAssign
    BY <2>2 DEF CompoundAssign
  <2>3. CASE EndTernary
    BY <2>3 DEF EndTernary
  <2>4. CASE EndFuncCall
    BY <2>4 DEF EndFuncCall
  <2>5. CASE EndScript
    BY <2>5 DEF EndScript
  <2>6. QED
    BY <2>1, <2>2, <2>3, <2>4, <2>5
<1>3. Gives(Top) \notin {"statement", "declaration", "block"}
  BY <1>1 DEF Gives
<1>4. QED
  BY <1>1, <1>2, <1>3, LeaveOwned, SameFunctions

LEMMA ResumesCalm ==
    ASSUME BuilderInv,
           \/ BuildOtherChild \/ BuildBody \/ BuildRhs \/ TakeOperand \/ NextArgument
           \/ TakeArgument
    PROVE  Calm
<1>1. /\ functions' = functions /\ statements' = statements
      /\ currentFunction' = currentFunction /\ stack # << >>
  BY DEF At, AddsExpr, BuildOtherChild, BuildBody, BuildRhs, TakeOperand, NextArgument,
         TakeArgument, arena
<1>2. ASSUME NEW fr, NEW node, Resume(fr, node), fr.at \notin {"statements", "declarators"}
      PROVE  Calm
  <2>1. \A owner2 : FrameOwned(fr, owner2, currentFunction)
    BY <1>2 DEF FrameOwned
  <2>2. QED
    BY <1>1, <1>2, <2>1, ResumeOwned, SameFunctions
<1>3. CASE BuildOtherChild
  <2> DEFINE fr == [Top EXCEPT !.next = @ + 1]
  <2>1. At("script") /\ Resume(fr, Null)
    BY <1>3 DEF BuildOtherChild
  <2>2. fr.at = "script"
    BY <2>1, ScriptFound DEF ScriptFrames
  <2> HIDE DEF fr
  <2>3. QED
    BY <1>2, <2>1, <2>2
<1>4. CASE BuildBody
  <2> DEFINE fr == [at |-> "body", function |-> Top.function, prev |-> Top.prev]
  <2>1. Resume(fr, Top.body) /\ fr.at = "body"
    BY <1>4 DEF BuildBody
  <2> HIDE DEF fr
  <2>2. QED
    BY <1>2, <2>1
<1>5. CASE BuildRhs
  <2> DEFINE fr == [at |-> "rhs", op |-> Top.op, lhs |-> returned]
  <2>1. Resume(fr, Top.rhs) /\ fr.at = "rhs"
    BY <1>5 DEF BuildRhs
  <2> HIDE DEF fr
  <2>2. QED
    BY <1>2, <2>1
<1>6. CASE TakeOperand
  <2> DEFINE acc == IF Top.op = "" THEN returned ELSE Len(exprs) + 1
             fr == [at |-> "operands", acc |-> acc, op |-> Head(Top.rest).op,
                    rest |-> Tail(Top.rest)]
  <2>1. /\ Top.at = "operands" /\ fr.at = "operands"
        /\ IF Top.rest = << >> THEN Leave(acc) ELSE Resume(fr, Head(Top.rest).term)
    BY <1>6 DEF TakeOperand, At
  <2>2. Gives(Top) \notin {"statement", "declaration", "block"}
    BY <2>1 DEF Gives
  <2> HIDE DEF fr, acc
  <2>3. CASE Top.rest = << >>
    BY <1>1, <2>1, <2>2, <2>3, LeaveOwned, SameFunctions
  <2>4. CASE Top.rest # << >>
    BY <1>2, <2>1, <2>4
  <2>5. QED
    BY <2>3, <2>4
<1>7. CASE NextArgument
  <2>1. /\ At("arguments")
        /\ \/ Resume([at |-> "arguments", function |-> Top.function, rest |-> Tail(Top.rest),
                      args |-> Append(Top.args, Len(exprs) + 1)], Null)
           \/ Resume([Top EXCEPT !.rest = Tail(@)], Head(Top.rest))
    BY <1>7 DEF NextArgument
  <2>2. ASSUME NEW rest, NEW args, NEW node,
               Resume([at |-> "arguments", function |-> Top.function, rest |-> rest,
                       args |-> args], node)
        PROVE  Calm
    <3> DEFINE fr == [at |-> "arguments", function |-> Top.function, rest |-> rest,
                      args |-> args]
    <3>1. fr.at = "arguments" /\ Resume(fr, node)
      BY <2>2
    <3> HIDE DEF fr
    <3>2. QED
      BY <1>2, <3>1
  <2>3. [Top EXCEPT !.rest = Tail(@)] =
            [at |-> "arguments", function |-> Top.function, rest |-> Tail(Top.rest),
             args |-> Top.args]
    BY <2>1, ArgumentFrameIs
  <2>4. QED
    BY <2>1, <2>2, <2>3
<1>8. CASE TakeArgument
  <2>1. At("arguments") /\ \E args : Resume([Top EXCEPT !.args = args], Null)
    BY <1>8 DEF TakeArgument
  <2>2. PICK args : Resume([Top EXCEPT !.args = args], Null)
    BY <2>1
  <2> DEFINE fr == [at |-> "arguments", function |-> Top.function, rest |-> Top.rest,
                    args |-> args]
  <2>3. [Top EXCEPT !.args = args] = fr
    BY <2>1, ArgumentFrameIs
  <2>4. fr.at = "arguments" /\ Resume(fr, Null)
    BY <2>2, <2>3
  <2> HIDE DEF fr
  <2>5. QED
    BY <1>2, <2>4
<1>9. QED
  BY <1>3, <1>4, <1>5, <1>6, <1>7, <1>8

LEMMA DeclareParameterCalm ==
    ASSUME BuilderInv, DeclareParameter PROVE Calm
<1> DEFINE fr == [Top EXCEPT !.next = @ + 1]
           k == Top.next
           f == Top.function
<1>1. /\ At("parameters") /\ Resume(fr, Null) /\ statements' = statements
      /\ currentFunction' = currentFunction
      /\ \/ functions' = functions
         \/ functions' = [functions EXCEPT ![f].parameters[k].symbol = Len(symbols) + 1]
  BY DEF DeclareParameter
<1>2. /\ stack # << >> /\ f \in 1..Len(functions) /\ Top \in ParameterFrames(Len(functions))
  BY <1>1, FunctionFound DEF At
<1>3. fr.at = "parameters"
  <2>1. PICK n, b : Top = [at |-> "parameters", function |-> f, next |-> n, body |-> b,
                           prev |-> Invalid]
    BY <1>2 DEF ParameterFrames
  <2>2. QED
    BY <2>1
<1> HIDE DEF fr
<1>4. functions \in Seq(FunctionEntry)
  BY ModuleSeqs
<1>5. Len(functions') = Len(functions)
  BY <1>1, <1>4
<1>6. \A i \in DOMAIN functions : functions'[i].body = functions[i].body
  <2>1. functions[f] \in FunctionEntry
    BY <1>2, <1>4
  <2>2. [functions[f] EXCEPT !.parameters[k].symbol = Len(symbols) + 1].body
            = functions[f].body
    BY <2>1 DEF FunctionEntry
  <2>3. QED
    BY <1>1, <1>2, <1>4, <2>2
<1>7. \A owner2 : FrameOwned(fr, owner2, currentFunction)
  BY <1>3 DEF FrameOwned
<1>8. \A owner2 : NewFramesOwned(owner2) /\ ResultOwned(owner2)'
  BY <1>1, <1>2, <1>7, ResumeOwned
<1>9. QED
  BY <1>1, <1>5, <1>6, <1>8 DEF Calm
-----------------------------------------------------------------------------
(* The steps that add a statement: it belongs to the current function.     *)
LEMMA InFunction ==
    ASSUME BuilderInv, stack # << >>, Top.at \notin {"script", "parameters", "body"}
    PROVE  currentFunction \in DOMAIN functions
<1>1. Len(stack) >= 3 /\ Len(stack) \in Nat /\ stack \in Seq(FramesNow) /\ Linked(stack)
  BY TopFacts DEF BuilderInv, StackOK
<1>2. currentFunction = stack[2].function
  BY <1>1 DEF BuilderInv, ContextOK
<1>3. stack[2].at \in {"parameters", "body"} /\ stack[2] \in FramesNow
  BY <1>1, Levels
<1>4. stack[2] \in ParameterFrames(Len(functions)) \cup BodyFrames(Len(functions))
  BY <1>3, FramesAt DEF FramesNow
<1>5. stack[2].function \in 1..Len(functions)
  BY <1>4 DEF ParameterFrames, BodyFrames
<1>6. functions \in Seq(FunctionEntry)
  BY ModuleSeqs
<1>7. QED
  BY <1>2, <1>5, <1>6

LEMMA AddedStatementOwned ==
    ASSUME BuilderInv, BuilderInv', ModuleGrows, OwnersInv,
           NEW s, statements' = Append(statements, s),
           functions' = functions, currentFunction' = currentFunction, stack # << >>,
           \A owner, owner2 :
               Owned(owner) /\ OwnersExtend(owner2, owner) =>
                   StatementOwned(s, currentFunction, owner2, blocks', functions', exprs'),
           \/ Return(Len(statements) + 1) /\ Wants(Top) = "statement"
           \/ Leave(Len(statements) + 1) /\ Gives(Top) \in {"statement", "declaration"}
    PROVE  OwnersInv'
<1> DEFINE new == Len(statements) + 1
<1>1. PICK owner \in [DOMAIN statements -> DOMAIN functions] : Owned(owner)
  BY DEF OwnersInv
<1>2. Top.at \notin {"script", "parameters", "body"}
  BY DEF Wants, Gives
<1>3. currentFunction \in DOMAIN functions
  BY <1>2, InFunction
<1>4. /\ DOMAIN statements = 1..Len(statements) /\ DOMAIN statements' = 1..new
      /\ Len(statements) \in Nat /\ statements'[new] = s
      /\ \A i \in Added(statements', statements) : i = new
  BY ModuleSeqs, OneAdded
<1>5. /\ \A i \in DOMAIN statements : i \in DOMAIN statements'
      /\ new \in DOMAIN statements' /\ new \notin DOMAIN statements
  BY <1>4
<1>6. \/ Return(new) /\ Wants(Top) = "statement"
      \/ Leave(new) /\ Gives(Top) \in {"statement", "declaration"}
  OBVIOUS
<1> HIDE DEF new
<1>7. PICK owner2 \in [DOMAIN statements' -> DOMAIN functions'] :
          owner2[new] = currentFunction /\ \A i \in DOMAIN statements : owner2[i] = owner[i]
  <2> DEFINE o == [i \in DOMAIN statements' |->
                     IF i \in DOMAIN statements THEN owner[i] ELSE currentFunction]
  <2>1. o[new] = currentFunction /\ \A i \in DOMAIN statements : o[i] = owner[i]
    BY <1>5
  <2>2. o \in [DOMAIN statements' -> DOMAIN functions']
    BY <1>1, <1>3
  <2> HIDE DEF o
  <2>3. QED
    BY <2>1, <2>2
<1>8. OwnersExtend(owner2, owner)
  BY <1>7 DEF OwnersExtend
<1>9. NewStatementsOwned(owner2)
  BY <1>1, <1>4, <1>7, <1>8 DEF NewStatementsOwned
<1>10. NewBodiesOwned(owner2)
  BY DEF NewBodiesOwned
<1>11. NewFramesOwned(owner2) /\ ResultOwned(owner2)'
  <2>1. CASE Return(new) /\ Wants(Top) = "statement"
    <3>1. Wants(Top) \notin {"declaration", "block"}
      BY <2>1
    <3>2. QED
      BY <1>7, <2>1, <3>1, ReturnOwned
  <2>2. CASE Leave(new) /\ Gives(Top) \in {"statement", "declaration"}
    <3>1. Gives(Top) # "block"
      BY <2>2
    <3>2. QED
      BY <1>7, <2>2, <3>1, LeaveOwned
  <2>3. QED
    BY <1>6, <2>1, <2>2
<1>12. QED
  BY <1>1, <1>8, <1>9, <1>10, <1>11, OwnersStay, Zenon

(* One that is neither a block nor a return.                               *)
LEMMA SimpleStatementOwned ==
    ASSUME BuilderInv, BuilderInv', ModuleGrows, OwnersInv,
           NEW kind \in {"VarDecl", "Expr", "Error"}, NEW kids, NEW ref,
           statements' = Append(statements, Statement(kind, kids, ref)),
           functions' = functions, currentFunction' = currentFunction, stack # << >>,
           \/ Return(Len(statements) + 1) /\ Wants(Top) = "statement"
           \/ Leave(Len(statements) + 1) /\ Gives(Top) \in {"statement", "declaration"}
    PROVE  OwnersInv'
<1> DEFINE s == Statement(kind, kids, ref)
<1>1. s.kind \notin {"Block", "Return"} /\ statements' = Append(statements, s)
  BY DEF Statement
<1> HIDE DEF s
<1>2. \A owner2 : StatementOwned(s, currentFunction, owner2, blocks', functions', exprs')
  BY <1>1 DEF StatementOwned
<1>3. QED
  BY <1>1, <1>2, AddedStatementOwned

LEMMA BuildOtherStatementOwned ==
    ASSUME BuilderInv, BuilderInv', ModuleGrows, OwnersInv, BuildOtherStatement
    PROVE  OwnersInv'
<1>1. /\ call # Null /\ call.node = "OtherStatement" /\ Return(Len(statements) + 1)
      /\ statements' = Append(statements, Statement("Error", << >>, Invalid))
      /\ functions' = functions /\ currentFunction' = currentFunction
  BY CalledIs DEF BuildOtherStatement
<1>2. Wants(Top) = "statement" /\ stack # << >>
  BY <1>1, CalledFacts
<1>3. QED
  BY <1>1, <1>2, SimpleStatementOwned

LEMMA InitializeOwned ==
    ASSUME BuilderInv, BuilderInv', ModuleGrows, OwnersInv, Initialize
    PROVE  OwnersInv'
<1>1. /\ stack # << >> /\ Top.at = "initializer" /\ Leave(Len(statements) + 1)
      /\ functions' = functions /\ currentFunction' = currentFunction
      /\ \E kids : statements' = Append(statements, Statement("VarDecl", kids, Top.symbol))
  BY DEF Initialize, At, VarDecl
<1>2. Gives(Top) = "declaration"
  BY <1>1 DEF Gives
<1>3. QED
  BY <1>1, <1>2, SimpleStatementOwned

LEMMA EndExprStatOwned ==
    ASSUME BuilderInv, BuilderInv', ModuleGrows, OwnersInv, EndExprStat
    PROVE  OwnersInv'
<1>1. /\ stack # << >> /\ Top.at = "exprStat" /\ Leave(Len(statements) + 1)
      /\ functions' = functions /\ currentFunction' = currentFunction
      /\ \E kids : statements' = Append(statements, Statement("Expr", kids, Invalid))
  BY DEF EndExprStat, At
<1>2. Gives(Top) = "statement"
  BY <1>1 DEF Gives
<1>3. QED
  BY <1>1, <1>2, SimpleStatementOwned

LEMMA EndReturnOwned ==
    ASSUME BuilderInv, BuilderInv', ModuleGrows, OwnersInv, EndReturn
    PROVE  OwnersInv'
<1>1. /\ stack # << >> /\ Top.at = "return" /\ Leave(Len(statements) + 1)
      /\ functions' = functions /\ currentFunction' = currentFunction
  BY EndReturnFacts
<1>2. PICK kids :
          /\ statements' = Append(statements, Statement("Return", kids, Invalid))
          /\ \A k \in DOMAIN kids : Agree(exprs'[kids[k]].type, Expected)
  BY EndReturnFacts
<1> DEFINE s == Statement("Return", kids, Invalid)
<1>3. s.kind = "Return" /\ s.kids = kids /\ statements' = Append(statements, s)
  BY <1>2 DEF Statement
<1> HIDE DEF s
<1>4. \A owner2 : StatementOwned(s, currentFunction, owner2, blocks', functions', exprs')
  BY <1>1, <1>2, <1>3 DEF StatementOwned, Expected
<1>5. Gives(Top) = "statement"
  BY <1>1 DEF Gives
<1>6. QED
  BY <1>1, <1>3, <1>4, <1>5, AddedStatementOwned
-----------------------------------------------------------------------------
(* The steps that take what has been built: it all belongs to the current  *)
(* function.                                                               *)
LEMMA TakenOwned ==
    ASSUME BuilderInv, NEW point \in {"statements", "declarators"}, At(point),
           NEW owner, Owned(owner)
    PROVE  BlockOwned(Taken, owner, currentFunction)
<1>1. /\ stack # << >> /\ Top.at = point /\ Top \in FramesNow
      /\ point = "statements" => Top \in StatementFrames(Len(statements))
      /\ point = "declarators" => Top \in DeclaratorFrames(Len(types), Len(statements))
  BY AtFacts, FramesAt
<1>2. Len(stack) \in DOMAIN stack
  <2>1. stack \in Seq(FramesNow) /\ Len(stack) \in Nat \ {0}
    BY <1>1, TopFacts DEF BuilderInv, StackOK
  <2>2. QED
    BY <2>1
<1>3. \A k \in DOMAIN Top.statements : owner[Top.statements[k]] = currentFunction
  BY <1>1, <1>2 DEF Owned, FrameOwned, Top
<1>4. returned # Invalid => owner[returned] = currentFunction
  <2>1. Wants(Top) \in {"statement", "declaration"}
    BY <1>1 DEF Wants
  <2>2. QED
    BY <1>1, <2>1 DEF Owned, ResultOwned
<1>5. Top.statements \in Seq(1..Len(statements))
  BY <1>1 DEF StatementFrames, DeclaratorFrames
<1>6. CASE returned = Invalid
  BY <1>3, <1>6 DEF Taken, BlockOwned
<1>7. CASE returned # Invalid
  <2> DEFINE old == Top.statements
  <2>1. Taken = Append(old, returned)
    BY <1>7 DEF Taken
  <2> HIDE DEF old
  <2>2. old \in Seq(1..Len(statements)) /\ \A k \in DOMAIN old : owner[old[k]] = currentFunction
    BY <1>3, <1>5 DEF old
  <2>3. /\ DOMAIN Taken = 1..(Len(old) + 1) /\ Taken[Len(old) + 1] = returned
        /\ \A k \in 1..Len(old) : Taken[k] = old[k] /\ k \in DOMAIN old
        /\ Len(old) \in Nat
    BY <2>1, <2>2
  <2>4. \A k \in DOMAIN Taken : k \in 1..Len(old) \/ k = Len(old) + 1
    BY <2>3
  <2>5. QED
    BY <1>4, <1>7, <2>2, <2>3, <2>4 DEF BlockOwned
<1>8. QED
  BY <1>6, <1>7

LEMMA NextStatementCalm ==
    ASSUME BuilderInv, NextStatement, NEW owner, Owned(owner)
    PROVE  NewFramesOwned(owner) /\ ResultOwned(owner)'
<1> DEFINE fr == [at |-> "statements", rest |-> Tail(Top.rest), statements |-> Taken,
                  isBody |-> Top.isBody]
<1>1. /\ At("statements") /\ stack # << >> /\ Resume(fr, Head(Top.rest))
      /\ currentFunction' = currentFunction
  BY DEF NextStatement, At
<1>2. fr.statements = Taken
  OBVIOUS
<1> HIDE DEF fr
<1>3. FrameOwned(fr, owner, currentFunction)
  BY <1>1, <1>2, TakenOwned DEF FrameOwned, BlockOwned
<1>4. QED
  BY <1>1, <1>3, ResumeOwned

LEMMA NextDeclaratorCalm ==
    ASSUME BuilderInv, NextDeclarator, NEW owner, Owned(owner)
    PROVE  NewFramesOwned(owner) /\ ResultOwned(owner)'
<1> DEFINE loop == [at |-> "declarators", rest |-> Tail(Top.rest), statements |-> Taken,
                    type |-> Top.type]
           fr == [at |-> "initializer", symbol |-> Len(symbols) + 1, type |-> Top.type]
<1>1. /\ At("declarators") /\ stack # << >> /\ returned' = Invalid
      /\ stack' = Below \o <<loop, fr>> /\ currentFunction' = currentFunction
  BY DEF NextDeclarator, At
<1>2. loop.statements = Taken /\ fr.at = "initializer"
  OBVIOUS
<1> HIDE DEF loop, fr
<1>3. /\ FrameOwned(loop, owner, currentFunction)
      /\ FrameOwned(fr, owner, currentFunction)
  BY <1>1, <1>2, TakenOwned DEF FrameOwned, BlockOwned
<1>4. /\ Below \in Seq(FramesNow) /\ Len(Below) = Len(stack) - 1 /\ Len(stack) \in Nat \ {0}
      /\ \A i \in 1..Len(Below) : Below[i] = stack[i]
      /\ stack \in Seq(FramesNow)
  BY <1>1, TopFacts DEF BuilderInv, StackOK
<1>5. /\ DOMAIN stack' = 1..(Len(stack) + 1) /\ DOMAIN stack = 1..Len(stack)
      /\ \A i \in 1..(Len(stack) - 1) : stack'[i] = stack[i]
      /\ stack'[Len(stack)] = loop /\ stack'[Len(stack) + 1] = fr
  <2> DEFINE S == FramesNow \cup {loop, fr}
  <2>1. Below \in Seq(S) /\ loop \in S /\ fr \in S
    BY <1>4
  <2> HIDE DEF S
  <2>2. stack' = Append(Append(Below, loop), fr)
    BY <1>1, <2>1, AppendTwice
  <2>3. QED
    BY <1>4, <2>1, <2>2
<1>6. \A i \in DOMAIN stack' :
          i \in 1..(Len(stack) - 1) \/ i = Len(stack) \/ i = Len(stack) + 1
  BY <1>4, <1>5
<1>7. \A i \in 1..(Len(stack) - 1) : i \in DOMAIN stack
  BY <1>4, <1>5
<1>8. QED
  BY <1>1, <1>3, <1>5, <1>6, <1>7 DEF NewFramesOwned, ResultOwned

LEMMA SameOwners ==
    ASSUME BuilderInv, BuilderInv', ModuleGrows,
           NEW owner \in [DOMAIN statements -> DOMAIN functions], Owned(owner),
           statements' = statements, NewBodiesOwned(owner),
           NewFramesOwned(owner), ResultOwned(owner)'
    PROVE  OwnersInv'
<1>1. DOMAIN functions \subseteq DOMAIN functions'
  BY BlocksKept, TypesKept
<1>2. OwnersExtend(owner, owner)
  BY <1>1 DEF OwnersExtend
<1>3. NewStatementsOwned(owner)
  BY ModuleSeqs DEF NewStatementsOwned
<1>4. QED
  BY <1>2, <1>3, OwnersStay

LEMMA NextOwned ==
    ASSUME BuilderInv, BuilderInv', ModuleGrows, OwnersInv, NextStatement \/ NextDeclarator
    PROVE  OwnersInv'
<1>1. PICK owner \in [DOMAIN statements -> DOMAIN functions] : Owned(owner)
  BY DEF OwnersInv
<1>2. statements' = statements /\ functions' = functions
  BY DEF NextStatement, NextDeclarator, arena
<1>3. NewBodiesOwned(owner)
  BY <1>2 DEF NewBodiesOwned
<1>4. NewFramesOwned(owner) /\ ResultOwned(owner)'
  BY <1>1, NextStatementCalm, NextDeclaratorCalm
<1>5. QED
  BY <1>1, <1>2, <1>3, <1>4, SameOwners

LEMMA BlockStatementOwned ==
    ASSUME BuilderInv, BuilderInv', ModuleGrows, OwnersInv,
           NEW point \in {"statements", "declarators"}, At(point),
           blocks' = Append(blocks, Taken),
           statements' = Append(statements, Statement("Block", << >>, Len(blocks) + 1)),
           functions' = functions, currentFunction' = currentFunction,
           Leave(Len(statements) + 1), Gives(Top) = "statement"
    PROVE  OwnersInv'
<1> DEFINE s == Statement("Block", << >>, Len(blocks) + 1)
           S == 1..Len(statements)
<1>1. /\ s.kind = "Block" /\ s.ref = Len(blocks) + 1
      /\ statements' = Append(statements, s)
  BY DEF Statement
<1>2. Taken \in Seq(S) /\ stack # << >>
  BY TakenOK
<1>3. blocks' [Len(blocks) + 1] = Taken
  <2>1. blocks \in Seq(Seq(S))
    BY DEF BuilderInv, ModuleOK
  <2>2. QED
    BY <2>1
<1>4. S = DOMAIN statements
  BY BlocksKept
<1> HIDE DEF s, S
<1>5. ASSUME NEW owner, NEW owner2, Owned(owner), OwnersExtend(owner2, owner)
      PROVE  StatementOwned(s, currentFunction, owner2, blocks', functions', exprs')
  <2>1. BlockOwned(Taken, owner, currentFunction)
    BY <1>5, TakenOwned
  <2>2. \A i \in S : owner2[i] = owner[i]
    BY <1>4, <1>5 DEF OwnersExtend
  <2>3. BlockOwned(Taken, owner2, currentFunction)
    BY <1>2, <2>1, <2>2, BlockStays
  <2>4. QED
    BY <1>1, <1>3, <2>3 DEF StatementOwned
<1>6. \A owner, owner2 :
          Owned(owner) /\ OwnersExtend(owner2, owner) =>
              StatementOwned(s, currentFunction, owner2, blocks', functions', exprs')
  BY <1>5
<1>7. QED
  BY <1>1, <1>2, <1>6, AddedStatementOwned

LEMMA CloseBlockOwned ==
    ASSUME BuilderInv, BuilderInv', ModuleGrows, OwnersInv, CloseBlock
    PROVE  OwnersInv'
<1>1. /\ At("statements") /\ stack # << >> /\ Top.at = "statements"
      /\ blocks' = Append(blocks, Taken)
      /\ functions' = functions /\ currentFunction' = currentFunction
  BY DEF CloseBlock, At
<1>2. CASE Top.isBody
  <2>1. statements' = statements /\ Leave(Len(blocks) + 1)
    BY <1>2 DEF CloseBlock
  <2>2. Gives(Top) = "block"
    BY <1>1, <1>2 DEF Gives
  <2>3. blocks' [Len(blocks) + 1] = Taken
    <3>1. blocks \in Seq(Seq(1..Len(statements)))
      BY DEF BuilderInv, ModuleOK
    <3>2. QED
      BY <1>1, <3>1
  <2>4. PICK owner \in [DOMAIN statements -> DOMAIN functions] : Owned(owner)
    BY DEF OwnersInv
  <2>5. BlockOwned(blocks'[Len(blocks) + 1], owner, currentFunction)
    BY <1>1, <2>3, <2>4, TakenOwned
  <2>6. NewFramesOwned(owner) /\ ResultOwned(owner)'
    BY <1>1, <2>1, <2>2, <2>5, LeaveOwned
  <2>7. NewBodiesOwned(owner)
    BY <1>1 DEF NewBodiesOwned
  <2>8. QED
    BY <2>1, <2>4, <2>6, <2>7, SameOwners
<1>3. CASE ~Top.isBody
  <2>1. /\ statements' = Append(statements, Statement("Block", << >>, Len(blocks) + 1))
        /\ Leave(Len(statements) + 1)
    BY <1>3 DEF CloseBlock
  <2>2. Gives(Top) = "statement"
    BY <1>1, <1>3 DEF Gives
  <2>3. QED
    BY <1>1, <2>1, <2>2, BlockStatementOwned
<1>4. QED
  BY <1>2, <1>3

LEMMA EndVarDeclOwned ==
    ASSUME BuilderInv, BuilderInv', ModuleGrows, OwnersInv, EndVarDecl
    PROVE  OwnersInv'
<1>1. /\ At("declarators") /\ stack # << >> /\ Top.at = "declarators" /\ Top.rest = << >>
      /\ functions' = functions /\ currentFunction' = currentFunction
  BY DEF EndVarDecl, At
<1>2. Gives(Top) = "statement" /\ Wants(Top) = "declaration"
  BY <1>1 DEF Gives, Wants
<1>3. CASE Len(Taken) = 1
  <2>1. statements' = statements /\ Leave(returned)
    BY <1>3 DEF EndVarDecl
  <2>2. PICK owner \in [DOMAIN statements -> DOMAIN functions] : Owned(owner)
    BY DEF OwnersInv
  <2>3. returned # Invalid
    <3>1. returned \in 1..Len(statements)
      BY <1>1, TakenOK
    <3>2. QED
      BY <3>1, ModuleSeqs DEF Invalid
  <2>4. owner[returned] = currentFunction
    BY <1>1, <1>2, <2>2, <2>3 DEF Owned, ResultOwned
  <2>5. NewFramesOwned(owner) /\ ResultOwned(owner)'
    BY <1>1, <1>2, <2>1, <2>4, LeaveOwned
  <2>6. NewBodiesOwned(owner)
    BY <1>1 DEF NewBodiesOwned
  <2>7. QED
    BY <2>1, <2>2, <2>5, <2>6, SameOwners
<1>4. CASE Len(Taken) # 1
  <2>1. /\ blocks' = Append(blocks, Taken) /\ Leave(Len(statements) + 1)
        /\ statements' = Append(statements, Statement("Block", << >>, Len(blocks) + 1))
    BY <1>4 DEF EndVarDecl
  <2>2. QED
    BY <1>1, <1>2, <2>1, BlockStatementOwned
<1>5. QED
  BY <1>3, <1>4

(* The body of a function is the block that has been returned to it.       *)
LEMMA EndFunctionOwned ==
    ASSUME BuilderInv, BuilderInv', ModuleGrows, OwnersInv, EndFunction
    PROVE  OwnersInv'
<1> DEFINE f == Top.function
           g == [functions[f] EXCEPT !.body = returned]
<1>1. /\ At("body") /\ functions' = [functions EXCEPT ![f] = g]
      /\ Leave(Invalid) /\ statements' = statements /\ blocks' = blocks
  BY DEF EndFunction
<1>2. /\ f \in 1..Len(functions) /\ currentFunction = f /\ Top.at = "body" /\ stack # << >>
      /\ stack[1] \in ScriptFrames /\ Below = <<stack[1]>>
  BY <1>1, FunctionFound DEF At
<1>3. PICK owner \in [DOMAIN statements -> DOMAIN functions] : Owned(owner)
  BY DEF OwnersInv
<1>4. returned # Invalid => BlockOwned(blocks[returned], owner, f)
  <2>1. Wants(Top) = "block"
    BY <1>2 DEF Wants
  <2>2. QED
    BY <1>2, <1>3, <2>1 DEF Owned, ResultOwned
<1>5. functions \in Seq(FunctionEntry)
  BY ModuleSeqs
<1>6. g.body = returned
  <2>1. functions[f] \in FunctionEntry
    BY <1>2, <1>5
  <2>2. QED
    BY <2>1 DEF FunctionEntry
<1> HIDE DEF g
<1>7. \A i \in DOMAIN functions' :
          i \in DOMAIN functions /\ functions'[i] = IF i = f THEN g ELSE functions[i]
  BY <1>1, <1>2, <1>5
<1>8. NewBodiesOwned(owner)
  BY <1>1, <1>4, <1>6, <1>7 DEF NewBodiesOwned
<1>9. stack' = <<stack[1]>> /\ returned' = Invalid
  BY <1>1, <1>2 DEF Leave
<1>10. stack[1].at = "script"
  BY <1>2 DEF ScriptFrames
<1>11. NewFramesOwned(owner) /\ ResultOwned(owner)'
  BY <1>9, <1>10 DEF NewFramesOwned, FrameOwned, ResultOwned
<1>12. QED
  BY <1>1, <1>3, <1>8, <1>11, SameOwners

(* A function that is declared has no body yet.                            *)
LEMMA BuildFunctionOwned ==
    ASSUME BuilderInv, BuilderInv', ModuleGrows, OwnersInv, BuildFunction
    PROVE  OwnersInv'
<1> DEFINE caller == [Top EXCEPT !.next = @ + 1]
           fr == [at |-> "parameters", function |-> Len(functions) + 1, next |-> 1,
                  body |-> script[Top.next].body, prev |-> currentFunction]
<1>1. /\ At("script") /\ statements' = statements /\ returned' = returned
      /\ stack' = Append(Below, caller) \/ stack' = Below \o <<caller, fr>>
  BY DEF BuildFunction
<1>2. returned = Invalid /\ Below = << >> /\ caller \in ScriptFrames
  BY <1>1, ScriptFound
<1>3. PICK g : functions' = Append(functions, g) /\ g.body = Invalid
  <2>1. \A name, type, ps, symbol : Function(name, type, ps, symbol).body = Invalid
    BY DEF Function
  <2>2. \E name, type, ps, symbol :
            functions' = Append(functions, Function(name, type, ps, symbol))
    BY Zenon DEF BuildFunction
  <2>3. QED
    BY <2>1, <2>2, Zenon
<1>4. PICK owner \in [DOMAIN statements -> DOMAIN functions] : Owned(owner)
  BY DEF OwnersInv
<1>5. NewBodiesOwned(owner)
  <2>1. functions \in Seq(FunctionEntry) /\ Len(functions) \in Nat
    BY ModuleSeqs
  <2>2. /\ DOMAIN functions' = 1..(Len(functions) + 1) /\ DOMAIN functions = 1..Len(functions)
        /\ functions'[Len(functions) + 1] = g
        /\ \A i \in 1..Len(functions) : functions'[i] = functions[i]
    BY <1>3, <2>1
  <2>3. \A i \in DOMAIN functions' : i \in 1..Len(functions) \/ i = Len(functions) + 1
    BY <2>1, <2>2
  <2>4. QED
    BY <1>3, <2>2, <2>3 DEF NewBodiesOwned
<1>6. caller.at = "script" /\ fr.at = "parameters"
  BY <1>2 DEF ScriptFrames
<1> HIDE DEF caller, fr
<1>7. \A cur : FrameOwned(caller, owner, cur) /\ FrameOwned(fr, owner, cur)
  BY <1>6 DEF FrameOwned
<1>8. \A i \in DOMAIN stack' : stack'[i] = caller \/ stack'[i] = fr
  <2>1. stack' = <<caller>> \/ stack' = <<caller, fr>>
    BY <1>1, <1>2, ShortAppend
  <2>2. QED
    BY <2>1
<1>9. NewFramesOwned(owner) /\ ResultOwned(owner)'
  BY <1>1, <1>2, <1>7, <1>8 DEF NewFramesOwned, ResultOwned
<1>10. QED
  BY <1>1, <1>4, <1>5, <1>9, SameOwners

LEMMA NextKeepsOwners ==
    ASSUME BuilderInv, BuilderInv', ModuleGrows, OwnersInv, Next
    PROVE  OwnersInv'
<1>1. CASE BuildTopLevel
  BY <1>1, ResumesCalm, LeavesCalm, DeclareParameterCalm, CalmKeepsOwners, BuildFunctionOwned,
     EndFunctionOwned DEF BuildTopLevel
<1>2. CASE BuildStatement
  BY <1>2, CallsCalm, ReturnsCalm, CalmKeepsOwners, NextOwned, CloseBlockOwned,
     BuildOtherStatementOwned, InitializeOwned, EndVarDeclOwned, EndExprStatOwned,
     EndReturnOwned DEF BuildStatement
<1>3. CASE BuildExpression
  BY <1>3, CallsCalm, ReturnsCalm, LeavesCalm, ResumesCalm, CalmKeepsOwners
     DEF BuildExpression
<1>4. QED
  BY <1>1, <1>2, <1>3 DEF Next

LEMMA OwnersInvariance == Spec => []OwnersInv
<1>1. Init => OwnersInv
  <2>1. SUFFICES ASSUME Init PROVE OwnersInv
    OBVIOUS
  <2>2. /\ functions = << >> /\ statements = << >>
        /\ stack = <<[at |-> "script", next |-> 1]>> /\ returned = Invalid
    BY <2>1 DEF Init
  <2> DEFINE fr == [at |-> "script", next |-> 1]
             owner == [i \in {} |-> Invalid]
  <2>3. FrameOwned(fr, owner, currentFunction)
    BY DEF FrameOwned
  <2> HIDE DEF fr
  <2>4. \A i \in DOMAIN stack : FrameOwned(stack[i], owner, currentFunction)
    BY <2>2, <2>3 DEF fr
  <2>5. owner \in [DOMAIN statements -> DOMAIN functions]
    BY <2>2
  <2> HIDE DEF owner
  <2>6. Owned(owner)
    BY <2>2, <2>4 DEF Owned, ResultOwned
  <2>7. QED
    BY <2>5, <2>6 DEF OwnersInv
<1>2. OwnersInv /\ BuilderInv /\ BuilderInv' /\ [Next]_vars => OwnersInv'
  <2>1. CASE Next
    BY <2>1, NextGrows, NextKeepsOwners
  <2>2. CASE UNCHANGED vars
    BY <2>2 DEF vars, arena, OwnersInv, Owned, ResultOwned, Top
  <2>3. QED
    BY <2>1, <2>2
<1>3. QED
  BY <1>1, <1>2, BuilderInvariance, PTL DEF Spec

(* What the source converts, and what a function returns, has the type     *)
(* that is asked for, and no error type goes unreported.                   *)
THEOREM BuiltTypesAgree == Spec => []TypesAgree
<1>1. TypesInv => ConversionsAgree /\ ErrorTypesReported
  BY DEF TypesInv, ConversionsAgree, ErrorTypesReported, DeclAgrees, ExprClean
<1>2. OwnersInv => ReturnsAgree
  BY DEF OwnersInv, Owned, StatementOwned, BlockOwned, ReturnsAgree
<1>3. TypesInv /\ OwnersInv => TypesAgree
  BY <1>1, <1>2 DEF TypesAgree
<1>4. QED
  BY <1>3, TypesInvariance, OwnersInvariance, PTL
=============================================================================
