# light-angel in TLA+

light-angel is a front end for the AngelScript language, written in C++. `Parse` lexes and parses a source into a
syntax tree (`src/src/parser/`), `BuildSirModule` resolves the tree into a typed intermediate representation
(`src/src/sir/`). Everything runs in the thread of the caller: there is no concurrency, nothing is persisted and no
message is exchanged. What is hard in this code is *sequential*: a hand-written recursive descent of about sixty mutually
recursive functions that backtracks without limit over a token buffer which is filled on demand and **edited in place**
while saved cursors point into it. Every function has its own way of giving up, and whether the whole is right depends
on what the functions around it do next. That is what these specifications are about.

## 1. The system

| component | code | state | operations |
|---|---|---|---|
| token buffer | `src/src/parser/parser_context.{h,cpp}` | `m_tokens`, `m_cursor`, `m_diagnostics`, the lexer's position | `peek`, `check`, `advance`, `consumeOneGt`, `saveCursor`, `rewindTo`, `spanFrom`, `advanceError`, `expectToken` |
| parser | `src/src/parser/parser.cpp` | the C++ call stack, nodes under construction | `Parse` and one `parseX` for each production |
| documented grammar | `src/bnf.txt`, and the comment above each `parseX` | - | - |
| syntax tree | `src/include/light_angel/parser/node.h` | node kinds, children, token leaves, spans | constructors, `AsNode` |
| tokens, diagnostics | `src/include/light_angel/parser/token.h` | kind, text, span | - |
| lexer | `src/src/parser/lexer.cpp` | position in the source | `Lex` |
| SIR arena | `src/include/light_angel/sir/` | vectors of types, symbols, functions, statements, expressions, addressed by id | `add…`, `get…` |
| SIR builder | `src/src/sir/sir_builder.cpp`, `sir_builder_context.cpp` | scope stack, current function, diagnostics | one `build…` for each kind of node, `implicitCast`, lookup |
| formatting of diagnostics | `formatDiagnostics` in `parser.cpp` | - | offset to line and column, caret line |
| tests, sandbox, scripts, fmt | `src/test`, `src/sandbox`, `src/*.py`, `src/src/fmt` | - | drivers, tooling and a vendored library |

How they interact:

* a `parseX` calls other `parseX`s and the token buffer. It returns a node, or `nullptr`. With `nullptr` it has either
  left the buffer as it was, rewound it, or **left it where it got to**: the caller cannot tell.
* the token buffer calls `Lex` from inside `ensureAhead`, and so from `peek`, which is `const`: lookahead lexes, and
  reports characters no token starts with.
* `consumeOneGt` replaces `>>` in the buffer by `>` `>`. A later rewind moves the cursor back but does not undo the
  replacement, nor does it withdraw diagnostics.
* the SIR builder only reads the finished tree and appends to its own arena. Its functions call each other recursively
  and share a stack of scopes and the current function, which each of them has to leave as it found them.

What is hard, and what would make each component correct:

* **token buffer**: lookahead, splits, rewinds and bad characters in any order. Correct if no index is out of bounds, the
  buffer always spells the source (nothing lost, nothing twice), a saved cursor keeps its meaning, a bad character is
  reported exactly once, node spans cover what was consumed, and each request returns.
* **parser**: alternatives tried in order with partial failure. Correct if every rewind goes to a cursor of the function
  that rewinds, no token is in two nodes, every loop ends, and the parser accepts the programs of `bnf.txt`, only them,
  and keeps what they say in the tree.
* **lexer**: correct if tokens come in order, do not overlap, and end with one end of file; longest match at each point;
  nothing but white space and comments lies between them, and what a token is depends on its own text only.
* **SIR builder**: correct if scopes nest and are restored, ids refer to what exists, the module says what the script
  says, each name is resolved to the innermost declaration, values are converted where the source converts them, and an
  error is reported if and only if there is one. What the builder does not read yet (scopes, template arguments and
  more, see section 3) limits this, and the properties say how far.
* **formatting**: correct if the line that is shown holds the token and the caret stands under it.

`PROJECT.json` lists the hazards of this code, each at its line with the properties that cover it.

## 2. The modules

```
TokenReader  <--implements--  ParserContext  <--  MCParserContext
      ^                             ^
      |                             +-----------  ParserContext_proofs
      +-----uses it rightly--  Parser  <--  ParserRules  <--  ParseSteps
                                  ^
                   Grammar  --> ParserLanguage  <--  MCParser

ParserRules  <--  RuleShapes  <--  RuleShapes_proofs
                      ^                   ^
Parser  <------  ParserInvariant  <--  Parser_proofs  <--  ParserReader_proofs

Lexemes (used by ParserContext)  <--  Lexer  <--  SourceLines  <--  MCLexer
                                                      ^-------  Lexer_proofs

SirBuilder  <--  SirMeaning  <--  MCSirBuilder
     ^---------  SirBuilder_proofs  <--  SirTypes_proofs
                         ^-------------  SirTree_proofs
```

**`TokenReader`** is the abstract specification of the buffer: a set of character positions, read from the front in
non-empty pieces, that can be put back exactly as it was at a marked point. It knows no lexer, no tokens and no indices.

**`ParserContext`** is the buffer with everything that may call it. A caller's request (`Request`), every turn of the
loop in `ensureAhead` (`LexToken`, `LexUnknown`), and the answer (`PeekReturns`, `AdvanceReturns`,
`ConsumeOneGtReturns`, `AdvanceErrorReturns`, `ExpectTokenReturns`) are actions; `Save`, `RewindTo` and `Forget` are the
life of the `ParserCursor` values that parse functions hold. The caller is as free as the code allows: it may do any
operation at any time, except that it looks past a token only once it has seen that the token is not the end of file
(`MayLook`), which is how every caller in `parser.cpp` does it and what `peek` needs: it does not check its index. A
lexeme is its kind, its span and the number of `>` it starts with. The source is given as the lexemes `Lex` would yield
for it; `WellLexed` says what is assumed of them. One action of the model is one piece of code between two changes of
`m_tokens`; the code is single-threaded, so that this only makes the states *inside* a call visible.

**`ParseSteps`**, **`ParserRules`** and **`Parser`** are the recursive descent. `ParserRules` has one definition for
each `parseX`, under its name in the code, as the sequence of things the function does: step over a token, try
functions in turn, loop, save and rewind. What the function does when something is missing is part of every step
(`ParseSteps` lists the nine ways there are: leave the cursor, rewind, report and go on, ...): the guards, early returns
and error paths of `parser.cpp` are there one for one. `Parser` runs them as a state machine: a stack of frames, and one
action for each kind of step. Names, numbers and punctuation are tokens with a text and a span; flags that are set on a
node (`isConst`, access, attributes) and the wording of messages are left out; children and token leaves are kept in
source order, with the spans `spanFrom` computes, and diagnostics are kept with their place. The constants are `Words`,
the texts a token can have, and `Inputs`, the token sequences; `WordsAssumption` says of them what the lexer makes sure of:
sources are well lexed, and a token of `>`s, which `consumeOneGt` may split, is as long as its text. The code's local
C++ idioms map as follows.

| code | model |
|---|---|
| a call of `parseX` | `Call` pushes a frame; its result is taken up by `Resumed` in the caller |
| `return nullptr` with/without `rewindTo(start)` | `MissNull` |
| `expectToken` whose result is ignored / is tested | miss `"report"` / `"reportNull"`, `"reportBack"` |
| `while (!isEnd() && ...)`, `break` | `EnterLoop`, `NextRound`, `MissBreak` |
| a cursor saved in the middle of a function | `EnterTry`, `TrySucceeds`, `MissFail` |
| `canConsumeGt`, `consumeOneGt` | `CloseTemplate` |
| `canParseLambda`, `skipMetadata` | `CanParseLambda`, `AfterMetadata` |

The model was also compared with the compiled parser outside of this directory: on 6,300 random token sequences the
diagnostics, the trees and the spans of all nodes were the same.

**`RuleShapes`** says what the functions of `ParserRules` have in common whatever they parse, and **`ParserInvariant`** what
is true of the running ones at any moment; both are there for the proofs (section 4).

**`Grammar`** is `bnf.txt` as data, production by production, with an operator that computes what it derives, and
**`ParserLanguage`** holds the two against each other.

**`Lexemes`** is the interface between lexer and token buffer: a lexeme, and `WellLexed`, what the buffer takes for
granted about a sequence of them.

**`Lexer`** is `Lex`. A source is a sequence of characters: letters, digits and punctuation are themselves, quotes, line
breaks and the like have names, and of the bytes above 0x7f four stand for the rest (those of the byte-order mark, and
one more). Each turn of the loop in `Lex` is an action: `SkipByteOrderMark`, `SkipBlank`, `SkipComment`, and one for each
`tryLex...`, tried in that order, with `LexUnknown` for what none of them takes and `LexEnd` for the end of file. The
scanning functions are operators from a source and an offset to the offset behind the token (`NumberEnd`, `StringEnd`,
`PunctuatorEnd`, ...). `PunctuatorsFrom` is the long chain of `if`s in `tryLexPunctuator`, in its order, which is what decides.

**`SourceLines`** has the functions that place a span in a report: `LineColumn` is `offsetToLineColumn`, character by
character as the loop does it, `SourceLine` is `getSourceLine`, and `Carets` the column and length of the line below.

**`SirBuilder`** is `BuildSirModule`. A tree is a record whose `node` is the kind of node; the model takes any tree
that `WellFormed` allows, which is what the parser leaves in a node's fields. Fields that no build function reads are in
the tree, too: `elseExpr` of a condition as the node it is, all others by name in the node's field `unread`, which
`Unread` lists for each kind of node. The arena is a sequence for each vector of
`SirModule`; ids count from 1, 0 is the invalid id. The build functions are recursive, so their call stack is part of
the state: a frame is a function that has called another and goes on when that returns, and its field `at` says where.

| code | model |
|---|---|
| a call `buildX(node)` | `call` is the node; the action `BuildX` takes it |
| what `buildX` does behind a call | an action of its own (`BuildRhs`, `Assign`, `EndReturn`, `CloseBlock`, ...), which finds the result in `returned` |
| a loop over statements, declarators, operands, arguments | a frame with what is left (`rest`) and what has been built |
| `return buildY(child)` | `TailCall`: no frame |
| `pushScope`, `popScope`, `declareInScope`, `lookupName` | `Pushed`, `Popped`, `Declared`, `Lookup` |
| `makeImplicitCastIfNeeded` | `CastTo`, `WithCast` |
| `makeErrorExpr`, `reportDiagnostic` | `MakeErrorExpr`, `Report` |

Spans, literal values and the names in messages are left out. **`SirMeaning`** reads script and module as sequences of
items and compares them; it says what building *means* without following the builder's steps.

Lexer and builder, too, were compared with the compiled code outside of this directory: all 25,470 sources of the run
`Lexer` give the same tokens, and all 1,865 scripts of the run `SirBuilder`, written out as source text, the same
arena, entry by entry. For the latter the parser had to be changed in a copy so that it makes function calls at all, and
returned values were put in parentheses, for the reasons given below (1994, 1233).

**`MCParserContext`**, **`MCParser`**, **`MCLexer`** and **`MCSirBuilder`** give the sources and scripts for TLC.
**`ParserContext_proofs`**, **`RuleShapes_proofs`**, **`Parser_proofs`**, **`ParserReader_proofs`**, **`Lexer_proofs`**,
**`SirBuilder_proofs`**, **`SirTypes_proofs`** and **`SirTree_proofs`** hold the proofs.

Definitions whose names start with `Wrong` are faults a change to the code could bring in. Nothing uses them; each is
there because a property has been seen to fail when it takes the place of the definition after it (the pairs are in
`PROJECT.json` under `mutants`), which is what shows that the property says something about the code.

## 3. What the runs check

All with `tlc -config <run>.cfg <module>`.

### ParserContext (`MCParserContext`)

The whole state space of the buffer over *every* source of at most two lexemes out of a name, `>`, `>>`, `>>=` and a bad
character, touching or a space apart, with lookahead 1, two saved cursors and one report by a caller: about 275,000
distinct states.

* `ReadsInBounds`: whatever came before, the token a request is about to read exists.
* `EofStaysAhead`: the end of file is delivered once, last, and never consumed.
* `TokensSpellSource`: after any splits the buffer spells the lexed source: in order, nothing twice, nothing lost.
* `UnknownReportedOnce`: a bad character is reported once however often the parser backtracks over it.
* `SpansCoverConsumed`: `spanFrom(m)` covers exactly what was consumed since `m`, also when a token was split after `m`.
* `MarksKeepText`: no step changes the text in front of a live saved cursor.
* `ImplementsReader`: the buffer implements `TokenReader`.
* `RequestsAnswered`: every request returns.

Bounds: two lexemes are enough for a `>>=` to be split twice (into three tokens), with something on either side of it, for
marks before, between and after the pieces, and for a bad character to be first, last, or between two lookaheads.
`MaxDiags` only bounds reports made by callers, on which nothing depends; with one of them reports by the lexer and by a
caller interleave. Proofs (section 4) cover all sources and all bounds.

### The parser (`MCParser`)

A scenario is a fixed beginning, every sequence of at most so many words of a small set, and a fixed end; a run checks
*every* such source from the start of `Parse` to its end. The scenarios are chosen where the code backtracks or where
alternatives compete.

* **ParserBacktracking**: expressions that may be template arguments (`a <` followed by up to three of `a < >> > ( [`),
  scopes with metadata, and the parameters of a lambda. `RewindsNest`: what is put back was consumed by the function that
  puts it back. `KidsInConsumedText`: no token is in two nodes, siblings are disjoint, nodes cover their children; the
  exception is a node that consumed nothing, since `spanFrom` gives it the token ahead, which may be in the node after it
  too (`function ( { ) ) {`: the first `{` is in the parameter's span and begins the body). `NodesConsume`: a function
  that returns a node of its own has consumed a token, which is what ends the loops.
* **ParserDeclarations**: up to four of `class { } ; namespace a`. There the parser is exactly right: `AcceptsAllOfBnf`
  (nothing is reported about a source `bnf.txt` derives), `AcceptsOnlyBnf` (everything else is reported), `ContentKept`
  (every name and literal is in the tree).
* **ParserPrograms**: members of a class, what may follow an `if`, accessors after a getter. `AcceptsAllOfBnf` and
  `ContentKept`, where five alternatives share a beginning, and `AccessorsUnique`: a second getter or setter is reported
  and not kept.
* **ParserProtocol**: malformed expressions, class members and lambdas. `UsesReader`: the descent uses the buffer as
  `TokenReader` allows, with its frames and Trys as the marks, so that the caller that `ParserContext` leaves free
  includes this one. `Terminates`: `Parse` returns.

Between them these runs take every action of `ParserContext` and of `Parser`. Bounds: two to four free tokens inside a
context of up to ten decide between alternatives, because no parse function looks further ahead than two tokens
before it commits or calls another (except `canParseLambda` and `skipMetadata`, which have scenarios of their own);
the depth of nesting is what longer sources add.

`AcceptsOnlyBnf` is checked only where it holds; it does not on statements and expressions (see below). The derivation it
asks for may use reserved words as identifiers, since AngelScript's contextual words are identifiers for the lexer;
`AcceptsAllOfBnf` asks about derivations in which reserved words are reserved.

### The lexer (`MCLexer`)

Every text up to a length over each of eight alphabets, 25,470 in all. An alphabet holds the characters that compete
for a token: numbers with point, exponent and suffix; prefixes `0x`, `0b`; quotes and line breaks, up to a whole heredoc and one
more; quotes and backslashes; comments; operators that begin alike; `!is` and dots; byte-order marks, names and a bad character.

* `YieldsWellLexed`: at every moment, what has been yielded is what the token buffer assumes of its lexer.
* `GapsAreSilent`: between two tokens there is only white space, byte-order marks and whole comments. Nothing of a source is lost.
* `LongestOperator`: punctuation is the longest operator of `bnf.txt` that is spelled there and cuts no word in two.
* `StandsAlone`: a token's own text lexes to that token again, alone and in front of a space (but a string that the
  line cuts off).
* `CaretUnderToken`: the line a report shows holds the token, the first caret is under its first character, and the
  carets do not run past the line.
* `Finishes`: every source is lexed to its end.

Bounds: an alternative of the lexer is decided by at most four characters, and each of its loops is over one class of
characters; the lengths are enough for one character more than that on either side, except for heredocs, whose six quotes
need the length of seven. The proofs cover texts of any length.

### The SIR builder (`MCSirBuilder`)

A script is a function `f`, declared before or after or not at all, and a function `g` whose body is any sequence of up
to three statements of eleven (declarations that hide, refer to themselves or have several declarators, assignments and
compound assignments, chains of operators, calls, returns, inner blocks), or of up to two where the last is one
of nineteen odd ones (missing arguments, literals, everything unsupported, half a ternary) or of nine that hold what the
builder does not read (`::a`, `x::f(1)`, `f<int>(1)`, `f(x: 1)`, `const int a`, ...); these come also after an `f` with a
list pattern and a default value. 1,865 scripts, about 92,000 states.

* `RefsExist`: no id dangles, *in any state* of the build; operands come before the expression they are in.
* `ScopesMatchCalls`: however the build goes, a scope is open for the script and for each function and block being
  built, and no other; `m_currentFunction` is the function around.
* `ArenaGrows`: nothing that was added is changed, but for a function's body and parameters' symbols, which are set once.
* `ArenaIsTree`: every block, statement and expression is in one place (the left side of a compound assignment in two);
  one that is in none has been reported.
* `TypesAgree`: in every state of the build, both sides of an assignment, the arguments of a call and the initializers of
  a variable have the type they are for; what a `return` gives has the type of the function it belongs to, which is that of an
  owner that all statements of a body share; and an expression has the error type only if that was reported.
* `NothingLost`: without an error, the module read from its functions down has the declarations, names, literals,
  operators and calls of the source, in its order; what it lacks is what is never read (`Unread`, and the last part of a
  ternary without a second), and nothing else.
* `NamesResolveLexically`: without an error, each name refers to what lexical scope says *of its identifier*. For a name
  without a scope that is what it means. `::a` and `x::a` are built as `a`, be it a local variable: the scope is not read
  (TODO at `sir_builder.cpp:718` and `775`), and the property says so rather than promise more.
* `ErrorsReported`: an error is reported if and only if the script holds something the builder refuses, an unknown type,
  an identifier nobody has declared, or a call of what is no function. What is not read causes no report.
* `Finishes`: `BuildSirModule` returns.

Bounds: three statements suffice for a declaration, one that hides it in the same or an inner scope, and a use before,
between or behind them. Longer bodies repeat this. Two levels of blocks are enough for a scope that is closed before the use.

### Where code and documentation disagree

Each of these runs ends with a counterexample, and each is listed in `PROJECT.json` under `findings`.

| run | property | source | what happens |
|---|---|---|---|
| MemberAccessLost | `ContentKept` | `a . a ;` | after `.` `parseFuncCall` leaves the cursor behind the name it consumed; the name is in no node, nothing is reported |
| ReturnReported | `AcceptsAllOfBnf` | `return a + a ;` | tried as a declaration of a variable `a` of type `return` first; the diagnostic of that attempt stays |
| ShiftReported | `AcceptsAllOfBnf` | `a < a >> a ;` | the attempt at template arguments has split `>>` for good |
| LambdaReported | `AcceptsAllOfBnf` | `a = function ( ) { } ;` | `canParseLambda` is off by one parenthesis |
| HalfIfAccepted | `AcceptsOnlyBnf` | `if ( ;` | `parseIf` gives up with `if (` consumed; the rest is an empty statement |

Met while modelling, and done by the model as by the code, without a run of their own:

* `a a ( 1 );` at global scope is reported: `parseFunc` comes before `parseVar` (`parser.cpp:318`).
* accepted without a diagnostic: `typedef a a;` (598), a function with neither body nor `;` (674), `a + ;` (1899),
  `else a ;`, `a [ ] = b ;`, a ternary without its second or its last part (2298).
* `void f(){ a }` is a function with a list pattern and no body; `a = a < a >= a ;` is mis-parsed for the same reason
  as the shift above.
* the type arguments of an earlier part of a scope are overwritten by those of a later one (1513).
* a node that consumed nothing has the span of the token ahead of it, or of nothing, depending on the space before that
  token; the comment at `parser_context.h:120` does not say so.
* a second getter or setter is reported although `bnf.txt` allows it; that is intended (`test_parser.cpp:145`), so
  `AcceptsAllOfBnf` lets this diagnostic pass.
* every call `f(a)` is parsed as a constructor call (1994: `parseConstructorCall` comes first, and any name is a type), so
  `buildFuncCall` is never reached from a source text and every call is reported as not supported (`sir_builder.cpp:626`).
* `return a;` in a block is the declaration of a variable `a` of type `return` (1233).
* the lexer: `15.` and `15.f` are no floating-point literals, as `bnf.txt` has them; strings, heredocs and comments
  that do not end are accepted silently; bytes above 0x7f are letters; `TokenKind::Bits` and `Comment` are never made;
  a lone carriage return ends a comment but not a line of a report.
* the builder: `0x1e` has type `double`; a function type's parameter types stay empty and every parameter is `In`
  (`sir_builder.cpp:222`); a second declaration of a name in a scope replaces the first silently; operators are folded from the left
  whatever their precedence; the literal `void` is reported, since its node holds no token; the operator of an assignment
  whose right side is missing is not looked at (the parser has reported it).
* `a ? : b ;` is built as `a ;` without a report: the parser accepts it with a null `thenExpr`, which `buildCondition`
  takes for no ternary (`sir_builder.cpp:879`, `node.h:877` "null = no ternary"), although a ternary is "not yet supported" (882).
* the builder never reads, and never reports: the scope of a name or a call, and the template arguments of a call and
  the names of its arguments; `const`, the scope and the template arguments of a type; modifier, `...`, `= void` and default
  value of a parameter; list pattern, template parameters, `const`, `&`, access and attributes of a function (but for `external`);
  the access of a variable. So `::a` is a local variable `a` if there is one, `x::a` needs no `x`, and `void f() { a }`,
  which the parser takes for a list pattern, becomes a function without a body.

### Fairness

`FairSpec` of `ParserContext` is weak fairness of `Serve`, that of `Parser` weak fairness of `Step`, those of `Lexer` and
`SirBuilder` weak fairness of `Next`: the code runs in one thread and nothing in it waits, so that a step that can be
taken is taken next. No fairness is assumed of the callers of the buffer (they need not ask anything), and none is used
for safety. The runs of `Parser`, `Lexer` and `SirBuilder` do not check for deadlock, because these return; that they do so only at
the end is what `Terminates` and `Finishes` say.

## 4. What is proved

`ParserContext_proofs`, for *every* set of well-lexed sources and all bounds. Assumptions: `SourcesAssumption` (lexemes come in order, do not overlap, are not empty, and the last one, only, is the end of file; this is what `Lex` is taken to do)
and `BoundsAssumption` (the bounds are natural numbers).

* `IndexInvariance`: `IndexInv` is inductive. It is `TypeOK` and `EofStaysAhead`, that cursor and marks are inside the
  buffer and nested, and that a request for lookahead rests on tokens already seen not to be the end of file. None of
  the theorems that follow holds by itself along the steps: that a read is in bounds depends on why `ensureAhead` left its loop (enough
  tokens, or the end of file), and then on where the end of file is, and that again on the cursor not having passed it.
* `TypeCorrect`, `InBounds`, `EofAhead` follow from it.
* `MarksHold` (`MarksKeepText`): every token in front of a mark is in front of the cursor, and a step changes only what
  is behind it; the split inserts behind.
* `SpellsSource`, `UnknownOnce`: from `TextInv`, which adds that everything still to be lexed lies behind every token, and
  that a token of `>`s has at least as many characters as `>`s. Its interesting step is the split (`SplitText`): the two pieces have
  exactly the characters of the token, and order is kept on both sides of it.
* `SpansCover` (`SpansCoverConsumed`): a consequence of the two invariants in each state: tokens before the cursor are
  not empty (the end of file is never among them) and in order, so that the first and the last of them bound the rest.
* `Refinement` (`ImplementsReader`): initial states map to initial states; a step either leaves cursor and marks alone
  (lexing, lookahead and reports are stutters of the reader), or moves the cursor over one token (`StepTakes`), or saves,
  rewinds or forgets. `PieceTaken` is the heart of it: the token just consumed holds a character that was unread, and
  all that stays unread, in the buffer or not yet lexed, lies behind it. It is used of the state *after* the step, so
  that a split needs no argument of its own.

With these, every safety property that the run `ParserContext` checks is also proved.

`RuleShapes_proofs`, `Parser_proofs` and `ParserReader_proofs`, for every set of inputs that `WordsAssumption` allows, of any
length and depth of nesting.

* `EveryRuleIsSound`: each of the 53 functions of `ParserRules` is `Sound`. Its steps are those a function of its kind may
  do where they stand (`Steps`): it leaves loops and fails only where there is a loop or a Try, calls only functions that exist, tests
  only for tokens that are not the end of file; and no way to a node leads past all of the steps that take a token or
  return `nullptr`. This is proved of the functions' texts, by going through them.
* The second part of `RuleShapes_proofs`: what a function has yet to do stays `Sound` as it does it, for each kind of step and
  for each of the ways to give up.
* `Invariance`: `ParserInv` is inductive. What `RewindsNest` and `KidsInConsumedText` say of the cursor and the nodes now, a rewind
  makes true or false of the cursor and the nodes of some time ago. So the invariant says it of every mark in `todo` too,
  together with that the alternative is sound where the mark is (`MarksOK`). A function that is not on top waits at the
  place where the one it called began (`PlaceOf`), and has that call as its next step (`Calls`), so that the node it is
  given lies behind all it has kept. A split changes tokens under all this: it changes no text in front of the
  cursor, and marks are not past it.
* `TypesHold`, `RewindsDoNest`, `KidsAreInConsumedText` follow from it state by state, `NodesDoConsume` step by step:
  a function that is done is `Sound` with no step left, which can only be if it has consumed a token.
* `AccessorsAreUnique` (`AccessorsUnique`): `KidOK` says it of the nodes that are done, in every frame and every mark, and
  `PropertiesOK` of a `parseVirtualProp` that runs: it reads an accessor only where the check of its sort is the next step, nothing it does
  is a branch, a Try or a way out between the two, and only the last accessor, while its check is next, may be of
  a sort there is. It reads its type before it keeps any node, since `parseType` could return a node of any kind.
  Neither part is inductive alone (a frame that returns needs the second, a frame that is given a node the first), so
  `InvarianceOfBoth` proves `ParserInv /\ PropertiesOK` together.
* `ParsingReads` (`UsesReader`): the parser is a client of `TokenReader`, and so of `ParserContext`. The reader's marks are read
  from the call stack: `MarksIn` gives those of the Trys a function is in, `MarksAlong` puts those of all functions together,
  each behind the place it began. The lemmas say what becomes of them when a step is done, a function is called or returns;
  then each action is a step of the reader or a stutter of it: it takes text (`ReaderTakes`), sets or forgets a mark, or puts
  back to the last mark (`ReaderPutsBack`). That `consumeOneGt` edits the buffer under marks is no
  step of its own: no mark lies past the cursor (`AllMarked`), so that what is in front of them keeps its text. `parseScript`
  alone sets no mark, which `ScriptCalm` makes up for: none of its steps gives anything back.
  `MarksIn` and `MarksAlong` are recursive functions; that such a function exists is proved with them, by induction on a set of numbers (`UpTo`).

TLC evaluated `ParserInv` along all behaviours of six scenarios, too, before it was proved, with a reading of `StepOK` that can be
evaluated (`Steps` is infinite). `PropertiesOK` it evaluated in those of `ParserPrograms`.

`Lexer_proofs`, for sources of any length and any characters (`SourcesAssumption`: a source is a finite sequence of
strings). `LexInvariance`: the offset is inside the source, what has been yielded ends at or before it, tokens are not
empty and in order, and the end of file is the last. The lemmas say for each kind of token that its end lies behind its
beginning and not behind the end of the source: by the minimum of a set of positions for the classes (`BeyondOK`,
`PastOK`, ...), and by the fact that a punctuator's text is spelled there and `NUL` is in none of them. From it follow
`LexerTypeCorrect` and `WellLexedAlways`. The latter is what `ParserContext` assumes of its sources; with it the theorems
on the token buffer hold of everything `Lex` can yield.

`GapsAlwaysSilent` (`GapsAreSilent`): the text since the last token can be cut so that each piece is a blank, a byte-order mark
or a comment; a skipping step adds a cut, a token starts from none. The cuts are a set, not a list, since a list would have
to be read by recursion. `LongestAlways` (`LongestOperator`): the operators that `PunctuatorsFrom` tries after a character are
exactly those of `bnf.txt` that begin with it (and `#`), and each list is longest first; so the first that fits, which is
the least index by `MinIsMinimum`, is the longest that is spelled there and does not cut a word in two.

`TokensStandAlone` (`StandsAlone`): a token's text, lexed by itself or with a space behind it, is that token again. A `Copy`
of a token has its characters and at most a space behind them. For each kind of token, the lemmas say that a scan that
stopped at the end of the token in the source stops there in the copy: before, it meets the same characters; there, it meets
a space or the end, and no class of characters contains either. A punctuator is the first of its list that fits, and those before it
still do not. Where a string ends depends on the parity of the backslashes before a quote, which `ScanString` counts by a flag that
it hands along: `Escaped` is what the flag is in closed form, by induction along the string, and speaks of the characters from the
opening quote only, so that the copy agrees (`Stops`).

`CaretsAlwaysUnder` (`CaretUnderToken`), of `SourceLines`: the line that `LineColumn` reports is the one the token is in, and the caret is
under it. Its two counters are one recursive function along the source. The closed form `Place` is the number of line feeds before a
character, and the distance from the last of them: it satisfies the recursive equation (`ColumnsAre`), so there is a function that does,
and any that does is equal to it, by the least place where it would not be (`LineColumnIs`). The line that is printed is cut out by
another scan; that both mean the same line is that a line has one start (`StartsOnce`).

`SirBuilder_proofs`, for all finite or infinite sets of scripts over well-formed trees of any depth
(`NodesAssumption`). The invariant has six parts:

* `ModuleOK`: every entry of the module is well typed and refers below the length of what it refers to. It holds after
  each step because the module only grows (`Grows`, and a lemma `...Stay` for each kind of entry).
* `StackOK`: every frame holds ids and nodes of the right kind, and the stack is `Linked`: a frame *gives* what the
  one below it *wants* (a block, a statement, a declaration, an expression or nothing). This is the heart, since it is
  what makes an id that one function returns an id of the right vector for the function that takes it up, many steps later.
* `ControlOK`: the node that is called is one that is built into what the top frame wants; what has been returned is an
  entry of that sort; and a function that has no default for a missing result finds one.
* `ContextOK`, `PendingOK`: the current function is the second frame's, its body and the symbols of the
  parameters still to come are not set.
* `ScopesOK`: there is one more scope than frames that have opened one. Without it declaring a name could fail: there
  would be no scope to declare it in.

There is one lemma for each of the 35 actions (`...Keeps`) and for groups of them about the scopes. `BuilderInvariance` puts them
together. `BuilderTypeCorrect`, `BuiltRefsExist` and `BuiltScopesMatchCalls` follow from it state by state, and
`BuiltArenaGrows` step by step, where `PendingOK` gives that what is set was not set before. `TypeOK` types the texts
in the module by `Texts` and `Reports`, enumerations of those the code uses, since the prover has no rule for
a string in quotes being in `STRING`.

`SirTypes_proofs`: `BuiltTypesAgree` (`TypesAgree`), from the same assumptions. What an expression will be used for is known
to one function and its type to another, and a module that is built in between grows. `TypesInv` says what each frame, and the id
that has been returned, are to be told of types: that the arguments so far fit the parameters, that an initializer is for the symbol the frame
says, that with nothing reported no type is the error type. `OwnersInv` is for the `return` statements, which are
converted for `m_currentFunction` as it is *then*, and belong to whatever function takes up the block they end in, much later:
there is an owner for each statement such that a block, wherever it is kept (in a frame, as the returned id, in another block, as
a body), has the statements of one function only, and that is the one whose body was being built when they were added.

`SirTree_proofs`: `BuiltArenaIsTree` (`ArenaIsTree`), from the same assumptions. The property is about a module that is
done; what makes it true is where an id is on its way there. `TreeInv` counts, in every state, the uses of an id in the
module's entries, in the frames (`FrameIds`) and as the id just returned (`IsResult`): 1 for each block and statement, 1 at
most for each expression, 0 only with a report. What a compound assignment assigns to is used twice, by it and by its
value; the invariant counts the use by the value only (`OperandsOf`). Each of the 35 actions keeps a balance (`BlocksBalance`,
`StatementsBalance`, `ExprsBalance`): a new entry gets one use, a use of an old one moves, and an expression is given up
only with a report. Actions that neither add nor move an id between stack and module are `Quiet`. When the stack is
empty, no uses are left but those of the module. As every expression is an operand once at most, two compound assignments do
not assign to the same one (`OneAssignment`), so that adding the use that was not counted gives two at most. Uses are
cardinalities of sets of places (`Spots`); the lemmas of the first part say what one more entry, or a changed one, adds.
TLC evaluated `TreeInv` in all states of the run `SirBuilder` before it was proved.

Only model-checked:

* the liveness properties `RequestsAnswered`, `Terminates` and `Finishes`, because the prover has neither fairness nor
  ENABLED;
* the properties of `ParserLanguage`, and `NothingLost`, `NamesResolveLexically` and `ErrorsReported` of `SirMeaning`: whether the
  parser accepts what `Grammar` derives and keeps it, or a module says what its script says, is induction over trees
  of any depth, computed by recursive operators, which the prover does not support (along a sequence it can be done by hand, as for
  `MarksIn` and `LineColumn`).

## 5. What is not modelled, and the plan

Done: `TokenReader`, `ParserContext`, the whole of `parser.cpp`'s descent, the grammar, the lexer, the SIR builder, the place
of a report in its source, and the proofs above. Nothing that the plan had is left.

Not modelled for now: the values of literals (`strtoll`, `strtod`), because nothing reads them yet; the kinds of
statement, expression and symbol that `sir.h` declares and no code makes.

Left out for good: nodes' accessors and casts (plain data), the debug text of `TokenView`, the text around line and carets in
`formatDiagnostics` (layout), tests and sandbox (drivers),
scripts that extract `bnf.txt`, and the vendored formatting library. The recursion of the parser is unbounded in the model as
it is bounded only by the machine's stack in the code; run time, which is exponential for nested template arguments,
is not modelled.
