--------------------------- MODULE ParserLanguage ---------------------------
(***************************************************************************)
(* What Parser makes of a source when it has returned, held against the    *)
(* grammar of bnf.txt that comments every parse function.                  *)
(***************************************************************************)
EXTENDS Parser, Grammar

Returned == stack = << >>

Accepted == Returned /\ diags = << >>

Sentence == SubSeq(source, 1, Len(source) - 1)

InLanguage == Derives("SCRIPT", Reserving(Sentence))

(* The nodes and the tokens of the tree that Parse has returned.           *)
IsNode(n) == "rule" \in DOMAIN n

RECURSIVE Within(_)
Within(n) ==
    {n} \cup (IF IsNode(n) THEN UNION {Within(n.kids[i]) : i \in 1..Len(n.kids)} ELSE {})

Leaves == {n \in Within(script) : ~IsNode(n)}

(* What the program is about: its names and literals.  The other words     *)
(* only select a construct or set a flag of its node.                      *)
ContentWords ==
    LET flags == {"override", "explicit", "property", "delete", "nodiscard", "in", "out",
                  "inout", "if_handle_then_const", "repeat", "repeat_same", "from"}
        w == Reserving(Sentence)
    IN  {source[i] : i \in {j \in 1..Len(w) : /\ w[j].kind \in {"Name", "Number", "String"}
                                               /\ w[j].text \notin flags}}
-----------------------------------------------------------------------------
(* The parser reports nothing about a source that bnf.txt derives: no      *)
(* alternative that parser.cpp tries first, and no rewind out of one,      *)
(* spoils the alternative that would have matched.  That a property has    *)
(* one accessor of each sort is a rule beyond bnf.txt.                     *)
AcceptsAllOfBnf ==
    Returned /\ InLanguage => \A i \in 1..Len(diags) : diags[i].why = "duplicate"

(* The parser reports something about a source that bnf.txt does not       *)
(* derive, not even with its words as identifiers: no parse function that  *)
(* gives up half way loses what it has consumed without a diagnostic.      *)
AcceptsOnlyBnf == Accepted => Derives("SCRIPT", Sentence)

(* Every name and literal of a program that is accepted as bnf.txt has it  *)
(* is in the tree that the rest of the front end works on.                 *)
ContentKept == Accepted /\ InLanguage => ContentWords \subseteq Leaves
=============================================================================
