---------------------------- MODULE TokenReader ----------------------------
(***************************************************************************)
(* What ParserContext promises its callers, with no lexer, no token buffer *)
(* and no index arithmetic: a text of character positions that is read     *)
(* from the front, one non-empty piece at a time, and that can be put back *)
(* exactly as it was at a position the caller marked.                      *)
(***************************************************************************)
EXTENDS Integers, Sequences

CONSTANT Texts          \* the sets of positions a text may consist of

VARIABLES
    text,               \* every position a caller will ever be given
    unread,             \* those that have not been consumed
    marked              \* what was unread when each live mark was taken

vars == <<text, unread, marked>>

Init ==
    /\ text \in Texts
    /\ unread = text
    /\ marked = << >>

(* Consume a piece: some of the text, all of it before the rest.           *)
Take ==
    /\ unread' \in SUBSET unread
    /\ unread' # unread
    /\ \A p \in unread \ unread', q \in unread' : p < q
    /\ UNCHANGED <<text, marked>>

Mark ==
    /\ marked' = Append(marked, unread)
    /\ UNCHANGED <<text, unread>>

(* Marks are forgotten from the innermost outwards.                        *)
Forgetting == marked' = SubSeq(marked, 1, Len(marked'))

(* Put back what was consumed since a mark: the innermost one left, or the *)
(* outermost one that is forgotten as it is used.                          *)
PutBack ==
    /\ Len(marked') <= Len(marked) /\ Forgetting
    /\ \E i \in {Len(marked'), Len(marked') + 1} \cap 1..Len(marked) :
          unread' = marked[i]
    /\ UNCHANGED text

Unmark ==
    /\ Len(marked') < Len(marked) /\ Forgetting
    /\ UNCHANGED <<text, unread>>

Next == Take \/ Mark \/ PutBack \/ Unmark

Spec == Init /\ [][Next]_vars
=============================================================================
