-------------------------- MODULE ParserInvariant ---------------------------
(***************************************************************************)
(* The inductive invariant of Parser, from which Parser_proofs gets the    *)
(* properties of Parser for any source.                                    *)
(*                                                                         *)
(* RewindsNest and KidsInConsumedText are about the cursor and the nodes   *)
(* now; a rewind brings back a cursor and nodes of some time ago.  So what *)
(* they say must hold of every mark in todo as well, and be true of its    *)
(* alternative: MarksOK.  NodesConsume needs to know of the steps that a   *)
(* function has left that none of the ways to a node leads past all of     *)
(* those that take a token: Sound of RuleShapes, with the place of the     *)
(* function in the source.  A function that is not on top waits for the    *)
(* one it has called, at the place where that one started.                 *)
(* AccessorsUnique is about the nodes that are done; PropertiesOK says of  *)
(* a parseVirtualProp that runs that it checks an accessor before it reads *)
(* another one, or returns.                                                *)
(***************************************************************************)
EXTENDS Parser, RuleShapes

(* Where the text ends before token c + 1, the next one to read.           *)
Reach(ts, c) == IF c > 0 THEN EndOf(ts[c]) ELSE 0

(* A token or a node, as a parse function keeps it; the accessors of a     *)
(* property begin with the name that refuseSecond compares, and it has     *)
(* refused a second one.                                                   *)
KidOK(kid) ==
    /\ kid.offset \in Nat /\ kid.length \in Nat
    /\ IF "rule" \in DOMAIN kid
       THEN /\ kid.rule = "Accessor" => kid.kids # << >> /\ kid.kids[1] \in Token_
            /\ kid.rule = "VirtualProp" => SortsDiffer(kid.kids, Len(kid.kids))
       ELSE kid \in Token_

(* What is kept by a function that started at token start + 1 and has come *)
(* to token c + 1.                                                         *)
KidsOK(ts, kids, start, c) ==
    /\ IsSeq(kids)
    /\ kids # << >> => start < c
    /\ \A i \in 1..Len(kids) :
          /\ KidOK(kids[i])
          /\ ts[start + 1].offset <= kids[i].offset
          /\ kids[i].offset <= ts[c + 1].offset
          /\ IsEmptyNode(kids[i]) \/ EndOf(kids[i]) <= Reach(ts, c)
    /\ \A i, j \in 1..Len(kids) :
          i < j => /\ kids[i].offset <= kids[j].offset
                   /\ IsEmptyNode(kids[i]) \/ EndOf(kids[i]) <= kids[j].offset

AccessorBegun(r, kids) ==
    r = "Accessor" => kids # << >> /\ kids[1] \in Token_

(* The mark of a Try at the i-th step.                                     *)
MarkOK(ts, r, start, c, ss, i) ==
    /\ ss[i].at \in start..c
    /\ KidsOK(ts, ss[i].kids, start, ss[i].at)
    /\ AccessorBegun(r, ss[i].kids)
    /\ Sound(r, start, ss[i].at, ss[i].otherwise \o SubSeq(ss, i + 1, Len(ss)))

(* An outer Try began no later than the one in it.                         *)
MarksOK(ts, r, start, c, ss) ==
    /\ \A i \in 1..Len(ss) : ss[i].do = "tried" => MarkOK(ts, r, start, c, ss, i)
    /\ \A i, j \in 1..Len(ss) :
          i < j /\ ss[i].do = "tried" /\ ss[j].do = "tried" => ss[j].at <= ss[i].at

PassesAt(ts, c, test) ==
    /\ ts[c + 1].text \in test.texts \/ ts[c + 1].kind \in test.kinds
    /\ test.next # {} => ts[c + 2].text \in test.next

(* The next step takes a token, for sure.                                  *)
Eager(ts, c, ss) == ss # << >> /\ ss[1].do = "token" /\ PassesAt(ts, c, ss[1].test)

(* Where the function is for sure when the next step is done.              *)
Onward(ts, c, ss) == IF Eager(ts, c, ss) THEN c + 1 ELSE c

(* parseVirtualProp's accessors keep `get' or `set' before anything else.  *)
NotBegun(kids, ss) ==
    /\ kids = << >>
    /\ ss = Rules["Accessor"] \/ (ss # << >> /\ ss[1] = Miss("null"))

(* A running function that has come to token c + 1.                        *)
FrameOK(ts, f, c) ==
    /\ f = [rule |-> f.rule, start |-> f.start, todo |-> f.todo, kids |-> f.kids]
    /\ f.rule \in RuleNames /\ f.start \in Nat /\ f.start <= c
    /\ Sound(f.rule, f.start, Onward(ts, c, f.todo), f.todo)
    /\ KidsOK(ts, f.kids, f.start, c)
    /\ MarksOK(ts, f.rule, f.start, c, f.todo)
    /\ AccessorBegun(f.rule, f.kids) \/ NotBegun(f.kids, f.todo)

(* f has called g.                                                         *)
Calls(f, g) ==
    /\ f.todo # << >> /\ f.todo[1].do = "rules" /\ f.todo[1].rules[1] = g.rule

(* Where the function at depth k is, c is the cursor.                      *)
PlaceOf(st, k, c) == IF k < Len(st) THEN st[k + 1].start ELSE c

StackOK(ts, st, c) ==
    /\ IsSeq(st)
    /\ \A k \in 1..Len(st) : FrameOK(ts, st[k], PlaceOf(st, k, c))
    /\ \A k \in 1..(Len(st) - 1) : Calls(st[k], st[k + 1])
    /\ \A i, j \in 1..Len(st) : i < j => st[i].start <= st[j].start

(* What parseVirtualProp has to do; none of it leaves the loop, or the     *)
(* function, between an accessor and the check of its sort.                *)
ReadAccessor == Any(<<"Accessor">>, "error")

PropertyStep(s) ==
    \/ s \in {Metadata, RefuseSecond, ReadAccessor, NeedBack("Type")}
    \/ s.do \in {"token", "miss"} /\ s.miss \in {"skip", "report", "back", "error"}
    \/ s.do \in {"loop", "again"} /\ s.body = <<ReadAccessor, RefuseSecond>>

(* Only the accessor that is checked next may be of a sort there is; the   *)
(* type comes first, since parseType could return any node.                *)
PropertyOK(kids, ss) ==
    /\ \A i \in 1..Len(ss) :
          /\ PropertyStep(ss[i])
          /\ ss[i] = ReadAccessor => i < Len(ss) /\ ss[i + 1] = RefuseSecond
          /\ ss[i] = NeedBack("Type") =>
                /\ \A j \in 1..(i - 1) : ss[j].do \in {"metadata", "token", "miss"}
                /\ \A k \in 1..Len(kids) : "rule" \notin DOMAIN kids[k]
    /\ SortsDiffer(kids, IF ss # << >> /\ ss[1] = RefuseSecond THEN Len(kids) - 1
                         ELSE Len(kids))

PropertiesOK ==
    \A k \in 1..Len(stack) :
        stack[k].rule = "VirtualProp" => PropertyOK(stack[k].kids, stack[k].todo)

Diagnostics ==
    [why : {"expected", "token", "duplicate"}, offset : Nat, length : Nat]

ParserInv ==
    /\ source \in Inputs
    /\ WellLexed(tokens) /\ cursor \in 0..(Len(tokens) - 1)
    /\ diags \in Seq(Diagnostics)
    /\ StackOK(tokens, stack, cursor)
=============================================================================
