----------------------------- MODULE ParseSteps -----------------------------
(***************************************************************************)
(* The vocabulary in which ParserRules describes the parse functions of    *)
(* src/parser/parser.cpp.  A function is the sequence of the things it     *)
(* does to its ParserContext; what each of them does is defined by Parser. *)
(*                                                                         *)
(* The functions differ in what they do when a token or a construct is     *)
(* missing, and most of what can go wrong in them lies there, so every     *)
(* step names it (`miss'):                                                 *)
(*    "skip"         carry on                                              *)
(*    "null"         return nullptr and leave the cursor where it is       *)
(*    "back"         rewind to where the function started, return nullptr  *)
(*    "report"       report what was expected, carry on                    *)
(*    "reportNull"   report, return nullptr                                *)
(*    "reportBack"   report, rewind, return nullptr                        *)
(*    "error"        advanceError: report the token and step over it       *)
(*    "break"        leave the enclosing loop                              *)
(*    "fail"         rewind to where the enclosing Try began               *)
(***************************************************************************)
EXTENDS Sequences

(* Tests on the current token, and on the one that follows it.             *)
OneOf(ts) == [texts |-> ts, kinds |-> {}, next |-> {}]
Text(t) == OneOf({t})
Kind(k) == [texts |-> {}, kinds |-> {k}, next |-> {}]
IsName == Kind("Name")
Before(test, ts) == [test EXCEPT !.next = ts]
Never == OneOf({})

(* Do what the way of missing says.                                        *)
Miss(miss) == [do |-> "miss", miss |-> miss]
Break == Miss("break")
Fail == Miss("fail")

(* Step over the current token, and keep it in the node if the code does.  *)
Token(test, miss) == [do |-> "token", test |-> test, keep |-> FALSE, miss |-> miss]
Keep(test, miss) == [do |-> "token", test |-> test, keep |-> TRUE, miss |-> miss]

Want(t) == Token(Text(t), "null")
WantBack(t) == Token(Text(t), "back")
Eat(t) == Token(Text(t), "skip")
Expect(t) == Token(Text(t), "report")
Must(t) == Token(Text(t), "reportNull")
MustBack(t) == Token(Text(t), "reportBack")
Name(miss) == Keep(IsName, miss)

(* if (test) { then } else { otherwise }, without consuming the token.     *)
Branch(test, then, otherwise) ==
    [do |-> "branch", test |-> test, then |-> then, otherwise |-> otherwise]
IfElse(t, then, otherwise) == Branch(Text(t), <<Eat(t)>> \o then, otherwise)
When(t, then) == IfElse(t, then, << >>)
Ahead(test, miss) == Branch(test, << >>, <<Miss(miss)>>)
IfLambda(then) == [do |-> "lambda", then |-> then]

(* Return the node as it stands, or return the child parsed last.          *)
Done == [do |-> "done"]
Give == [do |-> "give"]

(* Call parse functions in turn until one returns a node; then carry on,   *)
(* be done with this node, or return the child instead of a node.          *)
Any(rules, miss) == [do |-> "rules", rules |-> rules, hit |-> << >>, miss |-> miss]
AnyDone(rules, miss) == [Any(rules, miss) EXCEPT !.hit = <<Done>>]
Offer(rules, miss) == [Any(rules, miss) EXCEPT !.hit = <<Give>>]
May(rule) == Any(<<rule>>, "skip")
Need(rule) == Any(<<rule>>, "null")
NeedBack(rule) == Any(<<rule>>, "back")
NeedBreak(rule) == Any(<<rule>>, "break")

(* The node must have children by now.                                     *)
NonEmpty(miss) == [do |-> "nonEmpty", miss |-> miss]

(* The loops run until the stop token or the end of file; in a list there  *)
(* is a ',' between two rounds, and a trailing list may end with one.      *)
Until(stop, body) == [do |-> "loop", stop |-> stop, sep |-> "none", body |-> body]
Repeat(body) == Until(Never, body)
List(stop, body) == [Until(stop, body) EXCEPT !.sep = "comma"]
TrailingList(stop, body) == [Until(stop, body) EXCEPT !.sep = "trailing"]
All(step) == Repeat(<<step>>)
WrongMembers(stop, rules) == Until(Text(stop), <<Any(rules, "skip")>>)   \* a fault
Members(stop, rules) == Until(Text(stop), <<Any(rules, "error")>>)

(* Save the cursor and do the body; if it fails, what it consumed is put   *)
(* back, what it built is dropped, and the otherwise steps are done.       *)
Try(body, otherwise) == [do |-> "try", body |-> body, otherwise |-> otherwise]

(* if (canConsumeGt()) { consumeOneGt(); the enclosing Try has succeeded } *)
SucceedAtGt == [do |-> "gt"]

(* skipMetadata; what parseScope and parseVirtualProp do to their nodes.   *)
Metadata == [do |-> "metadata"]
DropTypes == [do |-> "dropTypes"]
RefuseSecond == [do |-> "refuseSecond"]
=============================================================================
