------------------------------- MODULE Railroad -------------------------------
(***************************************************************************)
(* Regular expressions over the symbols of a source, to write down what a  *)
(* standard says of a token without the lexer's scanning operators.        *)
(***************************************************************************)
EXTENDS LexerInput, SequencesExt

Sym(set) == [op |-> "sym", set |-> set]
But(set) == [op |-> "but", set |-> set]
Alt(a, b) == [op |-> "alt", a |-> a, b |-> b]
Then(a, b) == [op |-> "then", a |-> a, b |-> b]
Many(a) == [op |-> "many", a |-> a]
Empty == [op |-> "empty"]
Eof == [op |-> "eof"]
NotBefore(set) == [op |-> "notBefore", set |-> set]
Opt(a) == Alt(a, Empty)
Some(a) == Then(a, Many(a))
Word(w) == FoldRight(LAMBDA c, d : Then(Sym({c}), d), w, Empty)
UpTo(n, a) == FoldLeftDomain(LAMBDA d, i : Opt(Then(a, d)), Empty, [i \in 1..n |-> i])

\* The offsets a diagram leads to from the offsets of a set.
RECURSIVE Ends(_, _), Closure(_, _)
Ends(d, from) ==
    CASE d.op = "sym" -> {p + 1 : p \in {q \in from : q < Len(src) /\ At(q) \in d.set}}
      [] d.op = "but" -> {p + 1 : p \in {q \in from : q < Len(src) /\ At(q) \notin d.set}}
      [] d.op = "alt" -> Ends(d.a, from) \cup Ends(d.b, from)
      [] d.op = "then" -> Ends(d.b, Ends(d.a, from))
      [] d.op = "many" -> Closure(d.a, from)
      [] d.op = "eof" -> from \cap {Len(src)}
      [] d.op = "notBefore" -> {p \in from : At(p) \notin d.set}
      [] d.op = "empty" -> from
Closure(d, from) ==
    LET more == Ends(d, from) \ from IN IF more = {} THEN from ELSE Closure(d, from \cup more)

\* How far an expression reaches from an offset.
Reach(d, p) == Max({p} \cup Ends(d, {p}))
================================================================================
