------------------------------- MODULE JSSyntax -------------------------------
(***************************************************************************)
(* ECMAScript's grammar, as far as JSParser's trees and programs can be    *)
(* held against it.  Fits says of a tree that each part is an expression   *)
(* of the production the grammar asks for there, and that in, yield, await *)
(* and return stand only where the grammar allows them.                        *)
(***************************************************************************)
EXTENDS Naturals, Sequences, SequencesExt, FiniteSetsExt

Productions ==
    <<"Expression", "Assignment", "ShortCircuit", "LogicalOR", "LogicalAND", "BitwiseOR", "BitwiseXOR",
      "BitwiseAND", "Equality", "Relational", "Shift", "Additive", "Multiplicative", "Exponentiation",
      "Unary", "Update", "LeftHandSide", "Call", "Member", "Primary">>
Rank == [p \in ToSet(Productions) |-> CHOOSE n \in DOMAIN Productions : Productions[n] = p]

\* Of a binary operator: its production, and those of its operands.
Binary(op) ==
    CASE op \in {"=", "+="} -> <<"Assignment", "LeftHandSide", "Assignment">>
      [] op = "??" -> <<"ShortCircuit", "BitwiseOR", "BitwiseOR">>
      [] op = "||" -> <<"LogicalOR", "LogicalOR", "LogicalAND">>
      [] op = "&&" -> <<"LogicalAND", "LogicalAND", "BitwiseOR">>
      [] op = "|" -> <<"BitwiseOR", "BitwiseOR", "BitwiseXOR">>
      [] op = "^" -> <<"BitwiseXOR", "BitwiseXOR", "BitwiseAND">>
      [] op = "&" -> <<"BitwiseAND", "BitwiseAND", "Equality">>
      [] op = "==" -> <<"Equality", "Equality", "Relational">>
      [] op \in {"<", "in", "instanceof"} -> <<"Relational", "Relational", "Shift">>
      [] op = "<<" -> <<"Shift", "Shift", "Additive">>
      [] op \in {"+", "-"} -> <<"Additive", "Additive", "Multiplicative">>
      [] op = "*" -> <<"Multiplicative", "Multiplicative", "Exponentiation">>
      [] op = "**" -> <<"Exponentiation", "Update", "Exponentiation">>

Production(t) ==
    CASE t.op = "comma" -> "Expression"
      [] t.op \in {"cond", "yieldexpr", "yield*", "arrow", "asyncarrow"} -> "Assignment"
      [] t.op = "binary" -> Binary(t.sub[2].op)[1]
      [] t.op = "unary" -> IF t.sub[1].op = "++" THEN "Update" ELSE "Unary"
      [] t.op = "postfix" -> "Update"
      [] t.op \in {"optdot", "optindex", "optcall", "opttagged"} -> "LeftHandSide"
      [] t.op = "call" -> "Call"
      [] t.op \in {"dot", "index", "tagged", "new", "new.target", "import.meta"} -> "Member"
      [] OTHER -> "Primary"

AtLeast(t, p) == Rank[Production(t)] >= Rank[p]

BinaryFits(t) ==
    LET p == Binary(t.sub[2].op)
    IN  /\ \/ AtLeast(t.sub[1], p[2])
           \/ t.sub[2].op = "??" /\ t.sub[1].op = "binary" /\ t.sub[1].sub[2].op = "??"
        /\ AtLeast(t.sub[3], p[3])

\* The least production of the n-th part, where it is an expression.
LeastOf(t, n) ==
    CASE t.op = "cond" -> IF n = 1 THEN "ShortCircuit" ELSE "Assignment"
      [] t.op = "unary" -> "Unary"
      [] t.op \in {"postfix", "dot", "optdot", "tagged", "opttagged"} -> "LeftHandSide"
      [] t.op \in {"index", "optindex"} -> IF n = 1 THEN "LeftHandSide" ELSE "Expression"
      [] t.op \in {"call", "optcall"} -> IF n = 1 THEN "LeftHandSide" ELSE "Assignment"
      [] t.op = "new" -> IF n = 1 THEN "Member" ELSE "Assignment"
      [] t.op \in {"comma", "array", "property", "spread", "element", "shorthand", "item",
              "field", "computed",
                   "yieldexpr", "yield*"} -> "Assignment"
      [] t.op = "forof" -> IF n = 2 THEN "Assignment" ELSE "Expression"
      [] t.op = "class" -> IF n = 2 THEN "LeftHandSide" ELSE "Expression"
      [] OTHER -> "Expression"

LevelsFit(t) ==
    IF t.op = "binary" THEN BinaryFits(t) ELSE \A n \in DOMAIN t.sub : AtLeast(t.sub[n], LeastOf(t, n))

\* What the grammar's parameters [In, Yield, Await, Return] are around a part.
Context(in, yield, await, return) == [in |-> in, yield |-> yield, await |-> await, return |-> return]

IsFunction(t) == t.op \in {"function", "function*", "asyncfunction", "asyncfunction*"} /\ t.sub # <<>>
Within(async, generator) == Context(TRUE, generator, async, TRUE)

Brackets == {"array", "object", "group", "call", "index", "template", "class", "params", "block"}

ContextOf(t, n, c) ==
    CASE IsFunction(t) /\ n > 1 ->
            Within(t.op \in {"asyncfunction", "asyncfunction*"}, t.op \in {"function*",
                "asyncfunction*"})
      [] t.op = "method" /\ n > 3 -> Within(t.sub[2].op \in {"async", "async*"},
              t.sub[2].op \in {"*", "async*"})
      [] t.op \in {"arrow", "asyncarrow"} /\ n = 2 -> Within(t.op = "asyncarrow", FALSE)
      [] t.op = "staticblock" -> Context(TRUE, FALSE, TRUE, FALSE)
      [] t.op \in {"export", "exportdecl", "exportdefault"} -> Context(TRUE, FALSE, TRUE, c.return)
      [] t.op \in {"for", "forin", "forof", "forawait"} /\ n = 1 -> [c EXCEPT !.in = FALSE]
      [] t.op \in Brackets \/ (t.op = "cond" /\ n = 2) -> [c EXCEPT !.in = TRUE]
      [] OTHER -> c

\* Whether the n-th part is a word of the syntax, or a name that is no reference.
IsWord(t, n) ==
    \/ t.op \in {"binary", "dot", "optdot"} /\ n = 2
    \/ t.op \in {"unary", "property", "item"} /\ n = 1
    \/ t.op \in {"field", "method", "alias", "importstmt", "shorthand"} /\ t.sub[n].sub = <<>>
    \/ (t.op = "class" \/ IsFunction(t)) /\ n = 1

ContextFits(t, c) ==
    /\ t.op = "binary" /\ t.sub[2].op = "in" => c.in
    /\ t.op = "unary" /\ t.sub[1].op = "await" => c.await
    /\ t.op \in {"yieldexpr", "yield*"} => c.yield
    /\ t.op = "return" => c.return
    /\ \A n \in DOMAIN t.sub : t.sub[n].sub = <<>> /\ ~IsWord(t, n) =>
           /\ t.sub[n].op = "yield" => ~ContextOf(t, n, c).yield
           /\ t.sub[n].op = "await" => ~ContextOf(t, n, c).await

RECURSIVE Fits(_, _)
Fits(t, c) ==
    /\ LevelsFit(t)
    /\ ContextFits(t, c)
    /\ \A n \in DOMAIN t.sub : Fits(t.sub[n], ContextOf(t, n, c))

\* Of a program: module code may use await, inline code may return.
ProgramFits(t, inline) == Fits(t, Context(TRUE, FALSE, TRUE, inline))
================================================================================
