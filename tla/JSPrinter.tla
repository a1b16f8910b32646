------------------------------ MODULE JSPrinter ------------------------------
(***************************************************************************)
(* js/ast.go: the JS methods, which write a tree as a program again.  What *)
(* is written is given as tokens.  Space matters only where two tokens     *)
(* would be read as one without it: Glued says what is read of an operator *)
(* that stands right before another.                                       *)
(***************************************************************************)
EXTENDS Sequences, SequencesExt

RECURSIVE Write(_)

WriteEach(list, Written(_)) == FlattenSeq([n \in DOMAIN list |-> Written(list[n])])

\* Items with a separator between them.
WriteList(list, separator) ==
    FlattenSeq([n \in DOMAIN list |-> (IF n = 1 THEN <<>> ELSE separator) \o Write(list[n])])

\* A comma after the last item, if that is a hole.
LastHole(list) == IF list # <<>> /\ Last(list).op = "none" THEN <<",">> ELSE <<>>

Brackets(list) == <<"[">> \o WriteList(list, <<",">>) \o LastHole(list) \o <<"]">>
Braces(list) == <<"{">> \o WriteList(list, <<",">>) \o <<"}">>
Parens(t) == <<"(">> \o Write(t) \o <<")">>

Declares(stmt) == stmt.op \in {"var", "let", "const"} /\ stmt.sub # <<>>

\* A statement within another, where a declaration gets its semicolon.
WriteStmt(stmt) == Write(stmt) \o (IF Declares(stmt) THEN <<";">> ELSE <<>>)

Lines(list) == FlattenSeq([n \in DOMAIN list |-> <<"nl">> \o WriteStmt(list[n])])
WriteBlock(list) == IF list = <<>> THEN <<"{", "}">> ELSE <<"{">> \o Lines(list) \o <<"nl", "}">>

\* A word and what follows it, if that is there.
Optional(word, t) == IF t.op = "none" THEN <<>> ELSE <<word>> \o Write(t)
Maybe(t) == IF t.op = "none" THEN <<>> ELSE Write(t)

\* What is written without a space before it.
Close == {".", "(", "[", "?.", ",", "++", "tpl", "tpl{"}

\* An expression that begins with let and a space gets parentheses.
WriteExprStmt(e) ==
    LET written == Write(e)
        let == Len(written) > 1 /\ written[1] = "let" /\ written[2] \notin Close
    IN  (IF let THEN <<"(">> \o written \o <<")">> ELSE written) \o <<";">>

WriteFor(t) ==
    <<"for", "(">> \o Maybe(t.sub[1]) \o <<";">> \o Maybe(t.sub[2]) \o <<";">> \o Maybe(t.sub[3])
    \o <<")">> \o Write(t.sub[4])

WriteForIn(words, of, t) ==
    words \o <<"(">> \o Write(t.sub[1]) \o <<of>> \o Write(t.sub[2]) \o <<")">> \o Write(t.sub[3])

WriteTry(t) ==
    <<"try">> \o Write(t.sub[1])
    \o (IF t.sub[3].op = "none" THEN <<>>
        ELSE <<"catch">> \o (IF t.sub[2].op = "none" THEN <<>> ELSE Parens(t.sub[2]))
             \o Write(t.sub[3]))
    \o Optional("finally", t.sub[4])

WriteClause(t) ==
    (IF t.op = "case" THEN <<"case">> \o Write(t.sub[1]) ELSE <<"default">>)
    \o <<":">> \o Lines(Tail(t.sub))

WriteSwitch(t) ==
    <<"switch">> \o Parens(t.sub[1]) \o <<"{">>
    \o FlattenSeq([n \in DOMAIN Tail(t.sub) |-> <<"nl">> \o WriteClause(t.sub[n + 1])])
    \o (IF Len(t.sub) > 1 THEN <<"nl", "}">> ELSE <<"}">>)

\* Name, parameters and body of a function.
WriteFunc(words, t) == words \o Maybe(t.sub[1]) \o Write(t.sub[2]) \o Write(t.sub[3])

WriteMethod(t) ==
    LET kind == t.sub[2].op
    IN  Maybe(t.sub[1])
        \o (CASE kind = "method" -> <<>> [] kind = "async*" -> <<"async", "*">> [] OTHER -> <<kind>>)
        \o Write(t.sub[3]) \o Write(t.sub[4]) \o Write(t.sub[5])

WriteClassElement(t) == Write(t) \o (IF t.op = "field" THEN <<";">> ELSE <<>>)

WriteClass(t) ==
    LET elements == SubSeq(t.sub, 3, Len(t.sub))
    IN  <<"class">> \o Maybe(t.sub[1]) \o Optional("extends", t.sub[2]) \o <<"{">>
        \o FlattenSeq([n \in DOMAIN elements |-> <<"nl">> \o WriteClassElement(elements[n])])
        \o (IF elements = <<>> THEN <<"}">> ELSE <<"nl", "}">>)

\* An operator right before what is written after it.
Glued(op, written) ==
    CASE op = "+" /\ written[1] = "+" -> <<"++">> \o Tail(written)
      [] op = "+" /\ written[1] = "++" -> <<"++", "+">> \o Tail(written)
      [] OTHER -> <<op>> \o written

\* Mutant: no space between two signs.
Bug_WriteUnary(op, x) == Glued(op, Write(x))

WriteUnary(op, x) ==
    IF (op = "+" /\ x.op = "unary" /\ x.sub[1].op \in {"+", "++"}) \/ op \in {"typeof", "await"}
    THEN <<op>> \o Write(x)
    ELSE Glued(op, Write(x))

\* A dot right after a number is read as a part of it.
WriteDot(t) ==
    IF t.sub[1].op = "0" THEN Parens(t.sub[1]) \o <<".">> \o Write(t.sub[2])
    ELSE Write(t.sub[1]) \o <<".">> \o Write(t.sub[2])

WriteArgs(t, open) == Write(t.sub[1]) \o open \o WriteList(Tail(t.sub), <<",">>) \o <<")">>

WriteAlias(t) == (IF t.sub[1].op = "none" THEN <<>> ELSE <<t.sub[1].op, "as">>) \o Maybe(t.sub[2])

IsAll(list) == Len(list) = 1 /\ "*" \in {list[1].sub[1].op, list[1].sub[2].op}
WriteNames(list) ==
    LET comma(n) == IF n = 1 THEN <<>> ELSE <<",">>
    IN  IF IsAll(list) THEN WriteAlias(list[1])
        ELSE <<"{">> \o FlattenSeq([n \in DOMAIN list |-> comma(n) \o WriteAlias(list[n])]) \o <<"}">>

WriteImport(t) ==
    <<"import">> \o Maybe(t.sub[1])
    \o (IF t.sub[1].op # "none" /\ t.sub[2].op # "none" THEN <<",">> ELSE <<>>)
    \o Maybe(t.sub[2])
    \o (IF t.sub[1].op = "none" /\ t.sub[2].op = "none" THEN <<>> ELSE <<"from">>)
    \o Write(t.sub[3]) \o <<";">>

WriteStatement(t) ==
    CASE t.op = "block" -> WriteBlock(t.sub)
      [] t.op = "empty" -> <<";">>
      [] t.op = "exprstmt" -> WriteExprStmt(t.sub[1])
      [] t.op = "if" -> <<"if">> \o Parens(t.sub[1]) \o WriteStmt(t.sub[2])
                        \o (IF t.sub[3].op = "none" THEN <<>> ELSE <<"else">> \o WriteStmt(t.sub[3]))
      [] t.op \in {"while", "with"} -> <<t.op>> \o Parens(t.sub[1]) \o WriteStmt(t.sub[2])
      [] t.op = "do" -> <<"do">> \o WriteStmt(t.sub[1]) \o <<"while">> \o Parens(t.sub[2]) \o <<";">>
      [] t.op = "for" -> WriteFor(t)
      [] t.op = "forin" -> WriteForIn(<<"for">>, "in", t)
      [] t.op = "forof" -> WriteForIn(<<"for">>, "of", t)
      [] t.op = "forawait" -> WriteForIn(<<"for", "await">>, "of", t)
      [] t.op = "switch" -> WriteSwitch(t)
      [] t.op \in {"continue", "break", "return"} -> <<t.op>> \o Maybe(t.sub[1]) \o <<";">>
      [] t.op = "label" -> Write(t.sub[1]) \o <<":">> \o WriteStmt(t.sub[2])
      [] t.op = "throw" -> <<"throw">> \o Write(t.sub[1]) \o <<";">>
      [] t.op = "try" -> WriteTry(t)
      [] t.op = "importstmt" -> WriteImport(t)
      [] t.op = "export" -> <<"export">> \o Write(t.sub[1]) \o Optional("from", t.sub[2]) \o <<";">>
      [] t.op = "exportdecl" -> <<"export">> \o Write(t.sub[1]) \o <<";">>
      [] t.op = "exportdefault" -> <<"export", "default">> \o Write(t.sub[1]) \o <<";">>
      [] t.op = "names" -> WriteNames(t.sub)
      [] t.op = "module" -> WriteEach(t.sub, LAMBDA stmt : WriteStmt(stmt) \o <<"nl">>)

WriteBinding(t) ==
    CASE t.op \in {"var", "let", "const"} -> <<t.op>> \o WriteList(t.sub, <<",">>)
      [] t.op \in {"element", "shorthand"} -> Write(t.sub[1]) \o Optional("=", t.sub[2])
      [] t.op \in {"rest", "spread"} -> <<"...">> \o Write(t.sub[1])
      [] t.op \in {"array", "arraybinding"} -> Brackets(t.sub)
      [] t.op \in {"object", "objectbinding"} -> Braces(t.sub)
      [] t.op \in {"item", "property"} -> Write(t.sub[1]) \o <<":">> \o Write(t.sub[2])
      [] t.op = "computed" -> <<"[">> \o Write(t.sub[1]) \o <<"]">>
      [] t.op = "params" -> <<"(">> \o WriteList(t.sub, <<",">>) \o <<")">>
      [] t.op = "function" -> WriteFunc(<<"function">>, t)
      [] t.op = "function*" -> WriteFunc(<<"function", "*">>, t)
      [] t.op = "asyncfunction" -> WriteFunc(<<"async", "function">>, t)
      [] t.op = "asyncfunction*" -> WriteFunc(<<"async", "function", "*">>, t)
      [] t.op = "method" -> WriteMethod(t)
      [] t.op = "field" -> Maybe(t.sub[1]) \o Write(t.sub[2]) \o Optional("=", t.sub[3])
      [] t.op = "staticblock" -> <<"static">> \o Write(t.sub[1])
      [] t.op = "class" -> WriteClass(t)

WriteExpression(t) ==
    CASE t.op = "comma" -> WriteList(t.sub, <<",">>)
      [] t.op = "binary" -> Write(t.sub[1]) \o Write(t.sub[2]) \o Write(t.sub[3])
      [] t.op = "cond" -> Write(t.sub[1]) \o <<"?">> \o Write(t.sub[2]) \o <<":">> \o Write(t.sub[3])
      [] t.op = "unary" -> WriteUnary(t.sub[1].op, t.sub[2])
      [] t.op = "postfix" -> Write(t.sub[1]) \o <<"++">>
      [] t.op = "yieldexpr" -> <<"yield">> \o Maybe(t.sub[1])
      [] t.op = "yield*" -> <<"yield", "*">> \o Write(t.sub[1])
      [] t.op = "arrow" -> Write(t.sub[1]) \o <<"=>">> \o Write(t.sub[2])
      [] t.op = "asyncarrow" -> <<"async">> \o Write(t.sub[1]) \o <<"=>">> \o Write(t.sub[2])
      [] t.op = "group" -> Parens(t.sub[1])
      [] t.op = "dot" -> WriteDot(t)
      [] t.op = "optdot" -> Write(t.sub[1]) \o <<"?.">> \o Write(t.sub[2])
      [] t.op = "index" -> Write(t.sub[1]) \o <<"[">> \o Write(t.sub[2]) \o <<"]">>
      [] t.op = "optindex" -> Write(t.sub[1]) \o <<"?.", "[">> \o Write(t.sub[2]) \o <<"]">>
      [] t.op = "call" -> WriteArgs(t, <<"(">>)
      [] t.op = "optcall" -> WriteArgs(t, <<"?.", "(">>)
      [] t.op = "new" -> <<"new">> \o WriteArgs(t, <<"(">>)
      [] t.op = "tagged" -> Write(t.sub[1]) \o Write(t.sub[2])
      [] t.op = "opttagged" -> Write(t.sub[1]) \o <<"?.">> \o Write(t.sub[2])
      [] t.op = "template" -> WriteEach(t.sub, Write)
      [] t.op = "new.target" -> <<"new", ".", "target">>
      [] t.op = "import.meta" -> <<"import", ".", "meta">>

Statements ==
    {"block", "empty", "exprstmt", "if", "while", "with", "do", "for", "forin", "forof", "forawait",
     "switch", "continue", "break", "return", "label", "throw", "try", "importstmt", "export",
     "exportdecl", "exportdefault", "names", "module"}
Bindings ==
    {"var", "let", "const", "element", "shorthand", "rest", "spread", "array", "arraybinding", "object",
     "objectbinding", "item", "property", "computed", "params", "function", "function*",
     "asyncfunction", "asyncfunction*", "method", "field", "staticblock", "class"}

\* A leaf is a token, a hole or a statement without parts.
WriteLeaf(t) ==
    CASE t.op = "none" -> <<>>
      [] t.op = "debugger" -> <<"debugger", ";">>
      [] t.op \in {"block", "empty", "module", "names"} -> WriteStatement(t)
      [] t.op \in {"array", "arraybinding", "object", "objectbinding", "params"} -> WriteBinding(t)
      [] t.op \in {"new.target", "import.meta"} -> WriteExpression(t)
      [] OTHER -> <<t.op>>

Write(t) ==
    IF t.sub = <<>> THEN WriteLeaf(t)
    ELSE IF t.op \in Statements THEN WriteStatement(t)
    ELSE IF t.op \in Bindings THEN WriteBinding(t)
    ELSE WriteExpression(t)
================================================================================
