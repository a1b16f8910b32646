------------------------------- MODULE JSParser -------------------------------
(***************************************************************************)
(* js/parse.go: the recursive descent parser.  A program is a sequence of  *)
(* tokens, with "nl" for line terminators; a function of the parser is an  *)
(* operator from a state of the parser to the state in which it returns,   *)
(* with the tree that it returns.  Scopes are left to JSScope: here all    *)
(* names are different, so that no declaration fails and {a: a} is no      *)
(* shorthand.  Comments, directives and the limits on nesting are left     *)
(* out.                                                                    *)
(*                                                                         *)
(* A parser that has failed stays failed: the code goes on with ErrorToken *)
(* for the next token and drops what it makes.                             *)
(***************************************************************************)
EXTENDS Integers, Sequences, SequencesExt, FiniteSetsExt, TLC

Node(op, sub) == [op |-> op, sub |-> sub]
Leaf(op) == Node(op, <<>>)
None == Leaf("none")

\* ErrorToken, at the end or after a failure.
End == "end"

Identifiers == {"a", "as", "async", "from", "get", "let", "of", "set", "static", "target", "meta"}
IdentifierNames ==
    Identifiers \cup
        {"await", "break", "case", "catch", "class", "const", "continue", "debugger", "default", "do",
         "else", "export", "extends", "finally", "for", "function", "if", "import", "in", "instanceof",
         "new", "return", "super", "switch", "this", "throw", "try", "typeof", "var", "while", "with",
         "yield"}
MemberNames == IdentifierNames \cup {"#p"}
PropertyNames == IdentifierNames \cup {"str", "0"}

\* The place of the first token from k on.
RECURSIVE TokenFrom(_, _)
TokenFrom(program, k) ==
    IF k <= Len(program) /\ program[k] = "nl" THEN TokenFrom(program, k + 1) ELSE k

TokenAt(program, k) == IF k > Len(program) THEN End ELSE program[k]

tt(s) == s.tt

\* next, at the token at place k.
MoveTo(s, k) == [s EXCEPT !.at = k, !.prevLT = k > s.at + 1, !.tt = TokenAt(s.program, k)]
Move(s) == IF tt(s) = End THEN s ELSE MoveTo(s, TokenFrom(s.program, s.at + 1))

Fail(s) == [s EXCEPT !.err = TRUE, !.tt = End]
Consume(s, token) == IF tt(s) = token THEN Move(s) ELSE Fail(s)
Check(s, ok) == IF ok THEN s ELSE Fail(s)

With(s, tree) == [s EXCEPT !.tree = tree]
Made(s, op, sub) == [s EXCEPT !.tree = Node(op, sub)]

\* The next token becomes the tree.
Take(s) == With(Move(s), Leaf(tt(s)))

IsIdentifier(token) == token \in Identifiers
IsIdentifierReference(s) ==
    IsIdentifier(tt(s)) \/ (tt(s) = "await" /\ ~s.await) \/ (tt(s) = "yield" /\ ~s.yield)

EndsStatement(s) == s.prevLT \/ tt(s) \in {";", "}", End}
Ended(s) == Check(s, EndsStatement(s))

\* A semicolon that ends a statement, on the same line.
Semicolon(s) == IF ~s.prevLT /\ tt(s) = ";" THEN Move(s) ELSE s

\* The functions of the parser call each other in a circle: through Call, which
\* ParseX(s, ...) is the answer of to X(s, ...).
RECURSIVE Call(_, _, _)
Stmt(s, allow) == Call("stmt", s, <<allow>>)
StmtList(s) == Call("stmtList", s, <<>>)
VarDecl(s, kind, list) == Call("varDecl", s, <<kind, list>>)
Binding(s) == Call("binding", s, <<>>)
Params(s, list) == Call("params", s, <<list>>)
Func(s, async, expr) == Call("func", s, <<async, expr>>)
Class(s, expr) == Call("class", s, <<expr>>)
ClassElement(s) == Call("classElement", s, <<>>)
Expression(s, prec) == Call("expression", s, <<prec>>)
ExpressionSuffix(s, prec, left) == Call("suffix", s, <<prec, left>>)
IdentifierExpression(s, prec, name) == Call("identifier", s, <<prec, name>>)
AsyncExpression(s, prec) == Call("async", s, <<prec>>)
ModuleItem(s) == Call("moduleItem", s, <<>>)
--------------------------------------------------------------------------------
(* Statements *)

\* Statements up to one of some tokens.
RECURSIVE ParseStmts(_, _, _)
ParseStmts(s, until, list) ==
    IF tt(s) \in until \cup {End} THEN Made(s, "list", list)
    ELSE LET stmt == Stmt(s, TRUE) IN ParseStmts(stmt, until, Append(list, stmt.tree))

ParseStmtList(s) ==
    LET stmts == ParseStmts(Consume(s, "{"), {"}"}, <<>>)
    IN  With(Consume(stmts, "}"), Node("block", stmts.tree.sub))

\* "(" expression ")"
Parenthesized(s) == Consume(Expression(Consume(s, "("), "expr"), ")")

\* "let" where it is no name of the statement's expression.
BeginsLet(s) == IsIdentifier(tt(s)) \/ tt(s) \in {"yield", "await", "[", "{"}

VarStmt(s, allow) ==
    IF tt(s) = "const" /\ ~allow THEN Fail(s) ELSE Ended(VarDecl(Move(s), tt(s), <<>>))

LetStmt(s, allow) ==
    LET past == Move(s)
    IN  IF allow /\ BeginsLet(past) THEN Ended(VarDecl(past, "let", <<>>))
        ELSE IF tt(past) = "[" THEN Fail(past)
        ELSE LET e == IdentifierExpression(past, "expr", "let")
             IN  Ended(Made(e, "exprstmt", <<e.tree>>))

IfStmt(s) ==
    LET cond == Parenthesized(Move(s))
        body == Stmt(cond, FALSE)
        otherwise == IF tt(body) = "else" THEN Stmt(Move(body), FALSE) ELSE With(body, None)
    IN  Made(otherwise, "if", <<cond.tree, body.tree, otherwise.tree>>)

BranchStmt(s) ==
    LET past == Move(s)
    IN  IF ~past.prevLT /\ IsIdentifierReference(past)
        THEN LET label == Take(past) IN Made(label, tt(s), <<label.tree>>)
        ELSE Made(past, tt(s), <<None>>)

BlockOf(stmt) == IF stmt.op = "block" THEN stmt ELSE Node("block", <<stmt>>)

\* while and with.
HeadStmt(s) ==
    LET cond == Parenthesized(Move(s))
        body == Stmt(cond, FALSE)
    IN  IF tt(s) = "while" /\ s.whileToFor
        THEN Made(body, "for", <<None, cond.tree, None, BlockOf(body.tree)>>)
        ELSE Made(body, tt(s), <<cond.tree, body.tree>>)

DoStmt(s) ==
    LET body == Stmt(Move(s), FALSE)
        cond == Parenthesized(Consume(body, "while"))
    IN  Made(cond, "do", <<body.tree, cond.tree>>)

VarNames == Identifiers \cup {"await", "yield", "#p"}
IsVar(t) == t.sub = <<>> /\ t.op \in VarNames
Declarations == {"var", "let", "const"}

\* The binding and the default of the first element of a declaration.
FirstBinding(decl) == decl.sub[1].sub[1]
FirstDefault(decl) == decl.sub[1].sub[2]

ForInit(s, await) ==
    IF tt(s) \in Declarations
    THEN LET decl == VarDecl(Move(s), tt(s), <<>>)
         IN  Check(decl, decl.err \/
                 IF tt(decl) = ";"
                 THEN FirstDefault(decl.tree) # None \/ IsVar(FirstBinding(decl.tree))
                 ELSE Len(decl.tree.sub) = 1 /\ FirstDefault(decl.tree) = None)
    ELSE IF await THEN Expression(s, "lhs")
    ELSE IF tt(s) # ";" THEN Expression(s, "expr")
    ELSE With(s, None)

ForBody(s) ==
    IF tt(s) = "{" THEN StmtList(s)
    ELSE IF tt(s) = ";" THEN Made(Move(s), "block", <<>>)
    ELSE LET body == Stmt(s, FALSE) IN Made(body, "block", <<body.tree>>)

NotLHS ==
    {"comma", "cond", "yieldexpr", "yield*", "arrow", "asyncarrow", "binary", "unary", "postfix"}
IsLHSExpr(t) == t.op \notin NotLHS

\* An expression, unless a token comes that ends the part without one.
Optionally(s, token) == IF tt(s) = token THEN With(s, None) ELSE Expression(s, "expr")

\* Mutant: in is still false after the initialisation of a for statement.
Bug_AllowIn(s) == s
AllowIn(s) == [s EXCEPT !.in = TRUE]

ForLoop(init) ==
    LET cond == Optionally(Move(init), ";")
        post == Optionally(Consume(cond, ";"), ")")
        body == ForBody(Consume(post, ")"))
    IN  Made(body, "for", <<init.tree, cond.tree, post.tree, body.tree>>)

ForEach(init, op) ==
    LET value == Expression(Move(init), IF op = "forin" THEN "expr" ELSE "assign")
        body == ForBody(Consume(value, ")"))
    IN  Made(body, op, <<init.tree, value.tree, body.tree>>)

\* Past the initialisation.
ForRest(init, await) ==
    IF IsLHSExpr(init.tree) /\ tt(init) = "in" /\ ~await THEN ForEach(init, "forin")
    ELSE IF IsLHSExpr(init.tree) /\ tt(init) = "of"
    THEN ForEach(init, IF await THEN "forawait" ELSE "forof")
    ELSE IF tt(init) = ";" /\ ~await THEN ForLoop(init)
    ELSE Fail(init)

ForStmt(s) ==
    LET past == Move(s)
        await == s.await /\ tt(past) = "await"
        open == Consume(IF await THEN Move(past) ELSE past, "(")
    IN  ForRest(AllowIn(ForInit([open EXCEPT !.in = FALSE], await)), await)

RECURSIVE ParseClauses(_, _)
ParseClauses(s, list) ==
    IF tt(s) = "}" THEN Made(Move(s), "list", list)
    ELSE IF tt(s) \notin {"case", "default"} THEN Fail(s)
    ELSE LET value == IF tt(s) = "case" THEN Expression(Move(s), "expr") ELSE With(Move(s), None)
             stmts == ParseStmts(Consume(value, ":"), {"case", "default", "}"}, <<>>)
         IN  ParseClauses(stmts, Append(list, Node(tt(s), <<value.tree>> \o stmts.tree.sub)))

SwitchStmt(s) ==
    LET init == Parenthesized(Move(s))
        clauses == ParseClauses(Consume(init, "{"), <<>>)
    IN  Made(clauses, "switch", <<init.tree>> \o clauses.tree.sub)

ThrowStmt(s) ==
    LET past == Move(s)
        value == Expression(past, "expr")
    IN  IF past.prevLT THEN Fail(past) ELSE Made(value, "throw", <<value.tree>>)

TryFinally(body, parameter, catch) ==
    LET finally == IF tt(catch) = "finally" THEN StmtList(Move(catch)) ELSE With(catch, None)
    IN  Made(finally, "try", <<body.tree, parameter, catch.tree, finally.tree>>)

TryCatch(body) ==
    LET past == Move(body)
        parameter == IF tt(past) = "(" THEN Consume(Binding(Move(past)), ")") ELSE With(past, None)
    IN  IF tt(body) = "catch" THEN TryFinally(body, parameter.tree, StmtList(parameter))
        ELSE TryFinally(body, None, With(Check(body, tt(body) = "finally"), None))

TryStmt(s) == TryCatch(StmtList(Move(s)))

ReturnStmt(s) ==
    LET past == Move(s)
        value == IF EndsStatement(past) THEN With(past, None) ELSE Expression(past, "expr")
    IN  Made(value, "return", <<value.tree>>)

ExprStmt(s) == Ended(Made(s, "exprstmt", <<s.tree>>))

AsyncStmt(s, allow) ==
    LET past == Move(s)
    IN  IF tt(past) = "function" /\ ~past.prevLT
        THEN IF allow THEN Func(past, TRUE, FALSE) ELSE Fail(s)
        ELSE ExprStmt(AsyncExpression(past, "expr"))

\* A label, or an expression that begins with a name.
LabelOrExprStmt(s) ==
    LET past == Move(s)
        body == IF tt(Move(past)) = "function" THEN [Move(past) EXCEPT !.deflt = FALSE] ELSE Move(past)
        stmt == Stmt(body, TRUE)
    IN  IF tt(past) = ":"
        THEN [Made(stmt, "label", <<Leaf(tt(s)), stmt.tree>>) EXCEPT !.deflt = s.deflt]
        ELSE ExprStmt(IdentifierExpression(past, "expr", tt(s)))

StmtAt(s, allow) ==
    CASE tt(s) = "{" -> StmtList(s)
      [] tt(s) \in {"const", "var"} -> VarStmt(s, allow)
      [] tt(s) = "let" -> LetStmt(s, allow)
      [] tt(s) = "if" -> IfStmt(s)
      [] tt(s) \in {"continue", "break"} -> BranchStmt(s)
      [] tt(s) \in {"with", "while"} -> HeadStmt(s)
      [] tt(s) = "do" -> DoStmt(s)
      [] tt(s) = "for" -> ForStmt(s)
      [] tt(s) = "switch" -> SwitchStmt(s)
      [] tt(s) = "function" -> IF allow THEN Func(s, FALSE, FALSE) ELSE Fail(s)
      [] tt(s) = "async" -> AsyncStmt(s, allow)
      [] tt(s) = "class" -> IF allow THEN Class(s, FALSE) ELSE Fail(s)
      [] tt(s) = "throw" -> ThrowStmt(s)
      [] tt(s) = "try" -> TryStmt(s)
      [] tt(s) = "debugger" -> Take(s)
      [] tt(s) = ";" -> With(Move(s), Leaf("empty"))
      [] OTHER ->
            IF s.retrn /\ tt(s) = "return" THEN ReturnStmt(s)
            ELSE IF IsIdentifierReference(s) THEN LabelOrExprStmt(s)
            ELSE ExprStmt(Expression(s, "expr"))

ParseStmt(s, allow) ==
    IF tt(s) = End THEN With(s, Leaf("empty")) ELSE Semicolon(StmtAt(s, allow))
--------------------------------------------------------------------------------
(* Bindings, functions and classes *)

ParsePropertyName(s) ==
    IF tt(s) \in PropertyNames THEN Take(s)
    ELSE IF tt(s) = "["
    THEN LET e == Expression(Move(s), "assign") IN Made(Consume(e, "]"), "computed", <<e.tree>>)
    ELSE Fail(s)

\* "= default", or nothing.
ParseDefault(s) == IF tt(s) = "=" THEN Expression(Move(s), "assign") ELSE With(s, None)

ParseBindingElement(s) ==
    LET binding == Binding(s)
        default == ParseDefault(binding)
    IN  Made(default, "element", <<binding.tree, default.tree>>)

\* The holes at commas, after the first hole of a pattern that begins with one.
RECURSIVE PastCommas(_, _)
PastCommas(s, list) ==
    IF tt(s) # "," THEN [s EXCEPT !.tree = Node("list", list)]
    ELSE PastCommas(Move(s), IF tt(Move(s)) = "," THEN Append(list, None) ELSE list)

RECURSIVE ParseArrayBinding(_, _, _), ParseObjectBinding(_, _)
ParseArrayBinding(s, list, last) ==
    IF tt(s) = "]" THEN Made(Move(s), "arraybinding", list)
    ELSE LET past == PastCommas(s, list)
             element == ParseBindingElement(past)
             rest == Binding(Move(past))
             before == past.tree.sub
             longer == Append(before, element.tree)
         IN  IF tt(past) = "..."
             THEN Made(Consume(rest, "]"), "arraybinding", Append(before, Node("rest", <<rest.tree>>)))
             ELSE IF tt(past) = "]" THEN Made(Move(past), "arraybinding", SubSeq(before, 1, last))
             ELSE IF tt(element) \notin {",", "]"} THEN Fail(element)
             ELSE ParseArrayBinding(element, longer, Len(longer))

\* Past the key of an item, which may be the name itself.
BindingItem(key, named) ==
    LET value == ParseBindingElement(Consume(key, ":"))
        default == ParseDefault(key)
    IN  IF tt(key) # ":" /\ named THEN Made(default, "shorthand", <<key.tree, default.tree>>)
        ELSE Made(value, "item", <<key.tree, value.tree>>)

\* Past an item of an object's pattern.
NextBinding(s, list) ==
    IF tt(s) = "," THEN ParseObjectBinding(Move(s), Append(list, s.tree))
    ELSE IF tt(s) = "}" THEN ParseObjectBinding(s, Append(list, s.tree))
    ELSE Fail(s)

ParseObjectBinding(s, list) ==
    IF tt(s) = "}" THEN Made(Move(s), "objectbinding", list)
    ELSE IF tt(s) = "..."
    THEN LET rest == Take(Check(Move(s), IsIdentifierReference(Move(s))))
         IN  Made(Consume(rest, "}"), "objectbinding", Append(list, Node("rest", <<rest.tree>>)))
    ELSE LET named == IsIdentifierReference(s)
         IN  NextBinding(BindingItem(IF named THEN Take(s) ELSE ParsePropertyName(s), named), list)

ParseBinding(s) ==
    IF IsIdentifierReference(s) THEN Take(s)
    ELSE IF tt(s) = "[" THEN ParseArrayBinding(Move(s), IF tt(Move(s)) = "," THEN <<None>> ELSE <<>>, 0)
    ELSE IF tt(s) = "{" THEN ParseObjectBinding(Move(s), <<>>)
    ELSE Fail(s)

ParseVarDecl(s, kind, list) ==
    LET binding == Binding(s)
        default == ParseDefault(binding)
        ok == \/ tt(binding) = "="
              \/ /\ IsVar(binding.tree) \/ (~binding.in /\ list = <<>>)
                 /\ kind = "const" => ~binding.in /\ tt(binding) \in {"of", "in"}
        longer == Append(list, Node("element", <<binding.tree, default.tree>>))
    IN  IF ~ok THEN Fail(binding)
        ELSE IF tt(default) = "," THEN VarDecl(Move(default), kind, longer)
        ELSE Made(default, kind, longer)

RECURSIVE ParseParams(_, _)
ParseParams(s, list) ==
    IF tt(s) = ")" THEN Made(Move(s), "params", list)
    ELSE IF tt(s) = "..."
    THEN LET rest == Binding(Move(s))
         IN  Made(Consume(rest, ")"), "params", Append(list, Node("rest", <<rest.tree>>)))
    ELSE LET e == ParseBindingElement(s)
         IN  IF tt(e) = "," THEN Params(Move(e), Append(list, e.tree))
             ELSE IF tt(e) = ")" THEN Params(e, Append(list, e.tree))
             ELSE Fail(e)

ParseFuncParams(s) == Params(Consume(s, "("), <<>>)

\* Out of a function, into the one around it.
Within(s, of) == [s EXCEPT !.await = of.await, !.yield = of.yield, !.retrn = of.retrn]

\* Parameters and body of a function: sub \o <<parameters, body>>.
ParseFuncRest(s, op, sub, async, generator) ==
    LET inside == [s EXCEPT !.await = async, !.yield = generator, !.retrn = TRUE]
        params == ParseFuncParams(inside)
        body == StmtList(params)
    IN  Within(Made(body, op, sub \o <<params.tree, body.tree>>), s)

FuncOp(async, generator) ==
    IF async THEN IF generator THEN "asyncfunction*" ELSE "asyncfunction"
    ELSE IF generator THEN "function*" ELSE "function"

ParseFunc(s, async, expr) ==
    LET generator == tt(Move(s)) = "*"
        past == IF generator THEN Move(Move(s)) ELSE Move(s)
        named == IF expr THEN IsIdentifier(tt(past)) \/ tt(past) \in {"yield", "await"}
                 ELSE IsIdentifierReference(past)
        name == IF named THEN Take(past)
                ELSE Check(With(past, None), (expr \/ past.deflt) /\ tt(past) = "(")
    IN  ParseFuncRest(name, FuncOp(async, generator), <<name.tree>>, async, generator)

\* What may stand before the name of a method: the state past it, whether it is
\* async, a generator, a getter or a setter, and the last of its words, which
\* may be the name.
Modifiers(s, static) ==
    LET past == Move(s)
        async == tt(s) = "async" /\ ~past.prevLT
        star == tt(s) = "*" \/ (async /\ tt(past) = "*")
    IN  IF tt(s) \notin {"*", "async", "get", "set"}
        THEN [s |-> s, kind |-> "method", word |-> IF static THEN "static" ELSE "none"]
        ELSE [s |-> IF async /\ star THEN Move(past) ELSE past,
              kind |-> IF async THEN IF star THEN "async*" ELSE "async"
                       ELSE IF tt(s) = "async" THEN "method" ELSE tt(s),
              word |-> IF tt(s) = "*" THEN IF static THEN "static" ELSE "none"
                       ELSE IF star THEN "none" ELSE tt(s)]

IsAsync(kind) == kind \in {"async", "async*"}
IsGenerator(kind) == kind \in {"*", "async*"}

Method(s, static, kind, name) ==
    ParseFuncRest(s, "method", <<static, Leaf(kind), name>>, IsAsync(kind), IsGenerator(kind))

StaticBlock(s) ==
    LET block == StmtList([s EXCEPT !.yield = FALSE, !.await = TRUE, !.retrn = FALSE])
    IN  Within(Made(block, "staticblock", <<block.tree>>), s)

ParseField(s, static, name) ==
    LET init == ParseDefault(s) IN Made(init, "field", <<static, name, init.tree>>)

\* After the modifiers m, one of whose words may be the name.
MethodOrField(m, static) ==
    LET own == m.kind \in {"async", "get", "set"}
        nameless == m.word # "none" /\ tt(m.s) \in {"(", "=", ";", "}"}
        isStatic == IF static /\ (own \/ ~nameless) THEN Leaf("static") ELSE None
        name == IF tt(m.s) = "#p" THEN Take(m.s) ELSE ParsePropertyName(m.s)
    IN  IF nameless
        THEN IF tt(m.s) = "(" THEN Method(m.s, isStatic, IF own THEN "method" ELSE m.kind, Leaf(m.word))
             ELSE ParseField(m.s, isStatic, Leaf(m.word))
        ELSE IF (m.word = "none" \/ static) /\ tt(name) # "(" THEN ParseField(name, isStatic, name.tree)
        ELSE Method(name, isStatic, m.kind, name.tree)

ParseClassElement(s) ==
    LET static == tt(s) = "static"
        past == IF static THEN Move(s) ELSE s
    IN  IF static /\ tt(past) = "{" THEN StaticBlock(past)
        ELSE MethodOrField(Modifiers(past, static), static)

RECURSIVE ParseClassBody(_, _)
ParseClassBody(s, sub) ==
    IF tt(s) = "}" THEN Made(Move(s), "class", sub)
    ELSE IF tt(s) = ";" THEN ParseClassBody(Move(s), sub)
    ELSE IF tt(s) = End THEN Fail(s)
    ELSE LET e == ClassElement(s) IN ParseClassBody(e, Append(sub, e.tree))

ParseClass(s, expr) ==
    LET past == Move(s)
        named == IsIdentifier(tt(past)) \/ tt(past) \in {"yield", "await"}
        name == IF named THEN Take(past) ELSE Check(With(past, None), expr \/ past.deflt)
        extends == IF tt(name) = "extends" THEN Expression(Move(name), "lhs") ELSE With(name, None)
    IN  ParseClassBody(Consume(extends, "{"), <<name.tree, extends.tree>>)
--------------------------------------------------------------------------------
(* Expressions *)

Levels ==
    <<"expr", "assign", "coalesce", "or", "and", "bitor", "bitxor", "bitand", "equals", "compare",
      "shift", "add", "mul", "exp", "unary", "update", "lhs", "opt", "call", "new", "member",
      "primary">>
OpPrec == [prec \in ToSet(Levels) |-> CHOOSE n \in DOMAIN Levels : Levels[n] = prec]

Below(p, q) == OpPrec[p] < OpPrec[q]
LowerOf(p, q) == IF Below(p, q) THEN p ELSE q

\* For each operator its precedence, the least of what may stand before it, and
\* the precedence with which what follows is parsed.
Operator(prec, left, right) == [prec |-> prec, left |-> left, right |-> right]
OperatorTable ==
    [op \in {"=", "+="} |-> Operator("assign", "lhs", "assign")]
    @@ [op \in {"<", "in", "instanceof"} |-> Operator("compare", "compare", "shift")]
    @@ ("==" :> Operator("equals", "equals", "compare"))
    @@ ("&&" :> Operator("and", "and", "bitor"))
    @@ ("||" :> Operator("or", "or", "and"))
    @@ ("??" :> Operator("coalesce", "bitor", "bitor"))
    @@ ("**" :> Operator("exp", "update", "exp"))
    @@ ("*" :> Operator("mul", "mul", "exp"))
    @@ [op \in {"+", "-"} |-> Operator("add", "add", "mul")]
    @@ ("<<" :> Operator("shift", "shift", "add"))
    @@ ("&" :> Operator("bitand", "bitand", "equals"))
    @@ ("^" :> Operator("bitxor", "bitxor", "bitand"))
    @@ ("|" :> Operator("bitor", "bitor", "bitxor"))

BinaryOperators == DOMAIN OperatorTable

\* Mutant: what follows - may be another sum.
Bug_Operators(op) == IF op = "-" THEN Operator("add", "add", "add") ELSE OperatorTable[op]

Operators(op) == OperatorTable[op]

\* In brackets in is an operator, also in the head of a for statement.
Inside(s) == [s EXCEPT !.in = TRUE]
Outside(s, of) == [s EXCEPT !.in = of.in]

RECURSIVE ParseList(_, _)

\* parseArguments: what is left of the arguments, up to ")".
ParseList(s, list) ==
    IF tt(s) = ")" THEN Made(Move(s), "args", list)
    ELSE LET spread == tt(s) = "..."
             e == Expression(IF spread THEN Move(s) ELSE s, "assign")
             longer == Append(list, IF spread THEN Node("spread", <<e.tree>>) ELSE e.tree)
         IN  IF tt(e) = "," THEN ParseList(Move(e), longer)
             ELSE IF tt(e) = ")" THEN ParseList(e, longer)
             ELSE Fail(e)

ParseArguments(s) == ParseList(Move(s), <<>>)

\* parseTemplateLiteral, at a part of the template.
RECURSIVE ParseTemplateLiteral(_, _)
ParseTemplateLiteral(s, list) ==
    IF tt(s) \in {"tpl{", "}tpl{"}
    THEN LET e == Expression(Move(s), "expr")
         IN  ParseTemplateLiteral(e, list \o <<Leaf(tt(s)), e.tree>>)
    ELSE IF tt(s) \in {"tpl", "}tpl"} THEN Made(Move(s), "template", Append(list, Leaf(tt(s))))
    ELSE Fail(s)

\* A parameter of an arrow function, if this becomes one, or an expression.
ParseAssignExprOrParam(s) ==
    LET past == Move(s)
        no == [past EXCEPT !.assume = FALSE]
    IN  IF ~(s.assume /\ IsIdentifierReference(s))
        THEN Expression([s EXCEPT !.assume = @ /\ tt(s) \in {"[", "{"}], "assign")
        ELSE IF tt(past) \in {"=", ",", ")", "}", "]"}
        THEN [IdentifierExpression(no, "assign", tt(s)) EXCEPT !.assume = TRUE]
        ELSE IF tt(s) = "async" THEN AsyncExpression(no, "assign")
        ELSE IdentifierExpression(no, "assign", tt(s))

RECURSIVE ParseArrayLiteral(_, _, _)
ParseArrayLiteral(s, list, prevComma) ==
    IF tt(s) = End THEN Fail(s)
    ELSE IF tt(s) = "]" THEN Made(Move(s), "array", list)
    ELSE IF tt(s) = ","
    THEN ParseArrayLiteral(Move(s), IF prevComma THEN Append(list, None) ELSE list, TRUE)
    ELSE LET spread == tt(s) = "..."
             e == ParseAssignExprOrParam(IF spread THEN Move(s) ELSE s)
         IN  ParseArrayLiteral([e EXCEPT !.assume = @ /\ (spread => tt(e) = "]")],
                 Append(list, IF spread THEN Node("spread", <<e.tree>>) ELSE e.tree), FALSE)

ObjectSpread(s) ==
    LET e == ParseAssignExprOrParam(Move(s))
    IN  Made([e EXCEPT !.assume = @ /\ IsVar(e.tree) /\ tt(e) = "}"], "spread", <<e.tree>>)

\* parseFuncParams and the body of a method: no parameter.
ObjectMethod(s, kind, name) == Method([s EXCEPT !.assume = FALSE], None, kind, name)

\* Past the name of a property.
PropertyValue(s, kind, name) ==
    LET value == ParseAssignExprOrParam(Move(s))
        init == Expression([Move(s) EXCEPT !.assume = FALSE], "assign")
        isName == name.op \in IdentifierNames
    IN  IF tt(s) = "(" THEN ObjectMethod(s, kind, name)
        ELSE IF tt(s) = ":" THEN Made(value, "property", <<name, value.tree>>)
        ELSE IF ~isName THEN Fail(s)
        ELSE IF tt(s) = "="
        THEN [Made(init, "shorthand", <<name, init.tree>>) EXCEPT !.assume = s.assume]
        ELSE Made(s, "shorthand", <<name, None>>)

\* After the modifiers m, one of whose words may be the name.
PropertyNamed(m, name, split) ==
    IF split \/ (m.word # "none" /\ tt(m.s) \in {"=", ",", "}", ":", "("})
    THEN PropertyValue(m.s, "method", Leaf(m.word))
    ELSE PropertyValue(name, m.kind, name.tree)

ParseProperty(s) ==
    LET m == Modifiers(s, FALSE)
    IN  PropertyNamed(m, ParsePropertyName(m.s), tt(s) = "async" /\ m.kind = "method")

RECURSIVE ParseObjectLiteral(_, _)

\* Past a property.
NextProperty(s, list) ==
    IF tt(s) = "," THEN ParseObjectLiteral(Move(s), Append(list, s.tree))
    ELSE IF tt(s) = "}" THEN ParseObjectLiteral(s, Append(list, s.tree))
    ELSE Fail(s)

ParseObjectLiteral(s, list) ==
    IF tt(s) = "}" THEN Made(Move(s), "object", list)
    ELSE IF tt(s) = End THEN Fail(s)
    ELSE NextProperty(IF tt(s) = "..." THEN ObjectSpread(s) ELSE ParseProperty(s), list)

\* The parameters that the expressions in parentheses stand for.
RECURSIVE ExprToBinding(_), IsPattern(_)

IsAssignment(t) == t.op = "binary" /\ t.sub[2].op = "="

\* Mutant: a default value that the parameters had as an expression is forgotten.
Bug_ExprToBindingElement(t) ==
    IF t = None THEN None
    ELSE Node("element", <<ExprToBinding(IF IsAssignment(t) THEN t.sub[1] ELSE t), None>>)

ExprToBindingElement(t) ==
    IF t = None THEN None
    ELSE IF IsAssignment(t) THEN Node("element", <<ExprToBinding(t.sub[1]), t.sub[3]>>)
    ELSE Node("element", <<ExprToBinding(t), None>>)

ItemToBinding(t) ==
    CASE t.op = "spread" -> Node("rest", <<ExprToBinding(t.sub[1])>>)
      [] t.op = "property" -> Node("item", <<t.sub[1], ExprToBindingElement(t.sub[2])>>)
      [] OTHER -> t

ElementToBinding(t) ==
    IF t.op = "spread" THEN Node("rest", <<ExprToBinding(t.sub[1])>>) ELSE ExprToBindingElement(t)

ExprToBinding(t) ==
    CASE t.op = "array" -> Node("arraybinding", [n \in DOMAIN t.sub |-> ElementToBinding(t.sub[n])])
      [] t.op = "object" -> Node("objectbinding", [n \in DOMAIN t.sub |-> ItemToBinding(t.sub[n])])
      [] OTHER -> t

IsPatternElement(t) == IsPattern(IF IsAssignment(t) THEN t.sub[1] ELSE t)
IsPatternItem(t) ==
    CASE t.op = "spread" -> IsPattern(t.sub[1])
      [] t.op = "property" -> IsPatternElement(t.sub[2])
      [] OTHER -> IsPatternElement(t)

IsPattern(t) ==
    \/ IsVar(t) \/ t = None \/ t.op = "shorthand"
    \/ t.op \in {"array", "object"} /\ \A n \in DOMAIN t.sub : IsPatternItem(t.sub[n])

ToParams(list) == Node("params", [n \in DOMAIN list |-> ElementToBinding(list[n])])

\* At the arrow.
ParseArrowFuncBody(s) ==
    LET past == Move(s)
        block == StmtList([past EXCEPT !.in = TRUE, !.retrn = TRUE])
        value == Expression(past, "assign")
    IN  IF tt(s) # "=>" \/ s.prevLT THEN Fail(s)
        ELSE IF tt(past) = "{" THEN [block EXCEPT !.in = s.in, !.retrn = s.retrn]
        ELSE Made(value, "block", <<Node("return", <<value.tree>>)>>)

\* An arrow function at its arrow, inside which await is a keyword if it is async.
ArrowFunc(s, op, params, of) ==
    LET body == ParseArrowFuncBody(s)
    IN  [Made(body, op, <<params, body.tree>>) EXCEPT !.await = of.await, !.yield = of.yield]

OneParameter(name) == Node("params", <<Node("element", <<Leaf(name), None>>)>>)

ParseIdentifierArrowFunc(s) ==
    ArrowFunc([s EXCEPT !.await = FALSE, !.yield = FALSE], "arrow", OneParameter(s.tree.op), s)

ParseAsyncArrowFunc(s) ==
    LET inside == [s EXCEPT !.await = TRUE, !.yield = FALSE]
    IN  IF IsIdentifier(tt(s)) \/ (~s.yield /\ tt(s) = "yield")
        THEN ArrowFunc(Move(inside), "asyncarrow", OneParameter(tt(s)), s)
        ELSE Fail(s)

ParseIdentifierExpression(s, prec, name) == ExpressionSuffix(With(s, Leaf(name)), prec, "primary")

RECURSIVE ParseCover(_, _, _)

\* What is between parentheses, arguments or parameters or an expression.
ParseCover(s, list, async) ==
    IF tt(s) \in {")", End} THEN Made(s, "args", list)
    ELSE LET late == list # <<>> /\ Last(list).op = "spread"
             open == [Check(s, ~late \/ async) EXCEPT !.assume = @ /\ ~late]
             spread == tt(open) = "..."
             e == ParseAssignExprOrParam(IF spread THEN Move(open) ELSE open)
             longer == Append(list, IF spread THEN Node("spread", <<e.tree>>) ELSE e.tree)
         IN  IF tt(e) = "," THEN ParseCover(Move(e), longer, async) ELSE Made(e, "args", longer)

\* At the closing parenthesis, with what it was outside in of: parameters,
\* arguments of a function async, or an expression.
AfterCover(s, args, prec, async, of) ==
    LET body == ArrowFunc([s EXCEPT !.assume = of.assume, !.await = async, !.yield = FALSE],
                    IF async THEN "asyncarrow" ELSE "arrow", ToParams(args), of)
        out == [s EXCEPT !.assume = of.assume]
        rests == \E n \in DOMAIN args : args[n].op = "spread"
        inner == IF Len(args) = 1 THEN args[1] ELSE Node("comma", args)
    IN  IF s.err THEN s
        ELSE IF ~s.prevLT /\ tt(s) = "=>" /\ s.assume
        THEN IF \A n \in DOMAIN args : IsPatternItem(args[n])
             THEN ExpressionSuffix(body, prec, "assign") ELSE Fail(s)
        ELSE IF async
        THEN IF Below("call", prec) THEN Fail(out)
             ELSE ExpressionSuffix(Made(out, "call", <<Leaf("async")>> \o args), prec, "call")
        ELSE IF args = <<>> \/ rests THEN Fail(out)
        ELSE ExpressionSuffix(Made(out, "group", <<inner>>), prec, "primary")

ParseParenthesizedExpression(s, prec, async) ==
    LET cover == ParseCover([Move(s) EXCEPT !.assume = TRUE, !.in = TRUE], <<>>, async)
    IN  AfterCover([Consume(cover, ")") EXCEPT !.in = s.in], cover.tree.sub, prec, async, s)

\* Past async.
ParseAsyncExpression(s, prec) ==
    LET function == ~s.prevLT /\ tt(s) = "function"
        arrow == /\ ~s.prevLT /\ ~Below("assign", prec)
                 /\ tt(s) = "(" \/ IsIdentifier(tt(s)) \/ tt(s) \in {"yield", "await"}
    IN  IF function THEN ExpressionSuffix(Func(s, TRUE, TRUE), prec, "primary")
        ELSE IF ~arrow THEN IdentifierExpression(s, prec, "async")
        ELSE IF tt(s) = "(" THEN ParseParenthesizedExpression(s, prec, TRUE)
        ELSE ExpressionSuffix(ParseAsyncArrowFunc(s), prec, "assign")

Unary(s) == LET x == Expression(Move(s), "unary") IN Made(x, "unary", <<Leaf(tt(s)), x.tree>>)

NewExpr(s) ==
    LET callee == Expression(Move(s), "new")
        args == ParseArguments(callee)
        target == Consume(Move(Move(s)), "target")
    IN  IF tt(Move(s)) = "." THEN [s |-> Made(target, "new.target", <<>>), left |-> "member"]
        ELSE IF tt(callee) = "("
        THEN [s |-> Made(args, "new", <<callee.tree>> \o args.tree.sub), left |-> "member"]
        ELSE [s |-> Made(callee, "new", <<callee.tree>>), left |-> "new"]

ImportExpr(s, prec) ==
    LET past == With(Move(s), Leaf("import"))
        meta == Consume(Move(past), "meta")
    IN  IF tt(past) = "." THEN [s |-> Made(meta, "import.meta", <<>>), left |-> "member"]
        ELSE [s |-> Check(past, tt(past) = "(" /\ ~Below("call", prec)), left |-> "call"]

SuperExpr(s, prec) ==
    LET past == Take(s)
        member == Below("call", prec)
    IN  [s |-> Check(past, tt(past) \in {".", "["} \/ (tt(past) = "(" /\ ~member)),
         left |-> IF member THEN "member" ELSE "call"]

YieldExpr(s) ==
    LET past == Move(s)
        delegate == tt(past) = "*"
        bare == past.prevLT \/ (~delegate /\ tt(past) \in {"}", "]", ")", ":", ",", ";"})
        x == Expression(IF delegate THEN Move(past) ELSE past, "assign")
    IN  IF bare THEN Made(past, "yieldexpr", <<None>>)
        ELSE Made(x, IF delegate THEN "yield*" ELSE "yieldexpr", <<x.tree>>)

\* The first part of an expression, and its precedence.
Primary(s, prec) ==
    LET part(state, left) == [s |-> state, left |-> left]
        inside == Inside(s)
        group == Expression(Move(inside), "expr")
        template == ParseTemplateLiteral(inside, <<>>)
        private == Take(s)
        failed == part(Fail(s), "primary")
    IN  CASE tt(s) \in {"str", "this"} -> part(Take(s), "primary")
          [] tt(s) = "[" -> part(Outside(ParseArrayLiteral(Move(inside), <<>>, TRUE), s), "primary")
          [] tt(s) = "{" -> part(Outside(ParseObjectLiteral(Move(inside), <<>>), s), "primary")
          [] tt(s) = "(" ->
                part(Made(Consume(Outside(group, s), ")"), "group", <<group.tree>>), "primary")
          [] tt(s) \in {"!", "typeof", "+", "-"} ->
                IF Below("unary", prec) THEN failed ELSE part(Unary(s), "unary")
          [] tt(s) = "++" -> IF Below("update", prec) THEN failed ELSE part(Unary(s), "unary")
          [] tt(s) = "await" ->
                IF ~s.await THEN part(Take(s), "primary")
                ELSE IF Below("unary", prec) THEN failed ELSE part(Unary(s), "unary")
          [] tt(s) = "new" -> NewExpr(s)
          [] tt(s) = "import" -> ImportExpr(s, prec)
          [] tt(s) = "super" -> SuperExpr(s, prec)
          [] tt(s) = "yield" ->
                IF ~s.yield THEN part(Take(s), "primary")
                ELSE IF Below("assign", prec) THEN failed ELSE part(YieldExpr(s), "assign")
          [] tt(s) = "async" -> part(Outside(AsyncExpression(Move(inside), prec), s), "primary")
          [] tt(s) = "class" -> part(Outside(Class(inside, TRUE), s), "primary")
          [] tt(s) = "function" -> part(Outside(Func(inside, FALSE, TRUE), s), "primary")
          [] tt(s) \in {"tpl", "tpl{"} -> part(Outside(template, s), "primary")
          [] tt(s) = "#p" ->
                IF Below("compare", prec) \/ ~s.in THEN failed
                ELSE part(Check(private, tt(private) = "in"), "primary")
          [] OTHER -> failed

AfterPart(part, prec) == ExpressionSuffix(part.s, prec, part.left)

\* A "/" or "/=" here, which the code has the lexer read again as a regular expression
\* (js/parse.go:1644-1651), is left out: no program has a "/".
ParseExpression(s, prec) ==
    IF (IsIdentifier(tt(s)) /\ tt(s) # "async") \/ tt(s) = "0"
    THEN ExpressionSuffix(Take(s), prec, "primary")
    ELSE IF tt(s) = "(" /\ ~Below("assign", prec) THEN ParseParenthesizedExpression(s, prec, FALSE)
    ELSE AfterPart(Primary(s, prec), prec)

BinarySuffix(s, prec, left) ==
    LET op == Operators(tt(s))
        right == Expression(Move(s), op.right)
        sub == <<s.tree, Leaf(tt(s)), right.tree>>
    IN  IF Below(op.prec, prec) \/ (tt(s) = "in" /\ ~s.in) THEN s
        ELSE IF Below(left, op.left) /\ ~(tt(s) = "??" /\ left = "coalesce") THEN Fail(s)
        ELSE ExpressionSuffix(Made(right, "binary", sub), prec, op.prec)

DotSuffix(s, prec, left) ==
    LET name == Take(Move(s))
        dot == Made(name, "dot", <<s.tree, name.tree>>)
    IN  IF tt(Move(s)) \notin MemberNames THEN Fail(s)
        ELSE ExpressionSuffix(dot, prec, LowerOf(left, "member"))

IndexSuffix(s, prec, left) ==
    LET e == Expression(Move(Inside(s)), "expr")
        past == Consume(Outside(e, s), "]")
    IN  ExpressionSuffix(Made(past, "index", <<s.tree, e.tree>>), prec, LowerOf(left, "member"))

CallSuffix(s, prec, left) ==
    LET args == Outside(ParseArguments(Inside(s)), s)
        call == Made(args, "call", <<s.tree>> \o args.tree.sub)
    IN  ExpressionSuffix(call, prec, LowerOf(left, "call"))

TemplateSuffix(s, prec, left) ==
    LET template == Outside(ParseTemplateLiteral(Inside(s), <<>>), s)
        tagged == Made(template, "tagged", <<s.tree, template.tree>>)
    IN  ExpressionSuffix(tagged, prec, LowerOf(left, "member"))

\* After "?.": the brackets do not make in an operator here.
OptChainSuffix(s, prec) ==
    LET past == Move(s)
        args == ParseArguments(past)
        index == Expression(Move(past), "expr")
        template == ParseTemplateLiteral(past, <<>>)
        name == Take(past)
        optional ==
            CASE tt(past) = "(" -> Made(args, "optcall", <<s.tree>> \o args.tree.sub)
              [] tt(past) = "[" -> Made(Consume(index, "]"), "optindex", <<s.tree, index.tree>>)
              [] tt(past) \in {"tpl", "tpl{"} -> Made(template, "opttagged", <<s.tree, template.tree>>)
              [] tt(past) \in MemberNames -> Made(name, "optdot", <<s.tree, name.tree>>)
              [] OTHER -> Fail(past)
    IN  ExpressionSuffix(optional, prec, "opt")

CondSuffix(s, prec) ==
    LET then == Expression(Move(Inside(s)), "assign")
        else == Expression(Consume(Outside(then, s), ":"), "assign")
    IN  ExpressionSuffix(Made(else, "cond", <<s.tree, then.tree, else.tree>>), prec, "assign")

CommaSuffix(s, prec) ==
    LET e == Expression(Move(s), "assign")
        list == IF s.tree.op = "comma" THEN s.tree.sub ELSE <<s.tree>>
    IN  ExpressionSuffix(Made(e, "comma", Append(list, e.tree)), prec, "expr")

\* What follows the expression in s.tree, whose precedence is left.
ParseExpressionSuffix(s, prec, left) ==
    LET target == ~Below(left, "lhs")
        ifTarget(state) == IF target THEN state ELSE Fail(s)
        postfix == Made(Move(s), "postfix", <<s.tree>>)
    IN  CASE tt(s) \in BinaryOperators -> BinarySuffix(s, prec, left)
          [] tt(s) = "." -> ifTarget(DotSuffix(s, prec, left))
          [] tt(s) = "[" -> ifTarget(IndexSuffix(s, prec, left))
          [] tt(s) = "(" -> IF Below("call", prec) THEN s ELSE ifTarget(CallSuffix(s, prec, left))
          [] tt(s) \in {"tpl", "tpl{"} -> ifTarget(TemplateSuffix(s, prec, left))
          [] tt(s) = "?." -> IF Below("opt", prec) THEN s ELSE ifTarget(OptChainSuffix(s, prec))
          [] tt(s) = "++" ->
                IF s.prevLT \/ Below("update", prec) THEN s
                ELSE ifTarget(ExpressionSuffix(postfix, prec, "update"))
          [] tt(s) = "?" ->
                IF Below("assign", prec) THEN s
                ELSE IF Below(left, "coalesce") THEN Fail(s) ELSE CondSuffix(s, prec)
          [] tt(s) = "," -> IF Below("expr", prec) THEN s ELSE CommaSuffix(s, prec)
          [] tt(s) = "=>" ->
                IF Below("assign", prec) THEN s
                ELSE IF left # "primary" \/ s.prevLT \/ ~IsVar(s.tree) THEN Fail(s)
                ELSE ExpressionSuffix(ParseIdentifierArrowFunc(s), prec, "assign")
          [] OTHER -> s
--------------------------------------------------------------------------------
(* Modules *)

BindsImport(token) == IsIdentifier(token) \/ token = "yield"
ModuleNames == IdentifierNames \cup {"str"}
NamesModule(token) == token \in ModuleNames

Alias(name, binding) == Node("alias", <<name, binding>>)

\* name, or name as binding.
ImportAlias(s) ==
    LET past == Move(s)
        binding == Move(past)
    IN  IF tt(past) = "as"
        THEN Made(Check(Move(binding), BindsImport(tt(binding))), "alias",
                 <<Leaf(tt(s)), Leaf(tt(binding))>>)
        ELSE Made(Check(past, BindsImport(tt(s))), "alias", <<None, Leaf(tt(s))>>)

ExportAlias(s) ==
    LET past == Move(s)
        binding == Move(past)
    IN  IF tt(past) = "as"
        THEN Made(Check(Move(binding), NamesModule(tt(binding))), "alias",
                 <<Leaf(tt(s)), Leaf(tt(binding))>>)
        ELSE Made(past, "alias", <<None, Leaf(tt(s))>>)

RECURSIVE ParseAliases(_, _, _)

\* Past one of the names.
NextAlias(s, export, list) ==
    IF tt(s) = "," /\ tt(Move(s)) = "}"
    THEN Made(Move(Move(s)), "names", list \o <<s.tree, Alias(None, None)>>)
    ELSE ParseAliases(IF tt(s) = "," THEN Move(s) ELSE s, export, Append(list, s.tree))

ParseAliases(s, export, list) ==
    IF ~NamesModule(tt(s)) THEN Made(Consume(s, "}"), "names", list)
    ELSE NextAlias(IF export THEN ExportAlias(s) ELSE ImportAlias(s), export, list)

\* "* as binding"
ImportAll(s) ==
    LET binding == Consume(Move(s), "as")
    IN  Made(Check(Move(binding), BindsImport(tt(binding))), "names",
             <<Alias(Leaf("*"), Leaf(tt(binding)))>>)

ImportClause(s) ==
    CASE tt(s) = "*" -> ImportAll(s)
      [] tt(s) = "{" -> ParseAliases(Move(s), FALSE, <<>>)
      [] OTHER -> Fail(s)

ModuleName(s) == Take(Check(s, tt(s) = "str"))

\* A semicolon, also on another line.
AnySemicolon(s) == IF tt(s) = ";" THEN Move(s) ELSE s

ImportFrom(default, clause) ==
    LET module == ModuleName(Consume(clause, "from"))
    IN  Made(module, "importstmt", <<default, clause.tree, module.tree>>)

\* Past the name for the default.
AfterDefault(s) ==
    ImportFrom(s.tree, IF tt(s) = "," THEN ImportClause(Move(s)) ELSE With(s, None))

ParseImportStmt(s) ==
    LET bare == ModuleName(s)
    IN  AnySemicolon(
            IF tt(s) = "str" THEN Made(bare, "importstmt", <<None, None, bare.tree>>)
            ELSE IF BindsImport(tt(s)) THEN AfterDefault(Take(s))
            ELSE ImportFrom(None, ImportClause(s)))

\* Where an expression may begin with import.
ImportItem(s) ==
    LET past == Move(s)
        call == ExpressionSuffix(With(past, Leaf("import")), "expr", "call")
        name == Made(Consume(Move(past), "meta"), "import.meta", <<>>)
        meta == ExpressionSuffix(name, "expr", "member")
    IN  CASE tt(past) = "(" -> Semicolon(Made(call, "exprstmt", <<call.tree>>))
          [] tt(past) = "." -> Semicolon(Made(meta, "exprstmt", <<meta.tree>>))
          [] OTHER -> ParseImportStmt(past)

ExportAll(s) ==
    LET past == Move(s)
        name == Move(past)
    IN  IF tt(past) = "as"
        THEN Made(Check(Move(name), NamesModule(tt(name))), "names",
                  <<Alias(Leaf("*"), Leaf(tt(name)))>>)
        ELSE Made(past, "names", <<Alias(None, Leaf("*"))>>)

\* Past the names, which are all of them or are in braces.
ExportFrom(names, all) ==
    LET module == IF tt(names) = "from" THEN ModuleName(Move(names)) ELSE With(Check(names, ~all), None)
    IN  Made(module, "export", <<names.tree, module.tree>>)

ExportNames(s) ==
    IF tt(s) = "*" THEN ExportFrom(ExportAll(s), TRUE)
    ELSE ExportFrom(ParseAliases(Move(s), TRUE, <<>>), FALSE)

ExportDefault(s) ==
    LET past == Move(s)
        function == tt(past) = "function" /\ ~past.prevLT
        decl == CASE tt(s) = "function" -> Func(s, FALSE, FALSE)
                  [] tt(s) = "async" -> IF function THEN Func(past, TRUE, FALSE)
                                        ELSE AsyncExpression(past, "assign")
                  [] tt(s) = "class" -> Class(s, FALSE)
                  [] OTHER -> Expression(s, "assign")
    IN  Made(decl, "exportdefault", <<decl.tree>>)

ExportDecl(s) ==
    LET past == Move(s)
        decl == CASE tt(s) \in Declarations -> VarDecl(past, tt(s), <<>>)
                  [] tt(s) = "function" -> Func(s, FALSE, FALSE)
                  [] tt(s) = "async" ->
                        Func(Check(past, tt(past) = "function" /\ ~past.prevLT), TRUE, FALSE)
                  [] tt(s) = "class" -> Class(s, FALSE)
                  [] OTHER -> Fail(s)
    IN  Made(decl, "exportdecl", <<decl.tree>>)

ParseExportStmt(s) ==
    LET past == [Move(s) EXCEPT !.yield = FALSE, !.await = TRUE, !.deflt = TRUE]
        exported == CASE tt(past) \in {"*", "{"} -> ExportNames(past)
                      [] tt(past) = "default" -> ExportDefault(Move(past))
                      [] OTHER -> ExportDecl(past)
    IN  [AnySemicolon(exported) EXCEPT !.yield = s.yield, !.await = s.await, !.deflt = s.deflt]

ParseModuleItem(s) ==
    CASE tt(s) = "import" -> ImportItem(s)
      [] tt(s) = "export" -> ParseExportStmt(s)
      [] OTHER -> Stmt(s, TRUE)

RECURSIVE ParseModule(_, _)
ParseModule(s, list) ==
    LET item == ModuleItem(s)
    IN  IF tt(s) = End THEN Made(s, "module", list) ELSE ParseModule(item, Append(list, item.tree))

Start(program, inline, whileToFor) ==
    LET k == TokenFrom(program, 1)
    IN  [program |-> program, at |-> k, tt |-> TokenAt(program, k), prevLT |-> k > 1,
         err |-> FALSE, tree |-> None, in |-> TRUE, await |-> TRUE, yield |-> FALSE,
         deflt |-> FALSE, retrn |-> inline, assume |-> FALSE, whileToFor |-> whileToFor]

RECURSIVE ParseInline(_, _)
ParseInline(s, list) ==
    LET stmt == Stmt(s, TRUE)
    IN  IF tt(s) = End THEN Made(s, "module", list) ELSE ParseInline(stmt, Append(list, stmt.tree))

Call(function, s, args) ==
    CASE function = "suffix" -> ParseExpressionSuffix(s, args[1], args[2])
      [] function = "expression" -> ParseExpression(s, args[1])
      [] function = "stmt" -> ParseStmt(s, args[1])
      [] function = "stmtList" -> ParseStmtList(s)
      [] function = "varDecl" -> ParseVarDecl(s, args[1], args[2])
      [] function = "binding" -> ParseBinding(s)
      [] function = "params" -> ParseParams(s, args[1])
      [] function = "func" -> ParseFunc(s, args[1], args[2])
      [] function = "class" -> ParseClass(s, args[1])
      [] function = "classElement" -> ParseClassElement(s)
      [] function = "identifier" -> ParseIdentifierExpression(s, args[1], args[2])
      [] function = "async" -> ParseAsyncExpression(s, args[1])
      [] function = "moduleItem" -> ParseModuleItem(s)
      [] function = "module" -> ParseModule(s, <<>>)
      [] function = "inline" -> ParseInline(s, <<>>)

\* The state in which Parse ends.
Parse(program, inline, whileToFor) ==
    Call(IF inline THEN "inline" ELSE "module", Start(program, inline, whileToFor), <<>>)
================================================================================
