-------------------------------- MODULE JSScope --------------------------------
(***************************************************************************)
(* js/ast.go, Scope, and the calls js/parse.go makes on it: the variables  *)
(* of a JavaScript program, resolved in one pass while it is parsed.  A    *)
(* program is generated one identifier or one bracket at a time, so every  *)
(* action is what the parser does to the scopes at that point.             *)
(*                                                                         *)
(* Variables and scopes are numbered in the order they are made; 0 is nil. *)
(***************************************************************************)
EXTENDS Integers, Sequences, SequencesExt, FiniteSetsExt, TLC

CONSTANTS
    Names,        \* identifiers
    MaxLength,    \* bound: how many identifiers the program has
    MaxSize,      \* bound: how many scopes and different identifiers it has
    UsesMod       \* Var.Uses is a uint16: 65536

ASSUME JSScopeAssumption ==
    /\ MaxLength \in Nat /\ MaxSize \in Nat /\ UsesMod \in Nat \ {0}

\* For TLC: no code tells one name from another.
Identifiers == Permutations(Names)

\* DeclType, whose order Declare relies on.
NoDecl == 0
VariableDecl == 1
FunctionDecl == 3
ArgumentDecl == 4
LexicalDecl == 5
CatchDecl == 6
ExprDecl == 7

VARIABLES
    vars,        \* every Var ever made: [name, link, uses, decl]
    scopes,      \* every Scope ever made
    scope,       \* p.scope, the innermost open one
    failed,      \* "identifier has already been declared"
    \* history of the run:
    program      \* the identifiers so far: name, where, as what, resolved to

state == <<vars, scopes, scope, failed, program>>

\* A Scope.  The parser's place in it is kept as kind ("block", "for", "func",
\* "paren": a function if an arrow follows, "group" if none did) and part;
\* params is p.assumeArrowFunc, rest that arguments are not marked for a rest
\* parameter, at is the part of the parent the scope stands in.
NewScope(kind, parent, func, part, at) ==
    [kind |-> kind, parent |-> parent, func |-> func, part |-> part, at |-> at,
     params |-> kind = "paren", rest |-> FALSE, declared |-> <<>>, undeclared |-> <<>>,
     numForDecls |-> 0, numArgUses |-> 0]

Init ==
    /\ vars = <<>>
    /\ scopes = <<NewScope("func", 0, 1, "body", "body")>>
    /\ scope = 1
    /\ failed = FALSE
    /\ program = <<>>

--------------------------------------------------------------------------------
(* Scope.  The operators take and return the records w = [vars, scopes].   *)

World == [vars |-> vars, scopes |-> scopes]

Named(w, list, name) == {i \in DOMAIN list : w.vars[list[i]].name = name}

Bug_FindFirst(w, s, name, skip) ==
    LET list == w.scopes[s].declared
        found == {i \in Named(w, list, name) : skip => i > w.scopes[s].numForDecls}
    IN  IF found = {} THEN 0 ELSE list[Min(found)]

\* The last declared one.
FindDeclared(w, s, name, skip) ==
    LET list == w.scopes[s].declared
        found == {i \in Named(w, list, name) : skip => i > w.scopes[s].numForDecls}
    IN  IF found = {} THEN 0 ELSE list[Max(found)]

FindUndeclared(w, s, name) ==
    LET list == w.scopes[s].undeclared
        found == {i \in Named(w, list, name) : w.vars[list[i]].uses > 0}
    IN  IF found = {} THEN 0 ELSE list[Min(found)]

AddUses(w, v, n) == [w EXCEPT !.vars[v].uses = (@ + n) % UsesMod]

NewVar(w, name, decl) ==
    [w EXCEPT !.vars = Append(@, [name |-> name, link |-> 0, uses |-> 0, decl |-> decl])]

AppendTo(list, v) == IF v \in Range(list) THEN list ELSE Append(list, v)

\* The scopes from s outwards, up to but without the scope end.
Within(w, s, end) ==
    LET chain[t \in 0..s] == IF t = 0 \/ t <= end THEN {} ELSE {t} \cup chain[w.scopes[t].parent]
    IN  chain[s]

\* A var declared in a block is a used variable of the blocks it leaves.
AddUndeclared(w, s, end, v) ==
    [w EXCEPT !.scopes = [t \in DOMAIN w.scopes |->
        IF t \in Within(w, s, end)
        THEN [w.scopes[t] EXCEPT !.undeclared = AppendTo(@, v)] ELSE w.scopes[t]]]

\* The variable Declare takes over: one used before its declaration.
UsedBefore(w, s, decl, name) ==
    {i \in Named(w, w.scopes[s].undeclared, name) :
        /\ decl # ArgumentDecl /\ i > w.scopes[s].numArgUses
        /\ LET v == w.vars[w.scopes[s].undeclared[i]] IN v.uses > 0 /\ v.decl = NoDecl}

Hoisted(decl) == decl \in {VariableDecl, FunctionDecl}

\* Declare(decl, name) in scope cur: the world after it and the variable, which
\* is 0 if the name may not be declared.
Declare(w, cur, decl, name) ==
    LET s == IF Hoisted(decl) THEN w.scopes[cur].func ELSE cur
        shadowed == \E t \in Within(w, cur, s) :
                        LET v == FindDeclared(w, t, name, FALSE)
                        IN  v # 0 /\ w.vars[v].decl \notin {decl, CatchDecl}
        old == FindDeclared(w, s, name, TRUE)
        clash == /\ old # 0 /\ w.vars[old].decl # ExprDecl
                 /\ ArgumentDecl < w.vars[old].decl \/ FunctionDecl < decl
        reused == UsedBefore(w, s, decl, name)
        taken == w.scopes[s].undeclared[Min(reused)]
        fresh == Len(w.vars) + 1
    IN  IF shadowed \/ clash THEN [w |-> w, v |-> 0]
        ELSE IF old # 0
        THEN [w |-> AddUndeclared([AddUses(w, old, 1) EXCEPT
                        !.vars[old].decl = IF @ = ExprDecl THEN decl ELSE @], cur, s, old),
              v |-> old]
        ELSE LET v == IF reused = {} THEN fresh ELSE taken
                 w1 == IF reused = {} THEN NewVar(w, name, decl)
                       ELSE [w EXCEPT !.vars[taken].decl = decl,
                                      !.scopes[s].undeclared = RemoveAt(@, Min(reused))]
                 w2 == [w1 EXCEPT !.scopes[s].declared = Append(@, v)]
             IN  [w |-> AddUndeclared(AddUses(w2, v, 1), cur, s, v), v |-> v]

\* Use(name) in scope s.
Use(w, s, name) ==
    LET d == FindDeclared(w, s, name, FALSE)
        u == IF d # 0 THEN d ELSE FindUndeclared(w, s, name)
        v == IF u # 0 THEN u ELSE Len(w.vars) + 1
        w1 == IF u # 0 THEN w
              ELSE [NewVar(w, name, NoDecl) EXCEPT !.scopes[s].undeclared = Append(@, v)]
    IN  [w |-> AddUses(w1, v, 1), v |-> v]

\* Variable v of a scope that closes, looked up in its parent s and merged with
\* the variable found there, or added to the undeclared ones.
Known(w, s, name) ==
    LET d == FindDeclared(w, s, name, FALSE)
    IN  IF d # 0 THEN d ELSE FindUndeclared(w, s, name)

Bug_MergeUpUses(w, s, v) ==
    LET t == Known(w, s, w.vars[v].name)
    IN  IF t # 0 THEN [w EXCEPT !.vars[v].link = t]
        ELSE [w EXCEPT !.vars[v].decl = NoDecl, !.scopes[s].undeclared = Append(@, v)]

MergeUp(w, s, v) ==
    LET t == Known(w, s, w.vars[v].name)
    IN  IF t # 0 THEN [AddUses(w, t, w.vars[v].uses) EXCEPT !.vars[v].link = t]
        ELSE [w EXCEPT !.vars[v].decl = NoDecl, !.scopes[s].undeclared = Append(@, v)]

HoistOne(w, s, i) ==
    LET v == w.scopes[s].undeclared[i]
        w1 == MergeUp(w, w.scopes[s].parent, v)
    IN  IF w.vars[v].uses = 0 \/ w.vars[v].decl # NoDecl THEN w
        ELSE IF w1.vars[v].link = 0 THEN w1
        ELSE [w1 EXCEPT !.scopes[s].undeclared[i] = w1.vars[v].link]

HoistUndeclared(w, s) ==
    LET size == Len(w.scopes[s].undeclared)
        hoisted[i \in 0..size] == IF i = 0 THEN w ELSE HoistOne(hoisted[i - 1], s, i)
    IN  hoisted[size]

MergedUp(w, s) ==
    LET list == w.scopes[s].declared
        merged[i \in 0..Len(list)] ==
            IF i = 0 THEN w ELSE MergeUp(merged[i - 1], w.scopes[s].parent, list[i])
    IN  merged[Len(list)]

\* Mutant: the declared variables stay.
Bug_UndeclareScope(w, s) == [MergedUp(w, s) EXCEPT !.scopes[s].undeclared = <<>>]

UndeclareScope(w, s) ==
    [MergedUp(w, s) EXCEPT !.scopes[s].declared = <<>>, !.scopes[s].undeclared = <<>>]

EnterScope(w, kind, part) ==
    LET id == Len(w.scopes) + 1
        func == IF kind \in {"func", "paren"} THEN id ELSE w.scopes[scope].func
    IN  [w EXCEPT !.scopes = Append(@, NewScope(kind, scope, func, part, w.scopes[scope].part))]

--------------------------------------------------------------------------------
(* The parser *)

Here == scopes[scope]

Become(w) == vars' = w.vars /\ scopes' = w.scopes

\* An identifier at part of scope s stands for variable v; decl is what it
\* declares there, NoDecl if it is a reference.
Identifier(name, s, part, decl, v) ==
    program' = Append(program, [name |-> name, scope |-> s, part |-> part, decl |-> decl, v |-> v])

\* The program may go on with k more scopes and the identifiers in names.
More(k, names) ==
    /\ ~failed /\ Len(program) < MaxLength
    /\ LET used == {program[i].name : i \in DOMAIN program} IN
          Len(scopes) + k + Cardinality(used \cup names) <= MaxSize

\* Brackets around no identifier at all are left out of the programs.
Occupied == \E k \in DOMAIN program : program[k].scope >= scope

Refuse == failed' = TRUE /\ UNCHANGED <<vars, scopes, scope, program>>

Reference(name) ==
    /\ More(0, {name})
    /\ LET r == Use(World, scope, name) IN
          /\ Become(r.w)
          /\ Identifier(name, scope, Here.part, NoDecl, r.v)
    /\ UNCHANGED <<scope, failed>>

\* A head declares with one keyword.
SameKeyword(decl) ==
    \A k \in DOMAIN program :
        program[k].scope = scope /\ program[k].decl # NoDecl => program[k].decl = decl

\* var, let, const and class, and the declarations of a for head.
Declaration(decl, name) ==
    /\ More(0, {name})
    /\ Here.part = "body" \/ (Here.kind = "for" /\ SameKeyword(decl))
    /\ LET r == Declare(World, scope, decl, name) IN
          IF r.v = 0 THEN Refuse
          ELSE /\ Become(r.w)
               /\ Identifier(name, scope, Here.part, decl, r.v)
               /\ UNCHANGED <<scope, failed>>

\* A function's parameter.
Parameter(name) ==
    /\ More(0, {name})
    /\ Here.kind = "func" /\ Here.part = "head"
    /\ LET r == Declare(World, scope, ArgumentDecl, name) IN
          IF r.v = 0 THEN Refuse
          ELSE /\ Become(r.w)
               /\ Identifier(name, scope, "head", ArgumentDecl, r.v)
               /\ UNCHANGED <<scope, failed>>

\* parseAssignExprOrParam: what may be a parameter is declared as one, and used
\* if that fails, when no arrow may follow any more.  An identifier in a default
\* value or a computed key is a Reference.
MaybeParameter(name) ==
    /\ More(0, {name})
    /\ Here.kind = "paren" /\ Here.part = "head" /\ Here.params
    /\ LET r == Declare(World, scope, ArgumentDecl, name)
           notOne == [World EXCEPT !.scopes[scope].params = FALSE]
           u == Use(notOne, scope, name)
       IN  IF r.v # 0
           THEN Become(r.w) /\ Identifier(name, scope, "head", ArgumentDecl, r.v)
           ELSE Become(u.w) /\ Identifier(name, scope, "head", NoDecl, u.v)
    /\ UNCHANGED <<scope, failed>>

Statement == Here.part = "body"

Enter(w, kind, part) ==
    /\ Become(EnterScope(w, kind, part))
    /\ scope' = Len(scopes) + 1
    /\ UNCHANGED failed

EnterBlock ==
    /\ More(1, {}) /\ Statement
    /\ Enter(World, "block", "body")
    /\ UNCHANGED program

EnterCatch(name) ==
    /\ More(1, {name}) /\ Statement
    /\ LET r == Declare(EnterScope(World, "block", "body"), Len(scopes) + 1, CatchDecl, name) IN
          /\ Become(r.w)
          /\ Identifier(name, Len(scopes) + 1, "body", CatchDecl, r.v)
    /\ scope' = Len(scopes) + 1
    /\ UNCHANGED failed

EnterFor ==
    /\ More(1, {}) /\ Statement
    /\ Enter(World, "for", "head")
    /\ UNCHANGED program

\* The name is declared outside, then the scope is entered.
EnterFuncDecl(name) ==
    /\ More(1, {name}) /\ Statement
    /\ LET r == Declare(World, scope, FunctionDecl, name) IN
          IF r.v = 0 THEN Refuse
          ELSE /\ Enter(r.w, "func", "head")
               /\ Identifier(name, scope, Here.part, FunctionDecl, r.v)

\* A function expression, a method or an async arrow function.
EnterFunc ==
    /\ More(1, {})
    /\ Enter(World, "func", "head")
    /\ UNCHANGED program

EnterFuncExpr(name) ==
    /\ More(1, {name})
    /\ LET id == Len(scopes) + 1
           r == Declare(EnterScope(World, "func", "head"), id, ExprDecl, name)
       IN  /\ Become(r.w)
           /\ Identifier(name, id, "head", ExprDecl, r.v)
    /\ scope' = Len(scopes) + 1
    /\ UNCHANGED failed

EnterParen ==
    /\ More(1, {})
    /\ Enter(World, "paren", "head")
    /\ UNCHANGED program

\* The body of a function, an arrow function or a for statement begins.
MarkFuncArgs(w, s) == [w EXCEPT !.scopes[s].numArgUses = Len(w.scopes[s].undeclared)]

MarkForStmt(w, s) ==
    [w EXCEPT !.scopes[s].numForDecls = Len(w.scopes[s].declared),
              !.scopes[s].numArgUses = Len(w.scopes[s].undeclared)]

Begin(w, s) == Become([w EXCEPT !.scopes[s].part = "body", !.scopes[s].kind =
                          IF @ = "paren" THEN "func" ELSE @])

EnterBody ==
    /\ ~failed /\ Here.part = "head"
    /\ \/ Here.kind = "for" /\ Begin(MarkForStmt(World, scope), scope)
       \/ Here.kind = "func" /\ Begin(MarkFuncArgs(World, scope), scope)
       \/ Here.kind = "paren" /\ Here.params /\ Begin(MarkFuncArgs(World, scope), scope)
    /\ UNCHANGED <<scope, failed, program>>

\* parseIdentifierArrowFunc: the identifier was taken for a use of its scope
\* and is now the parameter.
EnterArrow(name) ==
    /\ More(1, {name})
    /\ LET id == Len(scopes) + 1
           u == Use(World, scope, name)
           w == EnterScope(u.w, "func", "head")
           again == Declare([w EXCEPT !.vars[u.v].uses = @ - 1], id, ArgumentDecl, name)
           moved == [w EXCEPT !.scopes[scope].undeclared = Front(@),
                              !.vars[u.v].decl = ArgumentDecl,
                              !.scopes[id].declared = Append(@, u.v)]
           r == IF 1 < u.w.vars[u.v].uses THEN again ELSE [w |-> moved, v |-> u.v]
       IN  /\ Begin(MarkFuncArgs(r.w, id), id)
           /\ Identifier(name, id, "head", ArgumentDecl, r.v)
    /\ scope' = Len(scopes) + 1
    /\ UNCHANGED failed

\* parseFuncParams returns at a rest parameter, before it marks the arguments.
EnterBodyAfterRest ==
    /\ ~failed /\ Here.part = "head" /\ Here.kind = "func"
    /\ Begin([World EXCEPT !.scopes[scope].rest = Here.undeclared # <<>>], scope)
    /\ UNCHANGED <<scope, failed, program>>

Leave(w) ==
    /\ Become(w)
    /\ scope' = Here.parent
    /\ UNCHANGED <<failed, program>>

Exit ==
    /\ ~failed /\ scope # 1 /\ Here.part = "body" /\ Occupied
    /\ Leave(HoistUndeclared(World, scope))

\* No arrow follows: the parameters were references.
ExitGroup ==
    /\ ~failed /\ Here.kind = "paren" /\ Occupied
    /\ Leave(UndeclareScope(HoistUndeclared([World EXCEPT !.scopes[scope].kind = "group"], scope),
                            scope))

Next ==
    \/ EnterBlock \/ EnterFor \/ EnterFunc \/ EnterParen \/ EnterBody \/ EnterBodyAfterRest
    \/ Exit \/ ExitGroup
    \/ \E name \in Names :
          \/ Reference(name)
          \/ \E decl \in {VariableDecl, LexicalDecl} : Declaration(decl, name)
          \/ Parameter(name) \/ MaybeParameter(name)
          \/ EnterCatch(name) \/ EnterFuncDecl(name) \/ EnterFuncExpr(name) \/ EnterArrow(name)

Spec == Init /\ [][Next]_state
--------------------------------------------------------------------------------
(* What the names of a program refer to, by ECMAScript's rules, and the two   *)
(* of the code: functions are function scoped, and a name in a parameter's    *)
(* default value does not refer to a later parameter.                         *)

Chain(s) == Within(World, s, 0)

\* The scope an identifier is declared in.
Home(o) == IF Hoisted(o.decl) THEN scopes[o.scope].func ELSE o.scope

\* A parameter in what turned out to be no arrow function is a reference.
Declares(o) == o.decl # NoDecl /\ scopes[o.scope].kind # "group"

\* Identifier d declares what identifier i names, if i stands in part of scope s
\* or in a scope that stands there.
Visible(i, d, s, part) ==
    LET o == program[d] IN
    /\ o.name = program[i].name /\ Declares(o) /\ Home(o) = s
    /\ CASE scopes[s].kind = "func" -> part = "body" \/ (o.part = "head" /\ d <= i)
         [] scopes[s].kind = "for" /\ part = "head" -> o.part = "head"
         [] OTHER -> TRUE

\* A binding is a scope and, where the scope has two, the part.
Bindings(i, s, part) ==
    {[scope |-> s, part |-> IF scopes[s].kind = "for" THEN program[d].part ELSE "body"] :
        d \in {d \in DOMAIN program : Visible(i, d, s, part)}}

Free == [scope |-> 0, part |-> "body"]

Inner(bs) == IF \E b \in bs : b.part = "body" THEN CHOOSE b \in bs : b.part = "body"
             ELSE CHOOSE b \in bs : TRUE

\* The binding of identifier i: for a declaration its own, for a reference that
\* of the nearest scope outwards which has one.
Binding(i) ==
    LET o == program[i]
        from[s \in 0..o.scope] ==    \* as seen from the place scope s stands in
            IF s = 0 THEN Free
            ELSE LET p == scopes[s].parent
                     bs == IF p = 0 THEN {} ELSE Bindings(i, p, scopes[s].at)
                 IN  IF bs # {} THEN Inner(bs) ELSE from[p]
        own == Bindings(i, o.scope, o.part)
    IN  IF Declares(o)
        THEN [scope |-> Home(o), part |-> IF scopes[Home(o)].kind = "for" THEN o.part ELSE "body"]
        ELSE IF own # {} THEN Inner(own) ELSE from[o.scope]

\* An early error of ECMAScript that the parser does not report: a let or const
\* in a scope that a var of the same name leaves or is declared in.
Conflict ==
    \E i, j \in DOMAIN program :
        /\ program[i].name = program[j].name
        /\ program[i].decl = LexicalDecl /\ Hoisted(program[j].decl)
        /\ \/ Home(program[j]) = program[i].scope
           \/ program[i].scope \in Within(World, program[j].scope, Home(program[j]))

\* The program read so far may end here.
Closed == ~failed /\ scope = 1 /\ ~Conflict

--------------------------------------------------------------------------------
(* Properties *)

\* The lists of scopes and variables are those of js/ast.go: no nil, no scope
\* without a parent but the global one, and marks that lie within their lists.
TypeOK ==
    /\ vars \in Seq([name : Names, link : 0..Len(vars), uses : 0..UsesMod - 1,
                     decl : {NoDecl, VariableDecl, FunctionDecl, ArgumentDecl,
                             LexicalDecl, CatchDecl, ExprDecl}])
    /\ scope \in DOMAIN scopes /\ failed \in BOOLEAN
    /\ \A s \in DOMAIN scopes :
          LET t == scopes[s] IN
          /\ t.kind \in {"block", "for", "func", "paren", "group"}
          /\ t.part \in {"head", "body"} /\ t.at \in {"head", "body"}
          /\ t.params \in BOOLEAN /\ t.rest \in BOOLEAN
          /\ t.parent \in 0..s - 1 /\ t.func \in 1..s /\ (t.parent = 0 <=> s = 1)
          /\ t.declared \in Seq(DOMAIN vars) /\ t.undeclared \in Seq(DOMAIN vars)
          /\ s \in Chain(scope) => /\ t.numForDecls \in 0..Len(t.declared)
                                  /\ t.numArgUses \in 0..Len(t.undeclared)
    /\ program \in Seq([name : Names, scope : DOMAIN scopes, part : {"head", "body"},
                        decl : {NoDecl, VariableDecl, FunctionDecl, ArgumentDecl,
                                LexicalDecl, CatchDecl, ExprDecl},
                        v : DOMAIN vars])

\* Name() follows the links.
Target(v) ==
    LET end[k \in 0..Len(vars)] ==
            IF k = 0 THEN v ELSE IF vars[end[k - 1]].link = 0 THEN end[k - 1] ELSE vars[end[k - 1]].link
    IN  end[Len(vars)]

InHead(o, s) ==
    \/ o.scope = s /\ o.part = "head"
    \/ \E t \in Chain(o.scope) : scopes[t].parent = s /\ scopes[t].at = "head"

\* Identifier i stands in the body of a function or for statement, before its
\* declaration there, and the name also stands in the head.
Late(i) ==
    LET s == Binding(i).scope
        same == {d \in DOMAIN program : program[d].name = program[i].name}
    IN  /\ Binding(i).part = "body"
        /\ \A d \in same : Binding(d) = Binding(i) /\ Declares(program[d]) => d > i
        /\ \E h \in same : h < i /\ InHead(program[h], s)

\* Identifier i names the parameter of a catch, out of which a var of the same
\* name is declared.
Caught(i) ==
    \E c, d \in DOMAIN program :
        LET s == program[c].scope IN
        /\ program[c].name = program[i].name /\ program[d].name = program[i].name
        /\ program[c].decl = CatchDecl /\ Binding(i).scope = s
        /\ Hoisted(program[d].decl) /\ s \in Within(World, program[d].scope, Home(program[d]))

\* Identifier i stands in the head of a function with a rest parameter, and its
\* name is declared in the body.
Unmarked(i) ==
    \E d \in DOMAIN program :
        LET s == Home(program[d]) IN
        /\ program[d].name = program[i].name /\ Declares(program[d]) /\ scopes[s].rest
        /\ InHead(program[i], s) /\ Binding(i).scope # s

\* Two identifiers are the same variable just if they have the same binding.
Agree(i, j, bound) ==
    Target(program[i].v) = Target(program[j].v) <=> bound[i] = bound[j]

\* From an identifier out to its binding, every scope lists its variable, as
\* declared there or as undeclared: a name that may not be given to another
\* variable of that scope.
Listed ==
    \A i \in DOMAIN program :
        \A s \in Within(World, program[i].scope, Binding(i).scope - 1) :
            \/ scopes[s].kind = "group"
            \/ \E v \in Range(scopes[s].declared) \cup Range(scopes[s].undeclared) :
                  Target(v) = Target(program[i].v)
            \/ Unmarked(i)

\* Identifiers of one name are the same Var just if ECMAScript binds them to the
\* same declaration, or to none (js/ast.go:218, js/ast.go:343), but for the
\* identifiers that are Late, Caught or Unmarked; and the scopes on the way know
\* the name (js/ast.go:270-273).
Resolved ==
    Closed =>
        LET bound == [i \in DOMAIN program |-> Binding(i)] IN
        /\ \A i, j \in DOMAIN program :
              program[i].name = program[j].name =>
                  \/ Agree(i, j, bound)
                  \/ \E k \in {i, j} : Late(k) \/ Caught(k) \/ Unmarked(k)
        /\ Listed

\* The same without exceptions: what the parser is for.
SameVariable ==
    Closed =>
        LET bound == [i \in DOMAIN program |-> Binding(i)] IN
        \A i, j \in DOMAIN program :
            program[i].name = program[j].name => Agree(i, j, bound)

\* Uses counts the identifiers of a variable (js/ast.go:126).
UsesCounted ==
    Closed => \A v \in DOMAIN vars :
        vars[v].link = 0 =>
            vars[v].uses = Cardinality({i \in DOMAIN program : Target(program[i].v) = v})

\* "Link is nil in the active scope" (js/ast.go:315): no variable of an open
\* scope has been merged into another, so that a look-up need not follow links.
ActiveUnlinked ==
    \A s \in Chain(scope) :
        \A v \in Range(scopes[s].declared) \cup Range(scopes[s].undeclared) : vars[v].link = 0

\* A variable is declared in the list of one scope or, if it has no declaration,
\* of none.
DeclaredOnce ==
    \A v \in DOMAIN vars :
        vars[v].link = 0 =>
            Cardinality({s \in DOMAIN scopes : v \in Range(scopes[s].declared)})
                = IF vars[v].decl = NoDecl THEN 0 ELSE 1

\* The lists of all scopes and the links of all variables are in order.
WellFormed == TypeOK /\ ActiveUnlinked /\ DeclaredOnce
================================================================================
