----------------------------- MODULE JSScope_proofs -----------------------------
(***************************************************************************)
(* The lists and links of js/ast.go stay in order whatever the program:    *)
(* no open scope lists a variable that has been merged into another, a     *)
(* variable is declared once, and its uses are counted.                    *)
(***************************************************************************)
EXTENDS JSScope, FiniteSetTheorems, SequenceTheorems, TLAPS

DeclSet == {NoDecl, VariableDecl, FunctionDecl, ArgumentDecl, LexicalDecl, CatchDecl, ExprDecl}

VarSet == [name : Names, link : Nat, uses : 0..(UsesMod - 1), decl : DeclSet]

KindSet == {"block", "for", "func", "paren", "group"}

PartSet == {"head", "body"}

ScopeSet ==
    [kind : KindSet, parent : Nat, func : Nat, part : PartSet, at : PartSet,
     params : BOOLEAN, rest : BOOLEAN, declared : Seq(Nat), undeclared : Seq(Nat),
     numForDecls : Nat, numArgUses : Nat]

WorldSet == [vars : Seq(VarSet), scopes : Seq(ScopeSet)]

Vars(w) == 1..Len(w.vars)
Scopes(w) == 1..Len(w.scopes)

Elems(list) == {list[i] : i \in 1..Len(list)}

\* A world seen field by field.
Links(w) == [v \in Vars(w) |-> w.vars[v].link]
Uses(w) == [v \in Vars(w) |-> w.vars[v].uses]
Decls(w) == [v \in Vars(w) |-> w.vars[v].decl]
Dec(w) == [s \in Scopes(w) |-> Elems(w.scopes[s].declared)]
Und(w) == [s \in Scopes(w) |-> Elems(w.scopes[s].undeclared)]
Parents(w) == [s \in Scopes(w) |-> w.scopes[s].parent]

--------------------------------------------------------------------------------
(* The inductive invariant *)

\* The lists have variables of the program.
Ranged(ls, D, U) == \A s \in DOMAIN D : D[s] \subseteq DOMAIN ls /\ U[s] \subseteq DOMAIN ls

\* A variable is declared in one scope at most, and in one if it has a
\* declaration.
DecOnce(D) == \A s, t \in DOMAIN D : \A v \in D[s] : v \in D[t] => s = t

DecHasDecl(ds, D) == \A s \in DOMAIN D : \A v \in D[s] : ds[v] # NoDecl

DeclIsDec(ls, ds, D) ==
    \A v \in DOMAIN ls : ls[v] = 0 /\ ds[v] # NoDecl => \E s \in DOMAIN D : v \in D[s]

\* The scopes in O list no variable with a link.
Unlinked(ls, D, U, O) ==
    \A s \in O : /\ \A v \in D[s] : ls[v] = 0
                 /\ \A v \in U[s] : ls[v] = 0

\* A variable without a declaration is in one of their lists at most.
UndOnce(ds, U, O) ==
    \A s, t \in O : \A v \in U[s] : v \in U[t] /\ ds[v] = NoDecl => s = t

\* A variable declared in one of them is undeclared in inner ones only.
UndInside(D, U, O) == \A s, t \in O : t <= s => \A v \in D[s] : v \notin U[t]

Listing(ls, ds, D, U, O) ==
    /\ DOMAIN ds = DOMAIN ls /\ DOMAIN U = DOMAIN D /\ O \subseteq DOMAIN D /\ O \subseteq Nat
    /\ Ranged(ls, D, U)
    /\ DecOnce(D) /\ DecHasDecl(ds, D) /\ DeclIsDec(ls, ds, D)
    /\ Unlinked(ls, D, U, O) /\ UndOnce(ds, U, O) /\ UndInside(D, U, O)

\* Nothing is in a list twice, but for variables declared further out.
Different(list) == \A i, j \in 1..Len(list) : list[i] = list[j] => i = j

DifferentOf(ds, list) ==
    \A i, j \in 1..Len(list) : list[i] = list[j] /\ ds[list[i]] = NoDecl => i = j

Singles(w, O) ==
    /\ \A s \in Scopes(w) : Different(w.scopes[s].declared)
    /\ \A s \in O : DifferentOf(Decls(w), w.scopes[s].undeclared)

\* p is the variables of the identifiers of the program.
Counts(p, out, v) == {i \in 1..Len(p) : out[p[i]] = v}

Linked(ls) == {v \in DOMAIN ls : ls[v] # 0}

\* out has where the links of each variable lead, depth how many there are on the way.
Leads(ls, out, depth) ==
    /\ out \in [DOMAIN ls -> DOMAIN ls] /\ depth \in [DOMAIN ls -> Nat]
    /\ \A v \in DOMAIN ls :
          /\ ls[v] \in DOMAIN ls \cup {0}
          /\ ls[v] = 0 => out[v] = v /\ depth[v] = 0
          /\ ls[v] # 0 => out[v] = out[ls[v]] /\ depth[v] = depth[ls[v]] + 1
          /\ ls[out[v]] = 0
          /\ depth[v] <= Cardinality(Linked(ls))

UsesAre(ls, us, p, out) ==
    \A v \in DOMAIN ls : ls[v] = 0 => us[v] = Cardinality(Counts(p, out, v)) /\ us[v] > 0

Counted(ls, us, p) ==
    /\ \E n \in Nat : DOMAIN ls = 1..n
    /\ DOMAIN us = DOMAIN ls /\ p \in Seq(DOMAIN ls)
    /\ \E out, depth : Leads(ls, out, depth) /\ UsesAre(ls, us, p, out)

\* Where the arguments end lies within the lists.
Marks(w, O) ==
    \A s \in O : /\ w.scopes[s].numForDecls <= Len(w.scopes[s].declared)
                 /\ w.scopes[s].numArgUses <= Len(w.scopes[s].undeclared)

Good(w, O, p) ==
    /\ w \in WorldSet
    /\ Listing(Links(w), Decls(w), Dec(w), Und(w), O)
    /\ Singles(w, O)
    /\ Counted(Links(w), Uses(w), p)
    /\ Marks(w, O)

--------------------------------------------------------------------------------
(* Numbers and recursion *)

\* A set of naturals that is not empty has a least element: how a fact is
\* proved for all numbers here, by looking at the least one that it fails for.
LEMMA LeastNumber ==
    ASSUME NEW S \in SUBSET Nat, S # {}
    PROVE  \E n \in S : \A m \in S : n <= m
<1> DEFINE R == {ss \in Nat \X Nat : ss[1] < ss[2]}
<1>1. IsWellFoundedOn(R, Nat)
  BY NatLessThanWellFounded, Zenon DEF OpToRel
<1> HIDE DEF R
<1>2. PICK n \in S : \A m \in S : ~(<<m, n>> \in R)
  BY <1>1, WFMin
<1>3. \A m \in S : ~(m < n)
  BY <1>2 DEF R
<1> QED
  BY <1>3

\* The greatest place of a list that has a property.
LEMMA GreatestPlace ==
    ASSUME NEW n \in Nat, NEW S \in SUBSET (1..n), S # {}
    PROVE  /\ Max(S) \in S
           /\ Min(S) \in S /\ \A i \in S : Min(S) <= i
<1>1. PICK i \in S : \A j \in S : i <= j
  BY LeastNumber
<1>2. Min(S) \in S /\ \A j \in S : Min(S) <= j
  BY <1>1 DEF Min
<1> DEFINE T == {n - j : j \in S}
<1>3. T \in SUBSET Nat /\ T # {}
  OBVIOUS
<1> HIDE DEF T
<1>4. PICK k \in T : \A m \in T : k <= m
  BY <1>3, LeastNumber
<1>5. PICK j \in S : k = n - j
  BY DEF T
<1>6. ASSUME NEW m \in S PROVE j >= m
  <2>1. n - m \in T
    BY DEF T
  <2>2. n - j <= n - m
    BY <1>4, <1>5, <2>1
  <2> QED
    BY <2>2
<1>7. Max(S) \in S
  BY <1>6, Zenon DEF Max
<1> QED
  BY <1>2, <1>7

\* One turn of the loops of js/ast.go over a list and of Name() over the links.
Turn(loop, w, s, list, i) ==
    IF loop = "hoist" THEN HoistOne(w, s, i)
    ELSE IF loop = "merge" THEN MergeUp(w, s, list[i])
    ELSE IF list[w].link = 0 THEN w ELSE list[w].link

Turning(loop, w, s, list, n, f) ==
    f = [i \in 0..n |-> IF i = 0 THEN w ELSE Turn(loop, f[i - 1], s, list, i)]

\* There is a function as the loop's definition wants it.
LEMMA TurnsExist ==
    ASSUME NEW loop, NEW w, NEW s, NEW list, NEW n \in Nat
    PROVE  \E f : Turning(loop, w, s, list, n, f)
<1> DEFINE Bad == {m \in Nat : ~ \E f : Turning(loop, w, s, list, m, f)}
<1>1. \E f : Turning(loop, w, s, list, 0, f)
  <2> DEFINE f == [k \in 0..0 |-> w]
  <2>1. f = [k \in 0..0 |-> IF k = 0 THEN w ELSE Turn(loop, f[k - 1], s, list, k)]
    OBVIOUS
  <2> HIDE DEF f
  <2> QED
    BY <2>1 DEF Turning
<1>2. ASSUME NEW m \in Nat, NEW f, Turning(loop, w, s, list, m, f)
      PROVE  \E g : Turning(loop, w, s, list, m + 1, g)
  <2> DEFINE g == [k \in 0..(m + 1) |-> IF k <= m THEN f[k] ELSE Turn(loop, f[m], s, list, m + 1)]
             h == [k \in 0..(m + 1) |-> IF k = 0 THEN w ELSE Turn(loop, g[k - 1], s, list, k)]
  <2>1. ASSUME NEW k \in 0..(m + 1)
        PROVE  g[k] = h[k]
    <3>1. CASE k = 0
      BY <3>1, <1>2 DEF Turning
    <3>2. CASE k \in 1..m
      <4>1. k - 1 \in 0..m /\ k \in 0..m
        BY <3>2
      <4>2. f[k] = Turn(loop, f[k - 1], s, list, k)
        BY <1>2, <3>2, <4>1 DEF Turning
      <4>3. g[k] = f[k] /\ g[k - 1] = f[k - 1]
        BY <3>2, <4>1
      <4> QED
        BY <3>2, <4>2, <4>3
    <3>3. CASE k = m + 1
      <4>1. g[k] = Turn(loop, f[m], s, list, k) /\ g[k - 1] = f[m] /\ k # 0
        BY <3>3
      <4> QED
        BY <4>1
    <3> QED
      BY <3>1, <3>2, <3>3
  <2>2. g = h
    BY <2>1, Zenon
  <2> HIDE DEF g
  <2> QED
    BY <2>2 DEF Turning
<1>3. Bad = {}
  <2> SUFFICES ASSUME Bad # {}
               PROVE  FALSE
    OBVIOUS
  <2>1. PICK m \in Bad : \A k \in Bad : m <= k
    BY LeastNumber
  <2>2. m # 0 /\ m \in Nat
    BY <1>1, Zenon
  <2>3. m - 1 \in Nat /\ ~(m <= m - 1)
    BY <2>2
  <2>4. m - 1 \notin Bad
    BY <2>1, <2>3
  <2>5. \E f : Turning(loop, w, s, list, m - 1, f)
    BY <2>3, <2>4, Zenon
  <2>6. \E f : Turning(loop, w, s, list, m - 1 + 1, f)
    BY <1>2, <2>3, <2>5, Zenon
  <2>7. m - 1 + 1 = m
    BY <2>2
  <2> QED
    BY <2>6, <2>7
<1> QED
  BY <1>3, Zenon

LEMMA HoistTurns ==
    ASSUME NEW w, NEW s, Len(w.scopes[s].undeclared) \in Nat
    PROVE  \E f : /\ Turning("hoist", w, s, <<>>, Len(w.scopes[s].undeclared), f)
                  /\ HoistUndeclared(w, s) = f[Len(w.scopes[s].undeclared)]
<1> DEFINE size == Len(w.scopes[s].undeclared)
           Is(f) == f = [i \in 0..size |-> IF i = 0 THEN w ELSE HoistOne(f[i - 1], s, i)]
<1>1. \A f : Turning("hoist", w, s, <<>>, size, f) <=> Is(f)
  BY Zenon DEF Turning, Turn
<1>2. PICK g : Turning("hoist", w, s, <<>>, size, g)
  BY TurnsExist, Zenon
<1>3. Is(CHOOSE f : Is(f))
  <2> HIDE DEF Is
  <2> QED
    BY <1>1, <1>2, Zenon
<1>4. HoistUndeclared(w, s) = (CHOOSE f : Is(f))[size]
  BY Zenon DEF HoistUndeclared
<1> QED
  BY <1>1, <1>3, <1>4, Zenon

LEMMA MergeTurns ==
    ASSUME NEW w, NEW s, Len(w.scopes[s].declared) \in Nat
    PROVE  LET list == w.scopes[s].declared IN
           \E f : /\ Turning("merge", w, w.scopes[s].parent, list, Len(list), f)
                  /\ MergedUp(w, s) = f[Len(list)]
<1> DEFINE list == w.scopes[s].declared
           p == w.scopes[s].parent
           Is(f) == f = [i \in 0..Len(list) |-> IF i = 0 THEN w ELSE MergeUp(f[i - 1], p, list[i])]
<1>1. \A f : Turning("merge", w, p, list, Len(list), f) <=> Is(f)
  BY Zenon DEF Turning, Turn
<1>2. PICK g : Turning("merge", w, p, list, Len(list), g)
  BY TurnsExist, Zenon
<1>3. Is(CHOOSE f : Is(f))
  <2> HIDE DEF Is
  <2> QED
    BY <1>1, <1>2, Zenon
<1>4. MergedUp(w, s) = (CHOOSE f : Is(f))[Len(list)]
  BY Zenon DEF MergedUp
<1> QED
  BY <1>1, <1>3, <1>4, Zenon

LEMMA TargetTurns ==
    ASSUME NEW v, Len(vars) \in Nat
    PROVE  \E f : /\ Turning("target", v, 0, vars, Len(vars), f)
                  /\ Target(v) = f[Len(vars)]
<1> DEFINE Is(f) == f = [k \in 0..Len(vars) |-> IF k = 0 THEN v
                            ELSE IF vars[f[k - 1]].link = 0 THEN f[k - 1] ELSE vars[f[k - 1]].link]
<1>1. \A f : Turning("target", v, 0, vars, Len(vars), f) <=> Is(f)
  BY Zenon DEF Turning, Turn
<1>2. PICK g : Turning("target", v, 0, vars, Len(vars), g)
  BY TurnsExist, Zenon
<1>3. Is(CHOOSE f : Is(f))
  <2> HIDE DEF Is
  <2> QED
    BY <1>1, <1>2, Zenon
<1>4. Target(v) = (CHOOSE f : Is(f))[Len(vars)]
  BY Zenon DEF Target
<1> QED
  BY <1>1, <1>3, <1>4, Zenon

--------------------------------------------------------------------------------
(* The scopes from one outwards *)

\* The parents of scopes 1..n lie before them.
Descending(par, n) ==
    \A t \in 1..n : par[t] \in Nat /\ par[t] < t

Outwards(t, e, rest) == IF t = 0 \/ t <= e THEN {} ELSE {t} \cup rest

Chaining(par, e, n, f) == f = [t \in 0..n |-> Outwards(t, e, f[par[t]])]

LEMMA ChainsExist ==
    ASSUME NEW n \in Nat, NEW par, Descending(par, n), NEW e \in Nat
    PROVE  \E f : Chaining(par, e, n, f)
<1> DEFINE Bad == {m \in Nat : m <= n /\ ~ \E f : Chaining(par, e, m, f)}
<1>1. \E f : Chaining(par, e, 0, f)
  <2> DEFINE f == [t \in 0..0 |-> {}]
  <2>1. \A t \in 0..0 : Outwards(t, e, f[par[t]]) = {}
    BY DEF Outwards
  <2>2. f = [t \in 0..0 |-> Outwards(t, e, f[par[t]])]
    BY <2>1
  <2> HIDE DEF f
  <2> QED
    BY <2>2 DEF Chaining
<1>2. ASSUME NEW m \in Nat, m + 1 <= n, NEW f, Chaining(par, e, m, f)
      PROVE  \E g : Chaining(par, e, m + 1, g)
  <2> DEFINE q == par[m + 1]
             last == Outwards(m + 1, e, f[q])
             g == [t \in 0..(m + 1) |-> IF t <= m THEN f[t] ELSE last]
             h == [t \in 0..(m + 1) |-> Outwards(t, e, g[par[t]])]
  <2>1. ASSUME NEW t \in 0..(m + 1)
        PROVE  g[t] = h[t]
    <3>1. CASE t = 0
      <4>1. f[t] = Outwards(t, e, f[par[t]]) /\ g[t] = f[t] /\ h[t] = Outwards(t, e, g[par[t]])
        BY <3>1, <1>2 DEF Chaining
      <4>2. f[t] = {} /\ h[t] = {}
        BY <3>1, <4>1 DEF Outwards
      <4> QED
        BY <4>1, <4>2
    <3>2. CASE t \in 1..m
      <4>1. par[t] \in 0..m /\ t \in 0..m
        BY <3>2, <1>2 DEF Descending
      <4>2. f[t] = Outwards(t, e, f[par[t]])
        BY <1>2, <3>2, <4>1 DEF Chaining
      <4>3. g[t] = f[t] /\ g[par[t]] = f[par[t]]
        BY <3>2, <4>1
      <4> QED
        BY <3>2, <4>2, <4>3
    <3>3. CASE t = m + 1
      <4>1. par[t] \in 0..m
        BY <3>3, <1>2 DEF Descending
      <4>2. g[par[t]] = f[q]
        BY <3>3, <4>1
      <4>3. g[t] = last
        BY <3>3
      <4>4. h[t] = Outwards(t, e, g[par[t]])
        OBVIOUS
      <4> QED
        BY <3>3, <4>2, <4>3, <4>4
    <3> QED
      BY <3>1, <3>2, <3>3
  <2>2. g = h
    BY <2>1, Zenon
  <2> HIDE DEF g
  <2> QED
    BY <2>2 DEF Chaining
<1>3. Bad = {}
  <2> SUFFICES ASSUME Bad # {}
               PROVE  FALSE
    OBVIOUS
  <2>1. PICK m \in Bad : \A k \in Bad : m <= k
    BY LeastNumber
  <2>2. m # 0 /\ m \in Nat /\ m <= n
    BY <1>1, Zenon
  <2>3. m - 1 \in Nat /\ ~(m <= m - 1) /\ m - 1 <= n
    BY <2>2
  <2>4. m - 1 \notin Bad
    BY <2>1, <2>3
  <2>5. \E f : Chaining(par, e, m - 1, f)
    BY <2>3, <2>4, Zenon
  <2>6. m - 1 + 1 = m
    BY <2>2
  <2>7. \E f : Chaining(par, e, m - 1 + 1, f)
    BY <1>2, <2>2, <2>3, <2>5, <2>6, Zenon
  <2> QED
    BY <2>6, <2>7
<1>4. n \notin Bad
  BY <1>3
<1> QED
  BY <1>4

AgreeFrom(i, k, f, g) == \A t \in i..k : f[t] = g[t]

\* A chain depends on the parents alone, and only on those it passes.
LEMMA ChainsAgree ==
    ASSUME NEW m \in Nat, NEW n \in Nat, NEW k \in Nat, k <= m, k <= n, NEW e \in Nat,
           NEW par1, NEW par2, Descending(par1, k), AgreeFrom(1, k, par1, par2),
           NEW f, NEW g, Chaining(par1, e, m, f), Chaining(par2, e, n, g)
    PROVE  AgreeFrom(0, k, f, g)
<1> DEFINE Bad == {t \in 0..k : f[t] # g[t]}
<1>1. Bad = {}
  <2> SUFFICES ASSUME Bad # {}
               PROVE  FALSE
    OBVIOUS
  <2>0. Bad \in SUBSET Nat
    OBVIOUS
  <2> HIDE DEF Bad
  <2>1. PICK t \in Bad : \A j \in Bad : t <= j
    BY <2>0, LeastNumber
  <2> USE DEF Bad
  <2>2. t \in 0..m /\ t \in 0..n /\ t \in 0..k
    OBVIOUS
  <2>3. /\ f[t] = Outwards(t, e, f[par1[t]])
        /\ g[t] = Outwards(t, e, g[par2[t]])
    BY <2>2 DEF Chaining
  <2>4. t # 0 /\ ~(t <= e)
    BY <2>3 DEF Outwards
  <2>5. par1[t] \in 0..k /\ par1[t] < t /\ par1[t] = par2[t]
    BY <2>2, <2>4 DEF Descending, AgreeFrom
  <2>6. par1[t] \notin Bad
    BY <2>1, <2>2, <2>5
  <2> QED
    BY <2>3, <2>4, <2>5, <2>6
<1> QED
  BY <1>1 DEF AgreeFrom

Rooted(w) == Len(w.scopes) \in Nat /\ Descending(Parents(w), Len(w.scopes))

LEMMA WithinIs ==
    ASSUME NEW w, Rooted(w), NEW s \in 0..Len(w.scopes), NEW e \in Nat
    PROVE  \E f : Chaining(Parents(w), e, s, f) /\ Within(w, s, e) = f[s]
<1> DEFINE par == Parents(w)
           Is(f) == f = [t \in 0..s |-> IF t = 0 \/ t <= e THEN {}
                                         ELSE {t} \cup f[w.scopes[t].parent]]
<1>1. Len(w.scopes) \in Nat /\ Descending(par, Len(w.scopes))
  BY DEF Rooted
<1>2. Descending(par, s)
  <2> HIDE DEF par
  <2> QED
    BY <1>1 DEF Descending
<1>3. ASSUME NEW f PROVE Chaining(par, e, s, f) <=> Is(f)
  <2>1. ASSUME NEW t \in 0..s
        PROVE  Outwards(t, e, f[par[t]])
                = IF t = 0 \/ t <= e THEN {} ELSE {t} \cup f[w.scopes[t].parent]
    <3>1. CASE t = 0
      BY <3>1, Zenon DEF Outwards
    <3>2. CASE t # 0
      <4>1. t \in Scopes(w)
        BY <3>2, <1>1 DEF Scopes
      <4>2. par[t] = w.scopes[t].parent
        BY <4>1 DEF Parents
      <4> QED
        BY <4>2, Zenon DEF Outwards
    <3> QED
      BY <3>1, <3>2
  <2> HIDE DEF par
  <2>2. [t \in 0..s |-> Outwards(t, e, f[par[t]])]
         = [t \in 0..s |-> IF t = 0 \/ t <= e THEN {} ELSE {t} \cup f[w.scopes[t].parent]]
    BY <2>1, Zenon
  <2> QED
    BY <2>2, Zenon DEF Chaining
<1>4. PICK g : Chaining(par, e, s, g)
  <2>1. s \in Nat
    BY <1>1
  <2> HIDE DEF par
  <2> QED
    BY <2>1, <1>2, ChainsExist, Zenon
<1>5. Is(CHOOSE f : Is(f))
  <2> HIDE DEF Is
  <2> QED
    BY <1>3, <1>4, Zenon
<1>6. Within(w, s, e) = (CHOOSE f : Is(f))[s]
  BY Zenon DEF Within
<1> QED
  BY <1>3, <1>5, <1>6, Zenon

\* A scope and the scopes outwards from its parent.
LEMMA WithinStep ==
    ASSUME NEW w, Rooted(w), NEW s \in 1..Len(w.scopes), NEW e \in Nat
    PROVE  /\ w.scopes[s].parent \in 0..(s - 1)
           /\ Within(w, s, e) = Outwards(s, e, Within(w, w.scopes[s].parent, e))
<1> DEFINE par == Parents(w)
           p == w.scopes[s].parent
<1>1. Len(w.scopes) \in Nat /\ Descending(par, Len(w.scopes))
  BY DEF Rooted
<1>2. par[s] = p
  BY <1>1 DEF Parents, Scopes
<1> HIDE DEF par
<1>3. p \in Nat /\ p < s
  BY <1>1, <1>2, Zenon DEF Descending
<1>4. p \in 0..(s - 1) /\ p \in 0..Len(w.scopes) /\ s \in 0..Len(w.scopes) /\ p \in Nat /\ s \in Nat /\ p <= s
  BY <1>1, <1>3
<1> HIDE DEF p
<1>5. PICK f : Chaining(par, e, s, f) /\ Within(w, s, e) = f[s]
  BY <1>4, WithinIs, Zenon DEF par
<1>6. PICK g : Chaining(par, e, p, g) /\ Within(w, p, e) = g[p]
  BY <1>4, WithinIs, Zenon DEF par
<1>7. Descending(par, p)
  BY <1>1, <1>4 DEF Descending
<1>8. p <= p /\ AgreeFrom(1, p, par, par)
  BY <1>4 DEF AgreeFrom
<1>9. AgreeFrom(0, p, f, g)
  BY <1>4, <1>5, <1>6, <1>7, <1>8, ChainsAgree, Zenon
<1>10. f[p] = g[p]
  BY <1>4, <1>9 DEF AgreeFrom
<1>11. f[s] = Outwards(s, e, f[par[s]])
  BY <1>4, <1>5 DEF Chaining
<1> QED
  BY <1>2, <1>4, <1>5, <1>6, <1>10, <1>11 DEF p

\* The scopes up to one are among those up to the global one.
LEMMA WithinInside ==
    ASSUME NEW w, Rooted(w), NEW s \in 0..Len(w.scopes), NEW e \in Nat
    PROVE  /\ Within(w, s, e) \subseteq Within(w, s, 0)
           /\ \A t \in Within(w, s, e) : t \in 1..s /\ e < t
<1> DEFINE Fails(t) == ~ /\ Within(w, t, e) \subseteq Within(w, t, 0)
                         /\ \A u \in Within(w, t, e) : u \in 1..t /\ e < u
           Bad == {t \in 0..Len(w.scopes) : Fails(t)}
<1>1. Bad = {}
  <2> SUFFICES ASSUME Bad # {}
               PROVE  FALSE
    OBVIOUS
  <2>1. Bad \in SUBSET Nat
    BY DEF Rooted
  <2> HIDE DEF Bad
  <2>2. PICK t \in Bad : \A j \in Bad : t <= j
    BY <2>1, LeastNumber
  <2> USE DEF Bad
  <2>3. t \in 0..Len(w.scopes) /\ Len(w.scopes) \in Nat /\ Fails(t)
    BY DEF Rooted
  <2>4. CASE t = 0
    <3>1. \A d \in Nat : Within(w, 0, d) = {}
      <4> TAKE d \in Nat
      <4>1. 0 \in 0..Len(w.scopes)
        BY <2>3
      <4>2. PICK f : Chaining(Parents(w), d, 0, f) /\ Within(w, 0, d) = f[0]
        BY <4>1, WithinIs, Zenon
      <4>3. f[0] = Outwards(0, d, f[Parents(w)[0]])
        BY <4>2 DEF Chaining
      <4> QED
        BY <4>2, <4>3 DEF Outwards
    <3>2. Within(w, t, e) = {} /\ Within(w, t, 0) = {}
      BY <2>4, <3>1
    <3> QED
      BY <2>3, <3>2
  <2>5. CASE t # 0
    <3> DEFINE p == w.scopes[t].parent
    <3>1. t \in 1..Len(w.scopes) /\ 0 \in Nat
      BY <2>3, <2>5
    <3>2. /\ p \in 0..(t - 1)
          /\ Within(w, t, e) = Outwards(t, e, Within(w, p, e))
          /\ Within(w, t, 0) = Outwards(t, 0, Within(w, p, 0))
      BY <3>1, WithinStep, Zenon
    <3> HIDE DEF p
    <3>3. p \in 0..Len(w.scopes) /\ p < t /\ p \notin Bad
      BY <2>2, <2>3, <3>2
    <3>4. ~Fails(p)
      BY <3>3
    <3>5. \A u \in Within(w, p, e) : u \in 1..t /\ e < u
      BY <3>2, <3>4, <2>3
    <3>6. \A u \in Within(w, t, e) : u \in 1..t /\ e < u
      BY <3>1, <3>2, <3>5 DEF Outwards
    <3>7. Within(w, t, 0) = {t} \cup Within(w, p, 0)
      BY <3>1, <3>2 DEF Outwards
    <3>8. Within(w, t, e) \subseteq {t} \cup Within(w, p, e)
      BY <3>2 DEF Outwards
    <3> QED
      BY <2>3, <3>4, <3>6, <3>7, <3>8
  <2> QED
    BY <2>4, <2>5
<1> QED
  BY <1>1

LEMMA WithinSame ==
    ASSUME NEW w, NEW u, Rooted(w), Rooted(u), NEW e \in Nat, NEW s \in Nat,
           s <= Len(w.scopes), s <= Len(u.scopes), AgreeFrom(1, s, Parents(w), Parents(u))
    PROVE  Within(u, s, e) = Within(w, s, e)
<1>1. /\ s \in 0..Len(w.scopes) /\ s \in 0..Len(u.scopes) /\ s <= s
      /\ Len(w.scopes) \in Nat /\ Len(u.scopes) \in Nat
      /\ Descending(Parents(w), Len(w.scopes))
  BY DEF Rooted
<1>2. PICK f : Chaining(Parents(w), e, s, f) /\ Within(w, s, e) = f[s]
  BY <1>1, WithinIs, Zenon
<1>3. PICK g : Chaining(Parents(u), e, s, g) /\ Within(u, s, e) = g[s]
  BY <1>1, WithinIs, Zenon
<1>4. Descending(Parents(w), s)
  BY <1>1 DEF Descending
<1>5. AgreeFrom(0, s, f, g)
  BY <1>1, <1>2, <1>3, <1>4, ChainsAgree, Zenon
<1> QED
  BY <1>2, <1>3, <1>5 DEF AgreeFrom

--------------------------------------------------------------------------------
(* What keeps the lists in order *)

Grown(f, n, x) == [v \in 1..(n + 1) |-> IF v = n + 1 THEN x ELSE f[v]]

LEMMA GrownLast ==
    ASSUME NEW n \in Nat, NEW f, NEW x, NEW y, NEW z, z = y
    PROVE  [Grown(f, n, x) EXCEPT ![n + 1] = z] = Grown(f, n, y)
<1>1. \A v \in 1..(n + 1) : (IF v = n + 1 THEN y ELSE Grown(f, n, x)[v]) = (IF v = n + 1 THEN y ELSE f[v])
  BY DEF Grown
<1>2. [v \in 1..(n + 1) |-> IF v = n + 1 THEN y ELSE Grown(f, n, x)[v]] = Grown(f, n, y)
  BY <1>1, Zenon DEF Grown
<1>3. [Grown(f, n, x) EXCEPT ![n + 1] = z] = [v \in 1..(n + 1) |-> IF v = n + 1 THEN y ELSE Grown(f, n, x)[v]]
  BY DEF Grown
<1> QED
  BY <1>2, <1>3

\* A new variable that is used but not declared.
LEMMA ListingFreshUnd ==
    ASSUME NEW n \in Nat, NEW ls, NEW ds, NEW D, NEW U, NEW O, Listing(ls, ds, D, U, O),
           DOMAIN ls = 1..n, NEW s \in O
    PROVE  Listing(Grown(ls, n, 0), Grown(ds, n, NoDecl), D, [U EXCEPT ![s] = @ \cup {n + 1}], O)
<1> DEFINE ls2 == Grown(ls, n, 0)
           ds2 == Grown(ds, n, NoDecl)
           U2 == [U EXCEPT ![s] = @ \cup {n + 1}]
<1>1. /\ DOMAIN ds = 1..n /\ DOMAIN U = DOMAIN D /\ O \subseteq DOMAIN D /\ O \subseteq Nat
      /\ \A t \in DOMAIN D : D[t] \subseteq 1..n /\ U[t] \subseteq 1..n
      /\ DecOnce(D) /\ DecHasDecl(ds, D) /\ DeclIsDec(ls, ds, D)
      /\ Unlinked(ls, D, U, O) /\ UndOnce(ds, U, O) /\ UndInside(D, U, O)
  BY DEF Listing, Ranged
<1>2. /\ DOMAIN ls2 = 1..(n + 1) /\ DOMAIN ds2 = 1..(n + 1) /\ DOMAIN U2 = DOMAIN D
      /\ \A v \in 1..n : ls2[v] = ls[v] /\ ds2[v] = ds[v] /\ v \in 1..(n + 1) /\ v # n + 1
      /\ \A v \in 1..(n + 1) : v # n + 1 => v \in 1..n
      /\ ls2[n + 1] = 0 /\ ds2[n + 1] = NoDecl /\ n + 1 \in 1..(n + 1)
  BY <1>1 DEF Grown
<1>3. /\ \A t \in DOMAIN D : t # s => U2[t] = U[t]
      /\ s \in DOMAIN D /\ U2[s] = U[s] \cup {n + 1}
  BY <1>1
<1> HIDE DEF ls2, ds2, U2
<1>4. Ranged(ls2, D, U2)
  BY <1>1, <1>2, <1>3 DEF Ranged
<1>5. DecHasDecl(ds2, D)
  BY <1>1, <1>2 DEF DecHasDecl
<1>6. DeclIsDec(ls2, ds2, D)
  BY <1>1, <1>2 DEF DeclIsDec
<1>7. Unlinked(ls2, D, U2, O)
  BY <1>1, <1>2, <1>3 DEF Unlinked
<1>8. UndOnce(ds2, U2, O)
  BY <1>1, <1>2, <1>3 DEF UndOnce
<1>9. UndInside(D, U2, O)
  BY <1>1, <1>2, <1>3 DEF UndInside
<1>10. Listing(ls2, ds2, D, U2, O)
  BY <1>1, <1>2, <1>4, <1>5, <1>6, <1>7, <1>8, <1>9, Zenon DEF Listing
<1> QED
  BY <1>10 DEF ls2, ds2, U2

\* A new variable that is declared.
LEMMA ListingFreshDec ==
    ASSUME NEW n \in Nat, NEW ls, NEW ds, NEW D, NEW U, NEW O, Listing(ls, ds, D, U, O),
           DOMAIN ls = 1..n, NEW s \in O, NEW decl, decl # NoDecl
    PROVE  Listing(Grown(ls, n, 0), Grown(ds, n, decl), [D EXCEPT ![s] = @ \cup {n + 1}], U, O)
<1> DEFINE ls2 == Grown(ls, n, 0)
           ds2 == Grown(ds, n, decl)
           D2 == [D EXCEPT ![s] = @ \cup {n + 1}]
<1>1. /\ DOMAIN ds = 1..n /\ DOMAIN U = DOMAIN D /\ O \subseteq DOMAIN D /\ O \subseteq Nat
      /\ \A t \in DOMAIN D : D[t] \subseteq 1..n /\ U[t] \subseteq 1..n
      /\ DecOnce(D) /\ DecHasDecl(ds, D) /\ DeclIsDec(ls, ds, D)
      /\ Unlinked(ls, D, U, O) /\ UndOnce(ds, U, O) /\ UndInside(D, U, O)
  BY DEF Listing, Ranged
<1>2. /\ DOMAIN ls2 = 1..(n + 1) /\ DOMAIN ds2 = 1..(n + 1) /\ DOMAIN D2 = DOMAIN D
      /\ \A v \in 1..n : ls2[v] = ls[v] /\ ds2[v] = ds[v] /\ v \in 1..(n + 1) /\ v # n + 1
      /\ \A v \in 1..(n + 1) : v # n + 1 => v \in 1..n
      /\ ls2[n + 1] = 0 /\ ds2[n + 1] = decl /\ n + 1 \in 1..(n + 1)
  BY <1>1 DEF Grown
<1>3. /\ \A t \in DOMAIN D : t # s => D2[t] = D[t]
      /\ s \in DOMAIN D /\ D2[s] = D[s] \cup {n + 1}
  BY <1>1
<1> HIDE DEF ls2, ds2, D2
<1>4. Ranged(ls2, D2, U)
  BY <1>1, <1>2, <1>3 DEF Ranged
<1>5. DecHasDecl(ds2, D2)
  BY <1>1, <1>2, <1>3 DEF DecHasDecl
<1>6. DeclIsDec(ls2, ds2, D2)
  BY <1>1, <1>2, <1>3 DEF DeclIsDec
<1>7. Unlinked(ls2, D2, U, O)
  BY <1>1, <1>2, <1>3 DEF Unlinked
<1>8. UndOnce(ds2, U, O)
  BY <1>1, <1>2, <1>3 DEF UndOnce
<1>9. UndInside(D2, U, O)
  BY <1>1, <1>2, <1>3 DEF UndInside
<1>10. DecOnce(D2)
  BY <1>1, <1>2, <1>3 DEF DecOnce
<1>11. Listing(ls2, ds2, D2, U, O)
  BY <1>1, <1>2, <1>4, <1>5, <1>6, <1>7, <1>8, <1>9, <1>10, Zenon DEF Listing
<1> QED
  BY <1>11 DEF ls2, ds2, D2

\* A variable used before that is declared now.
LEMMA ListingTaken ==
    ASSUME NEW ls, NEW ds, NEW D, NEW U, NEW O, Listing(ls, ds, D, U, O),
           NEW s \in O, NEW v \in U[s], ds[v] = NoDecl, NEW decl, decl # NoDecl
    PROVE  Listing(ls, [ds EXCEPT ![v] = decl], [D EXCEPT ![s] = @ \cup {v}],
                   [U EXCEPT ![s] = @ \ {v}], O)
<1> DEFINE ds2 == [ds EXCEPT ![v] = decl]
           D2 == [D EXCEPT ![s] = @ \cup {v}]
           U2 == [U EXCEPT ![s] = @ \ {v}]
<1>1. /\ DOMAIN ds = DOMAIN ls /\ DOMAIN U = DOMAIN D /\ O \subseteq DOMAIN D /\ O \subseteq Nat
      /\ \A t \in DOMAIN D : D[t] \subseteq DOMAIN ls /\ U[t] \subseteq DOMAIN ls
      /\ DecOnce(D) /\ DecHasDecl(ds, D) /\ DeclIsDec(ls, ds, D)
      /\ Unlinked(ls, D, U, O) /\ UndOnce(ds, U, O) /\ UndInside(D, U, O)
  BY DEF Listing, Ranged
<1>2. /\ v \in DOMAIN ls /\ s \in DOMAIN D
      /\ DOMAIN ds2 = DOMAIN ls /\ ds2[v] = decl /\ \A u \in DOMAIN ls : u # v => ds2[u] = ds[u]
      /\ DOMAIN D2 = DOMAIN D /\ D2[s] = D[s] \cup {v} /\ \A t \in DOMAIN D : t # s => D2[t] = D[t]
      /\ DOMAIN U2 = DOMAIN D /\ U2[s] = U[s] \ {v} /\ \A t \in DOMAIN D : t # s => U2[t] = U[t]
  BY <1>1
<1> HIDE DEF ds2, D2, U2
<1>3. \A t \in DOMAIN D : v \notin D[t]
  BY <1>1 DEF DecHasDecl
<1>4. \A t \in O : v \notin U2[t]
  BY <1>1, <1>2 DEF UndOnce
<1>5. Ranged(ls, D2, U2)
  BY <1>1, <1>2 DEF Ranged
<1>6. DecHasDecl(ds2, D2)
  BY <1>1, <1>2 DEF DecHasDecl
<1>7. DeclIsDec(ls, ds2, D2)
  BY <1>1, <1>2 DEF DeclIsDec
<1>8. Unlinked(ls, D2, U2, O)
  BY <1>1, <1>2 DEF Unlinked
<1>9. UndOnce(ds2, U2, O)
  BY <1>1, <1>2, <1>4 DEF UndOnce
<1>10. UndInside(D2, U2, O)
  BY <1>1, <1>2, <1>4 DEF UndInside
<1>11. DecOnce(D2)
  BY <1>1, <1>2, <1>3 DEF DecOnce
<1>12. Listing(ls, ds2, D2, U2, O)
  BY <1>1, <1>2, <1>5, <1>6, <1>7, <1>8, <1>9, <1>10, <1>11, Zenon DEF Listing
<1> QED
  BY <1>12 DEF ds2, D2, U2

\* A variable declared in s that is used in scopes further in.
LEMMA ListingAlsoUsed ==
    ASSUME NEW ls, NEW ds, NEW D, NEW U, NEW O, Listing(ls, ds, D, U, O),
           NEW s \in O, NEW v \in D[s], NEW T, \A t \in T : t \in O /\ s < t
    PROVE  Listing(ls, ds, D, [t \in DOMAIN U |-> IF t \in T THEN U[t] \cup {v} ELSE U[t]], O)
<1> DEFINE U2 == [t \in DOMAIN U |-> IF t \in T THEN U[t] \cup {v} ELSE U[t]]
<1>1. /\ DOMAIN ds = DOMAIN ls /\ DOMAIN U = DOMAIN D /\ O \subseteq DOMAIN D /\ O \subseteq Nat
      /\ \A t \in DOMAIN D : D[t] \subseteq DOMAIN ls /\ U[t] \subseteq DOMAIN ls
      /\ DecOnce(D) /\ DecHasDecl(ds, D) /\ DeclIsDec(ls, ds, D)
      /\ Unlinked(ls, D, U, O) /\ UndOnce(ds, U, O) /\ UndInside(D, U, O)
  BY DEF Listing, Ranged
<1>2. /\ s \in DOMAIN D /\ v \in DOMAIN ls /\ ls[v] = 0 /\ ds[v] # NoDecl
      /\ \A t \in DOMAIN D : v \in D[t] => t = s
  BY <1>1 DEF Unlinked, DecHasDecl, DecOnce
<1>3. /\ DOMAIN U2 = DOMAIN D
      /\ \A t \in DOMAIN D : U2[t] \subseteq U[t] \cup {v} /\ (t \notin T => U2[t] = U[t])
  BY <1>1
<1>4. \A t \in O : t <= s => t \notin T
  BY <1>1
<1> HIDE DEF U2
<1>5. Ranged(ls, D, U2)
  BY <1>1, <1>2, <1>3 DEF Ranged
<1>6. Unlinked(ls, D, U2, O)
  BY <1>1, <1>2, <1>3 DEF Unlinked
<1>7. UndOnce(ds, U2, O)
  BY <1>1, <1>2, <1>3 DEF UndOnce
<1>8. UndInside(D, U2, O)
  <2>1. ASSUME NEW x \in O, NEW t \in O, t <= x, NEW u \in D[x]
        PROVE  u \notin U2[t]
    <3>1. u \notin U[t] /\ t \in DOMAIN D /\ x \in DOMAIN D
      BY <1>1, <2>1 DEF UndInside
    <3>2. CASE u = v
      BY <1>2, <1>3, <1>4, <2>1, <3>1, <3>2
    <3>3. CASE u # v
      BY <1>3, <3>1, <3>3
    <3> QED
      BY <3>2, <3>3
  <2> QED
    BY <2>1 DEF UndInside
<1>9. Listing(ls, ds, D, U2, O)
  BY <1>1, <1>3, <1>5, <1>6, <1>7, <1>8, Zenon DEF Listing
<1> QED
  BY <1>9 DEF U2

\* A declaration that becomes another one.
LEMMA ListingDecl ==
    ASSUME NEW ls, NEW ds, NEW D, NEW U, NEW O, Listing(ls, ds, D, U, O),
           NEW v \in DOMAIN ls, ds[v] # NoDecl, NEW decl, decl # NoDecl
    PROVE  Listing(ls, [ds EXCEPT ![v] = decl], D, U, O)
<1> DEFINE ds2 == [ds EXCEPT ![v] = decl]
<1>1. /\ DOMAIN ds = DOMAIN ls /\ DOMAIN U = DOMAIN D /\ O \subseteq DOMAIN D /\ O \subseteq Nat
      /\ Ranged(ls, D, U)
      /\ DecOnce(D) /\ DecHasDecl(ds, D) /\ DeclIsDec(ls, ds, D)
      /\ Unlinked(ls, D, U, O) /\ UndOnce(ds, U, O) /\ UndInside(D, U, O)
  BY DEF Listing
<1>2. /\ DOMAIN ds2 = DOMAIN ls /\ ds2[v] # NoDecl
      /\ \A u \in DOMAIN ls : u # v => ds2[u] = ds[u]
  BY <1>1
<1> HIDE DEF ds2
<1>3. \A u \in DOMAIN ls : ds2[u] = NoDecl <=> ds[u] = NoDecl
  BY <1>2
<1>4. /\ \A t \in DOMAIN D : D[t] \subseteq DOMAIN ls /\ U[t] \subseteq DOMAIN ls
      /\ \A t \in O : t \in DOMAIN D
  BY <1>1 DEF Ranged
<1>5. DecHasDecl(ds2, D)
  BY <1>1, <1>3, <1>4 DEF DecHasDecl
<1>6. DeclIsDec(ls, ds2, D)
  BY <1>1, <1>3 DEF DeclIsDec
<1>7. UndOnce(ds2, U, O)
  BY <1>1, <1>3, <1>4 DEF UndOnce
<1>8. Listing(ls, ds2, D, U, O)
  BY <1>1, <1>2, <1>5, <1>6, <1>7, Zenon DEF Listing
<1> QED
  BY <1>8 DEF ds2

\* Scopes that are left.
LEMMA ListingLeft ==
    ASSUME NEW ls, NEW ds, NEW D, NEW U, NEW O, Listing(ls, ds, D, U, O),
           NEW P, P \subseteq O
    PROVE  Listing(ls, ds, D, U, P)
<1>1. /\ DOMAIN ds = DOMAIN ls /\ DOMAIN U = DOMAIN D /\ P \subseteq DOMAIN D /\ P \subseteq Nat
      /\ Ranged(ls, D, U)
      /\ DecOnce(D) /\ DecHasDecl(ds, D) /\ DeclIsDec(ls, ds, D)
      /\ Unlinked(ls, D, U, O) /\ UndOnce(ds, U, O) /\ UndInside(D, U, O)
  BY DEF Listing
<1>2. Unlinked(ls, D, U, P) /\ UndOnce(ds, U, P) /\ UndInside(D, U, P)
  BY <1>1 DEF Unlinked, UndOnce, UndInside
<1> QED
  BY <1>1, <1>2, Zenon DEF Listing

\* No list of these scopes has the variable, and none but s declares it.
Loose(D, U, O, s, v) ==
    /\ \A t \in O : v \notin U[t]
    /\ \A t \in DOMAIN D : v \in D[t] => t = s

\* A variable of a scope that closes is linked to another one.
LEMMA ListingLinked ==
    ASSUME NEW ls, NEW ds, NEW D, NEW U, NEW O, Listing(ls, ds, D, U, O),
           NEW s \in DOMAIN D, s \notin O, NEW v \in DOMAIN ls, NEW t \in DOMAIN ls, t # 0,
           Loose(D, U, O, s, v)
    PROVE  Listing([ls EXCEPT ![v] = t], ds, [D EXCEPT ![s] = @ \ {v}], U, O)
<1> DEFINE ls2 == [ls EXCEPT ![v] = t]
           D2 == [D EXCEPT ![s] = @ \ {v}]
<1>1. /\ DOMAIN ds = DOMAIN ls /\ DOMAIN U = DOMAIN D /\ O \subseteq DOMAIN D /\ O \subseteq Nat
      /\ \A x \in DOMAIN D : D[x] \subseteq DOMAIN ls /\ U[x] \subseteq DOMAIN ls
      /\ DecOnce(D) /\ DecHasDecl(ds, D) /\ DeclIsDec(ls, ds, D)
      /\ Unlinked(ls, D, U, O) /\ UndOnce(ds, U, O) /\ UndInside(D, U, O)
  BY DEF Listing, Ranged
<1>2. /\ DOMAIN ls2 = DOMAIN ls /\ ls2[v] = t /\ \A u \in DOMAIN ls : u # v => ls2[u] = ls[u]
      /\ DOMAIN D2 = DOMAIN D /\ D2[s] = D[s] \ {v} /\ \A x \in DOMAIN D : x # s => D2[x] = D[x]
  BY <1>1
<1> HIDE DEF ls2, D2
<1>3. \A x \in DOMAIN D : D2[x] \subseteq D[x]
  BY <1>2
<1>4. Ranged(ls2, D2, U)
  BY <1>1, <1>2, <1>3 DEF Ranged
<1>5. DecHasDecl(ds, D2) /\ DecOnce(D2)
  BY <1>1, <1>2, <1>3 DEF DecHasDecl, DecOnce
<1>6. DeclIsDec(ls2, ds, D2)
  <2>1. ASSUME NEW u \in DOMAIN ls, ls2[u] = 0, ds[u] # NoDecl
        PROVE  \E x \in DOMAIN D : u \in D2[x]
    <3>1. u # v /\ ls[u] = 0
      BY <1>2, <2>1
    <3>2. PICK x \in DOMAIN D : u \in D[x]
      BY <1>1, <2>1, <3>1 DEF DeclIsDec
    <3> QED
      BY <1>2, <3>1, <3>2
  <2> QED
    BY <1>2, <2>1 DEF DeclIsDec
<1>7. Unlinked(ls2, D2, U, O)
  BY <1>1, <1>2, <1>3 DEF Unlinked, Loose
<1>8. UndInside(D2, U, O)
  BY <1>1, <1>3 DEF UndInside
<1>9. Listing(ls2, ds, D2, U, O)
  BY <1>1, <1>2, <1>4, <1>5, <1>6, <1>7, <1>8, Zenon DEF Listing
<1> QED
  BY <1>9 DEF ls2, D2

\* A variable of a scope that closes becomes one that its parent uses.
LEMMA ListingMoved ==
    ASSUME NEW ls, NEW ds, NEW D, NEW U, NEW O, Listing(ls, ds, D, U, O),
           NEW s \in DOMAIN D, s \notin O, NEW v \in DOMAIN ls, ls[v] = 0, NEW p \in O,
           Loose(D, U, O, s, v)
    PROVE  Listing(ls, [ds EXCEPT ![v] = NoDecl], [D EXCEPT ![s] = @ \ {v}],
                   [U EXCEPT ![p] = @ \cup {v}], O)
<1> DEFINE ds2 == [ds EXCEPT ![v] = NoDecl]
           D2 == [D EXCEPT ![s] = @ \ {v}]
           U2 == [U EXCEPT ![p] = @ \cup {v}]
<1>1. /\ DOMAIN ds = DOMAIN ls /\ DOMAIN U = DOMAIN D /\ O \subseteq DOMAIN D /\ O \subseteq Nat
      /\ \A x \in DOMAIN D : D[x] \subseteq DOMAIN ls /\ U[x] \subseteq DOMAIN ls
      /\ DecOnce(D) /\ DecHasDecl(ds, D) /\ DeclIsDec(ls, ds, D)
      /\ Unlinked(ls, D, U, O) /\ UndOnce(ds, U, O) /\ UndInside(D, U, O)
  BY DEF Listing, Ranged
<1>2. /\ p \in DOMAIN D
      /\ DOMAIN ds2 = DOMAIN ls /\ ds2[v] = NoDecl /\ \A u \in DOMAIN ls : u # v => ds2[u] = ds[u]
      /\ DOMAIN D2 = DOMAIN D /\ D2[s] = D[s] \ {v} /\ \A x \in DOMAIN D : x # s => D2[x] = D[x]
      /\ DOMAIN U2 = DOMAIN D /\ U2[p] = U[p] \cup {v} /\ \A x \in DOMAIN D : x # p => U2[x] = U[x]
  BY <1>1
<1> HIDE DEF ds2, D2, U2
<1>3. \A x \in DOMAIN D : D2[x] \subseteq D[x] /\ v \notin D2[x]
  BY <1>2 DEF Loose
<1>4. Ranged(ls, D2, U2)
  BY <1>1, <1>2, <1>3 DEF Ranged
<1>5. DecHasDecl(ds2, D2) /\ DecOnce(D2)
  BY <1>1, <1>2, <1>3 DEF DecHasDecl, DecOnce
<1>6. DeclIsDec(ls, ds2, D2)
  <2>1. ASSUME NEW u \in DOMAIN ls, ls[u] = 0, ds2[u] # NoDecl
        PROVE  \E x \in DOMAIN D : u \in D2[x]
    <3>1. u # v /\ ds[u] # NoDecl
      BY <1>2, <2>1
    <3>2. PICK x \in DOMAIN D : u \in D[x]
      BY <1>1, <2>1, <3>1 DEF DeclIsDec
    <3> QED
      BY <1>2, <3>1, <3>2
  <2> QED
    BY <1>2, <2>1 DEF DeclIsDec
<1>7. Unlinked(ls, D2, U2, O)
  BY <1>1, <1>2, <1>3 DEF Unlinked
<1>8. UndOnce(ds2, U2, O)
  <2>1. ASSUME NEW x \in O, NEW y \in O, NEW u \in U2[x], u \in U2[y], ds2[u] = NoDecl
        PROVE  x = y
    <3>0. x \in DOMAIN D /\ y \in DOMAIN D
      BY <1>1
    <3>1. CASE u = v
      <4>1. u \notin U[x] /\ u \notin U[y]
        BY <3>1 DEF Loose
      <4> QED
        BY <1>2, <2>1, <3>0, <4>1
    <3>2. CASE u # v
      <4>1. u \in U[x] /\ u \in U[y] /\ u \in DOMAIN ls
        BY <1>1, <1>2, <2>1, <3>0, <3>2
      <4>2. ds[u] = NoDecl
        BY <1>2, <2>1, <3>2, <4>1
      <4> QED
        BY <1>1, <4>1, <4>2 DEF UndOnce
    <3> QED
      BY <3>1, <3>2
  <2> QED
    BY <2>1 DEF UndOnce
<1>9. UndInside(D2, U2, O)
  <2>1. ASSUME NEW x \in O, NEW y \in O, y <= x, NEW u \in D2[x]
        PROVE  u \notin U2[y]
    <3>1. x \in DOMAIN D /\ y \in DOMAIN D
      BY <1>1
    <3>2. u # v /\ u \in D[x]
      BY <1>3, <2>1, <3>1
    <3>3. u \notin U[y]
      BY <1>1, <2>1, <3>2 DEF UndInside
    <3> QED
      BY <1>2, <3>1, <3>2, <3>3
  <2> QED
    BY <2>1 DEF UndInside
<1>10. Listing(ls, ds2, D2, U2, O)
  BY <1>1, <1>2, <1>4, <1>5, <1>6, <1>7, <1>8, <1>9, Zenon DEF Listing
<1> QED
  BY <1>10 DEF ds2, D2, U2

\* What a closed scope uses does not matter.
LEMMA ListingClosed ==
    ASSUME NEW ls, NEW ds, NEW D, NEW U, NEW O, Listing(ls, ds, D, U, O),
           NEW s \in DOMAIN D, s \notin O, NEW X, X \subseteq DOMAIN ls
    PROVE  Listing(ls, ds, D, [U EXCEPT ![s] = X], O)
<1> DEFINE U2 == [U EXCEPT ![s] = X]
<1>1. /\ DOMAIN ds = DOMAIN ls /\ DOMAIN U = DOMAIN D /\ O \subseteq DOMAIN D /\ O \subseteq Nat
      /\ \A x \in DOMAIN D : D[x] \subseteq DOMAIN ls /\ U[x] \subseteq DOMAIN ls
      /\ DecOnce(D) /\ DecHasDecl(ds, D) /\ DeclIsDec(ls, ds, D)
      /\ Unlinked(ls, D, U, O) /\ UndOnce(ds, U, O) /\ UndInside(D, U, O)
  BY DEF Listing, Ranged
<1>2. /\ DOMAIN U2 = DOMAIN D /\ U2[s] = X /\ \A x \in DOMAIN D : x # s => U2[x] = U[x]
      /\ \A x \in O : U2[x] = U[x]
  BY <1>1
<1> HIDE DEF U2
<1>3. Ranged(ls, D, U2)
  BY <1>1, <1>2 DEF Ranged
<1>4. Unlinked(ls, D, U2, O) /\ UndOnce(ds, U2, O) /\ UndInside(D, U2, O)
  BY <1>1, <1>2 DEF Unlinked, UndOnce, UndInside
<1>5. Listing(ls, ds, D, U2, O)
  BY <1>1, <1>2, <1>3, <1>4, Zenon DEF Listing
<1> QED
  BY <1>5 DEF U2

\* A scope that is entered.
LEMMA ListingEntered ==
    ASSUME NEW ls, NEW ds, NEW D, NEW U, NEW O, Listing(ls, ds, D, U, O),
           NEW n \in Nat, DOMAIN D = 1..n
    PROVE  Listing(ls, ds, Grown(D, n, {}), Grown(U, n, {}), O \cup {n + 1})
<1> DEFINE D2 == Grown(D, n, {})
           U2 == Grown(U, n, {})
           P == O \cup {n + 1}
<1>1. /\ DOMAIN ds = DOMAIN ls /\ DOMAIN U = 1..n /\ O \subseteq 1..n
      /\ \A x \in 1..n : D[x] \subseteq DOMAIN ls /\ U[x] \subseteq DOMAIN ls
      /\ DecOnce(D) /\ DecHasDecl(ds, D) /\ DeclIsDec(ls, ds, D)
      /\ Unlinked(ls, D, U, O) /\ UndOnce(ds, U, O) /\ UndInside(D, U, O)
  BY DEF Listing, Ranged
<1>2. /\ DOMAIN D2 = 1..(n + 1) /\ DOMAIN U2 = 1..(n + 1)
      /\ \A x \in 1..n : x \in 1..(n + 1) /\ D2[x] = D[x] /\ U2[x] = U[x]
      /\ D2[n + 1] = {} /\ U2[n + 1] = {}
      /\ \A x \in 1..(n + 1) : x = n + 1 \/ x \in 1..n
      /\ P \subseteq 1..(n + 1) /\ P \subseteq Nat /\ \A x \in P : x = n + 1 \/ x \in O
  BY <1>1 DEF Grown
<1> HIDE DEF D2, U2, P
<1>3. Ranged(ls, D2, U2)
  BY <1>1, <1>2 DEF Ranged
<1>4. DecOnce(D2)
  BY <1>1, <1>2 DEF DecOnce
<1>5. DecHasDecl(ds, D2)
  BY <1>1, <1>2 DEF DecHasDecl
<1>6. DeclIsDec(ls, ds, D2)
  BY <1>1, <1>2 DEF DeclIsDec
<1>7. Unlinked(ls, D2, U2, P)
  BY <1>1, <1>2 DEF Unlinked
<1>8. UndOnce(ds, U2, P)
  BY <1>1, <1>2 DEF UndOnce
<1>9. UndInside(D2, U2, P)
  BY <1>1, <1>2 DEF UndInside
<1>10. Listing(ls, ds, D2, U2, P)
  BY <1>1, <1>2, <1>3, <1>4, <1>5, <1>6, <1>7, <1>8, <1>9, Zenon DEF Listing
<1> QED
  BY <1>10 DEF D2, U2, P

--------------------------------------------------------------------------------
(* What keeps the uses counted *)

LEMMA NumbersFinite ==
    ASSUME NEW n \in Nat
    PROVE  IsFiniteSet(1..n) /\ Cardinality(1..n) = n
<1>1. 1 \in Int /\ n \in Int
  OBVIOUS
<1>2. IsFiniteSet(1..n) /\ Cardinality(1..n) = IF 1 > n THEN 0 ELSE n - 1 + 1
  BY <1>1, FS_Interval
<1> QED
  BY <1>2

LEMMA CountsFinite ==
    ASSUME NEW p, Len(p) \in Nat, NEW out, NEW v
    PROVE  /\ IsFiniteSet(Counts(p, out, v))
           /\ Cardinality(Counts(p, out, v)) \in Nat
           /\ Cardinality(Counts(p, out, v)) <= Len(p)
<1>1. IsFiniteSet(1..Len(p)) /\ Cardinality(1..Len(p)) = Len(p)
  BY NumbersFinite
<1>2. Counts(p, out, v) \in SUBSET (1..Len(p))
  BY DEF Counts
<1> QED
  BY <1>1, <1>2, FS_Subset, FS_CardinalityType

\* One more identifier.
LEMMA CountsAppend ==
    ASSUME NEW S, NEW p \in Seq(S), NEW x \in S, NEW out, NEW v
    PROVE  Cardinality(Counts(Append(p, x), out, v))
            = Cardinality(Counts(p, out, v)) + (IF out[x] = v THEN 1 ELSE 0)
<1> DEFINE q == Append(p, x)
<1>1. /\ Len(p) \in Nat /\ Len(q) = Len(p) + 1 /\ q[Len(p) + 1] = x
      /\ \A i \in 1..Len(p) : q[i] = p[i]
  BY AppendProperties, LenProperties
<1> HIDE DEF q
<1>2. Counts(q, out, v) = IF out[x] = v THEN Counts(p, out, v) \cup {Len(p) + 1} ELSE Counts(p, out, v)
  <2>1. \A i \in 1..Len(q) : i \in 1..Len(p) \/ i = Len(p) + 1
    BY <1>1
  <2>2. Len(p) + 1 \in 1..Len(q) /\ \A i \in 1..Len(p) : i \in 1..Len(q)
    BY <1>1
  <2>3. CASE out[x] = v
    BY <1>1, <2>1, <2>2, <2>3 DEF Counts
  <2>4. CASE out[x] # v
    BY <1>1, <2>1, <2>2, <2>4 DEF Counts
  <2> QED
    BY <2>3, <2>4
<1>3. Len(p) + 1 \notin Counts(p, out, v)
  BY <1>1 DEF Counts
<1>4. /\ IsFiniteSet(Counts(p, out, v)) /\ Cardinality(Counts(p, out, v)) \in Nat
  BY <1>1, CountsFinite
<1>5. Cardinality(Counts(p, out, v) \cup {Len(p) + 1}) = Cardinality(Counts(p, out, v)) + 1
  BY <1>3, <1>4, FS_AddElement
<1> QED
  BY <1>2, <1>4, <1>5 DEF q

\* No variable is used more often than there are identifiers.
LEMMA CountedBound ==
    ASSUME NEW ls, NEW us, NEW p, Counted(ls, us, p), NEW v \in DOMAIN ls, ls[v] = 0
    PROVE  us[v] \in Nat /\ us[v] > 0 /\ us[v] <= Len(p) /\ Len(p) \in Nat
<1>1. PICK out, depth : Leads(ls, out, depth) /\ UsesAre(ls, us, p, out)
  BY DEF Counted
<1>2. Len(p) \in Nat
  BY LenProperties DEF Counted
<1>3. us[v] = Cardinality(Counts(p, out, v)) /\ us[v] > 0
  BY <1>1 DEF UsesAre
<1> QED
  BY <1>2, <1>3, CountsFinite

\* An identifier of a variable that is there.
LEMMA CountedUse ==
    ASSUME NEW ls, NEW us, NEW p, Counted(ls, us, p), NEW v \in DOMAIN ls, ls[v] = 0
    PROVE  Counted(ls, [us EXCEPT ![v] = us[v] + 1], Append(p, v))
<1> DEFINE us2 == [us EXCEPT ![v] = us[v] + 1]
<1>1. PICK out, depth : Leads(ls, out, depth) /\ UsesAre(ls, us, p, out)
  BY DEF Counted
<1>2. p \in Seq(DOMAIN ls) /\ DOMAIN us = DOMAIN ls /\ \E n \in Nat : DOMAIN ls = 1..n
  BY DEF Counted
<1>3. /\ DOMAIN us2 = DOMAIN ls /\ us2[v] = us[v] + 1
      /\ \A u \in DOMAIN ls : u # v => us2[u] = us[u]
  BY <1>2
<1> HIDE DEF us2
<1>4. UsesAre(ls, us2, Append(p, v), out)
  <2> SUFFICES ASSUME NEW u \in DOMAIN ls, ls[u] = 0
               PROVE  us2[u] = Cardinality(Counts(Append(p, v), out, u)) /\ us2[u] > 0
    BY DEF UsesAre
  <2>1. us[u] = Cardinality(Counts(p, out, u)) /\ us[u] > 0
    BY <1>1 DEF UsesAre
  <2>2. us[u] \in Nat
    BY CountedBound
  <2>3. Cardinality(Counts(Append(p, v), out, u))
         = Cardinality(Counts(p, out, u)) + (IF out[v] = u THEN 1 ELSE 0)
    BY <1>2, CountsAppend
  <2>4. out[v] = v
    BY <1>1 DEF Leads
  <2> QED
    BY <1>3, <2>1, <2>2, <2>3, <2>4
<1>5. Append(p, v) \in Seq(DOMAIN ls)
  BY <1>2, AppendProperties
<1> QED
  BY <1>1, <1>2, <1>3, <1>4, <1>5, Zenon DEF Counted, us2

\* The first identifier of a new variable.
LEMMA CountedFresh ==
    ASSUME NEW ls, NEW us, NEW p, Counted(ls, us, p), NEW n \in Nat, DOMAIN ls = 1..n
    PROVE  Counted(Grown(ls, n, 0), Grown(us, n, 1), Append(p, n + 1))
<1> DEFINE ls2 == Grown(ls, n, 0)
           us2 == Grown(us, n, 1)
<1>1. PICK out, depth : Leads(ls, out, depth) /\ UsesAre(ls, us, p, out)
  BY DEF Counted
<1> DEFINE out2 == Grown(out, n, n + 1)
           depth2 == Grown(depth, n, 0)
<1>2. p \in Seq(1..n) /\ DOMAIN us = 1..n
  BY DEF Counted
<1>3. /\ DOMAIN ls2 = 1..(n + 1) /\ DOMAIN us2 = 1..(n + 1)
      /\ DOMAIN out2 = 1..(n + 1) /\ DOMAIN depth2 = 1..(n + 1)
      /\ ls2[n + 1] = 0 /\ us2[n + 1] = 1 /\ out2[n + 1] = n + 1 /\ depth2[n + 1] = 0
      /\ \A u \in 1..n : /\ ls2[u] = ls[u] /\ us2[u] = us[u] /\ out2[u] = out[u]
                         /\ depth2[u] = depth[u]
      /\ n + 1 \in 1..(n + 1) /\ \A u \in 1..n : u \in 1..(n + 1) /\ u # n + 1
      /\ \A u \in 1..(n + 1) : u = n + 1 \/ u \in 1..n
  BY DEF Grown
<1>f. out2 = [u \in 1..(n + 1) |-> out2[u]] /\ depth2 = [u \in 1..(n + 1) |-> depth2[u]]
  BY DEF Grown
<1> HIDE DEF ls2, us2, out2, depth2
<1>4. /\ \A u \in 1..n : /\ out[u] \in 1..n /\ depth[u] \in Nat
                         /\ ls[u] \in (1..n) \cup {0}
                         /\ ls[u] = 0 => out[u] = u /\ depth[u] = 0
                         /\ ls[u] # 0 => out[u] = out[ls[u]] /\ depth[u] = depth[ls[u]] + 1
                         /\ ls[out[u]] = 0
                         /\ depth[u] <= Cardinality(Linked(ls))
  BY <1>1 DEF Leads
<1>5. Linked(ls2) = Linked(ls)
  BY <1>3 DEF Linked
<1>6. Cardinality(Linked(ls)) \in Nat
  <2>1. IsFiniteSet(1..n) /\ Linked(ls) \in SUBSET (1..n)
    BY NumbersFinite DEF Linked
  <2> QED
    BY <2>1, FS_Subset, FS_CardinalityType
<1>7. Leads(ls2, out2, depth2)
  <2>1. out2 \in [1..(n + 1) -> 1..(n + 1)] /\ depth2 \in [1..(n + 1) -> Nat]
    <3>1. ASSUME NEW u \in 1..(n + 1) PROVE out2[u] \in 1..(n + 1) /\ depth2[u] \in Nat
      <4>1. CASE u = n + 1
        BY <1>3, <4>1
      <4>2. CASE u \in 1..n
        <5>1. out[u] \in 1..n /\ depth[u] \in Nat
          BY <1>4, <4>2
        <5>2. out2[u] = out[u] /\ depth2[u] = depth[u]
          BY <1>3, <4>2
        <5> QED
          BY <1>3, <5>1, <5>2
      <4> QED
        BY <1>3, <4>1, <4>2
    <3> QED
      BY <1>f, <3>1
  <2>2. ASSUME NEW u \in 1..(n + 1)
        PROVE  /\ ls2[u] \in (1..(n + 1)) \cup {0}
               /\ ls2[u] = 0 => out2[u] = u /\ depth2[u] = 0
               /\ ls2[u] # 0 => out2[u] = out2[ls2[u]] /\ depth2[u] = depth2[ls2[u]] + 1
               /\ ls2[out2[u]] = 0
               /\ depth2[u] <= Cardinality(Linked(ls2))
    <3>1. CASE u = n + 1
      BY <1>3, <1>5, <1>6, <3>1
    <3>2. CASE u \in 1..n
      <4>1. ls2[u] = ls[u] /\ out2[u] = out[u] /\ depth2[u] = depth[u]
        BY <1>3, <3>2
      <4>2. /\ out[u] \in 1..n /\ ls[u] \in (1..n) \cup {0}
            /\ ls[u] = 0 => out[u] = u /\ depth[u] = 0
            /\ ls[u] # 0 => out[u] = out[ls[u]] /\ depth[u] = depth[ls[u]] + 1
            /\ ls[out[u]] = 0
            /\ depth[u] <= Cardinality(Linked(ls))
        BY <1>4, <3>2
      <4>3. ls2[out2[u]] = 0
        BY <1>3, <4>1, <4>2
      <4>4. ls[u] # 0 => out2[ls2[u]] = out[ls[u]] /\ depth2[ls2[u]] = depth[ls[u]]
        BY <1>3, <4>1, <4>2
      <4>5. ls2[u] \in (1..(n + 1)) \cup {0}
        BY <4>1, <4>2
      <4> QED
        BY <1>5, <4>1, <4>2, <4>3, <4>4, <4>5, Zenon
    <3> QED
      BY <1>3, <3>1, <3>2
  <2> QED
    BY <1>3, <2>1, <2>2, Zenon DEF Leads
<1>8. Append(p, n + 1) \in Seq(1..(n + 1)) /\ p \in Seq(1..(n + 1))
  <2>1. p \in Seq(1..(n + 1))
    BY <1>2, SeqMonotonic, 1..n \subseteq 1..(n + 1)
  <2> QED
    BY <1>3, <2>1, AppendProperties
<1>9. UsesAre(ls2, us2, Append(p, n + 1), out2)
  <2> SUFFICES ASSUME NEW u \in 1..(n + 1), ls2[u] = 0
               PROVE  us2[u] = Cardinality(Counts(Append(p, n + 1), out2, u)) /\ us2[u] > 0
    BY <1>3 DEF UsesAre
  <2>0. n + 1 \in 1..(n + 1)
    OBVIOUS
  <2>1. Cardinality(Counts(Append(p, n + 1), out2, u))
         = Cardinality(Counts(p, out2, u)) + (IF out2[n + 1] = u THEN 1 ELSE 0)
    BY <1>8, <2>0, CountsAppend
  <2>2. \A i \in 1..Len(p) : p[i] \in 1..n
    BY <1>2, ElementOfSeq
  <2>3. Counts(p, out2, u) = Counts(p, out, u)
    BY <1>3, <2>2 DEF Counts
  <2>4. CASE u = n + 1
    <3>1. Counts(p, out, u) = {}
      BY <1>3, <1>4, <2>2, <2>4 DEF Counts
    <3>2. Cardinality(Counts(p, out, u)) = 0
      BY <3>1, FS_EmptySet
    <3> QED
      BY <1>3, <2>1, <2>3, <2>4, <3>2
  <2>5. CASE u \in 1..n
    <3>1. us[u] = Cardinality(Counts(p, out, u)) /\ us[u] > 0
      BY <1>1, <1>3, <2>5 DEF UsesAre
    <3>2. Cardinality(Counts(p, out, u)) \in Nat
      BY <1>2, CountsFinite, LenProperties
    <3>3. us2[u] = us[u] /\ out2[n + 1] # u
      BY <1>3, <2>5
    <3> QED
      BY <2>1, <2>3, <3>1, <3>2, <3>3
  <2> QED
    BY <1>3, <2>4, <2>5
<1>10. Counted(ls2, us2, Append(p, n + 1))
  <2>1. n + 1 \in Nat
    OBVIOUS
  <2> QED
    BY <1>3, <1>7, <1>8, <1>9, <2>1, Zenon DEF Counted
<1> QED
  BY <1>10 DEF ls2, us2

\* Two variables are never used by one identifier.
LEMMA CountsUnion ==
    ASSUME NEW p, Len(p) \in Nat, NEW out, NEW v, NEW t, v # t
    PROVE  /\ Cardinality(Counts(p, out, t) \cup Counts(p, out, v))
               = Cardinality(Counts(p, out, t)) + Cardinality(Counts(p, out, v))
           /\ Cardinality(Counts(p, out, t) \cup Counts(p, out, v)) <= Len(p)
<1>1. /\ IsFiniteSet(Counts(p, out, t)) /\ Cardinality(Counts(p, out, t)) \in Nat
      /\ IsFiniteSet(Counts(p, out, v)) /\ Cardinality(Counts(p, out, v)) \in Nat
  BY CountsFinite
<1>2. Counts(p, out, t) \cap Counts(p, out, v) = {}
  BY DEF Counts
<1>3. Cardinality(Counts(p, out, t) \cap Counts(p, out, v)) = 0
  BY <1>2, FS_EmptySet
<1>4. IsFiniteSet(1..Len(p)) /\ Cardinality(1..Len(p)) = Len(p)
  BY NumbersFinite
<1>5. Counts(p, out, t) \cup Counts(p, out, v) \in SUBSET (1..Len(p))
  BY DEF Counts
<1>6. Cardinality(Counts(p, out, t) \cup Counts(p, out, v)) <= Len(p)
  BY <1>4, <1>5, FS_Subset
<1>7. Cardinality(Counts(p, out, t) \cup Counts(p, out, v))
       = Cardinality(Counts(p, out, t)) + Cardinality(Counts(p, out, v))
         - Cardinality(Counts(p, out, t) \cap Counts(p, out, v))
  BY <1>1, FS_Union
<1> QED
  BY <1>1, <1>3, <1>6, <1>7

OutLinked(out, n, v, t) == [u \in 1..n |-> IF out[u] = v THEN t ELSE out[u]]

DepthLinked(out, depth, n, v) == [u \in 1..n |-> IF out[u] = v THEN depth[u] + 1 ELSE depth[u]]

\* The links, when one more is made.
LEMMA LeadsLinked ==
    ASSUME NEW n \in Nat, NEW ls, DOMAIN ls = 1..n, NEW out, NEW depth, Leads(ls, out, depth),
           NEW v \in 1..n, NEW t \in 1..n, ls[v] = 0, ls[t] = 0, v # t
    PROVE  Leads([ls EXCEPT ![v] = t], OutLinked(out, n, v, t), DepthLinked(out, depth, n, v))
<1> DEFINE ls2 == [ls EXCEPT ![v] = t]
           out2 == OutLinked(out, n, v, t)
           depth2 == DepthLinked(out, depth, n, v)
<1>1. \A u \in 1..n : /\ out[u] \in 1..n /\ depth[u] \in Nat
                      /\ ls[u] \in (1..n) \cup {0}
                      /\ ls[u] = 0 => out[u] = u /\ depth[u] = 0
                      /\ ls[u] # 0 => out[u] = out[ls[u]] /\ depth[u] = depth[ls[u]] + 1
                      /\ ls[out[u]] = 0
                      /\ depth[u] <= Cardinality(Linked(ls))
  BY DEF Leads
<1>2. /\ DOMAIN ls2 = 1..n /\ ls2[v] = t /\ \A u \in 1..n : u # v => ls2[u] = ls[u]
  OBVIOUS
<1>3. /\ \A u \in 1..n : out[u] = v => out2[u] = t /\ depth2[u] = depth[u] + 1
      /\ \A u \in 1..n : out[u] # v => out2[u] = out[u] /\ depth2[u] = depth[u]
  BY DEF OutLinked, DepthLinked
<1>4. out2 \in [1..n -> 1..n] /\ depth2 \in [1..n -> Nat]
  BY <1>1 DEF OutLinked, DepthLinked
<1> HIDE DEF ls2, out2, depth2
<1>5. Linked(ls2) = Linked(ls) \cup {v} /\ v \notin Linked(ls)
  <2>1. t # 0
    OBVIOUS
  <2> QED
    BY <1>2, <2>1 DEF Linked
<1>6. IsFiniteSet(Linked(ls)) /\ Cardinality(Linked(ls)) \in Nat
  <2>1. IsFiniteSet(1..n) /\ Linked(ls) \in SUBSET (1..n)
    BY NumbersFinite DEF Linked
  <2> QED
    BY <2>1, FS_Subset, FS_CardinalityType
<1>7. Cardinality(Linked(ls2)) = Cardinality(Linked(ls)) + 1
  BY <1>5, <1>6, FS_AddElement
<1>8. ASSUME NEW u \in 1..n
      PROVE  /\ ls2[u] \in (1..n) \cup {0}
             /\ ls2[u] = 0 => out2[u] = u /\ depth2[u] = 0
             /\ ls2[u] # 0 => out2[u] = out2[ls2[u]] /\ depth2[u] = depth2[ls2[u]] + 1
             /\ ls2[out2[u]] = 0
             /\ depth2[u] <= Cardinality(Linked(ls2))
  <2>1. /\ out[u] \in 1..n /\ depth[u] \in Nat /\ ls[u] \in (1..n) \cup {0}
        /\ ls[u] = 0 => out[u] = u /\ depth[u] = 0
        /\ ls[u] # 0 => out[u] = out[ls[u]] /\ depth[u] = depth[ls[u]] + 1
        /\ ls[out[u]] = 0
        /\ depth[u] <= Cardinality(Linked(ls))
    BY <1>1
  <2>2. out[v] = v /\ depth[v] = 0 /\ out[t] = t /\ depth[t] = 0
    BY <1>1
  <2>3. depth2[u] <= Cardinality(Linked(ls2))
    BY <1>3, <1>6, <1>7, <2>1
  <2>4. ls2[out2[u]] = 0
    BY <1>2, <1>3, <2>1
  <2>5. CASE u = v
    <3>1. out2[t] = t /\ depth2[t] = 0 /\ t # 0
      BY <1>3, <2>2
    <3>2. ls2[u] = t /\ out2[u] = t /\ depth2[u] = 1
      BY <1>2, <1>3, <2>2, <2>5
    <3> QED
      BY <2>3, <2>4, <3>1, <3>2
  <2>6. CASE u # v /\ ls[u] = 0
    <3>1. ls2[u] = 0 /\ out2[u] = u /\ depth2[u] = 0
      BY <1>2, <1>3, <2>1, <2>6
    <3> QED
      BY <2>3, <2>4, <3>1
  <2>7. CASE u # v /\ ls[u] # 0
    <3> DEFINE x == ls[u]
    <3>1. x \in 1..n /\ ls2[u] = x /\ out[u] = out[x] /\ depth[u] = depth[x] + 1
      BY <1>2, <2>1, <2>7
    <3> HIDE DEF x
    <3>2. depth[x] \in Nat
      BY <1>1, <3>1
    <3>3. out2[u] = out2[x] /\ depth2[u] = depth2[x] + 1
      BY <1>3, <3>1, <3>2
    <3> QED
      BY <2>3, <2>4, <3>1, <3>3
  <2> QED
    BY <2>5, <2>6, <2>7
<1>9. Leads(ls2, out2, depth2)
  BY <1>2, <1>4, <1>8, Zenon DEF Leads
<1> QED
  BY <1>9 DEF ls2, out2, depth2

\* One variable is merged into another.
LEMMA CountedLinked ==
    ASSUME NEW ls, NEW us, NEW p, Counted(ls, us, p),
           NEW v \in DOMAIN ls, NEW t \in DOMAIN ls, ls[v] = 0, ls[t] = 0, v # t
    PROVE  /\ us[t] + us[v] <= Len(p)
           /\ Counted([ls EXCEPT ![v] = t], [us EXCEPT ![t] = us[t] + us[v]], p)
<1> DEFINE ls2 == [ls EXCEPT ![v] = t]
           us2 == [us EXCEPT ![t] = us[t] + us[v]]
<1>1. PICK out, depth : Leads(ls, out, depth) /\ UsesAre(ls, us, p, out)
  BY DEF Counted
<1>2. PICK n \in Nat : DOMAIN ls = 1..n
  BY DEF Counted
<1>3. p \in Seq(1..n) /\ DOMAIN us = 1..n /\ Len(p) \in Nat
  BY <1>2, LenProperties DEF Counted
<1> DEFINE out2 == OutLinked(out, n, v, t)
           depth2 == DepthLinked(out, depth, n, v)
<1>4. Leads(ls2, out2, depth2)
  <2>1. v \in 1..n /\ t \in 1..n
    BY <1>2
  <2> QED
    BY <1>1, <1>2, <2>1, LeadsLinked, Zenon
<1>5. /\ DOMAIN ls2 = 1..n /\ ls2[v] = t /\ \A u \in 1..n : u # v => ls2[u] = ls[u]
      /\ DOMAIN us2 = 1..n /\ us2[t] = us[t] + us[v] /\ \A u \in 1..n : u # t => us2[u] = us[u]
  BY <1>2, <1>3
<1>6. \A u \in 1..n : out2[u] = IF out[u] = v THEN t ELSE out[u]
  BY DEF OutLinked
<1> HIDE DEF ls2, us2, out2, depth2
<1>7. \A i \in 1..Len(p) : p[i] \in 1..n
  BY <1>3, ElementOfSeq
<1>8. /\ us[t] = Cardinality(Counts(p, out, t)) /\ us[t] \in Nat /\ us[t] > 0
      /\ us[v] = Cardinality(Counts(p, out, v)) /\ us[v] \in Nat /\ us[v] > 0
  BY <1>1, CountedBound DEF UsesAre
<1>9. /\ us[t] + us[v] = Cardinality(Counts(p, out, t) \cup Counts(p, out, v))
      /\ us[t] + us[v] <= Len(p)
  BY <1>3, <1>8, CountsUnion
<1>10. UsesAre(ls2, us2, p, out2)
  <2> SUFFICES ASSUME NEW u \in 1..n, ls2[u] = 0
               PROVE  us2[u] = Cardinality(Counts(p, out2, u)) /\ us2[u] > 0
    BY <1>5 DEF UsesAre
  <2>1. u # v /\ ls[u] = 0
    BY <1>2, <1>5
  <2>2. CASE u = t
    <3>1. Counts(p, out2, t) = Counts(p, out, t) \cup Counts(p, out, v)
      BY <1>6, <1>7 DEF Counts
    <3> QED
      BY <1>5, <1>8, <1>9, <2>2, <3>1
  <2>3. CASE u # t
    <3>1. Counts(p, out2, u) = Counts(p, out, u)
      BY <1>6, <1>7, <2>1, <2>3 DEF Counts
    <3>2. us[u] = Cardinality(Counts(p, out, u)) /\ us[u] > 0
      BY <1>1, <1>2, <2>1 DEF UsesAre
    <3> QED
      BY <1>5, <2>3, <3>1, <3>2
  <2> QED
    BY <2>2, <2>3
<1>11. Counted(ls2, us2, p)
  BY <1>3, <1>4, <1>5, <1>10, Zenon DEF Counted
<1> QED
  BY <1>9, <1>11 DEF ls2, us2

--------------------------------------------------------------------------------
(* Worlds, field by field *)

LEMMA WorldIs ==
    ASSUME NEW w \in WorldSet
    PROVE  /\ w.vars \in Seq(VarSet) /\ Len(w.vars) \in Nat
           /\ w.scopes \in Seq(ScopeSet) /\ Len(w.scopes) \in Nat
           /\ \A v \in Vars(w) : w.vars[v] \in VarSet
           /\ \A s \in Scopes(w) : w.scopes[s] \in ScopeSet
<1>1. w.vars \in Seq(VarSet) /\ w.scopes \in Seq(ScopeSet)
  BY DEF WorldSet
<1> QED
  BY <1>1, LenProperties, ElementOfSeq DEF Vars, Scopes

\* Another list of variables.
LEMMA SetVars ==
    ASSUME NEW w \in WorldSet, NEW vs \in Seq(VarSet)
    PROVE  LET u == [w EXCEPT !.vars = vs] IN
           u \in WorldSet /\ u.vars = vs /\ u.scopes = w.scopes
  BY DEF WorldSet

\* Another list of scopes.
LEMMA SetScopes ==
    ASSUME NEW w \in WorldSet, NEW ss \in Seq(ScopeSet)
    PROVE  LET u == [w EXCEPT !.scopes = ss] IN
           u \in WorldSet /\ u.vars = w.vars /\ u.scopes = ss
  BY DEF WorldSet

\* The variables of u, seen field by field; its scopes are those of w.
VarsAre(w, u, ls, us, ds) ==
    /\ u \in WorldSet /\ u.scopes = w.scopes
    /\ Links(u) = ls /\ Uses(u) = us /\ Decls(u) = ds

\* A variable v becomes r.
LEMMA SetVar ==
    ASSUME NEW w \in WorldSet, NEW v \in Vars(w), NEW r \in VarSet,
           NEW u, u = [w EXCEPT !.vars = [w.vars EXCEPT ![v] = r]]
    PROVE  VarsAre(w, u, [Links(w) EXCEPT ![v] = r.link], [Uses(w) EXCEPT ![v] = r.uses],
                   [Decls(w) EXCEPT ![v] = r.decl])
<1> DEFINE vs == [w.vars EXCEPT ![v] = r]
<1>1. /\ w.vars \in Seq(VarSet) /\ Len(w.vars) \in Nat
      /\ v \in 1..Len(w.vars)
  BY WorldIs DEF Vars
<1>2. vs \in Seq(VarSet) /\ Len(vs) = Len(w.vars) /\ \A x \in 1..Len(w.vars) : vs[x] = IF x = v THEN r ELSE w.vars[x]
  BY <1>1, ExceptSeq
<1> HIDE DEF vs
<1>3. u \in WorldSet /\ u.vars = vs /\ u.scopes = w.scopes
  BY <1>2, SetVars DEF vs
<1>4. /\ Vars(u) = Vars(w) /\ u.vars[v] = r
      /\ \A x \in Vars(w) : x # v => u.vars[x] = w.vars[x]
  BY <1>1, <1>2, <1>3 DEF Vars
<1>5. Links(u) = [Links(w) EXCEPT ![v] = r.link]
  <2>1. \A x \in Vars(w) : u.vars[x].link = IF x = v THEN r.link ELSE Links(w)[x]
    BY <1>4 DEF Links
  <2>2. Links(u) = [x \in Vars(w) |-> IF x = v THEN r.link ELSE Links(w)[x]]
    BY <1>4, <2>1, Zenon DEF Links
  <2> QED
    BY <2>2 DEF Links
<1>6. Uses(u) = [Uses(w) EXCEPT ![v] = r.uses]
  <2>1. \A x \in Vars(w) : u.vars[x].uses = IF x = v THEN r.uses ELSE Uses(w)[x]
    BY <1>4 DEF Uses
  <2>2. Uses(u) = [x \in Vars(w) |-> IF x = v THEN r.uses ELSE Uses(w)[x]]
    BY <1>4, <2>1, Zenon DEF Uses
  <2> QED
    BY <2>2 DEF Uses
<1>7. Decls(u) = [Decls(w) EXCEPT ![v] = r.decl]
  <2>1. \A x \in Vars(w) : u.vars[x].decl = IF x = v THEN r.decl ELSE Decls(w)[x]
    BY <1>4 DEF Decls
  <2>2. Decls(u) = [x \in Vars(w) |-> IF x = v THEN r.decl ELSE Decls(w)[x]]
    BY <1>4, <2>1, Zenon DEF Decls
  <2> QED
    BY <2>2 DEF Decls
<1> QED
  BY <1>3, <1>5, <1>6, <1>7 DEF VarsAre

LEMMA ViewsOf ==
    ASSUME NEW w, NEW v \in Vars(w)
    PROVE  Links(w)[v] = w.vars[v].link /\ Uses(w)[v] = w.vars[v].uses /\ Decls(w)[v] = w.vars[v].decl
  BY DEF Links, Uses, Decls

LEMMA AddUsesDone ==
    ASSUME NEW w \in WorldSet, NEW v \in Vars(w), NEW n \in Nat, Uses(w)[v] + n < UsesMod
    PROVE  VarsAre(w, AddUses(w, v, n), Links(w), [Uses(w) EXCEPT ![v] = Uses(w)[v] + n], Decls(w))
<1> DEFINE k == (w.vars[v].uses + n) % UsesMod
           r == [w.vars[v] EXCEPT !.uses = k]
<1>1. w.vars[v] \in VarSet
  BY WorldIs
<1>2. UsesMod \in Nat \ {0}
  BY JSScopeAssumption
<1>3. w.vars[v].uses \in 0..(UsesMod - 1) /\ Uses(w)[v] = w.vars[v].uses
  BY <1>1, ViewsOf DEF VarSet
<1>4. k = Uses(w)[v] + n /\ k \in 0..(UsesMod - 1)
  BY <1>2, <1>3
<1> HIDE DEF k
<1>5. r \in VarSet /\ r.uses = k /\ r.link = w.vars[v].link /\ r.decl = w.vars[v].decl
  BY <1>1, <1>4 DEF VarSet
<1> HIDE DEF r
<1>6. AddUses(w, v, n) = [w EXCEPT !.vars = [w.vars EXCEPT ![v] = r]]
  BY DEF AddUses, r, k, WorldSet
<1>7. VarsAre(w, AddUses(w, v, n), [Links(w) EXCEPT ![v] = r.link], [Uses(w) EXCEPT ![v] = r.uses],
              [Decls(w) EXCEPT ![v] = r.decl])
  BY <1>5, <1>6, SetVar
<1>8. /\ [Links(w) EXCEPT ![v] = r.link] = Links(w)
      /\ [Decls(w) EXCEPT ![v] = r.decl] = Decls(w)
  BY <1>5, ViewsOf DEF Links, Decls
<1> QED
  BY <1>4, <1>5, <1>7, <1>8

LEMMA NewVarDone ==
    ASSUME NEW w \in WorldSet, NEW name \in Names, NEW decl \in DeclSet
    PROVE  LET n == Len(w.vars) IN
           VarsAre(w, NewVar(w, name, decl), Grown(Links(w), n, 0), Grown(Uses(w), n, 0),
                   Grown(Decls(w), n, decl))
<1> DEFINE r == [name |-> name, link |-> 0, uses |-> 0, decl |-> decl]
           vs == Append(w.vars, r)
           n == Len(w.vars)
           u == NewVar(w, name, decl)
<1>1. UsesMod \in Nat \ {0}
  BY JSScopeAssumption
<1>2. r \in VarSet /\ r.link = 0 /\ r.uses = 0 /\ r.decl = decl
  BY <1>1 DEF VarSet
<1>3. w.vars \in Seq(VarSet) /\ n \in Nat
  BY WorldIs
<1> HIDE DEF r
<1>4. /\ vs \in Seq(VarSet) /\ Len(vs) = n + 1 /\ vs[n + 1] = r
      /\ \A x \in 1..n : vs[x] = w.vars[x]
  BY <1>2, <1>3, AppendProperties
<1>5. u \in WorldSet /\ u.vars = vs /\ u.scopes = w.scopes
  <2>1. u = [w EXCEPT !.vars = vs]
    BY DEF NewVar, r
  <2> HIDE DEF vs, u
  <2> QED
    BY <1>4, <2>1, SetVars
<1> HIDE DEF vs, u
<1>6. Vars(u) = 1..(n + 1) /\ Vars(w) = 1..n
  BY <1>4, <1>5 DEF Vars
<1> HIDE DEF n
<1>7. \A x \in 1..(n + 1) : u.vars[x] = IF x = n + 1 THEN r ELSE w.vars[x]
  BY <1>3, <1>4, <1>5
<1>8. \A x \in 1..(n + 1) : x # n + 1 => x \in 1..n
  BY <1>3
<1>9. Links(u) = Grown(Links(w), n, 0)
  BY <1>2, <1>6, <1>7, <1>8 DEF Links, Grown
<1>10. Uses(u) = Grown(Uses(w), n, 0)
  BY <1>2, <1>6, <1>7, <1>8 DEF Uses, Grown
<1>11. Decls(u) = Grown(Decls(w), n, decl)
  BY <1>2, <1>6, <1>7, <1>8 DEF Decls, Grown
<1> QED
  BY <1>5, <1>9, <1>10, <1>11 DEF VarsAre, n, u

SameMarks(a, b) ==
    /\ b.kind = a.kind /\ b.parent = a.parent /\ b.func = a.func
    /\ b.part = a.part /\ b.at = a.at /\ b.params = a.params /\ b.rest = a.rest
    /\ b.numForDecls = a.numForDecls /\ b.numArgUses = a.numArgUses

\* Nothing of the scopes has changed but the lists.
SameFrame(w, u) ==
    /\ Len(u.scopes) = Len(w.scopes)
    /\ \A s \in Scopes(w) : SameMarks(w.scopes[s], u.scopes[s])

\* The lists of scope s are d and l now; all else is as in w.
ListsAre(w, u, s, d, l) ==
    /\ u \in WorldSet /\ u.vars = w.vars /\ SameFrame(w, u)
    /\ u.scopes[s].declared = d /\ u.scopes[s].undeclared = l
    /\ \A t \in Scopes(w) : t # s => u.scopes[t] = w.scopes[t]

LEMMA SetLists ==
    ASSUME NEW w \in WorldSet, NEW s \in Scopes(w), NEW d \in Seq(Nat), NEW l \in Seq(Nat), NEW r,
           r = [w.scopes[s] EXCEPT !.declared = d, !.undeclared = l],
           NEW u, u = [w EXCEPT !.scopes = [w.scopes EXCEPT ![s] = r]]
    PROVE  ListsAre(w, u, s, d, l)
<1> DEFINE ss == [w.scopes EXCEPT ![s] = r]
<1>1. /\ w.scopes \in Seq(ScopeSet) /\ Len(w.scopes) \in Nat
      /\ s \in 1..Len(w.scopes) /\ w.scopes[s] \in ScopeSet
  BY WorldIs DEF Scopes
<1>2. r \in ScopeSet /\ r.declared = d /\ r.undeclared = l /\ SameMarks(w.scopes[s], r)
  BY <1>1 DEF ScopeSet, SameMarks
<1>3. /\ ss \in Seq(ScopeSet) /\ Len(ss) = Len(w.scopes) /\ ss[s] = r
      /\ \A t \in 1..Len(w.scopes) : t # s => ss[t] = w.scopes[t]
  BY <1>1, <1>2, ExceptSeq
<1>4. u \in WorldSet /\ u.vars = w.vars /\ u.scopes = ss
  <2> HIDE DEF ss
  <2> QED
    BY <1>3, SetScopes DEF ss
<1> HIDE DEF ss
<1>5. \A t \in Scopes(w) : SameMarks(w.scopes[t], u.scopes[t])
  <2>1. \A t \in Scopes(w) : SameMarks(w.scopes[t], w.scopes[t])
    BY DEF SameMarks
  <2>2. \A t \in Scopes(w) : t = s \/ u.scopes[t] = w.scopes[t]
    BY <1>3, <1>4 DEF Scopes
  <2> QED
    BY <1>2, <1>3, <1>4, <2>1, <2>2, Zenon
<1> QED
  BY <1>2, <1>3, <1>4, <1>5 DEF ListsAre, SameFrame, Scopes

LEMMA ListsViews ==
    ASSUME NEW w \in WorldSet, NEW s \in Scopes(w), NEW d, NEW l, NEW u, ListsAre(w, u, s, d, l)
    PROVE  /\ Dec(u) = [Dec(w) EXCEPT ![s] = Elems(d)]
           /\ Und(u) = [Und(w) EXCEPT ![s] = Elems(l)]
           /\ Links(u) = Links(w) /\ Uses(u) = Uses(w) /\ Decls(u) = Decls(w)
           /\ Vars(u) = Vars(w) /\ Scopes(u) = Scopes(w) /\ Parents(u) = Parents(w)
<1>1. /\ u.vars = w.vars /\ Len(u.scopes) = Len(w.scopes)
      /\ u.scopes[s].declared = d /\ u.scopes[s].undeclared = l
      /\ \A t \in Scopes(w) : t # s => u.scopes[t] = w.scopes[t]
      /\ \A t \in Scopes(w) : u.scopes[t].parent = w.scopes[t].parent
  BY DEF ListsAre, SameFrame, SameMarks
<1>2. Vars(u) = Vars(w) /\ Scopes(u) = Scopes(w)
  BY <1>1 DEF Vars, Scopes
<1>3. Links(u) = Links(w) /\ Uses(u) = Uses(w) /\ Decls(u) = Decls(w)
  BY <1>1, <1>2 DEF Links, Uses, Decls
<1>4. Dec(u) = [Dec(w) EXCEPT ![s] = Elems(d)]
  <2>1. \A t \in Scopes(w) : Elems(u.scopes[t].declared) = IF t = s THEN Elems(d) ELSE Dec(w)[t]
    BY <1>1 DEF Dec
  <2>2. Dec(u) = [t \in Scopes(w) |-> IF t = s THEN Elems(d) ELSE Dec(w)[t]]
    BY <1>2, <2>1, Zenon DEF Dec
  <2> QED
    BY <2>2 DEF Dec
<1>5. Und(u) = [Und(w) EXCEPT ![s] = Elems(l)]
  <2>1. \A t \in Scopes(w) : Elems(u.scopes[t].undeclared) = IF t = s THEN Elems(l) ELSE Und(w)[t]
    BY <1>1 DEF Und
  <2>2. Und(u) = [t \in Scopes(w) |-> IF t = s THEN Elems(l) ELSE Und(w)[t]]
    BY <1>2, <2>1, Zenon DEF Und
  <2> QED
    BY <2>2 DEF Und
<1>6. Parents(u) = Parents(w)
  BY <1>1, <1>2 DEF Parents
<1> QED
  BY <1>2, <1>3, <1>4, <1>5, <1>6

--------------------------------------------------------------------------------
(* Lists and their elements *)

LEMMA ElemsAre ==
    ASSUME NEW l, NEW x
    PROVE  x \in Elems(l) <=> \E i \in 1..Len(l) : l[i] = x
  BY DEF Elems

LEMMA ElemsAppend ==
    ASSUME NEW S, NEW l \in Seq(S), NEW x \in S
    PROVE  /\ Append(l, x) \in Seq(S) /\ Len(Append(l, x)) = Len(l) + 1
           /\ Elems(Append(l, x)) = Elems(l) \cup {x}
           /\ Different(l) /\ x \notin Elems(l) => Different(Append(l, x))
           /\ \A ds : DifferentOf(ds, l) /\ (x \notin Elems(l) \/ ds[x] # NoDecl)
                        => DifferentOf(ds, Append(l, x))
<1> DEFINE q == Append(l, x)
           n == Len(l)
<1>1. /\ n \in Nat /\ q \in Seq(S) /\ Len(q) = n + 1 /\ q[n + 1] = x
      /\ \A i \in 1..n : q[i] = l[i]
  BY AppendProperties, LenProperties
<1> HIDE DEF q
<1>2. \A i \in 1..(n + 1) : i = n + 1 \/ i \in 1..n
  BY <1>1
<1>3. n + 1 \in 1..(n + 1) /\ \A i \in 1..n : i \in 1..(n + 1)
  BY <1>1
<1>4. \A y : y \in Elems(q) <=> y \in Elems(l) \/ y = x
  <2> TAKE y
  <2>1. y \in Elems(l) <=> \E i \in 1..n : l[i] = y
    BY ElemsAre
  <2>2. y \in Elems(q) <=> \E i \in 1..(n + 1) : q[i] = y
    BY <1>1, ElemsAre
  <2> QED
    BY <1>1, <1>2, <1>3, <2>1, <2>2
<1>5. Elems(q) = Elems(l) \cup {x}
  BY <1>4
<1>6. ASSUME Different(l), x \notin Elems(l) PROVE Different(q)
  <2>1. \A i \in 1..n : l[i] # x
    BY <1>6, ElemsAre
  <2> QED
    BY <1>1, <1>2, <1>6, <2>1 DEF Different
<1>7. ASSUME NEW ds, DifferentOf(ds, l), x \notin Elems(l) \/ ds[x] # NoDecl
      PROVE  DifferentOf(ds, q)
  <2>1. \A i \in 1..n : l[i] # x \/ ds[x] # NoDecl
    BY <1>7, ElemsAre
  <2> QED
    BY <1>1, <1>2, <1>7, <2>1 DEF DifferentOf
<1> QED
  BY <1>1, <1>5, <1>6, <1>7 DEF q

LEMMA ElemsRange ==
    ASSUME NEW S, NEW l \in Seq(S)
    PROVE  Range(l) = Elems(l)
<1>1. DOMAIN l = 1..Len(l)
  BY LenProperties
<1> QED
  BY <1>1, Zenon DEF Range, Elems

\* An element that is there once is removed.
LEMMA ElemsRemove ==
    ASSUME NEW S, NEW l \in Seq(S), NEW i \in 1..Len(l), NEW ds, DifferentOf(ds, l), ds[l[i]] = NoDecl
    PROVE  /\ RemoveAt(l, i) \in Seq(S) /\ Len(RemoveAt(l, i)) = Len(l) - 1
           /\ Elems(RemoveAt(l, i)) = Elems(l) \ {l[i]}
           /\ DifferentOf(ds, RemoveAt(l, i))
<1> DEFINE a == SubSeq(l, 1, i - 1)
           b == SubSeq(l, i + 1, Len(l))
           q == a \o b
           n == Len(l)
<1>1. n \in Nat /\ i \in 1..n
  BY LenProperties
<1>2. /\ a \in Seq(S) /\ Len(a) = i - 1 /\ \A j \in 1..(i - 1) : a[j] = l[j]
  <2>1. 1 \in 1..(n + 1) /\ i - 1 \in 0..n
    BY <1>1
  <2> QED
    BY <1>1, <2>1, SubSeqProperties
<1>3. /\ b \in Seq(S) /\ Len(b) = n - i /\ \A j \in 1..(n - i) : b[j] = l[i + j]
  <2>1. i + 1 \in 1..(n + 1) /\ n \in 0..n
    BY <1>1
  <2> QED
    BY <1>1, <2>1, SubSeqProperties
<1> HIDE DEF a, b
<1>4. /\ q \in Seq(S) /\ Len(q) = n - 1
      /\ \A j \in 1..(n - 1) : q[j] = IF j < i THEN l[j] ELSE l[j + 1]
  <2>1. q \in Seq(S) /\ Len(q) = Len(a) + Len(b)
        /\ \A j \in 1..(Len(a) + Len(b)) : q[j] = IF j <= Len(a) THEN a[j] ELSE b[j - Len(a)]
    BY <1>2, <1>3, ConcatProperties
  <2> HIDE DEF q
  <2>2. Len(a) + Len(b) = n - 1
    BY <1>1, <1>2, <1>3
  <2>3. ASSUME NEW j \in 1..(n - 1) PROVE q[j] = IF j < i THEN l[j] ELSE l[j + 1]
    <3>1. CASE j < i
      <4>1. j <= Len(a) /\ j \in 1..(i - 1)
        BY <1>1, <1>2, <3>1
      <4> QED
        BY <1>2, <2>1, <2>2, <3>1, <4>1
    <3>2. CASE ~(j < i)
      <4>1. ~(j <= Len(a)) /\ j - Len(a) \in 1..(n - i) /\ i + (j - Len(a)) = j + 1
        BY <1>1, <1>2, <3>2
      <4>2. q[j] = b[j - Len(a)]
        BY <2>1, <2>2, <4>1
      <4> QED
        BY <1>3, <3>2, <4>1, <4>2
    <3> QED
      BY <3>1, <3>2
  <2> QED
    BY <2>1, <2>2, <2>3
<1>5. q = RemoveAt(l, i)
  BY DEF RemoveAt, a, b
<1> HIDE DEF q
<1> DEFINE at(j) == IF j < i THEN j ELSE j + 1
<1>6. \A j \in 1..(n - 1) : at(j) \in 1..n /\ at(j) # i /\ q[j] = l[at(j)]
  BY <1>1, <1>4
<1>7. \A k \in 1..n : k # i => \E j \in 1..(n - 1) : at(j) = k
  <2> TAKE k \in 1..n
  <2>1. CASE k < i
    <3>1. k \in 1..(n - 1) /\ at(k) = k
      BY <1>1, <2>1
    <3> QED
      BY <3>1
  <2>2. CASE i < k
    <3>1. k - 1 \in 1..(n - 1) /\ at(k - 1) = k
      BY <1>1, <2>2
    <3> QED
      BY <3>1
  <2> QED
    BY <1>1, <2>1, <2>2
<1>8. \A j, k \in 1..(n - 1) : at(j) = at(k) => j = k
  BY <1>1
<1> HIDE DEF at
<1>9. ASSUME NEW y PROVE y \in Elems(q) <=> y \in Elems(l) /\ y # l[i]
  <2>1. y \in Elems(l) <=> \E k \in 1..n : l[k] = y
    BY ElemsAre
  <2>2. y \in Elems(q) <=> \E j \in 1..(n - 1) : q[j] = y
    BY <1>4, ElemsAre
  <2>3. \A k \in 1..n : l[k] = l[i] => k = i
    BY <1>1 DEF DifferentOf
  <2> QED
    BY <1>6, <1>7, <2>1, <2>2, <2>3
<1>10. Elems(q) = Elems(l) \ {l[i]}
  BY <1>9
<1>11. DifferentOf(ds, q)
  BY <1>4, <1>6, <1>8 DEF DifferentOf
<1> QED
  BY <1>4, <1>5, <1>10, <1>11

--------------------------------------------------------------------------------
(* What a look-up finds *)

LEMMA ListsTyped ==
    ASSUME NEW w \in WorldSet, NEW s \in Scopes(w)
    PROVE  /\ w.scopes[s].declared \in Seq(Nat) /\ w.scopes[s].undeclared \in Seq(Nat)
           /\ Dec(w)[s] = Elems(w.scopes[s].declared)
           /\ Und(w)[s] = Elems(w.scopes[s].undeclared)
           /\ DOMAIN Dec(w) = Scopes(w) /\ DOMAIN Und(w) = Scopes(w)
<1>1. w.scopes[s] \in ScopeSet
  BY WorldIs
<1> QED
  BY <1>1 DEF ScopeSet, Dec, Und

LEMMA FoundDeclared ==
    ASSUME NEW w \in WorldSet, NEW s \in Scopes(w), NEW name, NEW skip \in BOOLEAN,
           FindDeclared(w, s, name, skip) # 0
    PROVE  FindDeclared(w, s, name, skip) \in Dec(w)[s]
<1> DEFINE list == w.scopes[s].declared
           found == {i \in Named(w, list, name) : skip => i > w.scopes[s].numForDecls}
<1>1. list \in Seq(Nat) /\ Dec(w)[s] = Elems(list) /\ Len(list) \in Nat /\ DOMAIN list = 1..Len(list)
  BY ListsTyped, LenProperties
<1>2. found \in SUBSET (1..Len(list))
  BY <1>1, Zenon DEF Named
<1>3. FindDeclared(w, s, name, skip) = IF found = {} THEN 0 ELSE list[Max(found)]
  BY Zenon DEF FindDeclared
<1> HIDE DEF list, found
<1>4. found # {} /\ FindDeclared(w, s, name, skip) = list[Max(found)]
  BY <1>3
<1>5. Max(found) \in found
  BY <1>1, <1>2, <1>4, GreatestPlace
<1> QED
  BY <1>1, <1>2, <1>4, <1>5 DEF Elems

LEMMA FoundUndeclared ==
    ASSUME NEW w \in WorldSet, NEW s \in Scopes(w), NEW name, FindUndeclared(w, s, name) # 0
    PROVE  FindUndeclared(w, s, name) \in Und(w)[s]
<1> DEFINE list == w.scopes[s].undeclared
           found == {i \in Named(w, list, name) : w.vars[list[i]].uses > 0}
<1>1. list \in Seq(Nat) /\ Und(w)[s] = Elems(list) /\ Len(list) \in Nat /\ DOMAIN list = 1..Len(list)
  BY ListsTyped, LenProperties
<1>2. found \in SUBSET (1..Len(list))
  BY <1>1, Zenon DEF Named
<1>3. FindUndeclared(w, s, name) = IF found = {} THEN 0 ELSE list[Min(found)]
  BY Zenon DEF FindUndeclared
<1> HIDE DEF list, found
<1>4. found # {} /\ FindUndeclared(w, s, name) = list[Min(found)]
  BY <1>3
<1>5. Min(found) \in found
  BY <1>1, <1>2, <1>4, GreatestPlace
<1> QED
  BY <1>1, <1>2, <1>4, <1>5 DEF Elems

LEMMA FoundKnown ==
    ASSUME NEW w \in WorldSet, NEW s \in Scopes(w), NEW name, Known(w, s, name) # 0
    PROVE  Known(w, s, name) \in Dec(w)[s] \cup Und(w)[s]
<1>1. CASE FindDeclared(w, s, name, FALSE) # 0
  BY <1>1, FoundDeclared DEF Known
<1>2. CASE FindDeclared(w, s, name, FALSE) = 0
  BY <1>2, FoundUndeclared DEF Known
<1> QED
  BY <1>1, <1>2

\* What is found in an open scope has no link.
LEMMA KnownUnlinked ==
    ASSUME NEW w, NEW O, NEW p, Good(w, O, p), NEW s \in O, NEW v \in Dec(w)[s] \cup Und(w)[s]
    PROVE  /\ w \in WorldSet /\ s \in Scopes(w)
           /\ v \in Vars(w) /\ DOMAIN Links(w) = Vars(w) /\ Links(w)[v] = 0
           /\ DOMAIN Uses(w) = Vars(w) /\ DOMAIN Decls(w) = Vars(w)
           /\ Uses(w)[v] \in Nat /\ Uses(w)[v] > 0 /\ Uses(w)[v] <= Len(p) /\ Len(p) \in Nat
<1>1. /\ w \in WorldSet /\ Listing(Links(w), Decls(w), Dec(w), Und(w), O)
      /\ Counted(Links(w), Uses(w), p)
  BY DEF Good
<1>2. DOMAIN Links(w) = Vars(w) /\ DOMAIN Uses(w) = Vars(w) /\ DOMAIN Decls(w) = Vars(w)
  BY DEF Links, Uses, Decls
<1>3. s \in DOMAIN Dec(w) /\ s \in Scopes(w)
  BY <1>1 DEF Listing, Dec
<1>4. v \in DOMAIN Links(w) /\ Links(w)[v] = 0
  BY <1>1, <1>3 DEF Listing, Ranged, Unlinked
<1>5. Uses(w)[v] \in Nat /\ Uses(w)[v] > 0 /\ Uses(w)[v] <= Len(p) /\ Len(p) \in Nat
  BY <1>1, <1>4, CountedBound
<1> QED
  BY <1>1, <1>2, <1>3, <1>4, <1>5

--------------------------------------------------------------------------------
(* The lists are as they should be *)

Placed(w, O) == Singles(w, O) /\ Marks(w, O) /\ O \subseteq Scopes(w)

\* Other variables, the same lists.
LEMMA PlacedVars ==
    ASSUME NEW w \in WorldSet, NEW O, Placed(w, O), NEW u, u.scopes = w.scopes,
           \A t \in O : \A x \in Und(w)[t] : Decls(u)[x] = NoDecl => Decls(w)[x] = NoDecl
    PROVE  Placed(u, O)
<1>1. Scopes(u) = Scopes(w)
  BY DEF Scopes
<1>2. ASSUME NEW t \in O PROVE DifferentOf(Decls(u), u.scopes[t].undeclared)
  <2> DEFINE l == w.scopes[t].undeclared
  <2>1. DifferentOf(Decls(w), l) /\ t \in Scopes(w)
    BY DEF Placed, Singles
  <2>2. Und(w)[t] = Elems(l)
    BY <2>1, ListsTyped
  <2>3. u.scopes[t].undeclared = l
    OBVIOUS
  <2> HIDE DEF l
  <2>4. \A i \in 1..Len(l) : Decls(u)[l[i]] = NoDecl => Decls(w)[l[i]] = NoDecl
    BY <2>2, ElemsAre
  <2> QED
    BY <2>1, <2>3, <2>4, Zenon DEF DifferentOf
<1>3. \A t \in Scopes(u) : Different(u.scopes[t].declared)
  BY <1>1 DEF Placed, Singles
<1>4. Marks(u, O)
  BY DEF Placed, Marks
<1> QED
  BY <1>1, <1>2, <1>3, <1>4 DEF Placed, Singles

\* Other lists in one scope.
LEMMA PlacedLists ==
    ASSUME NEW w \in WorldSet, NEW O, Placed(w, O), NEW s \in Scopes(w),
           NEW d, NEW l, NEW u, ListsAre(w, u, s, d, l),
           Different(d),
           s \in O => /\ DifferentOf(Decls(w), l)
                      /\ w.scopes[s].numForDecls <= Len(d) /\ w.scopes[s].numArgUses <= Len(l)
    PROVE  Placed(u, O)
<1>1. /\ Scopes(u) = Scopes(w) /\ Decls(u) = Decls(w)
  BY ListsViews
<1>2. /\ u.scopes[s].declared = d /\ u.scopes[s].undeclared = l
      /\ \A t \in Scopes(w) : t # s => u.scopes[t] = w.scopes[t]
      /\ u.scopes[s].numForDecls = w.scopes[s].numForDecls
      /\ u.scopes[s].numArgUses = w.scopes[s].numArgUses
  BY DEF ListsAre, SameFrame, SameMarks
<1>3. \A t \in Scopes(u) : Different(u.scopes[t].declared)
  BY <1>1, <1>2 DEF Placed, Singles
<1>4. \A t \in O : DifferentOf(Decls(u), u.scopes[t].undeclared)
  BY <1>1, <1>2 DEF Placed, Singles
<1>5. Marks(u, O)
  BY <1>1, <1>2 DEF Placed, Marks
<1> QED
  BY <1>1, <1>3, <1>4, <1>5 DEF Placed, Singles

\* Good, of views.
LEMMA GoodIs ==
    ASSUME NEW w, NEW O, NEW p
    PROVE  Good(w, O, p) <=> /\ w \in WorldSet
                             /\ Listing(Links(w), Decls(w), Dec(w), Und(w), O)
                             /\ Placed(w, O)
                             /\ Counted(Links(w), Uses(w), p)
<1>1. Listing(Links(w), Decls(w), Dec(w), Und(w), O) => O \subseteq Scopes(w)
  BY DEF Listing, Dec
<1> QED
  BY <1>1 DEF Good, Placed

LEMMA ViewsTyped ==
    ASSUME NEW w \in WorldSet
    PROVE  LET n == Len(w.vars) IN
           /\ n \in Nat /\ Vars(w) = 1..n
           /\ DOMAIN Links(w) = 1..n /\ DOMAIN Uses(w) = 1..n /\ DOMAIN Decls(w) = 1..n
  BY WorldIs DEF Vars, Links, Uses, Decls

\* No list has a variable that is yet to be made.
LEMMA ListsOld ==
    ASSUME NEW w \in WorldSet, NEW O, Listing(Links(w), Decls(w), Dec(w), Und(w), O), NEW t \in Scopes(w)
    PROVE  Dec(w)[t] \subseteq 1..Len(w.vars) /\ Und(w)[t] \subseteq 1..Len(w.vars)
<1>1. Ranged(Links(w), Dec(w), Und(w)) /\ DOMAIN Dec(w) = Scopes(w) /\ DOMAIN Links(w) = 1..Len(w.vars)
  BY ListsTyped, ViewsTyped DEF Listing
<1> QED
  BY <1>1 DEF Ranged

--------------------------------------------------------------------------------
(* Use *)

UseFresh(w, s, name) ==
    AddUses([NewVar(w, name, NoDecl) EXCEPT !.scopes[s].undeclared = Append(@, Len(w.vars) + 1)],
            Len(w.vars) + 1, 1)

LEMMA UseIs ==
    ASSUME NEW w, NEW s, NEW name
    PROVE  Use(w, s, name) = IF Known(w, s, name) # 0
                             THEN [w |-> AddUses(w, Known(w, s, name), 1), v |-> Known(w, s, name)]
                             ELSE [w |-> UseFresh(w, s, name), v |-> Len(w.vars) + 1]
  BY Zenon DEF Use, Known, UseFresh

\* A use of a variable of an open scope.
LEMMA UseOld ==
    ASSUME NEW w, NEW O, NEW p, Good(w, O, p), Len(p) + 1 < UsesMod,
           NEW s \in O, NEW v \in Dec(w)[s] \cup Und(w)[s]
    PROVE  /\ VarsAre(w, AddUses(w, v, 1), Links(w), [Uses(w) EXCEPT ![v] = Uses(w)[v] + 1], Decls(w))
           /\ Good(AddUses(w, v, 1), O, Append(p, v))
<1> DEFINE u == AddUses(w, v, 1)
<1>1. /\ w \in WorldSet /\ v \in Vars(w) /\ v \in DOMAIN Links(w) /\ Links(w)[v] = 0
      /\ Uses(w)[v] \in Nat /\ Uses(w)[v] <= Len(p) /\ Len(p) \in Nat
  BY KnownUnlinked
<1>2. Uses(w)[v] + 1 < UsesMod
  BY <1>1, JSScopeAssumption
<1>3. VarsAre(w, u, Links(w), [Uses(w) EXCEPT ![v] = Uses(w)[v] + 1], Decls(w))
  BY <1>1, <1>2, AddUsesDone
<1>4. /\ Listing(Links(w), Decls(w), Dec(w), Und(w), O) /\ Placed(w, O)
      /\ Counted(Links(w), Uses(w), p)
  BY GoodIs
<1> HIDE DEF u
<1>5. Dec(u) = Dec(w) /\ Und(u) = Und(w)
  BY <1>3 DEF VarsAre, Dec, Und, Scopes
<1>6. Placed(u, O)
  <2>1. u.scopes = w.scopes /\ Decls(u) = Decls(w)
    BY <1>3 DEF VarsAre
  <2> QED
    BY <1>1, <1>4, <2>1, PlacedVars
<1>7. Counted(Links(u), Uses(u), Append(p, v))
  <2>1. Counted(Links(w), [Uses(w) EXCEPT ![v] = Uses(w)[v] + 1], Append(p, v))
    BY <1>1, <1>4, CountedUse
  <2> QED
    BY <1>3, <2>1, Zenon DEF VarsAre
<1>8. Good(u, O, Append(p, v))
  BY <1>3, <1>4, <1>5, <1>6, <1>7, GoodIs DEF VarsAre
<1> QED
  BY <1>3, <1>8 DEF u

\* The use of a name that is not known.
LEMMA UseNew ==
    ASSUME NEW w, NEW O, NEW p, Good(w, O, p), NEW s \in O, NEW name \in Names, 1 < UsesMod
    PROVE  LET u == UseFresh(w, s, name)
               n == Len(w.vars) IN
           /\ Good(u, O, Append(p, n + 1))
           /\ SameFrame(w, u) /\ n \in Nat /\ Len(u.vars) = n + 1
           /\ Uses(u)[n + 1] = 1 /\ Decls(u)[n + 1] = NoDecl /\ Links(u)[n + 1] = 0
           /\ u.scopes[s].undeclared = Append(w.scopes[s].undeclared, n + 1)
           /\ u.scopes[s].declared = w.scopes[s].declared
<1> DEFINE n == Len(w.vars)
           d == w.scopes[s].declared
           l == Append(w.scopes[s].undeclared, n + 1)
           a == NewVar(w, name, NoDecl)
           b == [a EXCEPT !.scopes[s].undeclared = Append(@, n + 1)]
           u == AddUses(b, n + 1, 1)
<1>1. /\ w \in WorldSet /\ Listing(Links(w), Decls(w), Dec(w), Und(w), O) /\ Placed(w, O)
      /\ Counted(Links(w), Uses(w), p) /\ s \in Scopes(w)
  BY GoodIs DEF Placed
<1>2. /\ n \in Nat /\ DOMAIN Links(w) = 1..n /\ DOMAIN Uses(w) = 1..n /\ DOMAIN Decls(w) = 1..n
  BY <1>1, ViewsTyped
<1>3. VarsAre(w, a, Grown(Links(w), n, 0), Grown(Uses(w), n, 0), Grown(Decls(w), n, NoDecl))
  <2>1. NoDecl \in DeclSet
    BY DEF DeclSet
  <2> QED
    BY <1>1, <2>1, NewVarDone
<1>4. /\ d \in Seq(Nat) /\ w.scopes[s].undeclared \in Seq(Nat)
      /\ Dec(w)[s] = Elems(d) /\ Und(w)[s] = Elems(w.scopes[s].undeclared)
      /\ DOMAIN Dec(w) = Scopes(w) /\ DOMAIN Und(w) = Scopes(w)
  BY <1>1, ListsTyped
<1>5. /\ l \in Seq(Nat) /\ Len(l) = Len(w.scopes[s].undeclared) + 1
      /\ Elems(l) = Elems(w.scopes[s].undeclared) \cup {n + 1}
      /\ \A ds : DifferentOf(ds, w.scopes[s].undeclared) /\ n + 1 \notin Elems(w.scopes[s].undeclared)
                   => DifferentOf(ds, l)
  <2>1. n + 1 \in Nat
    BY <1>2
  <2> QED
    BY <1>4, <2>1, ElemsAppend
<1>6. /\ a \in WorldSet /\ a.scopes = w.scopes /\ Scopes(a) = Scopes(w)
      /\ Dec(a) = Dec(w) /\ Und(a) = Und(w)
  BY <1>3 DEF VarsAre, Scopes, Dec, Und
<1> HIDE DEF a
<1>7. ListsAre(a, b, s, d, l)
  <2> DEFINE r == [a.scopes[s] EXCEPT !.declared = d, !.undeclared = l]
  <2>1. a.scopes[s] \in ScopeSet /\ s \in Scopes(a)
    BY <1>1, <1>6, WorldIs
  <2>2. r = [a.scopes[s] EXCEPT !.undeclared = l]
    BY <1>6, <2>1 DEF ScopeSet
  <2>3. b = [a EXCEPT !.scopes = [a.scopes EXCEPT ![s] = r]]
    BY <1>6, <2>1, <2>2 DEF WorldSet
  <2> HIDE DEF r
  <2> QED
    BY <1>1, <1>4, <1>5, <1>6, <2>3, SetLists DEF r
<1> HIDE DEF b
<1>8. /\ b \in WorldSet /\ Vars(b) = 1..(n + 1) /\ Scopes(b) = Scopes(w)
      /\ Links(b) = Grown(Links(w), n, 0) /\ Uses(b) = Grown(Uses(w), n, 0)
      /\ Decls(b) = Grown(Decls(w), n, NoDecl)
      /\ Dec(b) = Dec(w) /\ Und(b) = [Und(w) EXCEPT ![s] = @ \cup {n + 1}]
  <2>1. /\ Dec(b) = [Dec(a) EXCEPT ![s] = Elems(d)]
        /\ Und(b) = [Und(a) EXCEPT ![s] = Elems(l)]
        /\ Links(b) = Links(a) /\ Uses(b) = Uses(a) /\ Decls(b) = Decls(a)
        /\ Vars(b) = Vars(a) /\ Scopes(b) = Scopes(a)
    BY <1>1, <1>6, <1>7, ListsViews
  <2>2. Dec(b) = Dec(w)
    <3>1. [Dec(w) EXCEPT ![s] = Dec(w)[s]] = Dec(w)
      BY DEF Dec
    <3> QED
      BY <1>4, <1>6, <2>1, <3>1
  <2>3. Und(b) = [Und(w) EXCEPT ![s] = @ \cup {n + 1}]
    BY <1>4, <1>5, <1>6, <2>1
  <2>4. Vars(a) = 1..(n + 1)
    <3>1. DOMAIN Links(a) = 1..(n + 1)
      BY <1>3 DEF VarsAre, Grown
    <3> QED
      BY <3>1 DEF Links
  <2>5. b \in WorldSet
    BY <1>7 DEF ListsAre
  <2> QED
    BY <1>3, <1>6, <2>1, <2>2, <2>3, <2>4, <2>5 DEF VarsAre
<1>9. VarsAre(b, u, Grown(Links(w), n, 0), Grown(Uses(w), n, 1), Grown(Decls(w), n, NoDecl))
  <2>1. n + 1 \in Vars(b) /\ Uses(b)[n + 1] = 0 /\ Uses(b)[n + 1] + 1 < UsesMod
    BY <1>2, <1>8 DEF Grown
  <2>2. VarsAre(b, u, Links(b), [Uses(b) EXCEPT ![n + 1] = Uses(b)[n + 1] + 1], Decls(b))
    BY <1>8, <2>1, AddUsesDone
  <2>3. [Uses(b) EXCEPT ![n + 1] = Uses(b)[n + 1] + 1] = Grown(Uses(w), n, 1)
    BY <1>2, <1>8, <2>1, GrownLast
  <2> QED
    BY <1>8, <2>2, <2>3
<1> HIDE DEF u
<1>10. /\ u \in WorldSet /\ u.scopes = b.scopes
       /\ Links(u) = Grown(Links(w), n, 0) /\ Uses(u) = Grown(Uses(w), n, 1)
       /\ Decls(u) = Grown(Decls(w), n, NoDecl)
       /\ Dec(u) = Dec(w) /\ Und(u) = [Und(w) EXCEPT ![s] = @ \cup {n + 1}]
  <2>1. u.scopes = b.scopes /\ Dec(u) = Dec(b) /\ Und(u) = Und(b)
    BY <1>9 DEF VarsAre, Dec, Und, Scopes
  <2> QED
    BY <1>8, <1>9, <2>1 DEF VarsAre
<1>11. Listing(Links(u), Decls(u), Dec(u), Und(u), O)
  <2> HIDE DEF n
  <2>1. Listing(Grown(Links(w), n, 0), Grown(Decls(w), n, NoDecl), Dec(w),
                [Und(w) EXCEPT ![s] = @ \cup {n + 1}], O)
    BY <1>1, <1>2, ListingFreshUnd
  <2> QED
    BY <1>10, <2>1, Zenon
<1>12. Counted(Links(u), Uses(u), Append(p, n + 1))
  BY <1>1, <1>2, <1>10, CountedFresh
<1>13. Placed(u, O)
  <2>1. Placed(a, O)
    <3>1. ASSUME NEW t \in O, NEW x \in Und(w)[t], Decls(a)[x] = NoDecl
          PROVE  Decls(w)[x] = NoDecl
      <4>1. t \in Scopes(w) /\ x \in 1..n
        BY <1>1, ListsOld DEF Placed
      <4>2. x \in 1..(n + 1) /\ x # n + 1
        BY <1>2, <4>1
      <4> QED
        BY <1>3, <3>1, <4>1, <4>2 DEF VarsAre, Grown
    <3> QED
      BY <1>1, <1>6, <3>1, PlacedVars
  <2>2. Different(d) /\ DifferentOf(Decls(a), w.scopes[s].undeclared)
    BY <1>1, <1>6, <2>1 DEF Placed, Singles
  <2>3. n + 1 \notin Elems(w.scopes[s].undeclared)
    BY <1>1, <1>2, <1>4, ListsOld
  <2>4. DifferentOf(Decls(a), l)
    BY <1>5, <2>2, <2>3
  <2>5. /\ a.scopes[s].numForDecls <= Len(d) /\ a.scopes[s].numArgUses <= Len(w.scopes[s].undeclared)
    BY <1>1, <1>6 DEF Placed, Marks
  <2>6. Len(w.scopes[s].undeclared) \in Nat /\ a.scopes[s].numArgUses \in Nat
    <3>1. a.scopes[s] \in ScopeSet
      BY <1>1, <1>6, WorldIs
    <3> QED
      BY <1>4, <3>1, LenProperties DEF ScopeSet
  <2>7. a.scopes[s].numArgUses <= Len(l)
    BY <1>5, <2>5, <2>6
  <2>8. Placed(b, O)
    BY <1>1, <1>6, <1>7, <2>1, <2>2, <2>4, <2>5, <2>7, PlacedLists
  <2> QED
    BY <1>8, <1>10, <2>8, PlacedVars
<1>14. Good(u, O, Append(p, n + 1))
  BY <1>10, <1>11, <1>12, <1>13, GoodIs
<1>15. SameFrame(w, u) /\ u.scopes[s].undeclared = l /\ u.scopes[s].declared = d
  BY <1>6, <1>7, <1>10 DEF ListsAre, SameFrame, Scopes
<1>16. Uses(u)[n + 1] = 1 /\ Decls(u)[n + 1] = NoDecl /\ Links(u)[n + 1] = 0 /\ Len(u.vars) = n + 1
  <2>1. DOMAIN Links(u) = 1..(n + 1)
    BY <1>10 DEF Grown
  <2>2. Len(u.vars) \in Nat /\ 1..Len(u.vars) = 1..(n + 1)
    BY <1>10, <2>1, ViewsTyped
  <2>3. Len(u.vars) = n + 1
    BY <1>2, <2>2
  <2> QED
    BY <1>2, <1>10, <2>3 DEF Grown
<1> QED
  BY <1>2, <1>14, <1>15, <1>16 DEF UseFresh, u, b, a

--------------------------------------------------------------------------------
(* Declare *)

\* Scope s declares v as well, which it does not list yet.
LEMMA PlacedDeclared ==
    ASSUME NEW w \in WorldSet, NEW O, Placed(w, O), NEW s \in Scopes(w), NEW v \in Nat,
           v \notin Dec(w)[s], NEW l, l \in Seq(Nat), DifferentOf(Decls(w), l),
           s \in O => w.scopes[s].numArgUses <= Len(l),
           NEW u, ListsAre(w, u, s, Append(w.scopes[s].declared, v), l)
    PROVE  Placed(u, O) /\ Dec(u) = [Dec(w) EXCEPT ![s] = @ \cup {v}]
<1> DEFINE d == w.scopes[s].declared
           e == Append(d, v)
<1>1. /\ d \in Seq(Nat) /\ Dec(w)[s] = Elems(d) /\ Len(d) \in Nat /\ Different(d)
      /\ w.scopes[s].numForDecls \in Nat
  <2>1. w.scopes[s] \in ScopeSet
    BY WorldIs
  <2> QED
    BY <2>1, ListsTyped, LenProperties DEF Placed, Singles, ScopeSet
<1>2. /\ e \in Seq(Nat) /\ Len(e) = Len(d) + 1 /\ Elems(e) = Elems(d) \cup {v} /\ Different(e)
  BY <1>1, ElemsAppend
<1>3. s \in O => w.scopes[s].numForDecls <= Len(d)
  BY DEF Placed, Marks
<1>4. s \in O => w.scopes[s].numForDecls <= Len(e)
  BY <1>1, <1>2, <1>3
<1>5. ListsAre(w, u, s, e, l)
  OBVIOUS
<1> HIDE DEF e
<1>6. Placed(u, O)
  BY <1>2, <1>4, <1>5, PlacedLists
<1>7. Dec(u) = [Dec(w) EXCEPT ![s] = Elems(e)]
  BY <1>5, ListsViews
<1> QED
  BY <1>1, <1>2, <1>6, <1>7

DeclareFresh(w, s, decl, name) ==
    AddUses([NewVar(w, name, decl) EXCEPT !.scopes[s].declared = Append(@, Len(w.vars) + 1)],
            Len(w.vars) + 1, 1)

\* The declaration of a name that the scope does not know.
LEMMA DeclareNew ==
    ASSUME NEW w, NEW O, NEW p, Good(w, O, p), NEW s \in O, NEW name \in Names,
           NEW decl \in DeclSet, decl # NoDecl, 1 < UsesMod
    PROVE  LET u == DeclareFresh(w, s, decl, name)
               n == Len(w.vars) IN
           /\ Good(u, O, Append(p, n + 1))
           /\ SameFrame(w, u) /\ n \in Nat /\ n + 1 \in Vars(u)
           /\ n + 1 \in Dec(u)[s]
<1> DEFINE n == Len(w.vars)
           d == Append(w.scopes[s].declared, n + 1)
           l == w.scopes[s].undeclared
           a == NewVar(w, name, decl)
           b == [a EXCEPT !.scopes[s].declared = Append(@, n + 1)]
           u == AddUses(b, n + 1, 1)
<1>1. /\ w \in WorldSet /\ Listing(Links(w), Decls(w), Dec(w), Und(w), O) /\ Placed(w, O)
      /\ Counted(Links(w), Uses(w), p) /\ s \in Scopes(w)
  BY GoodIs DEF Placed
<1>2. /\ n \in Nat /\ DOMAIN Links(w) = 1..n /\ DOMAIN Uses(w) = 1..n /\ DOMAIN Decls(w) = 1..n
  BY <1>1, ViewsTyped
<1>3. VarsAre(w, a, Grown(Links(w), n, 0), Grown(Uses(w), n, 0), Grown(Decls(w), n, decl))
  BY <1>1, NewVarDone
<1>4. /\ l \in Seq(Nat) /\ w.scopes[s].declared \in Seq(Nat)
      /\ Dec(w)[s] = Elems(w.scopes[s].declared) /\ Und(w)[s] = Elems(l)
      /\ DOMAIN Dec(w) = Scopes(w) /\ DOMAIN Und(w) = Scopes(w)
  BY <1>1, ListsTyped
<1>5. d \in Seq(Nat) /\ n + 1 \in Nat
  BY <1>2, <1>4, AppendProperties
<1>6. /\ a \in WorldSet /\ a.scopes = w.scopes /\ Scopes(a) = Scopes(w)
      /\ Dec(a) = Dec(w) /\ Und(a) = Und(w)
  BY <1>3 DEF VarsAre, Scopes, Dec, Und
<1> HIDE DEF a
<1>7. ListsAre(a, b, s, d, l)
  <2> DEFINE r == [a.scopes[s] EXCEPT !.declared = d, !.undeclared = l]
  <2>1. a.scopes[s] \in ScopeSet /\ s \in Scopes(a)
    BY <1>1, <1>6, WorldIs
  <2>2. r = [a.scopes[s] EXCEPT !.declared = d]
    BY <1>6, <2>1 DEF ScopeSet
  <2>3. b = [a EXCEPT !.scopes = [a.scopes EXCEPT ![s] = r]]
    BY <1>6, <2>1, <2>2 DEF WorldSet
  <2> HIDE DEF r
  <2> QED
    BY <1>1, <1>4, <1>5, <1>6, <2>3, SetLists DEF r
<1> HIDE DEF b
<1>8. Placed(b, O) /\ Dec(b) = [Dec(w) EXCEPT ![s] = @ \cup {n + 1}]
  <2>1. ASSUME NEW t \in O, NEW x \in Und(w)[t], Decls(a)[x] = NoDecl
        PROVE  Decls(w)[x] = NoDecl
    <3>1. t \in Scopes(w) /\ x \in 1..n
      BY <1>1, ListsOld DEF Placed
    <3>2. x \in 1..(n + 1) /\ x # n + 1
      BY <1>2, <3>1
    <3> QED
      BY <1>3, <2>1, <3>1, <3>2 DEF VarsAre, Grown
  <2>2. Placed(a, O)
    BY <1>1, <1>6, <2>1, PlacedVars
  <2>3. n + 1 \notin Dec(a)[s]
    BY <1>1, <1>2, <1>6, ListsOld
  <2>4. DifferentOf(Decls(a), l) /\ a.scopes[s].numArgUses <= Len(l)
    BY <1>1, <1>6, <2>2 DEF Placed, Singles, Marks
  <2>5. ListsAre(a, b, s, Append(a.scopes[s].declared, n + 1), l) /\ s \in Scopes(a)
    BY <1>1, <1>6, <1>7
  <2> HIDE DEF l, n
  <2>6. Placed(b, O) /\ Dec(b) = [Dec(a) EXCEPT ![s] = @ \cup {n + 1}]
    BY <1>4, <1>5, <1>6, <2>2, <2>3, <2>4, <2>5, PlacedDeclared
  <2> QED
    BY <1>6, <2>6
<1>9. /\ b \in WorldSet /\ Vars(b) = 1..(n + 1) /\ Scopes(b) = Scopes(w)
      /\ Links(b) = Grown(Links(w), n, 0) /\ Uses(b) = Grown(Uses(w), n, 0)
      /\ Decls(b) = Grown(Decls(w), n, decl) /\ Und(b) = Und(w)
  <2>1. /\ Und(b) = [Und(a) EXCEPT ![s] = Elems(l)]
        /\ Links(b) = Links(a) /\ Uses(b) = Uses(a) /\ Decls(b) = Decls(a)
        /\ Vars(b) = Vars(a) /\ Scopes(b) = Scopes(a)
    BY <1>1, <1>6, <1>7, ListsViews
  <2>2. Und(b) = Und(w)
    <3>1. [Und(w) EXCEPT ![s] = Und(w)[s]] = Und(w)
      BY DEF Und
    <3> QED
      BY <1>4, <1>6, <2>1, <3>1
  <2>3. Vars(a) = 1..(n + 1)
    <3>1. DOMAIN Links(a) = 1..(n + 1)
      BY <1>3 DEF VarsAre, Grown
    <3> QED
      BY <3>1 DEF Links
  <2>4. b \in WorldSet
    BY <1>7 DEF ListsAre
  <2> QED
    BY <1>3, <1>6, <2>1, <2>2, <2>3, <2>4 DEF VarsAre
<1>10. VarsAre(b, u, Grown(Links(w), n, 0), Grown(Uses(w), n, 1), Grown(Decls(w), n, decl))
  <2>1. n + 1 \in Vars(b) /\ Uses(b)[n + 1] = 0 /\ Uses(b)[n + 1] + 1 < UsesMod
    BY <1>2, <1>9 DEF Grown
  <2>2. VarsAre(b, u, Links(b), [Uses(b) EXCEPT ![n + 1] = Uses(b)[n + 1] + 1], Decls(b))
    BY <1>9, <2>1, AddUsesDone
  <2>3. [Uses(b) EXCEPT ![n + 1] = Uses(b)[n + 1] + 1] = Grown(Uses(w), n, 1)
    BY <1>2, <1>9, <2>1, GrownLast
  <2> QED
    BY <1>9, <2>2, <2>3
<1> HIDE DEF u
<1>11. /\ u \in WorldSet /\ u.scopes = b.scopes
       /\ Links(u) = Grown(Links(w), n, 0) /\ Uses(u) = Grown(Uses(w), n, 1)
       /\ Decls(u) = Grown(Decls(w), n, decl)
       /\ Dec(u) = [Dec(w) EXCEPT ![s] = @ \cup {n + 1}] /\ Und(u) = Und(w)
  <2>1. u.scopes = b.scopes /\ Dec(u) = Dec(b) /\ Und(u) = Und(b)
    BY <1>10 DEF VarsAre, Dec, Und, Scopes
  <2> QED
    BY <1>8, <1>9, <1>10, <2>1 DEF VarsAre
<1>12. Listing(Links(u), Decls(u), Dec(u), Und(u), O)
  <2> HIDE DEF n
  <2>1. Listing(Grown(Links(w), n, 0), Grown(Decls(w), n, decl),
                [Dec(w) EXCEPT ![s] = @ \cup {n + 1}], Und(w), O)
    BY <1>1, <1>2, ListingFreshDec
  <2> QED
    BY <1>11, <2>1, Zenon
<1>13. Counted(Links(u), Uses(u), Append(p, n + 1))
  BY <1>1, <1>2, <1>11, CountedFresh
<1>14. Placed(u, O)
  <2>1. Decls(u) = Decls(b) /\ u.scopes = b.scopes
    BY <1>9, <1>11
  <2> QED
    BY <1>8, <1>9, <2>1, PlacedVars
<1>15. Good(u, O, Append(p, n + 1))
  BY <1>11, <1>12, <1>13, <1>14, GoodIs
<1>16. SameFrame(w, u)
  BY <1>6, <1>7, <1>11 DEF ListsAre, SameFrame, Scopes
<1>17. n + 1 \in Vars(u) /\ n + 1 \in Dec(u)[s]
  <2>1. DOMAIN Links(u) = 1..(n + 1)
    BY <1>11 DEF Grown
  <2>2. Vars(u) = 1..(n + 1)
    BY <2>1 DEF Links
  <2> QED
    BY <1>1, <1>2, <1>4, <1>11, <2>2
<1> QED
  BY <1>2, <1>15, <1>16, <1>17 DEF DeclareFresh, u, b, a

WithDecl(w, v, decl) == [w EXCEPT !.vars[v].decl = decl]

\* The declaration of a variable becomes another one.
LEMMA DeclChanged ==
    ASSUME NEW w, NEW O, NEW p, Good(w, O, p), NEW v \in Vars(w), Decls(w)[v] # NoDecl,
           NEW decl \in DeclSet, decl # NoDecl
    PROVE  LET u == WithDecl(w, v, decl) IN
           Good(u, O, p) /\ u.scopes = w.scopes /\ Vars(u) = Vars(w) /\ Dec(u) = Dec(w)
<1> DEFINE r == [w.vars[v] EXCEPT !.decl = decl]
           u == WithDecl(w, v, decl)
<1>1. /\ w \in WorldSet /\ Listing(Links(w), Decls(w), Dec(w), Und(w), O) /\ Placed(w, O)
      /\ Counted(Links(w), Uses(w), p)
  BY GoodIs
<1>2. w.vars[v] \in VarSet
  BY <1>1, WorldIs
<1>3. r \in VarSet /\ r.decl = decl /\ r.link = w.vars[v].link /\ r.uses = w.vars[v].uses
  BY <1>2 DEF VarSet
<1>4. u = [w EXCEPT !.vars = [w.vars EXCEPT ![v] = r]]
  BY <1>1 DEF WithDecl, WorldSet
<1> HIDE DEF r, u
<1>5. VarsAre(w, u, [Links(w) EXCEPT ![v] = r.link], [Uses(w) EXCEPT ![v] = r.uses],
              [Decls(w) EXCEPT ![v] = r.decl])
  BY <1>1, <1>3, <1>4, SetVar
<1>6. /\ [Links(w) EXCEPT ![v] = r.link] = Links(w)
      /\ [Uses(w) EXCEPT ![v] = r.uses] = Uses(w)
  BY <1>3, ViewsOf DEF Links, Uses
<1>7. /\ u \in WorldSet /\ u.scopes = w.scopes
      /\ Links(u) = Links(w) /\ Uses(u) = Uses(w) /\ Decls(u) = [Decls(w) EXCEPT ![v] = decl]
  BY <1>3, <1>5, <1>6 DEF VarsAre
<1>8. Dec(u) = Dec(w) /\ Und(u) = Und(w) /\ Vars(u) = Vars(w)
  <2>1. DOMAIN Links(u) = DOMAIN Links(w)
    BY <1>7
  <2> QED
    BY <1>7, <2>1 DEF Dec, Und, Scopes, Links
<1>9. Listing(Links(u), Decls(u), Dec(u), Und(u), O)
  <2>1. v \in DOMAIN Links(w)
    BY DEF Links
  <2>2. Listing(Links(w), [Decls(w) EXCEPT ![v] = decl], Dec(w), Und(w), O)
    BY <1>1, <2>1, ListingDecl
  <2> QED
    BY <1>7, <1>8, <2>2, Zenon
<1>10. Placed(u, O)
  <2>1. ASSUME NEW t \in O, NEW x \in Und(w)[t], Decls(u)[x] = NoDecl
        PROVE  Decls(w)[x] = NoDecl
    <3>1. t \in Scopes(w)
      BY <1>1 DEF Placed
    <3>2. x \in 1..Len(w.vars)
      BY <1>1, <3>1, ListsOld
    <3>3. DOMAIN Decls(w) = 1..Len(w.vars)
      BY <1>1, ViewsTyped
    <3> QED
      BY <1>7, <2>1, <3>2, <3>3
  <2>2. \A t \in O : \A x \in Und(w)[t] : Decls(u)[x] = NoDecl => Decls(w)[x] = NoDecl
    BY <2>1, Zenon
  <2>3. u.scopes = w.scopes
    BY <1>7
  <2> QED
    BY <1>1, <2>2, <2>3, PlacedVars
<1>11. Counted(Links(u), Uses(u), p)
  BY <1>1, <1>7
<1>12. Good(u, O, p)
  BY <1>7, <1>9, <1>10, <1>11, GoodIs
<1> QED
  BY <1>7, <1>8, <1>12 DEF u

\* The inner scopes T use variable v, which scope s declares.
LEMMA AddUndeclaredDone ==
    ASSUME NEW w, NEW O, NEW p, Good(w, O, p), NEW s \in O, NEW v \in Dec(w)[s],
           NEW cur, \A t \in Within(w, cur, s) : t \in O /\ s < t
    PROVE  LET u == AddUndeclared(w, cur, s, v) IN
           Good(u, O, p) /\ SameFrame(w, u) /\ Vars(u) = Vars(w)
<1> DEFINE T == Within(w, cur, s)
           u == AddUndeclared(w, cur, s, v)
           more(t) == [w.scopes[t] EXCEPT !.undeclared = AppendTo(@, v)]
           ss == [t \in DOMAIN w.scopes |-> IF t \in T THEN more(t) ELSE w.scopes[t]]
<1>1. /\ w \in WorldSet /\ Listing(Links(w), Decls(w), Dec(w), Und(w), O) /\ Placed(w, O)
      /\ Counted(Links(w), Uses(w), p) /\ s \in Scopes(w)
  BY GoodIs DEF Placed
<1>2. /\ \A t \in Scopes(w) : w.scopes[t] \in ScopeSet
      /\ DOMAIN w.scopes = Scopes(w) /\ Len(w.scopes) \in Nat /\ w.scopes \in Seq(ScopeSet)
  BY <1>1, WorldIs, LenProperties DEF Scopes
<1>3. v \in Nat /\ Decls(w)[v] # NoDecl
  <2>1. v \in 1..Len(w.vars)
    BY <1>1, ListsOld
  <2>2. DecHasDecl(Decls(w), Dec(w)) /\ s \in DOMAIN Dec(w)
    BY <1>1 DEF Listing, Dec
  <2> QED
    BY <2>1, <2>2 DEF DecHasDecl
<1>4. ASSUME NEW t \in Scopes(w)
      PROVE  LET l == w.scopes[t].undeclared IN
             /\ AppendTo(l, v) \in Seq(Nat) /\ Elems(AppendTo(l, v)) = Elems(l) \cup {v}
             /\ Len(AppendTo(l, v)) \in Nat /\ Len(l) \in Nat /\ Len(l) <= Len(AppendTo(l, v))
             /\ DifferentOf(Decls(w), l) => DifferentOf(Decls(w), AppendTo(l, v))
  <2> DEFINE l == w.scopes[t].undeclared
  <2>1. l \in Seq(Nat)
    BY <1>1, ListsTyped
  <2> HIDE DEF l
  <2>2. Range(l) = Elems(l) /\ Len(l) \in Nat
    BY <2>1, ElemsRange, LenProperties
  <2>3. CASE v \in Range(l)
    <3>1. AppendTo(l, v) = l
      BY <2>3, Zenon DEF AppendTo
    <3> QED
      BY <2>1, <2>2, <2>3, <3>1 DEF l
  <2>4. CASE v \notin Range(l)
    <3>1. AppendTo(l, v) = Append(l, v)
      BY <2>4, Zenon DEF AppendTo
    <3>2. v \in Nat /\ v \notin Elems(l)
      BY <1>3, <2>2, <2>4
    <3>3. /\ Append(l, v) \in Seq(Nat) /\ Len(Append(l, v)) = Len(l) + 1
          /\ Elems(Append(l, v)) = Elems(l) \cup {v}
          /\ DifferentOf(Decls(w), l) => DifferentOf(Decls(w), Append(l, v))
      BY <2>1, <3>2, ElemsAppend
    <3>4. Len(l) + 1 \in Nat /\ Len(l) <= Len(l) + 1
      BY <2>2
    <3> QED
      BY <2>2, <3>1, <3>3, <3>4 DEF l
  <2> QED
    BY <2>3, <2>4
<1>5. ASSUME NEW t \in Scopes(w)
      PROVE  /\ more(t) \in ScopeSet /\ SameMarks(w.scopes[t], more(t))
             /\ more(t).declared = w.scopes[t].declared
             /\ more(t).undeclared = AppendTo(w.scopes[t].undeclared, v)
  BY <1>2, <1>4 DEF ScopeSet, SameMarks
<1> HIDE DEF T, more
<1>6. /\ ss \in Seq(ScopeSet) /\ Len(ss) = Len(w.scopes)
      /\ \A t \in Scopes(w) : ss[t] = IF t \in T THEN more(t) ELSE w.scopes[t]
  <2>1. ss \in [1..Len(w.scopes) -> ScopeSet]
    BY <1>2, <1>5 DEF Scopes
  <2>2. ss \in Seq(ScopeSet)
    BY <1>2, <2>1, SeqDef
  <2>3. Len(ss) = Len(w.scopes)
    BY <1>2, <2>1, <2>2, LenProperties
  <2> QED
    BY <1>2, <2>2, <2>3
<1>7. u = [w EXCEPT !.scopes = ss]
  BY Zenon DEF AddUndeclared, T, more
<1> HIDE DEF ss, u
<1>8. u \in WorldSet /\ u.vars = w.vars /\ u.scopes = ss
  BY <1>1, <1>6, <1>7, SetScopes
<1>9. Scopes(u) = Scopes(w) /\ Vars(u) = Vars(w)
  BY <1>6, <1>8 DEF Scopes, Vars
<1>10. Links(u) = Links(w) /\ Uses(u) = Uses(w) /\ Decls(u) = Decls(w)
  BY <1>8, <1>9 DEF Links, Uses, Decls
<1>11. \A t \in Scopes(w) :
         /\ u.scopes[t].declared = w.scopes[t].declared
         /\ u.scopes[t].undeclared = IF t \in T THEN AppendTo(w.scopes[t].undeclared, v)
                                     ELSE w.scopes[t].undeclared
         /\ SameMarks(w.scopes[t], u.scopes[t])
  <2>1. \A t \in Scopes(w) : SameMarks(w.scopes[t], w.scopes[t])
    BY DEF SameMarks
  <2> QED
    BY <1>5, <1>6, <1>8, <2>1
<1>12. SameFrame(w, u)
  BY <1>6, <1>8, <1>11 DEF SameFrame
<1>13. Dec(u) = Dec(w)
  BY <1>9, <1>11 DEF Dec
<1>14. Und(u) = [t \in DOMAIN Und(w) |-> IF t \in T THEN Und(w)[t] \cup {v} ELSE Und(w)[t]]
  <2>1. \A t \in Scopes(w) : Elems(u.scopes[t].undeclared) = IF t \in T THEN Und(w)[t] \cup {v} ELSE Und(w)[t]
    BY <1>4, <1>11 DEF Und
  <2>2. DOMAIN Und(w) = Scopes(w)
    BY DEF Und
  <2> QED
    BY <1>9, <2>1, <2>2 DEF Und
<1>15. Listing(Links(u), Decls(u), Dec(u), Und(u), O)
  <2>1. \A t \in T : t \in O /\ s < t
    BY DEF T
  <2>2. Listing(Links(w), Decls(w), Dec(w),
                [t \in DOMAIN Und(w) |-> IF t \in T THEN Und(w)[t] \cup {v} ELSE Und(w)[t]], O)
    BY <1>1, <2>1, ListingAlsoUsed
  <2> QED
    BY <1>10, <1>13, <1>14, <2>2, Zenon
<1>16. Placed(u, O)
  <2>1. \A t \in Scopes(u) : Different(u.scopes[t].declared)
    BY <1>1, <1>9, <1>11 DEF Placed, Singles
  <2>2. \A t \in O : t \in Scopes(w) /\ DifferentOf(Decls(w), w.scopes[t].undeclared)
    BY <1>1 DEF Placed, Singles
  <2>3. \A t \in O : DifferentOf(Decls(u), u.scopes[t].undeclared)
    BY <1>4, <1>10, <1>11, <2>2
  <2>4. ASSUME NEW t \in O
        PROVE  /\ u.scopes[t].numForDecls <= Len(u.scopes[t].declared)
               /\ u.scopes[t].numArgUses <= Len(u.scopes[t].undeclared)
    <3>1. t \in Scopes(w) /\ w.scopes[t] \in ScopeSet
      BY <1>2, <2>2
    <3>2. /\ w.scopes[t].numForDecls <= Len(w.scopes[t].declared)
          /\ w.scopes[t].numArgUses <= Len(w.scopes[t].undeclared)
          /\ w.scopes[t].numArgUses \in Nat
      BY <1>1, <3>1 DEF Placed, Marks, ScopeSet
    <3>3. /\ u.scopes[t].numForDecls = w.scopes[t].numForDecls
          /\ u.scopes[t].numArgUses = w.scopes[t].numArgUses
      BY <1>11, <3>1 DEF SameMarks
    <3>4. w.scopes[t].numArgUses <= Len(AppendTo(w.scopes[t].undeclared, v))
      BY <1>4, <3>1, <3>2
    <3> QED
      BY <1>11, <3>1, <3>2, <3>3, <3>4
  <2> QED
    BY <1>1, <1>9, <2>1, <2>3, <2>4 DEF Placed, Singles, Marks
<1>17. Good(u, O, p)
  BY <1>1, <1>8, <1>10, <1>15, <1>16, GoodIs
<1> QED
  BY <1>9, <1>12, <1>17 DEF u

TakenOver(w, s, decl, i) ==
    LET v == w.scopes[s].undeclared[i]
        w1 == [w EXCEPT !.vars[v].decl = decl, !.scopes[s].undeclared = RemoveAt(@, i)]
    IN  [w1 EXCEPT !.scopes[s].declared = Append(@, v)]

WithLists(w, s, d, l) ==
    [w EXCEPT !.scopes = [w.scopes EXCEPT ![s] = [w.scopes[s] EXCEPT !.declared = d, !.undeclared = l]]]

\* Two lists of a scope that are set one after the other.
LEMMA TakenOverIs ==
    ASSUME NEW w \in WorldSet, NEW s \in Scopes(w), NEW decl, NEW i
    PROVE  LET v == w.scopes[s].undeclared[i] IN
           TakenOver(w, s, decl, i)
             = WithLists(WithDecl(w, v, decl), s, Append(w.scopes[s].declared, v),
                         RemoveAt(w.scopes[s].undeclared, i))
<1> DEFINE x == w.scopes[s].undeclared[i]
           v == x
           l == RemoveAt(w.scopes[s].undeclared, i)
           vs == [w.vars EXCEPT ![v].decl = decl]
           r == [w.scopes[s] EXCEPT !.undeclared = l]
           q == [w.scopes[s] EXCEPT !.declared = Append(w.scopes[s].declared, x), !.undeclared = l]
           a == [w EXCEPT !.vars[v].decl = decl]
           b == [w EXCEPT !.vars[v].decl = decl, !.scopes[s].undeclared = l]
<1>1. w.scopes[s] \in ScopeSet /\ DOMAIN w.scopes = Scopes(w) /\ s \in DOMAIN w.scopes
  BY WorldIs, LenProperties DEF Scopes
<1>a. w = [vars |-> w.vars, scopes |-> w.scopes]
  BY DEF WorldSet
<1>b. a = [w EXCEPT !.vars = vs]
  BY DEF WorldSet
<1>2. a = [vars |-> vs, scopes |-> w.scopes]
  <2> HIDE DEF vs, a
  <2> QED
    BY <1>a, <1>b
<1>3. b = [vars |-> vs, scopes |-> [w.scopes EXCEPT ![s] = r]]
  <2>1. b = [w EXCEPT !.vars = vs, !.scopes = [w.scopes EXCEPT ![s] = r]]
    BY DEF WorldSet
  <2> HIDE DEF vs, b, r
  <2> QED
    BY <1>a, <2>1
<1>4. r.declared = w.scopes[s].declared /\ [r EXCEPT !.declared = Append(w.scopes[s].declared, x)] = q
  BY <1>1 DEF ScopeSet
<1> HIDE DEF vs, r, q, a, b
<1> HIDE DEF x, l
<1>5. [b EXCEPT !.scopes[s].declared = Append(@, x)]
        = [vars |-> vs, scopes |-> [w.scopes EXCEPT ![s] = q]]
  BY <1>1, <1>3, <1>4
<1>6. [a EXCEPT !.scopes = [a.scopes EXCEPT ![s] =
                   [a.scopes[s] EXCEPT !.declared = Append(w.scopes[s].declared, x), !.undeclared = l]]]
       = [vars |-> vs, scopes |-> [w.scopes EXCEPT ![s] = q]]
  BY <1>2 DEF q
<1>7. TakenOver(w, s, decl, i) = [b EXCEPT !.scopes[s].declared = Append(@, x)]
  BY Zenon DEF TakenOver, b, l, x
<1>8. TakenOver(w, s, decl, i)
       = [a EXCEPT !.scopes = [a.scopes EXCEPT ![s] =
                   [a.scopes[s] EXCEPT !.declared = Append(w.scopes[s].declared, x), !.undeclared = l]]]
  BY <1>5, <1>6, <1>7, Zenon
<1> QED
  BY <1>8, Zenon DEF WithLists, WithDecl, a, x, l

\* The declaration of a variable that the scope has used before.
LEMMA DeclareTaken ==
    ASSUME NEW w, NEW O, NEW p, Good(w, O, p), NEW s \in O, NEW name,
           NEW decl \in DeclSet, decl # NoDecl, NEW i \in UsedBefore(w, s, decl, name)
    PROVE  LET u == TakenOver(w, s, decl, i)
               v == w.scopes[s].undeclared[i] IN
           Good(u, O, p) /\ SameFrame(w, u) /\ v \in Dec(u)[s] /\ v \in Vars(u)
<1> DEFINE l0 == w.scopes[s].undeclared
           v == l0[i]
           d == Append(w.scopes[s].declared, v)
           l == RemoveAt(l0, i)
           r == [w.vars[v] EXCEPT !.decl = decl]
           a == WithDecl(w, v, decl)
           u == TakenOver(w, s, decl, i)
<1>1. /\ w \in WorldSet /\ Listing(Links(w), Decls(w), Dec(w), Und(w), O) /\ Placed(w, O)
      /\ Counted(Links(w), Uses(w), p) /\ s \in Scopes(w)
  BY GoodIs DEF Placed
<1>2. /\ l0 \in Seq(Nat) /\ Len(l0) \in Nat /\ DOMAIN l0 = 1..Len(l0)
      /\ w.scopes[s].declared \in Seq(Nat) /\ Und(w)[s] = Elems(l0)
      /\ Dec(w)[s] = Elems(w.scopes[s].declared)
      /\ DOMAIN Dec(w) = Scopes(w) /\ DOMAIN Und(w) = Scopes(w)
  BY <1>1, ListsTyped, LenProperties
<1>3. i \in 1..Len(l0) /\ i > w.scopes[s].numArgUses /\ w.vars[v].decl = NoDecl
  BY <1>2 DEF UsedBefore, Named
<1>4. v \in Und(w)[s] /\ v \in Vars(w) /\ v \in Nat
  <2>1. v \in Elems(l0)
    BY <1>3, ElemsAre
  <2>2. v \in 1..Len(w.vars)
    BY <1>1, <1>2, <2>1, ListsOld
  <2> QED
    BY <1>2, <2>1, <2>2 DEF Vars
<1>5. Decls(w)[v] = NoDecl
  BY <1>3, <1>4, ViewsOf
<1>6. \A t \in Scopes(w) : v \notin Dec(w)[t]
  BY <1>1, <1>2, <1>5 DEF Listing, DecHasDecl
<1>7. DifferentOf(Decls(w), l0)
  BY <1>1 DEF Placed, Singles
<1>8. /\ l \in Seq(Nat) /\ Len(l) = Len(l0) - 1 /\ Elems(l) = Elems(l0) \ {v}
      /\ DifferentOf(Decls(w), l)
  BY <1>2, <1>3, <1>5, <1>7, ElemsRemove
<1>9. d \in Seq(Nat)
  BY <1>2, <1>4, AppendProperties
<1>10. w.vars[v] \in VarSet
  BY <1>1, <1>4, WorldIs
<1>11. r \in VarSet /\ r.decl = decl /\ r.link = w.vars[v].link /\ r.uses = w.vars[v].uses
  BY <1>10 DEF VarSet
<1>12. a = [w EXCEPT !.vars = [w.vars EXCEPT ![v] = r]]
  BY <1>1 DEF WithDecl, WorldSet
<1>13. u = WithLists(a, s, d, l)
  BY <1>1, TakenOverIs, Zenon
<1> HIDE DEF r, a, u, l, d
<1>14. VarsAre(w, a, [Links(w) EXCEPT ![v] = r.link], [Uses(w) EXCEPT ![v] = r.uses],
              [Decls(w) EXCEPT ![v] = r.decl])
  BY <1>1, <1>4, <1>11, <1>12, SetVar
<1>15. /\ [Links(w) EXCEPT ![v] = r.link] = Links(w)
      /\ [Uses(w) EXCEPT ![v] = r.uses] = Uses(w)
  BY <1>4, <1>11, ViewsOf DEF Links, Uses
<1>16. /\ a \in WorldSet /\ a.scopes = w.scopes /\ Scopes(a) = Scopes(w)
       /\ Links(a) = Links(w) /\ Uses(a) = Uses(w) /\ Decls(a) = [Decls(w) EXCEPT ![v] = decl]
       /\ Dec(a) = Dec(w) /\ Und(a) = Und(w)
  BY <1>11, <1>14, <1>15 DEF VarsAre, Scopes, Dec, Und
<1>17. \A x \in Vars(w) : Decls(a)[x] = NoDecl => Decls(w)[x] = NoDecl
  <2>1. DOMAIN Decls(w) = Vars(w)
    BY DEF Decls
  <2> QED
    BY <1>16, <2>1
<1>18. Placed(a, O)
  <2>1. \A t \in O : \A x \in Und(w)[t] : x \in Vars(w)
    BY <1>1, ListsOld DEF Placed, Vars
  <2>2. \A t \in O : \A x \in Und(w)[t] : Decls(a)[x] = NoDecl => Decls(w)[x] = NoDecl
    BY <1>17, <2>1
  <2>3. a.scopes = w.scopes
    BY <1>16
  <2> HIDE DEF v, l0
  <2> QED
    BY <1>1, <2>2, <2>3, PlacedVars
<1>19. ListsAre(a, u, s, d, l)
  BY <1>1, <1>8, <1>9, <1>13, <1>16, SetLists DEF WithLists
<1>20. DifferentOf(Decls(a), l)
  <2>1. \A j \in 1..Len(l) : l[j] \in Vars(w)
    <3>1. \A j \in 1..Len(l) : l[j] \in Elems(l0)
      BY <1>8, ElemsAre
    <3> QED
      BY <1>1, <1>2, <3>1, ListsOld DEF Vars
  <2> QED
    BY <1>8, <1>17, <2>1 DEF DifferentOf
<1>21. Placed(u, O) /\ Dec(u) = [Dec(a) EXCEPT ![s] = @ \cup {v}]
  <2>1. ListsAre(a, u, s, Append(a.scopes[s].declared, v), l) /\ s \in Scopes(a)
    BY <1>1, <1>16, <1>19 DEF d
  <2>2. a.scopes[s].numArgUses <= Len(l)
    <3>1. w.scopes[s].numArgUses \in Nat
      <4>1. w.scopes[s] \in ScopeSet
        BY <1>1, WorldIs
      <4> QED
        BY <4>1 DEF ScopeSet
    <3> DEFINE k == w.scopes[s].numArgUses
    <3>2. i \in 1..Len(l0) /\ i > k /\ Len(l0) \in Nat /\ Len(l) = Len(l0) - 1 /\ k \in Nat
      BY <1>2, <1>3, <1>8, <3>1
    <3> HIDE DEF k, l0
    <3>3. k <= Len(l)
      BY <3>2
    <3> QED
      BY <1>16, <3>3 DEF k
  <2>3. v \notin Dec(a)[s]
    BY <1>1, <1>6, <1>16
  <2>4. a \in WorldSet /\ l \in Seq(Nat) /\ v \in Nat
    BY <1>4, <1>8, <1>16
  <2> HIDE DEF v, l0
  <2> QED
    BY <1>18, <1>20, <2>1, <2>2, <2>3, <2>4, PlacedDeclared
<1>22. /\ u \in WorldSet /\ Links(u) = Links(w) /\ Uses(u) = Uses(w)
       /\ Decls(u) = [Decls(w) EXCEPT ![v] = decl]
       /\ Dec(u) = [Dec(w) EXCEPT ![s] = @ \cup {v}] /\ Und(u) = [Und(w) EXCEPT ![s] = @ \ {v}]
       /\ Vars(u) = Vars(w)
  <2>1. /\ Und(u) = [Und(a) EXCEPT ![s] = Elems(l)] /\ Vars(u) = Vars(a)
        /\ Links(u) = Links(a) /\ Uses(u) = Uses(a) /\ Decls(u) = Decls(a)
    BY <1>1, <1>16, <1>19, ListsViews
  <2>2. Und(u) = [Und(w) EXCEPT ![s] = @ \ {v}]
    BY <1>2, <1>8, <1>16, <2>1
  <2>3. Vars(a) = Vars(w)
    <3>1. DOMAIN Links(a) = DOMAIN Links(w)
      BY <1>16
    <3> QED
      BY <3>1 DEF Links
  <2> QED
    BY <1>16, <1>19, <1>21, <2>1, <2>2, <2>3 DEF ListsAre
<1> HIDE DEF v
<1>23. Listing(Links(u), Decls(u), Dec(u), Und(u), O)
  <2>1. Listing(Links(w), [Decls(w) EXCEPT ![v] = decl], [Dec(w) EXCEPT ![s] = @ \cup {v}],
                [Und(w) EXCEPT ![s] = @ \ {v}], O)
    BY <1>1, <1>4, <1>5, ListingTaken
  <2> QED
    BY <1>22, <2>1, Zenon
<1>24. Good(u, O, p)
  <2>1. Counted(Links(u), Uses(u), p)
    BY <1>1, <1>22
  <2> QED
    BY <1>21, <1>22, <1>23, <2>1, GoodIs
<1>25. SameFrame(w, u) /\ v \in Dec(u)[s] /\ v \in Vars(u)
  BY <1>1, <1>2, <1>4, <1>16, <1>19, <1>22 DEF ListsAre, SameFrame, Scopes
<1> QED
  BY <1>24, <1>25 DEF u, v

\* The scope that a declaration in scope cur is for.
Place(w, cur, decl) == IF Hoisted(decl) THEN w.scopes[cur].func ELSE cur

DeclaredAgain(w, v, decl) ==
    [AddUses(w, v, 1) EXCEPT !.vars[v].decl = IF @ = ExprDecl THEN decl ELSE @]

\* The four ways Declare goes.
LEMMA DeclareIs ==
    ASSUME NEW w, NEW cur, NEW decl, NEW name
    PROVE  LET s == Place(w, cur, decl)
               old == FindDeclared(w, s, name, TRUE)
               reused == UsedBefore(w, s, decl, name)
               taken == w.scopes[s].undeclared[Min(reused)]
               fresh == Len(w.vars) + 1
               r == Declare(w, cur, decl, name) IN
           \/ (Within(w, cur, s) # {} \/ old # 0) /\ r = [w |-> w, v |-> 0]
           \/ old # 0 /\ r = [w |-> AddUndeclared(DeclaredAgain(w, old, decl), cur, s, old), v |-> old]
           \/ reused = {} /\ r = [w |-> AddUndeclared(DeclareFresh(w, s, decl, name), cur, s, fresh),
                                  v |-> fresh]
           \/ reused # {} /\ r = [w |-> AddUndeclared(AddUses(TakenOver(w, s, decl, Min(reused)), taken, 1),
                                                      cur, s, taken),
                                  v |-> taken]
<1> DEFINE s == Place(w, cur, decl)
           old == FindDeclared(w, s, name, TRUE)
           reused == UsedBefore(w, s, decl, name)
           taken == w.scopes[s].undeclared[Min(reused)]
           fresh == Len(w.vars) + 1
           shadowed == \E t \in Within(w, cur, s) :
                           LET v == FindDeclared(w, t, name, FALSE)
                           IN  v # 0 /\ w.vars[v].decl \notin {decl, CatchDecl}
           clash == /\ old # 0 /\ w.vars[old].decl # ExprDecl
                    /\ ArgumentDecl < w.vars[old].decl \/ FunctionDecl < decl
           r == Declare(w, cur, decl, name)
           again == [w |-> AddUndeclared(DeclaredAgain(w, old, decl), cur, s, old), v |-> old]
           new(v) == LET w1 == IF reused = {} THEN NewVar(w, name, decl)
                               ELSE [w EXCEPT !.vars[taken].decl = decl,
                                              !.scopes[s].undeclared = RemoveAt(@, Min(reused))]
                         w2 == [w1 EXCEPT !.scopes[s].declared = Append(@, v)]
                     IN  [w |-> AddUndeclared(AddUses(w2, v, 1), cur, s, v), v |-> v]
           last == new(IF reused = {} THEN fresh ELSE taken)
<1>1. r = IF shadowed \/ clash THEN [w |-> w, v |-> 0] ELSE IF old # 0 THEN again ELSE last
  BY Zenon DEF Declare, Place, DeclaredAgain
<1>2. reused = {} => last = [w |-> AddUndeclared(DeclareFresh(w, s, decl, name), cur, s, fresh), v |-> fresh]
  BY Zenon DEF DeclareFresh
<1>3. reused # {} => last = [w |-> AddUndeclared(AddUses(TakenOver(w, s, decl, Min(reused)), taken, 1),
                                                 cur, s, taken), v |-> taken]
  BY Zenon DEF TakenOver
<1>4. shadowed => Within(w, cur, s) # {}
  OBVIOUS
<1>5. clash => old # 0
  OBVIOUS
<1> HIDE DEF s, old, reused, taken, fresh, shadowed, clash, r, again, last
<1>6. \/ (Within(w, cur, s) # {} \/ old # 0) /\ r = [w |-> w, v |-> 0]
      \/ old # 0 /\ r = again
      \/ reused = {} /\ r = last
      \/ reused # {} /\ r = last
  BY <1>1, <1>4, <1>5, Zenon
<1> QED
  BY <1>2, <1>3, <1>6, Zenon DEF s, old, reused, taken, fresh, r, again

\* Scopes with the same parents.
LEMMA FrameWithin ==
    ASSUME NEW w, NEW u, Rooted(w), SameFrame(w, u)
    PROVE  /\ Rooted(u) /\ Scopes(u) = Scopes(w)
           /\ \A s \in 0..Len(w.scopes), e \in Nat : Within(u, s, e) = Within(w, s, e)
<1>1. Scopes(u) = Scopes(w) /\ Len(u.scopes) = Len(w.scopes) /\ Len(w.scopes) \in Nat
  BY DEF SameFrame, Scopes, Rooted
<1>2. Parents(u) = Parents(w)
  BY <1>1 DEF SameFrame, SameMarks, Parents
<1>3. Rooted(u)
  BY <1>1, <1>2, Zenon DEF Rooted
<1>4. ASSUME NEW s \in 0..Len(w.scopes), NEW e \in Nat PROVE Within(u, s, e) = Within(w, s, e)
  <2>1. s \in Nat /\ s <= Len(w.scopes) /\ s <= Len(u.scopes)
    BY <1>1
  <2>2. AgreeFrom(1, s, Parents(w), Parents(u))
    BY <1>2 DEF AgreeFrom
  <2> QED
    BY <1>3, <2>1, <2>2, WithinSame, Zenon
<1> QED
  BY <1>1, <1>3, <1>4

LEMMA SameFrameTwice ==
    ASSUME NEW a, NEW b, NEW c, SameFrame(a, b), SameFrame(b, c)
    PROVE  SameFrame(a, c)
  BY DEF SameFrame, SameMarks, Scopes

\* Declare refuses the name, and nothing changes, or all is in order for one
\* identifier more.
LEMMA DeclareDone ==
    ASSUME NEW w, NEW p, NEW cur \in Scopes(w), Rooted(w), Good(w, Within(w, cur, 0), p),
           NEW decl \in DeclSet, decl # NoDecl, Place(w, cur, decl) \in Within(w, cur, 0),
           NEW name \in Names, Len(p) + 1 < UsesMod
    PROVE  LET r == Declare(w, cur, decl, name) IN
           \/ r.v = 0 /\ r.w = w
           \/ /\ r.v \in Vars(r.w) /\ SameFrame(w, r.w)
              /\ Good(r.w, Within(w, cur, 0), Append(p, r.v))
<1> DEFINE O == Within(w, cur, 0)
           s == Place(w, cur, decl)
           old == FindDeclared(w, s, name, TRUE)
           reused == UsedBefore(w, s, decl, name)
           taken == w.scopes[s].undeclared[Min(reused)]
           fresh == Len(w.vars) + 1
           r == Declare(w, cur, decl, name)
<1> SUFFICES \/ r.v = 0 /\ r.w = w
             \/ r.v \in Vars(r.w) /\ SameFrame(w, r.w) /\ Good(r.w, O, Append(p, r.v))
  OBVIOUS
<1> HIDE DEF O, s, old, reused, taken, fresh, r
<1>1. Good(w, O, p) /\ s \in O /\ w \in WorldSet /\ s \in Scopes(w) /\ O \subseteq Scopes(w)
  <2>1. Good(w, O, p) /\ s \in O
    BY DEF O, s
  <2> QED
    BY <2>1, GoodIs DEF Placed
<1>2. Len(p) \in Nat /\ 1 < UsesMod
  <2>1. Len(p) \in Nat
    BY <1>1, LenProperties DEF Good, Counted
  <2> QED
    BY <2>1, JSScopeAssumption
<1>3. cur \in 0..Len(w.scopes) /\ s \in Nat /\ 0 \in Nat /\ Len(w.scopes) \in Nat
  BY <1>1 DEF Scopes, Rooted
<1>4. ASSUME NEW u, NEW v \in Vars(u), Good(u, O, Append(p, v)), SameFrame(w, u), v \in Dec(u)[s],
             r = [w |-> AddUndeclared(u, cur, s, v), v |-> v]
      PROVE  /\ r.v \in Vars(r.w) /\ SameFrame(w, r.w) /\ Good(r.w, O, Append(p, r.v))
  <2>1. Within(u, cur, s) = Within(w, cur, s)
    BY <1>3, <1>4, FrameWithin
  <2>2. \A t \in Within(w, cur, s) : t \in O /\ s < t
    BY <1>3, WithinInside, Zenon DEF O
  <2> DEFINE x == AddUndeclared(u, cur, s, v)
  <2> HIDE DEF x
  <2>3. Good(x, O, Append(p, v)) /\ SameFrame(u, x) /\ Vars(x) = Vars(u)
    <3>1. \A t \in Within(u, cur, s) : t \in O /\ s < t
      BY <2>1, <2>2
    <3> QED
      BY <1>1, <1>4, <3>1, AddUndeclaredDone DEF x
  <2>4. SameFrame(w, x)
    BY <1>4, <2>3, SameFrameTwice, Zenon
  <2>5. r.w = x /\ r.v = v
    BY <1>4 DEF x
  <2> QED
    BY <1>4, <2>3, <2>4, <2>5
<1>5. CASE r = [w |-> w, v |-> 0]
  BY <1>5 DEF r
<1>6. CASE old # 0 /\ r = [w |-> AddUndeclared(DeclaredAgain(w, old, decl), cur, s, old), v |-> old]
  <2> DEFINE a == AddUses(w, old, 1)
             d == IF a.vars[old].decl = ExprDecl THEN decl ELSE a.vars[old].decl
             u == DeclaredAgain(w, old, decl)
  <2> HIDE DEF a, d, u
  <2>1. old \in Dec(w)[s]
    BY <1>1, <1>6, FoundDeclared DEF old
  <2>2. old \in Vars(w) /\ Decls(w)[old] # NoDecl
    <3>1. DecHasDecl(Decls(w), Dec(w)) /\ s \in DOMAIN Dec(w)
      BY <1>1 DEF Good, Listing, Dec
    <3> QED
      BY <1>1, <2>1, <3>1, KnownUnlinked DEF DecHasDecl
  <2>3. VarsAre(w, a, Links(w), [Uses(w) EXCEPT ![old] = Uses(w)[old] + 1], Decls(w))
    BY <1>1, <2>1, UseOld DEF a
  <2>4. Good(a, O, Append(p, old))
    BY <1>1, <2>1, UseOld DEF a
  <2>5. Decls(a) = Decls(w) /\ a.scopes = w.scopes /\ a \in WorldSet /\ Links(a) = Links(w)
    BY <2>3 DEF VarsAre
  <2>6. Vars(a) = Vars(w)
    BY <2>5 DEF Links
  <2>7. a.vars[old].decl = Decls(w)[old] /\ a.vars[old].decl \in DeclSet
    <3>1. a.vars[old] \in VarSet
      BY <2>2, <2>5, <2>6, WorldIs
    <3> QED
      BY <2>2, <2>5, <2>6, <3>1, ViewsOf DEF VarSet
  <2>8. d \in DeclSet /\ d # NoDecl
    BY <2>2, <2>7 DEF d
  <2>9. u = WithDecl(a, old, d)
    BY Zenon DEF u, a, d, DeclaredAgain, WithDecl
  <2>10. Good(u, O, Append(p, old)) /\ u.scopes = a.scopes /\ Vars(u) = Vars(a) /\ Dec(u) = Dec(a)
    BY <2>2, <2>4, <2>5, <2>6, <2>8, <2>9, DeclChanged
  <2>11. SameFrame(w, u)
    BY <2>5, <2>10 DEF SameFrame, SameMarks, Scopes
  <2>12. old \in Dec(u)[s]
    BY <1>1, <2>1, <2>5, <2>10 DEF Dec, Scopes
  <2>13. r = [w |-> AddUndeclared(u, cur, s, old), v |-> old]
    BY <1>6 DEF u
  <2> QED
    BY <1>4, <2>2, <2>6, <2>10, <2>11, <2>12, <2>13
<1>7. CASE reused = {} /\ r = [w |-> AddUndeclared(DeclareFresh(w, s, decl, name), cur, s, fresh), v |-> fresh]
  <2> DEFINE u == DeclareFresh(w, s, decl, name)
  <2>1. Good(u, O, Append(p, fresh)) /\ SameFrame(w, u) /\ fresh \in Vars(u) /\ fresh \in Dec(u)[s]
    <3> HIDE DEF u
    <3> QED
      BY <1>1, <1>2, DeclareNew DEF u, fresh
  <2>2. r = [w |-> AddUndeclared(u, cur, s, fresh), v |-> fresh]
    BY <1>7
  <2> HIDE DEF u
  <2> QED
    BY <1>4, <2>1, <2>2
<1>8. CASE reused # {} /\ r = [w |-> AddUndeclared(AddUses(TakenOver(w, s, decl, Min(reused)), taken, 1),
                                                   cur, s, taken), v |-> taken]
  <2> DEFINE a == TakenOver(w, s, decl, Min(reused))
             u == AddUses(a, taken, 1)
  <2> HIDE DEF a, u
  <2>1. Min(reused) \in reused
    <3> DEFINE l == w.scopes[s].undeclared
    <3>1. DOMAIN l = 1..Len(l) /\ Len(l) \in Nat
      BY <1>1, ListsTyped, LenProperties
    <3>2. reused \in SUBSET (1..Len(l))
      BY <3>1 DEF reused, UsedBefore, Named
    <3> QED
      BY <1>8, <3>1, <3>2, GreatestPlace
  <2>2. Good(a, O, p) /\ SameFrame(w, a) /\ taken \in Dec(a)[s] /\ taken \in Vars(a)
    BY <1>1, <2>1, DeclareTaken DEF a, taken, reused
  <2>3. /\ VarsAre(a, u, Links(a), [Uses(a) EXCEPT ![taken] = Uses(a)[taken] + 1], Decls(a))
        /\ Good(u, O, Append(p, taken))
    BY <1>1, <2>2, UseOld DEF u
  <2>4. u.scopes = a.scopes /\ Vars(u) = Vars(a)
    <3>1. Links(u) = Links(a)
      BY <2>3 DEF VarsAre
    <3> QED
      BY <2>3, <3>1 DEF VarsAre, Links
  <2>5. Dec(u) = Dec(a) /\ SameFrame(w, u)
    BY <2>2, <2>4 DEF Dec, Scopes, SameFrame
  <2>6. r = [w |-> AddUndeclared(u, cur, s, taken), v |-> taken]
    BY <1>8 DEF u, a
  <2> QED
    BY <1>4, <2>2, <2>3, <2>4, <2>5, <2>6
<1>9. \/ (Within(w, cur, s) # {} \/ old # 0) /\ r = [w |-> w, v |-> 0]
      \/ old # 0 /\ r = [w |-> AddUndeclared(DeclaredAgain(w, old, decl), cur, s, old), v |-> old]
      \/ reused = {} /\ r = [w |-> AddUndeclared(DeclareFresh(w, s, decl, name), cur, s, fresh),
                             v |-> fresh]
      \/ reused # {} /\ r = [w |-> AddUndeclared(AddUses(TakenOver(w, s, decl, Min(reused)), taken, 1),
                                                 cur, s, taken),
                             v |-> taken]
  BY DeclareIs, Zenon DEF r, s, old, reused, taken, fresh
<1> QED
  BY <1>5, <1>6, <1>7, <1>8, <1>9, Zenon

--------------------------------------------------------------------------------
(* MergeUp *)

\* Good, but for what scope s declares: only the variables R count.
GoodBut(w, s, R, O, p) ==
    /\ w \in WorldSet
    /\ Listing(Links(w), Decls(w), [Dec(w) EXCEPT ![s] = R], Und(w), O)
    /\ Placed(w, O)
    /\ Counted(Links(w), Uses(w), p)

LooseBut(w, s, R, O, v) == Loose([Dec(w) EXCEPT ![s] = R], Und(w), O, s, v)

\* What the parts of GoodBut say of one variable of an open scope.
LEMMA ButKnown ==
    ASSUME NEW w, NEW s, NEW R, NEW O, NEW p, GoodBut(w, s, R, O, p), s \in Scopes(w), s \notin O,
           NEW P \in O, NEW t \in Dec(w)[P] \cup Und(w)[P]
    PROVE  t \in Vars(w) /\ Links(w)[t] = 0
<1> DEFINE D == [Dec(w) EXCEPT ![s] = R]
<1>1. /\ Ranged(Links(w), D, Und(w)) /\ Unlinked(Links(w), D, Und(w), O) /\ P \in DOMAIN D
  BY DEF GoodBut, Listing
<1>2. D[P] = Dec(w)[P] /\ DOMAIN Links(w) = Vars(w)
  BY <1>1 DEF Links
<1> HIDE DEF D
<1> QED
  BY <1>1, <1>2 DEF Ranged, Unlinked

LinkedTo(w, t, v) == [AddUses(w, t, w.vars[v].uses) EXCEPT !.vars[v].link = t]

LinkedDone(w, u, s, R, O, p, t, v) ==
    /\ GoodBut(u, s, R \ {v}, O, p) /\ u.scopes = w.scopes
    /\ Links(u) = [Links(w) EXCEPT ![v] = t] /\ Decls(u) = Decls(w) /\ u.vars[v].link = t

\* The variable of an inner scope whose name its parent P knows as t.
LEMMA MergeLinked ==
    ASSUME NEW w, NEW s \in Scopes(w), NEW R, NEW O, NEW p, GoodBut(w, s, R, O, p), s \notin O,
           Len(p) < UsesMod, NEW P \in O, NEW t \in Dec(w)[P] \cup Und(w)[P],
           NEW v \in Vars(w), Links(w)[v] = 0, LooseBut(w, s, R, O, v)
    PROVE  LinkedDone(w, LinkedTo(w, t, v), s, R, O, p, t, v)
<1> DEFINE D == [Dec(w) EXCEPT ![s] = R]
           n == w.vars[v].uses
           a == AddUses(w, t, n)
           r == [a.vars[v] EXCEPT !.link = t]
           u == LinkedTo(w, t, v)
<1>1. /\ w \in WorldSet /\ Listing(Links(w), Decls(w), D, Und(w), O) /\ Placed(w, O)
      /\ Counted(Links(w), Uses(w), p)
  BY DEF GoodBut
<1>2. t \in Vars(w) /\ Links(w)[t] = 0 /\ P \in Scopes(w)
  BY <1>1, ButKnown DEF Placed
<1>3. t # v
  <2>1. D[P] = Dec(w)[P] /\ P \in DOMAIN D
    BY <1>2 DEF Dec
  <2>2. t \in D[P] \/ t \in Und(w)[P]
    BY <2>1
  <2>3. Loose(D, Und(w), O, s, v)
    BY DEF LooseBut
  <2> HIDE DEF D
  <2> QED
    BY <2>1, <2>2, <2>3 DEF Loose
<1>4. DOMAIN Links(w) = Vars(w) /\ DOMAIN Uses(w) = Vars(w) /\ t # 0
  BY <1>2 DEF Links, Uses, Vars
<1>5. n = Uses(w)[v] /\ n \in Nat
  <2>1. n = Uses(w)[v]
    BY ViewsOf
  <2> QED
    BY <1>1, <1>4, <2>1, CountedBound
<1>6. /\ Uses(w)[t] + Uses(w)[v] <= Len(p)
      /\ Counted([Links(w) EXCEPT ![v] = t], [Uses(w) EXCEPT ![t] = Uses(w)[t] + Uses(w)[v]], p)
  BY <1>1, <1>2, <1>3, <1>4, CountedLinked
<1>7. Uses(w)[t] + n < UsesMod
  <2>1. Uses(w)[t] \in Nat /\ Len(p) \in Nat
    BY <1>1, <1>2, <1>4, CountedBound
  <2> QED
    BY <1>5, <1>6, <2>1, JSScopeAssumption
<1>8. VarsAre(w, a, Links(w), [Uses(w) EXCEPT ![t] = Uses(w)[t] + n], Decls(w))
  BY <1>1, <1>2, <1>5, <1>7, AddUsesDone
<1> HIDE DEF a, n
<1>9. Vars(a) = Vars(w) /\ a \in WorldSet
  <2>1. Links(a) = Links(w)
    BY <1>8 DEF VarsAre
  <2> QED
    BY <1>8, <2>1 DEF VarsAre, Links
<1>10. a.vars[v] \in VarSet
  BY <1>9, WorldIs
<1>11. /\ r \in VarSet /\ r.link = t /\ r.uses = a.vars[v].uses /\ r.decl = a.vars[v].decl
  <2>1. t \in Nat
    BY <1>2 DEF Vars
  <2> QED
    BY <1>10, <2>1 DEF VarSet
<1>12. u = [a EXCEPT !.vars = [a.vars EXCEPT ![v] = r]]
  BY <1>9 DEF WorldSet, LinkedTo, a, n
<1> HIDE DEF r, u
<1>13. VarsAre(a, u, [Links(a) EXCEPT ![v] = r.link], [Uses(a) EXCEPT ![v] = r.uses],
               [Decls(a) EXCEPT ![v] = r.decl])
  BY <1>9, <1>11, <1>12, SetVar
<1>14. /\ [Uses(a) EXCEPT ![v] = r.uses] = Uses(a)
       /\ [Decls(a) EXCEPT ![v] = r.decl] = Decls(a)
  BY <1>9, <1>11, ViewsOf DEF Uses, Decls
<1>15. /\ u \in WorldSet /\ u.scopes = w.scopes /\ Scopes(u) = Scopes(w)
       /\ Links(u) = [Links(w) EXCEPT ![v] = t]
       /\ Uses(u) = [Uses(w) EXCEPT ![t] = Uses(w)[t] + Uses(w)[v]] /\ Decls(u) = Decls(w)
  BY <1>5, <1>8, <1>11, <1>13, <1>14 DEF VarsAre, Scopes
<1>16. Dec(u) = Dec(w) /\ Und(u) = Und(w)
  BY <1>15 DEF Dec, Und
<1>17. Listing(Links(u), Decls(u), [Dec(u) EXCEPT ![s] = R \ {v}], Und(u), O)
  <2>1. s \in DOMAIN D
    BY DEF Dec
  <2>2. [Dec(w) EXCEPT ![s] = R \ {v}] = [D EXCEPT ![s] = @ \ {v}]
    BY DEF Dec
  <2> HIDE DEF D
  <2>3. Loose(D, Und(w), O, s, v)
    BY DEF LooseBut, D
  <2>4. Listing([Links(w) EXCEPT ![v] = t], Decls(w), [D EXCEPT ![s] = @ \ {v}], Und(w), O)
    BY <1>1, <1>2, <1>4, <2>1, <2>3, ListingLinked
  <2> QED
    BY <1>15, <1>16, <2>2, <2>4
<1>18. Placed(u, O)
  BY <1>1, <1>15, PlacedVars
<1>19. Counted(Links(u), Uses(u), p)
  BY <1>6, <1>15
<1>20. u.vars[v].link = t
  <2>1. v \in Vars(u)
    <3>1. DOMAIN Links(u) = Vars(w)
      BY <1>4, <1>15
    <3> QED
      BY <3>1 DEF Links
  <2> QED
    BY <1>4, <1>15, <2>1, ViewsOf
<1>21. GoodBut(u, s, R \ {v}, O, p)
  BY <1>15, <1>17, <1>18, <1>19, Zenon DEF GoodBut
<1> QED
  BY <1>15, <1>20, <1>21 DEF u, LinkedDone

Moved(w, P, v) == [w EXCEPT !.vars[v].decl = NoDecl, !.scopes[P].undeclared = Append(@, v)]

LEMMA MovedIs ==
    ASSUME NEW w \in WorldSet, NEW P \in Scopes(w), NEW v
    PROVE  Moved(w, P, v) = WithLists(WithDecl(w, v, NoDecl), P, w.scopes[P].declared,
                                      Append(w.scopes[P].undeclared, v))
<1> DEFINE l == Append(w.scopes[P].undeclared, v)
           d == w.scopes[P].declared
           vs == [w.vars EXCEPT ![v].decl = NoDecl]
           r == [w.scopes[P] EXCEPT !.undeclared = l]
           q == [w.scopes[P] EXCEPT !.declared = d, !.undeclared = l]
           a == [w EXCEPT !.vars[v].decl = NoDecl]
           b == [w EXCEPT !.vars[v].decl = NoDecl, !.scopes[P].undeclared = Append(@, v)]
<1>1. w.scopes[P] \in ScopeSet
  BY WorldIs
<1>2. w = [vars |-> w.vars, scopes |-> w.scopes]
  BY DEF WorldSet
<1>3. a = [vars |-> vs, scopes |-> w.scopes]
  <2>1. a = [w EXCEPT !.vars = vs]
    BY DEF WorldSet
  <2> HIDE DEF vs, a
  <2> QED
    BY <1>2, <2>1
<1>4. b = [vars |-> vs, scopes |-> [w.scopes EXCEPT ![P] = r]]
  <2>1. b = [w EXCEPT !.vars = vs, !.scopes = [w.scopes EXCEPT ![P] = r]]
    BY DEF WorldSet
  <2> HIDE DEF vs, b, r
  <2> QED
    BY <1>2, <2>1
<1>5. r = q
  BY <1>1 DEF ScopeSet
<1> HIDE DEF vs, r, q, a, b, l, d
<1>6. [a EXCEPT !.scopes = [a.scopes EXCEPT ![P] = [a.scopes[P] EXCEPT !.declared = d, !.undeclared = l]]]
       = [vars |-> vs, scopes |-> [w.scopes EXCEPT ![P] = q]]
  BY <1>3 DEF q
<1>7. b = [a EXCEPT !.scopes = [a.scopes EXCEPT ![P] = [a.scopes[P] EXCEPT !.declared = d, !.undeclared = l]]]
  BY <1>4, <1>5, <1>6
<1> QED
  BY <1>7, Zenon DEF Moved, WithLists, WithDecl, a, b, l, d

MovedDone(w, u, s, R, O, p, P, v) ==
    /\ GoodBut(u, s, R \ {v}, O, p) /\ SameFrame(w, u) /\ u.scopes[s] = w.scopes[s]
    /\ Links(u) = Links(w) /\ Decls(u) = [Decls(w) EXCEPT ![v] = NoDecl] /\ Dec(u) = Dec(w)
    /\ Und(u) = [Und(w) EXCEPT ![P] = @ \cup {v}] /\ u.vars[v].link = 0

\* A variable of an inner scope that its parent P does not know.
LEMMA MergeMoved ==
    ASSUME NEW w, NEW s \in Scopes(w), NEW R, NEW O, NEW p, GoodBut(w, s, R, O, p), s \notin O,
           NEW P \in O, NEW v \in Vars(w), Links(w)[v] = 0,
           LooseBut(w, s, R, O, v)
    PROVE  MovedDone(w, Moved(w, P, v), s, R, O, p, P, v)
<1> DEFINE D == [Dec(w) EXCEPT ![s] = R]
           d == w.scopes[P].declared
           l0 == w.scopes[P].undeclared
           l == Append(l0, v)
           a == WithDecl(w, v, NoDecl)
           r == [w.vars[v] EXCEPT !.decl = NoDecl]
           u == Moved(w, P, v)
<1>1. /\ w \in WorldSet /\ Listing(Links(w), Decls(w), D, Und(w), O) /\ Placed(w, O)
      /\ Counted(Links(w), Uses(w), p)
  BY DEF GoodBut
<1>2. P \in Scopes(w) /\ P # s
  BY <1>1 DEF Placed
<1>3. /\ l0 \in Seq(Nat) /\ d \in Seq(Nat) /\ Und(w)[P] = Elems(l0) /\ Dec(w)[P] = Elems(d)
      /\ DOMAIN Dec(w) = Scopes(w) /\ DOMAIN Und(w) = Scopes(w) /\ Len(l0) \in Nat
  BY <1>1, <1>2, ListsTyped, LenProperties
<1>4. v \in Nat /\ \A t \in O : v \notin Und(w)[t]
  BY DEF Vars, Loose, LooseBut
<1>5. w.vars[v] \in VarSet
  BY <1>1, WorldIs
<1>6. r \in VarSet /\ r.decl = NoDecl /\ r.link = w.vars[v].link /\ r.uses = w.vars[v].uses
  BY <1>5 DEF VarSet, DeclSet
<1>7. a = [w EXCEPT !.vars = [w.vars EXCEPT ![v] = r]]
  BY <1>1 DEF WithDecl, WorldSet
<1>8. u = WithLists(a, P, d, l)
  BY <1>1, <1>2, MovedIs, Zenon
<1> HIDE DEF r, a, u
<1>9. VarsAre(w, a, [Links(w) EXCEPT ![v] = r.link], [Uses(w) EXCEPT ![v] = r.uses],
              [Decls(w) EXCEPT ![v] = r.decl])
  BY <1>1, <1>6, <1>7, SetVar
<1>10. /\ [Links(w) EXCEPT ![v] = r.link] = Links(w)
       /\ [Uses(w) EXCEPT ![v] = r.uses] = Uses(w)
  BY <1>6, ViewsOf DEF Links, Uses
<1>11. /\ a \in WorldSet /\ a.scopes = w.scopes /\ Scopes(a) = Scopes(w)
       /\ Links(a) = Links(w) /\ Uses(a) = Uses(w) /\ Decls(a) = [Decls(w) EXCEPT ![v] = NoDecl]
       /\ Dec(a) = Dec(w) /\ Und(a) = Und(w)
  BY <1>6, <1>9, <1>10 DEF VarsAre, Scopes, Dec, Und
<1>12. /\ l \in Seq(Nat) /\ Len(l) = Len(l0) + 1 /\ Elems(l) = Elems(l0) \cup {v}
       /\ DifferentOf(Decls(a), l0) /\ v \notin Elems(l0) => DifferentOf(Decls(a), l)
  BY <1>3, <1>4, ElemsAppend
<1> HIDE DEF l
<1>13. ListsAre(a, u, P, d, l)
  BY <1>2, <1>3, <1>8, <1>11, <1>12, SetLists DEF WithLists
<1>14. Placed(a, O)
  <2>1. ASSUME NEW t \in O, NEW x \in Und(w)[t], Decls(a)[x] = NoDecl
        PROVE  Decls(w)[x] = NoDecl
    <3>1. t \in Scopes(w) /\ t # s
      BY <1>1 DEF Placed
    <3>2. Ranged(Links(w), D, Und(w)) /\ t \in DOMAIN D
      BY <1>1, <3>1 DEF Listing
    <3>3. x \in Vars(w) /\ x # v
      BY <1>4, <3>2 DEF Ranged, Links
    <3>4. DOMAIN Decls(w) = Vars(w)
      BY DEF Decls
    <3> QED
      BY <1>11, <2>1, <3>3, <3>4
  <2>2. a.scopes = w.scopes
    BY <1>11
  <2> HIDE DEF D, d, l0
  <2> QED
    BY <1>1, <2>1, <2>2, PlacedVars
<1>15. Placed(u, O)
  <2>1. Different(d) /\ DifferentOf(Decls(a), l0)
    BY <1>2, <1>11, <1>14 DEF Placed, Singles
  <2>2. DifferentOf(Decls(a), l)
    BY <1>3, <1>4, <1>12, <2>1
  <2>3. a.scopes[P].numForDecls <= Len(d) /\ a.scopes[P].numArgUses <= Len(l0) /\ a.scopes[P].numArgUses \in Nat
    <3>1. w.scopes[P] \in ScopeSet
      BY <1>1, <1>2, WorldIs
    <3> QED
      BY <1>11, <1>14, <3>1 DEF Placed, Marks, ScopeSet
  <2>4. a.scopes[P].numArgUses <= Len(l)
    BY <1>3, <1>12, <2>3
  <2>5. P \in Scopes(a)
    BY <1>2, <1>11
  <2> HIDE DEF d, l0
  <2> QED
    BY <1>11, <1>13, <1>14, <2>1, <2>2, <2>3, <2>4, <2>5, PlacedLists
<1>16. /\ u \in WorldSet /\ Links(u) = Links(w) /\ Uses(u) = Uses(w)
       /\ Decls(u) = [Decls(w) EXCEPT ![v] = NoDecl] /\ Dec(u) = Dec(w)
       /\ Und(u) = [Und(w) EXCEPT ![P] = @ \cup {v}] /\ Vars(u) = Vars(a)
  <2>1. /\ Und(u) = [Und(a) EXCEPT ![P] = Elems(l)] /\ Vars(u) = Vars(a)
        /\ Dec(u) = [Dec(a) EXCEPT ![P] = Elems(d)]
        /\ Links(u) = Links(a) /\ Uses(u) = Uses(a) /\ Decls(u) = Decls(a)
    BY <1>2, <1>11, <1>13, ListsViews
  <2>2. Und(u) = [Und(w) EXCEPT ![P] = @ \cup {v}]
    BY <1>3, <1>11, <1>12, <2>1
  <2>3. Dec(u) = Dec(w)
    <3>1. [Dec(w) EXCEPT ![P] = Dec(w)[P]] = Dec(w)
      BY DEF Dec
    <3> QED
      BY <1>3, <1>11, <2>1, <3>1
  <2> QED
    BY <1>11, <1>13, <2>1, <2>2, <2>3 DEF ListsAre
<1>17. SameFrame(w, u) /\ u.scopes[s] = w.scopes[s]
  BY <1>2, <1>11, <1>13 DEF ListsAre, SameFrame, Scopes
<1>18. Listing(Links(u), Decls(u), [Dec(u) EXCEPT ![s] = R \ {v}], Und(u), O)
  <2>1. s \in DOMAIN D /\ v \in DOMAIN Links(w)
    BY DEF Dec, Links
  <2>2. [Dec(w) EXCEPT ![s] = R \ {v}] = [D EXCEPT ![s] = @ \ {v}]
    BY DEF Dec
  <2> HIDE DEF D
  <2>3. Loose(D, Und(w), O, s, v)
    BY DEF LooseBut, D
  <2>4. Listing(Links(w), [Decls(w) EXCEPT ![v] = NoDecl], [D EXCEPT ![s] = @ \ {v}],
                [Und(w) EXCEPT ![P] = @ \cup {v}], O)
    BY <1>1, <2>1, <2>3, ListingMoved
  <2> QED
    BY <1>16, <2>2, <2>4
<1>19. GoodBut(u, s, R \ {v}, O, p)
  <2>1. Counted(Links(u), Uses(u), p)
    BY <1>1, <1>16
  <2> QED
    BY <1>15, <1>16, <1>18, <2>1, Zenon DEF GoodBut
<1>20. u.vars[v].link = 0
  <2>1. v \in Vars(u)
    <3>1. DOMAIN Links(u) = Vars(w)
      BY <1>16 DEF Links
    <3> QED
      BY <3>1 DEF Links
  <2> QED
    BY <1>16, <2>1, ViewsOf
<1> QED
  BY <1>16, <1>17, <1>19, <1>20 DEF u, MovedDone

\* MergeUp takes variable v away from what the inner scope s declares, and
\* disturbs no other variable.
LEMMA MergeUpDone ==
    ASSUME NEW w, NEW s \in Scopes(w), NEW R, NEW O, NEW p, GoodBut(w, s, R, O, p), s \notin O,
           Len(p) < UsesMod, NEW P \in O, NEW v \in Vars(w), Links(w)[v] = 0,
           LooseBut(w, s, R, O, v)
    PROVE  LET u == MergeUp(w, P, v) IN
           /\ GoodBut(u, s, R \ {v}, O, p) /\ SameFrame(w, u) /\ u.scopes[s] = w.scopes[s]
           /\ Vars(u) = Vars(w) /\ Dec(u) = Dec(w)
           /\ \A x \in Vars(w) : x # v => Links(u)[x] = Links(w)[x]
           /\ Decls(w)[v] = NoDecl => Decls(u) = Decls(w)
           /\ \A x \in O : Und(u)[x] \subseteq Und(w)[x] \cup {v}
           /\ u.vars[v].link \in Vars(w) \cup {0}
<1> DEFINE t == Known(w, P, w.vars[v].name)
           u == MergeUp(w, P, v)
<1>1. w \in WorldSet /\ P \in Scopes(w) /\ O \subseteq Scopes(w)
  BY DEF GoodBut, Placed
<1>2. DOMAIN Links(w) = Vars(w) /\ DOMAIN Decls(w) = Vars(w) /\ DOMAIN Und(w) = Scopes(w)
  BY DEF Links, Decls, Und
<1> HIDE DEF t, u
<1>3. CASE t # 0
  <2>1. t \in Dec(w)[P] \cup Und(w)[P]
    BY <1>1, <1>3, FoundKnown DEF t
  <2>2. u = LinkedTo(w, t, v)
    BY <1>3, Zenon DEF MergeUp, LinkedTo, u, t
  <2>3. /\ GoodBut(u, s, R \ {v}, O, p) /\ u.scopes = w.scopes
        /\ Links(u) = [Links(w) EXCEPT ![v] = t] /\ Decls(u) = Decls(w) /\ u.vars[v].link = t
    <3>1. LinkedDone(w, LinkedTo(w, t, v), s, R, O, p, t, v)
      BY <2>1, MergeLinked, Zenon
    <3> QED
      BY <2>2, <3>1 DEF LinkedDone
  <2>4. Vars(u) = Vars(w)
    <3>1. DOMAIN Links(u) = Vars(w)
      BY <1>2, <2>3
    <3> QED
      BY <3>1 DEF Links
  <2>5. Dec(u) = Dec(w) /\ Und(u) = Und(w) /\ SameFrame(w, u)
    BY <2>3 DEF Dec, Und, Scopes, SameFrame, SameMarks
  <2>6. t \in Vars(w)
    BY <2>1, ButKnown
  <2>7. \A x \in Vars(w) : x # v => Links(u)[x] = Links(w)[x]
    BY <1>2, <2>3
  <2> QED
    BY <2>3, <2>4, <2>5, <2>6, <2>7 DEF u
<1>4. CASE t = 0
  <2>1. u = Moved(w, P, v)
    BY <1>4, Zenon DEF MergeUp, Moved, u, t
  <2>2. /\ GoodBut(u, s, R \ {v}, O, p) /\ SameFrame(w, u) /\ u.scopes[s] = w.scopes[s]
        /\ Links(u) = Links(w) /\ Decls(u) = [Decls(w) EXCEPT ![v] = NoDecl] /\ Dec(u) = Dec(w)
        /\ Und(u) = [Und(w) EXCEPT ![P] = @ \cup {v}] /\ u.vars[v].link = 0
    <3>1. MovedDone(w, Moved(w, P, v), s, R, O, p, P, v)
      BY MergeMoved, Zenon
    <3> QED
      BY <2>1, <3>1 DEF MovedDone
  <2>3. Vars(u) = Vars(w)
    <3>1. DOMAIN Links(u) = Vars(w)
      BY <1>2, <2>2
    <3> QED
      BY <3>1 DEF Links
  <2>4. Decls(w)[v] = NoDecl => Decls(u) = Decls(w)
    <3>1. Decls(w)[v] = NoDecl => [Decls(w) EXCEPT ![v] = NoDecl] = Decls(w)
      BY DEF Decls
    <3> QED
      BY <2>2, <3>1
  <2>5. \A x \in O : Und(u)[x] \subseteq Und(w)[x] \cup {v}
    BY <1>1, <1>2, <2>2
  <2>6. GoodBut(u, s, R \ {v}, O, p) /\ SameFrame(w, u)
    BY <2>2
  <2> QED
    BY <2>2, <2>3, <2>4, <2>5, <2>6 DEF u
<1> QED
  BY <1>3, <1>4

\* What scope s lists as used does not matter any more.
LEMMA ButLists ==
    ASSUME NEW w, NEW s \in Scopes(w), NEW R, NEW O, NEW p, GoodBut(w, s, R, O, p), s \notin O,
           NEW d, Different(d), NEW l \in Seq(Nat), Elems(l) \subseteq Vars(w),
           NEW u, ListsAre(w, u, s, d, l)
    PROVE  GoodBut(u, s, R, O, p)
<1> DEFINE D == [Dec(w) EXCEPT ![s] = R]
<1>1. /\ w \in WorldSet /\ Listing(Links(w), Decls(w), D, Und(w), O) /\ Placed(w, O)
      /\ Counted(Links(w), Uses(w), p)
  BY DEF GoodBut
<1>2. /\ Dec(u) = [Dec(w) EXCEPT ![s] = Elems(d)]
      /\ Und(u) = [Und(w) EXCEPT ![s] = Elems(l)]
      /\ Links(u) = Links(w) /\ Uses(u) = Uses(w) /\ Decls(u) = Decls(w)
  BY <1>1, ListsViews
<1>3. [Dec(u) EXCEPT ![s] = R] = D
  BY <1>2 DEF Dec
<1>4. s \in DOMAIN D /\ DOMAIN Links(w) = Vars(w)
  BY DEF Dec, Links
<1> HIDE DEF D
<1>5. Listing(Links(w), Decls(w), D, [Und(w) EXCEPT ![s] = Elems(l)], O)
  BY <1>1, <1>4, ListingClosed
<1>6. Placed(u, O)
  BY <1>1, PlacedLists
<1>7. u \in WorldSet
  BY DEF ListsAre
<1> QED
  BY <1>1, <1>2, <1>3, <1>5, <1>6, <1>7 DEF GoodBut

--------------------------------------------------------------------------------
(* HoistUndeclared and UndeclareScope *)

\* Variable v of an inner scope is its own, and no scope in O uses it.
Spare(g, O, v) == Links(g)[v] = 0 /\ \A t \in O : v \notin Und(g)[t]

\* Scope s of world w closes, and the uses 1..i of its list are hoisted in g.
Hoisting(w, g, s, O, p, i) ==
    LET l == w.scopes[s].undeclared IN
    /\ GoodBut(g, s, Dec(w)[s], O, p) /\ SameFrame(w, g)
    /\ Vars(g) = Vars(w) /\ Dec(g) = Dec(w) /\ Decls(g) = Decls(w)
    /\ g.scopes[s].declared = w.scopes[s].declared
    /\ Len(g.scopes[s].undeclared) = Len(l)
    /\ \A j \in 1..Len(l) : i < j => /\ g.scopes[s].undeclared[j] = l[j]
                                     /\ Decls(w)[l[j]] = NoDecl => Spare(g, O, l[j])
    /\ \A v \in Dec(w)[s] : Spare(g, O, v)

LEMMA HoistOneDone ==
    ASSUME NEW w \in WorldSet, NEW s \in Scopes(w), NEW O, NEW p, s \notin O, Len(p) < UsesMod,
           DifferentOf(Decls(w), w.scopes[s].undeclared), Elems(w.scopes[s].undeclared) \subseteq Vars(w),
           \A v \in Dec(w)[s] : v \in Vars(w) /\ Decls(w)[v] # NoDecl,
           Different(w.scopes[s].declared), w.scopes[s].parent \in O,
           NEW i \in 1..Len(w.scopes[s].undeclared), NEW g, Hoisting(w, g, s, O, p, i - 1)
    PROVE  Hoisting(w, HoistOne(g, s, i), s, O, p, i)
<1> DEFINE l == w.scopes[s].undeclared
           l2 == g.scopes[s].undeclared
           v == l2[i]
           P == g.scopes[s].parent
           a == MergeUp(g, P, v)
           k == a.vars[v].link
           b == [a EXCEPT !.scopes[s].undeclared[i] = k]
           R == Dec(w)[s]
<1>1. /\ GoodBut(g, s, R, O, p) /\ SameFrame(w, g)
      /\ Vars(g) = Vars(w) /\ Dec(g) = Dec(w) /\ Decls(g) = Decls(w)
      /\ g.scopes[s].declared = w.scopes[s].declared
      /\ Len(l2) = Len(l) /\ Len(l) \in Nat
      /\ \A j \in 1..Len(l) : i - 1 < j => /\ l2[j] = l[j]
                                           /\ Decls(w)[l[j]] = NoDecl => Spare(g, O, l[j])
      /\ \A x \in R : Spare(g, O, x)
  BY ListsTyped, LenProperties DEF Hoisting
<1>2. v = l[i] /\ v \in Vars(w) /\ (Decls(w)[v] = NoDecl => Spare(g, O, v))
  <2>1. v = l[i] /\ (Decls(w)[l[i]] = NoDecl => Spare(g, O, l[i]))
    BY <1>1
  <2>2. l[i] \in Elems(l)
    BY <1>1, ElemsAre
  <2> QED
    BY <2>1, <2>2
<1>3. \A j \in 1..Len(l) : i < j => i - 1 < j
  BY <1>1
<1>4. g \in WorldSet /\ s \in Scopes(g) /\ P \in O /\ O \subseteq Scopes(w)
  BY <1>1 DEF GoodBut, SameFrame, SameMarks, Scopes, Placed
<1> HIDE DEF l, l2, v, P, a, k, b, R
<1>5. CASE HoistOne(g, s, i) = g
  <2>1. Hoisting(w, g, s, O, p, i)
    BY <1>1, <1>3 DEF Hoisting, l, l2, R
  <2> QED
    BY <1>5, <2>1
<1>6. CASE Decls(w)[v] = NoDecl /\ (HoistOne(g, s, i) = a \/ (HoistOne(g, s, i) = b /\ k # 0))
  <2>1. Spare(g, O, v) /\ v \in Vars(g)
    BY <1>1, <1>2, <1>6
  <2>2. LooseBut(g, s, R, O, v)
    <3> DEFINE D == [Dec(g) EXCEPT ![s] = R]
    <3>1. DecHasDecl(Decls(g), D)
      BY <1>1 DEF GoodBut, Listing
    <3> HIDE DEF D
    <3>2. \A x \in DOMAIN D : v \notin D[x]
      BY <1>1, <1>6, <3>1 DEF DecHasDecl
    <3> QED
      BY <2>1, <3>2 DEF LooseBut, Loose, Spare, D
  <2>3. /\ GoodBut(a, s, R \ {v}, O, p) /\ SameFrame(g, a) /\ a.scopes[s] = g.scopes[s]
        /\ Vars(a) = Vars(g) /\ Dec(a) = Dec(g)
        /\ \A x \in Vars(g) : x # v => Links(a)[x] = Links(g)[x]
        /\ Decls(g)[v] = NoDecl => Decls(a) = Decls(g)
        /\ \A x \in O : Und(a)[x] \subseteq Und(g)[x] \cup {v}
        /\ k \in Vars(g) \cup {0}
    BY <1>1, <1>4, <2>1, <2>2, MergeUpDone DEF a, k, Spare
  <2>4. R \ {v} = R
    BY <1>6 DEF R
  <2>5. ASSUME NEW x \in Vars(w), x # v, Spare(g, O, x) PROVE Spare(a, O, x)
    BY <1>1, <2>3, <2>5 DEF Spare
  <2>6. /\ \A j \in 1..Len(l) : i < j => /\ l2[j] = l[j]
                                         /\ Decls(w)[l[j]] = NoDecl => Spare(a, O, l[j])
        /\ \A x \in R : Spare(a, O, x)
    <3>1. ASSUME NEW j \in 1..Len(l), i < j, Decls(w)[l[j]] = NoDecl
          PROVE  Spare(a, O, l[j])
      <4>1. i # j /\ i \in 1..Len(l)
        BY <1>1, <3>1 DEF l
      <4>2. l[j] # v
        BY <1>2, <1>6, <3>1, <4>1 DEF DifferentOf, l
      <4>3. Spare(g, O, l[j])
        BY <1>1, <1>3, <3>1
      <4>4. l[j] \in Vars(w)
        BY ElemsAre DEF l
      <4> QED
        BY <2>5, <4>2, <4>3, <4>4
    <3>2. ASSUME NEW x \in R PROVE Spare(a, O, x)
      BY <1>1, <1>6, <2>5 DEF R
    <3> QED
      BY <1>1, <1>3, <3>1, <3>2
  <2>7. SameFrame(w, a)
    BY <1>1, <2>3, SameFrameTwice, Zenon
  <2>8. /\ GoodBut(a, s, R, O, p) /\ Vars(a) = Vars(w) /\ Dec(a) = Dec(w) /\ Decls(a) = Decls(w)
        /\ a.scopes[s].undeclared = l2 /\ a.scopes[s].declared = w.scopes[s].declared
    BY <1>1, <1>6, <2>3, <2>4 DEF l2
  <2>9. Hoisting(w, a, s, O, p, i)
    BY <1>1, <2>6, <2>7, <2>8 DEF Hoisting, l, R
  <2>10. CASE HoistOne(g, s, i) = a
    BY <2>9, <2>10
  <2>11. CASE HoistOne(g, s, i) = b /\ k # 0
    <3> DEFINE d == w.scopes[s].declared
               m == [l2 EXCEPT ![i] = k]
    <3>1. a \in WorldSet /\ s \in Scopes(a) /\ Scopes(a) = Scopes(g)
      BY <1>4, <2>3 DEF GoodBut, SameFrame, Scopes
    <3>2. l2 \in Seq(Nat) /\ d \in Seq(Nat)
      BY <1>4, ListsTyped DEF l2
    <3>3. k \in Vars(w) /\ k \in Nat
      BY <1>1, <2>3, <2>11 DEF Vars
    <3>4. /\ m \in Seq(Nat) /\ Len(m) = Len(l)
          /\ \A j \in 1..Len(l) : m[j] = IF j = i THEN k ELSE l2[j]
      <4>1. i \in 1..Len(l2)
        BY <1>1 DEF l
      <4> QED
        BY <1>1, <3>2, <3>3, <4>1, ExceptSeq
    <3>5. b = WithLists(a, s, d, m)
      <4> DEFINE r == a.scopes[s]
      <4>1. r \in ScopeSet /\ r.declared = d /\ r.undeclared = l2
        BY <2>8, <3>1, WorldIs
      <4>2. [r EXCEPT !.undeclared[i] = k] = [r EXCEPT !.declared = d, !.undeclared = m]
        BY <4>1 DEF ScopeSet
      <4>3. b = [a EXCEPT !.scopes = [a.scopes EXCEPT ![s] = [r EXCEPT !.undeclared[i] = k]]]
        BY <3>1 DEF b, WorldSet
      <4> QED
        BY <4>2, <4>3 DEF WithLists
    <3> HIDE DEF m, d
    <3>6. ListsAre(a, b, s, d, m)
      BY <3>1, <3>2, <3>4, <3>5, SetLists DEF WithLists
    <3>7. Elems(m) \subseteq Vars(w)
      <4>1. \A j \in 1..Len(l) : l2[j] \in Vars(w)
        <5>1. Ranged(Links(g), [Dec(g) EXCEPT ![s] = R], Und(g))
          BY <1>1 DEF GoodBut, Listing
        <5>2. Und(g)[s] \subseteq Vars(w)
          BY <1>1, <1>4, <5>1 DEF Ranged, Links, Dec
        <5>3. Und(g)[s] = Elems(l2)
          BY <1>4, ListsTyped DEF l2
        <5> QED
          BY <1>1, <5>2, <5>3, ElemsAre
      <4>2. \A j \in 1..Len(m) : m[j] \in Vars(w)
        BY <3>3, <3>4, <4>1
      <4> QED
        BY <4>2 DEF Elems
    <3>8. GoodBut(b, s, R, O, p)
      <4>1. Different(d)
        BY DEF d
      <4> QED
        BY <2>8, <3>1, <3>4, <3>6, <3>7, <4>1, ButLists
    <3>9. /\ Dec(b) = [Dec(a) EXCEPT ![s] = Elems(d)] /\ Und(b) = [Und(a) EXCEPT ![s] = Elems(m)]
          /\ Links(b) = Links(a) /\ Decls(b) = Decls(a) /\ Vars(b) = Vars(a)
      BY <3>1, <3>6, ListsViews
    <3>10. Dec(b) = Dec(a)
      <4>1. Dec(a)[s] = Elems(d)
        BY <2>8, <3>1, ListsTyped DEF d
      <4>2. [Dec(a) EXCEPT ![s] = Dec(a)[s]] = Dec(a)
        BY DEF Dec
      <4> QED
        BY <3>9, <4>1, <4>2
    <3>11. \A x : Spare(a, O, x) => Spare(b, O, x)
      <4>1. \A x \in O : Und(b)[x] = Und(a)[x]
        <5>1. \A x \in O : x # s /\ x \in DOMAIN Und(a)
          BY <1>4, <3>1, <1>1 DEF Und, SameFrame, Scopes
        <5> QED
          BY <3>9, <5>1
      <4> QED
        BY <3>9, <4>1 DEF Spare
    <3>12. SameFrame(w, b) /\ b.scopes[s].undeclared = m /\ b.scopes[s].declared = d
      <4>1. SameFrame(a, b)
        BY <3>6 DEF ListsAre
      <4>2. SameFrame(w, b)
        BY <2>7, <4>1, SameFrameTwice, Zenon
      <4> QED
        BY <3>6, <4>2 DEF ListsAre
    <3>13. \A j \in 1..Len(l) : i < j => /\ m[j] = l[j]
                                         /\ Decls(w)[l[j]] = NoDecl => Spare(b, O, l[j])
      <4>1. \A j \in 1..Len(l) : i < j => j # i
        BY <1>1 DEF l
      <4> QED
        BY <2>6, <3>4, <3>11, <4>1
    <3>14. Hoisting(w, b, s, O, p, i)
      BY <2>6, <2>8, <3>4, <3>8, <3>9, <3>10, <3>11, <3>12, <3>13 DEF Hoisting, l, R, d
    <3> QED
      BY <2>11, <3>14
  <2> QED
    BY <1>6, <2>10, <2>11
<1>7. \/ HoistOne(g, s, i) = g
      \/ Decls(w)[v] = NoDecl /\ (HoistOne(g, s, i) = a \/ (HoistOne(g, s, i) = b /\ k # 0))
  <2>1. Decls(w)[v] = g.vars[v].decl
    BY <1>1, <1>2, ViewsOf
  <2>2. HoistOne(g, s, i) = IF g.vars[v].uses = 0 \/ g.vars[v].decl # NoDecl THEN g
                            ELSE IF k = 0 THEN a ELSE b
    BY Zenon DEF HoistOne, v, l2, P, a, k, b
  <2> QED
    BY <2>1, <2>2
<1> QED
  BY <1>5, <1>6, <1>7

\* Before the first use is hoisted.
LEMMA HoistStart ==
    ASSUME NEW w, NEW s \in Scopes(w), NEW O, NEW p, Good(w, O \cup {s}, p), s \notin O,
           \A t \in O : t <= s
    PROVE  Hoisting(w, w, s, O, p, 0)
<1> DEFINE l == w.scopes[s].undeclared
           D == Dec(w)
           U == Und(w)
           Q == O \cup {s}
<1>1. /\ w \in WorldSet /\ Listing(Links(w), Decls(w), D, U, Q) /\ Placed(w, Q)
      /\ Counted(Links(w), Uses(w), p)
  BY GoodIs
<1>2. [D EXCEPT ![s] = D[s]] = D
  BY DEF Dec
<1>3. U[s] = Elems(l) /\ s \in Q /\ O \subseteq Q
  BY <1>1, ListsTyped
<1> HIDE DEF D, U, Q, l
<1>4. GoodBut(w, s, D[s], O, p)
  <2>1. Listing(Links(w), Decls(w), D, U, O)
    BY <1>1, <1>3, ListingLeft
  <2>2. Placed(w, O)
    BY <1>1, <1>3 DEF Placed, Singles, Marks
  <2> QED
    BY <1>1, <1>2, <2>1, <2>2 DEF GoodBut, D, U
<1>5. ASSUME NEW v \in U[s], Decls(w)[v] = NoDecl
      PROVE  Spare(w, O, v)
  BY <1>1, <1>3, <1>5 DEF Listing, Unlinked, UndOnce, Spare, U
<1>6. ASSUME NEW v \in D[s]
      PROVE  Spare(w, O, v)
  <2>1. ASSUME NEW t \in O PROVE v \notin U[t]
    BY <1>1, <1>3, <2>1 DEF Listing, UndInside
  <2> QED
    BY <1>1, <1>3, <2>1 DEF Listing, Unlinked, Spare, U
<1>7. SameFrame(w, w)
  BY DEF SameFrame, SameMarks
<1>8. \A j \in 1..Len(l) : l[j] \in U[s]
  BY <1>3, ElemsAre
<1> QED
  BY <1>4, <1>5, <1>6, <1>7, <1>8 DEF Hoisting, l, D

\* All uses are hoisted.
LEMMA HoistAll ==
    ASSUME NEW w, NEW s \in Scopes(w), NEW O, NEW p, Good(w, O \cup {s}, p), s \notin O,
           \A t \in O : t <= s, w.scopes[s].parent \in O, Len(p) < UsesMod
    PROVE  Hoisting(w, HoistUndeclared(w, s), s, O, p, Len(w.scopes[s].undeclared))
<1> DEFINE l == w.scopes[s].undeclared
           size == Len(l)
<1>1. w \in WorldSet /\ Listing(Links(w), Decls(w), Dec(w), Und(w), O \cup {s}) /\ Placed(w, O \cup {s})
  BY GoodIs
<1>2. l \in Seq(Nat) /\ size \in Nat /\ Und(w)[s] = Elems(l)
  BY <1>1, ListsTyped, LenProperties
<1>3. /\ DifferentOf(Decls(w), l) /\ Elems(l) \subseteq Vars(w)
      /\ \A v \in Dec(w)[s] : v \in Vars(w) /\ Decls(w)[v] # NoDecl
      /\ Different(w.scopes[s].declared)
  <2>1. Ranged(Links(w), Dec(w), Und(w)) /\ DecHasDecl(Decls(w), Dec(w)) /\ s \in DOMAIN Dec(w)
    BY <1>1 DEF Listing, Dec
  <2> QED
    BY <1>1, <1>2, <2>1 DEF Placed, Singles, Ranged, DecHasDecl, Links
<1>4. PICK f : Turning("hoist", w, s, <<>>, size, f) /\ HoistUndeclared(w, s) = f[size]
  BY <1>2, HoistTurns
<1> HIDE DEF size, l
<1>5. /\ f[0] = w
      /\ \A i \in 1..size : f[i] = HoistOne(f[i - 1], s, i)
  BY <1>2, <1>4 DEF Turning, Turn
<1> DEFINE Bad == {i \in 0..size : ~Hoisting(w, f[i], s, O, p, i)}
<1>6. 0 \notin Bad
  BY <1>5, HoistStart
<1>7. ASSUME NEW i \in 1..size, i - 1 \notin Bad
      PROVE  i \notin Bad
  <2>1. Hoisting(w, f[i - 1], s, O, p, i - 1)
    BY <1>2, <1>7
  <2>2. i \in 1..Len(w.scopes[s].undeclared)
    BY DEF size, l
  <2>3. Hoisting(w, HoistOne(f[i - 1], s, i), s, O, p, i)
    <3> HIDE DEF Bad
    <3> QED
      BY <1>1, <1>3, <2>1, <2>2, HoistOneDone DEF l
  <2> QED
    BY <1>5, <2>3
<1>8. Bad \in SUBSET Nat
  BY <1>2
<1>9. Bad = {}
  <2> SUFFICES ASSUME Bad # {} PROVE FALSE
    OBVIOUS
  <2>1. PICK i \in Bad : \A j \in Bad : i <= j
    BY <1>8, LeastNumber
  <2>2. i \in 0..size
    OBVIOUS
  <2> HIDE DEF Bad
  <2>3. i \in 1..size
    BY <1>2, <1>6, <2>1, <2>2
  <2>4. i - 1 \notin Bad
    BY <1>2, <2>1, <2>3
  <2> QED
    BY <1>7, <2>1, <2>3, <2>4
<1>10. Hoisting(w, f[size], s, O, p, size)
  BY <1>2, <1>9
<1> QED
  BY <1>4, <1>10 DEF size, l

\* When all uses of a scope are hoisted the scopes around it are as they should be.
LEMMA HoistDone ==
    ASSUME NEW w, NEW s \in Scopes(w), NEW O, NEW p, Good(w, O \cup {s}, p), s \notin O,
           \A t \in O : t <= s, w.scopes[s].parent \in O, Len(p) < UsesMod
    PROVE  LET u == HoistUndeclared(w, s) IN
           /\ Good(u, O, p) /\ GoodBut(u, s, Dec(u)[s], O, p) /\ SameFrame(w, u)
           /\ \A v \in Dec(u)[s] : Spare(u, O, v) /\ v \in Vars(u)
           /\ Different(u.scopes[s].declared)
<1> DEFINE u == HoistUndeclared(w, s)
<1>1. /\ GoodBut(u, s, Dec(w)[s], O, p) /\ SameFrame(w, u)
      /\ Vars(u) = Vars(w) /\ Dec(u) = Dec(w)
      /\ u.scopes[s].declared = w.scopes[s].declared
      /\ \A v \in Dec(w)[s] : Spare(u, O, v)
  <2>1. Hoisting(w, HoistUndeclared(w, s), s, O, p, Len(w.scopes[s].undeclared))
    BY HoistAll
  <2> QED
    BY <2>1, Zenon DEF Hoisting
<1>2. w \in WorldSet /\ Listing(Links(w), Decls(w), Dec(w), Und(w), O \cup {s}) /\ Placed(w, O \cup {s})
  BY GoodIs
<1> HIDE DEF u
<1>3. [Dec(u) EXCEPT ![s] = Dec(w)[s]] = Dec(u)
  BY <1>1 DEF Dec
<1>4. Good(u, O, p)
  BY <1>1, <1>3, GoodIs DEF GoodBut
<1>5. \A v \in Dec(w)[s] : v \in Vars(w)
  BY <1>2 DEF Listing, Ranged, Links, Dec
<1>6. Different(u.scopes[s].declared)
  BY <1>1, <1>2 DEF Placed, Singles
<1> QED
  BY <1>1, <1>4, <1>5, <1>6 DEF u

Rest(list, i) == {list[j] : j \in {j \in 1..Len(list) : i < j}}

\* Scope s of world w closes, and the variables 1..i it declares are merged in g.
Merging(w, g, s, O, p, i) ==
    LET list == w.scopes[s].declared IN
    /\ GoodBut(g, s, Rest(list, i), O, p) /\ SameFrame(w, g) /\ g.scopes[s] = w.scopes[s]
    /\ Vars(g) = Vars(w)
    /\ \A v \in Rest(list, i) : Spare(g, O, v)

LEMMA MergeOneDone ==
    ASSUME NEW w \in WorldSet, NEW s \in Scopes(w), NEW O, NEW p, s \notin O, Len(p) < UsesMod,
           Different(w.scopes[s].declared), \A v \in Dec(w)[s] : v \in Vars(w),
           NEW P \in O,
           NEW i \in 1..Len(w.scopes[s].declared), NEW g, Merging(w, g, s, O, p, i - 1)
    PROVE  Merging(w, MergeUp(g, P, w.scopes[s].declared[i]), s, O, p, i)
<1> DEFINE l == w.scopes[s].declared
           v == l[i]
           R == Rest(l, i - 1)
           a == MergeUp(g, P, v)
           D == [Dec(g) EXCEPT ![s] = R]
<1>1. /\ GoodBut(g, s, R, O, p) /\ SameFrame(w, g) /\ g.scopes[s] = w.scopes[s]
      /\ Vars(g) = Vars(w) /\ \A x \in R : Spare(g, O, x)
  BY Zenon DEF Merging
<1>2. l \in Seq(Nat) /\ Len(l) \in Nat /\ Dec(w)[s] = Elems(l)
  BY ListsTyped, LenProperties
<1>3. i \in 1..Len(l) /\ Different(l) /\ \A x \in Elems(l) : x \in Vars(w)
  BY <1>2
<1> HIDE DEF l
<1>4. v \in R /\ R \ {v} = Rest(l, i) /\ R \subseteq Elems(l)
  BY <1>2, <1>3 DEF Rest, Different, Elems
<1>5. g \in WorldSet /\ s \in Scopes(g) /\ s \in DOMAIN D /\ D[s] = R
  BY <1>1 DEF GoodBut, SameFrame, Scopes, Dec
<1>6. v \in Vars(g) /\ Links(g)[v] = 0
  BY <1>1, <1>3, <1>4 DEF Spare
<1>7. LooseBut(g, s, R, O, v)
  <2>1. DecOnce(D)
    BY <1>1 DEF GoodBut, Listing
  <2> HIDE DEF D
  <2>2. \A t \in DOMAIN D : v \in D[t] => t = s
    BY <1>4, <1>5, <2>1 DEF DecOnce
  <2>3. \A t \in O : v \notin Und(g)[t]
    BY <1>1, <1>4 DEF Spare
  <2> QED
    BY <2>2, <2>3 DEF LooseBut, Loose, D
<1> HIDE DEF R, D, v, a
<1>8. /\ GoodBut(a, s, R \ {v}, O, p) /\ SameFrame(g, a) /\ a.scopes[s] = g.scopes[s]
      /\ Vars(a) = Vars(g)
      /\ \A x \in Vars(g) : x # v => Links(a)[x] = Links(g)[x]
      /\ \A x \in O : Und(a)[x] \subseteq Und(g)[x] \cup {v}
  <2>1. LET u == MergeUp(g, P, v) IN
        /\ GoodBut(u, s, R \ {v}, O, p) /\ SameFrame(g, u) /\ u.scopes[s] = g.scopes[s]
        /\ Vars(u) = Vars(g) /\ Dec(u) = Dec(g)
        /\ \A x \in Vars(g) : x # v => Links(u)[x] = Links(g)[x]
        /\ Decls(g)[v] = NoDecl => Decls(u) = Decls(g)
        /\ \A x \in O : Und(u)[x] \subseteq Und(g)[x] \cup {v}
        /\ u.vars[v].link \in Vars(g) \cup {0}
    <3>1. GoodBut(g, s, R, O, p)
      BY <1>1
    <3>2. s \in Scopes(g)
      BY <1>5
    <3>3. v \in Vars(g)
      BY <1>6
    <3>4. Links(g)[v] = 0
      BY <1>6
    <3> QED
      BY <3>1, <3>2, <3>3, <3>4, <1>7, MergeUpDone
  <2> QED
    BY <2>1 DEF a
<1>9. ASSUME NEW x \in R \ {v} PROVE Spare(a, O, x)
  BY <1>1, <1>3, <1>4, <1>8 DEF Spare
<1>10. SameFrame(w, a)
  BY <1>1, <1>8, SameFrameTwice, Zenon
<1> QED
  BY <1>1, <1>4, <1>8, <1>9, <1>10 DEF Merging, a, l, v

\* All variables of the scope are merged.
LEMMA MergeAll ==
    ASSUME NEW w, NEW s \in Scopes(w), NEW O, NEW p, GoodBut(w, s, Dec(w)[s], O, p), s \notin O,
           \A v \in Dec(w)[s] : Spare(w, O, v) /\ v \in Vars(w), Different(w.scopes[s].declared),
           w.scopes[s].parent \in O, Len(p) < UsesMod
    PROVE  Merging(w, MergedUp(w, s), s, O, p, Len(w.scopes[s].declared))
<1> DEFINE l == w.scopes[s].declared
           size == Len(l)
           P == w.scopes[s].parent
<1>1. w \in WorldSet
  BY DEF GoodBut
<1>2. l \in Seq(Nat) /\ size \in Nat /\ Dec(w)[s] = Elems(l)
  BY <1>1, ListsTyped, LenProperties
<1>3. PICK f : Turning("merge", w, P, l, size, f) /\ MergedUp(w, s) = f[size]
  BY <1>2, MergeTurns
<1>4. P \in O
  OBVIOUS
<1> HIDE DEF size, l, P
<1>5. /\ f[0] = w
      /\ \A i \in 1..size : f[i] = MergeUp(f[i - 1], P, l[i])
  BY <1>2, <1>3 DEF Turning, Turn
<1> DEFINE Bad == {i \in 0..size : ~Merging(w, f[i], s, O, p, i)}
<1>6. 0 \notin Bad
  <2>1. Rest(l, 0) = Elems(l)
    BY <1>2 DEF Rest, Elems, size
  <2>2. SameFrame(w, w)
    BY DEF SameFrame, SameMarks
  <2>3. Merging(w, w, s, O, p, 0)
    BY <1>2, <2>1, <2>2 DEF Merging, l
  <2> QED
    BY <1>5, <2>3
<1>7. ASSUME NEW i \in 1..size, i - 1 \notin Bad
      PROVE  i \notin Bad
  <2>1. Merging(w, f[i - 1], s, O, p, i - 1)
    BY <1>2, <1>7
  <2>2. i \in 1..Len(w.scopes[s].declared)
    BY DEF size, l
  <2>3. Merging(w, MergeUp(f[i - 1], P, w.scopes[s].declared[i]), s, O, p, i)
    <3> HIDE DEF Bad
    <3> QED
      BY <1>1, <1>4, <2>1, <2>2, MergeOneDone
  <2> QED
    BY <1>5, <2>3 DEF l
<1>8. Bad \in SUBSET Nat
  BY <1>2
<1>9. Bad = {}
  <2> SUFFICES ASSUME Bad # {} PROVE FALSE
    OBVIOUS
  <2>1. PICK i \in Bad : \A j \in Bad : i <= j
    BY <1>8, LeastNumber
  <2>2. i \in 0..size
    OBVIOUS
  <2> HIDE DEF Bad
  <2>3. i \in 1..size
    BY <1>2, <1>6, <2>1, <2>2
  <2>4. i - 1 \notin Bad
    BY <1>2, <2>1, <2>3
  <2> QED
    BY <1>7, <2>1, <2>3, <2>4
<1>10. Merging(w, f[size], s, O, p, size)
  BY <1>2, <1>9
<1> QED
  BY <1>3, <1>10 DEF size, l

\* A scope whose variables turn out to be those of the scope around it.
LEMMA UndeclareDone ==
    ASSUME NEW w, NEW s \in Scopes(w), NEW O, NEW p, GoodBut(w, s, Dec(w)[s], O, p), s \notin O,
           \A v \in Dec(w)[s] : Spare(w, O, v) /\ v \in Vars(w), Different(w.scopes[s].declared),
           w.scopes[s].parent \in O, Len(p) < UsesMod
    PROVE  LET u == UndeclareScope(w, s) IN
           /\ Good(u, O, p) /\ SameFrame(w, u)
<1> DEFINE l == w.scopes[s].declared
           g == MergedUp(w, s)
           u == UndeclareScope(w, s)
<1>1. w \in WorldSet
  BY DEF GoodBut
<1>2. l \in Seq(Nat) /\ Len(l) \in Nat
  BY <1>1, ListsTyped, LenProperties
<1>3. GoodBut(g, s, Rest(l, Len(l)), O, p) /\ SameFrame(w, g)
  <2>1. Merging(w, MergedUp(w, s), s, O, p, Len(l))
    BY MergeAll
  <2> QED
    BY <2>1, Zenon DEF Merging
<1>4. Rest(l, Len(l)) = {}
  BY <1>2 DEF Rest
<1> HIDE DEF l, g
<1>5. g \in WorldSet /\ s \in Scopes(g)
  BY <1>3 DEF GoodBut, SameFrame, Scopes
<1>6. u = WithLists(g, s, <<>>, <<>>)
  <2> DEFINE r == g.scopes[s]
             q == [r EXCEPT !.declared = <<>>, !.undeclared = <<>>]
  <2>1. r \in ScopeSet
    BY <1>5, WorldIs
  <2>2. u = [g EXCEPT !.scopes[s].declared = <<>>, !.scopes[s].undeclared = <<>>]
    BY Zenon DEF UndeclareScope, g
  <2>3. g.scopes \in Seq(ScopeSet) /\ s \in DOMAIN g.scopes
    BY <1>5, WorldIs DEF Scopes
  <2>4. u = [g EXCEPT !.scopes = [g.scopes EXCEPT ![s] = q]]
    <3> HIDE DEF u
    <3> QED
      BY <1>5, <2>1, <2>2, <2>3 DEF WorldSet, ScopeSet
  <2> QED
    BY <2>4 DEF WithLists
<1> HIDE DEF u
<1>7. <<>> \in Seq(Nat) /\ Elems(<<>>) = {} /\ Different(<<>>)
  BY DEF Elems, Different
<1>8. ListsAre(g, u, s, <<>>, <<>>)
  BY <1>5, <1>6, <1>7, SetLists DEF WithLists
<1>9. GoodBut(u, s, {}, O, p)
  BY <1>3, <1>4, <1>5, <1>7, <1>8, ButLists
<1>10. [Dec(u) EXCEPT ![s] = {}] = Dec(u)
  <2>1. Dec(u) = [Dec(g) EXCEPT ![s] = {}]
    BY <1>5, <1>7, <1>8, ListsViews
  <2> QED
    BY <2>1 DEF Dec
<1>11. Good(u, O, p)
  BY <1>9, <1>10, GoodIs DEF GoodBut
<1>12. SameFrame(w, u)
  <2>1. SameFrame(g, u)
    BY <1>8 DEF ListsAre
  <2> QED
    BY <1>3, <2>1, SameFrameTwice, Zenon
<1> QED
  BY <1>11, <1>12 DEF u

--------------------------------------------------------------------------------
(* The parser in one of the scopes *)

\* The scopes hang together, and a function's scope is around what it has declared in it.
TreeOk(w) ==
    /\ Rooted(w) /\ 1 \in Scopes(w) /\ w.scopes[1].kind # "paren"
    /\ \A s \in Scopes(w) : /\ w.scopes[s].parent = 0 <=> s = 1
                            /\ w.scopes[s].func \in Within(w, s, 0)

Fine(w, cur, p) == TreeOk(w) /\ cur \in Scopes(w) /\ Good(w, Within(w, cur, 0), p)

\* A scope is the innermost of those from it outwards.
LEMMA WithinHere ==
    ASSUME NEW w, Rooted(w), NEW s \in Scopes(w)
    PROVE  /\ s \in Within(w, s, 0) /\ Within(w, s, s) = {}
           /\ w.scopes[s].parent \in 0..(s - 1)
           /\ Within(w, s, 0) = Within(w, w.scopes[s].parent, 0) \cup {s}
           /\ Within(w, s, 0) \subseteq 1..s
           /\ w.scopes[s].parent # 0 => w.scopes[s].parent \in Scopes(w)
<1>1. Len(w.scopes) \in Nat /\ s \in 1..Len(w.scopes) /\ s \in Nat /\ 0 \in Nat
  BY DEF Rooted, Scopes
<1>2. /\ w.scopes[s].parent \in 0..(s - 1)
      /\ Within(w, s, 0) = Outwards(s, 0, Within(w, w.scopes[s].parent, 0))
      /\ Within(w, s, s) = Outwards(s, s, Within(w, w.scopes[s].parent, s))
  BY <1>1, WithinStep
<1>3. Within(w, s, 0) = Within(w, w.scopes[s].parent, 0) \cup {s} /\ Within(w, s, s) = {}
  BY <1>1, <1>2 DEF Outwards
<1>4. Within(w, s, 0) \subseteq 1..s
  <2>1. s \in 0..Len(w.scopes)
    BY <1>1
  <2> QED
    BY <1>1, <2>1, WithinInside
<1> QED
  BY <1>1, <1>2, <1>3, <1>4 DEF Scopes

\* The tree of scopes does not change with the lists.
LEMMA TreeFrame ==
    ASSUME NEW w, NEW u, NEW cur \in Scopes(w), NEW q, TreeOk(w), SameFrame(w, u),
           Good(u, Within(w, cur, 0), q)
    PROVE  Fine(u, cur, q)
<1>1. Rooted(w) /\ 1 \in Scopes(w)
  BY DEF TreeOk
<1>2. /\ Rooted(u) /\ Scopes(u) = Scopes(w)
      /\ \A s \in 0..Len(w.scopes), e \in Nat : Within(u, s, e) = Within(w, s, e)
  BY <1>1, FrameWithin
<1>3. \A s \in Scopes(w) : Within(u, s, 0) = Within(w, s, 0)
  <2>1. Scopes(w) \subseteq 0..Len(w.scopes) /\ 0 \in Nat
    BY <1>1 DEF Scopes, Rooted
  <2> QED
    BY <1>2, <2>1
<1>4. \A s \in Scopes(w) : SameMarks(w.scopes[s], u.scopes[s])
  BY DEF SameFrame
<1>5. TreeOk(u)
  BY <1>1, <1>2, <1>3, <1>4 DEF TreeOk, SameMarks
<1> QED
  BY <1>1, <1>2, <1>3, <1>5 DEF Fine

\* The same scopes, with other lists.
LEMMA FineFrame ==
    ASSUME NEW w, NEW u, NEW cur, NEW p, NEW q, Fine(w, cur, p), SameFrame(w, u),
           Good(u, Within(w, cur, 0), q)
    PROVE  Fine(u, cur, q)
  BY TreeFrame DEF Fine

\* Declare, called in the scope the parser is in.
LEMMA DeclareHere ==
    ASSUME NEW w, NEW p, NEW cur, Fine(w, cur, p), NEW decl \in DeclSet, decl # NoDecl,
           NEW name \in Names, Len(p) + 1 < UsesMod
    PROVE  LET r == Declare(w, cur, decl, name) IN
           \/ r.v = 0 /\ r.w = w
           \/ /\ r.v # 0 /\ SameFrame(w, r.w)
              /\ Fine(r.w, cur, Append(p, r.v))
<1> DEFINE r == Declare(w, cur, decl, name)
           O == Within(w, cur, 0)
<1>1. Rooted(w) /\ cur \in Scopes(w) /\ Good(w, O, p) /\ w.scopes[cur].func \in O
  BY DEF Fine, TreeOk
<1>2. cur \in O
  BY <1>1, WithinHere
<1>3. Place(w, cur, decl) \in O
  BY <1>1, <1>2, Zenon DEF Place
<1>4. \/ r.v = 0 /\ r.w = w
      \/ /\ r.v \in Vars(r.w) /\ SameFrame(w, r.w)
         /\ Good(r.w, O, Append(p, r.v))
  BY <1>1, <1>3, DeclareDone
<1> HIDE DEF r
<1>5. ASSUME r.v \in Vars(r.w), SameFrame(w, r.w), Good(r.w, O, Append(p, r.v))
      PROVE  r.v # 0 /\ SameFrame(w, r.w) /\ Fine(r.w, cur, Append(p, r.v))
  <2>1. Fine(r.w, cur, Append(p, r.v))
    BY <1>5, FineFrame
  <2> QED
    BY <1>5, <2>1 DEF Vars
<1> QED
  BY <1>4, <1>5 DEF r

\* A name is never refused in a scope that declares and uses nothing yet.
LEMMA DeclareFirst ==
    ASSUME NEW w, NEW p, NEW cur, Fine(w, cur, p), NEW decl \in DeclSet, decl # NoDecl,
           NEW name \in Names, Len(p) + 1 < UsesMod, ~Hoisted(decl),
           w.scopes[cur].declared = <<>>, w.scopes[cur].undeclared = <<>>
    PROVE  LET r == Declare(w, cur, decl, name) IN
           SameFrame(w, r.w) /\ Fine(r.w, cur, Append(p, r.v))
<1> DEFINE r == Declare(w, cur, decl, name)
           s == Place(w, cur, decl)
           old == FindDeclared(w, s, name, TRUE)
           reused == UsedBefore(w, s, decl, name)
           taken == w.scopes[s].undeclared[Min(reused)]
           fresh == Len(w.vars) + 1
<1>1. Rooted(w) /\ cur \in Scopes(w) /\ w \in WorldSet
  BY DEF Fine, TreeOk, Good
<1>2. s = cur
  BY DEF Place
<1>3. Within(w, cur, s) = {}
  BY <1>1, <1>2, WithinHere
<1>4. old = 0
  <2> DEFINE found == {i \in Named(w, <<>>, name) : TRUE => i > w.scopes[cur].numForDecls}
  <2>1. found = {}
    BY DEF Named
  <2>2. FindDeclared(w, cur, name, TRUE) = IF found = {} THEN 0 ELSE w.scopes[cur].declared[Max(found)]
    BY Zenon DEF FindDeclared
  <2> HIDE DEF found
  <2>3. FindDeclared(w, cur, name, TRUE) = 0
    BY <2>1, <2>2
  <2> QED
    BY <1>2, <2>3
<1>5. reused = {}
  <2> HIDE DEF s
  <2> QED
    BY <1>2 DEF UsedBefore, Named
<1>6. \/ (Within(w, cur, s) # {} \/ old # 0) /\ r = [w |-> w, v |-> 0]
      \/ old # 0 /\ r = [w |-> AddUndeclared(DeclaredAgain(w, old, decl), cur, s, old), v |-> old]
      \/ reused = {} /\ r = [w |-> AddUndeclared(DeclareFresh(w, s, decl, name), cur, s, fresh),
                             v |-> fresh]
      \/ reused # {} /\ r = [w |-> AddUndeclared(AddUses(TakenOver(w, s, decl, Min(reused)), taken, 1),
                                                 cur, s, taken),
                             v |-> taken]
  BY DeclareIs, Zenon
<1> HIDE DEF r, s, old, reused, fresh
<1>7. r.v = fresh
  BY <1>3, <1>4, <1>5, <1>6
<1>8. fresh # 0
  BY <1>1, WorldIs DEF fresh
<1>9. \/ r.v = 0 /\ r.w = w
      \/ /\ r.v # 0 /\ SameFrame(w, r.w)
         /\ Fine(r.w, cur, Append(p, r.v))
  BY DeclareHere DEF r
<1> QED
  BY <1>7, <1>8, <1>9 DEF r

\* Use, called in the scope the parser is in.
LEMMA UseHere ==
    ASSUME NEW w, NEW p, NEW cur, Fine(w, cur, p), NEW name \in Names, Len(p) + 1 < UsesMod
    PROVE  LET r == Use(w, cur, name) IN
           SameFrame(w, r.w) /\ Fine(r.w, cur, Append(p, r.v))
<1> DEFINE r == Use(w, cur, name)
           O == Within(w, cur, 0)
           t == Known(w, cur, name)
           n == Len(w.vars)
           old == AddUses(w, t, 1)
           new == UseFresh(w, cur, name)
<1>1. Rooted(w) /\ cur \in Scopes(w) /\ Good(w, O, p) /\ w \in WorldSet
  BY DEF Fine, TreeOk, Good
<1>2. cur \in O
  BY <1>1, WithinHere
<1>3. r = IF t # 0 THEN [w |-> old, v |-> t] ELSE [w |-> new, v |-> n + 1]
  BY UseIs
<1>4. t # 0 => SameFrame(w, old) /\ Good(old, O, Append(p, t))
  <2> SUFFICES ASSUME t # 0 PROVE SameFrame(w, old) /\ Good(old, O, Append(p, t))
    OBVIOUS
  <2>1. t \in Dec(w)[cur] \cup Und(w)[cur]
    BY <1>1, FoundKnown
  <2> HIDE DEF t, O
  <2>2. /\ VarsAre(w, AddUses(w, t, 1), Links(w), [Uses(w) EXCEPT ![t] = Uses(w)[t] + 1], Decls(w))
        /\ Good(AddUses(w, t, 1), O, Append(p, t))
    BY <1>1, <1>2, <2>1, UseOld
  <2>3. SameFrame(w, AddUses(w, t, 1))
    BY <2>2 DEF VarsAre, SameFrame, SameMarks
  <2> QED
    BY <2>2, <2>3
<1>5. SameFrame(w, new) /\ Good(new, O, Append(p, n + 1))
  <2>1. 1 < UsesMod
    <3>1. Len(p) \in Nat
      BY <1>1 DEF Good, Counted
    <3> QED
      BY <3>1, JSScopeAssumption
  <2> HIDE DEF O
  <2> QED
    BY <1>1, <1>2, <2>1, UseNew
<1> HIDE DEF r, t, n, old, new
<1>6. SameFrame(w, r.w) /\ Good(r.w, O, Append(p, r.v))
  BY <1>3, <1>4, <1>5
<1>7. Fine(r.w, cur, Append(p, r.v))
  BY <1>6, FineFrame
<1> QED
  BY <1>6, <1>7 DEF r

--------------------------------------------------------------------------------
(* Scopes that are entered, marked and left *)

Entered(w, cur, kind, part) ==
    [w EXCEPT !.scopes = Append(@, NewScope(kind, cur,
        IF kind \in {"func", "paren"} THEN Len(w.scopes) + 1 ELSE w.scopes[cur].func,
        part, w.scopes[cur].part))]

EnteredDone(w, u, cur, p) ==
    LET id == Len(w.scopes) + 1 IN
    /\ Fine(u, id, p) /\ Len(u.scopes) = id /\ u.vars = w.vars
    /\ u.scopes[id].declared = <<>> /\ u.scopes[id].undeclared = <<>>

LEMMA EnterDone ==
    ASSUME NEW w, NEW cur, NEW p, Fine(w, cur, p), NEW kind \in KindSet, NEW part \in PartSet
    PROVE  EnteredDone(w, Entered(w, cur, kind, part), cur, p)
<1> DEFINE n == Len(w.scopes)
           id == n + 1
           func == IF kind \in {"func", "paren"} THEN id ELSE w.scopes[cur].func
           r == NewScope(kind, cur, func, part, w.scopes[cur].part)
           ss == Append(w.scopes, r)
           u == Entered(w, cur, kind, part)
           O == Within(w, cur, 0)
<1>1. /\ w \in WorldSet /\ cur \in Scopes(w) /\ Rooted(w) /\ 1 \in Scopes(w) /\ n \in Nat
      /\ w.scopes[1].kind # "paren"
      /\ \A s \in Scopes(w) : /\ w.scopes[s].parent = 0 <=> s = 1
                              /\ w.scopes[s].func \in Within(w, s, 0)
      /\ Good(w, O, p)
  BY DEF Fine, TreeOk, Good, Rooted
<1>2. w.scopes \in Seq(ScopeSet) /\ w.scopes[cur] \in ScopeSet
  BY <1>1, WorldIs
<1>3. /\ r.parent = cur /\ r.func = func /\ r.declared = <<>> /\ r.undeclared = <<>>
      /\ r.numForDecls = 0 /\ r.numArgUses = 0
  BY DEF NewScope
<1>4. r \in ScopeSet
  <2>1. cur \in Nat /\ func \in Nat
    <3>1. w.scopes[cur].func \in Nat
      BY <1>2 DEF ScopeSet
    <3>2. cur \in 1..n /\ id \in Nat
      BY <1>1 DEF Scopes
    <3> HIDE DEF n, id
    <3> QED
      BY <3>1, <3>2
  <2>2. w.scopes[cur].part \in PartSet
    BY <1>2 DEF ScopeSet
  <2>3. <<>> \in Seq(Nat)
    OBVIOUS
  <2> HIDE DEF func
  <2> QED
    BY <2>1, <2>2, <2>3 DEF NewScope, ScopeSet
<1>5. u = [w EXCEPT !.scopes = ss]
  BY <1>1 DEF Entered, WorldSet
<1> HIDE DEF r, u, O
<1>6. /\ ss \in Seq(ScopeSet) /\ Len(ss) = id /\ ss[id] = r
      /\ \A s \in 1..n : ss[s] = w.scopes[s]
  BY <1>1, <1>2, <1>4, AppendProperties
<1> HIDE DEF ss
<1>7. u \in WorldSet /\ u.vars = w.vars /\ u.scopes = ss
  BY <1>1, <1>5, <1>6, SetScopes
<1>8. /\ Scopes(u) = 1..id /\ Scopes(w) = 1..n /\ Vars(u) = Vars(w)
      /\ Links(u) = Links(w) /\ Uses(u) = Uses(w) /\ Decls(u) = Decls(w)
  BY <1>6, <1>7 DEF Scopes, Vars, Links, Uses, Decls
<1>9. Dec(u) = Grown(Dec(w), n, {}) /\ Und(u) = Grown(Und(w), n, {})
  <2>1. Elems(<<>>) = {}
    BY DEF Elems
  <2>2. ASSUME NEW s \in 1..id
        PROVE  /\ Elems(ss[s].declared) = IF s = id THEN {} ELSE Dec(w)[s]
               /\ Elems(ss[s].undeclared) = IF s = id THEN {} ELSE Und(w)[s]
    <3>1. CASE s = id
      BY <1>3, <1>6, <2>1, <3>1
    <3>2. CASE s \in 1..n
      BY <1>1, <1>6, <1>8, <3>2 DEF Dec, Und
    <3> QED
      BY <1>1, <3>1, <3>2
  <2> HIDE DEF n
  <2>3. Dec(u) = [s \in 1..id |-> Elems(ss[s].declared)] /\ Und(u) = [s \in 1..id |-> Elems(ss[s].undeclared)]
    BY <1>7, <1>8, Zenon DEF Dec, Und
  <2> QED
    BY <2>2, <2>3 DEF Grown
<1>10. Rooted(u)
  <2>1. Descending(Parents(u), id)
    <3>1. ASSUME NEW t \in 1..id PROVE Parents(u)[t] \in Nat /\ Parents(u)[t] < t
      <4>1. Parents(u)[t] = ss[t].parent
        BY <1>7, <1>8 DEF Parents
      <4>2. CASE t = id
        BY <1>1, <1>3, <1>6, <1>8, <4>1, <4>2
      <4>3. CASE t \in 1..n
        BY <1>1, <1>6, <1>8, <4>1, <4>3 DEF Rooted, Descending, Parents
      <4> QED
        BY <1>1, <4>2, <4>3
    <3> QED
      BY <3>1 DEF Descending
  <2> QED
    BY <1>1, <1>6, <1>7, <2>1 DEF Rooted
<1>11. ASSUME NEW s \in 0..n PROVE Within(u, s, 0) = Within(w, s, 0)
  <2>1. AgreeFrom(1, s, Parents(w), Parents(u))
    <3>1. \A t \in 1..s : t \in 1..n /\ t \in 1..id
      BY <1>1
    <3> QED
      BY <1>6, <1>7, <1>8, <3>1 DEF AgreeFrom, Parents
  <2>2. s \in Nat /\ s <= Len(w.scopes) /\ s <= Len(u.scopes) /\ 0 \in Nat
    BY <1>1, <1>6, <1>7
  <2>3. Rooted(w)
    BY <1>1
  <2> QED
    BY <1>10, <2>1, <2>2, <2>3, WithinSame, Zenon
<1>12. Within(u, id, 0) = O \cup {id} /\ id \in Within(u, id, 0)
  <2>1. id \in Scopes(u) /\ u.scopes[id].parent = cur /\ cur \in 0..n
    BY <1>1, <1>3, <1>6, <1>7, <1>8
  <2> QED
    BY <1>10, <1>11, <2>1, WithinHere DEF O
<1>13. TreeOk(u)
  <2>1. 1 \in Scopes(u) /\ u.scopes[1].kind # "paren"
    BY <1>1, <1>6, <1>7, <1>8
  <2>2. ASSUME NEW s \in Scopes(u)
        PROVE  /\ u.scopes[s].parent = 0 <=> s = 1
               /\ u.scopes[s].func \in Within(u, s, 0)
    <3>1. CASE s = id
      <4>1. w.scopes[cur].func \in O
        BY <1>1 DEF O
      <4>2. func \in Within(u, id, 0)
        BY <1>12, <4>1
      <4>3. u.scopes[s].parent = cur /\ u.scopes[s].func = func /\ cur # 0 /\ s # 1
        BY <1>1, <1>3, <1>6, <1>7, <1>8, <3>1
      <4> QED
        BY <3>1, <4>2, <4>3
    <3>2. CASE s \in 1..n
      BY <1>1, <1>6, <1>7, <1>8, <1>11, <3>2
    <3> QED
      BY <1>1, <1>8, <3>1, <3>2
  <2> QED
    BY <1>10, <2>1, <2>2 DEF TreeOk
<1>14. Good(u, O \cup {id}, p)
  <2>1. Listing(Links(w), Decls(w), Dec(w), Und(w), O) /\ Placed(w, O) /\ Counted(Links(w), Uses(w), p)
    BY <1>1, GoodIs
  <2>2. Listing(Links(u), Decls(u), Dec(u), Und(u), O \cup {id})
    <3>1. DOMAIN Dec(w) = 1..n
      BY <1>8 DEF Dec
    <3> HIDE DEF n
    <3>2. Listing(Links(w), Decls(w), Grown(Dec(w), n, {}), Grown(Und(w), n, {}), O \cup {n + 1})
      BY <1>1, <2>1, <3>1, ListingEntered
    <3> QED
      BY <1>8, <1>9, <3>2, Zenon
  <2>3. Placed(u, O \cup {id})
    <3>1. /\ Different(<<>>) /\ DifferentOf(Decls(u), <<>>) /\ Len(<<>>) = 0
      BY DEF Different, DifferentOf
    <3>2. O \subseteq 1..n
      BY <1>8, <2>1 DEF Placed
    <3>3. ASSUME NEW s \in 1..id PROVE Different(u.scopes[s].declared)
      <4>1. s = id \/ s \in 1..n
        BY <1>1
      <4> QED
        BY <1>3, <1>6, <1>7, <1>8, <2>1, <3>1, <4>1 DEF Placed, Singles
    <3>4. ASSUME NEW s \in O \cup {id}
          PROVE  /\ DifferentOf(Decls(u), u.scopes[s].undeclared)
                 /\ u.scopes[s].numForDecls <= Len(u.scopes[s].declared)
                 /\ u.scopes[s].numArgUses <= Len(u.scopes[s].undeclared)
      <4>1. CASE s = id
        BY <1>3, <1>6, <1>7, <3>1, <4>1
      <4>2. CASE s \in O
        BY <1>6, <1>7, <1>8, <2>1, <3>2, <4>2 DEF Placed, Singles, Marks
      <4> QED
        BY <4>1, <4>2
    <3>5. O \cup {id} \subseteq 1..id
      <4>1. 1..n \subseteq 1..id /\ id \in 1..id
        BY <1>1
      <4> QED
        BY <3>2, <4>1
    <3> QED
      BY <1>8, <3>3, <3>4, <3>5 DEF Placed, Singles, Marks
  <2> QED
    BY <1>7, <1>8, <2>1, <2>2, <2>3, GoodIs
<1>15. Fine(u, id, p)
  <2>1. id \in Scopes(u)
    BY <1>1, <1>8
  <2> QED
    BY <1>12, <1>13, <1>14, <2>1 DEF Fine
<1> QED
  BY <1>3, <1>6, <1>7, <1>15 DEF EnteredDone, u

\* What the parser sets in a scope besides its lists.
Touched(w, u, s, r) ==
    /\ r \in ScopeSet /\ u = [w EXCEPT !.scopes = [w.scopes EXCEPT ![s] = r]]
    /\ r.declared = w.scopes[s].declared /\ r.undeclared = w.scopes[s].undeclared
    /\ r.parent = w.scopes[s].parent /\ r.func = w.scopes[s].func
    /\ r.kind = "paren" => w.scopes[s].kind = "paren"
    /\ r.numForDecls <= Len(r.declared) /\ r.numArgUses <= Len(r.undeclared)

LEMMA TouchDone ==
    ASSUME NEW w, NEW cur, NEW p, Fine(w, cur, p), NEW s \in Scopes(w), NEW r, NEW u,
           Touched(w, u, s, r)
    PROVE  Fine(u, cur, p) /\ Len(u.scopes) = Len(w.scopes) /\ u.scopes[s] = r
<1> DEFINE ss == [w.scopes EXCEPT ![s] = r]
           O == Within(w, cur, 0)
<1>1. /\ w \in WorldSet /\ cur \in Scopes(w) /\ Rooted(w) /\ 1 \in Scopes(w) /\ Len(w.scopes) \in Nat
      /\ w.scopes[1].kind # "paren"
      /\ \A t \in Scopes(w) : /\ w.scopes[t].parent = 0 <=> t = 1
                              /\ w.scopes[t].func \in Within(w, t, 0)
      /\ Good(w, O, p)
  BY DEF Fine, TreeOk, Good, Rooted
<1>2. /\ r \in ScopeSet /\ u = [w EXCEPT !.scopes = ss]
      /\ r.declared = w.scopes[s].declared /\ r.undeclared = w.scopes[s].undeclared
      /\ r.parent = w.scopes[s].parent /\ r.func = w.scopes[s].func
      /\ r.kind = "paren" => w.scopes[s].kind = "paren"
      /\ r.numForDecls <= Len(r.declared) /\ r.numArgUses <= Len(r.undeclared)
  BY DEF Touched
<1>3. /\ ss \in Seq(ScopeSet) /\ Len(ss) = Len(w.scopes)
      /\ \A t \in Scopes(w) : ss[t] = IF t = s THEN r ELSE w.scopes[t]
  <2>1. w.scopes \in Seq(ScopeSet) /\ s \in 1..Len(w.scopes)
    BY <1>1, WorldIs DEF Scopes
  <2> QED
    BY <1>2, <2>1, ExceptSeq DEF Scopes
<1> HIDE DEF ss, O
<1>4. u \in WorldSet /\ u.vars = w.vars /\ u.scopes = ss
  BY <1>1, <1>2, <1>3, SetScopes
<1>5. Scopes(u) = Scopes(w) /\ Vars(u) = Vars(w) /\ Len(u.scopes) = Len(w.scopes) /\ u.scopes[s] = r
  BY <1>3, <1>4 DEF Scopes, Vars
<1>6. \A t \in Scopes(w) : /\ u.scopes[t].declared = w.scopes[t].declared
                           /\ u.scopes[t].undeclared = w.scopes[t].undeclared
                           /\ u.scopes[t].parent = w.scopes[t].parent
                           /\ u.scopes[t].func = w.scopes[t].func
                           /\ u.scopes[t].kind = "paren" => w.scopes[t].kind = "paren"
                           /\ t # s => u.scopes[t] = w.scopes[t]
  BY <1>2, <1>3, <1>4
<1>7. /\ Links(u) = Links(w) /\ Uses(u) = Uses(w) /\ Decls(u) = Decls(w)
      /\ Dec(u) = Dec(w) /\ Und(u) = Und(w) /\ Parents(u) = Parents(w)
  BY <1>4, <1>5, <1>6 DEF Links, Uses, Decls, Dec, Und, Parents
<1>8. Rooted(u)
  BY <1>1, <1>5, <1>7, Zenon DEF Rooted
<1>9. ASSUME NEW t \in Scopes(w) PROVE Within(u, t, 0) = Within(w, t, 0)
  <2>1. t \in Nat /\ t <= Len(w.scopes) /\ t <= Len(u.scopes) /\ 0 \in Nat
    BY <1>1, <1>5 DEF Scopes
  <2>2. AgreeFrom(1, t, Parents(w), Parents(u))
    BY <1>7 DEF AgreeFrom
  <2>3. Rooted(w)
    BY <1>1
  <2> QED
    BY <1>8, <2>1, <2>2, <2>3, WithinSame, Zenon
<1>10. TreeOk(u)
  BY <1>1, <1>5, <1>6, <1>8, <1>9 DEF TreeOk
<1>11. Good(u, O, p)
  <2>1. Placed(u, O)
    BY <1>1, <1>2, <1>5, <1>6, <1>7, GoodIs DEF Placed, Singles, Marks
  <2> QED
    BY <1>1, <1>4, <1>7, <2>1, GoodIs
<1> QED
  BY <1>1, <1>5, <1>9, <1>10, <1>11 DEF Fine, O

\* The scopes that are around the one that closes.
LEMMA AroundParent ==
    ASSUME NEW w, NEW s, NEW p, Fine(w, s, p), s # 1
    PROVE  LET P == w.scopes[s].parent
               O == Within(w, P, 0) IN
           /\ P \in Scopes(w) /\ P \in O /\ s \notin O /\ \A t \in O : t <= s
           /\ Within(w, s, 0) = O \cup {s} /\ Good(w, O \cup {s}, p)
<1> DEFINE P == w.scopes[s].parent
           O == Within(w, P, 0)
<1>1. /\ Rooted(w) /\ s \in Scopes(w) /\ Good(w, Within(w, s, 0), p) /\ P # 0
  BY DEF Fine, TreeOk
<1>2. /\ P \in 0..(s - 1) /\ Within(w, s, 0) = O \cup {s} /\ P \in Scopes(w)
  BY <1>1, WithinHere
<1>3. P \in O /\ O \subseteq 1..P
  BY <1>1, <1>2, WithinHere
<1>4. s \in Nat /\ P \in Nat /\ P < s
  BY <1>1, <1>2 DEF Scopes
<1> HIDE DEF P, O
<1>5. s \notin O /\ \A t \in O : t <= s
  BY <1>3, <1>4
<1>6. Good(w, O \cup {s}, p)
  BY <1>1, <1>2
<1> QED
  BY <1>2, <1>3, <1>5, <1>6 DEF P, O

LEMMA ExitDone ==
    ASSUME NEW w, NEW s, NEW p, Fine(w, s, p), s # 1, Len(p) < UsesMod
    PROVE  /\ Fine(HoistUndeclared(w, s), w.scopes[s].parent, p)
           /\ Len(HoistUndeclared(w, s).scopes) = Len(w.scopes)
<1> DEFINE P == w.scopes[s].parent
           O == Within(w, P, 0)
           u == HoistUndeclared(w, s)
<1>1. /\ P \in Scopes(w) /\ P \in O /\ s \notin O /\ \A t \in O : t <= s
      /\ Good(w, O \cup {s}, p)
  BY AroundParent
<1>2. TreeOk(w) /\ s \in Scopes(w)
  BY DEF Fine
<1> HIDE DEF O
<1>3. Good(u, O, p) /\ SameFrame(w, u)
  BY <1>1, <1>2, HoistDone
<1> HIDE DEF P, u
<1>4. Fine(u, P, p)
  BY <1>1, <1>2, <1>3, TreeFrame DEF O
<1> QED
  BY <1>3, <1>4 DEF P, u, SameFrame

LEMMA ExitGroupDone ==
    ASSUME NEW w, NEW s, NEW p, Fine(w, s, p), s # 1, Len(p) < UsesMod
    PROVE  LET u == UndeclareScope(HoistUndeclared(w, s), s) IN
           Fine(u, w.scopes[s].parent, p) /\ Len(u.scopes) = Len(w.scopes)
<1> DEFINE P == w.scopes[s].parent
           O == Within(w, P, 0)
           g == HoistUndeclared(w, s)
           u == UndeclareScope(g, s)
<1>1. /\ P \in Scopes(w) /\ P \in O /\ s \notin O /\ \A t \in O : t <= s
      /\ Good(w, O \cup {s}, p)
  BY AroundParent
<1>2. TreeOk(w) /\ s \in Scopes(w)
  BY DEF Fine
<1> HIDE DEF O
<1>3. /\ GoodBut(g, s, Dec(g)[s], O, p) /\ SameFrame(w, g)
      /\ \A v \in Dec(g)[s] : Spare(g, O, v) /\ v \in Vars(g)
      /\ Different(g.scopes[s].declared)
  BY <1>1, <1>2, HoistDone
<1>4. s \in Scopes(g) /\ g.scopes[s].parent = P
  BY <1>2, <1>3 DEF SameFrame, SameMarks, Scopes
<1> HIDE DEF P, g
<1>5. Good(u, O, p) /\ SameFrame(g, u)
  BY <1>1, <1>3, <1>4, UndeclareDone
<1> HIDE DEF u
<1>6. SameFrame(w, u)
  BY <1>3, <1>5, SameFrameTwice, Zenon
<1>7. Fine(u, P, p)
  BY <1>1, <1>2, <1>5, <1>6, TreeFrame DEF O
<1> QED
  BY <1>6, <1>7 DEF P, u, g, SameFrame

--------------------------------------------------------------------------------
(* An identifier that turns out to be the parameter of an arrow function *)

LEMMA FrontAppend ==
    ASSUME NEW S, NEW l \in Seq(S), NEW x \in S
    PROVE  Front(Append(l, x)) = l
<1> DEFINE m == Append(l, x)
           f == SubSeq(m, 1, Len(m) - 1)
<1>1. /\ m \in Seq(S) /\ Len(m) = Len(l) + 1 /\ Len(l) \in Nat
      /\ \A i \in 1..Len(l) : m[i] = l[i]
  BY AppendProperties, LenProperties
<1> HIDE DEF m
<1>2. f \in Seq(S) /\ Len(f) = Len(l) /\ \A i \in 1..Len(l) : f[i] = m[i]
  BY <1>1, SubSeqProperties
<1>3. Front(m) = f
  BY DEF Front
<1> HIDE DEF f
<1>4. f = l
  BY <1>1, <1>2, SeqEqual
<1> QED
  BY <1>3, <1>4 DEF m

\* An element of a list that has grown is replaced.
Put(l, i, y) == [l EXCEPT ![i] = y]

LEMMA AppendExcept ==
    ASSUME NEW S, NEW l \in Seq(S), NEW x \in S, NEW y \in S
    PROVE  /\ Put(Append(l, x), Len(l) + 1, y) = Append(l, y)
           /\ \A i \in 1..Len(l) : Put(Append(l, x), i, y) = Append(Put(l, i, y), x)
<1> DEFINE n == Len(l)
           m == Append(l, x)
<1>1. /\ n \in Nat /\ m \in Seq(S) /\ Len(m) = n + 1 /\ m[n + 1] = x /\ \A i \in 1..n : m[i] = l[i]
  BY AppendProperties, LenProperties
<1>2. /\ Append(l, y) \in Seq(S) /\ Len(Append(l, y)) = n + 1 /\ Append(l, y)[n + 1] = y
      /\ \A i \in 1..n : Append(l, y)[i] = l[i]
  BY AppendProperties, LenProperties
<1> HIDE DEF n, m
<1>3. [m EXCEPT ![n + 1] = y] = Append(l, y)
  <2> DEFINE a == [m EXCEPT ![n + 1] = y]
             b == Append(l, y)
  <2>1. a \in Seq(S) /\ Len(a) = n + 1 /\ \A i \in 1..n + 1 : a[i] = IF i = n + 1 THEN y ELSE m[i]
    <3>1. n + 1 \in 1..Len(m)
      BY <1>1
    <3> QED
      BY <1>1, <3>1, ExceptSeq
  <2> HIDE DEF a, b
  <2>2. \A i \in 1..n + 1 : a[i] = b[i]
    <3>1. \A i \in 1..n + 1 : i = n + 1 \/ i \in 1..n
      BY <1>1
    <3> QED
      BY <1>1, <1>2, <2>1, <3>1 DEF b
  <2>3. b \in Seq(S) /\ Len(b) = n + 1
    BY <1>2 DEF b
  <2>4. a = b
    BY <2>1, <2>2, <2>3, SeqEqual
  <2> QED
    BY <2>4 DEF a, b
<1>4. ASSUME NEW i \in 1..n PROVE [m EXCEPT ![i] = y] = Append([l EXCEPT ![i] = y], x)
  <2> DEFINE a == [m EXCEPT ![i] = y]
             k == [l EXCEPT ![i] = y]
             b == Append(k, x)
  <2>1. a \in Seq(S) /\ Len(a) = n + 1 /\ \A j \in 1..n + 1 : a[j] = IF j = i THEN y ELSE m[j]
    <3>1. i \in 1..Len(m)
      BY <1>1
    <3> QED
      BY <1>1, <3>1, ExceptSeq
  <2>2. k \in Seq(S) /\ Len(k) = n /\ \A j \in 1..n : k[j] = IF j = i THEN y ELSE l[j]
    BY ExceptSeq DEF n
  <2> HIDE DEF a, k
  <2>3. b \in Seq(S) /\ Len(b) = n + 1 /\ b[n + 1] = x /\ \A j \in 1..n : b[j] = k[j]
    BY <2>2, AppendProperties
  <2> HIDE DEF b
  <2>4. ASSUME NEW j \in 1..n + 1 PROVE a[j] = b[j]
    <3>1. n + 1 # i
      BY <1>1
    <3>2. CASE j = n + 1
      BY <1>1, <2>1, <2>3, <3>1, <3>2
    <3>3. CASE j \in 1..n
      <4>1. b[j] = (IF j = i THEN y ELSE l[j]) /\ m[j] = l[j]
        BY <1>1, <2>2, <2>3, <3>3
      <4> QED
        BY <2>1, <4>1
    <3> QED
      BY <1>1, <3>2, <3>3
  <2>5. a = b
    BY <2>1, <2>3, <2>4, SeqEqual
  <2> QED
    BY <2>5 DEF a, b, k
<1> QED
  BY <1>3, <1>4 DEF n, m, Put

\* The use of a variable is taken back.
Unused(w, v) == [w EXCEPT !.vars[v].uses = @ - 1]

LEMMA UnusedIs ==
    ASSUME NEW w \in WorldSet, NEW v \in Vars(w), Uses(w)[v] + 1 < UsesMod, NEW cur, NEW kind, NEW part
    PROVE  Unused(Entered(AddUses(w, v, 1), cur, kind, part), v) = Entered(w, cur, kind, part)
<1> DEFINE a == AddUses(w, v, 1)
           x == w.vars[v]
           y == [x EXCEPT !.uses = (@ + 1) % UsesMod]
           vs == [w.vars EXCEPT ![v] = y]
           NS == NewScope(kind, cur, IF kind \in {"func", "paren"} THEN Len(w.scopes) + 1 ELSE w.scopes[cur].func,
                          part, w.scopes[cur].part)
           e == [vars |-> vs, scopes |-> Append(w.scopes, NS)]
<1>1. w.vars \in Seq(VarSet) /\ x \in VarSet /\ v \in 1..Len(w.vars)
  BY WorldIs DEF Vars
<1>2. x.uses \in Nat /\ x.uses + 1 < UsesMod
  BY <1>1, ViewsOf DEF VarSet
<1>3. ((x.uses + 1) % UsesMod) - 1 = x.uses
  BY <1>2, JSScopeAssumption
<1>4. w = [vars |-> w.vars, scopes |-> w.scopes]
  BY DEF WorldSet
<1>5. a = [vars |-> vs, scopes |-> w.scopes]
  <2>1. a = [w EXCEPT !.vars = vs]
    BY <1>1 DEF AddUses, WorldSet
  <2> HIDE DEF a, vs
  <2> QED
    BY <1>4, <2>1
<1>6. Entered(w, cur, kind, part) = [vars |-> w.vars, scopes |-> Append(w.scopes, NS)]
  <2>1. Entered(w, cur, kind, part) = [w EXCEPT !.scopes = Append(w.scopes, NS)]
    BY DEF Entered, WorldSet
  <2> HIDE DEF NS
  <2> QED
    BY <1>4, <2>1
<1>7. Entered(a, cur, kind, part) = e
  <2>1. a.scopes = w.scopes
    BY <1>5
  <2>2. Entered(a, cur, kind, part) = [a EXCEPT !.scopes = Append(w.scopes, NS)]
    <3> HIDE DEF a
    <3>1. a = [vars |-> vs, scopes |-> w.scopes]
      BY <1>5
    <3> HIDE DEF vs
    <3>2. Entered(a, cur, kind, part) =
             [a EXCEPT !.scopes = Append(a.scopes, NewScope(kind, cur,
                IF kind \in {"func", "paren"} THEN Len(a.scopes) + 1 ELSE a.scopes[cur].func,
                part, a.scopes[cur].part))]
      BY <3>1 DEF Entered
    <3> QED
      BY <2>1, <3>2
  <2> HIDE DEF a, NS, vs
  <2> QED
    BY <1>5, <2>2
<1>8. Unused(e, v) = [e EXCEPT !.vars = [vs EXCEPT ![v].uses = @ - 1]]
  <2> HIDE DEF vs, NS
  <2> QED
    BY DEF Unused
<1>9. [vs EXCEPT ![v].uses = @ - 1] = w.vars
  <2>1. y.uses - 1 = x.uses
    BY <1>1, <1>3 DEF VarSet
  <2>2. [y EXCEPT !.uses = y.uses - 1] = x
    BY <1>1, <2>1 DEF VarSet
  <2> HIDE DEF y
  <2>3. vs[v] = y
    BY <1>1
  <2>4. [vs EXCEPT ![v].uses = @ - 1] = [vs EXCEPT ![v] = x]
    BY <2>2, <2>3
  <2>5. [vs EXCEPT ![v] = x] = w.vars
    BY <1>1
  <2> QED
    BY <2>4, <2>5
<1> HIDE DEF vs, NS, a
<1>10. Unused(e, v) = [vars |-> w.vars, scopes |-> Append(w.scopes, NS)]
  BY <1>8, <1>9
<1> QED
  BY <1>6, <1>7, <1>10 DEF a

\* The variable of that use becomes the parameter.
MovedIn(w, cur, id, v) ==
    [w EXCEPT !.scopes[cur].undeclared = Front(@), !.vars[v].decl = ArgumentDecl,
              !.scopes[id].declared = Append(@, v)]

MadeOf(vs, ss) == [vars |-> vs, scopes |-> ss]

\* The parts of a world that an operator changes.
OneMore(vs, name, decl) == Append(vs, [name |-> name, link |-> 0, uses |-> 0, decl |-> decl])
MoreUses(vs, i, x) == [vs EXCEPT ![i].uses = (@ + x) % UsesMod]
Argument(vs, i) == [vs EXCEPT ![i].decl = ArgumentDecl]
AlsoDeclared(ss, i, x) == [ss EXCEPT ![i].declared = Append(@, x)]
AlsoUndeclared(ss, i, x) == [ss EXCEPT ![i].undeclared = Append(@, x)]
Inside(ss, i, kind, part) ==
    Append(ss, NewScope(kind, i, IF kind \in {"func", "paren"} THEN Len(ss) + 1 ELSE ss[i].func,
                        part, ss[i].part))
MovedLists(ss, i, j, x) ==
    [[ss EXCEPT ![i].undeclared = Front(@)] EXCEPT ![j].declared = Append(ss[j].declared, x)]

DeclareIn(w, i, x) == [w EXCEPT !.scopes[i].declared = Append(@, x)]
UndeclareIn(w, i, x) == [w EXCEPT !.scopes[i].undeclared = Append(@, x)]

LEMMA MadeParts ==
    ASSUME NEW vs, NEW ss, NEW x
    PROVE  /\ MadeOf(vs, ss).vars = vs /\ MadeOf(vs, ss).scopes = ss
           /\ [MadeOf(vs, ss) EXCEPT !.vars = x] = MadeOf(x, ss)
           /\ [MadeOf(vs, ss) EXCEPT !.scopes = x] = MadeOf(vs, x)
BY DEF MadeOf

LEMMA MadeNew ==
    ASSUME NEW vs, NEW ss, NEW x, NEW y
    PROVE  NewVar(MadeOf(vs, ss), x, y) = MadeOf(OneMore(vs, x, y), ss)
<1> DEFINE m == MadeOf(vs, ss)
           z == OneMore(m.vars, x, y)
<1>1. NewVar(m, x, y) = [m EXCEPT !.vars = z]
  BY Zenon DEF NewVar, OneMore
<1>2. z = OneMore(vs, x, y)
  BY MadeParts
<1> HIDE DEF z
<1>3. [m EXCEPT !.vars = z] = MadeOf(z, ss)
  BY MadeParts
<1> QED
  BY <1>1, <1>2, <1>3

LEMMA MadeUsed ==
    ASSUME NEW vs, NEW ss, NEW i, NEW x
    PROVE  AddUses(MadeOf(vs, ss), i, x) = MadeOf(MoreUses(vs, i, x), ss)
<1> DEFINE m == MadeOf(vs, ss)
           z == MoreUses(m.vars, i, x)
<1>1. AddUses(m, i, x) = [m EXCEPT !.vars = z]
  <2> HIDE DEF m
  <2> QED
    BY DEF AddUses, MoreUses
<1>2. z = MoreUses(vs, i, x)
  BY MadeParts
<1> HIDE DEF z
<1>3. [m EXCEPT !.vars = z] = MadeOf(z, ss)
  BY MadeParts
<1> QED
  BY <1>1, <1>2, <1>3

LEMMA MadeDeclared ==
    ASSUME NEW vs, NEW ss, NEW i, NEW x
    PROVE  DeclareIn(MadeOf(vs, ss), i, x) = MadeOf(vs, AlsoDeclared(ss, i, x))
<1> DEFINE m == MadeOf(vs, ss)
           z == AlsoDeclared(m.scopes, i, x)
<1>1. DeclareIn(m, i, x) = [m EXCEPT !.scopes = z]
  <2> HIDE DEF m
  <2> QED
    BY DEF DeclareIn, AlsoDeclared
<1>2. z = AlsoDeclared(ss, i, x)
  BY MadeParts
<1> HIDE DEF z
<1>3. [m EXCEPT !.scopes = z] = MadeOf(vs, z)
  BY MadeParts
<1> QED
  BY <1>1, <1>2, <1>3

LEMMA MadeUndeclared ==
    ASSUME NEW vs, NEW ss, NEW i, NEW x
    PROVE  UndeclareIn(MadeOf(vs, ss), i, x) = MadeOf(vs, AlsoUndeclared(ss, i, x))
<1> DEFINE m == MadeOf(vs, ss)
           z == AlsoUndeclared(m.scopes, i, x)
<1>1. UndeclareIn(m, i, x) = [m EXCEPT !.scopes = z]
  <2> HIDE DEF m
  <2> QED
    BY DEF UndeclareIn, AlsoUndeclared
<1>2. z = AlsoUndeclared(ss, i, x)
  BY MadeParts
<1> HIDE DEF z
<1>3. [m EXCEPT !.scopes = z] = MadeOf(vs, z)
  BY MadeParts
<1> QED
  BY <1>1, <1>2, <1>3

LEMMA MadeEntered ==
    ASSUME NEW vs, NEW ss, NEW i, NEW kind, NEW part
    PROVE  Entered(MadeOf(vs, ss), i, kind, part) = MadeOf(vs, Inside(ss, i, kind, part))
BY DEF Entered, MadeOf, Inside

LEMMA MadeMoved ==
    ASSUME NEW vs, NEW ss, NEW i, NEW j, NEW x
    PROVE  MovedIn(MadeOf(vs, ss), i, j, x) = MadeOf(Argument(vs, x), MovedLists(ss, i, j, x))
<1> DEFINE s1 == [ss EXCEPT ![i].undeclared = Front(@)]
           v1 == [vs EXCEPT ![x].decl = ArgumentDecl]
           d == Append(ss[j].declared, x)
           s2 == [s1 EXCEPT ![j].declared = d]
           A(w) == [w EXCEPT !.scopes[i].undeclared = Front(@)]
           B(w) == [w EXCEPT !.vars[x].decl = ArgumentDecl]
           C(w) == [w EXCEPT !.scopes[j].declared = d]
<1>1. A(MadeOf(vs, ss)) = MadeOf(vs, s1)
  BY DEF MadeOf
<1>2. \A s : B(MadeOf(vs, s)) = MadeOf(v1, s)
  BY DEF MadeOf
<1>3. \A v : C(MadeOf(v, s1)) = MadeOf(v, s2)
  <2> HIDE DEF d
  <2> QED
    BY DEF MadeOf
<1>4. MadeOf(vs, ss).scopes = ss
  BY DEF MadeOf
<1>5. MovedIn(MadeOf(vs, ss), i, j, x) = C(B(A(MadeOf(vs, ss))))
  BY <1>4 DEF MovedIn
<1> HIDE DEF s1, v1, s2, A, B, C
<1>6. MovedIn(MadeOf(vs, ss), i, j, x) = MadeOf(v1, s2)
  BY <1>1, <1>2, <1>3, <1>5
<1> QED
  BY <1>6 DEF v1, s2, s1, Argument, MovedLists

LEMMA MovedInIs ==
    ASSUME NEW w \in WorldSet, NEW cur \in Scopes(w), NEW name \in Names,
           NEW part \in PartSet, NEW kind \in KindSet, 1 < UsesMod,
           NEW n, n = Len(w.vars), NEW m, m = Len(w.scopes), NEW id, id = m + 1
    PROVE  MovedIn(Entered(UseFresh(w, cur, name), cur, kind, part), cur, id, n + 1)
             = DeclareFresh(Entered(w, cur, kind, part), id, ArgumentDecl, name)
<1> DEFINE V(k, d) == [name |-> name, link |-> 0, uses |-> k, decl |-> d]
           vs(k, d) == Append(w.vars, V(k, d))
           c == w.scopes[cur]
           c2 == [c EXCEPT !.undeclared = Append(c.undeclared, n + 1)]
           NS == NewScope(kind, cur, IF kind \in {"func", "paren"} THEN id ELSE c.func, part, c.part)
           NS2 == [NS EXCEPT !.declared = Append(NS.declared, n + 1)]
           ss2 == [w.scopes EXCEPT ![cur] = c2]
<1>1. /\ w.vars \in Seq(VarSet) /\ w.scopes \in Seq(ScopeSet) /\ n \in Nat /\ m \in Nat
      /\ c \in ScopeSet /\ cur \in 1..m
  BY WorldIs DEF Scopes
<1>2. w = MadeOf(w.vars, w.scopes)
  BY DEF WorldSet, MadeOf
<1>3. /\ \A k, d : Len(vs(k, d)) = n + 1 /\ vs(k, d)[n + 1] = V(k, d)
      /\ \A k \in 0..1, d \in DeclSet : V(k, d) \in VarSet
      /\ NoDecl \in DeclSet /\ ArgumentDecl \in DeclSet
  <2>1. \A k \in 0..1 : k \in 0..(UsesMod - 1)
    BY JSScopeAssumption
  <2>2. NoDecl \in DeclSet /\ ArgumentDecl \in DeclSet
    BY DEF DeclSet
  <2>3. \A k \in 0..1, d \in DeclSet : V(k, d) \in VarSet
    BY <2>1 DEF VarSet
  <2> QED
    BY <1>1, <2>2, <2>3
<1>4. \A d \in DeclSet : [vs(0, d) EXCEPT ![n + 1].uses = (@ + 1) % UsesMod] = vs(1, d)
  <2>1. (0 + 1) % UsesMod = 1
    BY JSScopeAssumption
  <2>2. \A d : [V(0, d) EXCEPT !.uses = 1] = V(1, d)
    OBVIOUS
  <2>3. TAKE d \in DeclSet
  <2>4. V(0, d).uses = 0
    OBVIOUS
  <2> HIDE DEF V
  <2>5. [vs(0, d) EXCEPT ![n + 1].uses = (@ + 1) % UsesMod] = [vs(0, d) EXCEPT ![n + 1] = V(1, d)]
    <3>1. vs(0, d)[n + 1] = V(0, d)
      BY <1>3
    <3>2. [V(0, d) EXCEPT !.uses = (V(0, d).uses + 1) % UsesMod] = V(1, d)
      BY <2>1, <2>2, <2>4
    <3> HIDE DEF vs
    <3> QED
      BY <3>1, <3>2
  <2>6. [vs(0, d) EXCEPT ![n + 1] = V(1, d)] = vs(1, d)
    <3>1. Put(vs(0, d), n + 1, V(1, d)) = vs(1, d)
      BY <1>1, <1>3, AppendExcept
    <3> QED
      BY <3>1 DEF Put
  <2> QED
    BY <2>5, <2>6
<1>5. [vs(1, NoDecl) EXCEPT ![n + 1].decl = ArgumentDecl] = vs(1, ArgumentDecl)
  <2>1. [V(1, NoDecl) EXCEPT !.decl = ArgumentDecl] = V(1, ArgumentDecl)
    OBVIOUS
  <2> HIDE DEF V
  <2>2. [vs(1, NoDecl) EXCEPT ![n + 1].decl = ArgumentDecl] = [vs(1, NoDecl) EXCEPT ![n + 1] = V(1, ArgumentDecl)]
    BY <1>3, <2>1
  <2>3. [vs(1, NoDecl) EXCEPT ![n + 1] = V(1, ArgumentDecl)] = vs(1, ArgumentDecl)
    <3>1. Put(vs(1, NoDecl), n + 1, V(1, ArgumentDecl)) = vs(1, ArgumentDecl)
      BY <1>1, <1>3, AppendExcept
    <3> QED
      BY <3>1 DEF Put
  <2> QED
    BY <2>2, <2>3
<1>6. c2 \in ScopeSet /\ c2.part = c.part /\ c2.func = c.func /\ c2.undeclared = Append(c.undeclared, n + 1)
      /\ c.undeclared \in Seq(Nat) /\ n + 1 \in Nat
  <2>1. c.undeclared \in Seq(Nat)
    BY <1>1 DEF ScopeSet
  <2> HIDE DEF c
  <2>2. Append(c.undeclared, n + 1) \in Seq(Nat)
    BY <1>1, <2>1, AppendProperties
  <2>3. c \in ScopeSet /\ n + 1 \in Nat
    BY <1>1
  <2>4. c2 \in ScopeSet
    BY <2>2, <2>3 DEF ScopeSet
  <2>5. c2.part = c.part /\ c2.func = c.func /\ c2.undeclared = Append(c.undeclared, n + 1)
    BY <2>3 DEF ScopeSet
  <2> QED
    BY <2>1, <2>3, <2>4, <2>5
<1> HIDE DEF vs, V
<1>7. UseFresh(w, cur, name) = MadeOf(vs(1, NoDecl), ss2)
  <2>1. NewVar(MadeOf(w.vars, w.scopes), name, NoDecl) = MadeOf(vs(0, NoDecl), w.scopes)
    <3>1. NewVar(MadeOf(w.vars, w.scopes), name, NoDecl) = MadeOf(OneMore(w.vars, name, NoDecl), w.scopes)
      BY MadeNew
    <3> QED
      BY <3>1, Zenon DEF vs, V, OneMore
  <2>2. UndeclareIn(MadeOf(vs(0, NoDecl), w.scopes), cur, n + 1)
          = MadeOf(vs(0, NoDecl), AlsoUndeclared(w.scopes, cur, n + 1))
    BY MadeUndeclared
  <2>3. AlsoUndeclared(w.scopes, cur, n + 1) = ss2
    BY <1>1 DEF AlsoUndeclared
  <2>4. AddUses(MadeOf(vs(0, NoDecl), ss2), n + 1, 1) = MadeOf(MoreUses(vs(0, NoDecl), n + 1, 1), ss2)
    BY MadeUsed
  <2>5. MoreUses(vs(0, NoDecl), n + 1, 1) = vs(1, NoDecl)
    BY <1>3, <1>4 DEF MoreUses
  <2>6. UseFresh(MadeOf(w.vars, w.scopes), cur, name) =
           AddUses(UndeclareIn(NewVar(MadeOf(w.vars, w.scopes), name, NoDecl), cur, n + 1), n + 1, 1)
    <3>1. Len(MadeOf(w.vars, w.scopes).vars) = n
      BY DEF MadeOf
    <3> QED
      BY <3>1 DEF UseFresh, UndeclareIn
  <2> HIDE DEF ss2
  <2>7. UseFresh(MadeOf(w.vars, w.scopes), cur, name) = MadeOf(vs(1, NoDecl), ss2)
    BY <2>1, <2>2, <2>3, <2>4, <2>5, <2>6
  <2> QED
    BY <1>2, <2>7
<1>8. Len(ss2) = m /\ ss2 \in Seq(ScopeSet) /\ ss2[cur].part = c.part /\ ss2[cur].func = c.func /\ ss2[cur] = c2
  <2> HIDE DEF c2
  <2> QED
    BY <1>1, <1>6, ExceptSeq
<1>9. NS \in ScopeSet /\ NS2 \in ScopeSet
  <2>1. cur \in Nat /\ id \in Nat /\ c.func \in Nat /\ c.part \in PartSet /\ <<>> \in Seq(Nat)
    <3> HIDE DEF c
    <3> QED
      BY <1>1 DEF ScopeSet
  <2>2. (IF kind \in {"func", "paren"} THEN id ELSE c.func) \in Nat
    <3> HIDE DEF c
    <3> QED
      BY <2>1
  <2> HIDE DEF c
  <2>3. NS \in ScopeSet
    BY <2>1, <2>2 DEF NewScope, ScopeSet
  <2> HIDE DEF NS
  <2>4. Append(NS.declared, n + 1) \in Seq(Nat)
    <3>1. NS.declared \in Seq(Nat)
      BY <2>3 DEF ScopeSet
    <3> QED
      BY <1>1, <3>1, AppendProperties
  <2> QED
    BY <2>3, <2>4 DEF ScopeSet
<1>10. /\ [Append(w.scopes, NS) EXCEPT ![id] = NS2] = Append(w.scopes, NS2)
       /\ Append(w.scopes, NS)[id] = NS
       /\ Append(ss2, NS)[id] = NS /\ Append(ss2, NS)[cur] = c2
       /\ [Append(ss2, NS) EXCEPT ![cur] = c] = Append([ss2 EXCEPT ![cur] = c], NS)
  <2> HIDE DEF NS, NS2, ss2, c, c2
  <2>1. Put(Append(w.scopes, NS), Len(w.scopes) + 1, NS2) = Append(w.scopes, NS2)
    BY <1>1, <1>9, AppendExcept
  <2>2. Append(w.scopes, NS)[Len(w.scopes) + 1] = NS
    BY <1>1, <1>9, AppendProperties
  <2>3. Append(ss2, NS)[Len(ss2) + 1] = NS /\ Append(ss2, NS)[cur] = ss2[cur]
    BY <1>1, <1>8, <1>9, AppendProperties
  <2>4. cur \in 1..Len(ss2)
    BY <1>1, <1>8
  <2>5. Put(Append(ss2, NS), cur, c) = Append(Put(ss2, cur, c), NS)
    <3>1. ss2 \in Seq(ScopeSet)
      BY <1>8
    <3>2. NS \in ScopeSet
      BY <1>9
    <3>3. c \in ScopeSet
      BY <1>1
    <3> QED
      BY <2>4, <3>1, <3>2, <3>3, AppendExcept
  <2> QED
    BY <1>8, <2>1, <2>2, <2>3, <2>5 DEF Put
<1>11. Entered(UseFresh(w, cur, name), cur, kind, part) = MadeOf(vs(1, NoDecl), Append(ss2, NS))
  <2>1. Append(ss2, NS) = Inside(ss2, cur, kind, part)
    <3>1. NS = NewScope(kind, cur, IF kind \in {"func", "paren"} THEN Len(ss2) + 1 ELSE ss2[cur].func,
                        part, ss2[cur].part)
      BY <1>8
    <3> HIDE DEF NS, ss2
    <3> QED
      BY <3>1, Zenon DEF Inside
  <2> HIDE DEF NS, ss2
  <2>2. Entered(MadeOf(vs(1, NoDecl), ss2), cur, kind, part)
         = MadeOf(vs(1, NoDecl), Inside(ss2, cur, kind, part))
    BY MadeEntered
  <2> QED
    BY <1>7, <2>1, <2>2, Zenon
<1>12. Entered(w, cur, kind, part) = MadeOf(w.vars, Append(w.scopes, NS))
  <2>1. Entered(MadeOf(w.vars, w.scopes), cur, kind, part) = MadeOf(w.vars, Inside(w.scopes, cur, kind, part))
    BY MadeEntered
  <2>2. Append(w.scopes, NS) = Inside(w.scopes, cur, kind, part)
    BY Zenon DEF Inside
  <2> QED
    BY <1>2, <2>1, <2>2, Zenon
<1>13. [c2 EXCEPT !.undeclared = Front(c2.undeclared)] = c
  <2>1. Front(Append(c.undeclared, n + 1)) = c.undeclared
    <3> HIDE DEF c
    <3> QED
      BY <1>6, FrontAppend
  <2>2. Front(c2.undeclared) = c.undeclared
    BY <1>6, <2>1
  <2>3. [c2 EXCEPT !.undeclared = c.undeclared] = c
    BY <1>1 DEF ScopeSet
  <2> QED
    BY <2>2, <2>3
<1> HIDE DEF NS, c2
<1>14. [[Append(ss2, NS) EXCEPT ![cur].undeclared = Front(@)] EXCEPT ![id].declared = Append(NS.declared, n + 1)]
        = Append(w.scopes, NS2)
  <2>1. [Append(ss2, NS) EXCEPT ![cur].undeclared = Front(@)] = [Append(ss2, NS) EXCEPT ![cur] = c]
    BY <1>10, <1>13
  <2>2. [ss2 EXCEPT ![cur] = c] = w.scopes
    BY <1>1
  <2>3. [Append(w.scopes, NS) EXCEPT ![id].declared = Append(NS.declared, n + 1)] = [Append(w.scopes, NS) EXCEPT ![id] = NS2]
    BY <1>10
  <2> QED
    BY <1>10, <2>1, <2>2, <2>3
<1> DEFINE last == MadeOf(vs(1, ArgumentDecl), Append(w.scopes, NS2))
<1>15. MovedIn(MadeOf(vs(1, NoDecl), Append(ss2, NS)), cur, id, n + 1) = last
  <2>1. MovedIn(MadeOf(vs(1, NoDecl), Append(ss2, NS)), cur, id, n + 1)
         = MadeOf(Argument(vs(1, NoDecl), n + 1), MovedLists(Append(ss2, NS), cur, id, n + 1))
    BY MadeMoved
  <2>2. Argument(vs(1, NoDecl), n + 1) = vs(1, ArgumentDecl)
    BY <1>5, Zenon DEF Argument
  <2>3. MovedLists(Append(ss2, NS), cur, id, n + 1) = Append(w.scopes, NS2)
    <3> HIDE DEF ss2, NS2
    <3> QED
      BY <1>10, <1>14 DEF MovedLists
  <2> QED
    BY <2>1, <2>2, <2>3, Zenon
<1>16. DeclareFresh(MadeOf(w.vars, Append(w.scopes, NS)), id, ArgumentDecl, name) = last
  <2> DEFINE f == MadeOf(w.vars, Append(w.scopes, NS))
  <2>1. NewVar(f, name, ArgumentDecl) = MadeOf(vs(0, ArgumentDecl), Append(w.scopes, NS))
    <3>1. NewVar(f, name, ArgumentDecl) = MadeOf(OneMore(w.vars, name, ArgumentDecl), Append(w.scopes, NS))
      BY MadeNew
    <3> QED
      BY <3>1, Zenon DEF vs, V, OneMore
  <2>2. DeclareIn(MadeOf(vs(0, ArgumentDecl), Append(w.scopes, NS)), id, n + 1)
          = MadeOf(vs(0, ArgumentDecl), AlsoDeclared(Append(w.scopes, NS), id, n + 1))
    BY MadeDeclared
  <2>3. AlsoDeclared(Append(w.scopes, NS), id, n + 1) = Append(w.scopes, NS2)
    BY <1>10 DEF AlsoDeclared
  <2>4. AddUses(MadeOf(vs(0, ArgumentDecl), Append(w.scopes, NS2)), n + 1, 1)
         = MadeOf(MoreUses(vs(0, ArgumentDecl), n + 1, 1), Append(w.scopes, NS2))
    BY MadeUsed
  <2>5. MoreUses(vs(0, ArgumentDecl), n + 1, 1) = vs(1, ArgumentDecl)
    BY <1>3, <1>4 DEF MoreUses
  <2>6. DeclareFresh(f, id, ArgumentDecl, name) =
           AddUses(DeclareIn(NewVar(f, name, ArgumentDecl), id, n + 1), n + 1, 1)
    <3>1. Len(f.vars) = n
      BY DEF MadeOf
    <3> HIDE DEF f
    <3> QED
      BY <3>1 DEF DeclareFresh, DeclareIn
  <2> DEFINE a1 == MadeOf(vs(0, ArgumentDecl), Append(w.scopes, NS))
             a2 == MadeOf(vs(0, ArgumentDecl), Append(w.scopes, NS2))
  <2>7. DeclareIn(a1, id, n + 1) = a2
    BY <2>2, <2>3
  <2>8. AddUses(a2, n + 1, 1) = last
    BY <2>4, <2>5
  <2> HIDE DEF f, a1, a2, last
  <2>9. DeclareFresh(f, id, ArgumentDecl, name) = last
    <3>1. NewVar(f, name, ArgumentDecl) = a1
      BY <2>1 DEF a1
    <3> QED
      BY <2>6, <2>7, <2>8, <3>1
  <2> QED
    BY <2>9 DEF f
<1> HIDE DEF last
<1> QED
  BY <1>11, <1>12, <1>15, <1>16

\* parseIdentifierArrowFunc, up to the mark: the identifier is used in the scope
\* around the function and then declared or moved in the function's.
Arrowed(w, cur, name) ==
    LET id == Len(w.scopes) + 1
        u == Use(w, cur, name)
        e == Entered(u.w, cur, "func", "head")
    IN  IF 1 < u.w.vars[u.v].uses THEN Declare(Unused(e, u.v), id, ArgumentDecl, name)
        ELSE [w |-> MovedIn(e, cur, id, u.v), v |-> u.v]

LEMMA ArrowDone ==
    ASSUME NEW w, NEW cur, NEW p, Fine(w, cur, p), NEW name \in Names, Len(p) + 1 < UsesMod
    PROVE  LET r == Arrowed(w, cur, name)
               id == Len(w.scopes) + 1 IN
           Fine(r.w, id, Append(p, r.v)) /\ Len(r.w.scopes) = id
<1> DEFINE id == Len(w.scopes) + 1
           u == Use(w, cur, name)
           t == Known(w, cur, name)
           e == Entered(u.w, cur, "func", "head")
           f == Entered(w, cur, "func", "head")
           O == Within(w, cur, 0)
           r == Arrowed(w, cur, name)
<1>1. Rooted(w) /\ cur \in Scopes(w) /\ Good(w, O, p) /\ w \in WorldSet
  BY DEF Fine, TreeOk, Good
<1>2. cur \in O
  BY <1>1, WithinHere
<1>3. "func" \in KindSet /\ "head" \in PartSet /\ ArgumentDecl \in DeclSet /\ ArgumentDecl # NoDecl /\ ~Hoisted(ArgumentDecl)
  BY DEF KindSet, PartSet, DeclSet, ArgumentDecl, NoDecl, Hoisted, VariableDecl, FunctionDecl
<1>4. Fine(f, id, p) /\ Len(f.scopes) = id /\ f.scopes[id].declared = <<>> /\ f.scopes[id].undeclared = <<>>
      /\ f.vars = w.vars
  <2>1. EnteredDone(w, f, cur, p)
    BY <1>3, EnterDone
  <2> HIDE DEF f
  <2> QED
    BY <2>1 DEF EnteredDone
<1>5. u = IF t # 0 THEN [w |-> AddUses(w, t, 1), v |-> t]
          ELSE [w |-> UseFresh(w, cur, name), v |-> Len(w.vars) + 1]
  BY UseIs
<1>6. r = IF 1 < u.w.vars[u.v].uses THEN Declare(Unused(e, u.v), id, ArgumentDecl, name)
          ELSE [w |-> MovedIn(e, cur, id, u.v), v |-> u.v]
  BY Zenon DEF Arrowed
<1>7. SUFFICES Fine(r.w, id, Append(p, r.v)) /\ Len(r.w.scopes) = id
  OBVIOUS
<1> HIDE DEF r, u, O, t, f
<1>8. CASE t # 0
  <2> DEFINE a == AddUses(w, t, 1)
  <2>1. t \in Dec(w)[cur] \cup Und(w)[cur]
    BY <1>1, <1>8, FoundKnown DEF t
  <2>2. /\ t \in Vars(w) /\ Uses(w)[t] \in Nat /\ Uses(w)[t] > 0 /\ Uses(w)[t] <= Len(p) /\ Len(p) \in Nat
        /\ DOMAIN Uses(w) = Vars(w)
    BY <1>1, <1>2, <2>1, KnownUnlinked
  <2>3. VarsAre(w, AddUses(w, t, 1), Links(w), [Uses(w) EXCEPT ![t] = Uses(w)[t] + 1], Decls(w))
    BY <1>1, <1>2, <2>1, UseOld
  <2>4. Uses(a)[t] = Uses(w)[t] + 1 /\ t \in Vars(a)
    <3> HIDE DEF a
    <3>1. Uses(a) = [Uses(w) EXCEPT ![t] = Uses(w)[t] + 1]
      BY <2>3 DEF VarsAre, a
    <3>2. DOMAIN Uses(a) = DOMAIN Uses(w)
      BY <3>1
    <3> QED
      BY <2>2, <3>1, <3>2 DEF Uses
  <2>5. 1 < u.w.vars[u.v].uses
    <3>1. Uses(a)[t] = a.vars[t].uses
      BY <2>4, ViewsOf
    <3> HIDE DEF a
    <3>2. u.w = a /\ u.v = t
      BY <1>5, <1>8 DEF a
    <3> QED
      BY <2>2, <2>4, <3>1, <3>2
  <2>6. Uses(w)[t] + 1 < UsesMod
    BY <2>2, JSScopeAssumption
  <2>7. Unused(Entered(AddUses(w, t, 1), cur, "func", "head"), t) = f
    BY <1>1, <2>2, <2>6, UnusedIs DEF f
  <2>8. Unused(e, u.v) = f
    <3>1. u.w = AddUses(w, t, 1) /\ u.v = t
      BY <1>5, <1>8
    <3> QED
      BY <2>7, <3>1
  <2>9. r = Declare(f, id, ArgumentDecl, name)
    BY <1>6, <2>5, <2>8
  <2>10. SameFrame(f, Declare(f, id, ArgumentDecl, name).w)
         /\ Fine(Declare(f, id, ArgumentDecl, name).w, id, Append(p, Declare(f, id, ArgumentDecl, name).v))
    <3> HIDE DEF id
    <3> QED
      BY <1>3, <1>4, DeclareFirst
  <2> QED
    BY <1>4, <2>9, <2>10 DEF SameFrame
<1>9. CASE t = 0
  <2> DEFINE n == Len(w.vars)
             g == DeclareFresh(f, id, ArgumentDecl, name)
             a == UseFresh(w, cur, name)
  <2>1. 1 < UsesMod
    <3>1. Len(p) \in Nat
      BY <1>1 DEF Good, Counted
    <3> QED
      BY <3>1, JSScopeAssumption
  <2>2. Uses(a)[n + 1] = 1 /\ n \in Nat /\ Len(a.vars) = n + 1
    BY <1>1, <1>2, <2>1, UseNew
  <2>3. u.w = a /\ u.v = n + 1
    BY <1>5, <1>9
  <2>4. a.vars[n + 1].uses = 1
    <3> HIDE DEF a, n
    <3>1. n + 1 \in Vars(a)
      BY <2>2 DEF Vars
    <3> QED
      BY <2>2, <3>1, ViewsOf
  <2>5. r = [w |-> MovedIn(e, cur, id, n + 1), v |-> n + 1]
    <3> HIDE DEF a, n, e, id
    <3> QED
      BY <1>6, <2>3, <2>4
  <2>6. MovedIn(Entered(UseFresh(w, cur, name), cur, "func", "head"), cur, id, n + 1)
          = DeclareFresh(Entered(w, cur, "func", "head"), id, ArgumentDecl, name)
    <3> DEFINE m == Len(w.scopes)
    <3>1. n = Len(w.vars) /\ m = Len(w.scopes) /\ id = m + 1
      OBVIOUS
    <3>2. w \in WorldSet /\ cur \in Scopes(w) /\ "head" \in PartSet /\ "func" \in KindSet
      BY <1>1, <1>3
    <3> HIDE DEF n, m, id
    <3> QED
      BY <2>1, <3>1, <3>2, MovedInIs
  <2>7. MovedIn(e, cur, id, n + 1) = g
    BY <2>3, <2>6 DEF f
  <2>8. Good(g, Within(f, id, 0), Append(p, n + 1)) /\ SameFrame(f, g)
    <3> DEFINE Q == Within(f, id, 0)
    <3>1. Good(f, Q, p)
      BY <1>4 DEF Fine
    <3>2. id \in Q
      <4> HIDE DEF id
      <4> QED
        BY <1>4, WithinHere DEF Fine, TreeOk
    <3> HIDE DEF Q, id
    <3>3. /\ Good(DeclareFresh(f, id, ArgumentDecl, name), Q, Append(p, Len(f.vars) + 1))
          /\ SameFrame(f, DeclareFresh(f, id, ArgumentDecl, name))
      BY <1>3, <2>1, <3>1, <3>2, DeclareNew
    <3> QED
      BY <1>4, <3>3 DEF Q
  <2> HIDE DEF g, e, n, id
  <2>9. Fine(g, id, Append(p, n + 1))
    BY <1>4, <2>8, FineFrame
  <2> QED
    BY <1>4, <2>5, <2>7, <2>8, <2>9 DEF SameFrame
<1> QED
  BY <1>8, <1>9

--------------------------------------------------------------------------------
(* What the parser sets in the scope it is in *)

SetScope(w, s, r) == [w EXCEPT !.scopes = [w.scopes EXCEPT ![s] = r]]

SetDone(w, u, cur, p) == Fine(u, cur, p) /\ Len(u.scopes) = Len(w.scopes)

LEMMA SetHere ==
    ASSUME NEW w, NEW cur, NEW p, Fine(w, cur, p), NEW r, r \in ScopeSet,
           r.declared = w.scopes[cur].declared, r.undeclared = w.scopes[cur].undeclared,
           r.parent = w.scopes[cur].parent, r.func = w.scopes[cur].func,
           r.kind = "paren" => w.scopes[cur].kind = "paren",
           r.numForDecls = w.scopes[cur].numForDecls \/ r.numForDecls = Len(r.declared),
           r.numArgUses = w.scopes[cur].numArgUses \/ r.numArgUses = Len(r.undeclared)
    PROVE  SetDone(w, SetScope(w, cur, r), cur, p)
<1> DEFINE u == SetScope(w, cur, r)
           c == w.scopes[cur]
<1>1. cur \in Scopes(w) /\ Rooted(w) /\ Good(w, Within(w, cur, 0), p)
  BY DEF Fine, TreeOk
<1>2. cur \in Within(w, cur, 0)
  BY <1>1, WithinHere
<1>3. c.numForDecls <= Len(c.declared) /\ c.numArgUses <= Len(c.undeclared)
  BY <1>1, <1>2 DEF Good, Marks
<1>4. Len(r.declared) \in Nat /\ Len(r.undeclared) \in Nat
  BY LenProperties DEF ScopeSet
<1>5. r.numForDecls <= Len(r.declared) /\ r.numArgUses <= Len(r.undeclared)
  <2> HIDE DEF c
  <2> QED
    BY <1>3, <1>4 DEF c
<1>6. u = [w EXCEPT !.scopes = [w.scopes EXCEPT ![cur] = r]]
  BY DEF SetScope
<1> HIDE DEF u
<1>7. Touched(w, u, cur, r)
  BY <1>5, <1>6 DEF Touched
<1>8. Fine(u, cur, p) /\ Len(u.scopes) = Len(w.scopes)
  BY <1>1, <1>7, TouchDone
<1> QED
  BY <1>8 DEF SetDone, u

\* The scope of the parser, as a record.
LEMMA HereIs ==
    ASSUME NEW w, NEW cur, NEW p, Fine(w, cur, p)
    PROVE  /\ w \in WorldSet /\ cur \in Scopes(w) /\ w.scopes[cur] \in ScopeSet
           /\ Len(w.scopes) \in Nat /\ cur \in Nat /\ DOMAIN w.scopes = Scopes(w)
<1>1. w \in WorldSet /\ cur \in Scopes(w)
  BY DEF Fine, Good
<1> QED
  BY <1>1, WorldIs DEF Scopes

Begun(w, s) == [w EXCEPT !.scopes[s].part = "body", !.scopes[s].kind =
                   IF @ = "paren" THEN "func" ELSE @]

LEMMA BeginDone ==
    ASSUME NEW w, NEW cur, NEW p, Fine(w, cur, p)
    PROVE  SetDone(w, Begun(w, cur), cur, p)
<1> DEFINE c == w.scopes[cur]
           k == IF c.kind = "paren" THEN "func" ELSE c.kind
           r == [c EXCEPT !.part = "body", !.kind = k]
<1>1. w \in WorldSet /\ cur \in DOMAIN w.scopes /\ c \in ScopeSet
  BY HereIs
<1>2. Begun(w, cur) = SetScope(w, cur, r)
  BY <1>1 DEF Begun, SetScope, WorldSet
<1> HIDE DEF c
<1>3. k \in KindSet /\ (k = "paren" => c.kind = "paren")
  BY <1>1 DEF ScopeSet, KindSet
<1>4. "body" \in PartSet
  BY DEF PartSet
<1> HIDE DEF k
<1>5. /\ r \in ScopeSet /\ r.declared = c.declared /\ r.undeclared = c.undeclared
      /\ r.parent = c.parent /\ r.func = c.func /\ r.kind = k
      /\ r.numForDecls = c.numForDecls /\ r.numArgUses = c.numArgUses
  BY <1>1, <1>3, <1>4 DEF ScopeSet
<1> HIDE DEF r
<1>6. SetDone(w, SetScope(w, cur, r), cur, p)
  BY <1>3, <1>5, SetHere DEF c
<1> QED
  BY <1>2, <1>6

LEMMA MarkFuncDone ==
    ASSUME NEW w, NEW cur, NEW p, Fine(w, cur, p)
    PROVE  SetDone(w, MarkFuncArgs(w, cur), cur, p)
<1> DEFINE c == w.scopes[cur]
           k == Len(c.undeclared)
           r == [c EXCEPT !.numArgUses = k]
<1>1. w \in WorldSet /\ cur \in DOMAIN w.scopes /\ c \in ScopeSet
  BY HereIs
<1>2. MarkFuncArgs(w, cur) = SetScope(w, cur, r)
  BY <1>1 DEF MarkFuncArgs, SetScope, WorldSet
<1> HIDE DEF c
<1>3. k \in Nat
  BY <1>1, LenProperties DEF ScopeSet
<1> HIDE DEF k
<1>5. /\ r \in ScopeSet /\ r.declared = c.declared /\ r.undeclared = c.undeclared
      /\ r.parent = c.parent /\ r.func = c.func /\ r.kind = c.kind
      /\ r.numForDecls = c.numForDecls /\ r.numArgUses = k
  BY <1>1, <1>3 DEF ScopeSet
<1>6. r.numArgUses = Len(r.undeclared)
  BY <1>5 DEF k
<1> HIDE DEF r
<1>7. SetDone(w, SetScope(w, cur, r), cur, p)
  BY <1>5, <1>6, SetHere DEF c
<1> QED
  BY <1>2, <1>7

LEMMA MarkForDone ==
    ASSUME NEW w, NEW cur, NEW p, Fine(w, cur, p)
    PROVE  SetDone(w, MarkForStmt(w, cur), cur, p)
<1> DEFINE c == w.scopes[cur]
           k == Len(c.undeclared)
           d == Len(c.declared)
           r == [c EXCEPT !.numForDecls = d, !.numArgUses = k]
<1>1. w \in WorldSet /\ cur \in DOMAIN w.scopes /\ c \in ScopeSet
  BY HereIs
<1>2. MarkForStmt(w, cur) = SetScope(w, cur, r)
  BY <1>1 DEF MarkForStmt, SetScope, WorldSet
<1> HIDE DEF c
<1>3. k \in Nat /\ d \in Nat
  BY <1>1, LenProperties DEF ScopeSet
<1> HIDE DEF k, d
<1>5. /\ r \in ScopeSet /\ r.declared = c.declared /\ r.undeclared = c.undeclared
      /\ r.parent = c.parent /\ r.func = c.func /\ r.kind = c.kind
      /\ r.numForDecls = d /\ r.numArgUses = k
  BY <1>1, <1>3 DEF ScopeSet
<1>6. r.numArgUses = Len(r.undeclared) /\ r.numForDecls = Len(r.declared)
  BY <1>5 DEF k, d
<1> HIDE DEF r
<1>7. SetDone(w, SetScope(w, cur, r), cur, p)
  BY <1>5, <1>6, SetHere DEF c
<1> QED
  BY <1>2, <1>7

\* The flags of the parser, and the kind of a group.
LEMMA FlagDone ==
    ASSUME NEW w, NEW cur, NEW p, Fine(w, cur, p), NEW b \in BOOLEAN
    PROVE  /\ SetDone(w, [w EXCEPT !.scopes[cur].params = b], cur, p)
           /\ SetDone(w, [w EXCEPT !.scopes[cur].rest = b], cur, p)
           /\ SetDone(w, [w EXCEPT !.scopes[cur].kind = "group"], cur, p)
           /\ [w EXCEPT !.scopes[cur].kind = "group"].scopes[cur].parent = w.scopes[cur].parent
<1> DEFINE c == w.scopes[cur]
           r1 == [c EXCEPT !.params = b]
           r2 == [c EXCEPT !.rest = b]
           r3 == [c EXCEPT !.kind = "group"]
<1>1. w \in WorldSet /\ cur \in DOMAIN w.scopes /\ c \in ScopeSet
  BY HereIs
<1>2. /\ [w EXCEPT !.scopes[cur].params = b] = SetScope(w, cur, r1)
      /\ [w EXCEPT !.scopes[cur].rest = b] = SetScope(w, cur, r2)
      /\ [w EXCEPT !.scopes[cur].kind = "group"] = SetScope(w, cur, r3)
  BY <1>1 DEF SetScope, WorldSet
<1>3. SetScope(w, cur, r3).scopes[cur].parent = c.parent
  BY <1>1 DEF SetScope, WorldSet, ScopeSet
<1> HIDE DEF c
<1>4. "group" \in KindSet
  BY DEF KindSet
<1>5. \A r \in {r1, r2, r3} :
         /\ r \in ScopeSet /\ r.declared = c.declared /\ r.undeclared = c.undeclared
         /\ r.parent = c.parent /\ r.func = c.func /\ (r.kind = "paren" => c.kind = "paren")
         /\ r.numForDecls = c.numForDecls /\ r.numArgUses = c.numArgUses
  BY <1>1, <1>4 DEF ScopeSet
<1> HIDE DEF r1, r2, r3
<1>6. ASSUME NEW r \in {r1, r2, r3} PROVE SetDone(w, SetScope(w, cur, r), cur, p)
  BY <1>5, SetHere DEF c
<1> QED
  BY <1>2, <1>3, <1>6 DEF c

--------------------------------------------------------------------------------
(* The inductive invariant *)

IdSet == [name : Names, scope : Nat, part : PartSet, decl : DeclSet, v : Nat]

\* The variables the identifiers of a program stand for.
Ids(prog) == [i \in 1..Len(prog) |-> prog[i].v]

InOrder(w, cur, prog) ==
    /\ Fine(w, cur, Ids(prog))
    /\ prog \in Seq(IdSet) /\ Len(prog) <= MaxLength
    /\ \A i \in 1..Len(prog) : prog[i].scope \in Scopes(w)

Inv == InOrder(World, scope, program) /\ failed \in BOOLEAN

LEMMA IdsAppend ==
    ASSUME NEW prog \in Seq(IdSet), NEW o \in IdSet
    PROVE  Ids(Append(prog, o)) = Append(Ids(prog), o.v)
<1> DEFINE n == Len(prog)
           q == Append(prog, o)
           a == Ids(q)
           b == Append(Ids(prog), o.v)
<1>1. n \in Nat /\ Len(q) = n + 1 /\ q[n + 1] = o /\ \A i \in 1..n : q[i] = prog[i]
  BY AppendProperties, LenProperties
<1>2. q \in Seq(IdSet)
  BY AppendProperties
<1> HIDE DEF q, n
<1>3. \A l \in Seq(IdSet) : Ids(l) \in Seq(Nat) /\ Len(Ids(l)) = Len(l)
                            /\ \A i \in 1..Len(l) : Ids(l)[i] = l[i].v
  <2> TAKE l \in Seq(IdSet)
  <2>1. Len(l) \in Nat /\ \A i \in 1..Len(l) : l[i] \in IdSet
    BY ElementOfSeq, LenProperties
  <2>2. \A i \in 1..Len(l) : l[i].v \in Nat
    BY <2>1 DEF IdSet
  <2> QED
    BY <2>1, <2>2, IsASeq DEF Ids
<1>4. a \in Seq(Nat) /\ Len(a) = n + 1 /\ \A i \in 1..n + 1 : a[i] = q[i].v
  BY <1>1, <1>2, <1>3
<1>5. Ids(prog) \in Seq(Nat) /\ Len(Ids(prog)) = n /\ \A i \in 1..n : Ids(prog)[i] = prog[i].v
  BY <1>3 DEF n
<1>6. o.v \in Nat
  BY DEF IdSet
<1>7. b \in Seq(Nat) /\ Len(b) = n + 1 /\ b[n + 1] = o.v /\ \A i \in 1..n : b[i] = Ids(prog)[i]
  BY <1>5, <1>6, AppendProperties
<1> HIDE DEF a, b
<1>8. ASSUME NEW i \in 1..n + 1 PROVE a[i] = b[i]
  <2>1. a[i] = q[i].v
    BY <1>4
  <2>2. CASE i = n + 1
    BY <1>1, <1>7, <2>1, <2>2
  <2>3. CASE i \in 1..n
    <3>1. q[i] = prog[i] /\ b[i] = Ids(prog)[i] /\ Ids(prog)[i] = prog[i].v
      BY <1>1, <1>5, <1>7, <2>3
    <3> QED
      BY <2>1, <3>1
  <2> QED
    BY <1>1, <2>2, <2>3
<1>9. a = b
  BY <1>4, <1>7, <1>8, SeqEqual
<1> QED
  BY <1>9 DEF a, b, q

\* A step that reads no identifier.
LEMMA InOrderStays ==
    ASSUME NEW w, NEW cur, NEW prog, InOrder(w, cur, prog),
           NEW u, NEW c, Fine(u, c, Ids(prog)), Len(w.scopes) <= Len(u.scopes)
    PROVE  InOrder(u, c, prog)
<1>1. Len(w.scopes) \in Nat /\ Len(u.scopes) \in Nat
  BY HereIs DEF InOrder
<1>2. Scopes(w) \subseteq Scopes(u)
  BY <1>1 DEF Scopes
<1> QED
  BY <1>2 DEF InOrder

Read(name, s, part, decl, v) == [name |-> name, scope |-> s, part |-> part, decl |-> decl, v |-> v]

\* A step that reads one.
LEMMA InOrderGrows ==
    ASSUME NEW w, NEW cur, NEW prog, InOrder(w, cur, prog), Len(prog) < MaxLength,
           NEW name \in Names, NEW part \in PartSet, NEW decl \in DeclSet, NEW v,
           NEW u, NEW c, Fine(u, c, Append(Ids(prog), v)), Len(w.scopes) <= Len(u.scopes),
           NEW s \in Scopes(u)
    PROVE  InOrder(u, c, Append(prog, Read(name, s, part, decl, v)))
<1> DEFINE o == Read(name, s, part, decl, v)
           q == Append(prog, o)
<1>1. /\ Len(w.scopes) \in Nat /\ Len(u.scopes) \in Nat /\ u \in WorldSet
      /\ prog \in Seq(IdSet) /\ Len(prog) \in Nat /\ \A i \in 1..Len(prog) : prog[i].scope \in Scopes(w)
  BY HereIs, LenProperties DEF InOrder
<1>2. Scopes(w) \subseteq Scopes(u) /\ s \in Nat
  BY <1>1 DEF Scopes
<1>3. v \in Nat
  <2>1. Counted(Links(u), Uses(u), Append(Ids(prog), v))
    BY DEF Fine, Good
  <2>2. \E n \in Nat : Append(Ids(prog), v) \in Seq(1..n)
    BY <2>1, Zenon DEF Counted
  <2>3. PICK n \in Nat : Append(Ids(prog), v) \in Seq(1..n)
    BY <2>2
  <2> DEFINE S == Nat \cup {v}
             l == Append(Ids(prog), v)
  <2>4. Ids(prog) \in Seq(S) /\ v \in S
    <3>1. \A i \in 1..Len(prog) : prog[i].v \in S
      <4>1. \A i \in 1..Len(prog) : prog[i] \in IdSet
        BY <1>1, ElementOfSeq
      <4> QED
        BY <4>1 DEF IdSet
    <3> HIDE DEF S
    <3>2. Ids(prog) \in Seq(S)
      BY <1>1, <3>1, IsASeq DEF Ids
    <3> QED
      BY <3>2 DEF S
  <2> HIDE DEF S
  <2>5. Len(l) \in Nat /\ Len(l) \in 1..Len(l) /\ l[Len(l)] = v
    BY <2>4, AppendProperties, LenProperties
  <2> HIDE DEF l
  <2>6. l[Len(l)] \in 1..n
    BY <2>3, <2>5, ElementOfSeq DEF l
  <2> QED
    BY <2>5, <2>6
<1>4. o \in IdSet /\ o.v = v /\ o.scope = s
  BY <1>2, <1>3 DEF IdSet, Read
<1> HIDE DEF o
<1>5. Ids(q) = Append(Ids(prog), v)
  BY <1>1, <1>4, IdsAppend
<1>6. q \in Seq(IdSet) /\ Len(q) = Len(prog) + 1 /\ q[Len(prog) + 1] = o
      /\ \A i \in 1..Len(prog) : q[i] = prog[i]
  BY <1>1, <1>4, AppendProperties
<1> HIDE DEF q
<1>7. Len(q) <= MaxLength
  BY <1>1, <1>6, JSScopeAssumption
<1>8. ASSUME NEW i \in 1..Len(q) PROVE q[i].scope \in Scopes(u)
  <2>1. i = Len(prog) + 1 \/ i \in 1..Len(prog)
    BY <1>1, <1>6
  <2> QED
    BY <1>1, <1>2, <1>4, <1>6, <2>1
<1>9. InOrder(u, c, q)
  BY <1>5, <1>6, <1>7, <1>8 DEF InOrder
<1> QED
  BY <1>9 DEF q, o

LEMMA InvHere ==
    ASSUME Inv
    PROVE  /\ Fine(World, scope, Ids(program)) /\ World.vars = vars /\ World.scopes = scopes
           /\ scope \in Scopes(World) /\ scope \in Nat /\ Len(scopes) \in Nat
           /\ Here.part \in PartSet /\ failed \in BOOLEAN
           /\ Len(program) \in Nat /\ Len(Ids(program)) = Len(program) /\ Len(program) <= MaxLength
<1>1. Fine(World, scope, Ids(program)) /\ failed \in BOOLEAN
  BY DEF Inv, InOrder
<1>2. World.vars = vars /\ World.scopes = scopes
  BY DEF World
<1>3. scope \in Scopes(World) /\ World.scopes[scope] \in ScopeSet /\ Len(World.scopes) \in Nat /\ scope \in Nat
  BY <1>1, HereIs
<1>4. Here.part \in PartSet
  BY <1>2, <1>3 DEF Here, ScopeSet
<1>5. program \in Seq(IdSet) /\ Len(program) <= MaxLength
  BY DEF Inv, InOrder
<1>6. Len(program) \in Nat
  BY <1>5, LenProperties
<1>7. Len(Ids(program)) = Len(program)
  <2>1. Ids(program) \in Seq({program[i].v : i \in 1..Len(program)})
    BY <1>6, IsASeq DEF Ids
  <2> QED
    BY <1>6, <2>1, LenProperties DEF Ids
<1> QED
  BY <1>1, <1>2, <1>3, <1>4, <1>5, <1>6, <1>7

LEMMA Stays ==
    ASSUME Inv, NEW u, NEW c, Fine(u, c, Ids(program)), Len(scopes) <= Len(u.scopes),
           Become(u), scope' = c, failed' \in BOOLEAN, program' = program
    PROVE  Inv'
<1>1. InOrder(u, c, program)
  BY InvHere, InOrderStays DEF Inv
<1>2. World' = u
  <2>1. u \in WorldSet
    BY HereIs
  <2> QED
    BY <2>1 DEF World, Become, WorldSet
<1> QED
  BY <1>1, <1>2 DEF Inv

LEMMA Grows ==
    ASSUME Inv, Len(program) < MaxLength,
           NEW name \in Names, NEW part \in PartSet, NEW decl \in DeclSet, NEW v,
           NEW u, NEW c, Fine(u, c, Append(Ids(program), v)), Len(scopes) <= Len(u.scopes),
           NEW s \in Scopes(u), Identifier(name, s, part, decl, v),
           Become(u), scope' = c, failed' \in BOOLEAN
    PROVE  Inv'
<1>1. InOrder(u, c, Append(program, Read(name, s, part, decl, v)))
  BY InvHere, InOrderGrows DEF Inv
<1>2. World' = u
  <2>1. u \in WorldSet
    BY HereIs
  <2> QED
    BY <2>1 DEF World, Become, WorldSet
<1>3. program' = Append(program, Read(name, s, part, decl, v))
  BY DEF Identifier, Read
<1> QED
  BY <1>1, <1>2, <1>3 DEF Inv

\* A scope opened inside the one the parser is in.
LEMMA EnterHere ==
    ASSUME NEW w, NEW q, Fine(w, scope, q), Len(w.scopes) = Len(scopes),
           NEW kind \in KindSet, NEW part \in PartSet
    PROVE  LET u == EnterScope(w, kind, part)
               id == Len(scopes) + 1 IN
           /\ Fine(u, id, q) /\ Len(u.scopes) = id
           /\ u.scopes[id].declared = <<>> /\ u.scopes[id].undeclared = <<>>
<1> DEFINE u == EnterScope(w, kind, part)
<1>1. u = Entered(w, scope, kind, part)
  BY DEF EnterScope, Entered
<1> HIDE DEF u
<1>2. EnteredDone(w, u, scope, q)
  BY <1>1, EnterDone
<1> QED
  BY <1>2 DEF EnteredDone, u

LEMMA InitInOrder ==
    ASSUME Init
    PROVE  Inv
<1> DEFINE r == NewScope("func", 0, 1, "body", "body")
           w == World
<1>1. vars = <<>> /\ scopes = <<r>> /\ scope = 1 /\ failed = FALSE /\ program = <<>>
  BY DEF Init
<1>2. /\ r.parent = 0 /\ r.func = 1 /\ r.declared = <<>> /\ r.undeclared = <<>>
      /\ r.kind = "func" /\ r.numForDecls = 0 /\ r.numArgUses = 0 /\ r \in ScopeSet
  BY DEF NewScope, ScopeSet, KindSet, PartSet
<1> HIDE DEF r
<1>3. /\ w.vars = <<>> /\ w.scopes = <<r>> /\ w \in WorldSet
      /\ Len(w.vars) = 0 /\ Len(w.scopes) = 1 /\ w.scopes[1] = r
  BY <1>1, <1>2 DEF World, WorldSet
<1> HIDE DEF w
<1>4. Scopes(w) = {1} /\ Vars(w) = {}
  BY <1>3 DEF Scopes, Vars
<1>5. Rooted(w)
  BY <1>2, <1>3, <1>4 DEF Rooted, Descending, Parents
<1>6. 1 \in Within(w, 1, 0) /\ Within(w, 1, 0) \subseteq 1..1
  BY <1>4, <1>5, WithinHere
<1>7. Within(w, 1, 0) = {1}
  BY <1>6
<1>8. TreeOk(w)
  BY <1>2, <1>3, <1>4, <1>5, <1>6 DEF TreeOk
<1>9. Elems(<<>>) = {} /\ Different(<<>>) /\ \A ds : DifferentOf(ds, <<>>)
  BY DEF Elems, Different, DifferentOf
<1>10. Listing(Links(w), Decls(w), Dec(w), Und(w), {1})
  <2>1. /\ DOMAIN Links(w) = {} /\ DOMAIN Decls(w) = {} /\ DOMAIN Dec(w) = {1} /\ DOMAIN Und(w) = {1}
        /\ Dec(w)[1] = {} /\ Und(w)[1] = {}
    BY <1>2, <1>3, <1>4, <1>9 DEF Links, Decls, Dec, Und
  <2> QED
    BY <2>1 DEF Listing, Ranged, DecOnce, DecHasDecl, DeclIsDec, Unlinked, UndOnce, UndInside
<1>11. Singles(w, {1}) /\ Marks(w, {1})
  <2>1. Len(<<>>) = 0
    OBVIOUS
  <2> QED
    BY <1>2, <1>3, <1>4, <1>9, <2>1 DEF Singles, Marks
<1>12. Ids(program) = <<>>
  <2>1. Len(program) = 0
    BY <1>1
  <2>2. Ids(program) \in Seq({}) /\ Len(Ids(program)) = 0
    <3>1. Ids(program) \in Seq({program[i].v : i \in 1..0})
      BY <2>1, IsASeq DEF Ids
    <3>2. {program[i].v : i \in 1..0} = {}
      OBVIOUS
    <3> QED
      BY <2>1, <3>1, <3>2, LenProperties DEF Ids
  <2> QED
    BY <2>2, EmptySeq
<1>13. Counted(Links(w), Uses(w), <<>>)
  <2>1. DOMAIN Links(w) = 1..0 /\ DOMAIN Uses(w) = 1..0
    BY <1>4 DEF Links, Uses
  <2> DEFINE e == [v \in 1..0 |-> v]
  <2>2. Leads(Links(w), e, e)
    BY <2>1 DEF Leads
  <2>3. UsesAre(Links(w), Uses(w), <<>>, e)
    BY <2>1 DEF UsesAre
  <2>4. <<>> \in Seq(DOMAIN Links(w))
    OBVIOUS
  <2>5. \E n \in Nat : DOMAIN Links(w) = 1..n
    BY <2>1
  <2> HIDE DEF e
  <2> QED
    BY <2>1, <2>2, <2>3, <2>4, <2>5 DEF Counted
<1>14. Fine(w, 1, Ids(program))
  BY <1>3, <1>4, <1>7, <1>8, <1>10, <1>11, <1>12, <1>13 DEF Fine, Good
<1>15. program \in Seq(IdSet) /\ Len(program) = 0 /\ 0 <= MaxLength
  BY <1>1, JSScopeAssumption
<1>16. InOrder(w, 1, program)
  <2>1. \A i \in 1..Len(program) : program[i].scope \in Scopes(w)
    BY <1>15
  <2>2. Len(program) <= MaxLength
    BY <1>15
  <2> QED
    BY <1>14, <1>15, <2>1, <2>2, Zenon DEF InOrder
<1>17. InOrder(World, scope, program)
  BY <1>1, <1>16, Zenon DEF w
<1> QED
  BY <1>1, <1>17 DEF Inv

--------------------------------------------------------------------------------
(* Every action keeps it *)

LEMMA Constants ==
    /\ NoDecl \in DeclSet /\ VariableDecl \in DeclSet /\ FunctionDecl \in DeclSet
    /\ ArgumentDecl \in DeclSet /\ LexicalDecl \in DeclSet /\ CatchDecl \in DeclSet /\ ExprDecl \in DeclSet
    /\ VariableDecl # NoDecl /\ FunctionDecl # NoDecl /\ ArgumentDecl # NoDecl
    /\ LexicalDecl # NoDecl /\ CatchDecl # NoDecl /\ ExprDecl # NoDecl
    /\ ~Hoisted(CatchDecl) /\ ~Hoisted(ExprDecl) /\ ~Hoisted(ArgumentDecl)
    /\ "head" \in PartSet /\ "body" \in PartSet
    /\ "block" \in KindSet /\ "for" \in KindSet /\ "func" \in KindSet /\ "paren" \in KindSet
BY DEF DeclSet, NoDecl, VariableDecl, FunctionDecl, ArgumentDecl, LexicalDecl, CatchDecl, ExprDecl,
       Hoisted, PartSet, KindSet

LEMMA MoreIs ==
    ASSUME Inv, MaxLength < UsesMod, NEW k, NEW names, More(k, names)
    PROVE  Len(program) < MaxLength /\ Len(Ids(program)) + 1 < UsesMod
<1>1. Len(program) < MaxLength
  BY DEF More
<1> QED
  BY <1>1, InvHere, JSScopeAssumption

LEMMA EnterKeeps ==
    ASSUME Inv, NEW kind \in KindSet, NEW part \in PartSet, Enter(World, kind, part), UNCHANGED program
    PROVE  Inv'
<1> DEFINE u == EnterScope(World, kind, part)
<1>1. Fine(World, scope, Ids(program)) /\ Len(World.scopes) = Len(scopes) /\ Len(scopes) \in Nat
      /\ failed \in BOOLEAN
  BY InvHere
<1>2. Fine(u, Len(scopes) + 1, Ids(program)) /\ Len(u.scopes) = Len(scopes) + 1
  BY <1>1, EnterHere
<1>3. Become(u) /\ scope' = Len(scopes) + 1 /\ failed' \in BOOLEAN
  BY <1>1 DEF Enter
<1> HIDE DEF u
<1>4. Len(scopes) <= Len(u.scopes)
  BY <1>1, <1>2
<1> QED
  BY <1>2, <1>3, <1>4, Stays

LEMMA EnterScopesKeep ==
    ASSUME Inv, EnterBlock \/ EnterFor \/ EnterFunc \/ EnterParen
    PROVE  Inv'
<1>1. CASE EnterBlock
  BY <1>1, Constants, EnterKeeps DEF EnterBlock
<1>2. CASE EnterFor
  BY <1>2, Constants, EnterKeeps DEF EnterFor
<1>3. CASE EnterFunc
  BY <1>3, Constants, EnterKeeps DEF EnterFunc
<1>4. CASE EnterParen
  BY <1>4, Constants, EnterKeeps DEF EnterParen
<1> QED
  BY <1>1, <1>2, <1>3, <1>4

LEMMA RefuseKeeps ==
    ASSUME Inv, Refuse
    PROVE  Inv'
<1>1. World' = World /\ scope' = scope /\ program' = program /\ failed' \in BOOLEAN
  BY DEF Refuse, World
<1> QED
  BY <1>1 DEF Inv

\* A setter keeps the invariant.
LEMMA SetKeeps ==
    ASSUME Inv, NEW u, SetDone(World, u, scope, Ids(program)), Become(u),
           UNCHANGED <<scope, failed, program>>
    PROVE  Inv'
<1>1. Fine(u, scope, Ids(program)) /\ Len(scopes) <= Len(u.scopes) /\ failed \in BOOLEAN
  BY InvHere DEF SetDone
<1> QED
  BY <1>1, Stays

LEMMA MarkedKeeps ==
    ASSUME Inv, NEW w, SetDone(World, w, scope, Ids(program)), Begin(w, scope),
           UNCHANGED <<scope, failed, program>>
    PROVE  Inv'
<1> DEFINE u == Begun(w, scope)
<1>1. Become(u)
  BY DEF Begin, Begun
<1>2. SetDone(w, u, scope, Ids(program))
  BY BeginDone DEF SetDone
<1> HIDE DEF u
<1>3. SetDone(World, u, scope, Ids(program))
  BY <1>2 DEF SetDone
<1> QED
  BY <1>1, <1>3, SetKeeps

LEMMA EnterBodyKeeps ==
    ASSUME Inv, EnterBody \/ EnterBodyAfterRest
    PROVE  Inv'
<1>1. Fine(World, scope, Ids(program))
  BY InvHere
<1>2. SetDone(World, MarkForStmt(World, scope), scope, Ids(program))
  BY <1>1, MarkForDone
<1>3. SetDone(World, MarkFuncArgs(World, scope), scope, Ids(program))
  BY <1>1, MarkFuncDone
<1>4. CASE EnterBody
  <2>1. /\ Begin(MarkForStmt(World, scope), scope) \/ Begin(MarkFuncArgs(World, scope), scope)
        /\ UNCHANGED <<scope, failed, program>>
    BY <1>4 DEF EnterBody
  <2> QED
    BY <1>2, <1>3, <2>1, MarkedKeeps
<1>5. CASE EnterBodyAfterRest
  <2> DEFINE b == Here.undeclared # <<>>
             w == [World EXCEPT !.scopes[scope].rest = b]
  <2>1. Begin(w, scope) /\ UNCHANGED <<scope, failed, program>>
    BY <1>5 DEF EnterBodyAfterRest
  <2>2. b \in BOOLEAN
    OBVIOUS
  <2> HIDE DEF b
  <2>3. SetDone(World, w, scope, Ids(program))
    BY <1>1, <2>2, FlagDone
  <2> HIDE DEF w
  <2> QED
    BY <2>1, <2>3, MarkedKeeps
<1> QED
  BY <1>4, <1>5

LEMMA ExitKeeps ==
    ASSUME Inv, MaxLength < UsesMod, Exit
    PROVE  Inv'
<1> DEFINE u == HoistUndeclared(World, scope)
<1>1. Fine(World, scope, Ids(program)) /\ World.scopes = scopes /\ Len(scopes) \in Nat /\ failed \in BOOLEAN
      /\ Len(Ids(program)) < UsesMod
  BY InvHere, JSScopeAssumption
<1>2. scope # 1 /\ Become(u) /\ scope' = World.scopes[scope].parent /\ failed' \in BOOLEAN /\ program' = program
  BY <1>1 DEF Exit, Leave, Here
<1>3. Fine(u, World.scopes[scope].parent, Ids(program)) /\ Len(u.scopes) = Len(World.scopes)
  BY <1>1, <1>2, ExitDone
<1> HIDE DEF u
<1>4. Len(scopes) <= Len(u.scopes)
  BY <1>1, <1>3
<1> QED
  BY <1>2, <1>3, <1>4, Stays

LEMMA ExitGroupKeeps ==
    ASSUME Inv, MaxLength < UsesMod, ExitGroup
    PROVE  Inv'
<1> DEFINE w == [World EXCEPT !.scopes[scope].kind = "group"]
           u == UndeclareScope(HoistUndeclared(w, scope), scope)
<1>1. Fine(World, scope, Ids(program)) /\ World.scopes = scopes /\ Len(scopes) \in Nat /\ failed \in BOOLEAN
      /\ Len(Ids(program)) < UsesMod
  BY InvHere, JSScopeAssumption
<1>2. /\ Here.kind = "paren" /\ Become(u) /\ scope' = World.scopes[scope].parent
      /\ failed' \in BOOLEAN /\ program' = program
  BY <1>1 DEF ExitGroup, Leave, Here
<1>3. scope # 1
  BY <1>1, <1>2 DEF Fine, TreeOk, Here
<1>4. SetDone(World, w, scope, Ids(program)) /\ w.scopes[scope].parent = World.scopes[scope].parent
  BY <1>1, FlagDone
<1> HIDE DEF w
<1>5. Fine(w, scope, Ids(program)) /\ Len(w.scopes) = Len(World.scopes)
  BY <1>4 DEF SetDone
<1>6. Fine(u, w.scopes[scope].parent, Ids(program)) /\ Len(u.scopes) = Len(w.scopes)
  BY <1>1, <1>3, <1>5, ExitGroupDone
<1> HIDE DEF u
<1>7. Len(scopes) <= Len(u.scopes)
  BY <1>1, <1>5, <1>6
<1> QED
  BY <1>2, <1>4, <1>6, <1>7, Stays

LEMMA ReferenceKeeps ==
    ASSUME Inv, MaxLength < UsesMod, NEW name \in Names, Reference(name)
    PROVE  Inv'
<1> DEFINE r == Use(World, scope, name)
<1>1. /\ More(0, {name}) /\ Become(r.w) /\ Identifier(name, scope, Here.part, NoDecl, r.v)
      /\ scope' = scope /\ failed' = failed
  BY DEF Reference
<1>2. Len(program) < MaxLength /\ Len(Ids(program)) + 1 < UsesMod
  BY <1>1, MoreIs
<1>3. Fine(World, scope, Ids(program))
  BY InvHere
<1>4. SameFrame(World, r.w) /\ Fine(r.w, scope, Append(Ids(program), r.v))
  BY <1>2, <1>3, UseHere
<1> HIDE DEF r
<1>5. Len(scopes) <= Len(r.w.scopes) /\ scope \in Scopes(r.w) /\ Here.part \in PartSet
      /\ NoDecl \in DeclSet /\ failed' \in BOOLEAN
  BY <1>1, <1>4, InvHere, Constants DEF SameFrame, Scopes
<1> QED
  BY <1>1, <1>2, <1>4, <1>5, Grows

\* A declaration in the scope the parser is in.
LEMMA DeclareKeeps ==
    ASSUME Inv, MaxLength < UsesMod, NEW name \in Names, More(0, {name}),
           NEW decl \in DeclSet, decl # NoDecl, NEW r, r = Declare(World, scope, decl, name), r.v # 0,
           NEW part \in PartSet, Become(r.w), Identifier(name, scope, part, decl, r.v),
           UNCHANGED <<scope, failed>>
    PROVE  Inv'
<1>1. Len(program) < MaxLength /\ Len(Ids(program)) + 1 < UsesMod
  BY MoreIs
<1>2. Fine(World, scope, Ids(program))
  BY InvHere
<1>3. SameFrame(World, r.w) /\ Fine(r.w, scope, Append(Ids(program), r.v))
  BY <1>1, <1>2, DeclareHere
<1>4. Len(scopes) <= Len(r.w.scopes) /\ scope \in Scopes(r.w) /\ failed' \in BOOLEAN /\ scope' = scope
  BY <1>3, InvHere DEF SameFrame, Scopes
<1> QED
  BY <1>1, <1>3, <1>4, Grows

LEMMA DeclarationKeeps ==
    ASSUME Inv, MaxLength < UsesMod, NEW name \in Names,
           NEW decl \in {VariableDecl, LexicalDecl}, Declaration(decl, name)
    PROVE  Inv'
<1> DEFINE r == Declare(World, scope, decl, name)
<1>1. decl \in DeclSet /\ decl # NoDecl /\ Here.part \in PartSet
  BY InvHere, Constants
<1>2. More(0, {name})
  BY DEF Declaration
<1>3. CASE r.v = 0
  BY <1>3, RefuseKeeps DEF Declaration
<1>4. CASE r.v # 0
  <2>1. Become(r.w) /\ Identifier(name, scope, Here.part, decl, r.v) /\ UNCHANGED <<scope, failed>>
    BY <1>4 DEF Declaration
  <2>2. r = Declare(World, scope, decl, name)
    OBVIOUS
  <2> HIDE DEF r
  <2> QED
    BY <1>1, <1>2, <1>4, <2>1, <2>2, DeclareKeeps
<1> QED
  BY <1>3, <1>4

LEMMA ParameterKeeps ==
    ASSUME Inv, MaxLength < UsesMod, NEW name \in Names, Parameter(name)
    PROVE  Inv'
<1> DEFINE r == Declare(World, scope, ArgumentDecl, name)
<1>1. More(0, {name})
  BY DEF Parameter
<1>3. CASE r.v = 0
  BY <1>3, RefuseKeeps DEF Parameter
<1>4. CASE r.v # 0
  <2>1. Become(r.w) /\ Identifier(name, scope, "head", ArgumentDecl, r.v) /\ UNCHANGED <<scope, failed>>
    BY <1>4 DEF Parameter
  <2>2. r = Declare(World, scope, ArgumentDecl, name)
    OBVIOUS
  <2> HIDE DEF r
  <2> QED
    BY <1>1, <1>4, <2>1, <2>2, Constants, DeclareKeeps
<1> QED
  BY <1>3, <1>4

LEMMA MaybeParameterKeeps ==
    ASSUME Inv, MaxLength < UsesMod, NEW name \in Names, MaybeParameter(name)
    PROVE  Inv'
<1> DEFINE r == Declare(World, scope, ArgumentDecl, name)
           notOne == [World EXCEPT !.scopes[scope].params = FALSE]
           u == Use(notOne, scope, name)
<1>1. More(0, {name}) /\ UNCHANGED <<scope, failed>>
  BY DEF MaybeParameter
<1>2. CASE r.v # 0
  <2>1. Become(r.w) /\ Identifier(name, scope, "head", ArgumentDecl, r.v)
    BY <1>2 DEF MaybeParameter
  <2>2. r = Declare(World, scope, ArgumentDecl, name)
    OBVIOUS
  <2> HIDE DEF r
  <2> QED
    BY <1>1, <1>2, <2>1, <2>2, Constants, DeclareKeeps
<1>3. CASE r.v = 0
  <2>1. Become(u.w) /\ Identifier(name, scope, "head", NoDecl, u.v)
    BY <1>3 DEF MaybeParameter
  <2>2. Len(program) < MaxLength /\ Len(Ids(program)) + 1 < UsesMod
    BY <1>1, MoreIs
  <2>3. SetDone(World, notOne, scope, Ids(program))
    BY InvHere, FlagDone
  <2> HIDE DEF notOne
  <2>4. Fine(notOne, scope, Ids(program)) /\ Len(notOne.scopes) = Len(World.scopes)
    BY <2>3 DEF SetDone
  <2>5. SameFrame(notOne, u.w) /\ Fine(u.w, scope, Append(Ids(program), u.v))
    BY <2>2, <2>4, UseHere
  <2> HIDE DEF u
  <2>6. Len(scopes) <= Len(u.w.scopes) /\ scope \in Scopes(u.w) /\ failed' \in BOOLEAN /\ scope' = scope
    BY <1>1, <2>4, <2>5, InvHere DEF SameFrame, Scopes
  <2> QED
    BY <2>1, <2>2, <2>5, <2>6, Constants, Grows
<1> QED
  BY <1>2, <1>3

\* A scope that is entered and in which one name is declared at once.
LEMMA FirstKeeps ==
    ASSUME Inv, MaxLength < UsesMod, NEW name \in Names, NEW k, NEW names, More(k, names),
           NEW kind \in KindSet, NEW part \in PartSet,
           NEW decl \in DeclSet, decl # NoDecl, ~Hoisted(decl),
           NEW r, r = Declare(EnterScope(World, kind, part), Len(scopes) + 1, decl, name),
           Become(r.w), Identifier(name, Len(scopes) + 1, part, decl, r.v),
           scope' = Len(scopes) + 1, failed' = failed
    PROVE  Inv'
<1> DEFINE u == EnterScope(World, kind, part)
           id == Len(scopes) + 1
<1>1. Len(program) < MaxLength /\ Len(Ids(program)) + 1 < UsesMod
  BY MoreIs
<1>2. Fine(World, scope, Ids(program)) /\ Len(World.scopes) = Len(scopes) /\ Len(scopes) \in Nat
      /\ failed' \in BOOLEAN
  BY InvHere
<1>3. Fine(u, id, Ids(program)) /\ Len(u.scopes) = id /\ u.scopes[id].declared = <<>> /\ u.scopes[id].undeclared = <<>>
  BY <1>2, EnterHere
<1>4. r = Declare(u, id, decl, name) /\ Identifier(name, id, part, decl, r.v) /\ scope' = id
  OBVIOUS
<1>5. id \in Nat /\ Len(scopes) <= id /\ id \in 1..id
  BY <1>2
<1> HIDE DEF u, id
<1>6. SameFrame(u, r.w) /\ Fine(r.w, id, Append(Ids(program), r.v))
  BY <1>1, <1>3, <1>4, DeclareFirst
<1>7. Len(scopes) <= Len(r.w.scopes) /\ id \in Scopes(r.w)
  BY <1>3, <1>5, <1>6 DEF SameFrame, Scopes
<1> QED
  BY <1>1, <1>2, <1>4, <1>6, <1>7, Grows

LEMMA EnterCatchKeeps ==
    ASSUME Inv, MaxLength < UsesMod, NEW name \in Names, EnterCatch(name)
    PROVE  Inv'
<1> DEFINE r == Declare(EnterScope(World, "block", "body"), Len(scopes) + 1, CatchDecl, name)
<1>1. /\ More(1, {name}) /\ Become(r.w) /\ Identifier(name, Len(scopes) + 1, "body", CatchDecl, r.v)
      /\ scope' = Len(scopes) + 1 /\ failed' = failed
  BY DEF EnterCatch
<1>2. r = Declare(EnterScope(World, "block", "body"), Len(scopes) + 1, CatchDecl, name)
  OBVIOUS
<1> HIDE DEF r
<1> QED
  BY <1>1, <1>2, Constants, FirstKeeps

LEMMA EnterFuncExprKeeps ==
    ASSUME Inv, MaxLength < UsesMod, NEW name \in Names, EnterFuncExpr(name)
    PROVE  Inv'
<1> DEFINE r == Declare(EnterScope(World, "func", "head"), Len(scopes) + 1, ExprDecl, name)
<1>1. /\ More(1, {name}) /\ Become(r.w) /\ Identifier(name, Len(scopes) + 1, "head", ExprDecl, r.v)
      /\ scope' = Len(scopes) + 1 /\ failed' = failed
  BY DEF EnterFuncExpr
<1>2. r = Declare(EnterScope(World, "func", "head"), Len(scopes) + 1, ExprDecl, name)
  OBVIOUS
<1> HIDE DEF r
<1> QED
  BY <1>1, <1>2, Constants, FirstKeeps

LEMMA EnterFuncDeclKeeps ==
    ASSUME Inv, MaxLength < UsesMod, NEW name \in Names, EnterFuncDecl(name)
    PROVE  Inv'
<1> DEFINE r == Declare(World, scope, FunctionDecl, name)
           id == Len(scopes) + 1
           u == EnterScope(r.w, "func", "head")
<1>1. More(1, {name})
  BY DEF EnterFuncDecl
<1>2. CASE r.v = 0
  BY <1>2, RefuseKeeps DEF EnterFuncDecl
<1>3. CASE r.v # 0
  <2>1. Enter(r.w, "func", "head") /\ Identifier(name, scope, Here.part, FunctionDecl, r.v)
    BY <1>3 DEF EnterFuncDecl
  <2>2. Become(u) /\ scope' = id /\ failed' = failed
    BY <2>1 DEF Enter
  <2>3. Len(program) < MaxLength /\ Len(Ids(program)) + 1 < UsesMod
    BY <1>1, MoreIs
  <2>4. /\ Fine(World, scope, Ids(program)) /\ Len(World.scopes) = Len(scopes) /\ Len(scopes) \in Nat
        /\ failed' \in BOOLEAN /\ Here.part \in PartSet /\ scope \in 1..Len(scopes)
    BY <2>2, InvHere DEF Scopes
  <2>5. SameFrame(World, r.w) /\ Fine(r.w, scope, Append(Ids(program), r.v))
    BY <1>3, <2>3, <2>4, Constants, DeclareHere
  <2> HIDE DEF r
  <2>6. Len(r.w.scopes) = Len(scopes)
    BY <2>4, <2>5 DEF SameFrame
  <2>7. Fine(u, id, Append(Ids(program), r.v)) /\ Len(u.scopes) = id
    BY <2>5, <2>6, Constants, EnterHere
  <2> HIDE DEF u
  <2>8. Len(scopes) <= Len(u.scopes) /\ scope \in Scopes(u)
    BY <2>4, <2>7 DEF Scopes
  <2> HIDE DEF id
  <2> QED
    BY <2>1, <2>2, <2>3, <2>4, <2>7, <2>8, Constants, Grows
<1> QED
  BY <1>2, <1>3

LEMMA EnterArrowKeeps ==
    ASSUME Inv, MaxLength < UsesMod, NEW name \in Names, EnterArrow(name)
    PROVE  Inv'
<1> DEFINE r == Arrowed(World, scope, name)
           id == Len(scopes) + 1
           m == MarkFuncArgs(r.w, id)
           u == Begun(m, id)
<1>1. /\ More(1, {name}) /\ Begin(m, id) /\ Identifier(name, id, "head", ArgumentDecl, r.v)
      /\ scope' = id /\ failed' = failed
  <2>1. Len(World.scopes) = Len(scopes)
    BY InvHere
  <2>2. \A w : EnterScope(w, "func", "head") = Entered(w, scope, "func", "head")
    BY DEF EnterScope, Entered
  <2> QED
    BY <2>1, <2>2, Zenon DEF EnterArrow, Arrowed, Unused, MovedIn
<1>2. Become(u)
  BY <1>1 DEF Begin, Begun
<1>3. Len(program) < MaxLength /\ Len(Ids(program)) + 1 < UsesMod
  BY <1>1, MoreIs
<1>4. Fine(World, scope, Ids(program)) /\ Len(World.scopes) = Len(scopes) /\ Len(scopes) \in Nat
      /\ failed' \in BOOLEAN
  BY <1>1, InvHere
<1>5. Fine(r.w, id, Append(Ids(program), r.v)) /\ Len(r.w.scopes) = id
  BY <1>3, <1>4, ArrowDone
<1>6. id \in Nat /\ Len(scopes) <= id /\ id \in 1..id
  BY <1>4
<1> HIDE DEF r, id
<1>7. SetDone(r.w, m, id, Append(Ids(program), r.v))
  BY <1>5, MarkFuncDone
<1> HIDE DEF m
<1>8. SetDone(m, u, id, Append(Ids(program), r.v))
  BY <1>7, BeginDone DEF SetDone
<1> HIDE DEF u
<1>9. Fine(u, id, Append(Ids(program), r.v)) /\ Len(u.scopes) = id
  BY <1>5, <1>7, <1>8 DEF SetDone
<1>10. Len(scopes) <= Len(u.scopes) /\ id \in Scopes(u)
  BY <1>6, <1>9 DEF Scopes
<1> QED
  BY <1>1, <1>2, <1>3, <1>4, <1>9, <1>10, Constants, Grows

LEMMA NextKeeps ==
    ASSUME Inv, MaxLength < UsesMod, [Next]_state
    PROVE  Inv'
<1>1. CASE UNCHANGED state
  BY <1>1 DEF state, Inv, World
<1>2. CASE EnterBlock \/ EnterFor \/ EnterFunc \/ EnterParen
  BY <1>2, EnterScopesKeep
<1>3. CASE EnterBody \/ EnterBodyAfterRest
  BY <1>3, EnterBodyKeeps
<1>4. CASE Exit
  BY <1>4, ExitKeeps
<1>5. CASE ExitGroup
  BY <1>5, ExitGroupKeeps
<1>6. ASSUME NEW name \in Names, Reference(name) PROVE Inv'
  BY <1>6, ReferenceKeeps
<1>7. ASSUME NEW name \in Names, NEW decl \in {VariableDecl, LexicalDecl}, Declaration(decl, name) PROVE Inv'
  BY <1>7, DeclarationKeeps
<1>8. ASSUME NEW name \in Names, Parameter(name) PROVE Inv'
  BY <1>8, ParameterKeeps
<1>9. ASSUME NEW name \in Names, MaybeParameter(name) PROVE Inv'
  BY <1>9, MaybeParameterKeeps
<1>10. ASSUME NEW name \in Names, EnterCatch(name) PROVE Inv'
  BY <1>10, EnterCatchKeeps
<1>11. ASSUME NEW name \in Names, EnterFuncDecl(name) PROVE Inv'
  BY <1>11, EnterFuncDeclKeeps
<1>12. ASSUME NEW name \in Names, EnterFuncExpr(name) PROVE Inv'
  BY <1>12, EnterFuncExprKeeps
<1>13. ASSUME NEW name \in Names, EnterArrow(name) PROVE Inv'
  BY <1>13, EnterArrowKeeps
<1> QED
  BY <1>1, <1>2, <1>3, <1>4, <1>5, <1>6, <1>7, <1>8, <1>9, <1>10, <1>11, <1>12, <1>13, Zenon DEF Next

\* The lists, links and counts are in order in every state.
THEOREM AlwaysInOrder == MaxLength < UsesMod /\ Spec => []Inv
<1> SUFFICES ASSUME MaxLength < UsesMod PROVE Spec => []Inv
  OBVIOUS
<1>1. Init => Inv
  BY InitInOrder
<1>2. Inv /\ [Next]_state => Inv'
  BY NextKeeps
<1> QED
  BY <1>1, <1>2, PTL DEF Spec

--------------------------------------------------------------------------------
(* What the invariant says of the properties *)

LEMMA SeqInto ==
    ASSUME NEW S, NEW l \in Seq(S), NEW T, \A i \in 1..Len(l) : l[i] \in T
    PROVE  l \in Seq(T)
<1> DEFINE g == [i \in 1..Len(l) |-> l[i]]
<1>1. Len(l) \in Nat
  BY LenProperties
<1>2. g \in Seq(T)
  BY <1>1, IsASeq
<1>3. g = l
  BY LenProperties
<1> QED
  BY <1>2, <1>3

\* All the links of a variable lead to the one that out says, in no more steps
\* than there are variables.
LEMMA TargetIs ==
    ASSUME Inv, NEW out, NEW depth, Leads(Links(World), out, depth), NEW x \in 1..Len(vars)
    PROVE  Target(x) = out[x]
<1> DEFINE ls == Links(World)
           n == Len(vars)
<1>1. /\ n \in Nat /\ DOMAIN ls = 1..n /\ \A v \in 1..n : ls[v] = vars[v].link
  BY InvHere, HereIs, WorldIs DEF Links, Vars
<1> HIDE DEF ls
<1>2. Cardinality(Linked(ls)) \in Nat /\ Cardinality(Linked(ls)) <= n
  <2>1. IsFiniteSet(1..n) /\ Cardinality(1..n) = n
    BY <1>1, NumbersFinite
  <2>2. Linked(ls) \in SUBSET (1..n)
    BY <1>1 DEF Linked
  <2>3. IsFiniteSet(Linked(ls)) /\ Cardinality(Linked(ls)) <= Cardinality(1..n)
    BY <2>1, <2>2, FS_Subset
  <2> QED
    BY <2>1, <2>3, FS_CardinalityType
<1>3. \A v \in 1..n : /\ depth[v] \in Nat /\ out[v] \in 1..n
                      /\ ls[v] = 0 => out[v] = v /\ depth[v] = 0
                      /\ ls[v] # 0 => ls[v] \in 1..n /\ out[v] = out[ls[v]] /\ depth[v] = depth[ls[v]] + 1
                      /\ depth[v] <= n
  <2>1. Leads(ls, out, depth)
    BY DEF ls
  <2> QED
    BY <1>1, <1>2, <2>1 DEF Leads
<1>4. PICK f : Turning("target", x, 0, vars, n, f) /\ Target(x) = f[n]
  BY <1>1, TargetTurns
<1> HIDE DEF n
<1>5. f[0] = x /\ \A i \in 1..n : f[i] = IF vars[f[i - 1]].link = 0 THEN f[i - 1] ELSE vars[f[i - 1]].link
  <2>1. f = [i \in 0..n |-> IF i = 0 THEN x
                           ELSE IF vars[f[i - 1]].link = 0 THEN f[i - 1] ELSE vars[f[i - 1]].link]
    BY <1>4, Zenon DEF Turning, Turn
  <2>2. 0 \in 0..n /\ \A i \in 1..n : i \in 0..n /\ i # 0
    BY <1>1
  <2> QED
    BY <2>1, <2>2
<1> DEFINE Is(i) == /\ f[i] \in 1..n /\ out[f[i]] = out[x]
                    /\ depth[f[i]] = 0 \/ depth[f[i]] + i <= depth[x]
           Bad == {i \in 0..n : ~Is(i)}
<1>6. Is(0)
  <2>1. x \in 1..n
    BY DEF n
  <2> QED
    BY <1>1, <1>3, <1>5, <2>1
<1>7. ASSUME NEW i \in 1..n, Is(i - 1) PROVE Is(i)
  <2> DEFINE y == f[i - 1]
  <2>1. y \in 1..n /\ out[y] = out[x] /\ (depth[y] = 0 \/ depth[y] + (i - 1) <= depth[x])
    BY <1>7
  <2>2. f[i] = IF ls[y] = 0 THEN y ELSE ls[y]
    BY <1>1, <1>5, <2>1
  <2> HIDE DEF y
  <2>3. CASE ls[y] = 0
    <3>1. f[i] = y /\ depth[y] = 0
      BY <1>3, <2>1, <2>2, <2>3
    <3> QED
      BY <2>1, <3>1
  <2>4. CASE ls[y] # 0
    <3>1. f[i] = ls[y] /\ ls[y] \in 1..n /\ out[y] = out[ls[y]] /\ depth[y] = depth[ls[y]] + 1
          /\ depth[ls[y]] \in Nat /\ depth[x] \in Nat
      <4>1. x \in 1..n
        BY DEF n
      <4> QED
        BY <1>3, <2>1, <2>2, <2>4, <4>1
    <3>2. depth[ls[y]] + i <= depth[x]
      BY <1>1, <2>1, <3>1
    <3> QED
      BY <2>1, <3>1, <3>2
  <2> QED
    BY <2>3, <2>4
<1> HIDE DEF Is
<1>8. Bad = {}
  <2> SUFFICES ASSUME Bad # {} PROVE FALSE
    OBVIOUS
  <2>1. Bad \in SUBSET Nat
    BY <1>1
  <2>2. PICK i \in Bad : \A j \in Bad : i <= j
    BY <2>1, LeastNumber
  <2>3. i \in 0..n /\ ~Is(i)
    OBVIOUS
  <2>4. i \in 1..n /\ i - 1 \in 0..n
    <3>1. i # 0
      BY <1>6, <2>3
    <3> QED
      BY <1>1, <2>3, <3>1
  <2>5. Is(i - 1)
    <3>1. i - 1 \notin Bad
      <4> HIDE DEF Bad
      <4> QED
        BY <1>1, <2>2, <2>4
    <3> QED
      BY <2>4, <3>1
  <2> QED
    BY <1>7, <2>3, <2>4, <2>5
<1>9. Is(n)
  BY <1>1, <1>8
<1>10. f[n] \in 1..n /\ out[f[n]] = out[x] /\ depth[f[n]] = 0
  <2>1. x \in 1..n
    BY DEF n
  <2> QED
    BY <1>1, <1>3, <1>9, <2>1 DEF Is
<1>11. ls[f[n]] = 0
  <2> DEFINE y == f[n]
  <2>1. y \in 1..n /\ depth[y] = 0
    BY <1>10
  <2> HIDE DEF y
  <2> SUFFICES ASSUME ls[y] # 0 PROVE FALSE
    BY DEF y
  <2>2. depth[y] = depth[ls[y]] + 1 /\ ls[y] \in 1..n
    BY <1>3, <2>1
  <2>3. depth[ls[y]] \in Nat
    BY <1>3, <2>2
  <2> QED
    BY <2>1, <2>2, <2>3
<1> QED
  BY <1>3, <1>4, <1>10, <1>11

LEMMA InOrderCounts ==
    ASSUME Inv
    PROVE  UsesCounted
<1> DEFINE p == Ids(program)
           w == World
<1>1. Fine(w, scope, p) /\ w.vars = vars /\ Len(program) \in Nat /\ Len(p) = Len(program)
  BY InvHere
<1>2. Counted(Links(w), Uses(w), p)
  BY <1>1 DEF Fine, Good
<1>3. Len(vars) \in Nat /\ DOMAIN vars = 1..Len(vars) /\ Vars(w) = 1..Len(vars)
  BY <1>1, HereIs, WorldIs DEF Vars
<1>4. /\ DOMAIN Links(w) = 1..Len(vars) /\ p \in Seq(1..Len(vars))
      /\ \A v \in 1..Len(vars) : Links(w)[v] = vars[v].link /\ Uses(w)[v] = vars[v].uses
  BY <1>1, <1>2, <1>3 DEF Counted, Links, Uses
<1>5. PICK out, depth : Leads(Links(w), out, depth) /\ UsesAre(Links(w), Uses(w), p, out)
  BY <1>2, Zenon DEF Counted
<1>6. \A i \in 1..Len(program) : p[i] = program[i].v /\ p[i] \in 1..Len(vars)
  <2>1. \A i \in 1..Len(program) : p[i] = program[i].v
    BY DEF Ids
  <2> HIDE DEF p
  <2> QED
    BY <1>1, <1>4, <2>1, ElementOfSeq
<1>7. DOMAIN program = 1..Len(program)
  BY LenProperties DEF Inv, InOrder
<1> HIDE DEF p, w
<1>8. ASSUME NEW v \in DOMAIN vars, vars[v].link = 0
      PROVE  vars[v].uses = Cardinality({i \in DOMAIN program : Target(program[i].v) = v})
  <2>1. \A i \in 1..Len(program) : Target(program[i].v) = out[p[i]]
    BY <1>5, <1>6, TargetIs DEF w
  <2>2. {i \in DOMAIN program : Target(program[i].v) = v} = Counts(p, out, v)
    BY <1>1, <1>7, <2>1 DEF Counts
  <2>3. Uses(w)[v] = Cardinality(Counts(p, out, v))
    BY <1>3, <1>4, <1>5, <1>8 DEF UsesAre
  <2> QED
    BY <1>3, <1>4, <2>2, <2>3
<1> QED
  BY <1>8 DEF UsesCounted

LEMMA InOrderFormed ==
    ASSUME Inv
    PROVE  WellFormed
<1> DEFINE w == World
           p == Ids(program)
           O == Within(w, scope, 0)
           n == Len(vars)
<1>1. /\ Fine(w, scope, p) /\ w.vars = vars /\ w.scopes = scopes /\ failed \in BOOLEAN
      /\ Len(program) \in Nat /\ Len(p) = Len(program)
  BY InvHere
<1>2. w \in WorldSet /\ scope \in Scopes(w)
  BY <1>1, HereIs
<1>3. /\ vars \in Seq(VarSet) /\ n \in Nat /\ DOMAIN vars = 1..n /\ Vars(w) = 1..n
      /\ scopes \in Seq(ScopeSet) /\ Len(scopes) \in Nat /\ DOMAIN scopes = Scopes(w)
      /\ \A v \in 1..n : vars[v] \in VarSet
      /\ \A s \in Scopes(w) : scopes[s] \in ScopeSet
  BY <1>1, <1>2, WorldIs DEF Vars, Scopes
<1>4. /\ Listing(Links(w), Decls(w), Dec(w), Und(w), O) /\ Marks(w, O)
      /\ Counted(Links(w), Uses(w), p) /\ TreeOk(w)
  BY <1>1 DEF Fine, Good
<1>5. /\ DOMAIN Links(w) = 1..n /\ DOMAIN Dec(w) = Scopes(w)
      /\ \A v \in 1..n : Links(w)[v] = vars[v].link /\ Decls(w)[v] = vars[v].decl
  BY <1>1, <1>3 DEF Links, Decls, Dec
<1>6. O = Chain(scope) /\ O \subseteq Scopes(w)
  BY <1>1, <1>2, <1>4, <1>5 DEF Chain, Listing
<1>7. ASSUME NEW s \in Scopes(w)
      PROVE  /\ scopes[s].declared \in Seq(Nat) /\ scopes[s].undeclared \in Seq(Nat)
             /\ Dec(w)[s] = Elems(scopes[s].declared) /\ Und(w)[s] = Elems(scopes[s].undeclared)
             /\ Range(scopes[s].declared) = Dec(w)[s] /\ Range(scopes[s].undeclared) = Und(w)[s]
             /\ Dec(w)[s] \subseteq 1..n /\ Und(w)[s] \subseteq 1..n
             /\ scopes[s].declared \in Seq(1..n) /\ scopes[s].undeclared \in Seq(1..n)
  <2>1. /\ scopes[s].declared \in Seq(Nat) /\ scopes[s].undeclared \in Seq(Nat)
        /\ Dec(w)[s] = Elems(scopes[s].declared) /\ Und(w)[s] = Elems(scopes[s].undeclared)
    BY <1>1, <1>2, ListsTyped
  <2>2. Range(scopes[s].declared) = Elems(scopes[s].declared)
    BY <2>1, ElemsRange
  <2>3. Range(scopes[s].undeclared) = Elems(scopes[s].undeclared)
    BY <2>1, ElemsRange
  <2>4. Dec(w)[s] \subseteq 1..n /\ Und(w)[s] \subseteq 1..n
    BY <1>4, <1>5 DEF Listing, Ranged
  <2>5. /\ \A i \in 1..Len(scopes[s].declared) : scopes[s].declared[i] \in 1..n
        /\ \A i \in 1..Len(scopes[s].undeclared) : scopes[s].undeclared[i] \in 1..n
    BY <2>1, <2>4 DEF Elems
  <2> HIDE DEF n
  <2>6. scopes[s].declared \in Seq(1..n)
    BY <2>1, <2>5, SeqInto
  <2>7. scopes[s].undeclared \in Seq(1..n)
    BY <2>1, <2>5, SeqInto
  <2> QED
    BY <2>1, <2>2, <2>3, <2>4, <2>6, <2>7
<1> HIDE DEF w, O, n
<1>8. vars \in Seq([name : Names, link : 0..n, uses : 0..UsesMod - 1,
                    decl : {NoDecl, VariableDecl, FunctionDecl, ArgumentDecl, LexicalDecl, CatchDecl, ExprDecl}])
  <2> DEFINE T == [name : Names, link : 0..n, uses : 0..UsesMod - 1,
                   decl : {NoDecl, VariableDecl, FunctionDecl, ArgumentDecl, LexicalDecl, CatchDecl, ExprDecl}]
  <2>1. ASSUME NEW v \in 1..Len(vars) PROVE vars[v] \in T
    <3>1. v \in 1..n
      BY DEF n
    <3>2. Links(w)[v] \in 0..n
      <4>1. PICK out, depth : Leads(Links(w), out, depth)
        BY <1>4, Zenon DEF Counted
      <4>2. Links(w)[v] \in (1..n) \cup {0}
        BY <1>5, <3>1, <4>1 DEF Leads
      <4> QED
        BY <1>3, <4>2
    <3> QED
      BY <1>3, <1>5, <3>1, <3>2 DEF VarSet, DeclSet
  <2> HIDE DEF T
  <2>2. vars \in Seq(T)
    BY <1>3, <2>1, SeqInto
  <2> QED
    BY <2>2 DEF T
<1>9. ASSUME NEW s \in DOMAIN scopes
      PROVE  LET t == scopes[s] IN
             /\ t.kind \in {"block", "for", "func", "paren", "group"}
             /\ t.part \in {"head", "body"} /\ t.at \in {"head", "body"}
             /\ t.params \in BOOLEAN /\ t.rest \in BOOLEAN
             /\ t.parent \in 0..s - 1 /\ t.func \in 1..s /\ (t.parent = 0 <=> s = 1)
             /\ t.declared \in Seq(DOMAIN vars) /\ t.undeclared \in Seq(DOMAIN vars)
             /\ s \in Chain(scope) => /\ t.numForDecls \in 0..Len(t.declared)
                                      /\ t.numArgUses \in 0..Len(t.undeclared)
  <2> DEFINE t == scopes[s]
  <2>1. s \in Scopes(w) /\ t \in ScopeSet
    BY <1>3
  <2>2. t.parent \in 0..(s - 1) /\ Within(w, s, 0) \subseteq 1..s
    BY <1>1, <1>4, <2>1, WithinHere DEF TreeOk
  <2>3. (t.parent = 0 <=> s = 1) /\ t.func \in 1..s
    BY <1>1, <1>4, <2>1, <2>2 DEF TreeOk
  <2>4. t.declared \in Seq(DOMAIN vars) /\ t.undeclared \in Seq(DOMAIN vars)
    BY <1>3, <1>7, <2>1
  <2>5. s \in O => t.numForDecls <= Len(t.declared) /\ t.numArgUses <= Len(t.undeclared)
    BY <1>1, <1>4 DEF Marks
  <2>6. Len(t.declared) \in Nat /\ Len(t.undeclared) \in Nat
    BY <1>7, <2>1, LenProperties
  <2> HIDE DEF t
  <2>7. /\ t.kind \in {"block", "for", "func", "paren", "group"}
        /\ t.part \in {"head", "body"} /\ t.at \in {"head", "body"}
        /\ t.params \in BOOLEAN /\ t.rest \in BOOLEAN
        /\ t.numForDecls \in Nat /\ t.numArgUses \in Nat
    BY <2>1 DEF ScopeSet, KindSet, PartSet
  <2>8. s \in Chain(scope) => t.numForDecls \in 0..Len(t.declared) /\ t.numArgUses \in 0..Len(t.undeclared)
    BY <1>6, <2>5, <2>6, <2>7
  <2>9. t.parent \in 0..s - 1
    BY <2>2
  <2> QED
    BY <2>3, <2>4, <2>7, <2>8, <2>9 DEF t
<1>10. program \in Seq([name : Names, scope : DOMAIN scopes, part : {"head", "body"},
                        decl : {NoDecl, VariableDecl, FunctionDecl, ArgumentDecl,
                                LexicalDecl, CatchDecl, ExprDecl},
                        v : DOMAIN vars])
  <2> DEFINE T == [name : Names, scope : DOMAIN scopes, part : {"head", "body"},
                   decl : {NoDecl, VariableDecl, FunctionDecl, ArgumentDecl,
                           LexicalDecl, CatchDecl, ExprDecl},
                   v : DOMAIN vars]
  <2>1. program \in Seq(IdSet) /\ \A i \in 1..Len(program) : program[i].scope \in Scopes(w)
    BY DEF Inv, InOrder, w
  <2>2. p \in Seq(1..n)
    BY <1>4, <1>5 DEF Counted
  <2>3. \A i \in 1..Len(program) : p[i] = program[i].v
    BY DEF Ids
  <2> HIDE DEF p
  <2>4. ASSUME NEW i \in 1..Len(program) PROVE program[i] \in T
    <3>1. program[i] \in IdSet
      BY <2>1, ElementOfSeq
    <3>2. p[i] \in 1..n
      BY <1>1, <2>2, ElementOfSeq
    <3> QED
      BY <1>3, <2>1, <2>3, <3>1, <3>2 DEF IdSet, PartSet, DeclSet
  <2> HIDE DEF T
  <2>5. program \in Seq(T)
    BY <2>1, <2>4, SeqInto
  <2> QED
    BY <2>5 DEF T
<1>11. TypeOK
  BY <1>1, <1>2, <1>3, <1>8, <1>9, <1>10 DEF TypeOK, n
<1>12. ActiveUnlinked
  <2>1. Unlinked(Links(w), Dec(w), Und(w), O)
    BY <1>4 DEF Listing
  <2>2. ASSUME NEW s \in O, NEW v \in Range(scopes[s].declared) \cup Range(scopes[s].undeclared)
        PROVE  vars[v].link = 0
    <3>1. s \in Scopes(w)
      BY <1>6
    <3>2. v \in Dec(w)[s] \cup Und(w)[s] /\ v \in 1..n
      BY <1>7, <3>1
    <3> QED
      BY <1>5, <2>1, <3>2 DEF Unlinked
  <2> QED
    BY <1>6, <2>2 DEF ActiveUnlinked
<1>13. DeclaredOnce
  <2>1. DecOnce(Dec(w)) /\ DecHasDecl(Decls(w), Dec(w)) /\ DeclIsDec(Links(w), Decls(w), Dec(w))
    BY <1>4 DEF Listing
  <2>2. ASSUME NEW v \in DOMAIN vars, vars[v].link = 0
        PROVE  Cardinality({s \in DOMAIN scopes : v \in Range(scopes[s].declared)})
                 = IF vars[v].decl = NoDecl THEN 0 ELSE 1
    <3> DEFINE S == {s \in DOMAIN scopes : v \in Range(scopes[s].declared)}
    <3>1. S = {s \in Scopes(w) : v \in Dec(w)[s]} /\ v \in 1..n
      BY <1>3, <1>7
    <3> HIDE DEF S
    <3>2. CASE vars[v].decl = NoDecl
      <4>1. S = {}
        BY <1>5, <2>1, <3>1, <3>2 DEF DecHasDecl
      <4> QED
        BY <3>2, <4>1, FS_EmptySet DEF S
    <3>3. CASE vars[v].decl # NoDecl
      <4>1. PICK s \in Scopes(w) : v \in Dec(w)[s]
        BY <1>5, <2>1, <2>2, <3>1, <3>3 DEF DeclIsDec
      <4>2. S = {s}
        BY <1>5, <2>1, <3>1, <4>1 DEF DecOnce
      <4> QED
        BY <3>3, <4>2, FS_Singleton DEF S
    <3> QED
      BY <3>2, <3>3
  <2> QED
    BY <2>2 DEF DeclaredOnce
<1> QED
  BY <1>11, <1>12, <1>13 DEF WellFormed

--------------------------------------------------------------------------------

\* The lists of all scopes and the links of all variables are in order: no
\* variable of an open scope has been merged into another, so that Find and
\* Declare need not follow links (js/ast.go:315), and a variable is declared in
\* one scope or, without a declaration, in none.
THEOREM ListsInOrder == MaxLength < UsesMod /\ Spec => []WellFormed
<1> SUFFICES ASSUME MaxLength < UsesMod PROVE Spec => []WellFormed
  OBVIOUS
<1>1. Spec => []Inv
  BY AlwaysInOrder
<1>2. Inv => WellFormed
  BY InOrderFormed
<1> QED
  BY <1>1, <1>2, PTL

\* Var.Uses is the number of identifiers that Name() resolves to the variable
\* (js/ast.go:126), however the scopes they stand in were closed and merged.
THEOREM UsesAreCounted == MaxLength < UsesMod /\ Spec => []UsesCounted
<1> SUFFICES ASSUME MaxLength < UsesMod PROVE Spec => []UsesCounted
  OBVIOUS
<1>1. Spec => []Inv
  BY AlwaysInOrder
<1>2. Inv => UsesCounted
  BY InOrderCounts
<1> QED
  BY <1>1, <1>2, PTL
================================================================================
