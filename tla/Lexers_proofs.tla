----------------------------- MODULE Lexers_proofs -----------------------------
(***************************************************************************)
(* The four lexers implement Tokenizer, whatever their sources, and the    *)
(* counter of js/lex.go does for brackets of any depth what a stack does.  *)
(* A lexer's function from an offset to the end of what it consumes is a   *)
(* loop: a scan for the first character that stops it, or a recursive      *)
(* function.  The first section shows what such loops compute, the ones of *)
(* the languages that none of them leaves the source, and the last ones    *)
(* the refinement, step by step.                                           *)
(***************************************************************************)
EXTENDS Lexers, SequenceTheorems, WellFoundedInduction, NaturalsInduction, TLAPS
--------------------------------------------------------------------------------
(* Loops                                                                    *)

\* A set of naturals that is not empty has a least element: how a fact is
\* proved for all turns of a loop, by looking at the first that it fails for.
LEMMA LeastNumber ==
    ASSUME NEW S \in SUBSET Nat, S # {}
    PROVE  \E n \in S : \A m \in S : n <= m
<1> DEFINE R == {ss \in Nat \X Nat : ss[1] < ss[2]}
<1>1. IsWellFoundedOn(R, Nat)
  BY NatLessThanWellFounded, Zenon DEF OpToRel
<1> HIDE DEF R
<1>2. PICK n \in S : \A m \in S : ~(<<m, n>> \in R)
  BY <1>1, WFMin
<1>3. \A m \in S : ~(m < n)
  BY <1>2 DEF R
<1> QED
  BY <1>3

\* A loop that looks at one offset after the other stops at the first that is
\* in S, or past the terminator at n.
LEMMA FirstStop ==
    ASSUME NEW n \in Nat, NEW p \in 0..(n + 1), NEW S
    PROVE  \E q \in p..(n + 1) : (q > n \/ q \in S) /\ \A r \in p..(q - 1) : r \notin S
<1> DEFINE T == {q \in p..(n + 1) : q > n \/ q \in S}
<1>1. T \in SUBSET Nat /\ n + 1 \in T
  OBVIOUS
<1>2. PICK q \in T : \A m \in T : q <= m
  BY <1>1, LeastNumber
<1>3. \A r \in p..(q - 1) : r \notin T
  BY <1>2
<1> QED
  BY <1>2, <1>3

\* f is what a loop answers whose turns go from d to nxt[d], and which is done
\* with res[d] for the d in stop.
Turns(D, stop, res, nxt, f) == f = [d \in D |-> IF d \in stop THEN res[d] ELSE f[nxt[d]]]

\* A loop that comes nearer to an end with every turn has such a function.
LEMMA Loop ==
    ASSUME NEW D, NEW stop, NEW res, NEW nxt, NEW rank \in [D -> Nat],
           \A d \in D : d \notin stop => nxt[d] \in D /\ rank[nxt[d]] < rank[d]
    PROVE  \E f : Turns(D, stop, res, nxt, f)
<1> DEFINE Upto(k) == {d \in D : rank[d] < k}
           Solves(k, f) == f = [d \in Upto(k) |-> IF d \in stop THEN res[d] ELSE f[nxt[d]]]
           Bad == {k \in Nat : ~ \E f : Solves(k, f)}
<1>1. \E f : Solves(0, f)
  <2> DEFINE f == [d \in {} |-> 0]
             g == [d \in Upto(0) |-> IF d \in stop THEN res[d] ELSE f[nxt[d]]]
  <2>1. Upto(0) = {}
    OBVIOUS
  <2>2. f = g
    BY <2>1
  <2> QED
    BY <2>2
<1>2. ASSUME NEW k \in Nat, NEW f, Solves(k, f)
      PROVE  \E g : Solves(k + 1, g)
  <2> DEFINE g == [d \in Upto(k + 1) |-> IF d \in stop THEN res[d] ELSE f[nxt[d]]]
             h == [d \in Upto(k + 1) |-> IF d \in stop THEN res[d] ELSE g[nxt[d]]]
  <2>1. ASSUME NEW d \in Upto(k + 1) PROVE g[d] = h[d]
    <3>1. CASE d \in stop
      BY <3>1
    <3>2. CASE d \notin stop
      <4> DEFINE e == nxt[d]
      <4>1. e \in D /\ rank[e] < rank[d] /\ d \in D
        BY <3>2
      <4>2. rank[e] \in Nat /\ rank[d] \in Nat /\ rank[d] < k + 1
        BY <4>1
      <4>3. e \in Upto(k) /\ e \in Upto(k + 1)
        BY <4>1, <4>2
      <4> HIDE DEF e
      <4>4. f[e] = IF e \in stop THEN res[e] ELSE f[nxt[e]]
        BY <4>3, <1>2
      <4>5. g[e] = IF e \in stop THEN res[e] ELSE f[nxt[e]]
        BY <4>3
      <4>6. g[d] = f[e] /\ h[d] = g[e]
        BY <3>2 DEF e
      <4> QED
        BY <4>4, <4>5, <4>6
    <3> QED
      BY <3>1, <3>2
  <2>2. g = h
    BY <2>1, Zenon
  <2> HIDE DEF g
  <2> QED
    BY <2>2
<1>3. Bad = {}
  <2> HIDE DEF Solves
  <2> SUFFICES ASSUME Bad # {} PROVE FALSE
    OBVIOUS
  <2>1. PICK m \in Bad : \A k \in Bad : m <= k
    BY LeastNumber
  <2>2. m # 0 /\ m \in Nat
    BY <1>1, Zenon
  <2>3. m - 1 \in Nat /\ ~(m <= m - 1) /\ m - 1 + 1 = m
    BY <2>2
  <2>4. m - 1 \notin Bad
    BY <2>1, <2>3
  <2>5. \E f : Solves(m - 1, f)
    BY <2>3, <2>4, Zenon
  <2>6. \E f : Solves(m - 1 + 1, f)
    BY <1>2, <2>3, <2>5, Zenon
  <2> QED
    BY <2>3, <2>6
<1> HIDE DEF Solves
<1>4. \A k \in Nat : \E f : Solves(k, f)
  BY <1>3, Zenon
<1> DEFINE F(k) == CHOOSE f : Solves(k, f)
           g == [d \in D |-> F(rank[d] + 1)[d]]
<1>5. \A k \in Nat : Solves(k, F(k))
  BY <1>4, Zenon
<1> HIDE DEF F
\* Two solutions agree where both are defined.
<1>6. ASSUME NEW j \in Nat, NEW k \in Nat, NEW d0 \in Upto(j), d0 \in Upto(k)
      PROVE  F(j)[d0] = F(k)[d0]
  <2> DEFINE Differ == {r \in Nat : \E d \in Upto(j) \cap Upto(k) : rank[d] = r /\ F(j)[d] # F(k)[d]}
  <2> SUFFICES ASSUME Differ # {} PROVE FALSE
    BY <1>6
  <2>1. PICK r \in Differ : \A m \in Differ : r <= m
    BY LeastNumber
  <2>2. PICK d \in Upto(j) \cap Upto(k) : rank[d] = r /\ F(j)[d] # F(k)[d]
    BY <2>1
  <2>3. F(j)[d] = IF d \in stop THEN res[d] ELSE F(j)[nxt[d]]
    BY <1>5, <2>2 DEF Solves
  <2>4. F(k)[d] = IF d \in stop THEN res[d] ELSE F(k)[nxt[d]]
    BY <1>5, <2>2 DEF Solves
  <2>5. d \notin stop /\ F(j)[nxt[d]] # F(k)[nxt[d]]
    BY <2>2, <2>3, <2>4
  <2>6. nxt[d] \in D /\ rank[nxt[d]] < rank[d] /\ rank[nxt[d]] \in Nat /\ rank[d] \in Nat
    BY <2>2, <2>5
  <2>7. nxt[d] \in Upto(j) \cap Upto(k)
    BY <2>2, <2>6
  <2>8. rank[nxt[d]] \in Differ
    BY <2>5, <2>6, <2>7
  <2> QED
    BY <2>1, <2>2, <2>6, <2>8
<1>7. ASSUME NEW d \in D
      PROVE  g[d] = IF d \in stop THEN res[d] ELSE g[nxt[d]]
  <2>1. rank[d] \in Nat /\ rank[d] + 1 \in Nat /\ d \in Upto(rank[d] + 1)
    OBVIOUS
  <2>2. F(rank[d] + 1)[d] = IF d \in stop THEN res[d] ELSE F(rank[d] + 1)[nxt[d]]
    BY <1>5, <2>1 DEF Solves
  <2>3. CASE d \in stop
    BY <2>2, <2>3
  <2>4. CASE d \notin stop
    <3>1. nxt[d] \in D /\ rank[nxt[d]] < rank[d] /\ rank[nxt[d]] \in Nat
      BY <2>4
    <3>2. nxt[d] \in Upto(rank[d] + 1) /\ nxt[d] \in Upto(rank[nxt[d]] + 1) /\ rank[nxt[d]] + 1 \in Nat
      BY <2>1, <3>1
    <3>3. F(rank[d] + 1)[nxt[d]] = F(rank[nxt[d]] + 1)[nxt[d]]
      BY <1>6, <2>1, <3>2
    <3> QED
      BY <2>2, <2>4, <3>1, <3>3
  <2> QED
    BY <2>3, <2>4
<1> DEFINE gg == [d \in D |-> IF d \in stop THEN res[d] ELSE g[nxt[d]]]
<1>8. g = gg
  BY <1>7, Zenon
<1> HIDE DEF g
<1> QED
  BY <1>8 DEF Turns

\* What the turns keep in inv, the last of them has.
LEMMA LoopKeeps ==
    ASSUME NEW D, NEW stop, NEW res, NEW nxt, NEW rank \in [D -> Nat], NEW inv, NEW f,
           \A d \in D : d \notin stop => nxt[d] \in D /\ rank[nxt[d]] < rank[d],
           \A d \in D : d \notin stop /\ d \in inv => nxt[d] \in inv,
           Turns(D, stop, res, nxt, f),
           NEW d0 \in D, d0 \in inv
    PROVE  \E e \in D : e \in inv /\ e \in stop /\ rank[e] <= rank[d0] /\ f[d0] = res[e]
<1> DEFINE Good(d) == \E e \in D : e \in inv /\ e \in stop /\ rank[e] <= rank[d] /\ f[d] = res[e]
           Bad == {r \in Nat : \E d \in D : d \in inv /\ rank[d] = r /\ ~Good(d)}
<1> SUFFICES ASSUME Bad # {} PROVE FALSE
  <2>1. rank[d0] \in Nat
    OBVIOUS
  <2> HIDE DEF Good
  <2> SUFFICES Good(d0)
    BY DEF Good
  <2> QED
    BY <2>1
<1> HIDE DEF Good
<1>1. PICK r \in Bad : \A m \in Bad : r <= m
  BY LeastNumber
<1>2. PICK d \in D : d \in inv /\ rank[d] = r /\ ~Good(d)
  BY <1>1
<1>3. f[d] = IF d \in stop THEN res[d] ELSE f[nxt[d]]
  BY DEF Turns
<1>4. d \notin stop
  <2> SUFFICES ASSUME d \in stop PROVE Good(d)
    BY <1>2
  <2>1. rank[d] <= rank[d]
    OBVIOUS
  <2> QED
    BY <1>2, <1>3, <2>1 DEF Good
<1>5. nxt[d] \in D /\ nxt[d] \in inv /\ rank[nxt[d]] < rank[d] /\ rank[nxt[d]] \in Nat /\ rank[d] \in Nat
  BY <1>2, <1>4
<1>6. Good(nxt[d])
  BY <1>1, <1>2, <1>5
<1>7. PICK e \in D : e \in inv /\ e \in stop /\ rank[e] <= rank[nxt[d]] /\ f[nxt[d]] = res[e]
  BY <1>6 DEF Good
<1>8. rank[e] <= rank[d] /\ f[d] = res[e]
  BY <1>3, <1>4, <1>5, <1>7
<1> QED
  BY <1>2, <1>7, <1>8 DEF Good

\* A loop over offsets, which comes nearer to the end at n with every turn.
Advances(n, stop, nxt) ==
    \A p \in 0..(n + 1) : p \notin stop => nxt[p] \in (p + 1)..(n + 1) /\ (p <= n => nxt[p] <= n)

Ends(n, stop, res, f) == \A p \in 0..n : \E e \in p..n : e \in stop /\ f[p] = res[e]

LEMMA OffsetLoop ==
    ASSUME NEW n \in Nat, NEW stop, NEW res, NEW nxt, Advances(n, stop, nxt)
    PROVE  /\ \E f : Turns(0..(n + 1), stop, res, nxt, f)
           /\ \A f : Turns(0..(n + 1), stop, res, nxt, f) => Ends(n, stop, res, f)
<1> DEFINE D == 0..(n + 1)
           I == 0..n
           rank == [p \in D |-> n + 1 - p]
<1>1. rank \in [D -> Nat]
  OBVIOUS
<1>2. \A p \in D : p \notin stop => nxt[p] \in D /\ rank[nxt[p]] < rank[p]
  BY DEF Advances
<1>3. \A p \in D : p \notin stop /\ p \in I => nxt[p] \in I
  BY DEF Advances
<1>4. \A p \in D : rank[p] = n + 1 - p
  OBVIOUS
<1>5. \A p \in I : p \in D
  OBVIOUS
<1> HIDE DEF rank, D, I
<1>6. \E f : Turns(D, stop, res, nxt, f)
  BY <1>1, <1>2, Loop, Zenon
<1>7. ASSUME NEW f, Turns(D, stop, res, nxt, f), NEW p \in I
      PROVE  \E e \in p..n : e \in stop /\ f[p] = res[e]
  <2>1. p \in D
    BY <1>5
  <2>2. PICK e \in D : e \in I /\ e \in stop /\ rank[e] <= rank[p] /\ f[p] = res[e]
    BY <1>1, <1>2, <1>3, <1>7, <2>1, LoopKeeps, SMT
  <2>3. rank[p] = n + 1 - p /\ rank[e] = n + 1 - e
    BY <1>4, <2>1
  <2>4. e >= p /\ e \in I
    BY <2>2, <2>3 DEF D, I
  <2> QED
    BY <2>2, <2>4 DEF I
<1>8. \A f : Turns(D, stop, res, nxt, f) => Ends(n, stop, res, f)
  BY <1>7, Zenon DEF Ends, I
<1> QED
  BY <1>6, <1>8 DEF D

\* A loop whose turns are at an offset and keep more than that.
Nears(n, D, off, stop, nxt) ==
    /\ \A d \in D : off[d] <= n + 1
    /\ \A d \in D : d \notin stop => nxt[d] \in D /\ off[d] < off[nxt[d]] /\ (off[d] <= n => off[nxt[d]] <= n)

Reaches(n, D, off, stop, res, f) ==
    \A d \in D : off[d] <= n => \E e \in D : e \in stop /\ off[d] <= off[e] /\ off[e] <= n /\ f[d] = res[e]

LEMMA RangeLoop ==
    ASSUME NEW n \in Nat, NEW D, NEW off \in [D -> Nat], NEW stop, NEW res, NEW nxt,
           Nears(n, D, off, stop, nxt)
    PROVE  /\ \E f : Turns(D, stop, res, nxt, f)
           /\ \A f : Turns(D, stop, res, nxt, f) => Reaches(n, D, off, stop, res, f)
<1> DEFINE rank == [d \in D |-> n + 1 - off[d]]
           I == {d \in D : off[d] <= n}
<1>1. rank \in [D -> Nat]
  BY DEF Nears
<1>2. \A d \in D : rank[d] = n + 1 - off[d] /\ off[d] \in Nat
  OBVIOUS
<1>3. \A d \in D : d \in I <=> off[d] <= n
  OBVIOUS
<1> HIDE DEF rank, I
<1>4. \A d \in D : d \notin stop => nxt[d] \in D /\ rank[nxt[d]] < rank[d]
  <2> SUFFICES ASSUME NEW d \in D, d \notin stop PROVE nxt[d] \in D /\ rank[nxt[d]] < rank[d]
    OBVIOUS
  <2>1. nxt[d] \in D /\ off[d] < off[nxt[d]]
    BY DEF Nears
  <2>2. rank[d] = n + 1 - off[d] /\ off[d] \in Nat
    BY <1>2
  <2>3. rank[nxt[d]] = n + 1 - off[nxt[d]] /\ off[nxt[d]] \in Nat
    BY <1>2, <2>1
  <2> QED
    BY <2>1, <2>2, <2>3
<1>5. \A d \in D : d \notin stop /\ d \in I => nxt[d] \in I
  BY <1>3 DEF Nears
<1>6. \E f : Turns(D, stop, res, nxt, f)
  BY <1>1, <1>4, Loop, Zenon
<1>7. ASSUME NEW f, Turns(D, stop, res, nxt, f), NEW d \in D, off[d] <= n
      PROVE  \E e \in D : e \in stop /\ off[d] <= off[e] /\ off[e] <= n /\ f[d] = res[e]
  <2>1. d \in I
    BY <1>3, <1>7
  <2>2. PICK e \in D : e \in I /\ e \in stop /\ rank[e] <= rank[d] /\ f[d] = res[e]
    BY <1>1, <1>4, <1>5, <1>7, <2>1, LoopKeeps, SMT
  <2>3. rank[d] = n + 1 - off[d] /\ off[d] \in Nat /\ rank[e] = n + 1 - off[e] /\ off[e] \in Nat
    BY <1>2
  <2>4. off[d] <= off[e] /\ off[e] <= n
    BY <1>3, <2>2, <2>3
  <2> QED
    BY <2>2, <2>4
<1> QED
  BY <1>6, <1>7, Zenon DEF Reaches

\* Where a loop stops that looks at one offset after the other, and would stop at
\* the end of the source.
IsFirst(q, p, n, S) == q \in p..(n + 1) /\ (q > n \/ q \in S) /\ \A r \in p..(q - 1) : r \notin S

LEMMA FirstInside ==
    ASSUME NEW n \in Nat, NEW p \in Nat, p <= n, NEW S, n \in S
    PROVE  /\ \E q : IsFirst(q, p, n, S)
           /\ \A q : IsFirst(q, p, n, S) => q \in Nat /\ p <= q /\ q <= n /\ q \in S
<1>1. \E q : IsFirst(q, p, n, S)
  <2>1. p \in 0..(n + 1)
    OBVIOUS
  <2> QED
    BY <2>1, FirstStop DEF IsFirst
<1>2. ASSUME NEW q, IsFirst(q, p, n, S)
      PROVE  q \in Nat /\ p <= q /\ q <= n /\ q \in S
  <2>1. q \in Nat /\ p <= q /\ q <= n + 1
    BY <1>2 DEF IsFirst
  <2>2. CASE q > n
    <3>1. n \in p..(q - 1)
      BY <2>1, <2>2
    <3> QED
      BY <1>2, <3>1 DEF IsFirst
  <2>3. CASE ~(q > n)
    BY <1>2, <2>1, <2>3 DEF IsFirst
  <2> QED
    BY <2>2, <2>3
<1> QED
  BY <1>1, <1>2
--------------------------------------------------------------------------------
(* The source                                                               *)

\* No symbol of the source is the mark for what is beyond it.
Fits(source) == \E symbols : "panic" \notin symbols /\ source \in Seq(symbols)

LEMMA SourceFacts ==
    ASSUME Fits(src)
    PROVE  Len(src) \in Nat /\ \A i \in 1..Len(src) : src[i] # "panic"
<1>1. PICK symbols : "panic" \notin symbols /\ src \in Seq(symbols)
  BY DEF Fits
<1>2. Len(src) \in Nat /\ \A i \in 1..Len(src) : src[i] \in symbols
  BY <1>1
<1> QED
  BY <1>1, <1>2

\* What Peek finds at the end and beyond, and that only there it does.
LEMMA AtFacts ==
    ASSUME Fits(src), NEW p \in Nat
    PROVE  /\ Len(src) \in Nat
           /\ At(p) = "panic" <=> p > Len(src)
           /\ p = Len(src) => At(p) = NUL
           /\ Ended(p) <=> p = Len(src)
           /\ AtEOF(p) <=> p >= Len(src)
<1>1. Len(src) \in Nat /\ \A i \in 1..Len(src) : src[i] # "panic"
  BY SourceFacts
<1>2. NUL # "panic"
  BY DEF NUL
<1>3. p < Len(src) => p + 1 \in 1..Len(src) /\ At(p) = src[p + 1]
  BY <1>1 DEF At
<1>4. p = Len(src) => At(p) = NUL
  BY <1>1 DEF At
<1>5. p > Len(src) => At(p) = "panic"
  BY <1>1 DEF At
<1>6. At(p) = "panic" <=> p > Len(src)
  BY <1>1, <1>2, <1>3, <1>4, <1>5
<1> QED
  BY <1>1, <1>2, <1>4, <1>5, <1>6 DEF Ended, AtEOF

\* Where a loop or a function leaves the Input that it finds at p.
Inside(p) == p \in Nat /\ p <= Len(src)

From(p, q) == Inside(q) /\ p <= q

\* From is transitive, reflexive, and goes on by one at a time.
LEMMA FromFrom ==
    ASSUME NEW p, NEW q, NEW r, Inside(p), From(p, q), From(q, r)
    PROVE  From(p, r)
  BY DEF From, Inside

LEMMA FromItself == ASSUME NEW p, Inside(p) PROVE From(p, p)
  BY DEF From, Inside

LEMMA FromNext == ASSUME NEW p, Inside(p), Inside(p + 1) PROVE From(p, p + 1)
  BY DEF From, Inside

\* What begins beyond an offset ends beyond it.
LEMMA FromBeyond ==
    ASSUME NEW p, Inside(p), NEW q, From(p, q), p < q, NEW r, From(q, r)
    PROVE  From(p, r) /\ p < r
  BY DEF From, Inside

\* Classes of characters that are in the source.
OfChars(class) == \A c \in class : c \notin {"nul", "panic"}

\* The lexers have their input in common.
LEMMA SameInput ==
    ASSUME NEW p
    PROVE  /\ X!At(p) = At(p) /\ C!At(p) = At(p) /\ J!At(p) = At(p)
           /\ C!Ended(p) = Ended(p) /\ J!Ended(p) = Ended(p)
           /\ C!AtEOF(p) = AtEOF(p)
           /\ X!NUL = NUL /\ C!NUL = NUL /\ J!NUL = NUL
  BY DEF At, X!At, C!At, J!At, Ended, C!Ended, J!Ended, AtEOF, C!AtEOF, J!AtEOF, NUL, X!NUL, C!NUL, J!NUL
--------------------------------------------------------------------------------
(* Steps                                                                    *)

BlanksBetween(lo, hi) == \A i \in lo..(hi - 1) : At(i) = " "

\* Offsets with nothing but blanks between them, as Tokenizer says it.
LEMMA OnlyBlanksBetween ==
    ASSUME Fits(src), NEW lo \in Nat, NEW hi \in Nat, hi <= Len(src), BlanksBetween(lo, hi)
    PROVE  Promise!OnlyBlanks(lo, hi)
<1> SUFFICES ASSUME NEW i \in (lo + 1)..hi PROVE src[i] \in {" "}
  BY DEF Promise!OnlyBlanks
<1>1. Len(src) \in Nat
  BY SourceFacts
<1>2. i - 1 \in lo..(hi - 1) /\ i - 1 < Len(src) /\ i - 1 + 1 = i
  BY <1>1
<1>3. At(i - 1) = " "
  BY <1>2 DEF BlanksBetween
<1> QED
  BY <1>2, <1>3 DEF At

\* What the lexers keep, beside their own: nothing is read past the end, and the
\* last token ends where the next may begin.
TokenFits(t, p) == t = NoToken \/ (t.type # "none" /\ t.lo \in Nat /\ t.hi = p /\ t.lo < t.hi)

InSource ==
    /\ Fits(src)
    /\ lang \in Languages
    /\ pos \in Nat /\ pos <= Len(src)
    /\ ended \in BOOLEAN
    /\ ahead \in Nat /\ pos + ahead <= Len(src)
    /\ TokenFits(tok, pos)

LEMMA AnswersToken ==
    ASSUME NEW type, NEW lo, NEW hi, NEW data, Answers(type, lo, hi, data), type # "none"
    PROVE  /\ tok'.type = type /\ tok'.lo = lo /\ tok'.hi = hi
           /\ tok' # NoToken
           /\ pos' = hi /\ src' = src /\ ended' = ended
<1>1. tok' = [type |-> type, lo |-> lo, hi |-> hi, data |-> data]
  BY DEF Answers
<1>2. tok'.type = type /\ tok'.lo = lo /\ tok'.hi = hi
  BY <1>1
<1>3. NoToken.type = "none"
  BY DEF NoToken
<1> QED
  BY <1>2, <1>3 DEF Answers

Piece(t) == IF t = NoToken THEN <<>> ELSE <<t.lo, t.hi>>

\* A step that answers a token of the source does what Tokenizer allows, and
\* keeps InSource.
LEMMA TokenStep ==
    ASSUME InSource, ~ended, lang' = lang, ahead' = 0,
           NEW type, NEW lo \in Nat, NEW hi \in Nat, NEW data, 
           pos <= lo, lo < hi, hi <= Len(src), type # "none",
           Answers(type, lo, hi, data), BlanksBetween(pos, lo)
    PROVE  Promise!Next /\ InSource'
<1>1. /\ tok'.type = type /\ tok'.lo = lo /\ tok'.hi = hi
      /\ tok' # NoToken
      /\ pos' = hi /\ src' = src /\ ended' = ended
  BY AnswersToken
<1>2. Fits(src) /\ Len(src) \in Nat /\ pos \in Nat
  BY SourceFacts DEF InSource
<1>3. lo \in pos..(Len(src) - 1) /\ hi \in (lo + 1)..Len(src)
  BY <1>2
<1>4. Promise!OnlyBlanks(pos, lo)
  <2>1. lo <= Len(src)
    BY <1>2
  <2> QED
    BY <1>2, <2>1, OnlyBlanksBetween
<1>5. Piece(tok') = <<lo, hi>>
  BY <1>1 DEF Piece
<1>6. ~(ahead' > 0)
  OBVIOUS
<1>7. Promise!Token
  <2>1. (ahead' > 0) = FALSE
    BY <1>6
  <2>2. (lang' = "js") = (lang = "js")
    OBVIOUS
  <2> QED
    BY <1>1, <1>3, <1>4, <1>5, <2>1, <2>2, Zenon DEF Promise!Token, Piece
<1>8. InSource'
  <2>1. TokenFits(tok', pos')
    BY <1>1, <1>3 DEF TokenFits
  <2>2. Fits(src')
    BY <1>1, <1>2
  <2>3. pos' \in Nat /\ pos' <= Len(src') /\ ahead' \in Nat /\ pos' + ahead' <= Len(src')
    BY <1>1, <1>2
  <2> QED
    BY <1>1, <2>1, <2>2, <2>3 DEF InSource
<1> QED
  BY <1>7, <1>8, Zenon DEF Promise!Next

\* So does a step that ends, at the end of the source or at a NUL, or after an
\* error.
LEMMA StopStep ==
    ASSUME InSource, ~ended, lang' = lang, ahead' = ahead,
           NEW p \in Nat, pos <= p, p + ahead <= Len(src), Fails(p),
           p = Len(src) => BlanksBetween(pos, p),
           p # Len(src) => ahead > 0 \/ At(p) = NUL
    PROVE  Promise!Next /\ InSource'
<1>1. tok' = NoToken /\ pos' = p /\ ended' = TRUE /\ src' = src
  BY DEF Fails
<1>2. Fits(src) /\ Len(src) \in Nat /\ pos \in Nat /\ ahead \in Nat
  BY SourceFacts DEF InSource
<1>3. p \in pos..Len(src) /\ p <= Len(src)
  BY <1>2
<1>4. p = Len(src) => Promise!OnlyBlanks(pos, p)
  BY <1>2, <1>3, OnlyBlanksBetween
<1>5. p # Len(src) => ahead > 0 \/ src[p + 1] = "nul"
  <2>1. p # Len(src) => p < Len(src)
    BY <1>2, <1>3
  <2> QED
    BY <2>1 DEF At, NUL
<1>6. Piece(tok') = <<>>
  BY <1>1 DEF Piece
<1>7. Promise!Stop
  <2>1. (ahead' > 0) = (ahead > 0)
    OBVIOUS
  <2>2. (lang' = "js") = (lang = "js")
    OBVIOUS
  <2>3. IF p = Len(src) THEN Promise!OnlyBlanks(pos, p) ELSE ahead > 0 \/ src[p + 1] = "nul"
    BY <1>4, <1>5
  <2> QED
    BY <1>1, <1>3, <1>6, <2>1, <2>2, <2>3, Zenon DEF Promise!Stop, Piece
<1>8. InSource'
  <2>1. TokenFits(tok', pos')
    BY <1>1 DEF TokenFits
  <2>2. pos' \in Nat /\ pos' <= Len(src') /\ ahead' \in Nat /\ pos' + ahead' <= Len(src')
    BY <1>1, <1>2 DEF InSource
  <2> QED
    BY <1>1, <1>2, <2>1, <2>2 DEF InSource
<1> QED
  BY <1>7, <1>8, Zenon DEF Promise!Next

\* So does a step of js that reports an error before a token,
LEMMA ReportStep ==
    ASSUME InSource, ~ended, lang' = lang, NEW k \in Nat, k > 0, pos + k <= Len(src),
           ahead' = k, UNCHANGED <<src, pos, tok, ended>>
    PROVE  Promise!Next /\ InSource'
<1>1. Promise!Fail
  <2>1. (ahead' > 0) = TRUE
    OBVIOUS
  <2>2. (lang' = "js") = (lang = "js")
    OBVIOUS
  <2>3. Piece(tok') = Piece(tok)
    OBVIOUS
  <2> QED
    BY <2>1, <2>2, <2>3, Zenon DEF Promise!Fail, Piece
<1>2. InSource'
  BY DEF InSource
<1> QED
  BY <1>1, <1>2, Zenon DEF Promise!Next

\* and one that asks for the last token again, as another or as an error.
LEMMA AgainStep ==
    ASSUME InSource, ~ended, lang' = lang, lang = "js", tok # NoToken,
           NEW type, NEW hi \in Nat, NEW data, type # "none", tok.lo < hi, hi <= Len(src),
           \/ Answers(type, tok.lo, hi, data) /\ ahead' = 0
           \/ tok' = NoToken /\ pos' = tok.lo /\ ahead' = hi - tok.lo /\ UNCHANGED <<src, ended>>
    PROVE  Promise!Next /\ InSource'
<1>1. Fits(src) /\ Len(src) \in Nat /\ pos \in Nat /\ tok.lo \in Nat
  BY SourceFacts DEF InSource, TokenFits
<1>2. Piece(tok) = <<tok.lo, tok.hi>>
  BY DEF Piece
<1>3. Piece(tok) # <<>> /\ Piece(tok)[1] = tok.lo
  BY <1>2
<1>4. hi \in (tok.lo + 1)..Len(src)
  BY <1>1
<1>5. (lang' = "js") = (lang = "js")
  OBVIOUS
<1>6. CASE Answers(type, tok.lo, hi, data) /\ ahead' = 0
  <2>1. /\ tok'.type = type /\ tok'.lo = tok.lo /\ tok'.hi = hi
        /\ tok' # NoToken
        /\ pos' = hi /\ src' = src /\ ended' = ended
    BY <1>6, AnswersToken
  <2>2. Piece(tok') = <<Piece(tok)[1], hi>>
    BY <1>3, <2>1 DEF Piece
  <2>3. (ahead' > 0) = FALSE
    BY <1>6
  <2>4. hi \in (Piece(tok)[1] + 1)..Len(src)
    BY <1>3, <1>4
  <2>5. Promise!Again
    BY <1>3, <1>5, <2>1, <2>2, <2>3, <2>4, Zenon DEF Promise!Again, Piece
  <2>6. TokenFits(tok', pos')
    BY <2>1, <1>1 DEF TokenFits
  <2>7. pos' \in Nat /\ pos' <= Len(src') /\ ahead' \in Nat /\ pos' + ahead' <= Len(src')
    BY <1>1, <1>6, <2>1
  <2>8. InSource'
    BY <1>1, <2>1, <2>6, <2>7 DEF InSource
  <2> QED
    BY <2>5, <2>8, Zenon DEF Promise!Next
<1>7. CASE tok' = NoToken /\ pos' = tok.lo /\ ahead' = hi - tok.lo /\ UNCHANGED <<src, ended>>
  <2>1. Piece(tok') = <<>>
    BY <1>7 DEF Piece
  <2>2. (ahead' > 0) = TRUE
    BY <1>1, <1>7
  <2>3. pos' = Piece(tok)[1]
    BY <1>3, <1>7
  <2>4. Promise!Again
    BY <1>3, <1>5, <1>7, <2>1, <2>2, <2>3, Zenon DEF Promise!Again, Piece
  <2>5. TokenFits(tok', pos')
    BY <1>7 DEF TokenFits
  <2>6. pos' \in Nat /\ pos' <= Len(src') /\ ahead' \in Nat /\ pos' + ahead' <= Len(src')
    BY <1>1, <1>7
  <2>7. InSource'
    BY <1>1, <1>7, <2>5, <2>6 DEF InSource
  <2> QED
    BY <2>4, <2>7, Zenon DEF Promise!Next
<1> QED
  BY <1>6, <1>7

\* A word that has been found is inside the source.
IsWord(word, k) == k \in Nat /\ k > 0 /\ Len(word) = k /\ word[k] \notin {"panic", NUL}

LEMMA Words ==
    ASSUME NEW a, NEW b, NEW c, NEW d, d \notin {"panic", NUL}
    PROVE  IsWord(<<d>>, 1) /\ IsWord(<<c, d>>, 2) /\ IsWord(<<b, c, d>>, 3) /\ IsWord(<<a, b, c, d>>, 4)
  BY DEF IsWord

LEMMA WordFits ==
    ASSUME Fits(src), NEW p \in Nat, NEW word, NEW k, IsWord(word, k), AtAll(p, word)
    PROVE  p + k <= Len(src)
<1> DEFINE q == p + k - 1
<1>1. k \in 1..k /\ k = Len(word) /\ q \in Nat /\ q + 1 = p + k
  BY DEF IsWord
<1>2. At(q) = word[k]
  BY <1>1 DEF AtAll
<1>3. /\ Len(src) \in Nat
      /\ At(q) = "panic" <=> q > Len(src)
      /\ q = Len(src) => At(q) = NUL
  BY <1>1, AtFacts
<1>4. At(q) # "panic" /\ At(q) # NUL
  BY <1>2 DEF IsWord
<1> HIDE DEF q
<1>5. q < Len(src)
  BY <1>1, <1>3, <1>4
<1> QED
  BY <1>1, <1>3, <1>5

\* At a character that is one, the source goes on.
LEMMA CharFits ==
    ASSUME Fits(src), NEW p \in Nat, At(p) \notin {"panic", NUL}
    PROVE  p + 1 <= Len(src)
  BY AtFacts
--------------------------------------------------------------------------------
(* xml/lex.go                                                               *)

\* XMLLexer's input is the source's.
LEMMA XMLInput ==
    ASSUME NEW p
    PROVE  /\ X!At(p) = At(p) /\ X!NUL = NUL
           /\ \A word : X!AtAll(p, word) <=> AtAll(p, word)
           /\ \A type, lo, hi, data : X!Answers(type, lo, hi, data) <=> Answers(type, lo, hi, data)
           /\ \A q : X!Fails(q) <=> Fails(q)
           /\ X!NoToken = NoToken
<1>1. X!At(p) = At(p) /\ X!NUL = NUL /\ X!NoToken = NoToken
  BY DEF At, X!At, NUL, X!NUL, NoToken, X!NoToken
<1>2. \A word : X!AtAll(p, word) <=> AtAll(p, word)
  BY Zenon DEF At, X!At, NUL, X!NUL, AtAll, X!AtAll
<1>3. \A type, lo, hi, data : X!Answers(type, lo, hi, data) <=> Answers(type, lo, hi, data)
  BY Zenon DEF Answers, X!Answers
<1>4. \A q : X!Fails(q) <=> Fails(q)
  BY <1>1, Zenon DEF Fails, X!Fails
<1> QED
  BY <1>1, <1>2, <1>3, <1>4

\* XML's runs of characters of a class stay in the source, and so do its loops for
\* names, quoted and unquoted values, text, and doctypes, whatever stops them.
LEMMA XMLPast ==
    ASSUME Fits(src), NEW p \in Nat, p <= Len(src), NEW class, NUL \notin class
    PROVE  /\ X!Past(p, class) \in Nat /\ p <= X!Past(p, class) /\ X!Past(p, class) <= Len(src)
           /\ At(X!Past(p, class)) \notin class
           /\ \A r \in p..(X!Past(p, class) - 1) : At(r) \in class
<1> DEFINE S == {q \in Nat : X!At(q) \notin class}
           n == Len(src)
           e == X!Past(p, class)
<1>1. n \in Nat /\ n \in S /\ p <= n
  BY AtFacts, XMLInput
<1>2. \A q \in p..(n + 1) : q \in Nat
  BY <1>1
<1>3. \A q : IsFirst(q, p, n, S)
         <=> q \in p..(n + 1) /\ (q > n \/ X!At(q) \notin class)
               /\ \A r \in p..(q - 1) : ~(X!At(r) \notin class)
  BY <1>1, <1>2 DEF IsFirst
<1>4. PICK q : IsFirst(q, p, n, S)
  BY <1>1, FirstInside
<1>5. IsFirst(e, p, n, S)
  BY <1>3, <1>4, Zenon DEF X!Past, X!Scan
<1> HIDE DEF S, n, e
<1>6. e \in Nat /\ p <= e /\ e <= n /\ e \in S
  BY <1>1, <1>5, FirstInside
<1> QED
  BY <1>3, <1>5, <1>6, XMLInput DEF e, S, n

LEMMA XMLNameEnd ==
    ASSUME Fits(src),
           NEW p \in Nat, p <= Len(src)
    PROVE  LET e == X!NameEnd(p)
           IN  /\ e \in Nat /\ p <= e /\ e <= Len(src)
               /\ (X!At(e) \in X!WS \cup {"=", X!NUL} \/ X!TagIsClosing(e))
               /\ \A r \in p..(e - 1) : ~((X!At(r) \in X!WS \cup {"=", X!NUL} \/ X!TagIsClosing(r)))
<1> DEFINE S == {q \in Nat : (X!At(q) \in X!WS \cup {"=", X!NUL} \/ X!TagIsClosing(q))}
           n == Len(src)
           e == X!NameEnd(p)
<1>1. n \in Nat /\ p \in Nat /\ p <= n
  BY AtFacts
<1>2. n \in S
  BY <1>1, AtFacts, XMLInput
<1>3. \A q \in p..(n + 1) : q \in Nat
  BY <1>1
<1>4. \A q : IsFirst(q, p, n, S)
         <=> q \in p..(n + 1)
               /\ (q > n \/ (X!At(q) \in X!WS \cup {"=", X!NUL} \/ X!TagIsClosing(q)))
               /\ \A r \in p..(q - 1) : ~((X!At(r) \in X!WS \cup {"=", X!NUL}
               \/ X!TagIsClosing(r)))
  <2>1. \A q \in p..(n + 1) : \A r \in p..(q - 1) : r \in Nat
    BY <1>1
  <2>2. \A q \in Nat : q \in S <=> (X!At(q) \in X!WS \cup {"=", X!NUL} \/ X!TagIsClosing(q))
    OBVIOUS
  <2> HIDE DEF S, n
  <2> QED
    BY <1>3, <2>1, <2>2, Zenon DEF IsFirst
<1>5. PICK q : IsFirst(q, p, n, S)
  <2> HIDE DEF S, n
  <2> QED
    BY <1>1, <1>2, FirstInside
<1>6. IsFirst(e, p, n, S)
  BY <1>4, <1>5, Zenon DEF X!NameEnd, X!Scan
<1> HIDE DEF e, S, n
<1>7. e \in Nat /\ p <= e /\ e <= n /\ e \in S
  BY <1>1, <1>2, <1>6, FirstInside
<1>8. (X!At(e) \in X!WS \cup {"=", X!NUL} \/ X!TagIsClosing(e))
        /\ \A r \in p..(e - 1) : ~((X!At(r) \in X!WS \cup {"=", X!NUL} \/ X!TagIsClosing(r)))
  BY <1>4, <1>6, <1>7, Zenon DEF S
<1> QED
  BY <1>7, <1>8, Zenon DEF e, n

LEMMA XMLQuoted ==
    ASSUME Fits(src),
           NEW p \in Nat, p + 1 <= Len(src)
    PROVE  LET e == X!Scan(p + 1, LAMBDA r : X!At(r) \in {X!At(p), X!NUL})
           IN  /\ e \in Nat /\ p + 1 <= e /\ e <= Len(src)
               /\ X!At(e) \in {X!At(p), X!NUL}
               /\ \A r \in (p + 1)..(e - 1) : ~(X!At(r) \in {X!At(p), X!NUL})
<1> DEFINE S == {q \in Nat : X!At(q) \in {X!At(p), X!NUL}}
           n == Len(src)
           e == X!Scan(p + 1, LAMBDA r : X!At(r) \in {X!At(p), X!NUL})
<1>1. n \in Nat /\ p + 1 \in Nat /\ p + 1 <= n
  BY AtFacts
<1>2. n \in S
  BY <1>1, AtFacts, XMLInput
<1>3. \A q \in (p + 1)..(n + 1) : q \in Nat
  BY <1>1
<1>4. \A q : IsFirst(q, p + 1, n, S)
         <=> q \in (p + 1)..(n + 1) /\ (q > n \/ X!At(q) \in {X!At(p), X!NUL})
               /\ \A r \in (p + 1)..(q - 1) : ~(X!At(r) \in {X!At(p), X!NUL})
  <2>1. \A q \in (p + 1)..(n + 1) : \A r \in (p + 1)..(q - 1) : r \in Nat
    BY <1>1
  <2>2. \A q \in Nat : q \in S <=> X!At(q) \in {X!At(p), X!NUL}
    OBVIOUS
  <2> HIDE DEF S, n
  <2> QED
    BY <1>3, <2>1, <2>2, Zenon DEF IsFirst
<1>5. PICK q : IsFirst(q, p + 1, n, S)
  <2> HIDE DEF S, n
  <2> QED
    BY <1>1, <1>2, FirstInside
<1>6. IsFirst(e, p + 1, n, S)
  BY <1>4, <1>5, Zenon DEF X!Scan
<1> HIDE DEF e, S, n
<1>7. e \in Nat /\ p + 1 <= e /\ e <= n /\ e \in S
  BY <1>1, <1>2, <1>6, FirstInside
<1>8. X!At(e) \in {X!At(p), X!NUL} /\ \A r \in (p + 1)..(e - 1) : ~(X!At(r) \in {X!At(p), X!NUL})
  BY <1>4, <1>6, <1>7, Zenon DEF S
<1> QED
  BY <1>7, <1>8, Zenon DEF e, n

LEMMA XMLUnquoted ==
    ASSUME Fits(src),
           NEW p \in Nat, p <= Len(src)
    PROVE  LET e == X!Scan(p, LAMBDA q : X!At(q) \in X!WS \cup {X!NUL} \/ X!TagIsClosing(q))
           IN  /\ e \in Nat /\ p <= e /\ e <= Len(src)
               /\ (X!At(e) \in X!WS \cup {X!NUL} \/ X!TagIsClosing(e))
               /\ \A r \in p..(e - 1) : ~((X!At(r) \in X!WS \cup {X!NUL} \/ X!TagIsClosing(r)))
<1> DEFINE S == {q \in Nat : (X!At(q) \in X!WS \cup {X!NUL} \/ X!TagIsClosing(q))}
           n == Len(src)
           e == X!Scan(p, LAMBDA q : X!At(q) \in X!WS \cup {X!NUL} \/ X!TagIsClosing(q))
<1>1. n \in Nat /\ p \in Nat /\ p <= n
  BY AtFacts
<1>2. n \in S
  BY <1>1, AtFacts, XMLInput
<1>3. \A q \in p..(n + 1) : q \in Nat
  BY <1>1
<1>4. \A q : IsFirst(q, p, n, S)
         <=> q \in p..(n + 1)
               /\ (q > n \/ (X!At(q) \in X!WS \cup {X!NUL} \/ X!TagIsClosing(q)))
               /\ \A r \in p..(q - 1) : ~((X!At(r) \in X!WS \cup {X!NUL}
               \/ X!TagIsClosing(r)))
  <2>1. \A q \in p..(n + 1) : \A r \in p..(q - 1) : r \in Nat
    BY <1>1
  <2>2. \A q \in Nat : q \in S <=> (X!At(q) \in X!WS \cup {X!NUL} \/ X!TagIsClosing(q))
    OBVIOUS
  <2> HIDE DEF S, n
  <2> QED
    BY <1>3, <2>1, <2>2, Zenon DEF IsFirst
<1>5. PICK q : IsFirst(q, p, n, S)
  <2> HIDE DEF S, n
  <2> QED
    BY <1>1, <1>2, FirstInside
<1>6. IsFirst(e, p, n, S)
  BY <1>4, <1>5, Zenon DEF X!Scan
<1> HIDE DEF e, S, n
<1>7. e \in Nat /\ p <= e /\ e <= n /\ e \in S
  BY <1>1, <1>2, <1>6, FirstInside
<1>8. (X!At(e) \in X!WS \cup {X!NUL} \/ X!TagIsClosing(e))
        /\ \A r \in p..(e - 1) : ~((X!At(r) \in X!WS \cup {X!NUL} \/ X!TagIsClosing(r)))
  BY <1>4, <1>6, <1>7, Zenon DEF S
<1> QED
  BY <1>7, <1>8, Zenon DEF e, n

LEMMA XMLTextEnd ==
    ASSUME Fits(src),
           NEW p \in Nat, p <= Len(src)
    PROVE  LET e == X!Scan(p, LAMBDA q : X!At(q) \in {"<", X!NUL})
           IN  /\ e \in Nat /\ p <= e /\ e <= Len(src)
               /\ X!At(e) \in {"<", X!NUL}
               /\ \A r \in p..(e - 1) : ~(X!At(r) \in {"<", X!NUL})
<1> DEFINE S == {q \in Nat : X!At(q) \in {"<", X!NUL}}
           n == Len(src)
           e == X!Scan(p, LAMBDA q : X!At(q) \in {"<", X!NUL})
<1>1. n \in Nat /\ p \in Nat /\ p <= n
  BY AtFacts
<1>2. n \in S
  BY <1>1, AtFacts, XMLInput
<1>3. \A q \in p..(n + 1) : q \in Nat
  BY <1>1
<1>4. \A q : IsFirst(q, p, n, S)
         <=> q \in p..(n + 1) /\ (q > n \/ X!At(q) \in {"<", X!NUL})
               /\ \A r \in p..(q - 1) : ~(X!At(r) \in {"<", X!NUL})
  <2>1. \A q \in p..(n + 1) : \A r \in p..(q - 1) : r \in Nat
    BY <1>1
  <2>2. \A q \in Nat : q \in S <=> X!At(q) \in {"<", X!NUL}
    OBVIOUS
  <2> HIDE DEF S, n
  <2> QED
    BY <1>3, <2>1, <2>2, Zenon DEF IsFirst
<1>5. PICK q : IsFirst(q, p, n, S)
  <2> HIDE DEF S, n
  <2> QED
    BY <1>1, <1>2, FirstInside
<1>6. IsFirst(e, p, n, S)
  BY <1>4, <1>5, Zenon DEF X!Scan
<1> HIDE DEF e, S, n
<1>7. e \in Nat /\ p <= e /\ e <= n /\ e \in S
  BY <1>1, <1>2, <1>6, FirstInside
<1>8. X!At(e) \in {"<", X!NUL} /\ \A r \in p..(e - 1) : ~(X!At(r) \in {"<", X!NUL})
  BY <1>4, <1>6, <1>7, Zenon DEF S
<1> QED
  BY <1>7, <1>8, Zenon DEF e, n

XMLWord(p, word) == X!Scan(p, LAMBDA r : X!At(r) = X!NUL \/ X!AtAll(r, word))

LEMMA XMLWordScan ==
    ASSUME Fits(src),
           NEW p \in Nat, p <= Len(src),
           NEW word
    PROVE  LET e == XMLWord(p, word)
           IN  /\ e \in Nat /\ p <= e /\ e <= Len(src)
               /\ (X!At(e) = X!NUL \/ X!AtAll(e, word))
               /\ \A r \in p..(e - 1) : ~((X!At(r) = X!NUL \/ X!AtAll(r, word)))
<1> DEFINE S == {q \in Nat : (X!At(q) = X!NUL \/ X!AtAll(q, word))}
           n == Len(src)
           e == XMLWord(p, word)
<1>1. n \in Nat /\ p \in Nat /\ p <= n
  BY AtFacts
<1>2. n \in S
  BY <1>1, AtFacts, XMLInput
<1>3. \A q \in p..(n + 1) : q \in Nat
  BY <1>1
<1>4. \A q : IsFirst(q, p, n, S)
         <=> q \in p..(n + 1) /\ (q > n \/ (X!At(q) = X!NUL \/ X!AtAll(q, word)))
               /\ \A r \in p..(q - 1) : ~((X!At(r) = X!NUL \/ X!AtAll(r, word)))
  <2>1. \A q \in p..(n + 1) : \A r \in p..(q - 1) : r \in Nat
    BY <1>1
  <2>2. \A q \in Nat : q \in S <=> (X!At(q) = X!NUL \/ X!AtAll(q, word))
    OBVIOUS
  <2> HIDE DEF S, n
  <2> QED
    BY <1>3, <2>1, <2>2, Zenon DEF IsFirst
<1>5. PICK q : IsFirst(q, p, n, S)
  <2> HIDE DEF S, n
  <2> QED
    BY <1>1, <1>2, FirstInside
<1>6. IsFirst(e, p, n, S)
  BY <1>4, <1>5, Zenon DEF X!Scan, XMLWord
<1> HIDE DEF e, S, n
<1>7. e \in Nat /\ p <= e /\ e <= n /\ e \in S
  BY <1>1, <1>2, <1>6, FirstInside
<1>8. (X!At(e) = X!NUL \/ X!AtAll(e, word))
        /\ \A r \in p..(e - 1) : ~((X!At(r) = X!NUL \/ X!AtAll(r, word)))
  BY <1>4, <1>6, <1>7, Zenon DEF S
<1> QED
  BY <1>7, <1>8, Zenon DEF e, n

LEMMA XMLDoctypeScan ==
    ASSUME Fits(src),
           NEW p \in Nat, p <= Len(src)
    PROVE  LET e == X!Scan(p, LAMBDA r : X!At(r) = X!NUL
           \/ (X!At(r) = ">" /\ ~X!InString(p, r) /\ ~X!InBrackets(p, r)))
           IN  /\ e \in Nat /\ p <= e /\ e <= Len(src)
               /\ (X!At(e) = X!NUL \/ (X!At(e) = ">" /\ ~X!InString(p, e) /\ ~X!InBrackets(p, e)))
               /\ \A r \in p..(e - 1) : ~((X!At(r) = X!NUL
                    \/ (X!At(r) = ">" /\ ~X!InString(p, r) /\ ~X!InBrackets(p, r))))
<1> DEFINE S == {q \in Nat : (X!At(q) = X!NUL \/ (X!At(q) = ">" /\ ~X!InString(p, q) /\ ~X!InBrackets(p, q)))}
           n == Len(src)
           e == X!Scan(p, LAMBDA r : X!At(r) = X!NUL
             \/ (X!At(r) = ">" /\ ~X!InString(p, r) /\ ~X!InBrackets(p, r)))
<1>1. n \in Nat /\ p \in Nat /\ p <= n
  BY AtFacts
<1>2. n \in S
  BY <1>1, AtFacts, XMLInput
<1>3. \A q \in p..(n + 1) : q \in Nat
  BY <1>1
<1>4. \A q : IsFirst(q, p, n, S)
         <=> q \in p..(n + 1)
               /\ (q > n \/ (X!At(q) = X!NUL
               \/ (X!At(q) = ">" /\ ~X!InString(p, q) /\ ~X!InBrackets(p, q))))
               /\ \A r \in p..(q - 1) : ~((X!At(r) = X!NUL
               \/ (X!At(r) = ">" /\ ~X!InString(p, r) /\ ~X!InBrackets(p, r))))
  <2>1. \A q \in p..(n + 1) : \A r \in p..(q - 1) : r \in Nat
    BY <1>1
  <2>2. \A q \in Nat : q \in S
          <=> (X!At(q) = X!NUL \/ (X!At(q) = ">" /\ ~X!InString(p, q) /\ ~X!InBrackets(p, q)))
    OBVIOUS
  <2> HIDE DEF S, n
  <2> QED
    BY <1>3, <2>1, <2>2, Zenon DEF IsFirst
<1>5. PICK q : IsFirst(q, p, n, S)
  <2> HIDE DEF S, n
  <2> QED
    BY <1>1, <1>2, FirstInside
<1>6. IsFirst(e, p, n, S)
  BY <1>4, <1>5, Zenon DEF X!Scan
<1> HIDE DEF e, S, n
<1>7. e \in Nat /\ p <= e /\ e <= n /\ e \in S
  BY <1>1, <1>2, <1>6, FirstInside
<1>8. (X!At(e) = X!NUL \/ (X!At(e) = ">" /\ ~X!InString(p, e) /\ ~X!InBrackets(p, e)))
        /\ \A r \in p..(e - 1) : ~((X!At(r) = X!NUL
        \/ (X!At(r) = ">" /\ ~X!InString(p, r) /\ ~X!InBrackets(p, r))))
  BY <1>4, <1>6, <1>7, Zenon DEF S
<1> QED
  BY <1>7, <1>8, Zenon DEF e, n

\* The class of blanks has no NUL.
LEMMA XMLBlanks == NUL \notin X!WS /\ (\A c \in X!WS : c = " ") /\ NUL # "panic"
  BY DEF X!WS, NUL

\* What xml's functions answer for an offset is from there on, and in the source.
LEMMA XMLValueEnd ==
    ASSUME Fits(src), NEW p \in Nat, p <= Len(src)
    PROVE  X!ValueEnd(p) \in Nat /\ p <= X!ValueEnd(p) /\ X!ValueEnd(p) <= Len(src)
<1>1. CASE X!At(p) \in X!Quotes
  <2> DEFINE q == X!Scan(p + 1, LAMBDA r : X!At(r) \in {X!At(p), X!NUL})
  <2>1. At(p) \notin {"panic", NUL}
    BY <1>1, XMLInput DEF X!Quotes, NUL
  <2>2. p + 1 <= Len(src) /\ p + 1 \in Nat
    BY <2>1, CharFits
  <2>3. q \in Nat /\ p + 1 <= q /\ q <= Len(src)
    BY <2>2, XMLQuoted, Zenon
  <2>4. X!ValueEnd(p) = IF X!At(q) = X!At(p) THEN q + 1 ELSE q
    BY <1>1 DEF X!ValueEnd
  <2> HIDE DEF q
  <2>5. X!At(q) = X!At(p) => q + 1 <= Len(src)
    BY <2>1, <2>3, XMLInput, CharFits
  <2> QED
    BY <2>3, <2>4, <2>5
<1>2. CASE X!At(p) \notin X!Quotes
  BY <1>2, XMLUnquoted, Zenon DEF X!ValueEnd
<1> QED
  BY <1>1, <1>2

LEMMA XMLAttributeEnd ==
    ASSUME Fits(src), NEW p \in Nat, p <= Len(src),
           At(p) \notin X!WS, At(p) # NUL, ~X!TagIsClosing(p)
    PROVE  /\ X!AttributeEnd(p) \in Nat /\ p < X!AttributeEnd(p) /\ X!AttributeEnd(p) <= Len(src)
<1> DEFINE name == X!NameEnd(p)
           eq == X!Past(name, X!WS)
           value == X!Past(eq + 1, X!WS)
<1>1. /\ name \in Nat /\ p <= name /\ name <= Len(src)
      /\ X!At(name) \in X!WS \cup {"=", X!NUL} \/ X!TagIsClosing(name)
  BY XMLNameEnd, Zenon
<1>2. /\ eq \in Nat /\ name <= eq /\ eq <= Len(src)
      /\ \A r \in name..(eq - 1) : At(r) \in X!WS
  <2> HIDE DEF name
  <2> QED
    BY <1>1, XMLPast, XMLBlanks, Zenon
<1>3. CASE At(eq) = "="
  <2>1. eq + 1 <= Len(src) /\ eq + 1 \in Nat
    <3> HIDE DEF eq
    <3>1. At(eq) \notin {"panic", NUL}
      BY <1>3 DEF NUL
    <3> QED
      BY <1>2, <3>1, CharFits
  <2>2. value \in Nat /\ eq + 1 <= value /\ value <= Len(src)
    <3> HIDE DEF eq
    <3> QED
      BY <2>1, XMLPast, XMLBlanks, Zenon
  <2>3. X!AttributeEnd(p) = X!ValueEnd(value)
    BY <1>3, XMLInput DEF X!AttributeEnd
  <2> HIDE DEF value
  <2>4. X!ValueEnd(value) \in Nat /\ value <= X!ValueEnd(value) /\ X!ValueEnd(value) <= Len(src)
    BY <2>2, XMLValueEnd
  <2> HIDE DEF eq, name
  <2> QED
    BY <1>1, <1>2, <2>2, <2>3, <2>4
<1>4. CASE At(eq) # "="
  <2>1. X!AttributeEnd(p) = name
    BY <1>4, XMLInput DEF X!AttributeEnd
  <2>2. name # p
    <3> SUFFICES ASSUME name = p PROVE FALSE
      OBVIOUS
    <3>1. At(p) \in X!WS \cup {"=", NUL} \/ X!TagIsClosing(p)
      BY <1>1, XMLInput, Zenon
    <3>2. At(p) = "="
      BY <3>1
    <3> HIDE DEF name
    <3>3. eq = p
      <4> HIDE DEF eq
      <4>1. eq # p => p \in name..(eq - 1)
        BY <1>1, <1>2
      <4> QED
        BY <1>2, <4>1
    <3> QED
      BY <1>4, <3>2, <3>3
  <2> HIDE DEF name
  <2> QED
    BY <1>1, <2>1, <2>2
<1> QED
  BY <1>3, <1>4

\* Up to a word that is not the terminator.
LEMMA XMLToWord ==
    ASSUME Fits(src), NEW p \in Nat, p <= Len(src),
           NEW word, NEW k, IsWord(word, k)
    PROVE  X!ToWord(p, word) \in Nat /\ p <= X!ToWord(p, word) /\ X!ToWord(p, word) <= Len(src)
<1> DEFINE q == XMLWord(p, word)
<1>1. /\ q \in Nat /\ p <= q /\ q <= Len(src)
      /\ X!At(q) = X!NUL \/ X!AtAll(q, word)
  <2>1. X!At(q) = X!NUL \/ X!AtAll(q, word)
    BY XMLWordScan, Zenon
  <2>2. q \in Nat /\ p <= q /\ q <= Len(src)
    BY XMLWordScan, Zenon
  <2> QED
    BY <2>1, <2>2, Zenon
<1>2. X!ToWord(p, word) = IF X!At(q) \in {X!NUL, "panic"} THEN q ELSE q + Len(word)
  BY Zenon DEF X!ToWord, XMLWord
<1> HIDE DEF q
<1>3. X!AtAll(q, word) => q + k <= Len(src)
  BY <1>1, WordFits, XMLInput
<1>4. Len(word) = k /\ k \in Nat
  BY DEF IsWord
<1> QED
  BY <1>1, <1>2, <1>3, <1>4

LEMMA XMLDoctypeEnd ==
    ASSUME Fits(src), NEW p \in Nat, p <= Len(src)
    PROVE  X!DoctypeEnd(p) \in Nat /\ p <= X!DoctypeEnd(p) /\ X!DoctypeEnd(p) <= Len(src)
<1> DEFINE q == X!Scan(p, LAMBDA r : X!At(r) = X!NUL
  \/ (X!At(r) = ">" /\ ~X!InString(p, r) /\ ~X!InBrackets(p, r)))
<1>1. q \in Nat /\ p <= q /\ q <= Len(src)
  BY XMLDoctypeScan, Zenon
<1>2. X!DoctypeEnd(p) = IF X!At(q) = ">" THEN q + 1 ELSE q
  BY Zenon DEF X!DoctypeEnd
<1> HIDE DEF q
<1>3. X!At(q) = ">" => q + 1 <= Len(src)
  BY <1>1, CharFits, XMLInput DEF NUL
<1> QED
  BY <1>1, <1>2, <1>3

\* A step of one of the lexers that keep nothing ahead of their tokens.
Calling == InSource /\ ~ended /\ UNCHANGED <<lang, ahead>> /\ ahead = 0

LEMMA SourceKept ==
    ASSUME InSource
    PROVE  /\ Fits(src) /\ Len(src) \in Nat /\ pos \in Nat /\ pos <= Len(src)
           /\ pos <= pos /\ BlanksBetween(pos, pos)
<1>1. Fits(src) /\ Len(src) \in Nat /\ pos \in Nat /\ pos <= Len(src)
  BY SourceFacts DEF InSource
<1>2. \A i \in pos..(pos - 1) : FALSE
  BY <1>1
<1>3. BlanksBetween(pos, pos)
  BY <1>2, Zenon DEF BlanksBetween
<1> QED
  BY <1>1, <1>3

\* Where a token begins and ends that Next answers,
LEMMA AnswerStep ==
    ASSUME Calling, NEW type, NEW hi \in Nat, NEW data,
           type # "none", pos < hi, hi <= Len(src), Answers(type, pos, hi, data)
    PROVE  Promise!Next /\ InSource'
<1>1. pos \in Nat /\ pos <= pos /\ BlanksBetween(pos, pos)
  BY SourceKept DEF Calling
<1> QED
  BY <1>1, TokenStep DEF Calling

\* and where one does that stands after blanks.
LEMMA AnswerAfterBlanks ==
    ASSUME Calling, NEW type, NEW lo \in Nat, NEW hi \in Nat, NEW data, BlanksBetween(pos, lo),
           type # "none", pos <= lo, lo < hi, hi <= Len(src), Answers(type, lo, hi, data)
    PROVE  Promise!Next /\ InSource'
  BY TokenStep DEF Calling

LEMMA FailStep ==
    ASSUME Calling, NEW p \in Nat, BlanksBetween(pos, p),
           pos <= p, p <= Len(src), At(p) = NUL, Fails(p)
    PROVE  Promise!Next /\ InSource'
  BY StopStep, SourceKept DEF Calling

\* The steps of xml/lex.go, one after the other.
LEMMA XMLTagRest ==
    ASSUME InSource
    PROVE  /\ X!TagRest \in Nat /\ pos <= X!TagRest /\ X!TagRest <= Len(src)
           /\ BlanksBetween(pos, X!TagRest)
           /\ At(X!TagRest) \notin X!WS
<1>1. Fits(src) /\ pos \in Nat /\ pos <= Len(src)
  BY SourceKept
<1>2. X!TagRest = X!Past(pos, X!WS)
  BY DEF X!TagRest
<1> HIDE DEF InSource
<1>3. /\ X!TagRest \in Nat /\ pos <= X!TagRest /\ X!TagRest <= Len(src)
      /\ At(X!TagRest) \notin X!WS
      /\ \A r \in pos..(X!TagRest - 1) : At(r) \in X!WS
  BY <1>1, <1>2, XMLPast, XMLBlanks
<1>4. BlanksBetween(pos, X!TagRest)
  BY <1>3, XMLBlanks, Zenon DEF BlanksBetween
<1> QED
  BY <1>3, <1>4

LEMMA XMLTagClosing ==
    ASSUME Fits(src), NEW p \in Nat, X!TagIsClosing(p)
    PROVE  /\ p + 1 <= Len(src)
           /\ At(p) \in {"/", "?"} => p + 2 <= Len(src)
<1>1. At(p) = ">" \/ (At(p) \in {"/", "?"} /\ At(p + 1) = ">")
  BY XMLInput DEF X!TagIsClosing
<1>2. p + 1 <= Len(src)
  BY <1>1, CharFits DEF NUL
<1>3. At(p) \in {"/", "?"} => p + 2 <= Len(src)
  <2> SUFFICES ASSUME At(p) \in {"/", "?"} PROVE p + 2 <= Len(src)
    OBVIOUS
  <2>1. At(p + 1) = ">" /\ p + 1 \in Nat
    BY <1>1
  <2>2. p + 1 + 1 <= Len(src)
    BY <2>1, CharFits DEF NUL
  <2> QED
    BY <2>2, SourceFacts
<1> QED
  BY <1>2, <1>3

LEMMA XMLInTagError == ASSUME Calling, X!InTagError PROVE Promise!Next /\ InSource'
<1>1. At(X!TagRest) = NUL /\ Fails(X!TagRest)
  BY XMLInput DEF X!InTagError
<1> QED
  BY <1>1, XMLTagRest, FailStep DEF Calling

LEMMA XMLAttribute == ASSUME Calling, X!Attribute PROVE Promise!Next /\ InSource'
<1> DEFINE rest == X!TagRest
           hi == X!AttributeEnd(rest)
<1>1. /\ At(rest) # NUL /\ ~X!TagIsClosing(rest)
      /\ Answers("Attribute", pos, hi, <<>>)
  BY XMLInput DEF X!Attribute
<1>2. Fits(src) /\ pos \in Nat /\ Len(src) \in Nat
  BY SourceKept DEF Calling
<1>3. rest \in Nat /\ pos <= rest /\ rest <= Len(src) /\ At(rest) \notin X!WS
  BY XMLTagRest DEF Calling
<1>4. hi \in Nat /\ rest < hi /\ hi <= Len(src)
  <2> HIDE DEF rest
  <2> QED
    BY <1>1, <1>2, <1>3, XMLAttributeEnd
<1> HIDE DEF rest, hi
<1>5. pos < hi
  BY <1>2, <1>3, <1>4
<1> QED
  BY <1>1, <1>4, <1>5, AnswerStep

LEMMA XMLTagClose == ASSUME Calling, X!TagClose PROVE Promise!Next /\ InSource'
<1> DEFINE rest == X!TagRest
<1>1. X!TagIsClosing(rest)
  BY DEF X!TagClose
<1>2. \/ /\ At(rest) \in {"/", "?"}
         /\ \E type \in {"StartTagCloseVoid", "StartTagClosePI"} : Answers(type, rest, rest + 2, <<>>)
      \/ Answers("StartTagClose", rest, rest + 1, <<>>)
  BY XMLInput DEF X!TagClose
<1>3. rest \in Nat /\ pos <= rest /\ BlanksBetween(pos, rest)
  BY XMLTagRest DEF Calling
<1>4. Fits(src)
  BY SourceKept DEF Calling
<1> HIDE DEF rest
<1>5. rest + 1 <= Len(src) /\ (At(rest) \in {"/", "?"} => rest + 2 <= Len(src))
  BY <1>1, <1>3, <1>4, XMLTagClosing
<1>6. rest + 1 \in Nat /\ rest + 2 \in Nat /\ rest < rest + 1 /\ rest < rest + 2
  BY <1>3
<1>7. CASE Answers("StartTagClose", rest, rest + 1, <<>>)
  BY <1>3, <1>5, <1>6, <1>7, AnswerAfterBlanks
<1>8. CASE /\ At(rest) \in {"/", "?"}
           /\ \E type \in {"StartTagCloseVoid", "StartTagClosePI"} : Answers(type, rest, rest + 2, <<>>)
  <2>1. PICK type \in {"StartTagCloseVoid", "StartTagClosePI"} : Answers(type, rest, rest + 2, <<>>)
    BY <1>8
  <2>2. type # "none" /\ rest + 2 <= Len(src)
    BY <1>5, <1>8
  <2> QED
    BY <1>3, <1>6, <2>1, <2>2, AnswerAfterBlanks
<1> QED
  BY <1>2, <1>7, <1>8

LEMMA XMLContentError == ASSUME Calling, X!ContentError PROVE Promise!Next /\ InSource'
<1>1. At(pos) = NUL /\ Fails(pos)
  BY XMLInput DEF X!ContentError
<1>2. pos \in Nat /\ pos <= pos /\ pos <= Len(src) /\ BlanksBetween(pos, pos)
  BY SourceKept DEF Calling
<1> QED
  BY <1>1, <1>2, FailStep

LEMMA XMLPlainText == ASSUME Calling, X!PlainText PROVE Promise!Next /\ InSource'
<1> DEFINE hi == X!Scan(pos, LAMBDA q : X!At(q) \in {"<", X!NUL})
<1>1. At(pos) \notin {"<", NUL} /\ Answers("Text", pos, hi, <<>>)
  BY XMLInput, Zenon DEF X!PlainText
<1>2. Fits(src) /\ pos \in Nat /\ pos <= Len(src)
  BY SourceKept DEF Calling
<1>3. hi \in Nat /\ pos <= hi /\ hi <= Len(src) /\ X!At(hi) \in {"<", X!NUL}
  BY <1>2, XMLTextEnd, Zenon
<1> HIDE DEF hi
<1>4. pos < hi
  BY <1>1, <1>2, <1>3, XMLInput
<1> QED
  BY <1>1, <1>3, <1>4, AnswerStep

\* After the word that begins it, markup ends with the word that ends it.
LEMMA XMLMarkup ==
    ASSUME Calling, NEW first, NEW k, IsWord(first, k), X!MarkupAt(first)
    PROVE  Fits(src) /\ pos \in Nat /\ Len(src) \in Nat /\ pos + 1 + k <= Len(src)
<1>1. X!AtAll(pos + 1, first)
  BY DEF X!MarkupAt
<1>2. Fits(src) /\ pos \in Nat /\ pos + 1 \in Nat /\ Len(src) \in Nat
  BY SourceKept DEF Calling
<1>3. AtAll(pos + 1, first)
  BY <1>1, XMLInput
<1> QED
  BY <1>2, <1>3, WordFits

LEMMA XMLEndTag == ASSUME Calling, X!EndTag PROVE Promise!Next /\ InSource'
<1> DEFINE hi == X!ToWord(pos + 2, <<">">>)
<1>1. X!MarkupAt(<<"/">>) /\ Answers("EndTag", pos, hi, <<>>)
  BY XMLInput DEF X!EndTag
<1>2. Fits(src) /\ pos \in Nat /\ Len(src) \in Nat /\ pos + 2 <= Len(src)
  <2>1. IsWord(<<"/">>, 1)
    BY Words DEF NUL
  <2>2. Fits(src) /\ pos \in Nat /\ Len(src) \in Nat /\ pos + 1 + 1 <= Len(src)
    BY <1>1, <2>1, XMLMarkup
  <2> QED
    BY <2>2
<1>3. pos + 2 \in Nat
  BY <1>2
<1>4. hi \in Nat /\ pos + 2 <= hi /\ hi <= Len(src)
  <2>1. IsWord(<<">">>, 1)
    BY Words DEF NUL
  <2> QED
    BY <1>2, <1>3, <2>1, XMLToWord
<1> HIDE DEF hi
<1> QED
  BY <1>1, <1>2, <1>4, AnswerStep

LEMMA XMLComment == ASSUME Calling, X!Comment PROVE Promise!Next /\ InSource'
<1> DEFINE hi == X!ToWord(pos + 4, <<"-", "-", ">">>)
<1>1. X!MarkupAt(<<"!", "-", "-">>) /\ Answers("Comment", pos, hi, <<>>)
  BY XMLInput DEF X!Comment
<1>2. Fits(src) /\ pos \in Nat /\ Len(src) \in Nat /\ pos + 4 <= Len(src)
  <2>1. IsWord(<<"!", "-", "-">>, 3)
    BY Words DEF NUL
  <2>2. Fits(src) /\ pos \in Nat /\ Len(src) \in Nat /\ pos + 1 + 3 <= Len(src)
    BY <1>1, <2>1, XMLMarkup
  <2> QED
    BY <2>2
<1>3. pos + 4 \in Nat
  BY <1>2
<1>4. hi \in Nat /\ pos + 4 <= hi /\ hi <= Len(src)
  <2>1. IsWord(<<"-", "-", ">">>, 3)
    BY Words DEF NUL
  <2> QED
    BY <1>2, <1>3, <2>1, XMLToWord
<1> HIDE DEF hi
<1> QED
  BY <1>1, <1>2, <1>4, AnswerStep

LEMMA XMLCDATA == ASSUME Calling, X!CDATA PROVE Promise!Next /\ InSource'
<1> DEFINE hi == X!ToWord(pos + 3, <<"]", "]", ">">>)
<1>1. X!MarkupAt(<<"!", "[CDATA[">>) /\ Answers("CDATA", pos, hi, <<>>)
  BY XMLInput DEF X!CDATA
<1>2. Fits(src) /\ pos \in Nat /\ Len(src) \in Nat /\ pos + 3 <= Len(src)
  <2>1. IsWord(<<"!", "[CDATA[">>, 2)
    BY Words DEF NUL
  <2>2. Fits(src) /\ pos \in Nat /\ Len(src) \in Nat /\ pos + 1 + 2 <= Len(src)
    BY <1>1, <2>1, XMLMarkup
  <2> QED
    BY <2>2
<1>3. pos + 3 \in Nat
  BY <1>2
<1>4. hi \in Nat /\ pos + 3 <= hi /\ hi <= Len(src)
  <2>1. IsWord(<<"]", "]", ">">>, 3)
    BY Words DEF NUL
  <2> QED
    BY <1>2, <1>3, <2>1, XMLToWord
<1> HIDE DEF hi
<1> QED
  BY <1>1, <1>2, <1>4, AnswerStep

LEMMA XMLDoctype == ASSUME Calling, X!Doctype PROVE Promise!Next /\ InSource'
<1> DEFINE hi == X!DoctypeEnd(pos + 3)
<1>1. X!MarkupAt(<<"!", "doctype">>) /\ Answers("DOCTYPE", pos, hi, <<>>)
  BY XMLInput DEF X!Doctype
<1>2. Fits(src) /\ pos \in Nat /\ Len(src) \in Nat /\ pos + 3 <= Len(src)
  <2>1. IsWord(<<"!", "doctype">>, 2)
    BY Words DEF NUL
  <2>2. Fits(src) /\ pos \in Nat /\ Len(src) \in Nat /\ pos + 1 + 2 <= Len(src)
    BY <1>1, <2>1, XMLMarkup
  <2> QED
    BY <2>2
<1>3. pos + 3 \in Nat
  BY <1>2
<1>4. hi \in Nat /\ pos + 3 <= hi /\ hi <= Len(src)
  BY <1>2, <1>3, XMLDoctypeEnd
<1> HIDE DEF hi
<1> QED
  BY <1>1, <1>2, <1>4, AnswerStep

LEMMA XMLStartTag == ASSUME Calling, X!StartTag PROVE Promise!Next /\ InSource'
<1> DEFINE isPI == X!At(pos + 1) = "?"
           name == IF isPI THEN pos + 2 ELSE pos + 1
           hi == X!Scan(name, LAMBDA q : X!At(q) \in X!WS \cup {X!NUL} \/ X!TagIsClosing(q))
           type == IF isPI THEN "StartTagPI" ELSE "StartTag"
<1>1. At(pos) = "<" /\ Answers(type, pos, hi, <<>>)
  BY XMLInput, Zenon DEF X!StartTag, X!MarkupAt
<1>2. Fits(src) /\ pos \in Nat /\ Len(src) \in Nat
  BY SourceKept DEF Calling
<1>3. pos + 1 <= Len(src)
  BY <1>1, <1>2, CharFits DEF NUL
<1>4. isPI => pos + 1 + 1 <= Len(src)
  <2>1. pos + 1 \in Nat
    BY <1>2
  <2> QED
    BY <1>2, <2>1, CharFits, XMLInput DEF NUL
<1>5. name \in Nat /\ pos < name /\ name <= Len(src)
  BY <1>2, <1>3, <1>4
<1> HIDE DEF name
<1>6. hi \in Nat /\ name <= hi /\ hi <= Len(src)
  BY <1>2, <1>5, XMLUnquoted, Zenon
<1>7. type # "none"
  OBVIOUS
<1> HIDE DEF hi, type
<1>8. pos < hi
  BY <1>2, <1>5, <1>6
<1> QED
  BY <1>1, <1>6, <1>7, <1>8, AnswerStep

LEMMA XMLStep == ASSUME Calling, X!Next PROVE Promise!Next /\ InSource'
  BY XMLInTagError, XMLAttribute, XMLTagClose, XMLContentError, XMLPlainText, XMLEndTag,
     XMLComment, XMLCDATA, XMLDoctype, XMLStartTag, Zenon DEF X!Next
--------------------------------------------------------------------------------
(* css/lex.go                                                               *)

\* CSSLexer's input is the source's.
LEMMA CSSInput ==
    ASSUME NEW p
    PROVE  /\ C!At(p) = At(p) /\ C!NUL = NUL
           /\ C!Ended(p) = Ended(p) /\ C!AtEOF(p) = AtEOF(p)
           /\ \A word : C!AtAll(p, word) <=> AtAll(p, word)
           /\ \A type, lo, hi, data : C!Answers(type, lo, hi, data) <=> Answers(type, lo, hi, data)
           /\ \A q : C!Fails(q) <=> Fails(q)
<1>1. C!At(p) = At(p) /\ C!NUL = NUL /\ C!NoToken = NoToken /\ C!AtEOF(p) = AtEOF(p)
  BY DEF At, C!At, NUL, C!NUL, NoToken, C!NoToken, AtEOF, C!AtEOF
<1>2. C!Ended(p) = Ended(p)
  BY <1>1, Zenon DEF C!Ended, Ended
<1>3. \A word : C!AtAll(p, word) <=> AtAll(p, word)
  BY Zenon DEF At, C!At, NUL, C!NUL, AtAll, C!AtAll
<1>4. \A type, lo, hi, data : C!Answers(type, lo, hi, data) <=> Answers(type, lo, hi, data)
  BY Zenon DEF Answers, C!Answers
<1>5. \A q : C!Fails(q) <=> Fails(q)
  BY <1>1, Zenon DEF Fails, C!Fails
<1> QED
  BY <1>1, <1>2, <1>3, <1>4, <1>5

\* A character that is neither the terminator nor beyond it is in the source.
LEMMA CSSChar ==
    ASSUME Fits(src), NEW p \in Nat, C!At(p) \notin {"nul", "panic"}
    PROVE  Inside(p) /\ Inside(p + 1)
<1>1. At(p) \notin {"panic", NUL}
  BY CSSInput DEF NUL
<1>2. p + 1 <= Len(src) /\ Len(src) \in Nat
  BY <1>1, CharFits, SourceFacts
<1> QED
  BY <1>2 DEF Inside

\* What css finds at the end and beyond.
LEMMA CSSBeyond ==
    ASSUME Fits(src)
    PROVE  Len(src) \in Nat /\ C!At(Len(src)) = "nul" /\ C!At(Len(src) + 1) = "panic"
<1>1. Len(src) \in Nat /\ Len(src) + 1 > Len(src)
  BY SourceFacts
<1>2. At(Len(src)) = NUL
  BY <1>1, AtFacts
<1>3. At(Len(src) + 1) = "panic"
  BY <1>1, AtFacts
<1> QED
  BY <1>1, <1>2, <1>3, CSSInput DEF NUL

\* CSS's runs of characters of a class stay in the source.
LEMMA CSSPast ==
    ASSUME Fits(src),
           NEW p \in Nat, p <= Len(src),
           NEW class,
           NUL \notin class
    PROVE  LET e == C!Past(p, class)
           IN  /\ e \in Nat /\ p <= e /\ e <= Len(src)
               /\ C!At(e) \notin class
               /\ \A r \in p..(e - 1) : ~(C!At(r) \notin class)
<1> DEFINE S == {q \in Nat : C!At(q) \notin class}
           n == Len(src)
           e == C!Past(p, class)
<1>1. n \in Nat /\ p \in Nat /\ p <= n
  BY AtFacts
<1>2. n \in S
  BY <1>1, AtFacts, CSSInput
<1>3. \A q \in p..(n + 1) : q \in Nat
  BY <1>1
<1>4. \A q : IsFirst(q, p, n, S)
         <=> q \in p..(n + 1) /\ (q > n \/ C!At(q) \notin class)
               /\ \A r \in p..(q - 1) : ~(C!At(r) \notin class)
  <2>1. \A q \in p..(n + 1) : \A r \in p..(q - 1) : r \in Nat
    BY <1>1
  <2>2. \A q \in Nat : q \in S <=> C!At(q) \notin class
    OBVIOUS
  <2> HIDE DEF S, n
  <2> QED
    BY <1>3, <2>1, <2>2, Zenon DEF IsFirst
<1>5. PICK q : IsFirst(q, p, n, S)
  <2> HIDE DEF S, n
  <2> QED
    BY <1>1, <1>2, FirstInside
<1>6. IsFirst(e, p, n, S)
  BY <1>4, <1>5, Zenon DEF C!Past, C!Scan
<1> HIDE DEF e, S, n
<1>7. e \in Nat /\ p <= e /\ e <= n /\ e \in S
  BY <1>1, <1>2, <1>6, FirstInside
<1>8. C!At(e) \notin class /\ \A r \in p..(e - 1) : ~(C!At(r) \notin class)
  BY <1>4, <1>6, <1>7, Zenon DEF S
<1> QED
  BY <1>7, <1>8, Zenon DEF e, n

CSSCommentScan(p) == C!Scan(p, LAMBDA r : C!Ended(r) \/ C!AtAll(r, <<"*", "/">>))

\* The loops of comments, names, strings, URLs and their remnants, and the escapes
\* that they step over, stop in the source.
LEMMA CSSCommentStops ==
    ASSUME Fits(src),
           NEW p \in Nat, p <= Len(src)
    PROVE  LET e == CSSCommentScan(p)
           IN  /\ e \in Nat /\ p <= e /\ e <= Len(src)
               /\ (C!Ended(e) \/ C!AtAll(e, <<"*", "/">>))
               /\ \A r \in p..(e - 1) : ~((C!Ended(r) \/ C!AtAll(r, <<"*", "/">>)))
<1> DEFINE S == {q \in Nat : (C!Ended(q) \/ C!AtAll(q, <<"*", "/">>))}
           n == Len(src)
           e == CSSCommentScan(p)
<1>1. n \in Nat /\ p \in Nat /\ p <= n
  BY AtFacts
<1>2. n \in S
  BY <1>1, AtFacts, CSSInput
<1>3. \A q \in p..(n + 1) : q \in Nat
  BY <1>1
<1>4. \A q : IsFirst(q, p, n, S)
         <=> q \in p..(n + 1) /\ (q > n \/ (C!Ended(q) \/ C!AtAll(q, <<"*", "/">>)))
               /\ \A r \in p..(q - 1) : ~((C!Ended(r) \/ C!AtAll(r, <<"*", "/">>)))
  <2>1. \A q \in p..(n + 1) : \A r \in p..(q - 1) : r \in Nat
    BY <1>1
  <2>2. \A q \in Nat : q \in S <=> (C!Ended(q) \/ C!AtAll(q, <<"*", "/">>))
    OBVIOUS
  <2> HIDE DEF S, n
  <2> QED
    BY <1>3, <2>1, <2>2, Zenon DEF IsFirst
<1>5. PICK q : IsFirst(q, p, n, S)
  <2> HIDE DEF S, n
  <2> QED
    BY <1>1, <1>2, FirstInside
<1>6. IsFirst(e, p, n, S)
  BY <1>4, <1>5, Zenon DEF C!Scan, CSSCommentScan
<1> HIDE DEF e, S, n
<1>7. e \in Nat /\ p <= e /\ e <= n /\ e \in S
  BY <1>1, <1>2, <1>6, FirstInside
<1>8. (C!Ended(e) \/ C!AtAll(e, <<"*", "/">>))
        /\ \A r \in p..(e - 1) : ~((C!Ended(r) \/ C!AtAll(r, <<"*", "/">>)))
  BY <1>4, <1>6, <1>7, Zenon DEF S
<1> QED
  BY <1>7, <1>8, Zenon DEF e, n

LEMMA CSSEscape ==
    ASSUME Fits(src), NEW p, Inside(p)
    PROVE  From(p, C!Escape(p)) /\ (C!Escape(p) = p \/ C!At(p) = "\\")
<1> DEFINE past == C!Past(p + 1, C!Hex)
           most == p + 1 + C!MaxHex
           h == C!Min({past, most})
<1>1. CASE C!At(p) # "\\" \/ C!At(p + 1) = "nl" \/ C!Ended(p + 1)
  BY <1>1 DEF C!Escape, From, Inside
<1>2. CASE ~(C!At(p) # "\\" \/ C!At(p + 1) = "nl" \/ C!Ended(p + 1))
  <2>1. C!At(p) = "\\" /\ ~Ended(p + 1)
    BY <1>2, CSSInput
  <2>2. p \in Nat /\ p + 1 \in Nat /\ p + 1 <= Len(src) /\ Len(src) \in Nat
    <3>1. p \in Nat
      BY DEF Inside
    <3>2. Inside(p + 1)
      BY <2>1, <3>1, CSSChar
    <3> QED
      BY <3>1, <3>2, SourceFacts DEF Inside
  <2>3. p + 2 <= Len(src)
    BY <2>1, <2>2, AtFacts
  <2>4. past \in Nat /\ past <= Len(src) /\ p + 1 <= past
    <3>1. NUL \notin C!Hex
      BY DEF C!Hex, NUL
    <3> QED
      BY <2>2, <3>1, CSSPast, Zenon
  <2>5. most \in Nat /\ p + 1 <= most
    BY <2>2 DEF C!MaxHex
  <2> HIDE DEF past, most
  <2>6. h \in {past, most} /\ h <= past
    <3>1. \E x \in {past, most} : \A y \in {past, most} : x <= y
      BY <2>4, <2>5
    <3>2. h \in {past, most} /\ \A y \in {past, most} : h <= y
      BY <3>1, Zenon DEF C!Min
    <3> QED
      BY <3>2
  <2> HIDE DEF h
  <2>7. h \in Nat /\ p + 1 <= h /\ h <= Len(src)
    BY <2>2, <2>4, <2>5, <2>6
  <2>8. C!At(h) \in C!WS => h + 1 <= Len(src)
    <3> SUFFICES ASSUME C!At(h) \in C!WS PROVE h + 1 <= Len(src)
      OBVIOUS
    <3>1. C!At(h) \notin {"nul", "panic"}
      BY DEF C!WS
    <3> QED
      BY <2>7, <3>1, CSSChar DEF Inside
  <2>9. C!Escape(p) = IF h > p + 1 THEN (IF C!At(h) \in C!WS THEN h + 1 ELSE h) ELSE p + 2
    BY <1>2, Zenon DEF C!Escape, h, past, most
  <2>10. Inside(C!Escape(p)) /\ p <= C!Escape(p)
    BY <2>2, <2>3, <2>7, <2>8, <2>9 DEF Inside
  <2> QED
    BY <2>1, <2>10 DEF From
<1> QED
  BY <1>1, <1>2

\* Beyond the source nothing is escaped.
LEMMA CSSEscapeBeyond ==
    ASSUME Fits(src)
    PROVE  C!Escape(Len(src) + 1) = Len(src) + 1 /\ C!Escape(Len(src)) = Len(src)
<1>1. C!At(Len(src)) # "\\" /\ C!At(Len(src) + 1) # "\\"
  BY CSSBeyond
<1> QED
  BY <1>1 DEF C!Escape

\* A loop that goes on is inside the source.
LEMMA CSSOver ==
    ASSUME Fits(src), NEW p \in Nat, ~C!Over(p)
    PROVE  Inside(p) /\ Inside(p + 1)
<1>1. ~(p > Len(src)) /\ ~Ended(p)
  BY CSSInput DEF C!Over
<1>2. Len(src) \in Nat /\ p # Len(src)
  BY <1>1, AtFacts
<1> QED
  BY <1>1, <1>2 DEF Inside

\* What an unquoted URL may hold only escaped.
CSSOdd(p) == C!At(p) \in {"\"", "'", "(", "\\", C!NUL} \cup C!WS

LEMMA CSSNameRestStops ==
    ASSUME Fits(src),
           NEW p0, Inside(p0)
    PROVE  \E e : From(p0, e) /\ (C!At(e) \notin C!NameChars /\ ~(C!Escape(e) > e)) /\ C!NameRest[p0] = e
<1> DEFINE n == Len(src)
           D == 0..(n + 1)
           stop == {p \in D : C!At(p) \notin C!NameChars /\ ~(C!Escape(p) > p)}
           res == [p \in D |-> p]
           nxt == [p \in D |-> IF C!At(p) \in C!NameChars THEN p + 1 ELSE C!Escape(p)]
           Is(f) == f = [p \in C!Offsets |->
               IF C!At(p) \in C!NameChars THEN f[p + 1]
               ELSE IF C!Escape(p) > p THEN f[C!Escape(p)] ELSE p]
           g == CHOOSE f : Is(f)
<1>1. n \in Nat /\ C!Offsets = D
  BY SourceFacts DEF C!Offsets
<1>2. ASSUME NEW p \in D, p \notin stop
      PROVE  nxt[p] \in (p + 1)..(n + 1) /\ (p <= n => nxt[p] <= n)
  <2>1. p \in Nat /\ ~(C!At(p) \notin C!NameChars /\ ~(C!Escape(p) > p))
          /\ nxt[p] = (IF C!At(p) \in C!NameChars THEN p + 1 ELSE C!Escape(p))
    BY <1>1, <1>2
  <2>2. Inside(p)
    <3>1. C!At(n + 1) = "panic" /\ C!Escape(n + 1) = n + 1
      BY CSSBeyond, CSSEscapeBeyond
    <3>2. p # n + 1
      BY <1>1, <2>1, <3>1 DEF C!NameChars, C!NameStart, C!Digits
    <3> QED
      BY <1>1, <1>2, <3>2 DEF Inside
  <2>3. CASE C!At(p) \in C!NameChars
    <3>1. C!At(p) \notin {"nul", "panic"}
      BY <2>3 DEF C!NameChars, C!NameStart, C!Digits
    <3>2. Inside(p + 1)
      BY <2>1, <3>1, CSSChar
    <3> QED
      BY <1>1, <2>1, <2>3, <3>2 DEF Inside
  <2>4. CASE C!At(p) \notin C!NameChars
    <3>1. Inside(C!Escape(p)) /\ C!Escape(p) > p
      BY <2>1, <2>2, <2>4, CSSEscape DEF From
    <3> QED
      BY <1>1, <2>1, <2>4, <3>1 DEF Inside
  <2> QED
    BY <2>3, <2>4
<1>3. ASSUME NEW f PROVE Is(f) <=> Turns(D, stop, res, nxt, f)
  <2>1. ASSUME NEW p \in D
        PROVE  (IF C!At(p) \in C!NameChars THEN f[p + 1]
               ELSE IF C!Escape(p) > p THEN f[C!Escape(p)] ELSE p) =
               (IF p \in stop THEN res[p] ELSE f[nxt[p]])
    <3>1. p \in stop <=> (C!At(p) \notin C!NameChars /\ ~(C!Escape(p) > p))
      OBVIOUS
    <3>2. res[p] = (p) /\ nxt[p] = (IF C!At(p) \in C!NameChars THEN p + 1 ELSE C!Escape(p))
      OBVIOUS
    <3> HIDE DEF stop, res, nxt
    <3> QED
      BY <3>1, <3>2, Zenon
  <2> HIDE DEF stop, res, nxt, D
  <2>2. [p \in D |-> IF C!At(p) \in C!NameChars THEN f[p + 1]
          ELSE IF C!Escape(p) > p THEN f[C!Escape(p)] ELSE p] =
          [p \in D |-> IF p \in stop THEN res[p] ELSE f[nxt[p]]]
    BY <2>1, Zenon
  <2> QED
    BY <1>1, <2>2, Zenon DEF Turns
<1> HIDE DEF Is, stop, res, nxt
<1>4. /\ \E f : Turns(0..(n + 1), stop, res, nxt, f)
      /\ \A f : Turns(0..(n + 1), stop, res, nxt, f) => Ends(n, stop, res, f)
  <2>1. Advances(n, stop, nxt)
    BY <1>2, Zenon DEF Advances
  <2> HIDE DEF n
  <2> QED
    BY <1>1, <2>1, OffsetLoop, Zenon
<1>5. Ends(n, stop, res, g)
  <2>1. Is(g)
    BY <1>3, <1>4, Zenon
  <2> QED
    BY <1>3, <1>4, <2>1, Zenon
<1>6. p0 \in 0..n
  BY DEF Inside
<1>7. PICK e \in p0..n : e \in stop /\ g[p0] = res[e]
  <2> HIDE DEF n, g
  <2> QED
    BY <1>5, <1>6, Zenon DEF Ends
<1>8. (C!At(e) \notin C!NameChars /\ ~(C!Escape(e) > e)) /\ res[e] = e
  BY <1>7 DEF res, stop
<1>9. C!NameRest[p0] = g[p0]
  BY Zenon DEF C!NameRest, Is
<1>10. From(p0, e)
  BY <1>1, <1>6, <1>7 DEF From, Inside
<1> QED
  BY <1>7, <1>8, <1>9, <1>10, Zenon

LEMMA CSSInStringStops ==
    ASSUME Fits(src),
           NEW delim,
           NEW p0, Inside(p0)
    PROVE  \E e : From(p0, e) /\ (C!Over(e) \/ C!At(e) = "nl" \/ C!At(e) = delim)
           /\ C!InString(p0, delim) = IF C!Over(e) THEN <<"String", e>>
           ELSE IF C!At(e) = "nl" THEN <<"BadString", e + 1>> ELSE <<"String", e + 1>>
<1> DEFINE n == Len(src)
           D == 0..(n + 1)
           stop == {p \in D : C!Over(p) \/ C!At(p) = "nl" \/ C!At(p) = delim}
           res == [p \in D |-> IF C!Over(p) THEN <<"String", p>>
               ELSE IF C!At(p) = "nl" THEN <<"BadString", p + 1>> ELSE <<"String", p + 1>>]
           nxt == [p \in D |-> IF C!At(p) # "\\" THEN p + 1
               ELSE IF C!Escape(p) > p THEN C!Escape(p) ELSE IF C!At(p + 1) = "nl" THEN p + 2
               ELSE p + 1]
           Is(f) == f = [p \in C!Offsets |-> IF C!Over(p) THEN <<"String", p>>
            ELSE IF C!At(p) = "nl" THEN <<"BadString", p + 1>>
            ELSE IF C!At(p) = delim THEN <<"String", p + 1>>
            ELSE IF C!At(p) # "\\" THEN f[p + 1]
            ELSE IF C!Escape(p) > p THEN f[C!Escape(p)]
            ELSE f[IF C!At(p + 1) = "nl" THEN p + 2 ELSE p + 1]]
           g == CHOOSE f : Is(f)
<1>1. n \in Nat /\ C!Offsets = D
  BY SourceFacts DEF C!Offsets
<1>2. ASSUME NEW p \in D, p \notin stop
      PROVE  nxt[p] \in (p + 1)..(n + 1) /\ (p <= n => nxt[p] <= n)
  <2>1. p \in Nat /\ ~(C!Over(p) \/ C!At(p) = "nl" \/ C!At(p) = delim)
          /\ nxt[p] = (IF C!At(p) # "\\" THEN p + 1 ELSE IF C!Escape(p) > p THEN C!Escape(p)
          ELSE IF C!At(p + 1) = "nl" THEN p + 2 ELSE p + 1)
    BY <1>1, <1>2
  <2>2. Inside(p) /\ Inside(p + 1)
    BY <1>1, <2>1, CSSOver DEF Inside
  <2>3. C!At(p + 1) = "nl" => Inside(p + 2)
    <3> SUFFICES ASSUME C!At(p + 1) = "nl" PROVE Inside(p + 2)
      OBVIOUS
    <3>1. Inside(p + 1 + 1) /\ p + 1 + 1 = p + 2
      BY <2>1, CSSChar
    <3> QED
      BY <3>1
  <2>4. Inside(C!Escape(p))
    BY <2>2, CSSEscape DEF From
  <2> QED
    BY <1>1, <2>1, <2>2, <2>3, <2>4 DEF Inside
<1>3. ASSUME NEW f PROVE Is(f) <=> Turns(D, stop, res, nxt, f)
  <2>1. ASSUME NEW p \in D
        PROVE  (IF C!Over(p) THEN <<"String", p>>
            ELSE IF C!At(p) = "nl" THEN <<"BadString", p + 1>>
            ELSE IF C!At(p) = delim THEN <<"String", p + 1>>
            ELSE IF C!At(p) # "\\" THEN f[p + 1]
            ELSE IF C!Escape(p) > p THEN f[C!Escape(p)]
            ELSE f[IF C!At(p + 1) = "nl" THEN p + 2 ELSE p + 1]) = (IF p \in stop THEN res[p] ELSE f[nxt[p]])
    <3>1. p \in stop <=> (C!Over(p) \/ C!At(p) = "nl" \/ C!At(p) = delim)
      OBVIOUS
    <3>2. res[p] = (IF C!Over(p) THEN <<"String", p>>
            ELSE IF C!At(p) = "nl" THEN <<"BadString", p + 1>> ELSE <<"String", p + 1>>)
            /\ nxt[p] = (IF C!At(p) # "\\" THEN p + 1 ELSE IF C!Escape(p) > p THEN C!Escape(p)
            ELSE IF C!At(p + 1) = "nl" THEN p + 2 ELSE p + 1)
      OBVIOUS
    <3> HIDE DEF stop, res, nxt
    <3> QED
      BY <3>1, <3>2, Zenon
  <2> HIDE DEF stop, res, nxt, D
  <2>2. [p \in D |-> IF C!Over(p) THEN <<"String", p>>
            ELSE IF C!At(p) = "nl" THEN <<"BadString", p + 1>>
            ELSE IF C!At(p) = delim THEN <<"String", p + 1>>
            ELSE IF C!At(p) # "\\" THEN f[p + 1]
            ELSE IF C!Escape(p) > p THEN f[C!Escape(p)]
            ELSE f[IF C!At(p + 1) = "nl" THEN p + 2 ELSE p + 1]] =
              [p \in D |-> IF p \in stop THEN res[p] ELSE f[nxt[p]]]
    BY <2>1, Zenon
  <2> QED
    BY <1>1, <2>2, Zenon DEF Turns
<1> HIDE DEF Is, stop, res, nxt
<1>4. /\ \E f : Turns(0..(n + 1), stop, res, nxt, f)
      /\ \A f : Turns(0..(n + 1), stop, res, nxt, f) => Ends(n, stop, res, f)
  <2>1. Advances(n, stop, nxt)
    BY <1>2, Zenon DEF Advances
  <2> HIDE DEF n
  <2> QED
    BY <1>1, <2>1, OffsetLoop, Zenon
<1>5. Ends(n, stop, res, g)
  <2>1. Is(g)
    BY <1>3, <1>4, Zenon
  <2> QED
    BY <1>3, <1>4, <2>1, Zenon
<1>6. p0 \in 0..n
  BY DEF Inside
<1>7. PICK e \in p0..n : e \in stop /\ g[p0] = res[e]
  <2> HIDE DEF n, g
  <2> QED
    BY <1>5, <1>6, Zenon DEF Ends
<1>8. (C!Over(e) \/ C!At(e) = "nl" \/ C!At(e) = delim)
        /\ res[e] = IF C!Over(e) THEN <<"String", e>>
        ELSE IF C!At(e) = "nl" THEN <<"BadString", e + 1>> ELSE <<"String", e + 1>>
  BY <1>7 DEF res, stop
<1>9. C!InString(p0, delim) = g[p0]
  BY Zenon DEF C!InString, Is
<1>10. From(p0, e)
  BY <1>1, <1>6, <1>7 DEF From, Inside
<1> QED
  BY <1>7, <1>8, <1>9, <1>10, Zenon

LEMMA CSSUnquotedURLStops ==
    ASSUME Fits(src),
           NEW p0, Inside(p0)
    PROVE  \E e : From(p0, e)
           /\ (C!Over(e) \/ C!At(e) = ")" \/ (CSSOdd(e) /\ ~(C!Escape(e) > e)))
           /\ C!UnquotedURL[p0] = [end |-> e, ok |-> C!Over(e) \/ C!At(e) = ")"]
<1> DEFINE n == Len(src)
           D == 0..(n + 1)
           stop == {p \in D : C!Over(p) \/ C!At(p) = ")" \/ (CSSOdd(p) /\ ~(C!Escape(p) > p))}
           res == [p \in D |-> [end |-> p, ok |-> C!Over(p) \/ C!At(p) = ")"]]
           nxt == [p \in D |-> IF CSSOdd(p) THEN C!Escape(p) ELSE p + 1]
           Is(f) == f = [p \in C!Offsets |-> IF C!Over(p) \/ C!At(p) = ")" THEN [end |-> p, ok |-> TRUE]
            ELSE IF CSSOdd(p) THEN IF C!Escape(p) > p THEN f[C!Escape(p)] ELSE [end |-> p, ok |-> FALSE]
            ELSE f[p + 1]]
           g == CHOOSE f : Is(f)
<1>1. n \in Nat /\ C!Offsets = D
  BY SourceFacts DEF C!Offsets
<1>2. ASSUME NEW p \in D, p \notin stop
      PROVE  nxt[p] \in (p + 1)..(n + 1) /\ (p <= n => nxt[p] <= n)
  <2>1. p \in Nat /\ ~(C!Over(p) \/ C!At(p) = ")" \/ (CSSOdd(p) /\ ~(C!Escape(p) > p)))
          /\ nxt[p] = (IF CSSOdd(p) THEN C!Escape(p) ELSE p + 1)
    BY <1>1, <1>2
  <2>2. Inside(p) /\ Inside(p + 1)
    BY <1>1, <2>1, CSSOver DEF Inside
  <2>3. Inside(C!Escape(p))
    BY <2>2, CSSEscape DEF From
  <2> QED
    BY <1>1, <2>1, <2>2, <2>3 DEF Inside
<1>3. ASSUME NEW f PROVE Is(f) <=> Turns(D, stop, res, nxt, f)
  <2>1. ASSUME NEW p \in D
        PROVE  (IF C!Over(p) \/ C!At(p) = ")" THEN [end |-> p, ok |-> TRUE]
            ELSE IF CSSOdd(p) THEN IF C!Escape(p) > p THEN f[C!Escape(p)] ELSE [end |-> p, ok |-> FALSE]
            ELSE f[p + 1]) = (IF p \in stop THEN res[p] ELSE f[nxt[p]])
    <3>1. p \in stop <=> (C!Over(p) \/ C!At(p) = ")" \/ (CSSOdd(p) /\ ~(C!Escape(p) > p)))
      OBVIOUS
    <3>2. res[p] = ([end |-> p, ok |-> C!Over(p) \/ C!At(p) = ")"])
            /\ nxt[p] = (IF CSSOdd(p) THEN C!Escape(p) ELSE p + 1)
      OBVIOUS
    <3> HIDE DEF stop, res, nxt
    <3> QED
      BY <3>1, <3>2, Zenon
  <2> HIDE DEF stop, res, nxt, D
  <2>2. [p \in D |-> IF C!Over(p) \/ C!At(p) = ")" THEN [end |-> p, ok |-> TRUE]
            ELSE IF CSSOdd(p) THEN IF C!Escape(p) > p THEN f[C!Escape(p)] ELSE [end |-> p, ok |-> FALSE]
            ELSE f[p + 1]] = [p \in D |-> IF p \in stop THEN res[p] ELSE f[nxt[p]]]
    BY <2>1, Zenon
  <2> QED
    BY <1>1, <2>2, Zenon DEF Turns
<1> HIDE DEF Is, stop, res, nxt
<1>4. /\ \E f : Turns(0..(n + 1), stop, res, nxt, f)
      /\ \A f : Turns(0..(n + 1), stop, res, nxt, f) => Ends(n, stop, res, f)
  <2>1. Advances(n, stop, nxt)
    BY <1>2, Zenon DEF Advances
  <2> HIDE DEF n
  <2> QED
    BY <1>1, <2>1, OffsetLoop, Zenon
<1>5. Ends(n, stop, res, g)
  <2>1. Is(g)
    BY <1>3, <1>4, Zenon
  <2> QED
    BY <1>3, <1>4, <2>1, Zenon
<1>6. p0 \in 0..n
  BY DEF Inside
<1>7. PICK e \in p0..n : e \in stop /\ g[p0] = res[e]
  <2> HIDE DEF n, g
  <2> QED
    BY <1>5, <1>6, Zenon DEF Ends
<1>8. (C!Over(e) \/ C!At(e) = ")" \/ (CSSOdd(e) /\ ~(C!Escape(e) > e)))
        /\ res[e] = [end |-> e, ok |-> C!Over(e) \/ C!At(e) = ")"]
  BY <1>7 DEF res, stop
<1>9. C!UnquotedURL[p0] = g[p0]
  BY Zenon DEF C!UnquotedURL, CSSOdd, Is
<1>10. From(p0, e)
  BY <1>1, <1>6, <1>7 DEF From, Inside
<1> QED
  BY <1>7, <1>8, <1>9, <1>10, Zenon

LEMMA CSSRemnantsStop ==
    ASSUME Fits(src),
           NEW p0, Inside(p0)
    PROVE  \E e : From(p0, e) /\ (C!At(e) = ")" \/ C!AtEOF(e))
           /\ C!Remnants[p0] = IF C!At(e) = ")" THEN e + 1 ELSE e
<1> DEFINE n == Len(src)
           D == 0..(n + 1)
           stop == {p \in D : C!At(p) = ")" \/ C!AtEOF(p)}
           res == [p \in D |-> IF C!At(p) = ")" THEN p + 1 ELSE p]
           nxt == [p \in D |-> IF C!Escape(p) > p THEN C!Escape(p) ELSE p + 1]
           Is(f) == f = [p \in C!Offsets |->
               IF C!At(p) = ")" THEN p + 1 ELSE IF C!AtEOF(p) THEN p
               ELSE f[IF C!Escape(p) > p THEN C!Escape(p) ELSE p + 1]]
           g == CHOOSE f : Is(f)
<1>1. n \in Nat /\ C!Offsets = D
  BY SourceFacts DEF C!Offsets
<1>2. ASSUME NEW p \in D, p \notin stop
      PROVE  nxt[p] \in (p + 1)..(n + 1) /\ (p <= n => nxt[p] <= n)
  <2>1. p \in Nat /\ ~(C!At(p) = ")" \/ C!AtEOF(p))
          /\ nxt[p] = (IF C!Escape(p) > p THEN C!Escape(p) ELSE p + 1)
    BY <1>1, <1>2
  <2>2. Inside(p) /\ Inside(p + 1)
    BY <1>1, <2>1, CSSInput, AtFacts DEF Inside
  <2>3. Inside(C!Escape(p))
    BY <2>2, CSSEscape DEF From
  <2> QED
    BY <1>1, <2>1, <2>2, <2>3 DEF Inside
<1>3. ASSUME NEW f PROVE Is(f) <=> Turns(D, stop, res, nxt, f)
  <2>1. ASSUME NEW p \in D
        PROVE  (IF C!At(p) = ")" THEN p + 1 ELSE IF C!AtEOF(p) THEN p
               ELSE f[IF C!Escape(p) > p THEN C!Escape(p) ELSE p + 1]) =
               (IF p \in stop THEN res[p] ELSE f[nxt[p]])
    <3>1. p \in stop <=> (C!At(p) = ")" \/ C!AtEOF(p))
      OBVIOUS
    <3>2. res[p] = (IF C!At(p) = ")" THEN p + 1 ELSE p)
            /\ nxt[p] = (IF C!Escape(p) > p THEN C!Escape(p) ELSE p + 1)
      OBVIOUS
    <3> HIDE DEF stop, res, nxt
    <3> QED
      BY <3>1, <3>2, Zenon
  <2> HIDE DEF stop, res, nxt, D
  <2>2. [p \in D |-> IF C!At(p) = ")" THEN p + 1 ELSE IF C!AtEOF(p) THEN p
          ELSE f[IF C!Escape(p) > p THEN C!Escape(p) ELSE p + 1]] =
          [p \in D |-> IF p \in stop THEN res[p] ELSE f[nxt[p]]]
    BY <2>1, Zenon
  <2> QED
    BY <1>1, <2>2, Zenon DEF Turns
<1> HIDE DEF Is, stop, res, nxt
<1>4. /\ \E f : Turns(0..(n + 1), stop, res, nxt, f)
      /\ \A f : Turns(0..(n + 1), stop, res, nxt, f) => Ends(n, stop, res, f)
  <2>1. Advances(n, stop, nxt)
    BY <1>2, Zenon DEF Advances
  <2> HIDE DEF n
  <2> QED
    BY <1>1, <2>1, OffsetLoop, Zenon
<1>5. Ends(n, stop, res, g)
  <2>1. Is(g)
    BY <1>3, <1>4, Zenon
  <2> QED
    BY <1>3, <1>4, <2>1, Zenon
<1>6. p0 \in 0..n
  BY DEF Inside
<1>7. PICK e \in p0..n : e \in stop /\ g[p0] = res[e]
  <2> HIDE DEF n, g
  <2> QED
    BY <1>5, <1>6, Zenon DEF Ends
<1>8. (C!At(e) = ")" \/ C!AtEOF(e)) /\ res[e] = IF C!At(e) = ")" THEN e + 1 ELSE e
  BY <1>7 DEF res, stop
<1>9. C!Remnants[p0] = g[p0]
  BY Zenon DEF C!Remnants, Is
<1>10. From(p0, e)
  BY <1>1, <1>6, <1>7 DEF From, Inside
<1> QED
  BY <1>7, <1>8, <1>9, <1>10, Zenon

\* The classes of css/lex.go are of characters of the source.
LEMMA CSSOfChars ==
    /\ OfChars(C!WS) /\ OfChars(C!Digits) /\ OfChars(C!Hex) /\ OfChars(C!NameStart)
    /\ OfChars(C!NameChars) /\ OfChars({"?"}) /\ OfChars({"+", "-"})
  BY DEF OfChars, C!WS, C!Digits, C!Hex, C!NameStart, C!NameChars

LEMMA CSSIn ==
    ASSUME Fits(src), NEW p \in Nat, NEW class, OfChars(class), C!At(p) \in class
    PROVE  Inside(p) /\ Inside(p + 1)
  BY CSSChar, Zenon DEF OfChars

LEMMA CSSPastFrom ==
    ASSUME Fits(src), NEW p, Inside(p), NEW class, OfChars(class)
    PROVE  From(p, C!Past(p, class)) /\ C!At(C!Past(p, class)) \notin class
<1>1. NUL \notin class /\ p \in Nat /\ p <= Len(src)
  BY DEF OfChars, NUL, Inside
<1> QED
  BY <1>1, CSSPast, Zenon DEF From, Inside

\* Names and identifiers: where they end, if they are there at all.
LEMMA CSSNameRest ==
    ASSUME Fits(src), NEW p, Inside(p)
    PROVE  From(p, C!NameRest[p])
  BY CSSNameRestStops, Zenon

LEMMA CSSOneOf ==
    ASSUME Fits(src), NEW p, Inside(p), NEW class, OfChars(class)
    PROVE  From(p, C!OneOf(p, class))
<1>1. CASE C!At(p) \in class
  <2>1. Inside(p + 1)
    BY <1>1, CSSIn DEF Inside
  <2> QED
    BY <1>1, <2>1, FromNext DEF C!OneOf
<1>2. CASE C!At(p) \notin class
  BY <1>2, CSSEscape DEF C!OneOf
<1> QED
  BY <1>1, <1>2

LEMMA CSSNameFrom ==
    ASSUME Fits(src), NEW p, Inside(p), NEW q, NEW r, From(p, r)
    PROVE  From(p, C!NameFrom(p, q, r))
<1>1. From(r, C!NameRest[r])
  BY CSSNameRest DEF From
<1> QED
  BY <1>1, FromFrom, FromItself DEF C!NameFrom

LEMMA CSSIdentToken ==
    ASSUME Fits(src), NEW p, Inside(p)
    PROVE  From(p, C!IdentToken(p))
<1>1. CASE C!AtAll(p, <<"-", "-">>)
  <2>1. IsWord(<<"-", "-">>, 2)
    BY Words DEF NUL
  <2>2. p \in Nat /\ AtAll(p, <<"-", "-">>)
    BY <1>1, CSSInput DEF Inside
  <2>3. p + 2 <= Len(src)
    BY <2>1, <2>2, WordFits
  <2>4. From(p, p + 2)
    BY <2>2, <2>3 DEF From, Inside
  <2>5. From(p + 2, C!NameRest[p + 2])
    BY <2>4, CSSNameRest DEF From
  <2> QED
    BY <1>1, <2>4, <2>5, FromFrom DEF C!IdentToken
<1>2. CASE ~C!AtAll(p, <<"-", "-">>)
  <2> DEFINE q == IF C!At(p) = "-" THEN p + 1 ELSE p
             r == C!OneOf(q, C!NameStart)
  <2>1. From(p, q)
    <3>1. C!At(p) = "-" => Inside(p + 1)
      BY CSSChar DEF Inside
    <3> QED
      BY <3>1, FromItself, FromNext
  <2> HIDE DEF q
  <2>2. From(q, r)
    BY <2>1, CSSOneOf, CSSOfChars DEF From
  <2>3. From(p, r)
    BY <2>1, <2>2, FromFrom
  <2>4. C!IdentToken(p) = C!NameFrom(p, q, r)
    BY <1>2, Zenon DEF C!IdentToken, q
  <2> HIDE DEF r
  <2> QED
    BY <2>3, <2>4, CSSNameFrom
<1> QED
  BY <1>1, <1>2

LEMMA CSSCustomVariableToken ==
    ASSUME Fits(src), NEW p, Inside(p)
    PROVE  From(p, C!CustomVariableToken(p))
  BY CSSIdentToken, FromItself DEF C!CustomVariableToken

\* What a call answers that has consumed something from p on.
IsAnswer(p, a) == a = <<>> \/ \E type, q : type # "none" /\ From(p, q) /\ p < q /\ a = <<type, q>>

LEMMA CSSMaybe ==
    ASSUME NEW p0, NEW p, Inside(p0), From(p0, p), NEW q, From(p, q), NEW type, type # "none"
    PROVE  IsAnswer(p0, C!Maybe(type, p, q))
<1>1. From(p0, q)
  BY FromFrom
<1>2. q > p => p0 < q
  BY DEF From, Inside
<1> QED
  BY <1>1, <1>2, Zenon DEF C!Maybe, IsAnswer

LEMMA CSSAtKeywordToken ==
    ASSUME Fits(src), NEW p, Inside(p), Inside(p + 1)
    PROVE  IsAnswer(p, C!AtKeywordToken(p))
<1>1. From(p, p + 1) /\ From(p + 1, C!IdentToken(p + 1))
  BY FromNext, CSSIdentToken
<1> QED
  BY <1>1, CSSMaybe, Zenon DEF C!AtKeywordToken

LEMMA CSSHashToken ==
    ASSUME Fits(src), NEW p, Inside(p), Inside(p + 1)
    PROVE  IsAnswer(p, C!HashToken(p))
<1>1. From(p, p + 1) /\ From(p + 1, C!OneOf(p + 1, C!NameChars))
  BY FromNext, CSSOneOf, CSSOfChars
<1>2. From(p, C!NameFrom(p, p + 1, C!OneOf(p + 1, C!NameChars)))
  BY <1>1, FromFrom, CSSNameFrom
<1> QED
  BY <1>2, FromItself, CSSMaybe, Zenon DEF C!HashToken

\* Numbers, and the dimensions and percentages that begin with one.
LEMMA CSSSign ==
    ASSUME Fits(src), NEW p, Inside(p)
    PROVE  From(p, C!Sign(p))
<1>1. C!At(p) \in {"+", "-"} => Inside(p + 1)
  BY CSSIn, CSSOfChars DEF Inside
<1> QED
  BY <1>1, FromItself, FromNext DEF C!Sign

LEMMA CSSExponent ==
    ASSUME Fits(src), NEW p, Inside(p)
    PROVE  From(p, C!Exponent(p))
<1> DEFINE q == C!Sign(p + 1)
<1>1. CASE C!At(p) = "e"
  <2>1. Inside(p + 1)
    BY <1>1, CSSChar DEF Inside
  <2>2. From(p, p + 1) /\ From(p + 1, q)
    BY <2>1, FromNext, CSSSign
  <2>3. From(q, C!Past(q, C!Digits))
    BY <2>2, CSSPastFrom, CSSOfChars DEF From
  <2>4. From(p, C!Past(q, C!Digits))
    <3> HIDE DEF q
    <3> QED
      BY <2>2, <2>3, FromFrom
  <2> QED
    BY <2>4, FromItself DEF C!Exponent
<1>2. CASE C!At(p) # "e"
  BY <1>2, FromItself DEF C!Exponent
<1> QED
  BY <1>1, <1>2

LEMMA CSSNumberToken ==
    ASSUME Fits(src), NEW p, Inside(p)
    PROVE  From(p, C!NumberToken(p))
<1> DEFINE q == C!Sign(p)
           d == C!Past(q, C!Digits)
<1>1. From(p, q)
  BY CSSSign
<1>2. From(p, d)
  <2>1. Inside(q) /\ From(q, d)
    BY <1>1, CSSPastFrom, CSSOfChars DEF From
  <2> HIDE DEF q, d
  <2> QED
    BY <1>1, <2>1, FromFrom
<1>3. C!NumberToken(p) = C!Fraction(p, q, d)
  BY DEF C!NumberToken
<1> HIDE DEF q, d
<1>4. CASE C!At(d) = "." /\ C!At(d + 1) \in C!Digits
  <2>1. Inside(d) /\ Inside(d + 1)
    BY <1>2, <1>4, CSSChar DEF From, Inside
  <2>2. From(p, d + 1)
    BY <1>2, <2>1, FromNext, FromFrom
  <2>3. From(p, C!Past(d + 1, C!Digits))
    BY <2>1, <2>2, CSSPastFrom, CSSOfChars, FromFrom
  <2>4. From(p, C!Exponent(C!Past(d + 1, C!Digits)))
    BY <2>3, CSSExponent, FromFrom DEF From
  <2> QED
    BY <1>3, <1>4, <2>4 DEF C!Fraction
<1>5. CASE ~(C!At(d) = "." /\ C!At(d + 1) \in C!Digits)
  <2>1. From(p, C!Exponent(d))
    BY <1>2, CSSExponent, FromFrom DEF From
  <2> QED
    BY <1>2, <1>3, <1>5, <2>1, FromItself DEF C!Fraction
<1> QED
  BY <1>4, <1>5

LEMMA CSSUnicodeRangeToken ==
    ASSUME Fits(src), NEW p, Inside(p)
    PROVE  From(p, C!UnicodeRangeToken(p))
<1>1. CASE C!AtAll(p, <<"u", "+">>)
  <2> DEFINE q == p + 2
             h == C!Past(q, C!Hex)
             lo == IF C!At(h) = "-" THEN h + 1 ELSE q
             hi == IF C!At(h) = "-" THEN C!Past(lo, C!Hex) ELSE C!Past(h, {"?"})
  <2>1. IsWord(<<"u", "+">>, 2)
    BY Words DEF NUL
  <2>2. p \in Nat /\ AtAll(p, <<"u", "+">>)
    BY <1>1, CSSInput DEF Inside
  <2>3. q <= Len(src)
    BY <2>1, <2>2, WordFits
  <2>4. From(p, q)
    BY <2>2, <2>3 DEF From, Inside
  <2> HIDE DEF q
  <2>5. From(q, h)
    BY <2>4, CSSPastFrom, CSSOfChars DEF From
  <2>6. From(p, h)
    BY <2>4, <2>5, FromFrom
  <2> HIDE DEF h
  <2>7. CASE C!At(h) = "-"
    <3>1. lo = h + 1 /\ hi = C!Past(h + 1, C!Hex)
      BY <2>7
    <3>2. Inside(h) /\ Inside(h + 1)
      BY <2>6, <2>7, CSSChar DEF From, Inside
    <3>3. From(p, h + 1)
      BY <2>6, <3>2, FromNext, FromFrom
    <3>4. From(p, C!Past(h + 1, C!Hex))
      BY <3>2, <3>3, CSSPastFrom, CSSOfChars, FromFrom
    <3> QED
      BY <3>1, <3>4, <1>1, FromItself, Zenon DEF C!UnicodeRangeToken, C!RangeEnd, q, h
  <2>8. CASE C!At(h) # "-"
    <3>1. hi = C!Past(h, {"?"})
      BY <2>8
    <3>2. From(p, C!Past(h, {"?"}))
      BY <2>6, CSSPastFrom, CSSOfChars, FromFrom DEF From
    <3> QED
      BY <3>1, <3>2, <1>1, FromItself, Zenon DEF C!UnicodeRangeToken, C!RangeEnd, q, h
  <2> QED
    BY <2>7, <2>8
<1>2. CASE ~C!AtAll(p, <<"u", "+">>)
  BY <1>2, FromItself DEF C!UnicodeRangeToken
<1> QED
  BY <1>1, <1>2

LEMMA CSSNumeric ==
    ASSUME Fits(src), NEW p, Inside(p)
    PROVE  IsAnswer(p, C!Numeric(p))
<1> DEFINE q == C!NumberToken(p)
           r == C!IdentToken(q)
<1>1. From(p, q)
  BY CSSNumberToken
<1>2. C!Numeric(p) = C!Unit(p, q, r)
  BY DEF C!Numeric, C!NumericFrom
<1> HIDE DEF q
<1>3. From(p, r)
  BY <1>1, CSSIdentToken, FromFrom DEF From
<1> HIDE DEF r
<1>4. CASE q = p
  BY <1>2, <1>4 DEF C!Unit, IsAnswer
<1>5. CASE q # p
  <2>1. p < q /\ p < q + 1 /\ (r > q => p < r)
    BY <1>1, <1>3, <1>5 DEF From, Inside
  <2>2. C!At(q) = "%" => From(p, q + 1)
    <3> SUFFICES ASSUME C!At(q) = "%" PROVE From(p, q + 1)
      OBVIOUS
    <3>1. Inside(q) /\ Inside(q + 1)
      BY <1>1, CSSChar DEF From, Inside
    <3> QED
      BY <1>1, <3>1, FromNext, FromFrom
  <2>3. CASE C!At(q) = "%"
    <3>1. C!Numeric(p) = <<"Percentage", q + 1>>
      BY <1>2, <1>5, <2>3 DEF C!Unit
    <3> QED
      BY <2>1, <2>2, <2>3, <3>1 DEF IsAnswer
  <2>4. CASE C!At(q) # "%" /\ r > q
    <3>1. C!Numeric(p) = <<"Dimension", r>>
      BY <1>2, <1>5, <2>4 DEF C!Unit
    <3> QED
      BY <1>3, <2>1, <2>4, <3>1 DEF IsAnswer
  <2>5. CASE C!At(q) # "%" /\ ~(r > q)
    <3>1. C!Numeric(p) = <<"Number", q>>
      BY <1>2, <1>5, <2>5 DEF C!Unit
    <3> QED
      BY <1>1, <2>1, <3>1 DEF IsAnswer
  <2> QED
    BY <2>3, <2>4, <2>5
<1> QED
  BY <1>4, <1>5

\* Where the answer of a call is inside the source, beyond p.
Answered(p, a) == \E type, q : type # "none" /\ From(p, q) /\ a = <<type, q>>

\* Comments, strings and URLs.
LEMMA CSSComment ==
    ASSUME Fits(src), NEW p, Inside(p)
    PROVE  From(p, C!Comment(p))
<1>1. CASE C!AtAll(p, <<"/", "*">>)
  <2> DEFINE q == CSSCommentScan(p + 2)
  <2>1. IsWord(<<"/", "*">>, 2) /\ IsWord(<<"*", "/">>, 2)
    BY Words DEF NUL
  <2>2. p \in Nat /\ AtAll(p, <<"/", "*">>)
    BY <1>1, CSSInput DEF Inside
  <2>3. p + 2 <= Len(src) /\ p + 2 \in Nat
    BY <2>1, <2>2, WordFits
  <2>4. q \in Nat /\ p + 2 <= q /\ q <= Len(src)
    BY <2>3, CSSCommentStops
  <2>5. C!Comment(p) = IF C!AtAll(q, <<"*", "/">>) THEN q + 2 ELSE q
    BY <1>1, Zenon DEF C!Comment, CSSCommentScan
  <2> HIDE DEF q
  <2>6. C!AtAll(q, <<"*", "/">>) => q + 2 <= Len(src)
    BY <2>1, <2>4, CSSInput, WordFits
  <2> QED
    BY <2>2, <2>4, <2>5, <2>6 DEF From, Inside
<1>2. CASE ~C!AtAll(p, <<"/", "*">>)
  BY <1>2, FromItself, Zenon DEF C!Comment
<1> QED
  BY <1>1, <1>2

LEMMA CSSInString ==
    ASSUME Fits(src), NEW p, Inside(p), NEW delim
    PROVE  Answered(p, C!InString(p, delim))
<1>1. PICK e : /\ From(p, e)
               /\ C!InString(p, delim) = IF C!Over(e) THEN <<"String", e>>
                                         ELSE IF C!At(e) = "nl" THEN <<"BadString", e + 1>>
                                         ELSE <<"String", e + 1>>
  BY CSSInStringStops, Zenon
<1>2. CASE C!Over(e)
  BY <1>1, <1>2 DEF Answered
<1>3. CASE ~C!Over(e)
  <2>1. From(p, e + 1)
    BY <1>1, <1>3, CSSOver DEF From, Inside
  <2>2. C!InString(p, delim) = <<"BadString", e + 1>> \/ C!InString(p, delim) = <<"String", e + 1>>
    BY <1>1, <1>3
  <2> QED
    BY <2>1, <2>2 DEF Answered
<1> QED
  BY <1>2, <1>3

LEMMA CSSStringToken ==
    ASSUME Fits(src), NEW p, Inside(p + 1)
    PROVE  Answered(p + 1, C!StringToken(p))
  BY CSSInString DEF C!StringToken

LEMMA CSSRemnants ==
    ASSUME Fits(src), NEW p, Inside(p)
    PROVE  From(p, C!Remnants[p])
<1>1. PICK e : From(p, e) /\ C!Remnants[p] = IF C!At(e) = ")" THEN e + 1 ELSE e
  BY CSSRemnantsStop, Zenon
<1>2. C!At(e) = ")" => Inside(e + 1)
  BY <1>1, CSSChar DEF From, Inside
<1> QED
  BY <1>1, <1>2 DEF From, Inside

LEMMA CSSURLEnd ==
    ASSUME Fits(src), NEW r, Inside(r), NEW isBad
    PROVE  Answered(r, C!URLEnd(isBad, r))
<1>1. Answered(r, <<"BadURL", C!Remnants[r]>>)
  BY CSSRemnants DEF Answered
<1> DEFINE close == C!Past(r, C!WS)
<1>2. From(r, close)
  BY CSSPastFrom, CSSOfChars
<1>3. C!URLEnd(isBad, r) = IF isBad THEN <<"BadURL", C!Remnants[r]>> ELSE C!URLClose(close)
  BY Zenon DEF C!URLEnd
<1> HIDE DEF close
<1>4. CASE C!At(close) = ")"
  <2>1. From(r, close + 1)
    BY <1>2, <1>4, CSSChar, FromNext, FromFrom DEF From, Inside
  <2>2. C!URLClose(close) = <<"URL", close + 1>>
    BY <1>4, Zenon DEF C!URLClose
  <2>3. Answered(r, C!URLClose(close))
    BY <2>1, <2>2 DEF Answered
  <2> QED
    BY <1>1, <1>3, <2>3
<1>5. CASE C!At(close) # ")"
  <2>1. From(r, C!Remnants[close])
    BY <1>2, CSSRemnants, FromFrom DEF From
  <2>2. C!URLClose(close) = <<"URL", close>> \/ C!URLClose(close) = <<"BadURL", C!Remnants[close]>>
    BY <1>5, Zenon DEF C!URLClose
  <2>3. Answered(r, C!URLClose(close))
    BY <1>2, <2>1, <2>2 DEF Answered
  <2> QED
    BY <1>1, <1>3, <2>3
<1> QED
  BY <1>4, <1>5

LEMMA AnsweredFrom ==
    ASSUME NEW p, Inside(p), NEW q, From(p, q), NEW a, Answered(q, a)
    PROVE  Answered(p, a)
  BY FromFrom, Zenon DEF Answered

LEMMA CSSURLRest ==
    ASSUME Fits(src), NEW q, Inside(q)
    PROVE  Answered(q, C!URLRest(q))
<1>1. CASE C!At(q) \in {"\"", "'"}
  <2>1. Inside(q + 1)
    BY <1>1, CSSChar DEF Inside
  <2> DEFINE s == C!StringToken(q)
  <2>2. PICK type, e : From(q + 1, e) /\ s = <<type, e>>
    BY <2>1, CSSStringToken, Zenon DEF Answered
  <2>3. C!URLRest(q) = C!URLEnd(s[1] = "BadString", s[2])
    BY <1>1, Zenon DEF C!URLRest, C!QuotedEnd
  <2> HIDE DEF s
  <2>4. s[2] = e /\ Inside(e) /\ From(q, e)
    BY <2>1, <2>2, FromNext, FromFrom DEF From
  <2> QED
    BY <2>3, <2>4, CSSURLEnd, AnsweredFrom
<1>2. CASE C!At(q) \notin {"\"", "'"}
  <2> DEFINE url == C!UnquotedURL[q]
  <2>1. PICK e, ok : From(q, e) /\ url = [end |-> e, ok |-> ok]
    BY CSSUnquotedURLStops, Zenon
  <2>2. C!URLRest(q) = C!URLEnd(~url.ok /\ C!At(url.end) \notin C!WS, url.end)
    BY <1>2, Zenon DEF C!URLRest, C!UnquotedEnd
  <2> HIDE DEF url
  <2>3. url.end = e /\ Inside(e)
    BY <2>1 DEF From
  <2> QED
    BY <2>1, <2>2, <2>3, CSSURLEnd, AnsweredFrom
<1> QED
  BY <1>1, <1>2

LEMMA AnsweredBeyond ==
    ASSUME NEW p, Inside(p), NEW q, From(p, q), p < q, NEW a, Answered(q, a)
    PROVE  IsAnswer(p, a)
<1>1. PICK type, e : type # "none" /\ From(q, e) /\ a = <<type, e>>
  BY DEF Answered
<1>2. From(p, e) /\ p < e
  BY <1>1 DEF From, Inside
<1> QED
  BY <1>1, <1>2, Zenon DEF IsAnswer

LEMMA CSSIdentlike ==
    ASSUME Fits(src), NEW p, Inside(p)
    PROVE  IsAnswer(p, C!Identlike(p))
<1> DEFINE q == C!IdentToken(p)
<1>1. From(p, q) /\ C!Identlike(p) = C!NameIs(p, q)
  BY CSSIdentToken DEF C!Identlike
<1> HIDE DEF q
<1>2. CASE q = p
  BY <1>1, <1>2 DEF C!NameIs, IsAnswer
<1>3. CASE q # p /\ C!At(q) # "("
  <2>1. p < q
    BY <1>1, <1>3 DEF From, Inside
  <2>2. C!NameIs(p, q) = <<"Ident", q>>
    BY <1>3, Zenon DEF C!NameIs
  <2> QED
    BY <1>1, <2>1, <2>2 DEF IsAnswer
<1>4. CASE q # p /\ C!At(q) = "("
  <2>1. Inside(q) /\ Inside(q + 1)
    BY <1>1, <1>4, CSSChar DEF From, Inside
  <2>2. p < q + 1 /\ From(p, q + 1)
    BY <1>1, <1>4, <2>1 DEF From, Inside
  <2>3. C!NameIs(p, q) = <<"Function", q + 1>> \/ C!NameIs(p, q) = C!URLRest(C!Past(q + 1, C!WS))
    BY <1>4, Zenon DEF C!NameIs
  <2> DEFINE r == C!Past(q + 1, C!WS)
  <2>4. From(q + 1, r)
    BY <2>1, CSSPastFrom, CSSOfChars
  <2> HIDE DEF r
  <2>5. Answered(r, C!URLRest(r))
    BY <2>4, CSSURLRest DEF From
  <2>6. Answered(q + 1, C!URLRest(r))
    BY <2>1, <2>4, <2>5, AnsweredFrom
  <2>7. IsAnswer(p, C!URLRest(r))
    BY <2>2, <2>6, AnsweredBeyond
  <2> QED
    BY <1>1, <2>2, <2>3, <2>7 DEF IsAnswer, r
<1> QED
  BY <1>2, <1>3, <1>4

LEMMA CSSMatch ==
    ASSUME Fits(src), NEW p, Inside(p)
    PROVE  IsAnswer(p, C!Match(p))
<1>1. CASE C!At(p + 1) = "=" \/ C!AtAll(p, <<"|", "|">>)
  <2>1. Inside(p + 2)
    <3>1. p \in Nat /\ p + 1 \in Nat
      BY DEF Inside
    <3>4. IsWord(<<"|", "|">>, 2)
      BY Words DEF NUL
    <3>2. CASE C!At(p + 1) = "="
      <4>1. Inside(p + 1 + 1)
        BY <3>1, <3>2, CSSChar
      <4> QED
        BY <3>1, <4>1 DEF Inside
    <3>3. CASE C!AtAll(p, <<"|", "|">>)
      <4>1. p + 2 <= Len(src)
        BY <3>1, <3>3, <3>4, CSSInput, WordFits
      <4> QED
        BY <3>1, <4>1 DEF Inside
    <3> QED
      BY <1>1, <3>2, <3>3
  <2>2. From(p, p + 2) /\ p < p + 2
    BY <2>1 DEF From, Inside
  <2> QED
    BY <2>2, Zenon DEF IsAnswer, C!Match
<1>2. CASE ~(C!At(p + 1) = "=" \/ C!AtAll(p, <<"|", "|">>))
  BY <1>2, Zenon DEF IsAnswer, C!Match
<1> QED
  BY <1>1, <1>2

\* The calls of a list that consume what they answer.
AreAnswers(p, calls) == \E n \in Nat : DOMAIN calls = 1..n /\ \A i \in 1..n : IsAnswer(p, calls[i])

LEMMA CSSAnswers1 == ASSUME NEW p, NEW a, IsAnswer(p, a) PROVE AreAnswers(p, <<a>>)
<1>1. DOMAIN <<a>> = 1..1 /\ \A i \in 1..1 : <<a>>[i] = a
  OBVIOUS
<1>2. 1 \in Nat
  OBVIOUS
<1> QED
  BY <1>1, <1>2, Zenon DEF AreAnswers

LEMMA CSSAnswers2 == ASSUME NEW p, NEW a, NEW b, IsAnswer(p, a), IsAnswer(p, b) PROVE AreAnswers(p, <<a, b>>)
<1> DEFINE s == <<a, b>>
<1>1. DOMAIN s = 1..2 /\ \A i \in 1..2 : s[i] = a \/ s[i] = b
  OBVIOUS
<1>2. 2 \in Nat
  OBVIOUS
<1> HIDE DEF s
<1>3. \A i \in 1..2 : IsAnswer(p, s[i])
  BY <1>1
<1>4. AreAnswers(p, s)
  BY <1>1, <1>2, <1>3, Zenon DEF AreAnswers
<1> QED
  BY <1>4 DEF s

LEMMA CSSAnswers4 ==
    ASSUME NEW p, NEW a, NEW b, NEW c, NEW d,
           IsAnswer(p, a), IsAnswer(p, b), IsAnswer(p, c), IsAnswer(p, d)
    PROVE  AreAnswers(p, <<a, b, c, d>>)
<1> DEFINE s == <<a, b, c, d>>
<1>1. DOMAIN s = 1..4 /\ \A i \in 1..4 : s[i] = a \/ s[i] = b \/ s[i] = c \/ s[i] = d
  OBVIOUS
<1>2. 4 \in Nat
  OBVIOUS
<1> HIDE DEF s
<1>3. \A i \in 1..4 : IsAnswer(p, s[i])
  BY <1>1
<1>4. AreAnswers(p, s)
  BY <1>1, <1>2, <1>3, Zenon DEF AreAnswers
<1> QED
  BY <1>4 DEF s

LEMMA CSSAnswers0 == ASSUME NEW p PROVE AreAnswers(p, << >>)
<1>1. DOMAIN << >> = 1..0 /\ 0 \in Nat /\ \A i \in 1..0 : FALSE
  OBVIOUS
<1> QED
  BY <1>1, Zenon DEF AreAnswers

\* A word that is called by its last offset.
LEMMA CSSWordAnswer ==
    ASSUME Fits(src), NEW p, Inside(p), NEW type, type # "none", NEW word, NEW k, IsWord(word, k)
    PROVE  IsAnswer(p, C!Maybe(type, p, IF C!AtAll(p, word) THEN p + k ELSE p))
<1>1. CASE C!AtAll(p, word)
  <2>1. p + k <= Len(src) /\ p \in Nat /\ k \in Nat
    BY <1>1, CSSInput, WordFits DEF Inside, IsWord
  <2>2. From(p, p + k)
    BY <2>1 DEF From, Inside
  <2> QED
    BY <1>1, <2>2, FromItself, CSSMaybe, Zenon
<1>2. CASE ~C!AtAll(p, word)
  BY <1>2, FromItself, CSSMaybe, Zenon
<1> QED
  BY <1>1, <1>2

\* Every call that Token tries consumes something of the source, or nothing.
LEMMA CSSCalls ==
    ASSUME Fits(src), NEW p, Inside(p)
    PROVE  AreAnswers(p, C!Calls(p))
<1> DEFINE c == C!At(p)
           one == IsAnswer(p, <<"Punctuation", p + 1>>) /\ IsAnswer(p, <<"Bracket", p + 1>>)
<1>1. c \notin {"nul", "panic"} => Inside(p + 1) /\ From(p, p + 1) /\ one
  <2> SUFFICES ASSUME c \notin {"nul", "panic"} PROVE Inside(p + 1) /\ From(p, p + 1) /\ one
    OBVIOUS
  <2>0. p \in Nat /\ p < p + 1
    BY DEF Inside
  <2>1. Inside(p + 1) /\ From(p, p + 1) /\ p < p + 1
    BY <2>0, CSSChar, FromNext
  <2> QED
    BY <2>1 DEF IsAnswer
<1>2. /\ IsAnswer(p, C!Identlike(p)) /\ IsAnswer(p, C!Numeric(p)) /\ IsAnswer(p, C!Match(p))
      /\ From(p, p)
  BY CSSIdentlike, CSSNumeric, CSSMatch, FromItself
<1> HIDE DEF c
<1>3. CASE c \in C!WS
  <2>1. c \notin {"nul", "panic"}
    BY <1>3 DEF C!WS
  <2>2. Inside(p + 1) /\ p \in Nat
    BY <1>1, <2>1 DEF Inside
  <2>3. From(p, C!Past(p, C!WS)) /\ C!At(C!Past(p, C!WS)) \notin C!WS
    BY CSSPastFrom, CSSOfChars
  <2>4. C!Past(p, C!WS) # p
    BY <1>3, <2>3 DEF c
  <2>5. p < C!Past(p, C!WS)
    BY <2>3, <2>4 DEF From, Inside
  <2>6. IsAnswer(p, <<"Whitespace", C!Past(p, C!WS)>>)
    BY <2>3, <2>5 DEF IsAnswer
  <2>7. C!Calls(p) = << <<"Whitespace", C!Past(p, C!WS)>> >>
    BY <1>3 DEF C!Calls, C!WS, c, C!Brackets, C!NUL
  <2> QED
    BY <2>6, <2>7, CSSAnswers1
<1>4. CASE c \in {":", ";", ","}
  <2>1. C!Calls(p) = << <<"Punctuation", p + 1>> >>
    BY <1>4 DEF C!Calls, C!WS, c, C!Brackets, C!NUL
  <2>2. c \notin {"nul", "panic"}
    BY <1>4
  <2> QED
    BY <1>1, <2>1, <2>2, CSSAnswers1
<1>5. CASE c \in C!Brackets
  <2>1. C!Calls(p) = << <<"Bracket", p + 1>> >>
    BY <1>5 DEF C!Calls, C!WS, c, C!Brackets, C!NUL
  <2>2. c \notin {"nul", "panic"}
    BY <1>5 DEF C!Brackets
  <2> QED
    BY <1>1, <2>1, <2>2, CSSAnswers1
<1>6. CASE c = "#"
  <2>1. C!Calls(p) = <<C!HashToken(p)>>
    BY <1>6 DEF C!Calls, C!WS, c, C!Brackets, C!NUL
  <2>2. Inside(p + 1)
    BY <1>1, <1>6
  <2> QED
    BY <2>1, <2>2, CSSHashToken, CSSAnswers1
<1>7. CASE c \in {"\"", "'"}
  <2>1. C!Calls(p) = <<C!StringToken(p)>>
    BY <1>7 DEF C!Calls, C!WS, c, C!Brackets, C!NUL
  <2>0. c \notin {"nul", "panic"}
    BY <1>7
  <2>2. Inside(p + 1) /\ From(p, p + 1) /\ p < p + 1
    BY <1>1, <2>0 DEF Inside
  <2>3. IsAnswer(p, C!StringToken(p))
    BY <2>2, CSSStringToken, AnsweredBeyond
  <2> QED
    BY <2>1, <2>3, CSSAnswers1
<1>8. CASE c \in {".", "+"}
  <2>1. C!Calls(p) = <<C!Numeric(p)>>
    BY <1>8 DEF C!Calls, C!WS, c, C!Brackets, C!NUL
  <2> QED
    BY <1>2, <2>1, CSSAnswers1
<1>9. CASE c = "-"
  <2> DEFINE cdc == C!Maybe("CDC", p, IF C!AtAll(p, <<"-", "-", ">">>) THEN p + 3 ELSE p)
             custom == C!Maybe("CustomPropertyName", p, C!CustomVariableToken(p))
  <2>1. IsWord(<<"-", "-", ">">>, 3)
    BY Words DEF NUL
  <2>2. IsAnswer(p, cdc)
    BY <2>1, CSSWordAnswer
  <2>3. IsAnswer(p, custom)
    BY <1>2, CSSCustomVariableToken, CSSMaybe
  <2>4. C!Calls(p) = <<cdc, custom, C!Identlike(p), C!Numeric(p)>>
    BY <1>9 DEF C!Calls, C!WS, c, C!Brackets, C!NUL
  <2> HIDE DEF cdc, custom
  <2> QED
    BY <1>2, <2>2, <2>3, <2>4, CSSAnswers4
<1>10. CASE c = "@"
  <2>1. C!Calls(p) = <<C!AtKeywordToken(p)>>
    BY <1>10 DEF C!Calls, C!WS, c, C!Brackets, C!NUL
  <2>2. Inside(p + 1)
    BY <1>1, <1>10
  <2> QED
    BY <2>1, <2>2, CSSAtKeywordToken, CSSAnswers1
<1>11. CASE c \in {"$", "*", "^", "~", "|"}
  <2>1. C!Calls(p) = <<C!Match(p)>>
    BY <1>11 DEF C!Calls, C!WS, c, C!Brackets, C!NUL
  <2> QED
    BY <1>2, <2>1, CSSAnswers1
<1>12. CASE c = "/"
  <2>1. C!Calls(p) = <<C!Maybe("Comment", p, C!Comment(p))>>
    BY <1>12 DEF C!Calls, C!WS, c, C!Brackets, C!NUL
  <2>2. IsAnswer(p, C!Maybe("Comment", p, C!Comment(p)))
    BY <1>2, CSSComment, CSSMaybe
  <2> QED
    BY <2>1, <2>2, CSSAnswers1
<1>13. CASE c = "<"
  <2> DEFINE cdo == C!Maybe("CDO", p, IF C!AtAll(p, <<"<", "!", "-", "-">>) THEN p + 4 ELSE p)
  <2>1. IsWord(<<"<", "!", "-", "-">>, 4)
    BY Words DEF NUL
  <2>2. IsAnswer(p, cdo)
    BY <2>1, CSSWordAnswer
  <2>3. C!Calls(p) = <<cdo>>
    BY <1>13 DEF C!Calls, C!WS, c, C!Brackets, C!NUL
  <2> HIDE DEF cdo
  <2> QED
    BY <2>2, <2>3, CSSAnswers1
<1>14. CASE c = "\\"
  <2>1. C!Calls(p) = <<C!Identlike(p)>>
    BY <1>14 DEF C!Calls, C!WS, c, C!Brackets, C!NUL
  <2> QED
    BY <1>2, <2>1, CSSAnswers1
<1>15. CASE c = "u"
  <2> DEFINE range == C!Maybe("UnicodeRange", p, C!UnicodeRangeToken(p))
  <2>1. C!Calls(p) = <<range, C!Identlike(p)>>
    BY <1>15 DEF C!Calls, C!WS, c, C!Brackets, C!NUL
  <2>2. IsAnswer(p, range)
    BY <1>2, CSSUnicodeRangeToken, CSSMaybe
  <2> HIDE DEF range
  <2> QED
    BY <1>2, <2>1, <2>2, CSSAnswers2
<1>16. CASE c = "nul"
  <2>1. C!Calls(p) = << >>
    BY <1>16 DEF C!Calls, C!WS, c, C!Brackets, C!NUL
  <2> QED
    BY <2>1, CSSAnswers0
<1>17. CASE /\ c \notin C!WS /\ c \notin {":", ";", ","} /\ c \notin C!Brackets /\ c # "#"
            /\ c \notin {"\"", "'"} /\ c \notin {".", "+"} /\ c # "-" /\ c # "@"
            /\ c \notin {"$", "*", "^", "~", "|"} /\ c # "/" /\ c # "<" /\ c # "\\" /\ c # "u" /\ c # "nul"
  <2>1. C!Calls(p) = <<C!Numeric(p), C!Identlike(p)>>
    BY <1>17, Zenon DEF C!Calls, c, C!NUL
  <2> QED
    BY <1>2, <2>1, CSSAnswers2
<1> QED
  BY <1>3, <1>4, <1>5, <1>6, <1>7, <1>8, <1>9, <1>10, <1>11, <1>12, <1>13, <1>14, <1>15, <1>16, <1>17, Zenon

\* The steps of css/lex.go.
LEMMA CSSToken == ASSUME Calling, C!Token PROVE Promise!Next /\ InSource'
<1>1. Fits(src) /\ Inside(pos)
  BY SourceKept DEF Calling, Inside
<1> DEFINE calls == C!Calls(pos)
           S == C!Consuming(pos)
           m == C!Min(S)
<1>2. PICK n \in Nat : DOMAIN calls = 1..n /\ \A i \in 1..n : IsAnswer(pos, calls[i])
  BY <1>1, CSSCalls, Zenon DEF AreAnswers
<1>3. S = {i \in DOMAIN calls : calls[i] # <<>>}
  BY DEF C!Consuming
<1>4. S # {} /\ Answers(calls[m][1], pos, calls[m][2], <<>>)
  BY CSSInput, Zenon DEF C!Token
<1> HIDE DEF calls, S
<1>5. m \in S
  <2>1. S \in SUBSET Nat
    BY <1>2, <1>3
  <2>2. \E x \in S : \A y \in S : x <= y
    BY <1>4, <2>1, LeastNumber, Zenon
  <2> QED
    BY <2>2, Zenon DEF C!Min
<1> HIDE DEF m
<1>6. PICK type, q : type # "none" /\ From(pos, q) /\ pos < q /\ calls[m] = <<type, q>>
  BY <1>2, <1>3, <1>5, Zenon DEF IsAnswer
<1>7. calls[m][1] = type /\ calls[m][2] = q
  BY <1>6
<1> QED
  BY <1>4, <1>6, <1>7, AnswerStep DEF From, Inside

LEMMA CSSEndOfFile == ASSUME Calling, C!EndOfFile PROVE Promise!Next /\ InSource'
<1>1. Ended(pos) /\ Fails(pos)
  BY CSSInput DEF C!EndOfFile
<1>2. At(pos) = NUL
  BY <1>1 DEF Ended
<1>3. pos \in Nat /\ pos <= pos /\ pos <= Len(src) /\ BlanksBetween(pos, pos)
  BY SourceKept DEF Calling
<1> QED
  BY <1>1, <1>2, <1>3, FailStep

LEMMA CSSDelim == ASSUME Calling, C!Delim PROVE Promise!Next /\ InSource'
<1>1. ~Ended(pos) /\ Answers("Delim", pos, pos + 1, <<>>)
  BY CSSInput DEF C!Delim
<1>2. Fits(src) /\ pos \in Nat /\ pos <= Len(src) /\ Len(src) \in Nat
  BY SourceKept DEF Calling
<1>3. pos # Len(src)
  BY <1>1, <1>2, AtFacts
<1>4. pos < pos + 1 /\ pos + 1 <= Len(src) /\ pos + 1 \in Nat
  BY <1>2, <1>3
<1> QED
  BY <1>1, <1>4, AnswerStep

LEMMA CSSStep == ASSUME Calling, C!Next PROVE Promise!Next /\ InSource'
  BY CSSToken, CSSEndOfFile, CSSDelim, Zenon DEF C!Next
--------------------------------------------------------------------------------
(* js/lex.go                                                                *)

\* JSLexer's input is the source's.
LEMMA JSInput ==
    ASSUME NEW p
    PROVE  /\ J!At(p) = At(p) /\ J!NUL = NUL /\ J!NoToken = NoToken
           /\ J!Ended(p) = Ended(p) /\ J!AtEOF(p) = AtEOF(p)
           /\ \A word : J!AtAll(p, word) <=> AtAll(p, word)
           /\ \A type, lo, hi, data : J!Answers(type, lo, hi, data) <=> Answers(type, lo, hi, data)
           /\ \A q : J!Fails(q) <=> Fails(q)
<1>1. J!At(p) = At(p) /\ J!NUL = NUL /\ J!NoToken = NoToken /\ J!AtEOF(p) = AtEOF(p)
  BY DEF At, J!At, NUL, J!NUL, NoToken, J!NoToken, AtEOF, J!AtEOF
<1>2. J!Ended(p) = Ended(p)
  BY <1>1, Zenon DEF J!Ended, Ended
<1>3. \A word : J!AtAll(p, word) <=> AtAll(p, word)
  BY Zenon DEF At, J!At, NUL, J!NUL, AtAll, J!AtAll
<1>4. \A type, lo, hi, data : J!Answers(type, lo, hi, data) <=> Answers(type, lo, hi, data)
  BY Zenon DEF Answers, J!Answers
<1>5. \A q : J!Fails(q) <=> Fails(q)
  BY <1>1, Zenon DEF Fails, J!Fails
<1> QED
  BY <1>1, <1>2, <1>3, <1>4, <1>5

\* A character that is found is before the end.
LEMMA JSChar ==
    ASSUME Fits(src), NEW p \in Nat, J!At(p) \notin {"nul", "panic"}
    PROVE  Inside(p) /\ Inside(p + 1)
<1>1. At(p) \notin {"panic", NUL}
  BY JSInput DEF NUL
<1>2. p + 1 <= Len(src) /\ Len(src) \in Nat
  BY <1>1, CharFits, SourceFacts
<1> QED
  BY <1>2 DEF Inside

LEMMA JSChar1 ==
    ASSUME Fits(src), NEW p \in Nat, J!At(p + 1) \notin {"nul", "panic"}
    PROVE  Inside(p + 1) /\ Inside(p + 2)
<1>1. p + 1 \in Nat
  OBVIOUS
<1>2. Inside(p + 1) /\ Inside(p + 1 + 1)
  BY <1>1, JSChar, Zenon
<1>3. p + 1 + 1 = p + 2
  OBVIOUS
<1> QED
  BY <1>2, <1>3

LEMMA JSChar2 ==
    ASSUME Fits(src), NEW p \in Nat, J!At(p + 2) \notin {"nul", "panic"}
    PROVE  Inside(p + 2) /\ Inside(p + 3)
<1>1. p + 2 \in Nat
  OBVIOUS
<1>2. Inside(p + 2) /\ Inside(p + 2 + 1)
  BY <1>1, JSChar, Zenon
<1>3. p + 2 + 1 = p + 3
  OBVIOUS
<1> QED
  BY <1>2, <1>3

LEMMA JSBeyond ==
    ASSUME Fits(src)
    PROVE  Len(src) \in Nat /\ J!At(Len(src)) = "nul" /\ J!At(Len(src) + 1) = "panic"
<1>1. Len(src) \in Nat /\ Len(src) + 1 > Len(src)
  BY SourceFacts
<1>2. At(Len(src)) = NUL
  BY <1>1, AtFacts
<1>3. At(Len(src) + 1) = "panic"
  BY <1>1, AtFacts
<1> QED
  BY <1>1, <1>2, <1>3, JSInput DEF NUL

\* A loop that goes on is inside the source.
LEMMA JSOver ==
    ASSUME Fits(src), NEW p \in Nat, ~J!Over(p)
    PROVE  Inside(p) /\ Inside(p + 1)
<1>1. ~(p > Len(src)) /\ ~Ended(p)
  BY JSInput DEF J!Over
<1>2. Len(src) \in Nat /\ p # Len(src)
  BY <1>1, AtFacts
<1> QED
  BY <1>1, <1>2 DEF Inside

\* JS's runs of characters of a class stay in the source.
LEMMA JSPast ==
    ASSUME Fits(src),
           NEW p \in Nat, p <= Len(src),
           NEW class,
           NUL \notin class
    PROVE  LET e == J!Past(p, class)
           IN  /\ e \in Nat /\ p <= e /\ e <= Len(src)
               /\ J!At(e) \notin class
               /\ \A r \in p..(e - 1) : ~(J!At(r) \notin class)
<1> DEFINE S == {q \in Nat : J!At(q) \notin class}
           n == Len(src)
           e == J!Past(p, class)
<1>1. n \in Nat /\ p \in Nat /\ p <= n
  BY AtFacts
<1>2. n \in S
  BY <1>1, AtFacts, JSInput
<1>3. \A q \in p..(n + 1) : q \in Nat
  BY <1>1
<1>4. \A q : IsFirst(q, p, n, S)
         <=> q \in p..(n + 1) /\ (q > n \/ J!At(q) \notin class)
               /\ \A r \in p..(q - 1) : ~(J!At(r) \notin class)
  <2>1. \A q \in p..(n + 1) : \A r \in p..(q - 1) : r \in Nat
    BY <1>1
  <2>2. \A q \in Nat : q \in S <=> J!At(q) \notin class
    OBVIOUS
  <2> HIDE DEF S, n
  <2> QED
    BY <1>3, <2>1, <2>2, Zenon DEF IsFirst
<1>5. PICK q : IsFirst(q, p, n, S)
  <2> HIDE DEF S, n
  <2> QED
    BY <1>1, <1>2, FirstInside
<1>6. IsFirst(e, p, n, S)
  BY <1>4, <1>5, Zenon DEF J!Past, J!Scan
<1> HIDE DEF e, S, n
<1>7. e \in Nat /\ p <= e /\ e <= n /\ e \in S
  BY <1>1, <1>2, <1>6, FirstInside
<1>8. J!At(e) \notin class /\ \A r \in p..(e - 1) : ~(J!At(r) \notin class)
  BY <1>4, <1>6, <1>7, Zenon DEF S
<1> QED
  BY <1>7, <1>8, Zenon DEF e, n

LEMMA JSOfChars ==
    /\ OfChars(J!Blanks) /\ OfChars(J!LineTerminators) /\ OfChars(J!Quotes) /\ OfChars(J!IdentStart)
    /\ OfChars(J!IdentPart) /\ OfChars(J!Decimals) /\ OfChars(J!Hex) /\ OfChars(J!Octals)
    /\ OfChars(J!Binaries) /\ OfChars(J!Operators) /\ OfChars(J!Punctuators)
  BY DEF OfChars, J!Blanks, J!LineTerminators, J!Quotes, J!Letters, J!IdentStart, J!Decimals, J!IdentPart,
         J!Hex, J!Octals, J!Binaries, J!Operators, J!Punctuators

LEMMA JSIn ==
    ASSUME Fits(src), NEW p \in Nat, NEW class, OfChars(class), J!At(p) \in class
    PROVE  Inside(p) /\ Inside(p + 1)
  BY JSChar, Zenon DEF OfChars

LEMMA JSPastFrom ==
    ASSUME Fits(src), NEW p, Inside(p), NEW class, OfChars(class)
    PROVE  From(p, J!Past(p, class)) /\ J!At(J!Past(p, class)) \notin class
<1>1. NUL \notin class /\ p \in Nat /\ p <= Len(src)
  BY DEF OfChars, NUL, Inside
<1> QED
  BY <1>1, JSPast, Zenon DEF From, Inside

\* The loops of comments, identifiers, numbers, strings, templates and regular
\* expressions, and the escapes that they step over, stop in the source.
LEMMA JSLineEndScan ==
    ASSUME Fits(src),
           NEW p \in Nat, p <= Len(src)
    PROVE  LET e == J!LineEnd(p)
           IN  /\ e \in Nat /\ p <= e /\ e <= Len(src)
               /\ (J!At(e) \in J!LineTerminators \/ J!Ended(e))
               /\ \A r \in p..(e - 1) : ~((J!At(r) \in J!LineTerminators \/ J!Ended(r)))
<1> DEFINE S == {q \in Nat : (J!At(q) \in J!LineTerminators \/ J!Ended(q))}
           n == Len(src)
           e == J!LineEnd(p)
<1>1. n \in Nat /\ p \in Nat /\ p <= n
  BY AtFacts
<1>2. n \in S
  BY <1>1, AtFacts, JSInput
<1>3. \A q \in p..(n + 1) : q \in Nat
  BY <1>1
<1>4. \A q : IsFirst(q, p, n, S)
         <=> q \in p..(n + 1) /\ (q > n \/ (J!At(q) \in J!LineTerminators \/ J!Ended(q)))
               /\ \A r \in p..(q - 1) : ~((J!At(r) \in J!LineTerminators \/ J!Ended(r)))
  <2>1. \A q \in p..(n + 1) : \A r \in p..(q - 1) : r \in Nat
    BY <1>1
  <2>2. \A q \in Nat : q \in S <=> (J!At(q) \in J!LineTerminators \/ J!Ended(q))
    OBVIOUS
  <2> HIDE DEF S, n
  <2> QED
    BY <1>3, <2>1, <2>2, Zenon DEF IsFirst
<1>5. PICK q : IsFirst(q, p, n, S)
  <2> HIDE DEF S, n
  <2> QED
    BY <1>1, <1>2, FirstInside
<1>6. IsFirst(e, p, n, S)
  BY <1>4, <1>5, Zenon DEF J!LineEnd, J!Scan
<1> HIDE DEF e, S, n
<1>7. e \in Nat /\ p <= e /\ e <= n /\ e \in S
  BY <1>1, <1>2, <1>6, FirstInside
<1>8. (J!At(e) \in J!LineTerminators \/ J!Ended(e))
        /\ \A r \in p..(e - 1) : ~((J!At(r) \in J!LineTerminators \/ J!Ended(r)))
  BY <1>4, <1>6, <1>7, Zenon DEF S
<1> QED
  BY <1>7, <1>8, Zenon DEF e, n

JSCommentScan(p) == J!Scan(p, LAMBDA q : J!Ended(q) \/ J!AtAll(q, <<"*", "/">>))

LEMMA JSCommentStops ==
    ASSUME Fits(src),
           NEW p \in Nat, p <= Len(src)
    PROVE  LET e == JSCommentScan(p)
           IN  /\ e \in Nat /\ p <= e /\ e <= Len(src)
               /\ (J!Ended(e) \/ J!AtAll(e, <<"*", "/">>))
               /\ \A r \in p..(e - 1) : ~((J!Ended(r) \/ J!AtAll(r, <<"*", "/">>)))
<1> DEFINE S == {q \in Nat : (J!Ended(q) \/ J!AtAll(q, <<"*", "/">>))}
           n == Len(src)
           e == JSCommentScan(p)
<1>1. n \in Nat /\ p \in Nat /\ p <= n
  BY AtFacts
<1>2. n \in S
  BY <1>1, AtFacts, JSInput
<1>3. \A q \in p..(n + 1) : q \in Nat
  BY <1>1
<1>4. \A q : IsFirst(q, p, n, S)
         <=> q \in p..(n + 1) /\ (q > n \/ (J!Ended(q) \/ J!AtAll(q, <<"*", "/">>)))
               /\ \A r \in p..(q - 1) : ~((J!Ended(r) \/ J!AtAll(r, <<"*", "/">>)))
  <2>1. \A q \in p..(n + 1) : \A r \in p..(q - 1) : r \in Nat
    BY <1>1
  <2>2. \A q \in Nat : q \in S <=> (J!Ended(q) \/ J!AtAll(q, <<"*", "/">>))
    OBVIOUS
  <2> HIDE DEF S, n
  <2> QED
    BY <1>3, <2>1, <2>2, Zenon DEF IsFirst
<1>5. PICK q : IsFirst(q, p, n, S)
  <2> HIDE DEF S, n
  <2> QED
    BY <1>1, <1>2, FirstInside
<1>6. IsFirst(e, p, n, S)
  BY <1>4, <1>5, Zenon DEF JSCommentScan, J!Scan
<1> HIDE DEF e, S, n
<1>7. e \in Nat /\ p <= e /\ e <= n /\ e \in S
  BY <1>1, <1>2, <1>6, FirstInside
<1>8. (J!Ended(e) \/ J!AtAll(e, <<"*", "/">>))
        /\ \A r \in p..(e - 1) : ~((J!Ended(r) \/ J!AtAll(r, <<"*", "/">>)))
  BY <1>4, <1>6, <1>7, Zenon DEF S
<1> QED
  BY <1>7, <1>8, Zenon DEF e, n

LEMMA JSUnicodeEscape ==
    ASSUME Fits(src), NEW p, Inside(p)
    PROVE  From(p, J!UnicodeEscape(p)) /\ (J!UnicodeEscape(p) = p \/ J!At(p) = "\\")
<1>1. CASE J!AtAll(p, <<"\\", "u">>)
  <2> DEFINE h == J!Past(p + 3, J!Hex)
             g == J!Past(p + 2, J!Hex)
  <2>1. p \in Nat /\ Len(src) \in Nat
    BY SourceFacts DEF Inside
  <2>2. J!At(p) = "\\" /\ p + 2 <= Len(src)
    <3>1. IsWord(<<"\\", "u">>, 2)
      BY Words DEF NUL
    <3>2. AtAll(p, <<"\\", "u">>)
      BY <1>1, JSInput
    <3>3. p + 2 <= Len(src)
      BY <2>1, <3>1, <3>2, WordFits
    <3>4. p + 1 - 1 = p /\ 1 \in 1..2
      BY <2>1
    <3>5. At(p) = "\\"
      BY <3>2, <3>4 DEF AtAll
    <3> QED
      BY <3>3, <3>5, JSInput
  <2>3. g \in Nat /\ g <= Len(src)
    <3>1. Inside(p + 2)
      BY <2>1, <2>2 DEF Inside
    <3> QED
      BY <3>1, JSPastFrom, JSOfChars DEF From, Inside
  <2>4. J!At(p + 2) = "{" => Inside(h) /\ p + 3 <= h
    <3> SUFFICES ASSUME J!At(p + 2) = "{" PROVE Inside(h) /\ p + 3 <= h
      OBVIOUS
    <3>1. Inside(p + 3)
      BY <2>1, JSChar2
    <3> QED
      BY <3>1, JSPastFrom, JSOfChars DEF From
  <2>5. J!UnicodeEscape(p) = IF J!At(p + 2) = "{" THEN (IF h > p + 3 /\ J!At(h) = "}" THEN h + 1 ELSE p)
                             ELSE IF g >= p + 6 THEN p + 6 ELSE p
    BY <1>1, Zenon DEF J!UnicodeEscape
  <2> HIDE DEF g, h
  <2>6. CASE J!At(p + 2) = "{"
    <3>1. J!At(h) = "}" => Inside(h + 1)
      BY <2>4, <2>6, JSChar DEF Inside
    <3>2. Inside(h) /\ p + 3 <= h
      BY <2>4, <2>6
    <3>3. J!UnicodeEscape(p) = p \/ (J!UnicodeEscape(p) = h + 1 /\ J!At(h) = "}")
      BY <2>5, <2>6
    <3>4. h + 1 \in Nat /\ p <= p /\ p <= h + 1
      BY <2>1, <3>2 DEF Inside
    <3>5. From(p, J!UnicodeEscape(p))
      BY <3>1, <3>3, <3>4, Zenon DEF From
    <3> QED
      BY <2>2, <3>5
  <2>7. CASE J!At(p + 2) # "{"
    <3>1. J!UnicodeEscape(p) = p \/ (J!UnicodeEscape(p) = p + 6 /\ g >= p + 6)
      BY <2>5, <2>7
    <3> QED
      BY <2>1, <2>2, <2>3, <3>1 DEF From, Inside
  <2> QED
    BY <2>6, <2>7
<1>2. CASE ~J!AtAll(p, <<"\\", "u">>)
  <2>1. J!UnicodeEscape(p) = p
    BY <1>2, Zenon DEF J!UnicodeEscape
  <2> QED
    BY <2>1, FromItself
<1> QED
  BY <1>1, <1>2

LEMMA JSEscapeBeyond ==
    ASSUME Fits(src)
    PROVE  J!UnicodeEscape(Len(src) + 1) = Len(src) + 1
<1> DEFINE p == Len(src) + 1
<1>1. p \in Nat /\ J!At(p) = "panic"
  BY JSBeyond
<1>2. ~J!AtAll(p, <<"\\", "u">>)
  <2>1. p + 1 - 1 = p /\ 1 \in 1..2
    BY <1>1
  <2> QED
    BY <1>1, <2>1 DEF J!AtAll
<1> QED
  BY <1>2, Zenon DEF J!UnicodeEscape

LEMMA JSIdentRestStops ==
    ASSUME Fits(src),
           NEW p0, Inside(p0)
    PROVE  \E e : From(p0, e) /\ (J!At(e) \notin J!IdentPart /\ ~(J!UnicodeEscape(e) > e))
           /\ J!IdentRest[p0] = e
<1> DEFINE n == Len(src)
           D == 0..(n + 1)
           stop == {p \in D : J!At(p) \notin J!IdentPart /\ ~(J!UnicodeEscape(p) > p)}
           res == [p \in D |-> p]
           nxt == [p \in D |-> IF J!At(p) \in J!IdentPart THEN p + 1 ELSE J!UnicodeEscape(p)]
           Is(f) == f = [p \in J!Offsets |->
               IF J!At(p) \in J!IdentPart THEN f[p + 1]
               ELSE IF J!UnicodeEscape(p) > p THEN f[J!UnicodeEscape(p)] ELSE p]
           g == CHOOSE f : Is(f)
<1>1. n \in Nat /\ J!Offsets = D
  BY SourceFacts DEF J!Offsets
<1>2. ASSUME NEW p \in D, p \notin stop
      PROVE  nxt[p] \in (p + 1)..(n + 1) /\ (p <= n => nxt[p] <= n)
  <2>1. p \in Nat /\ ~(J!At(p) \notin J!IdentPart /\ ~(J!UnicodeEscape(p) > p))
          /\ nxt[p] = (IF J!At(p) \in J!IdentPart THEN p + 1 ELSE J!UnicodeEscape(p))
    <3>1. p \in Nat /\ nxt[p] = (IF J!At(p) \in J!IdentPart THEN p + 1 ELSE J!UnicodeEscape(p))
      BY <1>1
    <3>2. ~(J!At(p) \notin J!IdentPart /\ ~(J!UnicodeEscape(p) > p))
      BY <1>2, Zenon
    <3> QED
      BY <3>1, <3>2
  <2> HIDE DEF stop, res, nxt, Is, g
  <2>3. CASE J!At(p) \in J!IdentPart
    <3>2. Inside(p + 1)
      BY <2>1, <2>3, JSIn, JSOfChars
    <3> QED
      BY <1>1, <2>1, <2>3, <3>2 DEF Inside
  <2>4. CASE J!At(p) \notin J!IdentPart
    <3>1. p # n + 1
      BY <2>1, <2>4, JSEscapeBeyond
    <3>2. Inside(p)
      BY <1>1, <1>2, <3>1 DEF Inside
    <3>3. Inside(J!UnicodeEscape(p)) /\ J!UnicodeEscape(p) > p
      BY <2>1, <3>2, <2>4, JSUnicodeEscape DEF From
    <3> QED
      BY <1>1, <2>1, <2>4, <3>3 DEF Inside
  <2> QED
    BY <2>3, <2>4
<1>3. ASSUME NEW f PROVE Is(f) <=> Turns(D, stop, res, nxt, f)
  <2>1. ASSUME NEW p \in D
        PROVE  (IF J!At(p) \in J!IdentPart THEN f[p + 1]
               ELSE IF J!UnicodeEscape(p) > p THEN f[J!UnicodeEscape(p)] ELSE p) =
               (IF p \in stop THEN res[p] ELSE f[nxt[p]])
    <3>1. p \in stop <=> (J!At(p) \notin J!IdentPart /\ ~(J!UnicodeEscape(p) > p))
      OBVIOUS
    <3>2. res[p] = (p) /\ nxt[p] = (IF J!At(p) \in J!IdentPart THEN p + 1 ELSE J!UnicodeEscape(p))
      OBVIOUS
    <3> HIDE DEF stop, res, nxt
    <3> QED
      BY <3>1, <3>2, Zenon
  <2> HIDE DEF stop, res, nxt, D
  <2>2. [p \in D |-> IF J!At(p) \in J!IdentPart THEN f[p + 1]
          ELSE IF J!UnicodeEscape(p) > p THEN f[J!UnicodeEscape(p)] ELSE p] =
          [p \in D |-> IF p \in stop THEN res[p] ELSE f[nxt[p]]]
    BY <2>1, Zenon
  <2> QED
    BY <1>1, <2>2, Zenon DEF Turns
<1> HIDE DEF Is, stop, res, nxt
<1>4. /\ \E f : Turns(0..(n + 1), stop, res, nxt, f)
      /\ \A f : Turns(0..(n + 1), stop, res, nxt, f) => Ends(n, stop, res, f)
  <2>1. Advances(n, stop, nxt)
    BY <1>2, Zenon DEF Advances
  <2> HIDE DEF n
  <2> QED
    BY <1>1, <2>1, OffsetLoop, Zenon
<1>5. Ends(n, stop, res, g)
  <2>1. Is(g)
    BY <1>3, <1>4, Zenon
  <2> QED
    BY <1>3, <1>4, <2>1, Zenon
<1>6. p0 \in 0..n
  BY DEF Inside
<1>7. PICK e \in p0..n : e \in stop /\ g[p0] = res[e]
  <2> HIDE DEF n, g
  <2> QED
    BY <1>5, <1>6, Zenon DEF Ends
<1>8. (J!At(e) \notin J!IdentPart /\ ~(J!UnicodeEscape(e) > e)) /\ res[e] = e
  BY <1>7 DEF res, stop
<1>9. J!IdentRest[p0] = g[p0]
  BY Zenon DEF J!IdentRest, Is
<1>10. From(p0, e)
  BY <1>1, <1>6, <1>7 DEF From, Inside
<1> QED
  BY <1>7, <1>8, <1>9, <1>10, Zenon

LEMMA JSDigitsEndStops ==
    ASSUME Fits(src),
           NEW class, OfChars(class),
           NEW p0, Inside(p0)
    PROVE  \E e : From(p0, e)
           /\ (J!At(e) \notin class /\ ~(J!At(e) = "_" /\ J!At(e + 1) \in class))
           /\ J!DigitsEnd(p0, class) = e
<1> DEFINE n == Len(src)
           D == 0..(n + 1)
           stop == {p \in D : J!At(p) \notin class /\ ~(J!At(p) = "_" /\ J!At(p + 1) \in class)}
           res == [p \in D |-> p]
           nxt == [p \in D |-> IF J!At(p) \in class THEN p + 1 ELSE p + 2]
           Is(f) == f = [p \in J!Offsets |->
               IF J!At(p) \in class THEN f[p + 1] ELSE IF J!At(p) = "_"
               /\ J!At(p + 1) \in class THEN f[p + 2] ELSE p]
           g == CHOOSE f : Is(f)
<1>1. n \in Nat /\ J!Offsets = D
  BY SourceFacts DEF J!Offsets
<1>2. ASSUME NEW p \in D, p \notin stop
      PROVE  nxt[p] \in (p + 1)..(n + 1) /\ (p <= n => nxt[p] <= n)
  <2>1. p \in Nat /\ ~(J!At(p) \notin class /\ ~(J!At(p) = "_" /\ J!At(p + 1) \in class))
          /\ nxt[p] = (IF J!At(p) \in class THEN p + 1 ELSE p + 2)
    <3>1. p \in Nat /\ nxt[p] = (IF J!At(p) \in class THEN p + 1 ELSE p + 2)
      BY <1>1
    <3>2. ~(J!At(p) \notin class /\ ~(J!At(p) = "_" /\ J!At(p + 1) \in class))
      BY <1>2, Zenon
    <3> QED
      BY <3>1, <3>2
  <2> HIDE DEF stop, res, nxt, Is, g
  <2>3. CASE J!At(p) \in class
    <3>1. nxt[p] = p + 1
      BY <2>1, <2>3
    <3>2. p + 1 <= n /\ p \in Nat
      BY <2>1, <2>3, JSIn DEF Inside
    <3> QED
      BY <1>1, <3>1, <3>2
  <2>4. CASE J!At(p) \notin class
    <3>1. Inside(p + 2)
      BY <2>1, <2>4, JSChar1 DEF OfChars
    <3>2. p + 2 <= n /\ p \in Nat
      BY <2>1, <3>1 DEF Inside
    <3>3. nxt[p] = p + 2
      BY <2>1, <2>4
    <3> QED
      BY <1>1, <3>2, <3>3
  <2> QED
    BY <2>3, <2>4
<1>3. ASSUME NEW f PROVE Is(f) <=> Turns(D, stop, res, nxt, f)
  <2>1. ASSUME NEW p \in D
        PROVE  (IF J!At(p) \in class THEN f[p + 1] ELSE IF J!At(p) = "_"
               /\ J!At(p + 1) \in class THEN f[p + 2] ELSE p) =
               (IF p \in stop THEN res[p] ELSE f[nxt[p]])
    <3>1. p \in stop <=> (J!At(p) \notin class /\ ~(J!At(p) = "_" /\ J!At(p + 1) \in class))
      OBVIOUS
    <3>2. res[p] = (p) /\ nxt[p] = (IF J!At(p) \in class THEN p + 1 ELSE p + 2)
      OBVIOUS
    <3> HIDE DEF stop, res, nxt
    <3> QED
      BY <3>1, <3>2, Zenon
  <2> HIDE DEF stop, res, nxt, D
  <2>2. [p \in D |-> IF J!At(p) \in class THEN f[p + 1] ELSE IF J!At(p) = "_"
          /\ J!At(p + 1) \in class THEN f[p + 2] ELSE p] =
          [p \in D |-> IF p \in stop THEN res[p] ELSE f[nxt[p]]]
    BY <2>1, Zenon
  <2> QED
    BY <1>1, <2>2, Zenon DEF Turns
<1> HIDE DEF Is, stop, res, nxt
<1>4. /\ \E f : Turns(0..(n + 1), stop, res, nxt, f)
      /\ \A f : Turns(0..(n + 1), stop, res, nxt, f) => Ends(n, stop, res, f)
  <2>1. Advances(n, stop, nxt)
    BY <1>2, Zenon DEF Advances
  <2> HIDE DEF n
  <2> QED
    BY <1>1, <2>1, OffsetLoop, Zenon
<1>5. Ends(n, stop, res, g)
  <2>1. Is(g)
    BY <1>3, <1>4, Zenon
  <2> QED
    BY <1>3, <1>4, <2>1, Zenon
<1>6. p0 \in 0..n
  BY DEF Inside
<1>7. PICK e \in p0..n : e \in stop /\ g[p0] = res[e]
  <2> HIDE DEF n, g
  <2> QED
    BY <1>5, <1>6, Zenon DEF Ends
<1>8. (J!At(e) \notin class /\ ~(J!At(e) = "_" /\ J!At(e + 1) \in class)) /\ res[e] = e
  BY <1>7 DEF res, stop
<1>9. J!DigitsEnd(p0, class) = g[p0]
  BY Zenon DEF J!DigitsEnd, Is
<1>10. From(p0, e)
  BY <1>1, <1>6, <1>7 DEF From, Inside
<1> QED
  BY <1>7, <1>8, <1>9, <1>10, Zenon

LEMMA JSInStringStops ==
    ASSUME Fits(src),
           NEW delim, delim \in J!Quotes,
           NEW p0, Inside(p0)
    PROVE  \E e : From(p0, e)
           /\ (J!At(e) = delim \/ (J!At(e) # "\\" /\ (J!At(e) = "nl" \/ J!Over(e))))
           /\ J!InString(p0, delim) = IF J!At(e) = delim THEN <<"String", e + 1>>
           ELSE <<"Error", e>>
<1> DEFINE n == Len(src)
           D == 0..(n + 1)
           stop == {p \in D : J!At(p) = delim \/ (J!At(p) # "\\" /\ (J!At(p) = "nl" \/ J!Over(p)))}
           res == [p \in D |-> IF J!At(p) = delim THEN <<"String", p + 1>> ELSE <<"Error", p>>]
           nxt == [p \in D |-> IF J!At(p) = "\\"
               THEN (IF J!At(p + 1) \in J!LineTerminators \cup {delim, "\\"} THEN p + 2
               ELSE p + 1) ELSE p + 1]
           Is(f) == f = [p \in J!Offsets |-> IF J!At(p) = delim THEN <<"String", p + 1>>
            ELSE IF J!At(p) = "\\"
              THEN f[IF J!At(p + 1) \in J!LineTerminators \cup {delim, "\\"} THEN p + 2
              ELSE p + 1]
            ELSE IF J!At(p) = "nl" \/ J!Over(p) THEN <<"Error", p>>
            ELSE f[p + 1]]
           g == CHOOSE f : Is(f)
<1>1. n \in Nat /\ J!Offsets = D
  BY SourceFacts DEF J!Offsets
<1>2. ASSUME NEW p \in D, p \notin stop
      PROVE  nxt[p] \in (p + 1)..(n + 1) /\ (p <= n => nxt[p] <= n)
  <2>1. p \in Nat /\ ~(J!At(p) = delim \/ (J!At(p) # "\\" /\ (J!At(p) = "nl" \/ J!Over(p))))
          /\ nxt[p] = (IF J!At(p) = "\\"
          THEN (IF J!At(p + 1) \in J!LineTerminators \cup {delim, "\\"} THEN p + 2 ELSE p + 1)
          ELSE p + 1)
    <3>1. p \in Nat /\ nxt[p] =
            (IF J!At(p) = "\\" THEN (IF J!At(p + 1) \in J!LineTerminators \cup {delim, "\\"}
            THEN p + 2 ELSE p + 1) ELSE p + 1)
      BY <1>1
    <3>2. ~(J!At(p) = delim \/ (J!At(p) # "\\" /\ (J!At(p) = "nl" \/ J!Over(p))))
      BY <1>2, Zenon
    <3> QED
      BY <3>1, <3>2
  <2> HIDE DEF stop, res, nxt, Is, g
  <2>2. Inside(p + 1)
    <3>1. CASE J!At(p) = "\\"
      BY <2>1, <3>1, JSChar
    <3>2. CASE J!At(p) # "\\"
      BY <2>1, <3>2, JSOver
    <3> QED
      BY <3>1, <3>2
  <2>3. J!At(p + 1) \in J!LineTerminators \cup {delim, "\\"} => Inside(p + 2)
    <3> SUFFICES ASSUME J!At(p + 1) \in J!LineTerminators \cup {delim, "\\"} PROVE Inside(p + 2)
      OBVIOUS
    <3>1. J!At(p + 1) \notin {"nul", "panic"}
      BY DEF J!LineTerminators, J!Quotes
    <3> QED
      BY <2>1, <3>1, JSChar1
  <2> QED
    BY <1>1, <2>1, <2>2, <2>3 DEF Inside
<1>3. ASSUME NEW f PROVE Is(f) <=> Turns(D, stop, res, nxt, f)
  <2>1. ASSUME NEW p \in D
        PROVE  (IF J!At(p) = delim THEN <<"String", p + 1>>
            ELSE IF J!At(p) = "\\"
              THEN f[IF J!At(p + 1) \in J!LineTerminators \cup {delim, "\\"} THEN p + 2
              ELSE p + 1]
            ELSE IF J!At(p) = "nl" \/ J!Over(p) THEN <<"Error", p>>
            ELSE f[p + 1]) = (IF p \in stop THEN res[p] ELSE f[nxt[p]])
    <3>1. p \in stop <=> (J!At(p) = delim \/ (J!At(p) # "\\" /\ (J!At(p) = "nl" \/ J!Over(p))))
      OBVIOUS
    <3>2. res[p] = (IF J!At(p) = delim THEN <<"String", p + 1>> ELSE <<"Error", p>>)
            /\ nxt[p] = (IF J!At(p) = "\\"
            THEN (IF J!At(p + 1) \in J!LineTerminators \cup {delim, "\\"} THEN p + 2 ELSE p + 1)
            ELSE p + 1)
      OBVIOUS
    <3> HIDE DEF stop, res, nxt
    <3> QED
      BY <3>1, <3>2, Zenon
  <2> HIDE DEF stop, res, nxt, D
  <2>2. [p \in D |-> IF J!At(p) = delim THEN <<"String", p + 1>>
            ELSE IF J!At(p) = "\\"
              THEN f[IF J!At(p + 1) \in J!LineTerminators \cup {delim, "\\"} THEN p + 2
              ELSE p + 1]
            ELSE IF J!At(p) = "nl" \/ J!Over(p) THEN <<"Error", p>>
            ELSE f[p + 1]] = [p \in D |-> IF p \in stop THEN res[p] ELSE f[nxt[p]]]
    BY <2>1, Zenon
  <2> QED
    BY <1>1, <2>2, Zenon DEF Turns
<1> HIDE DEF Is, stop, res, nxt
<1>4. /\ \E f : Turns(0..(n + 1), stop, res, nxt, f)
      /\ \A f : Turns(0..(n + 1), stop, res, nxt, f) => Ends(n, stop, res, f)
  <2>1. Advances(n, stop, nxt)
    BY <1>2, Zenon DEF Advances
  <2> HIDE DEF n
  <2> QED
    BY <1>1, <2>1, OffsetLoop, Zenon
<1>5. Ends(n, stop, res, g)
  <2>1. Is(g)
    BY <1>3, <1>4, Zenon
  <2> QED
    BY <1>3, <1>4, <2>1, Zenon
<1>6. p0 \in 0..n
  BY DEF Inside
<1>7. PICK e \in p0..n : e \in stop /\ g[p0] = res[e]
  <2> HIDE DEF n, g
  <2> QED
    BY <1>5, <1>6, Zenon DEF Ends
<1>8. (J!At(e) = delim \/ (J!At(e) # "\\" /\ (J!At(e) = "nl" \/ J!Over(e))))
        /\ res[e] = IF J!At(e) = delim THEN <<"String", e + 1>> ELSE <<"Error", e>>
  BY <1>7 DEF res, stop
<1>9. J!InString(p0, delim) = g[p0]
  BY Zenon DEF J!InString, Is
<1>10. From(p0, e)
  BY <1>1, <1>6, <1>7 DEF From, Inside
<1> QED
  BY <1>7, <1>8, <1>9, <1>10, Zenon

LEMMA JSInTemplateTextStops ==
    ASSUME Fits(src),
           NEW p0, Inside(p0)
    PROVE  \E e : From(p0, e)
           /\ (J!At(e) = "tick" \/ J!AtAll(e, <<"$", "{">>) \/ (J!At(e) # "\\" /\ J!Over(e)))
           /\ J!InTemplateText[p0] = IF J!At(e) = "tick" THEN <<"end", e + 1>>
           ELSE IF J!AtAll(e, <<"$", "{">>) THEN <<"substitution", e + 2>> ELSE <<"Error", e>>
<1> DEFINE n == Len(src)
           D == 0..(n + 1)
           stop == {p \in D : J!At(p) = "tick" \/ J!AtAll(p, <<"$", "{">>) \/ (J!At(p) # "\\" /\ J!Over(p))}
           res == [p \in D |-> IF J!At(p) = "tick" THEN <<"end", p + 1>>
               ELSE IF J!AtAll(p, <<"$", "{">>) THEN <<"substitution", p + 2>>
               ELSE <<"Error", p>>]
           nxt == [p \in D |-> IF J!At(p) = "\\"
               THEN (IF J!At(p + 1) = J!NUL THEN p + 1 ELSE p + 2) ELSE p + 1]
           Is(f) == f = [p \in J!Offsets |-> IF J!At(p) = "tick" THEN <<"end", p + 1>>
            ELSE IF J!AtAll(p, <<"$", "{">>) THEN <<"substitution", p + 2>>
            ELSE IF J!At(p) = "\\" THEN f[IF J!At(p + 1) = J!NUL THEN p + 1 ELSE p + 2]
            ELSE IF J!Over(p) THEN <<"Error", p>>
            ELSE f[p + 1]]
           g == CHOOSE f : Is(f)
<1>1. n \in Nat /\ J!Offsets = D
  BY SourceFacts DEF J!Offsets
<1>2. ASSUME NEW p \in D, p \notin stop
      PROVE  nxt[p] \in (p + 1)..(n + 1) /\ (p <= n => nxt[p] <= n)
  <2>1. p \in Nat /\ ~(J!At(p) = "tick" \/ J!AtAll(p, <<"$", "{">>)
          \/ (J!At(p) # "\\" /\ J!Over(p)))
          /\ nxt[p] = (IF J!At(p) = "\\" THEN (IF J!At(p + 1) = J!NUL THEN p + 1 ELSE p + 2)
          ELSE p + 1)
    <3>1. p \in Nat /\ nxt[p] =
            (IF J!At(p) = "\\" THEN (IF J!At(p + 1) = J!NUL THEN p + 1 ELSE p + 2) ELSE p + 1)
      BY <1>1
    <3>2. ~(J!At(p) = "tick" \/ J!AtAll(p, <<"$", "{">>) \/ (J!At(p) # "\\" /\ J!Over(p)))
      BY <1>2, Zenon
    <3> QED
      BY <3>1, <3>2
  <2> HIDE DEF stop, res, nxt, Is, g
  <2>2. Inside(p + 1)
    <3>1. CASE J!At(p) = "\\"
      BY <2>1, <3>1, JSChar
    <3>2. CASE J!At(p) # "\\"
      BY <2>1, <3>2, JSOver
    <3> QED
      BY <3>1, <3>2
  <2>3. J!At(p + 1) # J!NUL => p + 2 <= n
    <3>1. J!At(n) = J!NUL
      BY JSBeyond DEF J!NUL
    <3>2. J!At(p + 1) # J!NUL => p + 1 # n
      BY <3>1
    <3>3. p + 1 <= n /\ p \in Nat
      BY <2>1, <2>2 DEF Inside
    <3>4. p + 1 # n => p + 2 <= n
      BY <1>1, <3>3
    <3> QED
      BY <3>2, <3>4
  <2>4. nxt[p] = p + 1 \/ (nxt[p] = p + 2 /\ J!At(p + 1) # J!NUL)
    BY <2>1
  <2>5. nxt[p] = p + 1 \/ (nxt[p] = p + 2 /\ p + 2 <= n)
    BY <2>3, <2>4
  <2>6. p + 1 <= n /\ p \in Nat
    BY <2>1, <2>2 DEF Inside
  <2> QED
    BY <1>1, <2>5, <2>6
<1>3. ASSUME NEW f PROVE Is(f) <=> Turns(D, stop, res, nxt, f)
  <2>1. ASSUME NEW p \in D
        PROVE  (IF J!At(p) = "tick" THEN <<"end", p + 1>>
            ELSE IF J!AtAll(p, <<"$", "{">>) THEN <<"substitution", p + 2>>
            ELSE IF J!At(p) = "\\" THEN f[IF J!At(p + 1) = J!NUL THEN p + 1 ELSE p + 2]
            ELSE IF J!Over(p) THEN <<"Error", p>>
            ELSE f[p + 1]) = (IF p \in stop THEN res[p] ELSE f[nxt[p]])
    <3>1. p \in stop <=> (J!At(p) = "tick" \/ J!AtAll(p, <<"$", "{">>) \/ (J!At(p) # "\\" /\ J!Over(p)))
      OBVIOUS
    <3>2. res[p] = (IF J!At(p) = "tick" THEN <<"end", p + 1>>
            ELSE IF J!AtAll(p, <<"$", "{">>) THEN <<"substitution", p + 2>> ELSE <<"Error", p>>)
            /\ nxt[p] = (IF J!At(p) = "\\" THEN (IF J!At(p + 1) = J!NUL THEN p + 1 ELSE p + 2)
            ELSE p + 1)
      OBVIOUS
    <3> HIDE DEF stop, res, nxt
    <3> QED
      BY <3>1, <3>2, Zenon
  <2> HIDE DEF stop, res, nxt, D
  <2>2. [p \in D |-> IF J!At(p) = "tick" THEN <<"end", p + 1>>
            ELSE IF J!AtAll(p, <<"$", "{">>) THEN <<"substitution", p + 2>>
            ELSE IF J!At(p) = "\\" THEN f[IF J!At(p + 1) = J!NUL THEN p + 1 ELSE p + 2]
            ELSE IF J!Over(p) THEN <<"Error", p>>
            ELSE f[p + 1]] = [p \in D |-> IF p \in stop THEN res[p] ELSE f[nxt[p]]]
    BY <2>1, Zenon
  <2> QED
    BY <1>1, <2>2, Zenon DEF Turns
<1> HIDE DEF Is, stop, res, nxt
<1>4. /\ \E f : Turns(0..(n + 1), stop, res, nxt, f)
      /\ \A f : Turns(0..(n + 1), stop, res, nxt, f) => Ends(n, stop, res, f)
  <2>1. Advances(n, stop, nxt)
    BY <1>2, Zenon DEF Advances
  <2> HIDE DEF n
  <2> QED
    BY <1>1, <2>1, OffsetLoop, Zenon
<1>5. Ends(n, stop, res, g)
  <2>1. Is(g)
    BY <1>3, <1>4, Zenon
  <2> QED
    BY <1>3, <1>4, <2>1, Zenon
<1>6. p0 \in 0..n
  BY DEF Inside
<1>7. PICK e \in p0..n : e \in stop /\ g[p0] = res[e]
  <2> HIDE DEF n, g
  <2> QED
    BY <1>5, <1>6, Zenon DEF Ends
<1>8. (J!At(e) = "tick" \/ J!AtAll(e, <<"$", "{">>) \/ (J!At(e) # "\\" /\ J!Over(e)))
        /\ res[e] = IF J!At(e) = "tick" THEN <<"end", e + 1>>
        ELSE IF J!AtAll(e, <<"$", "{">>) THEN <<"substitution", e + 2>> ELSE <<"Error", e>>
  BY <1>7 DEF res, stop
<1>9. J!InTemplateText[p0] = g[p0]
  BY Zenon DEF J!InTemplateText, Is
<1>10. From(p0, e)
  BY <1>1, <1>6, <1>7 DEF From, Inside
<1> QED
  BY <1>7, <1>8, <1>9, <1>10, Zenon

\* What one turn of consumeRegExpToken looks at.
JSEscaped(p) == IF J!At(p) = "\\" THEN p + 1 ELSE p

JSInClass(p, was) == IF J!At(p) = "[" THEN TRUE ELSE IF J!At(p) = "]" THEN FALSE ELSE was

LEMMA JSInRegExpStops ==
    ASSUME Fits(src), NEW p0, Inside(p0), NEW was \in BOOLEAN
    PROVE  \E e : /\ From(p0, e)
                  /\ \/ J!At(e) = "/" /\ J!InRegExp[<<p0, was>>] = <<"RegExp", J!Past(e + 1, J!IdentPart)>>
                     \/ /\ J!At(JSEscaped(e)) \in J!LineTerminators \/ J!Over(JSEscaped(e))
                        /\ J!InRegExp[<<p0, was>>] = <<"Error", JSEscaped(e)>>
<1> DEFINE n == Len(src)
           D == J!Offsets \X BOOLEAN
           off == [d \in D |-> d[1]]
           Ends1(d) == J!At(d[1]) = "/" /\ ~d[2]
           Ends2(d) == J!At(JSEscaped(d[1])) \in J!LineTerminators \/ J!Over(JSEscaped(d[1]))
           stop == {d \in D : Ends1(d) \/ Ends2(d)}
           Res(d) == IF Ends1(d) THEN <<"RegExp", J!Past(d[1] + 1, J!IdentPart)>>
             ELSE <<"Error", JSEscaped(d[1])>>
           res == [d \in D |-> Res(d)]
           Nxt(d) == <<JSEscaped(d[1]) + 1, JSInClass(d[1], d[2])>>
           nxt == [d \in D |-> Nxt(d)]
           Body(f, d) == IF Ends1(d) THEN <<"RegExp", J!Past(d[1] + 1, J!IdentPart)>>
                         ELSE IF Ends2(d) THEN <<"Error", JSEscaped(d[1])>>
                         ELSE f[Nxt(d)]
           Is(f) == f = [d \in D |-> Body(f, d)]
           g == CHOOSE f : Is(f)
<1>1. n \in Nat /\ J!Offsets = 0..(n + 1)
  BY SourceFacts DEF J!Offsets
<1>2. \A d \in D : d[1] \in Nat /\ d[1] <= n + 1 /\ d[2] \in BOOLEAN /\ off[d] = d[1]
        /\ nxt[d] = Nxt(d) /\ res[d] = Res(d)
  BY <1>1
<1>3. \A d \in D : d \in stop <=> Ends1(d) \/ Ends2(d)
  OBVIOUS
<1>4. off \in [D -> Nat]
  BY <1>1
<1>5. \A d : d \in D <=> d = <<d[1], d[2]>> /\ d[1] \in 0..(n + 1) /\ d[2] \in BOOLEAN
  BY <1>1
<1> HIDE DEF off, stop, res, nxt, D, Is, g
<1>6. ASSUME NEW d \in D, d \notin stop
      PROVE  nxt[d] \in D /\ off[d] < off[nxt[d]] /\ (off[d] <= n => off[nxt[d]] <= n)
  <2> DEFINE p == d[1]
             c == JSEscaped(p)
  <2>1. p \in Nat /\ p <= n + 1 /\ d[2] \in BOOLEAN /\ off[d] = p /\ nxt[d] = <<c + 1, JSInClass(p, d[2])>>
    BY <1>2
  <2>2. ~J!Over(c)
    BY <1>3, <1>6
  <2>3. c = p \/ c = p + 1
    BY DEF JSEscaped
  <2> HIDE DEF p, c
  <2>4. c \in Nat
    BY <2>1, <2>3
  <2>5. c + 1 <= n
    BY <2>2, <2>4, JSOver DEF Inside
  <2>6. JSInClass(p, d[2]) \in BOOLEAN
    BY <2>1 DEF JSInClass
  <2> DEFINE e == nxt[d]
  <2>7. e = <<c + 1, JSInClass(p, d[2])>>
    BY <2>1
  <2> HIDE DEF e
  <2>8. e[1] = c + 1 /\ e[2] \in BOOLEAN /\ e = <<e[1], e[2]>>
    BY <2>6, <2>7
  <2>9. e[1] \in 0..(n + 1)
    BY <1>1, <2>4, <2>5, <2>8
  <2>10. e \in D
    BY <1>5, <2>8, <2>9
  <2>11. off[e] = c + 1
    BY <1>2, <2>8, <2>10
  <2>12. off[d] < off[e] /\ off[e] <= n
    BY <1>1, <2>1, <2>3, <2>4, <2>5, <2>11
  <2> QED
    BY <2>10, <2>12 DEF e
<1>7. ASSUME NEW f PROVE Is(f) <=> Turns(D, stop, res, nxt, f)
  <2>1. ASSUME NEW d \in D PROVE Body(f, d) = (IF d \in stop THEN res[d] ELSE f[nxt[d]])
    <3> HIDE DEF Nxt
    <3> QED
      BY <1>2, <1>3, Zenon
  <2> HIDE DEF Body
  <2>2. [d \in D |-> Body(f, d)] = [d \in D |-> IF d \in stop THEN res[d] ELSE f[nxt[d]]]
    BY <2>1, Zenon
  <2> QED
    BY <2>2, Zenon DEF Turns, Is
<1>8. Nears(n, D, off, stop, nxt)
  <2>1. \A d \in D : off[d] <= n + 1
    BY <1>2
  <2> QED
    BY <1>6, <2>1, Zenon DEF Nears
<1>9. /\ \E f : Turns(D, stop, res, nxt, f)
      /\ \A f : Turns(D, stop, res, nxt, f) => Reaches(n, D, off, stop, res, f)
  <2> HIDE DEF n
  <2> QED
    BY <1>1, <1>4, <1>8, RangeLoop, Zenon
<1>10. Is(g)
  BY <1>7, <1>9, Zenon DEF g
<1> DEFINE d0 == <<p0, was>>
<1>11. d0[1] = p0 /\ d0[2] = was /\ d0 = <<d0[1], d0[2]>>
  OBVIOUS
<1>12. p0 \in Nat /\ p0 <= n
  BY DEF Inside
<1> HIDE DEF d0
<1>13. d0 \in D
  BY <1>1, <1>5, <1>11, <1>12
<1>14. off[d0] = p0
  BY <1>2, <1>11, <1>13
<1>15. PICK e \in D : e \in stop /\ off[d0] <= off[e] /\ off[e] <= n /\ g[d0] = res[e]
  <2>1. off[d0] <= n
    BY <1>12, <1>14
  <2> HIDE DEF n
  <2> QED
    BY <1>7, <1>9, <1>10, <1>13, <2>1, Zenon DEF Reaches
<1>16. From(p0, e[1])
  BY <1>2, <1>12, <1>14, <1>15 DEF From, Inside
<1>17. J!InRegExp = g
  BY Zenon DEF J!InRegExp, g, Is, D, JSEscaped, JSInClass
<1>18. g[d0] = Res(e)
  BY <1>2, <1>15
<1>19. Ends1(e) \/ Ends2(e)
  BY <1>3, <1>15
<1>20. \/ J!At(e[1]) = "/" /\ g[d0] = <<"RegExp", J!Past(e[1] + 1, J!IdentPart)>>
       \/ Ends2(e) /\ g[d0] = <<"Error", JSEscaped(e[1])>>
  BY <1>18, <1>19
<1> QED
  BY <1>16, <1>17, <1>20, Zenon DEF d0

\* Identifiers: where they end, if they are there at all.
LEMMA JSIdentRest ==
    ASSUME Fits(src), NEW p, Inside(p)
    PROVE  From(p, J!IdentRest[p])
  BY JSIdentRestStops, Zenon

LEMMA JSIdentifier ==
    ASSUME Fits(src), NEW p, Inside(p)
    PROVE  From(p, J!Identifier(p))
<1>1. CASE J!At(p) \in J!IdentStart
  <2>1. Inside(p + 1)
    BY <1>1, JSIn, JSOfChars DEF Inside
  <2>2. From(p, p + 1) /\ From(p + 1, J!IdentRest[p + 1])
    BY <2>1, FromNext, JSIdentRest
  <2> QED
    BY <1>1, <2>2, FromFrom, Zenon DEF J!Identifier
<1>2. CASE J!At(p) \notin J!IdentStart
  <2> DEFINE q == J!UnicodeEscape(p)
  <2>1. From(p, q)
    BY JSUnicodeEscape
  <2>2. J!Identifier(p) = IF q > p THEN J!IdentRest[q] ELSE p
    BY <1>2, Zenon DEF J!Identifier
  <2> HIDE DEF q
  <2>3. From(q, J!IdentRest[q])
    BY <2>1, JSIdentRest DEF From
  <2> QED
    BY <2>1, <2>2, <2>3, FromFrom, FromItself
<1> QED
  BY <1>1, <1>2

\* Numbers: digits with separators, exponents, big integers, radixes, fractions.
LEMMA JSDigitsEnd ==
    ASSUME Fits(src), NEW p, Inside(p), NEW class, OfChars(class)
    PROVE  /\ From(p, J!DigitsEnd(p, class))
           /\ J!At(p) \in class => From(p + 1, J!DigitsEnd(p, class))
<1>1. PICK e : From(p, e) /\ J!At(e) \notin class /\ J!DigitsEnd(p, class) = e
  BY JSDigitsEndStops, Zenon
<1>2. J!At(p) \in class => e # p
  BY <1>1
<1>3. e # p => p + 1 <= e
  BY <1>1 DEF From, Inside
<1>4. J!At(p) \in class => p + 1 <= e
  BY <1>2, <1>3
<1> QED
  BY <1>1, <1>4 DEF From

LEMMA JSExponent ==
    ASSUME Fits(src), NEW p, Inside(p)
    PROVE  Answered(p, J!Exponent(p))
<1> DEFINE q == IF J!At(p + 1) \in {"+", "-"} THEN p + 2 ELSE p + 1
<1>1. CASE J!At(p) # "e"
  <2>1. J!Exponent(p) = <<"Number", p>>
    BY <1>1, Zenon DEF J!Exponent
  <2> QED
    BY <2>1, FromItself DEF Answered
<1>2. CASE J!At(p) = "e"
  <2>1. p \in Nat /\ Inside(p + 1)
    BY <1>2, JSChar DEF Inside
  <2>2. From(p, q)
    <3>1. CASE J!At(p + 1) \in {"+", "-"}
      <4>1. Inside(p + 2)
        BY <2>1, <3>1, JSChar1
      <4> QED
        BY <2>1, <3>1, <4>1 DEF From
    <3>2. CASE J!At(p + 1) \notin {"+", "-"}
      BY <2>1, <3>2 DEF From
    <3> QED
      BY <3>1, <3>2
  <2>3. J!Exponent(p) = IF J!At(q) \in J!Decimals THEN <<"Number", J!DigitsEnd(q, J!Decimals)>>
          ELSE <<"Error", q>>
    BY <1>2, Zenon DEF J!Exponent
  <2> HIDE DEF q
  <2>4. From(p, J!DigitsEnd(q, J!Decimals))
    BY <2>2, JSDigitsEnd, JSOfChars, FromFrom DEF From
  <2> QED
    BY <2>2, <2>3, <2>4 DEF Answered
<1> QED
  BY <1>1, <1>2

LEMMA JSBigInt ==
    ASSUME Fits(src), NEW p, Inside(p)
    PROVE  Answered(p, J!BigInt(p))
<1>1. J!At(p) = "n" => From(p, p + 1)
  BY JSChar, FromNext DEF Inside
<1> DEFINE q == IF J!At(p) = "n" THEN p + 1 ELSE p
<1>2. From(p, q)
  BY <1>1, FromItself
<1>3. J!BigInt(p) = <<"Number", q>>
  BY Zenon DEF J!BigInt
<1> QED
  BY <1>2, <1>3 DEF Answered

LEMMA JSRadix ==
    ASSUME Fits(src), NEW p \in Nat, Inside(p + 1), NEW class, OfChars(class)
    PROVE  Answered(p + 1, J!Radix(p, class))
<1>1. CASE J!At(p + 2) \in class
  <2> DEFINE q == J!DigitsEnd(p + 2, class)
  <2>1. Inside(p + 2)
    BY <1>1, JSChar2 DEF OfChars
  <2>2. From(p + 1, p + 2)
    BY <2>1 DEF From, Inside
  <2>3. From(p + 2, q)
    BY <2>1, JSDigitsEnd
  <2>4. J!Radix(p, class) = J!BigInt(q)
    BY <1>1, Zenon DEF J!Radix
  <2> HIDE DEF q
  <2>5. Answered(q, J!BigInt(q)) /\ Inside(q)
    BY <2>3, JSBigInt DEF From
  <2>6. From(p + 1, q)
    BY <2>2, <2>3, FromFrom
  <2> QED
    BY <2>4, <2>5, <2>6, AnsweredFrom
<1>2. CASE J!At(p + 2) \notin class
  <2>1. J!Radix(p, class) = <<"Number", p + 1>>
    BY <1>2, Zenon DEF J!Radix
  <2> QED
    BY <2>1, FromItself DEF Answered
<1> QED
  BY <1>1, <1>2

\* A number from p on, or none.
LEMMA JSFraction ==
    ASSUME Fits(src), NEW p, Inside(p), NEW needs \in BOOLEAN
    PROVE  \/ Answered(p, J!Fraction(p, needs)) /\ (J!At(p) = "." => Answered(p + 1, J!Fraction(p, needs)))
           \/ J!Fraction(p, needs) = <<"none", p>> /\ needs
<1>1. CASE J!At(p) # "."
  <2>1. J!Fraction(p, needs) = J!Exponent(p) \/ J!Fraction(p, needs) = J!BigInt(p)
    BY <1>1, Zenon DEF J!Fraction
  <2> QED
    BY <1>1, <2>1, JSExponent, JSBigInt
<1>2. CASE J!At(p) = "."
  <2> DEFINE q == J!DigitsEnd(p + 1, J!Decimals)
  <2>1. Inside(p + 1) /\ From(p, p + 1)
    BY <1>2, JSChar, FromNext DEF Inside
  <2>2. From(p + 1, q)
    BY <2>1, JSDigitsEnd, JSOfChars
  <2>3. \/ J!Fraction(p, needs) = J!Exponent(q)
        \/ J!Fraction(p, needs) = <<"none", p>> /\ needs
        \/ J!Fraction(p, needs) = J!Exponent(p + 1)
    BY <1>2, Zenon DEF J!Fraction
  <2> HIDE DEF q
  <2>4. Answered(q, J!Exponent(q))
    BY <2>2, JSExponent DEF From
  <2>5. Answered(p + 1, J!Exponent(q)) /\ Answered(p + 1, J!Exponent(p + 1))
    BY <2>1, <2>2, <2>4, AnsweredFrom, JSExponent
  <2>6. Answered(p, J!Exponent(q)) /\ Answered(p, J!Exponent(p + 1))
    BY <2>1, <2>5, AnsweredFrom
  <2> QED
    BY <2>3, <2>5, <2>6
<1> QED
  BY <1>1, <1>2

LEMMA JSNumericToken ==
    ASSUME Fits(src), NEW p, Inside(p), J!At(p) \in J!Decimals \cup {"."}
    PROVE  Answered(p + 1, J!NumericToken(p)) \/ J!NumericToken(p) = <<"none", p>>
<1>1. p \in Nat /\ Inside(p + 1)
  <2>1. p \in Nat
    BY DEF Inside
  <2>2. J!At(p) \notin {"nul", "panic"}
    BY DEF J!Decimals
  <2> QED
    BY <2>1, <2>2, JSChar
<1> DEFINE c == J!At(p)
           d == J!At(p + 1)
<1>2. CASE c = "."
  <2>1. J!NumericToken(p) = J!Fraction(p, TRUE)
    BY <1>2 DEF J!NumericToken
  <2> QED
    BY <1>2, <2>1, JSFraction
<1>3. CASE c = "0" /\ d = "x"
  <2>1. J!NumericToken(p) = J!Radix(p, J!Hex)
    BY <1>3 DEF J!NumericToken, J!Decimals
  <2> QED
    BY <1>1, <2>1, JSRadix, JSOfChars
<1>4. CASE c = "0" /\ d = "o"
  <2>1. J!NumericToken(p) = J!Radix(p, J!Octals)
    BY <1>4 DEF J!NumericToken, J!Decimals
  <2> QED
    BY <1>1, <2>1, JSRadix, JSOfChars
<1>5. CASE c = "0" /\ d = "b"
  <2>1. J!NumericToken(p) = J!Radix(p, J!Binaries)
    BY <1>5 DEF J!NumericToken, J!Decimals
  <2> QED
    BY <1>1, <2>1, JSRadix, JSOfChars
<1>6. CASE c = "0" /\ d \in J!Decimals
  <2>1. J!NumericToken(p) = <<"Error", p + 1>>
    BY <1>6 DEF J!NumericToken, J!Decimals
  <2> QED
    BY <1>1, <2>1, FromItself DEF Answered
<1>7. CASE c = "0" /\ d \notin {"x", "o", "b"} \cup J!Decimals
  <2>1. J!NumericToken(p) = J!Fraction(p + 1, FALSE)
    BY <1>7 DEF J!NumericToken, J!Decimals
  <2> QED
    BY <1>1, <2>1, JSFraction
<1>8. CASE c # "." /\ c # "0"
  <2> DEFINE q == J!DigitsEnd(p, J!Decimals)
  <2>1. J!NumericToken(p) = J!Fraction(q, FALSE)
    BY <1>8 DEF J!NumericToken
  <2>2. From(p + 1, q)
    BY <1>8, JSDigitsEnd, JSOfChars
  <2> HIDE DEF q
  <2>3. Answered(q, J!Fraction(q, FALSE))
    BY <2>2, JSFraction DEF From
  <2> QED
    BY <1>1, <2>1, <2>2, <2>3, AnsweredFrom
<1> QED
  BY <1>2, <1>3, <1>4, <1>5, <1>6, <1>7, <1>8

\* What is found once such a loop stops.
LEMMA JSInString ==
    ASSUME Fits(src), NEW p, Inside(p), NEW delim \in J!Quotes
    PROVE  Answered(p, J!InString(p, delim))
<1>1. PICK e : /\ From(p, e)
               /\ J!InString(p, delim) = IF J!At(e) = delim THEN <<"String", e + 1>> ELSE <<"Error", e>>
  BY JSInStringStops, Zenon
<1>2. CASE J!At(e) = delim
  <2>1. Inside(e) /\ Inside(e + 1)
    BY <1>1, <1>2, JSIn, JSOfChars DEF From, Inside
  <2>2. From(p, e + 1)
    BY <1>1, <2>1, FromNext, FromFrom
  <2> QED
    BY <1>1, <1>2, <2>2 DEF Answered
<1>3. CASE J!At(e) # delim
  BY <1>1, <1>3 DEF Answered
<1> QED
  BY <1>2, <1>3

LEMMA JSInTemplateText ==
    ASSUME Fits(src), NEW p, Inside(p)
    PROVE  Answered(p, J!InTemplateText[p])
<1>1. PICK e : /\ From(p, e)
               /\ J!InTemplateText[p] = IF J!At(e) = "tick" THEN <<"end", e + 1>>
                                        ELSE IF J!AtAll(e, <<"$", "{">>) THEN <<"substitution", e + 2>>
                                        ELSE <<"Error", e>>
  BY JSInTemplateTextStops, Zenon
<1>2. e \in Nat /\ Inside(e) /\ p \in Nat /\ p <= e
  BY <1>1 DEF From, Inside
<1>3. J!At(e) = "tick" => From(p, e + 1)
  BY <1>1, <1>2, JSChar, FromNext, FromFrom
<1>5. e + 2 \in Nat /\ p <= e + 2
  <2> HIDE DEF Inside
  <2> QED
    BY <1>2
<1>4. J!AtAll(e, <<"$", "{">>) => From(p, e + 2)
  <2> SUFFICES ASSUME J!AtAll(e, <<"$", "{">>) PROVE From(p, e + 2)
    OBVIOUS
  <2>1. IsWord(<<"$", "{">>, 2)
    BY Words DEF NUL
  <2>2. e + 2 <= Len(src)
    BY <1>2, <2>1, JSInput, WordFits
  <2> QED
    BY <1>5, <2>2 DEF From, Inside
<1> QED
  BY <1>1, <1>3, <1>4 DEF Answered

LEMMA JSInRegExp ==
    ASSUME Fits(src), NEW p, Inside(p)
    PROVE  Answered(p, J!InRegExp[<<p, FALSE>>])
<1>1. PICK e : /\ From(p, e)
               /\ \/ J!At(e) = "/" /\ J!InRegExp[<<p, FALSE>>] = <<"RegExp", J!Past(e + 1, J!IdentPart)>>
                  \/ J!InRegExp[<<p, FALSE>>] = <<"Error", JSEscaped(e)>>
  BY JSInRegExpStops, Zenon
<1>2. e \in Nat /\ Inside(e)
  BY <1>1 DEF From, Inside
<1>3. From(p, JSEscaped(e))
  <2>1. J!At(e) = "\\" => From(e, e + 1)
    BY <1>2, JSChar, FromNext
  <2> QED
    BY <1>1, <1>2, <2>1, FromFrom DEF JSEscaped
<1>4. J!At(e) = "/" => From(p, J!Past(e + 1, J!IdentPart))
  <2> SUFFICES ASSUME J!At(e) = "/" PROVE From(p, J!Past(e + 1, J!IdentPart))
    OBVIOUS
  <2>1. Inside(e + 1)
    BY <1>2, JSChar
  <2>2. From(e, e + 1) /\ From(e + 1, J!Past(e + 1, J!IdentPart))
    BY <1>2, <2>1, FromNext, JSPastFrom, JSOfChars
  <2>3. From(p, e + 1)
    BY <1>1, <2>2, FromFrom
  <2> QED
    BY <2>2, <2>3, FromFrom
<1> QED
  BY <1>1, <1>3, <1>4 DEF Answered

LEMMA JSLineEnd ==
    ASSUME Fits(src), NEW p, Inside(p)
    PROVE  From(p, J!LineEnd(p))
  BY JSLineEndScan, Zenon DEF From, Inside

LEMMA JSAfterWord ==
    ASSUME Fits(src), NEW p, Inside(p), NEW word, NEW k, IsWord(word, k), J!AtAll(p, word)
    PROVE  Inside(p + k) /\ From(p, p + k) /\ p < p + k
<1>1. p \in Nat /\ k \in Nat /\ k > 0
  BY DEF Inside, IsWord
<1>2. p + k <= Len(src)
  BY <1>1, JSInput, WordFits
<1>3. p + k \in Nat /\ p <= p + k /\ p < p + k
  BY <1>1
<1> QED
  BY <1>2, <1>3 DEF From, Inside

LEMMA JSHTMLLikeComment ==
    ASSUME Fits(src), NEW p, Inside(p)
    PROVE  From(p, J!HTMLLikeComment(p))
<1>1. IsWord(<<"<", "!", "-", "-">>, 4) /\ IsWord(<<"-", "-", ">">>, 3)
  BY Words DEF NUL
<1>2. J!AtAll(p, <<"<", "!", "-", "-">>) => From(p, J!LineEnd(p + 4))
  BY <1>1, JSAfterWord, JSLineEnd, FromFrom
<1>3. J!AtAll(p, <<"-", "-", ">">>) => From(p, J!LineEnd(p + 3))
  BY <1>1, JSAfterWord, JSLineEnd, FromFrom
<1> QED
  BY <1>2, <1>3, FromItself DEF J!HTMLLikeComment

LEMMA JSCommentEnd ==
    ASSUME Fits(src), NEW p, Inside(p), J!AtAll(p, <<"/", "*">>)
    PROVE  /\ From(p, J!CommentEnd(p)) /\ p < J!CommentEnd(p)
           /\ ~J!Ended(J!CommentEnd(p)) => From(p, J!CommentEnd(p) + 2) /\ p < J!CommentEnd(p) + 2
<1> DEFINE q == J!CommentEnd(p)
<1>1. IsWord(<<"/", "*">>, 2) /\ IsWord(<<"*", "/">>, 2)
  BY Words DEF NUL
<1>2. Inside(p + 2) /\ From(p, p + 2) /\ p < p + 2
  BY <1>1, JSAfterWord
<1>3. q = JSCommentScan(p + 2)
  BY Zenon DEF J!CommentEnd, JSCommentScan
<1>4. From(p + 2, q) /\ (J!Ended(q) \/ J!AtAll(q, <<"*", "/">>))
  <2>1. p + 2 \in Nat /\ p + 2 <= Len(src)
    BY <1>2 DEF Inside
  <2> QED
    BY <1>3, <2>1, JSCommentStops, Zenon DEF From, Inside
<1> HIDE DEF q
<1>5. From(p, q) /\ p < q
  BY <1>2, <1>4, FromBeyond
<1>6. ~J!Ended(q) => From(q, q + 2)
  BY <1>1, <1>4, JSAfterWord DEF From
<1>7. ~J!Ended(q) => From(p, q + 2) /\ p < q + 2
  BY <1>5, <1>6, FromBeyond
<1> QED
  BY <1>5, <1>7 DEF q

\* What an operator takes is in the source; only ~= and ?= are none.
LEMMA JSOperatorToken ==
    ASSUME Fits(src), NEW p, Inside(p), J!At(p) \in J!Operators
    PROVE  \E q : /\ From(p, q) /\ p < q
                  /\ \/ J!OperatorToken(p) = <<"Operator", q>>
                     \/ /\ J!OperatorToken(p) = <<"none", q>> /\ q = p + 2
                        /\ J!At(p) \in {"~", "?"} /\ J!At(p + 1) = "="
<1> DEFINE c == J!At(p)
           d == J!At(p + 1)
           e == J!At(p + 2)
           f == J!At(p + 3)
<1>0. p \in Nat
  BY DEF Inside
<1>1. Inside(p + 1)
  BY <1>0, JSIn, JSOfChars
<1>2. d \notin {"nul", "panic"} => Inside(p + 2)
  BY <1>0, JSChar1
<1>3. e \notin {"nul", "panic"} => Inside(p + 3)
  BY <1>0, JSChar2
<1>4. f \notin {"nul", "panic"} => Inside(p + 4)
  <2> SUFFICES ASSUME f \notin {"nul", "panic"} PROVE Inside(p + 4)
    OBVIOUS
  <2>1. p + 3 \in Nat /\ p + 3 + 1 = p + 4
    BY <1>0
  <2>2. Inside(p + 3 + 1)
    BY <2>1, JSChar, Zenon
  <2> QED
    BY <2>1, <2>2
<1>5. c \notin {"nul", "panic"}
  BY DEF J!Operators
<1>6. /\ p < p + 1 /\ p < p + 2 /\ p < p + 3 /\ p < p + 4
      /\ p <= p + 1 /\ p <= p + 2 /\ p <= p + 3 /\ p <= p + 4
  BY <1>0
<1> DEFINE Good(q) == From(p, q) /\ p < q
<1>7. /\ Good(p + 1)
      /\ d \notin {"nul", "panic"} => Good(p + 2)
      /\ e \notin {"nul", "panic"} => Good(p + 3)
      /\ f \notin {"nul", "panic"} => Good(p + 4)
  BY <1>1, <1>2, <1>3, <1>4, <1>6, Zenon DEF From
<1> DEFINE op == J!OperatorToken(p)
<1> HIDE DEF Good
<1>8. CASE d = "=" /\ e = "=" /\ c \in {"!", "="}
  <2>1. op = <<"Operator", p + 3>>
    BY <1>8 DEF J!OperatorToken
  <2> QED
    BY <1>7, <1>8, <2>1 DEF Good
<1>9. CASE d = "=" /\ ~(e = "=" /\ c \in {"!", "="})
  <2>1. op = <<IF c \in J!EqOperators THEN "Operator" ELSE "none", p + 2>>
    <3>1. /\ ~(d = c /\ c \in J!Doubled) /\ ~(c = "?" /\ d = "." /\ e \notin J!Decimals)
          /\ ~(c = "=" /\ d = ">") /\ ~(c = ">" /\ d = ">")
      BY <1>9 DEF J!Doubled
    <3> QED
      BY <1>9, <3>1, Zenon DEF J!OperatorToken
  <2>2. c \notin J!EqOperators => c \in {"~", "?"}
    BY DEF J!EqOperators
  <2> QED
    BY <1>7, <1>9, <2>1, <2>2 DEF Good
<1>10. CASE d # "=" /\ d = c /\ c \in J!Doubled
  <2>1. op = <<"Operator", IF e = "=" /\ c \notin {"+", "-"} THEN p + 3 ELSE p + 2>>
    BY <1>10 DEF J!OperatorToken, J!Doubled
  <2> QED
    BY <1>5, <1>7, <1>10, <2>1 DEF Good
<1>11. CASE d # "=" /\ ~(d = c /\ c \in J!Doubled) /\ c = "?" /\ d = "." /\ e \notin J!Decimals
  <2>1. op = <<"Operator", p + 2>>
    BY <1>11 DEF J!OperatorToken, J!Doubled
  <2> QED
    BY <1>7, <1>11, <2>1 DEF Good
<1>12. CASE c = "=" /\ d = ">"
  <2>1. op = <<"Operator", p + 2>>
    BY <1>12 DEF J!OperatorToken, J!Doubled
  <2> QED
    BY <1>7, <1>12, <2>1 DEF Good
<1>13. CASE c = ">" /\ d = ">" /\ e = ">"
  <2>1. op = <<"Operator", IF f = "=" THEN p + 4 ELSE p + 3>>
    BY <1>13 DEF J!OperatorToken, J!Doubled
  <2> QED
    BY <1>7, <1>13, <2>1 DEF Good
<1>14. CASE c = ">" /\ d = ">" /\ e # ">"
  <2>1. op = <<"Operator", IF e = "=" THEN p + 3 ELSE p + 2>>
    BY <1>14 DEF J!OperatorToken, J!Doubled
  <2> QED
    BY <1>7, <1>14, <2>1 DEF Good
<1>15. CASE /\ d # "=" /\ ~(d = c /\ c \in J!Doubled)
            /\ ~(c = "?" /\ d = "." /\ e \notin J!Decimals)
            /\ ~(c = "=" /\ d = ">") /\ ~(c = ">" /\ d = ">")
  <2>1. op = <<"Operator", p + 1>>
    BY <1>15, Zenon DEF J!OperatorToken
  <2> QED
    BY <1>7, <2>1 DEF Good
<1> QED
  BY <1>8, <1>9, <1>10, <1>11, <1>12, <1>13, <1>14, <1>15

\* A call of the lexer of js.
Scripting == InSource /\ ~ended /\ lang = "js" /\ lang' = lang

LEMMA JSHere ==
    ASSUME InSource
    PROVE  Fits(src) /\ Inside(pos) /\ From(pos, J!Here) /\ Inside(J!Here)
<1>1. Fits(src) /\ pos \in Nat /\ ahead \in Nat /\ pos + ahead <= Len(src) /\ pos <= Len(src)
  BY DEF InSource
<1>2. J!Here = pos + ahead
  BY DEF J!Here
<1>3. pos + ahead \in Nat /\ pos <= pos + ahead
  BY <1>1
<1> QED
  BY <1>1, <1>2, <1>3 DEF From, Inside

\* A token from pos on, which ends beyond where the lexer looks.
LEMMA JSGives ==
    ASSUME Scripting, NEW type, type # "none", NEW hi, From(J!Here, hi), J!Here < hi, J!Gives(type, hi)
    PROVE  Promise!Next /\ InSource'
<1>1. Inside(pos) /\ From(pos, J!Here) /\ BlanksBetween(pos, pos) /\ pos <= pos
  BY JSHere, SourceKept DEF Scripting
<1>2. pos \in Nat /\ hi \in Nat /\ hi <= Len(src) /\ pos < hi
  BY <1>1 DEF From, Inside
<1>3. Answers(type, pos, hi, [whole |-> ahead = 0]) /\ ahead' = 0
  BY JSInput, Zenon DEF J!Gives
<1> QED
  BY <1>1, <1>2, <1>3, TokenStep DEF Scripting

LEMMA JSGivesAnswer ==
    ASSUME Scripting, Inside(J!Here + 1), NEW type, type # "none", NEW hi, From(J!Here + 1, hi), J!Gives(type, hi)
    PROVE  Promise!Next /\ InSource'
<1>1. Inside(J!Here)
  BY JSHere DEF Scripting
<1>2. From(J!Here, hi) /\ J!Here < hi
  <2> DEFINE h == J!Here
  <2> HIDE DEF h
  <2>1. From(h, hi) /\ h < hi
    BY <1>1 DEF From, Inside, h
  <2> QED
    BY <2>1 DEF h
<1> QED
  BY <1>2, JSGives

LEMMA JSReports ==
    ASSUME Scripting, NEW hi, From(J!Here, hi), J!Here < hi, J!Reports(hi)
    PROVE  Promise!Next /\ InSource'
<1>1. Inside(pos) /\ From(pos, J!Here)
  BY JSHere DEF Scripting
<1>2. ahead' = hi - pos /\ UNCHANGED <<src, pos, tok, ended>>
  BY DEF J!Reports
<1>3. hi - pos \in Nat /\ hi - pos > 0 /\ pos + (hi - pos) <= Len(src)
  BY <1>1 DEF From, Inside
<1> QED
  BY <1>2, <1>3, ReportStep DEF Scripting

\* The steps of js/lex.go, one after the other.
LEMMA JSEndOfFile == ASSUME Scripting, J!EndOfFile PROVE Promise!Next /\ InSource'
<1>1. Ended(J!Here) /\ Fails(pos) /\ ahead' = ahead
  BY JSInput DEF J!EndOfFile
<1>2. Fits(src) /\ Inside(J!Here)
  BY JSHere DEF Scripting
<1>3. pos + ahead = Len(src)
  BY <1>1, <1>2, AtFacts DEF J!Here, Inside
<1>4. pos \in Nat /\ ahead \in Nat /\ Len(src) \in Nat
  BY SourceKept DEF Scripting, InSource
<1>5. pos # Len(src) => ahead > 0
  BY <1>3, <1>4
<1>6. pos <= pos /\ pos + ahead <= Len(src) /\ BlanksBetween(pos, pos)
  BY SourceKept DEF Scripting, InSource
<1> QED
  BY <1>1, <1>4, <1>5, <1>6, StopStep DEF Scripting

\* Characters of a class, one after the other.
LEMMA JSRun ==
    ASSUME Scripting, NEW class, OfChars(class), J!At(J!Here) \in class,
           NEW type, type # "none", J!Gives(type, J!Past(J!Here, class))
    PROVE  Promise!Next /\ InSource'
<1> DEFINE h == J!Here
           q == J!Past(h, class)
<1>1. Fits(src) /\ Inside(h)
  BY JSHere DEF Scripting
<1> HIDE DEF h
<1>2. From(h, q) /\ J!At(q) \notin class /\ J!At(h) \in class
  BY <1>1, JSPastFrom DEF h
<1>3. q # h
  BY <1>2
<1> HIDE DEF q
<1>4. h < q
  BY <1>1, <1>2, <1>3 DEF From, Inside
<1> QED
  BY <1>2, <1>4, JSGives DEF h, q

LEMMA JSWhitespace == ASSUME Scripting, J!Whitespace PROVE Promise!Next /\ InSource'
  BY JSRun, JSOfChars DEF J!Whitespace

LEMMA JSLineTerminator == ASSUME Scripting, J!LineTerminator PROVE Promise!Next /\ InSource'
  BY JSRun, JSOfChars DEF J!LineTerminator

LEMMA JSNext ==
    ASSUME Scripting, J!At(J!Here) \notin {"nul", "panic"}
    PROVE  Fits(src) /\ Inside(J!Here) /\ Inside(J!Here + 1) /\ From(J!Here + 1, J!Here + 1)
<1>1. Fits(src) /\ Inside(J!Here)
  BY JSHere DEF Scripting
<1>2. Inside(J!Here + 1)
  BY <1>1, JSChar DEF Inside
<1> QED
  BY <1>1, <1>2, FromItself

LEMMA JSOne ==
    ASSUME Scripting, J!At(J!Here) \notin {"nul", "panic"}, NEW type, type # "none", J!Gives(type, J!Here + 1)
    PROVE  Promise!Next /\ InSource'
  BY JSNext, JSGivesAnswer

LEMMA JSPunctuator == ASSUME Scripting, J!Punctuator PROVE Promise!Next /\ InSource'
<1>1. J!At(J!Here) \notin {"nul", "panic"}
  BY DEF J!Punctuator, J!Punctuators
<1> QED
  BY <1>1, JSOne DEF J!Punctuator

LEMMA JSOpenParenOrBrace == ASSUME Scripting, J!OpenParenOrBrace PROVE Promise!Next /\ InSource'
<1>1. J!At(J!Here) \notin {"nul", "panic"}
  BY DEF J!OpenParenOrBrace
<1> QED
  BY <1>1, JSOne DEF J!OpenParenOrBrace

LEMMA JSCloseParenOrBrace == ASSUME Scripting, J!CloseParenOrBrace PROVE Promise!Next /\ InSource'
<1>1. J!At(J!Here) \notin {"nul", "panic"}
  BY DEF J!CloseParenOrBrace
<1> QED
  BY <1>1, JSOne DEF J!CloseParenOrBrace

\* What answers with a type of its own from the next offset on.
LEMMA JSGivesPair ==
    ASSUME Scripting, Inside(J!Here + 1), NEW a, Answered(J!Here + 1, a), NEW type, type # "none", J!Gives(type, a[2])
    PROVE  Promise!Next /\ InSource'
<1>1. PICK t, q : From(J!Here + 1, q) /\ a = <<t, q>>
  BY DEF Answered
<1>2. a[2] = q
  BY <1>1
<1> QED
  BY <1>1, <1>2, JSGivesAnswer

LEMMA JSTemplateToken == ASSUME Scripting, J!TemplateToken PROVE Promise!Next /\ InSource'
<1> DEFINE text == J!InTemplateText[J!Here + 1]
<1>1. J!At(J!Here) \notin {"nul", "panic"}
  BY DEF J!TemplateToken
<1>2. Fits(src) /\ Inside(J!Here + 1)
  BY <1>1, JSNext
<1>3. Answered(J!Here + 1, text)
  BY <1>2, JSInTemplateText
<1>4. \E type \in {"Error", "TemplateRest", "Template"} : J!Gives(type, text[2])
  BY Zenon DEF J!TemplateToken
<1> HIDE DEF text
<1> QED
  BY <1>2, <1>3, <1>4, JSGivesPair

LEMMA JSNumber == ASSUME Scripting, J!Number PROVE Promise!Next /\ InSource'
<1> DEFINE h == J!Here
           number == J!NumericToken(h)
<1>1. J!At(h) \in J!Decimals \cup {"."}
  BY DEF J!Number
<1>2. J!At(h) \notin {"nul", "panic"}
  BY <1>1 DEF J!Decimals
<1>3. Fits(src) /\ Inside(h) /\ Inside(h + 1)
  BY <1>2, JSNext
<1>4. Answered(h + 1, number) \/ number = <<"none", h>>
  BY <1>1, <1>3, JSNumericToken
<1>5. \/ /\ number[1] # "none" \/ ahead > 0
         /\ J!Gives(IF number[1] = "none" THEN "Error" ELSE number[1], number[2])
      \/ J!Gives("Punctuator", IF J!AtAll(h, <<".", ".", ".">>) THEN h + 3 ELSE h + 1)
  BY Zenon DEF J!Number
<1>6. CASE J!Gives("Punctuator", IF J!AtAll(h, <<".", ".", ".">>) THEN h + 3 ELSE h + 1)
  <2>1. IsWord(<<".", ".", ".">>, 3)
    BY Words DEF NUL
  <2>2. J!AtAll(h, <<".", ".", ".">>) => From(h, h + 3) /\ h < h + 3
    BY <1>3, <2>1, JSAfterWord
  <2> QED
    BY <1>2, <1>6, <2>2, JSOne, JSGives
<1>7. CASE /\ number[1] # "none" \/ ahead > 0
           /\ J!Gives(IF number[1] = "none" THEN "Error" ELSE number[1], number[2])
  <2> DEFINE type == IF number[1] = "none" THEN "Error" ELSE number[1]
  <2>1. type # "none"
    OBVIOUS
  <2>2. CASE Answered(h + 1, number)
    <3> HIDE DEF number
    <3>1. J!Gives(type, number[2])
      BY <1>7
    <3> HIDE DEF type
    <3> QED
      BY <1>3, <2>1, <2>2, <3>1, JSGivesPair
  <2>3. CASE number = <<"none", h>>
    <3>1. number[1] = "none" /\ number[2] = h
      BY <2>3
    <3>2. ahead > 0 /\ J!Gives("Error", h)
      BY <1>7, <3>1
    <3>3. pos \in Nat /\ h = pos + ahead /\ ahead \in Nat /\ pos <= pos /\ BlanksBetween(pos, pos)
      BY SourceKept DEF Scripting, InSource, J!Here
    <3> HIDE DEF h
    <3>4. pos < h /\ h \in Nat /\ h <= Len(src)
      BY <1>3, <3>2, <3>3 DEF Inside
    <3>5. Answers("Error", pos, h, [whole |-> ahead = 0]) /\ ahead' = 0
      BY <3>2, JSInput, Zenon DEF J!Gives
    <3> QED
      BY <3>3, <3>4, <3>5, TokenStep DEF Scripting
  <2> QED
    BY <1>4, <2>2, <2>3
<1> QED
  BY <1>5, <1>6, <1>7

LEMMA JSString == ASSUME Scripting, J!String PROVE Promise!Next /\ InSource'
<1> DEFINE string == J!InString(J!Here + 1, J!At(J!Here))
<1>1. J!At(J!Here) \in J!Quotes
  BY DEF J!String
<1>2. J!At(J!Here) \notin {"nul", "panic"}
  BY <1>1 DEF J!Quotes
<1>3. Fits(src) /\ Inside(J!Here + 1)
  BY <1>2, JSNext
<1>4. Answered(J!Here + 1, string)
  BY <1>1, <1>3, JSInString
<1>5. J!Gives(string[1], string[2])
  BY Zenon DEF J!String
<1> HIDE DEF string
<1>6. string[1] # "none"
  BY <1>4 DEF Answered
<1> QED
  BY <1>3, <1>4, <1>5, <1>6, JSGivesPair

LEMMA JSBlockComment == ASSUME Scripting, J!BlockComment PROVE Promise!Next /\ InSource'
<1> DEFINE h == J!Here
           q == J!CommentEnd(h)
<1>1. Fits(src) /\ Inside(h)
  BY JSHere DEF Scripting
<1>2. J!AtAll(h, <<"/", "*">>)
  BY DEF J!BlockComment
<1>3. \/ J!Ended(q) /\ J!Reports(q)
      \/ ~J!Ended(q) /\ \E type \in {"CommentLineTerminator", "Comment"} : J!Gives(type, q + 2)
  BY Zenon DEF J!BlockComment
<1>4. /\ From(h, q) /\ h < q
      /\ ~J!Ended(q) => From(h, q + 2) /\ h < q + 2
  BY <1>1, <1>2, JSCommentEnd
<1> HIDE DEF q
<1> QED
  BY <1>3, <1>4, JSReports, JSGives

LEMMA JSLineComment == ASSUME Scripting, J!LineComment PROVE Promise!Next /\ InSource'
<1> DEFINE h == J!Here
<1>1. Fits(src) /\ Inside(h)
  BY JSHere DEF Scripting
<1>2. CASE J!AtAll(h, <<"/", "/">>) /\ J!Gives("Comment", J!LineEnd(h + 2))
  <2>1. IsWord(<<"/", "/">>, 2)
    BY Words DEF NUL
  <2>2. Inside(h + 2) /\ From(h, h + 2) /\ h < h + 2
    BY <1>1, <1>2, <2>1, JSAfterWord
  <2>3. From(h + 2, J!LineEnd(h + 2))
    BY <1>1, <2>2, JSLineEnd
  <2>4. From(h, J!LineEnd(h + 2)) /\ h < J!LineEnd(h + 2)
    BY <1>1, <2>2, <2>3, FromBeyond
  <2> QED
    BY <1>2, <2>4, JSGives
<1>3. CASE J!HTMLLikeComment(h) > h /\ J!Gives("Comment", J!HTMLLikeComment(h))
  <2> DEFINE q == J!HTMLLikeComment(h)
  <2>1. From(h, q) /\ q > h /\ J!Gives("Comment", q)
    BY <1>1, <1>3, JSHTMLLikeComment
  <2> HIDE DEF q
  <2>2. h < q
    BY <2>1 DEF From, Inside
  <2> QED
    BY <2>1, <2>2, JSGives
<1> QED
  BY <1>2, <1>3 DEF J!LineComment

LEMMA JSOperator == ASSUME Scripting, J!Operator PROVE Promise!Next /\ InSource'
<1> DEFINE h == J!Here
           op == J!OperatorToken(h)
<1>1. Fits(src) /\ Inside(h)
  BY JSHere DEF Scripting
<1>2. J!At(h) \in J!Operators /\ op[1] = "Operator" /\ J!Gives("Operator", op[2])
  BY DEF J!Operator, J!IsOperator
<1>3. PICK q : From(h, q) /\ h < q /\ (op = <<"Operator", q>> \/ op = <<"none", q>>)
  BY <1>1, <1>2, JSOperatorToken
<1> HIDE DEF op
<1>4. op[2] = q
  BY <1>3
<1> QED
  BY <1>2, <1>3, <1>4, JSGives

LEMMA JSPrivateIdentifier == ASSUME Scripting, J!PrivateIdentifier PROVE Promise!Next /\ InSource'
<1>1. J!At(J!Here) = "#" /\ J!Gives("PrivateIdentifier", J!Identifier(J!Here + 1))
  BY DEF J!PrivateIdentifier
<1>2. Fits(src) /\ Inside(J!Here + 1)
  BY <1>1, JSNext
<1>3. From(J!Here + 1, J!Identifier(J!Here + 1))
  BY <1>2, JSIdentifier
<1> QED
  BY <1>1, <1>2, <1>3, JSGivesAnswer

LEMMA JSIdent == ASSUME Scripting, J!Ident PROVE Promise!Next /\ InSource'
<1> DEFINE h == J!Here
           q == J!Identifier(h)
<1>1. Fits(src) /\ Inside(h)
  BY JSHere DEF Scripting
<1>2. q > h /\ (J!Reports(q) \/ J!Gives("Identifier", q))
  BY DEF J!Ident
<1>3. From(h, q)
  BY <1>1, JSIdentifier
<1> HIDE DEF h, q
<1>4. h < q
  BY <1>2, <1>3
<1> QED
  BY <1>2, <1>3, <1>4, JSGives, JSReports DEF h, q

\* A source that is complete does not end in what is unfinished.
LEMMA JSNotLast ==
    ASSUME Fits(src), Complete(src), NEW p \in Nat
    PROVE  /\ J!At(p) = "#" => p + 1 # Len(src)
           /\ J!At(p) \in {"~", "?"} /\ J!At(p + 1) = "=" => p + 2 # Len(src)
<1>1. Len(src) \in Nat
  BY SourceFacts
<1>2. ASSUME J!At(p) = "#", p + 1 = Len(src) PROVE FALSE
  <2> DEFINE word == <<"#">>
  <2>1. Len(word) = 1 /\ \A i \in 1..Len(word) : i = 1 /\ word[i] = "#"
    OBVIOUS
  <2>2. src[Len(src)] = "#"
    <3>1. p < Len(src)
      BY <1>2
    <3> QED
      BY <1>1, <1>2, <3>1 DEF J!At
  <2>3. Len(src) - 1 + 1 = Len(src) /\ 1 <= Len(src)
    BY <1>1, <1>2
  <2>4. word \in Unfinished
    BY DEF Unfinished
  <2> HIDE DEF word
  <2>5. EndsIn(src, word)
    BY <2>1, <2>2, <2>3 DEF EndsIn
  <2> QED
    BY <2>4, <2>5 DEF Complete
<1>3. ASSUME NEW c \in {"~", "?"}, J!At(p) = c, J!At(p + 1) = "=", p + 2 = Len(src) PROVE FALSE
  <2> DEFINE word == <<c, "=">>
  <2>1. Len(word) = 2 /\ word[1] = c /\ word[2] = "=" /\ \A i \in 1..2 : i = 1 \/ i = 2
    OBVIOUS
  <2>2. src[p + 1] = c /\ src[p + 1 + 1] = "="
    <3>1. p < Len(src) /\ p + 1 < Len(src)
      BY <1>3
    <3> QED
      BY <1>1, <1>3, <3>1 DEF J!At
  <2>3. Len(src) - 2 + 1 = p + 1 /\ Len(src) - 2 + 2 = p + 1 + 1 /\ 2 <= Len(src)
    BY <1>1, <1>3
  <2>4. word \in Unfinished
    BY DEF Unfinished
  <2> HIDE DEF word
  <2>5. src[Len(src) - Len(word) + 1] = word[1] /\ src[Len(src) - Len(word) + 2] = word[2]
    BY <2>1, <2>2, <2>3
  <2>6. \A i \in 1..Len(word) : src[Len(src) - Len(word) + i] = word[i]
    BY <2>1, <2>5
  <2>7. Len(word) <= Len(src)
    BY <2>1, <2>3
  <2>8. EndsIn(src, word)
    BY <2>6, <2>7 DEF EndsIn
  <2> QED
    BY <2>4, <2>8 DEF Complete
<1> QED
  BY <1>2, <1>3

LEMMA JSUnexpected == ASSUME Scripting, Complete(src), J!Unexpected PROVE Promise!Next /\ InSource'
<1> DEFINE h == J!Here
<1>1. Fits(src) /\ Inside(h) /\ h \in Nat /\ Len(src) \in Nat
  BY JSHere, SourceFacts DEF Scripting, Inside
<1>2. CASE J!At(h) = "#" /\ J!Gives("Error", h + 2)
  <2>1. Inside(h + 1) /\ h + 1 # Len(src)
    BY <1>1, <1>2, JSChar, JSNotLast
  <2> HIDE DEF h
  <2>2. From(h, h + 2) /\ h < h + 2
    BY <1>1, <2>1 DEF From, Inside
  <2> QED
    BY <1>2, <2>2, JSGives DEF h
<1>3. CASE J!IsOperator(h) /\ J!OperatorToken(h)[1] = "none" /\ J!Gives("Error", J!OperatorToken(h)[2] + 1)
  <2> DEFINE op == J!OperatorToken(h)
  <2>1. J!At(h) \in J!Operators
    BY <1>3 DEF J!IsOperator
  <2>2. PICK q : /\ From(h, q) /\ h < q
                 /\ \/ op = <<"Operator", q>>
                    \/ op = <<"none", q>> /\ q = h + 2 /\ J!At(h) \in {"~", "?"} /\ J!At(h + 1) = "="
    BY <1>1, <2>1, JSOperatorToken
  <2>3. op[1] = "none" /\ J!Gives("Error", op[2] + 1)
    BY <1>3
  <2> HIDE DEF op, h
  <2>4. op[2] = h + 2 /\ q = h + 2 /\ J!At(h) \in {"~", "?"} /\ J!At(h + 1) = "="
    BY <2>2, <2>3
  <2>5. h + 2 # Len(src) /\ h + 2 <= Len(src)
    BY <1>1, <2>2, <2>4, JSNotLast DEF From, Inside
  <2> DEFINE r == op[2] + 1
  <2>6. r = h + 2 + 1
    BY <2>4
  <2>7. From(h, r) /\ h < r
    BY <1>1, <2>5, <2>6 DEF From, Inside
  <2>8. J!Gives("Error", r)
    BY <2>3
  <2> HIDE DEF r
  <2> QED
    BY <2>7, <2>8, JSGives DEF h
<1>4. CASE /\ IF J!At(h) = J!NUL THEN ~J!Ended(h) ELSE J!At(h) = "\\"
           /\ J!Gives("Error", h + 1)
  <2>1. Inside(h + 1)
    <3>1. CASE J!At(h) = J!NUL
      <4>1. ~Ended(h)
        BY <1>4, <3>1, JSInput
      <4>2. h # Len(src)
        BY <1>1, <4>1, AtFacts
      <4> QED
        BY <1>1, <4>2 DEF Inside
    <3>2. CASE J!At(h) # J!NUL
      BY <1>1, <1>4, <3>2, JSChar
    <3> QED
      BY <3>1, <3>2
  <2>2. From(h + 1, h + 1)
    BY <2>1, FromItself
  <2> QED
    BY <1>4, <2>1, <2>2, JSGivesAnswer
<1> QED
  BY <1>2, <1>3, <1>4 DEF J!Unexpected

LEMMA JSRegExp == ASSUME Scripting, J!RegExp PROVE Promise!Next /\ InSource'
<1> DEFINE lo == tok.lo
           regexp == J!InRegExp[<<lo + 1, FALSE>>]
<1>1. tok # NoToken /\ J!At(lo) = "/"
  BY JSInput DEF J!RegExp, J!IsDivision
<1>2. Fits(src) /\ lo \in Nat
  BY <1>1 DEF Scripting, InSource, TokenFits
<1>3. Inside(lo + 1)
  <2> HIDE DEF lo
  <2> QED
    BY <1>1, <1>2, JSChar
<1>4. Answered(lo + 1, regexp)
  BY <1>2, <1>3, JSInRegExp
<1>5. \/ Answers("RegExp", lo, regexp[2], [whole |-> TRUE]) /\ ahead' = 0
      \/ tok' = NoToken /\ pos' = lo /\ ahead' = regexp[2] - lo /\ UNCHANGED <<src, ended>>
  <2>1. ahead = 0
    BY DEF J!RegExp
  <2> QED
    BY <2>1, JSInput, Zenon DEF J!RegExp
<1> HIDE DEF regexp
<1>6. PICK type, q : From(lo + 1, q) /\ regexp = <<type, q>>
  BY <1>4 DEF Answered
<1>7. regexp[2] = q
  BY <1>6
<1> HIDE DEF lo
<1>8. q \in Nat /\ q <= Len(src) /\ lo < q
  BY <1>2, <1>6 DEF From, Inside
<1>9. \/ Answers("RegExp", lo, q, [whole |-> TRUE]) /\ ahead' = 0
      \/ tok' = NoToken /\ pos' = lo /\ ahead' = q - lo /\ UNCHANGED <<src, ended>>
  BY <1>5, <1>7
<1> QED
  BY <1>1, <1>8, <1>9, AgainStep DEF Scripting, lo

LEMMA JSStep ==
    ASSUME InSource, lang = "js", lang' = lang, Complete(src), J!Calls
    PROVE  Promise!Next /\ InSource'
<1>1. ~ended
  BY DEF J!Calls, J!NextToken, J!EndOfFile, J!Whitespace, J!LineTerminator, J!Punctuator, J!OpenParenOrBrace,
         J!CloseParenOrBrace, J!TemplateToken, J!Number, J!String, J!BlockComment, J!LineComment, J!Operator,
         J!PrivateIdentifier, J!Ident, J!Unexpected, J!RegExp, J!Gives, J!Reports
<1>2. Scripting
  BY <1>1 DEF Scripting
<1> QED
  BY <1>2, JSEndOfFile, JSWhitespace, JSLineTerminator, JSPunctuator, JSOpenParenOrBrace, JSCloseParenOrBrace,
     JSTemplateToken, JSNumber, JSString, JSBlockComment, JSLineComment, JSOperator, JSPrivateIdentifier, JSIdent,
     JSUnexpected, JSRegExp, Zenon DEF J!Calls, J!NextToken
--------------------------------------------------------------------------------
(* html/lex.go                                                              *)

\* The symbols of templates are those of text.
TemplatesFit == \E symbols : "panic" \notin symbols /\ NUL \notin symbols
                             /\ tmpl.open \in Seq(symbols) /\ tmpl.close \in Seq(symbols)

LEMMA HTMLTemplates ==
    ASSUME TemplatesFit
    PROVE  /\ Len(tmpl.open) \in Nat /\ Len(tmpl.close) \in Nat
           /\ tmpl.open # <<>> => IsWord(tmpl.open, Len(tmpl.open))
           /\ tmpl.close # <<>> => IsWord(tmpl.close, Len(tmpl.close))
<1>1. PICK symbols : "panic" \notin symbols /\ NUL \notin symbols
                     /\ tmpl.open \in Seq(symbols) /\ tmpl.close \in Seq(symbols)
  BY DEF TemplatesFit
<1>2. ASSUME NEW word \in Seq(symbols)
      PROVE  Len(word) \in Nat /\ (word # <<>> => IsWord(word, Len(word)))
  <2>1. Len(word) \in Nat /\ (word # <<>> => Len(word) > 0) /\ \A i \in 1..Len(word) : word[i] \in symbols
    OBVIOUS
  <2>2. Len(word) > 0 => Len(word) \in 1..Len(word)
    BY <2>1
  <2> QED
    BY <1>1, <2>1, <2>2 DEF IsWord
<1> QED
  BY <1>1, <1>2

\* A character that is found is before the end.
LEMMA HTMLChar ==
    ASSUME Fits(src), NEW p \in Nat, At(p) \notin {"nul", "panic"}
    PROVE  Inside(p) /\ Inside(p + 1)
<1>1. p + 1 <= Len(src) /\ Len(src) \in Nat
  BY CharFits, SourceFacts DEF NUL
<1> QED
  BY <1>1 DEF Inside

LEMMA HTMLBeyond ==
    ASSUME Fits(src)
    PROVE  Len(src) \in Nat /\ At(Len(src)) = "nul" /\ At(Len(src) + 1) = "panic"
<1>1. Len(src) \in Nat /\ Len(src) + 1 > Len(src)
  BY SourceFacts
<1>2. At(Len(src)) = NUL
  BY <1>1, AtFacts
<1>3. At(Len(src) + 1) = "panic"
  BY <1>1, AtFacts
<1> QED
  BY <1>1, <1>2, <1>3 DEF NUL

LEMMA HTMLOver ==
    ASSUME Fits(src), NEW p \in Nat, ~Over(p)
    PROVE  Inside(p) /\ Inside(p + 1)
<1>1. ~(p > Len(src)) /\ ~Ended(p)
  BY DEF Over
<1>2. Len(src) \in Nat /\ p # Len(src)
  BY <1>1, AtFacts
<1> QED
  BY <1>1, <1>2 DEF Inside

LEMMA HTMLAfterWord ==
    ASSUME Fits(src), NEW p, Inside(p), NEW word, NEW k, IsWord(word, k), AtAll(p, word)
    PROVE  Inside(p + k) /\ From(p, p + k) /\ p < p + k
<1>1. p \in Nat /\ k \in Nat /\ k > 0
  BY DEF Inside, IsWord
<1>2. p + k <= Len(src)
  BY <1>1, WordFits
<1>3. p + k \in Nat /\ p <= p + k /\ p < p + k
  BY <1>1
<1> QED
  BY <1>2, <1>3 DEF From, Inside

\* Beyond the source there is no template.
LEMMA HTMLAtTemplate ==
    ASSUME Fits(src), TemplatesFit, NEW p \in Nat, AtTemplate(p)
    PROVE  Inside(p) /\ From(p, p + Len(tmpl.open)) /\ p < p + Len(tmpl.open)
<1> DEFINE k == Len(tmpl.open)
<1>1. IsWord(tmpl.open, k) /\ AtAll(p, tmpl.open)
  BY HTMLTemplates DEF AtTemplate
<1>2. p + k <= Len(src) /\ k \in Nat /\ k > 0 /\ Len(src) \in Nat
  <2>1. k \in Nat /\ k > 0
    BY <1>1 DEF IsWord
  <2> HIDE DEF k
  <2> QED
    BY <1>1, <2>1, WordFits, SourceFacts
<1> HIDE DEF k
<1>3. p <= Len(src) /\ p + k \in Nat /\ p <= p + k /\ p < p + k
  BY <1>2
<1> QED
  BY <1>2, <1>3 DEF From, Inside, k

\* HTML's runs of characters of a class stay in the source.
LEMMA HTMLPast ==
    ASSUME Fits(src),
           NEW p \in Nat, p <= Len(src),
           NEW class,
           NUL \notin class
    PROVE  LET e == Past(p, class)
           IN  /\ e \in Nat /\ p <= e /\ e <= Len(src)
               /\ At(e) \notin class
               /\ \A r \in p..(e - 1) : ~(At(r) \notin class)
<1> DEFINE S == {q \in Nat : At(q) \notin class}
           n == Len(src)
           e == Past(p, class)
<1>1. n \in Nat /\ p \in Nat /\ p <= n
  BY AtFacts
<1>2. n \in S
  BY <1>1, AtFacts, SourceFacts
<1>3. \A q \in p..(n + 1) : q \in Nat
  BY <1>1
<1>4. \A q : IsFirst(q, p, n, S)
         <=> q \in p..(n + 1) /\ (q > n \/ At(q) \notin class)
               /\ \A r \in p..(q - 1) : ~(At(r) \notin class)
  <2>1. \A q \in p..(n + 1) : \A r \in p..(q - 1) : r \in Nat
    BY <1>1
  <2>2. \A q \in Nat : q \in S <=> At(q) \notin class
    OBVIOUS
  <2> HIDE DEF S, n
  <2> QED
    BY <1>3, <2>1, <2>2, Zenon DEF IsFirst
<1>5. PICK q : IsFirst(q, p, n, S)
  <2> HIDE DEF S, n
  <2> QED
    BY <1>1, <1>2, FirstInside
<1>6. IsFirst(e, p, n, S)
  BY <1>4, <1>5, Zenon DEF Past, Scan
<1> HIDE DEF e, S, n
<1>7. e \in Nat /\ p <= e /\ e <= n /\ e \in S
  BY <1>1, <1>2, <1>6, FirstInside
<1>8. At(e) \notin class /\ \A r \in p..(e - 1) : ~(At(r) \notin class)
  BY <1>4, <1>6, <1>7, Zenon DEF S
<1> QED
  BY <1>7, <1>8, Zenon DEF e, n

LEMMA HTMLOfChars == OfChars(WS) /\ OfChars(Quotes) /\ OfChars(Letters)
  BY DEF OfChars, WS, Quotes, Letters, RawTags, ForeignTags

LEMMA HTMLPastFrom ==
    ASSUME Fits(src), NEW p, Inside(p), NEW class, OfChars(class)
    PROVE  From(p, Past(p, class)) /\ At(Past(p, class)) \notin class
<1>1. NUL \notin class /\ p \in Nat /\ p <= Len(src)
  BY DEF OfChars, NUL, Inside
<1> QED
  BY <1>1, HTMLPast, Zenon DEF From, Inside

HTMLQuoteScan(from, p) == Scan(p, LAMBDA q : Ended(q) \/ (At(q) = At(from) /\ ~Escape(from, q)))

\* The loops of html/lex.go that look at one offset after the other stop in the
\* source.
LEMMA HTMLQuoteStops ==
    ASSUME Fits(src),
           NEW p \in Nat, p <= Len(src),
           NEW from
    PROVE  LET e == HTMLQuoteScan(from, p)
           IN  /\ e \in Nat /\ p <= e /\ e <= Len(src)
               /\ (Ended(e) \/ (At(e) = At(from) /\ ~Escape(from, e)))
               /\ \A r \in p..(e - 1) : ~((Ended(r) \/ (At(r) = At(from) /\ ~Escape(from, r))))
<1> DEFINE S == {q \in Nat : (Ended(q) \/ (At(q) = At(from) /\ ~Escape(from, q)))}
           n == Len(src)
           e == HTMLQuoteScan(from, p)
<1>1. n \in Nat /\ p \in Nat /\ p <= n
  BY AtFacts
<1>2. n \in S
  BY <1>1, AtFacts, SourceFacts
<1>3. \A q \in p..(n + 1) : q \in Nat
  BY <1>1
<1>4. \A q : IsFirst(q, p, n, S)
         <=> q \in p..(n + 1)
               /\ (q > n \/ (Ended(q) \/ (At(q) = At(from) /\ ~Escape(from, q))))
               /\ \A r \in p..(q - 1) : ~((Ended(r)
               \/ (At(r) = At(from) /\ ~Escape(from, r))))
  <2>1. \A q \in p..(n + 1) : \A r \in p..(q - 1) : r \in Nat
    BY <1>1
  <2>2. \A q \in Nat : q \in S <=> (Ended(q) \/ (At(q) = At(from) /\ ~Escape(from, q)))
    OBVIOUS
  <2> HIDE DEF S, n
  <2> QED
    BY <1>3, <2>1, <2>2, Zenon DEF IsFirst
<1>5. PICK q : IsFirst(q, p, n, S)
  <2> HIDE DEF S, n
  <2> QED
    BY <1>1, <1>2, FirstInside
<1>6. IsFirst(e, p, n, S)
  BY <1>4, <1>5, Zenon DEF HTMLQuoteScan, Scan
<1> HIDE DEF e, S, n
<1>7. e \in Nat /\ p <= e /\ e <= n /\ e \in S
  BY <1>1, <1>2, <1>6, FirstInside
<1>8. (Ended(e) \/ (At(e) = At(from) /\ ~Escape(from, e)))
        /\ \A r \in p..(e - 1) : ~((Ended(r) \/ (At(r) = At(from) /\ ~Escape(from, r))))
  BY <1>4, <1>6, <1>7, Zenon DEF S
<1> QED
  BY <1>7, <1>8, Zenon DEF e, n

LEMMA HTMLUnquotedStops ==
    ASSUME Fits(src),
           NEW p \in Nat, p <= Len(src)
    PROVE  LET e == Unquoted(p)
           IN  /\ e \in Nat /\ p <= e /\ e <= Len(src)
               /\ (At(e) \in WS \cup {">"} \/ Ended(e))
               /\ \A r \in p..(e - 1) : ~((At(r) \in WS \cup {">"} \/ Ended(r)))
<1> DEFINE S == {q \in Nat : (At(q) \in WS \cup {">"} \/ Ended(q))}
           n == Len(src)
           e == Unquoted(p)
<1>1. n \in Nat /\ p \in Nat /\ p <= n
  BY AtFacts
<1>2. n \in S
  BY <1>1, AtFacts, SourceFacts
<1>3. \A q \in p..(n + 1) : q \in Nat
  BY <1>1
<1>4. \A q : IsFirst(q, p, n, S)
         <=> q \in p..(n + 1) /\ (q > n \/ (At(q) \in WS \cup {">"} \/ Ended(q)))
               /\ \A r \in p..(q - 1) : ~((At(r) \in WS \cup {">"} \/ Ended(r)))
  <2>1. \A q \in p..(n + 1) : \A r \in p..(q - 1) : r \in Nat
    BY <1>1
  <2>2. \A q \in Nat : q \in S <=> (At(q) \in WS \cup {">"} \/ Ended(q))
    OBVIOUS
  <2> HIDE DEF S, n
  <2> QED
    BY <1>3, <2>1, <2>2, Zenon DEF IsFirst
<1>5. PICK q : IsFirst(q, p, n, S)
  <2> HIDE DEF S, n
  <2> QED
    BY <1>1, <1>2, FirstInside
<1>6. IsFirst(e, p, n, S)
  BY <1>4, <1>5, Zenon DEF Unquoted, Scan
<1> HIDE DEF e, S, n
<1>7. e \in Nat /\ p <= e /\ e <= n /\ e \in S
  BY <1>1, <1>2, <1>6, FirstInside
<1>8. (At(e) \in WS \cup {">"} \/ Ended(e))
        /\ \A r \in p..(e - 1) : ~((At(r) \in WS \cup {">"} \/ Ended(r)))
  BY <1>4, <1>6, <1>7, Zenon DEF S
<1> QED
  BY <1>7, <1>8, Zenon DEF e, n

HTMLTextScan(p) == Scan(p, LAMBDA q : AtTemplate(q) \/ IsMarkup(q) \/ Ended(q))

LEMMA HTMLTextStops ==
    ASSUME Fits(src),
           NEW p \in Nat, p <= Len(src)
    PROVE  LET e == HTMLTextScan(p)
           IN  /\ e \in Nat /\ p <= e /\ e <= Len(src)
               /\ (AtTemplate(e) \/ IsMarkup(e) \/ Ended(e))
               /\ \A r \in p..(e - 1) : ~((AtTemplate(r) \/ IsMarkup(r) \/ Ended(r)))
<1> DEFINE S == {q \in Nat : (AtTemplate(q) \/ IsMarkup(q) \/ Ended(q))}
           n == Len(src)
           e == HTMLTextScan(p)
<1>1. n \in Nat /\ p \in Nat /\ p <= n
  BY AtFacts
<1>2. n \in S
  BY <1>1, AtFacts, SourceFacts
<1>3. \A q \in p..(n + 1) : q \in Nat
  BY <1>1
<1>4. \A q : IsFirst(q, p, n, S)
         <=> q \in p..(n + 1) /\ (q > n \/ (AtTemplate(q) \/ IsMarkup(q) \/ Ended(q)))
               /\ \A r \in p..(q - 1) : ~((AtTemplate(r) \/ IsMarkup(r) \/ Ended(r)))
  <2>1. \A q \in p..(n + 1) : \A r \in p..(q - 1) : r \in Nat
    BY <1>1
  <2>2. \A q \in Nat : q \in S <=> (AtTemplate(q) \/ IsMarkup(q) \/ Ended(q))
    OBVIOUS
  <2> HIDE DEF S, n
  <2> QED
    BY <1>3, <2>1, <2>2, Zenon DEF IsFirst
<1>5. PICK q : IsFirst(q, p, n, S)
  <2> HIDE DEF S, n
  <2> QED
    BY <1>1, <1>2, FirstInside
<1>6. IsFirst(e, p, n, S)
  BY <1>4, <1>5, Zenon DEF HTMLTextScan, Scan
<1> HIDE DEF e, S, n
<1>7. e \in Nat /\ p <= e /\ e <= n /\ e \in S
  BY <1>1, <1>2, <1>6, FirstInside
<1>8. (AtTemplate(e) \/ IsMarkup(e) \/ Ended(e))
        /\ \A r \in p..(e - 1) : ~((AtTemplate(r) \/ IsMarkup(r) \/ Ended(r)))
  BY <1>4, <1>6, <1>7, Zenon DEF S
<1> QED
  BY <1>7, <1>8, Zenon DEF e, n

HTMLGTScan(p) == Scan(p, LAMBDA q : At(q) = ">" \/ Ended(q))

LEMMA HTMLGTStops ==
    ASSUME Fits(src),
           NEW p \in Nat, p <= Len(src)
    PROVE  LET e == HTMLGTScan(p)
           IN  /\ e \in Nat /\ p <= e /\ e <= Len(src)
               /\ (At(e) = ">" \/ Ended(e))
               /\ \A r \in p..(e - 1) : ~((At(r) = ">" \/ Ended(r)))
<1> DEFINE S == {q \in Nat : (At(q) = ">" \/ Ended(q))}
           n == Len(src)
           e == HTMLGTScan(p)
<1>1. n \in Nat /\ p \in Nat /\ p <= n
  BY AtFacts
<1>2. n \in S
  BY <1>1, AtFacts, SourceFacts
<1>3. \A q \in p..(n + 1) : q \in Nat
  BY <1>1
<1>4. \A q : IsFirst(q, p, n, S)
         <=> q \in p..(n + 1) /\ (q > n \/ (At(q) = ">" \/ Ended(q)))
               /\ \A r \in p..(q - 1) : ~((At(r) = ">" \/ Ended(r)))
  <2>1. \A q \in p..(n + 1) : \A r \in p..(q - 1) : r \in Nat
    BY <1>1
  <2>2. \A q \in Nat : q \in S <=> (At(q) = ">" \/ Ended(q))
    OBVIOUS
  <2> HIDE DEF S, n
  <2> QED
    BY <1>3, <2>1, <2>2, Zenon DEF IsFirst
<1>5. PICK q : IsFirst(q, p, n, S)
  <2> HIDE DEF S, n
  <2> QED
    BY <1>1, <1>2, FirstInside
<1>6. IsFirst(e, p, n, S)
  BY <1>4, <1>5, Zenon DEF HTMLGTScan, Scan
<1> HIDE DEF e, S, n
<1>7. e \in Nat /\ p <= e /\ e <= n /\ e \in S
  BY <1>1, <1>2, <1>6, FirstInside
<1>8. (At(e) = ">" \/ Ended(e)) /\ \A r \in p..(e - 1) : ~((At(r) = ">" \/ Ended(r)))
  BY <1>4, <1>6, <1>7, Zenon DEF S
<1> QED
  BY <1>7, <1>8, Zenon DEF e, n

HTMLWordScan(p, words) == Scan(p, LAMBDA q : Ended(q) \/ \E w \in words : AtAll(q, w))

LEMMA HTMLWordStops ==
    ASSUME Fits(src),
           NEW p \in Nat, p <= Len(src),
           NEW words
    PROVE  LET e == HTMLWordScan(p, words)
           IN  /\ e \in Nat /\ p <= e /\ e <= Len(src)
               /\ (Ended(e) \/ \E w \in words : AtAll(e, w))
               /\ \A r \in p..(e - 1) : ~((Ended(r) \/ \E w \in words : AtAll(r, w)))
<1> DEFINE S == {q \in Nat : (Ended(q) \/ \E w \in words : AtAll(q, w))}
           n == Len(src)
           e == HTMLWordScan(p, words)
<1>1. n \in Nat /\ p \in Nat /\ p <= n
  BY AtFacts
<1>2. n \in S
  BY <1>1, AtFacts, SourceFacts
<1>3. \A q \in p..(n + 1) : q \in Nat
  BY <1>1
<1>4. \A q : IsFirst(q, p, n, S)
         <=> q \in p..(n + 1) /\ (q > n \/ (Ended(q) \/ \E w \in words : AtAll(q, w)))
               /\ \A r \in p..(q - 1) : ~((Ended(r) \/ \E w \in words : AtAll(r, w)))
  <2>1. \A q \in p..(n + 1) : \A r \in p..(q - 1) : r \in Nat
    BY <1>1
  <2>2. \A q \in Nat : q \in S <=> (Ended(q) \/ \E w \in words : AtAll(q, w))
    OBVIOUS
  <2> HIDE DEF S, n
  <2> QED
    BY <1>3, <2>1, <2>2, Zenon DEF IsFirst
<1>5. PICK q : IsFirst(q, p, n, S)
  <2> HIDE DEF S, n
  <2> QED
    BY <1>1, <1>2, FirstInside
<1>6. IsFirst(e, p, n, S)
  BY <1>4, <1>5, Zenon DEF HTMLWordScan, Scan
<1> HIDE DEF e, S, n
<1>7. e \in Nat /\ p <= e /\ e <= n /\ e \in S
  BY <1>1, <1>2, <1>6, FirstInside
<1>8. (Ended(e) \/ \E w \in words : AtAll(e, w))
        /\ \A r \in p..(e - 1) : ~((Ended(r) \/ \E w \in words : AtAll(r, w)))
  BY <1>4, <1>6, <1>7, Zenon DEF S
<1> QED
  BY <1>7, <1>8, Zenon DEF e, n

HTMLNameScan(p) == Scan(p, LAMBDA q : At(q) \in WS \/ TagIsClosing(q) \/ Ended(q) \/ AtTemplate(q))

LEMMA HTMLNameStops ==
    ASSUME Fits(src),
           NEW p \in Nat, p <= Len(src)
    PROVE  LET e == HTMLNameScan(p)
           IN  /\ e \in Nat /\ p <= e /\ e <= Len(src)
               /\ (At(e) \in WS \/ TagIsClosing(e) \/ Ended(e) \/ AtTemplate(e))
               /\ \A r \in p..(e - 1) : ~((At(r) \in WS \/ TagIsClosing(r) \/ Ended(r) \/ AtTemplate(r)))
<1> DEFINE S == {q \in Nat : (At(q) \in WS \/ TagIsClosing(q) \/ Ended(q) \/ AtTemplate(q))}
           n == Len(src)
           e == HTMLNameScan(p)
<1>1. n \in Nat /\ p \in Nat /\ p <= n
  BY AtFacts
<1>2. n \in S
  BY <1>1, AtFacts, SourceFacts
<1>3. \A q \in p..(n + 1) : q \in Nat
  BY <1>1
<1>4. \A q : IsFirst(q, p, n, S)
         <=> q \in p..(n + 1)
               /\ (q > n \/ (At(q) \in WS \/ TagIsClosing(q) \/ Ended(q) \/ AtTemplate(q)))
               /\ \A r \in p..(q - 1) : ~((At(r) \in WS \/ TagIsClosing(r) \/ Ended(r)
               \/ AtTemplate(r)))
  <2>1. \A q \in p..(n + 1) : \A r \in p..(q - 1) : r \in Nat
    BY <1>1
  <2>2. \A q \in Nat : q \in S <=> (At(q) \in WS \/ TagIsClosing(q) \/ Ended(q) \/ AtTemplate(q))
    OBVIOUS
  <2> HIDE DEF S, n
  <2> QED
    BY <1>3, <2>1, <2>2, Zenon DEF IsFirst
<1>5. PICK q : IsFirst(q, p, n, S)
  <2> HIDE DEF S, n
  <2> QED
    BY <1>1, <1>2, FirstInside
<1>6. IsFirst(e, p, n, S)
  BY <1>4, <1>5, Zenon DEF HTMLNameScan, Scan
<1> HIDE DEF e, S, n
<1>7. e \in Nat /\ p <= e /\ e <= n /\ e \in S
  BY <1>1, <1>2, <1>6, FirstInside
<1>8. (At(e) \in WS \/ TagIsClosing(e) \/ Ended(e) \/ AtTemplate(e))
        /\ \A r \in p..(e - 1) : ~((At(r) \in WS \/ TagIsClosing(r) \/ Ended(r)
        \/ AtTemplate(r)))
  BY <1>4, <1>6, <1>7, Zenon DEF S
<1> QED
  BY <1>7, <1>8, Zenon DEF e, n

HTMLForeignScan(p) == Scan(p, LAMBDA q : At(q) \in {">", NUL})

LEMMA HTMLForeignStops ==
    ASSUME Fits(src),
           NEW p \in Nat, p <= Len(src)
    PROVE  LET e == HTMLForeignScan(p)
           IN  /\ e \in Nat /\ p <= e /\ e <= Len(src)
               /\ At(e) \in {">", NUL}
               /\ \A r \in p..(e - 1) : ~(At(r) \in {">", NUL})
<1> DEFINE S == {q \in Nat : At(q) \in {">", NUL}}
           n == Len(src)
           e == HTMLForeignScan(p)
<1>1. n \in Nat /\ p \in Nat /\ p <= n
  BY AtFacts
<1>2. n \in S
  BY <1>1, AtFacts, SourceFacts
<1>3. \A q \in p..(n + 1) : q \in Nat
  BY <1>1
<1>4. \A q : IsFirst(q, p, n, S)
         <=> q \in p..(n + 1) /\ (q > n \/ At(q) \in {">", NUL})
               /\ \A r \in p..(q - 1) : ~(At(r) \in {">", NUL})
  <2>1. \A q \in p..(n + 1) : \A r \in p..(q - 1) : r \in Nat
    BY <1>1
  <2>2. \A q \in Nat : q \in S <=> At(q) \in {">", NUL}
    OBVIOUS
  <2> HIDE DEF S, n
  <2> QED
    BY <1>3, <2>1, <2>2, Zenon DEF IsFirst
<1>5. PICK q : IsFirst(q, p, n, S)
  <2> HIDE DEF S, n
  <2> QED
    BY <1>1, <1>2, FirstInside
<1>6. IsFirst(e, p, n, S)
  BY <1>4, <1>5, Zenon DEF HTMLForeignScan, Scan
<1> HIDE DEF e, S, n
<1>7. e \in Nat /\ p <= e /\ e <= n /\ e \in S
  BY <1>1, <1>2, <1>6, FirstInside
<1>8. At(e) \in {">", NUL} /\ \A r \in p..(e - 1) : ~(At(r) \in {">", NUL})
  BY <1>4, <1>6, <1>7, Zenon DEF S
<1> QED
  BY <1>7, <1>8, Zenon DEF e, n

HTMLEndScan(p) == Scan(p, Ended)

LEMMA HTMLEndStops ==
    ASSUME Fits(src),
           NEW p \in Nat, p <= Len(src)
    PROVE  LET e == HTMLEndScan(p)
           IN  /\ e \in Nat /\ p <= e /\ e <= Len(src)
               /\ Ended(e)
               /\ \A r \in p..(e - 1) : ~(Ended(r))
<1> DEFINE S == {q \in Nat : Ended(q)}
           n == Len(src)
           e == HTMLEndScan(p)
<1>1. n \in Nat /\ p \in Nat /\ p <= n
  BY AtFacts
<1>2. n \in S
  BY <1>1, AtFacts, SourceFacts
<1>3. \A q \in p..(n + 1) : q \in Nat
  BY <1>1
<1>4. \A q : IsFirst(q, p, n, S)
         <=> q \in p..(n + 1) /\ (q > n \/ Ended(q)) /\ \A r \in p..(q - 1) : ~(Ended(r))
  <2>1. \A q \in p..(n + 1) : \A r \in p..(q - 1) : r \in Nat
    BY <1>1
  <2>2. \A q \in Nat : q \in S <=> Ended(q)
    OBVIOUS
  <2> HIDE DEF S, n
  <2> QED
    BY <1>3, <2>1, <2>2, Zenon DEF IsFirst
<1>5. PICK q : IsFirst(q, p, n, S)
  <2> HIDE DEF S, n
  <2> QED
    BY <1>1, <1>2, FirstInside
<1>6. IsFirst(e, p, n, S)
  BY <1>4, <1>5, Zenon DEF HTMLEndScan, Scan
<1> HIDE DEF e, S, n
<1>7. e \in Nat /\ p <= e /\ e <= n /\ e \in S
  BY <1>1, <1>2, <1>6, FirstInside
<1>8. Ended(e) /\ \A r \in p..(e - 1) : ~(Ended(r))
  BY <1>4, <1>6, <1>7, Zenon DEF S
<1> QED
  BY <1>7, <1>8, Zenon DEF e, n

\* A quoted string of a template ends at its quote or at the end.
LEMMA HTMLQuoteEnd ==
    ASSUME Fits(src), NEW p, Inside(p + 1), p \in Nat
    PROVE  /\ From(p + 1, QuoteEnd(p))
           /\ ~Ended(QuoteEnd(p)) => Inside(QuoteEnd(p) + 1)
<1> DEFINE q == QuoteEnd(p)
<1>1. q = HTMLQuoteScan(p, p + 1)
  BY Zenon DEF QuoteEnd, HTMLQuoteScan
<1>2. p + 1 \in Nat /\ p + 1 <= Len(src)
  BY DEF Inside
<1>3. q \in Nat /\ p + 1 <= q /\ q <= Len(src)
  <2> HIDE DEF q
  <2> QED
    BY <1>1, <1>2, HTMLQuoteStops
<1> HIDE DEF q
<1>4. ~Ended(q) => q # Len(src)
  BY <1>3, AtFacts
<1>5. Len(src) \in Nat
  BY SourceFacts
<1>6. ~Ended(q) => q + 1 <= Len(src)
  BY <1>3, <1>4, <1>5
<1> QED
  BY <1>3, <1>6 DEF From, Inside, q

\* So do those that step over quotes or templates.
LEMMA HTMLTemplateEndStops ==
    ASSUME Fits(src),
           NEW p0, Inside(p0)
    PROVE  \E e : From(p0, e)
           /\ (Over(e) \/ AtAll(e, tmpl.close) \/ (At(e) \in Quotes /\ Ended(QuoteEnd(e))))
           /\ TemplateEnd[p0] = IF Over(e) THEN e
           ELSE IF AtAll(e, tmpl.close) THEN e + Len(tmpl.close) ELSE QuoteEnd(e)
<1> DEFINE n == Len(src)
           D == 0..(n + 1)
           stop == {p \in D : Over(p) \/ AtAll(p, tmpl.close) \/ (At(p) \in Quotes /\ Ended(QuoteEnd(p)))}
           res == [p \in D |-> IF Over(p) THEN p
               ELSE IF AtAll(p, tmpl.close) THEN p + Len(tmpl.close) ELSE QuoteEnd(p)]
           nxt == [p \in D |-> IF At(p) \in Quotes THEN QuoteEnd(p) + 1 ELSE p + 1]
           Is(f) == f = [p \in Offsets |-> IF Over(p) THEN p
            ELSE IF AtAll(p, tmpl.close) THEN p + Len(tmpl.close)
            ELSE IF At(p) \in Quotes THEN (IF Ended(QuoteEnd(p)) THEN QuoteEnd(p) ELSE f[QuoteEnd(p) + 1])
            ELSE f[p + 1]]
           g == CHOOSE f : Is(f)
<1>1. n \in Nat /\ Offsets = D
  BY SourceFacts DEF Offsets
<1>2. ASSUME NEW p \in D, p \notin stop
      PROVE  nxt[p] \in (p + 1)..(n + 1) /\ (p <= n => nxt[p] <= n)
  <2>1. p \in Nat /\ ~(Over(p) \/ AtAll(p, tmpl.close)
          \/ (At(p) \in Quotes /\ Ended(QuoteEnd(p))))
          /\ nxt[p] = (IF At(p) \in Quotes THEN QuoteEnd(p) + 1 ELSE p + 1)
    <3>1. p \in Nat /\ nxt[p] = (IF At(p) \in Quotes THEN QuoteEnd(p) + 1 ELSE p + 1)
      BY <1>1
    <3>2. ~(Over(p) \/ AtAll(p, tmpl.close) \/ (At(p) \in Quotes /\ Ended(QuoteEnd(p))))
      BY <1>2, Zenon
    <3> QED
      BY <3>1, <3>2
  <2> HIDE DEF stop, res, nxt, Is, g
  <2>2. Inside(p) /\ Inside(p + 1)
    BY <2>1, HTMLOver
  <2>3. CASE At(p) \in Quotes
    <3> DEFINE q == QuoteEnd(p)
    <3>1. From(p + 1, q) /\ Inside(q + 1)
      BY <2>1, <2>2, <2>3, HTMLQuoteEnd
    <3>2. nxt[p] = q + 1
      BY <2>1, <2>3
    <3> HIDE DEF q
    <3> QED
      BY <1>1, <2>1, <3>1, <3>2 DEF From, Inside
  <2>4. CASE At(p) \notin Quotes
    <3>1. nxt[p] = p + 1
      BY <2>1, <2>4
    <3> QED
      BY <1>1, <2>1, <2>2, <3>1 DEF Inside
  <2> QED
    BY <2>3, <2>4
<1>3. ASSUME NEW f PROVE Is(f) <=> Turns(D, stop, res, nxt, f)
  <2>1. ASSUME NEW p \in D
        PROVE  (IF Over(p) THEN p
            ELSE IF AtAll(p, tmpl.close) THEN p + Len(tmpl.close)
            ELSE IF At(p) \in Quotes THEN (IF Ended(QuoteEnd(p)) THEN QuoteEnd(p) ELSE f[QuoteEnd(p) + 1])
            ELSE f[p + 1]) = (IF p \in stop THEN res[p] ELSE f[nxt[p]])
    <3>1. p \in stop <=> (Over(p) \/ AtAll(p, tmpl.close) \/ (At(p) \in Quotes /\ Ended(QuoteEnd(p))))
      OBVIOUS
    <3>2. res[p] = (IF Over(p) THEN p ELSE IF AtAll(p, tmpl.close) THEN p + Len(tmpl.close)
            ELSE QuoteEnd(p)) /\ nxt[p] = (IF At(p) \in Quotes THEN QuoteEnd(p) + 1 ELSE p + 1)
      OBVIOUS
    <3> HIDE DEF stop, res, nxt
    <3> QED
      BY <3>1, <3>2, Zenon
  <2> HIDE DEF stop, res, nxt, D
  <2>2. [p \in D |-> IF Over(p) THEN p
            ELSE IF AtAll(p, tmpl.close) THEN p + Len(tmpl.close)
            ELSE IF At(p) \in Quotes THEN (IF Ended(QuoteEnd(p)) THEN QuoteEnd(p) ELSE f[QuoteEnd(p) + 1])
            ELSE f[p + 1]] = [p \in D |-> IF p \in stop THEN res[p] ELSE f[nxt[p]]]
    BY <2>1, Zenon
  <2> QED
    BY <1>1, <2>2, Zenon DEF Turns
<1> HIDE DEF Is, stop, res, nxt
<1>4. /\ \E f : Turns(0..(n + 1), stop, res, nxt, f)
      /\ \A f : Turns(0..(n + 1), stop, res, nxt, f) => Ends(n, stop, res, f)
  <2>1. Advances(n, stop, nxt)
    BY <1>2, Zenon DEF Advances
  <2> HIDE DEF n
  <2> QED
    BY <1>1, <2>1, OffsetLoop, Zenon
<1>5. Ends(n, stop, res, g)
  <2>1. Is(g)
    BY <1>3, <1>4, Zenon
  <2> QED
    BY <1>3, <1>4, <2>1, Zenon
<1>6. p0 \in 0..n
  BY DEF Inside
<1>7. PICK e \in p0..n : e \in stop /\ g[p0] = res[e]
  <2> HIDE DEF n, g
  <2> QED
    BY <1>5, <1>6, Zenon DEF Ends
<1>8. (Over(e) \/ AtAll(e, tmpl.close) \/ (At(e) \in Quotes /\ Ended(QuoteEnd(e))))
        /\ res[e] = IF Over(e) THEN e ELSE IF AtAll(e, tmpl.close) THEN e + Len(tmpl.close)
        ELSE QuoteEnd(e)
  BY <1>7 DEF res, stop
<1>9. TemplateEnd[p0] = g[p0]
  BY Zenon DEF TemplateEnd, Is
<1>10. From(p0, e)
  BY <1>1, <1>6, <1>7 DEF From, Inside
<1> QED
  BY <1>7, <1>8, <1>9, <1>10, Zenon

\* What moveTemplate leaves the Input at.
LEMMA HTMLPastTemplate ==
    ASSUME Fits(src), TemplatesFit, NEW p \in Nat, AtTemplate(p)
    PROVE  Inside(p) /\ From(p, PastTemplate(p)) /\ p < PastTemplate(p)
<1> DEFINE r == p + Len(tmpl.open)
<1>1. Inside(p) /\ From(p, r) /\ p < r
  BY HTMLAtTemplate
<1>2. PastTemplate(p) = TemplateEnd[r]
  BY DEF PastTemplate
<1> HIDE DEF r
<1>3. PICK e : /\ From(r, e) /\ (Over(e) \/ AtAll(e, tmpl.close) \/ (At(e) \in Quotes /\ Ended(QuoteEnd(e))))
               /\ TemplateEnd[r] = IF Over(e) THEN e
                    ELSE IF AtAll(e, tmpl.close) THEN e + Len(tmpl.close) ELSE QuoteEnd(e)
  BY <1>1, HTMLTemplateEndStops, Zenon DEF From
<1>4. CASE Over(e)
  <2>1. From(r, TemplateEnd[r])
    BY <1>3, <1>4
  <2> QED
    BY <1>1, <1>2, <2>1, FromBeyond
<1>5. CASE ~Over(e) /\ AtAll(e, tmpl.close)
  <2>1. TemplateEnd[r] = e + Len(tmpl.close)
    BY <1>3, <1>5
  <2>2. From(e, e + Len(tmpl.close))
    <3>1. CASE tmpl.close = <<>>
      <4>1. Len(tmpl.close) = 0
        BY <3>1
      <4> QED
        BY <1>3, <4>1 DEF From, Inside
    <3>2. CASE tmpl.close # <<>>
      BY <1>3, <1>5, <3>2, HTMLTemplates, HTMLAfterWord DEF From
    <3> QED
      BY <3>1, <3>2
  <2>3. From(r, TemplateEnd[r])
    BY <1>1, <1>3, <2>1, <2>2, FromFrom DEF From
  <2> QED
    BY <1>1, <1>2, <2>3, FromBeyond
<1>6. CASE ~Over(e) /\ ~AtAll(e, tmpl.close)
  <2>1. TemplateEnd[r] = QuoteEnd(e) /\ e \in Nat
    BY <1>3, <1>6 DEF From, Inside
  <2>2. Inside(e) /\ Inside(e + 1)
    BY <1>6, <2>1, HTMLOver
  <2>3. From(e + 1, QuoteEnd(e)) /\ From(e, e + 1)
    BY <2>1, <2>2, HTMLQuoteEnd, FromNext
  <2>4. From(e, QuoteEnd(e))
    BY <2>2, <2>3, FromFrom
  <2>5. From(r, TemplateEnd[r])
    BY <1>1, <1>3, <2>1, <2>4, FromFrom DEF From
  <2> QED
    BY <1>1, <1>2, <2>5, FromBeyond
<1> QED
  BY <1>4, <1>5, <1>6

LEMMA HTMLPastTemplatesStop ==
    ASSUME Fits(src),
           TemplatesFit,
           NEW p0, Inside(p0)
    PROVE  /\ \E e : From(p0, e) /\ (~AtTemplate(e)) /\ PastTemplates[p0] = e /\ (AtTemplate(p0) \/ e = p0)
           /\ PastTemplates[p0] = IF AtTemplate(p0) THEN PastTemplates[PastTemplate(p0)] ELSE p0
<1> DEFINE n == Len(src)
           D == 0..(n + 1)
           stop == {p \in D : ~AtTemplate(p)}
           res == [p \in D |-> p]
           nxt == [p \in D |-> PastTemplate(p)]
           Is(f) == f = [p \in Offsets |-> IF AtTemplate(p) THEN f[PastTemplate(p)] ELSE p]
           g == CHOOSE f : Is(f)
<1>1. n \in Nat /\ Offsets = D
  BY SourceFacts DEF Offsets
<1>2. ASSUME NEW p \in D, p \notin stop
      PROVE  nxt[p] \in (p + 1)..(n + 1) /\ (p <= n => nxt[p] <= n)
  <2>1. p \in Nat /\ ~(~AtTemplate(p)) /\ nxt[p] = (PastTemplate(p))
    <3>1. p \in Nat /\ nxt[p] = (PastTemplate(p))
      BY <1>1
    <3>2. ~(~AtTemplate(p))
      BY <1>2, Zenon
    <3> QED
      BY <3>1, <3>2
  <2> HIDE DEF stop, res, nxt, Is, g
  <2>2. CASE AtTemplate(p)
    <3> DEFINE q == PastTemplate(p)
    <3>1. From(p, q) /\ p < q
      BY <2>1, <2>2, HTMLPastTemplate
    <3>2. nxt[p] = q
      BY <2>1, <2>2
    <3> HIDE DEF q
    <3> QED
      BY <1>1, <2>1, <3>1, <3>2 DEF From, Inside
  <2> QED
    BY <2>1, <2>2
<1>3. ASSUME NEW f PROVE Is(f) <=> Turns(D, stop, res, nxt, f)
  <2>1. ASSUME NEW p \in D
        PROVE  (IF AtTemplate(p) THEN f[PastTemplate(p)] ELSE p) = (IF p \in stop THEN res[p] ELSE f[nxt[p]])
    <3>1. p \in stop <=> (~AtTemplate(p))
      OBVIOUS
    <3>2. res[p] = (p) /\ nxt[p] = (PastTemplate(p))
      OBVIOUS
    <3> HIDE DEF stop, res, nxt
    <3> QED
      BY <3>1, <3>2, Zenon
  <2> HIDE DEF stop, res, nxt, D
  <2>2. [p \in D |-> IF AtTemplate(p) THEN f[PastTemplate(p)] ELSE p] =
          [p \in D |-> IF p \in stop THEN res[p] ELSE f[nxt[p]]]
    BY <2>1, Zenon
  <2> QED
    BY <1>1, <2>2, Zenon DEF Turns
<1> HIDE DEF Is, stop, res, nxt
<1>4. /\ \E f : Turns(0..(n + 1), stop, res, nxt, f)
      /\ \A f : Turns(0..(n + 1), stop, res, nxt, f) => Ends(n, stop, res, f)
  <2>1. Advances(n, stop, nxt)
    BY <1>2, Zenon DEF Advances
  <2> HIDE DEF n
  <2> QED
    BY <1>1, <2>1, OffsetLoop, Zenon
<1>0. Is(g)
  BY <1>3, <1>4, Zenon
<1>5. Ends(n, stop, res, g)
  BY <1>0, <1>3, <1>4, Zenon
<1>6. p0 \in 0..n
  BY DEF Inside
<1>7. PICK e \in p0..n : e \in stop /\ g[p0] = res[e]
  <2> HIDE DEF n, g
  <2> QED
    BY <1>5, <1>6, Zenon DEF Ends
<1>8. (~AtTemplate(e)) /\ res[e] = e
  BY <1>7 DEF res, stop
<1>9. PastTemplates = g
  BY Zenon DEF PastTemplates, Is
<1>10. From(p0, e)
  BY <1>1, <1>6, <1>7 DEF From, Inside
<1>11. g[p0] = IF AtTemplate(p0) THEN g[PastTemplate(p0)] ELSE p0
  <2>1. p0 \in Offsets
    BY <1>1, <1>6
  <2> HIDE DEF g
  <2> QED
    BY <1>0, <2>1, Zenon DEF Is
<1> QED
  BY <1>7, <1>8, <1>9, <1>10, <1>11, Zenon

\* A template, and what follows of them.
LEMMA HTMLPastTemplates ==
    ASSUME Fits(src), TemplatesFit, NEW p, Inside(p)
    PROVE  /\ From(p, PastTemplates[p])
           /\ AtTemplate(p) => p < PastTemplates[p]
           /\ ~AtTemplate(PastTemplates[p])
           /\ ~AtTemplate(p) => PastTemplates[p] = p
<1>1. PICK e : From(p, e) /\ ~AtTemplate(e) /\ PastTemplates[p] = e /\ (AtTemplate(p) \/ e = p)
  BY HTMLPastTemplatesStop, Zenon
<1>2. AtTemplate(p) => p < e
  <2>1. AtTemplate(p) => e # p
    BY <1>1
  <2>2. e # p => p < e
    BY <1>1 DEF From, Inside
  <2> QED
    BY <2>1, <2>2
<1> QED
  BY <1>1, <1>2

LEMMA HTMLNameEndStops ==
    ASSUME Fits(src),
           TemplatesFit,
           NEW p0, Inside(p0)
    PROVE  /\ \E e : From(p0, e)
                /\ (~AtTemplate(e) /\ (At(e) \in WS \cup {"=", ">"}
                \/ (At(e) = "/" /\ At(e + 1) = ">") \/ Over(e))) /\ NameEnd[p0] = e
           /\ NameEnd[p0] = IF AtTemplate(p0) THEN NameEnd[PastTemplate(p0)]
                ELSE IF At(p0) \in WS \cup {"=", ">"} \/ (At(p0) = "/" /\ At(p0 + 1) = ">") \/ Over(p0) THEN p0
                ELSE NameEnd[p0 + 1]
<1> DEFINE n == Len(src)
           D == 0..(n + 1)
           stop == {p \in D : ~AtTemplate(p)
               /\ (At(p) \in WS \cup {"=", ">"} \/ (At(p) = "/" /\ At(p + 1) = ">") \/ Over(p))}
           res == [p \in D |-> p]
           nxt == [p \in D |-> IF AtTemplate(p) THEN PastTemplate(p) ELSE p + 1]
           Is(f) == f = [p \in Offsets |-> IF AtTemplate(p) THEN f[PastTemplate(p)]
            ELSE IF At(p) \in WS \cup {"=", ">"} \/ (At(p) = "/" /\ At(p + 1) = ">") \/ Over(p) THEN p
            ELSE f[p + 1]]
           g == CHOOSE f : Is(f)
<1>1. n \in Nat /\ Offsets = D
  BY SourceFacts DEF Offsets
<1>2. ASSUME NEW p \in D, p \notin stop
      PROVE  nxt[p] \in (p + 1)..(n + 1) /\ (p <= n => nxt[p] <= n)
  <2>1. p \in Nat /\ ~(~AtTemplate(p)
          /\ (At(p) \in WS \cup {"=", ">"} \/ (At(p) = "/" /\ At(p + 1) = ">") \/ Over(p)))
          /\ nxt[p] = (IF AtTemplate(p) THEN PastTemplate(p) ELSE p + 1)
    <3>1. p \in Nat /\ nxt[p] = (IF AtTemplate(p) THEN PastTemplate(p) ELSE p + 1)
      BY <1>1
    <3>2. ~(~AtTemplate(p) /\ (At(p) \in WS \cup {"=", ">"} \/ (At(p) = "/" /\ At(p + 1) = ">") \/ Over(p)))
      BY <1>2, Zenon
    <3> QED
      BY <3>1, <3>2
  <2> HIDE DEF stop, res, nxt, Is, g
  <2>2. CASE AtTemplate(p)
    <3> DEFINE q == PastTemplate(p)
    <3>1. From(p, q) /\ p < q
      BY <2>1, <2>2, HTMLPastTemplate
    <3>2. nxt[p] = q
      BY <2>1, <2>2
    <3> HIDE DEF q
    <3> QED
      BY <1>1, <2>1, <3>1, <3>2 DEF From, Inside
  <2>3. CASE ~AtTemplate(p)
    <3>1. Inside(p + 1)
      BY <2>1, <2>3, HTMLOver
    <3>2. nxt[p] = p + 1
      BY <2>1, <2>3
    <3> QED
      BY <1>1, <2>1, <3>1, <3>2 DEF Inside
  <2> QED
    BY <2>2, <2>3
<1>3. ASSUME NEW f PROVE Is(f) <=> Turns(D, stop, res, nxt, f)
  <2>1. ASSUME NEW p \in D
        PROVE  (IF AtTemplate(p) THEN f[PastTemplate(p)]
            ELSE IF At(p) \in WS \cup {"=", ">"} \/ (At(p) = "/" /\ At(p + 1) = ">") \/ Over(p) THEN p
            ELSE f[p + 1]) = (IF p \in stop THEN res[p] ELSE f[nxt[p]])
    <3>1. p \in stop <=> (~AtTemplate(p)
            /\ (At(p) \in WS \cup {"=", ">"} \/ (At(p) = "/" /\ At(p + 1) = ">") \/ Over(p)))
      OBVIOUS
    <3>2. res[p] = (p) /\ nxt[p] = (IF AtTemplate(p) THEN PastTemplate(p) ELSE p + 1)
      OBVIOUS
    <3> HIDE DEF stop, res, nxt
    <3> QED
      BY <3>1, <3>2, Zenon
  <2> HIDE DEF stop, res, nxt, D
  <2>2. [p \in D |-> IF AtTemplate(p) THEN f[PastTemplate(p)]
            ELSE IF At(p) \in WS \cup {"=", ">"} \/ (At(p) = "/" /\ At(p + 1) = ">") \/ Over(p) THEN p
            ELSE f[p + 1]] = [p \in D |-> IF p \in stop THEN res[p] ELSE f[nxt[p]]]
    BY <2>1, Zenon
  <2> QED
    BY <1>1, <2>2, Zenon DEF Turns
<1> HIDE DEF Is, stop, res, nxt
<1>4. /\ \E f : Turns(0..(n + 1), stop, res, nxt, f)
      /\ \A f : Turns(0..(n + 1), stop, res, nxt, f) => Ends(n, stop, res, f)
  <2>1. Advances(n, stop, nxt)
    BY <1>2, Zenon DEF Advances
  <2> HIDE DEF n
  <2> QED
    BY <1>1, <2>1, OffsetLoop, Zenon
<1>0. Is(g)
  BY <1>3, <1>4, Zenon
<1>5. Ends(n, stop, res, g)
  BY <1>0, <1>3, <1>4, Zenon
<1>6. p0 \in 0..n
  BY DEF Inside
<1>7. PICK e \in p0..n : e \in stop /\ g[p0] = res[e]
  <2> HIDE DEF n, g
  <2> QED
    BY <1>5, <1>6, Zenon DEF Ends
<1>8. (~AtTemplate(e)
        /\ (At(e) \in WS \cup {"=", ">"} \/ (At(e) = "/" /\ At(e + 1) = ">") \/ Over(e)))
        /\ res[e] = e
  BY <1>7 DEF res, stop
<1>9. NameEnd = g
  BY Zenon DEF NameEnd, Is
<1>10. From(p0, e)
  BY <1>1, <1>6, <1>7 DEF From, Inside
<1>11. g[p0] = IF AtTemplate(p0) THEN g[PastTemplate(p0)]
           ELSE IF At(p0) \in WS \cup {"=", ">"} \/ (At(p0) = "/" /\ At(p0 + 1) = ">") \/ Over(p0) THEN p0
           ELSE g[p0 + 1]
  <2>1. p0 \in Offsets
    BY <1>1, <1>6
  <2> HIDE DEF g
  <2> QED
    BY <1>0, <2>1, Zenon DEF Is
<1> QED
  BY <1>7, <1>8, <1>9, <1>10, <1>11, Zenon

LEMMA HTMLInQuotesStops ==
    ASSUME Fits(src),
           TemplatesFit,
           NEW delim, delim \in Quotes,
           NEW p0, Inside(p0)
    PROVE  /\ \E e : From(p0, e) /\ (~AtTemplate(e) /\ (At(e) = delim \/ Over(e)))
                /\ InQuotes(p0, delim) = IF At(e) = delim THEN e + 1 ELSE e
           /\ InQuotes(p0, delim) = IF AtTemplate(p0) THEN InQuotes(PastTemplates[p0], delim)
                ELSE IF At(p0) = delim THEN p0 + 1
                ELSE IF Over(p0) THEN p0
                ELSE InQuotes(p0 + 1, delim)
<1> DEFINE n == Len(src)
           D == 0..(n + 1)
           stop == {p \in D : ~AtTemplate(p) /\ (At(p) = delim \/ Over(p))}
           res == [p \in D |-> IF At(p) = delim THEN p + 1 ELSE p]
           nxt == [p \in D |-> IF AtTemplate(p) THEN PastTemplates[p] ELSE p + 1]
           Is(f) == f = [p \in Offsets |-> IF AtTemplate(p) THEN f[PastTemplates[p]]
            ELSE IF At(p) = delim THEN p + 1
            ELSE IF Over(p) THEN p
            ELSE f[p + 1]]
           g == CHOOSE f : Is(f)
<1>1. n \in Nat /\ Offsets = D
  BY SourceFacts DEF Offsets
<1>2. ASSUME NEW p \in D, p \notin stop
      PROVE  nxt[p] \in (p + 1)..(n + 1) /\ (p <= n => nxt[p] <= n)
  <2>1. p \in Nat /\ ~(~AtTemplate(p) /\ (At(p) = delim \/ Over(p)))
          /\ nxt[p] = (IF AtTemplate(p) THEN PastTemplates[p] ELSE p + 1)
    <3>1. p \in Nat /\ nxt[p] = (IF AtTemplate(p) THEN PastTemplates[p] ELSE p + 1)
      BY <1>1
    <3>2. ~(~AtTemplate(p) /\ (At(p) = delim \/ Over(p)))
      BY <1>2, Zenon
    <3> QED
      BY <3>1, <3>2
  <2> HIDE DEF stop, res, nxt, Is, g
  <2>2. CASE AtTemplate(p)
    <3> DEFINE q == PastTemplates[p]
    <3>0. Inside(p)
      BY <2>1, <2>2, HTMLPastTemplate
    <3>1. From(p, q) /\ p < q
      BY <2>2, <3>0, HTMLPastTemplates
    <3>2. nxt[p] = q
      BY <2>1, <2>2
    <3> HIDE DEF q
    <3> QED
      BY <1>1, <2>1, <3>1, <3>2 DEF From, Inside
  <2>3. CASE ~AtTemplate(p)
    <3>1. Inside(p + 1)
      BY <2>1, <2>3, HTMLOver
    <3>2. nxt[p] = p + 1
      BY <2>1, <2>3
    <3> QED
      BY <1>1, <2>1, <3>1, <3>2 DEF Inside
  <2> QED
    BY <2>2, <2>3
<1>3. ASSUME NEW f PROVE Is(f) <=> Turns(D, stop, res, nxt, f)
  <2>1. ASSUME NEW p \in D
        PROVE  (IF AtTemplate(p) THEN f[PastTemplates[p]]
            ELSE IF At(p) = delim THEN p + 1
            ELSE IF Over(p) THEN p
            ELSE f[p + 1]) = (IF p \in stop THEN res[p] ELSE f[nxt[p]])
    <3>1. p \in stop <=> (~AtTemplate(p) /\ (At(p) = delim \/ Over(p)))
      OBVIOUS
    <3>2. res[p] = (IF At(p) = delim THEN p + 1 ELSE p)
            /\ nxt[p] = (IF AtTemplate(p) THEN PastTemplates[p] ELSE p + 1)
      OBVIOUS
    <3> HIDE DEF stop, res, nxt
    <3> QED
      BY <3>1, <3>2, Zenon
  <2> HIDE DEF stop, res, nxt, D
  <2>2. [p \in D |-> IF AtTemplate(p) THEN f[PastTemplates[p]]
            ELSE IF At(p) = delim THEN p + 1
            ELSE IF Over(p) THEN p
            ELSE f[p + 1]] = [p \in D |-> IF p \in stop THEN res[p] ELSE f[nxt[p]]]
    BY <2>1, Zenon
  <2> QED
    BY <1>1, <2>2, Zenon DEF Turns
<1> HIDE DEF Is, stop, res, nxt
<1>4. /\ \E f : Turns(0..(n + 1), stop, res, nxt, f)
      /\ \A f : Turns(0..(n + 1), stop, res, nxt, f) => Ends(n, stop, res, f)
  <2>1. Advances(n, stop, nxt)
    BY <1>2, Zenon DEF Advances
  <2> HIDE DEF n
  <2> QED
    BY <1>1, <2>1, OffsetLoop, Zenon
<1>0. Is(g)
  BY <1>3, <1>4, Zenon
<1>5. Ends(n, stop, res, g)
  BY <1>0, <1>3, <1>4, Zenon
<1>6. p0 \in 0..n
  BY DEF Inside
<1>7. PICK e \in p0..n : e \in stop /\ g[p0] = res[e]
  <2> HIDE DEF n, g
  <2> QED
    BY <1>5, <1>6, Zenon DEF Ends
<1>8. (~AtTemplate(e) /\ (At(e) = delim \/ Over(e))) /\ res[e] = IF At(e) = delim THEN e + 1 ELSE e
  BY <1>7 DEF res, stop
<1>9. \A p : InQuotes(p, delim) = g[p]
  BY Zenon DEF InQuotes, Is
<1>10. From(p0, e)
  BY <1>1, <1>6, <1>7 DEF From, Inside
<1>11. g[p0] = IF AtTemplate(p0) THEN g[PastTemplates[p0]]
           ELSE IF At(p0) = delim THEN p0 + 1
           ELSE IF Over(p0) THEN p0
           ELSE g[p0 + 1]
  <2>1. p0 \in Offsets
    BY <1>1, <1>6
  <2> HIDE DEF g
  <2> QED
    BY <1>0, <2>1, Zenon DEF Is
<1>12. InQuotes(p0, delim) = IF AtTemplate(p0) THEN InQuotes(PastTemplates[p0], delim)
           ELSE IF At(p0) = delim THEN p0 + 1
           ELSE IF Over(p0) THEN p0
           ELSE InQuotes(p0 + 1, delim)
  <2> HIDE DEF g
  <2>1. /\ InQuotes(p0, delim) = g[p0]
        /\ InQuotes(PastTemplates[p0], delim) = g[PastTemplates[p0]]
        /\ InQuotes(p0 + 1, delim) = g[p0 + 1]
    BY <1>9, Zenon
  <2> QED
    BY <1>11, <2>1, Zenon
<1> QED
  BY <1>7, <1>8, <1>9, <1>10, <1>12, Zenon

\* Attribute values: quoted, with the templates inside, or not.
LEMMA HTMLInQuotes ==
    ASSUME Fits(src), TemplatesFit, NEW p, Inside(p), NEW delim \in Quotes
    PROVE  From(p, InQuotes(p, delim))
<1>1. PICK e : From(p, e) /\ InQuotes(p, delim) = IF At(e) = delim THEN e + 1 ELSE e
  BY HTMLInQuotesStops, Zenon
<1>2. e \in Nat /\ Inside(e)
  BY <1>1 DEF From, Inside
<1>3. At(e) = delim => From(e, e + 1)
  <2>1. delim \notin {"nul", "panic"}
    BY DEF Quotes
  <2> QED
    BY <1>2, <2>1, HTMLChar, FromNext
<1>4. At(e) = delim => From(p, e + 1)
  BY <1>1, <1>3, FromFrom
<1> QED
  BY <1>1, <1>4

LEMMA HTMLUnquoted ==
    ASSUME Fits(src), NEW p, Inside(p)
    PROVE  From(p, Unquoted(p))
  BY HTMLUnquotedStops, Zenon DEF From, Inside

LEMMA HTMLValueEnd ==
    ASSUME Fits(src), TemplatesFit, NEW p, Inside(p)
    PROVE  From(p, ValueEnd(p))
<1>1. CASE AtTemplate(p)
  BY <1>1, HTMLPastTemplates DEF ValueEnd
<1>2. CASE ~AtTemplate(p) /\ At(p) \in Quotes
  <2>1. At(p) \notin {"nul", "panic"} /\ p \in Nat
    BY <1>2 DEF Quotes, Inside
  <2>2. Inside(p + 1)
    BY <2>1, HTMLChar
  <2>3. From(p, p + 1) /\ From(p + 1, InQuotes(p + 1, At(p)))
    BY <1>2, <2>2, FromNext, HTMLInQuotes
  <2> QED
    BY <1>2, <2>3, FromFrom DEF ValueEnd
<1>3. CASE ~AtTemplate(p) /\ At(p) \notin Quotes
  BY <1>3, HTMLUnquoted DEF ValueEnd
<1> QED
  BY <1>1, <1>2, <1>3

\* The offsets of shiftAttribute: where the name ends, what follows of blanks,
\* and the value.
HTMLNameEndFrom(p) == NameEnd[PastTemplates[p]]
HTMLEq(p) == Past(HTMLNameEndFrom(p), WS)
HTMLValue(p) == Past(HTMLEq(p) + 1, WS)
HTMLValueEndFrom(p) == IF At(HTMLEq(p)) = "=" THEN ValueEnd(HTMLValue(p)) ELSE HTMLNameEndFrom(p)

LEMMA HTMLAttributeAt ==
    ASSUME NEW p
    PROVE  AttributeAt(p) =
             [value |-> IF At(HTMLEq(p)) = "=" THEN <<HTMLValue(p), HTMLValueEndFrom(p)>> ELSE <<>>,
              end |-> PastTemplates[HTMLValueEndFrom(p)],
              hasTmpl |-> \/ MeetsTemplate(p, HTMLNameEndFrom(p))
                          \/ AtTemplate(HTMLValueEndFrom(p))
                          \/ /\ At(HTMLEq(p)) = "="
                             /\ \/ AtTemplate(HTMLValue(p))
                                \/ /\ At(HTMLValue(p)) \in Quotes
                                   /\ MeetsTemplate(HTMLValue(p) + 1, HTMLValueEndFrom(p))]
  BY Zenon DEF AttributeAt, HTMLNameEndFrom, HTMLEq, HTMLValue, HTMLValueEndFrom

LEMMA HTMLAttributeFields ==
    ASSUME NEW p
    PROVE  /\ AttributeAt(p).value = IF At(HTMLEq(p)) = "=" THEN <<HTMLValue(p), HTMLValueEndFrom(p)>> ELSE <<>>
           /\ AttributeAt(p).end = PastTemplates[HTMLValueEndFrom(p)]
           /\ AttributeAt(p).hasTmpl = (\/ MeetsTemplate(p, HTMLNameEndFrom(p))
                          \/ AtTemplate(HTMLValueEndFrom(p))
                          \/ /\ At(HTMLEq(p)) = "="
                             /\ \/ AtTemplate(HTMLValue(p))
                                \/ /\ At(HTMLValue(p)) \in Quotes
                                   /\ MeetsTemplate(HTMLValue(p) + 1, HTMLValueEndFrom(p)))
<1> DEFINE a == AttributeAt(p)
           v == IF At(HTMLEq(p)) = "=" THEN <<HTMLValue(p), HTMLValueEndFrom(p)>> ELSE <<>>
           e == PastTemplates[HTMLValueEndFrom(p)]
           t == \/ MeetsTemplate(p, HTMLNameEndFrom(p))
                          \/ AtTemplate(HTMLValueEndFrom(p))
                          \/ /\ At(HTMLEq(p)) = "="
                             /\ \/ AtTemplate(HTMLValue(p))
                                \/ /\ At(HTMLValue(p)) \in Quotes
                                   /\ MeetsTemplate(HTMLValue(p) + 1, HTMLValueEndFrom(p))
<1>1. a = [value |-> v, end |-> e, hasTmpl |-> t]
  BY HTMLAttributeAt
<1> HIDE DEF a, v, e, t
<1>2. a.value = v /\ a.end = e /\ a.hasTmpl = t
  BY <1>1
<1> QED
  BY <1>2 DEF a, v, e, t

\* They come one after the other, with nothing but blanks between the name, the
\* equals sign and the value.
LEMMA HTMLAttributeParts ==
    ASSUME Fits(src), TemplatesFit, NEW p, Inside(p)
    PROVE  /\ From(p, HTMLNameEndFrom(p)) /\ ~AtTemplate(HTMLNameEndFrom(p))
           /\ \/ At(HTMLNameEndFrom(p)) \in WS \cup {"=", ">"} \/ Over(HTMLNameEndFrom(p))
              \/ At(HTMLNameEndFrom(p)) = "/" /\ At(HTMLNameEndFrom(p) + 1) = ">"
           /\ From(HTMLNameEndFrom(p), HTMLEq(p)) /\ BlanksBetween(HTMLNameEndFrom(p), HTMLEq(p))
           /\ At(HTMLEq(p)) = "=" =>
                /\ From(HTMLEq(p) + 1, HTMLValue(p)) /\ BlanksBetween(HTMLEq(p) + 1, HTMLValue(p))
                /\ From(HTMLValue(p), HTMLValueEndFrom(p))
                /\ AtTemplate(HTMLValue(p)) => HTMLValue(p) < HTMLValueEndFrom(p)
           /\ From(HTMLNameEndFrom(p), HTMLValueEndFrom(p))
<1> DEFINE begin == PastTemplates[p]
           nameEnd == HTMLNameEndFrom(p)
           eq == HTMLEq(p)
           value == HTMLValue(p)
           valueEnd == HTMLValueEndFrom(p)
<1>1. From(p, begin)
  BY HTMLPastTemplates
<1>2. nameEnd = NameEnd[begin] /\ eq = Past(nameEnd, WS) /\ value = Past(eq + 1, WS)
      /\ valueEnd = IF At(eq) = "=" THEN ValueEnd(value) ELSE nameEnd
  BY Zenon DEF HTMLNameEndFrom, HTMLEq, HTMLValue, HTMLValueEndFrom
<1> HIDE DEF begin, nameEnd, eq, value, valueEnd
<1>3. PICK e : /\ From(begin, e) /\ ~AtTemplate(e) /\ NameEnd[begin] = e
               /\ At(e) \in WS \cup {"=", ">"} \/ (At(e) = "/" /\ At(e + 1) = ">") \/ Over(e)
  BY <1>1, HTMLNameEndStops, Zenon DEF From
<1>4. /\ From(p, nameEnd) /\ ~AtTemplate(nameEnd)
      /\ \/ At(nameEnd) \in WS \cup {"=", ">"} \/ Over(nameEnd)
         \/ At(nameEnd) = "/" /\ At(nameEnd + 1) = ">"
  BY <1>1, <1>2, <1>3, FromFrom
<1>5. \A q : Inside(q) => From(q, Past(q, WS)) /\ BlanksBetween(q, Past(q, WS))
  <2> SUFFICES ASSUME NEW q, Inside(q) PROVE From(q, Past(q, WS)) /\ BlanksBetween(q, Past(q, WS))
    OBVIOUS
  <2>1. q \in Nat /\ q <= Len(src) /\ NUL \notin WS
    BY DEF Inside, WS, NUL
  <2>2. \A r \in q..(Past(q, WS) - 1) : ~(At(r) \notin WS)
    BY <2>1, HTMLPast, Zenon
  <2>3. BlanksBetween(q, Past(q, WS))
    BY <2>2 DEF BlanksBetween, WS
  <2> QED
    BY <2>3, HTMLPastFrom, HTMLOfChars
<1>6. From(nameEnd, eq) /\ BlanksBetween(nameEnd, eq)
  BY <1>2, <1>4, <1>5 DEF From
<1>7. At(eq) = "=" => /\ From(eq + 1, value) /\ BlanksBetween(eq + 1, value)
                      /\ From(value, valueEnd)
                      /\ AtTemplate(value) => value < valueEnd
                      /\ From(nameEnd, valueEnd)
  <2> SUFFICES ASSUME At(eq) = "="
               PROVE  /\ From(eq + 1, value) /\ BlanksBetween(eq + 1, value)
                      /\ From(value, valueEnd)
                      /\ AtTemplate(value) => value < valueEnd
                      /\ From(nameEnd, valueEnd)
    OBVIOUS
  <2>1. eq \in Nat /\ Inside(eq)
    BY <1>6 DEF From, Inside
  <2>2. Inside(eq + 1) /\ From(eq, eq + 1)
    BY <2>1, HTMLChar, FromNext
  <2>3. From(eq + 1, value) /\ BlanksBetween(eq + 1, value)
    BY <1>2, <1>5, <2>2
  <2>4. Inside(value) /\ valueEnd = ValueEnd(value)
    BY <1>2, <2>3 DEF From
  <2>5. From(value, valueEnd)
    BY <2>4, HTMLValueEnd
  <2>6. AtTemplate(value) => value < valueEnd
    BY <2>4, HTMLPastTemplates DEF ValueEnd
  <2>7. Inside(nameEnd)
    BY <1>4 DEF From
  <2>8. From(nameEnd, valueEnd)
    <3>1. From(eq, value)
      BY <2>1, <2>2, <2>3, FromFrom
    <3>2. From(nameEnd, value)
      BY <1>6, <2>7, <3>1, FromFrom
    <3> QED
      BY <2>5, <2>7, <3>2, FromFrom
  <2> QED
    BY <2>3, <2>5, <2>6, <2>8
<1>8. At(eq) # "=" => From(nameEnd, valueEnd)
  <2>1. At(eq) # "=" => valueEnd = nameEnd
    BY <1>2
  <2>2. Inside(nameEnd)
    BY <1>4 DEF From
  <2> QED
    BY <2>1, <2>2, FromItself
<1>9. From(nameEnd, valueEnd)
  BY <1>7, <1>8
<1> QED
  BY <1>4, <1>6, <1>7, <1>9 DEF nameEnd, eq, value, valueEnd

\* An attribute is not empty: what cannot begin a name is a blank, an end of the
\* tag, or the equals sign of a value.
LEMMA HTMLAttributeEnd ==
    ASSUME Fits(src), TemplatesFit, NEW p, Inside(p), At(p) \notin WS, ~Ended(p), ~TagIsClosing(p)
    PROVE  From(p, AttributeAt(p).end) /\ p < AttributeAt(p).end
<1> DEFINE nameEnd == HTMLNameEndFrom(p)
           eq == HTMLEq(p)
           value == HTMLValue(p)
           valueEnd == HTMLValueEndFrom(p)
           end == PastTemplates[valueEnd]
<1>1. AttributeAt(p).end = end
  BY HTMLAttributeFields
<1>2. /\ From(p, nameEnd) /\ From(nameEnd, eq) /\ From(nameEnd, valueEnd)
      /\ BlanksBetween(nameEnd, eq)
      /\ \/ At(nameEnd) \in WS \cup {"=", ">"} \/ Over(nameEnd)
         \/ At(nameEnd) = "/" /\ At(nameEnd + 1) = ">"
      /\ At(eq) = "=" => From(eq + 1, value) /\ From(value, valueEnd)
  BY HTMLAttributeParts, Zenon
<1>3. Inside(valueEnd) /\ From(p, valueEnd)
  BY <1>2, FromFrom DEF From
<1>4. From(valueEnd, end)
  BY <1>3, HTMLPastTemplates
<1> HIDE DEF nameEnd, eq, value, valueEnd, end
<1>5. /\ p \in Nat /\ nameEnd \in Nat /\ eq \in Nat /\ valueEnd \in Nat
      /\ p <= nameEnd /\ nameEnd <= eq /\ nameEnd <= valueEnd
  BY <1>2 DEF From, Inside
<1>6. p < valueEnd
  <2>1. CASE nameEnd # p
    BY <1>5, <2>1
  <2>2. CASE nameEnd = p
    <3>1. At(p) = "="
      <4>1. ~(p > Len(src))
        BY SourceFacts DEF Inside
      <4> QED
        BY <1>2, <2>2, <4>1 DEF TagIsClosing, Over
    <3>2. eq = p
      <4>1. eq > p => p \in p..(eq - 1)
        BY <1>5, <2>2
      <4>2. p \notin p..(eq - 1)
        BY <1>2, <2>2, <3>1 DEF BlanksBetween
      <4> QED
        BY <1>5, <2>2, <4>1, <4>2
    <3>3. p + 1 <= value /\ value <= valueEnd /\ value \in Nat
      BY <1>2, <3>1, <3>2 DEF From, Inside
    <3> QED
      BY <1>5, <3>3
  <2> QED
    BY <2>1, <2>2
<1>7. From(p, end) /\ p < end
  BY <1>3, <1>4, <1>6, FromBeyond
<1> QED
  BY <1>1, <1>7

\* Where a name in raw text begins.
HTMLRawName(p) == IF At(p + 1) = "/" THEN p + 2 ELSE p + 1

LEMMA HTMLAfterName ==
    ASSUME Fits(src), NEW p, Inside(p), At(p) = "<"
    PROVE  From(p, Past(HTMLRawName(p), Letters)) /\ p < Past(HTMLRawName(p), Letters)
<1> DEFINE name == HTMLRawName(p)
<1>1. p \in Nat /\ Inside(p + 1)
  <2>1. p \in Nat
    BY DEF Inside
  <2>2. At(p) \notin {"nul", "panic"}
    OBVIOUS
  <2> QED
    BY <2>1, <2>2, HTMLChar
<1>2. Inside(name) /\ From(p, name) /\ p < name
  <2>1. CASE At(p + 1) = "/"
    <3>1. p + 1 \in Nat /\ At(p + 1) \notin {"nul", "panic"}
      BY <1>1, <2>1
    <3>2. Inside(p + 1 + 1) /\ p + 1 + 1 = p + 2
      BY <1>1, <3>1, HTMLChar
    <3>3. Inside(p + 2) /\ p <= p + 2 /\ p < p + 2
      BY <1>1, <3>2
    <3> QED
      BY <2>1, <3>3 DEF From, HTMLRawName
  <2>2. CASE At(p + 1) # "/"
    <3>1. p <= p + 1 /\ p < p + 1
      BY <1>1
    <3> QED
      BY <1>1, <2>2, <3>1 DEF From, HTMLRawName
  <2> QED
    BY <2>1, <2>2
<1> HIDE DEF name
<1>3. From(name, Past(name, Letters))
  BY <1>2, HTMLPastFrom, HTMLOfChars
<1>4. From(p, Past(name, Letters)) /\ p < Past(name, Letters)
  BY <1>2, <1>3, FromBeyond
<1> QED
  BY <1>4 DEF name

HTMLModes == {"text", "comment", "inScript"}

HTMLIsRaw(p) == Name(HTMLRawName(p)) = <<rawTag>>

HTMLRawStop(d) ==
    \/ Over(d[1])
    \/ At(d[1]) = "<" /\ At(d[1] + 1) = "/" /\ HTMLIsRaw(d[1]) /\ d[2] # "inScript"

HTMLRawNext(d) ==
    IF d[2] = "text"
    THEN IF At(d[1]) = "<" /\ At(d[1] + 1) = "/" THEN <<Past(HTMLRawName(d[1]), Letters), d[2], d[3]>>
         ELSE IF rawTag = "script" /\ AtAll(d[1], <<"<", "!", "-", "-">>) THEN <<d[1] + 4, "comment", d[3]>>
         ELSE IF At(d[1]) # "<" /\ AtTemplate(d[1]) THEN <<PastTemplate(d[1]), d[2], TRUE>>
         ELSE <<d[1] + 1, d[2], d[3]>>
    ELSE IF AtAll(d[1], <<"-", "-", ">">>) THEN <<d[1] + 3, "text", d[3]>>
    ELSE IF At(d[1]) # "<" THEN <<d[1] + 1, d[2], d[3]>>
    ELSE <<Past(HTMLRawName(d[1]), Letters),
           IF ~HTMLIsRaw(d[1]) THEN d[2] ELSE IF At(d[1] + 1) = "/" THEN "comment" ELSE "inScript", d[3]>>

\* Raw text and foreign content, where every turn goes on or is the last.
LEMMA HTMLRawAdvances ==
    ASSUME Fits(src), TemplatesFit, NEW d, d[1] \in Nat, d[2] \in HTMLModes, d[3] \in BOOLEAN,
           ~HTMLRawStop(d)
    PROVE  \E a, b, c : /\ HTMLRawNext(d) = <<a, b, c>> /\ b \in HTMLModes /\ c \in BOOLEAN
                        /\ From(d[1], a) /\ d[1] < a
<1> DEFINE p == d[1]
<1>1. p \in Nat /\ ~Over(p)
  BY DEF HTMLRawStop
<1> HIDE DEF p
<1>2. Inside(p) /\ Inside(p + 1)
  BY <1>1, HTMLOver
<1>3. From(p, p + 1) /\ p < p + 1
  <2>1. p < p + 1
    BY <1>1
  <2> QED
    BY <1>2, <2>1, FromNext
<1>4. IsWord(<<"<", "!", "-", "-">>, 4) /\ IsWord(<<"-", "-", ">">>, 3)
  BY Words DEF NUL
<1>5. AtAll(p, <<"<", "!", "-", "-">>) => From(p, p + 4) /\ p < p + 4
  BY <1>2, <1>4, HTMLAfterWord
<1>6. AtAll(p, <<"-", "-", ">">>) => From(p, p + 3) /\ p < p + 3
  BY <1>2, <1>4, HTMLAfterWord
<1>7. AtTemplate(p) => From(p, PastTemplate(p)) /\ p < PastTemplate(p)
  BY <1>1, HTMLPastTemplate
<1> DEFINE q == Past(HTMLRawName(p), Letters)
<1>8. At(p) = "<" => From(p, q) /\ p < q
  BY <1>2, HTMLAfterName
<1> DEFINE m == IF ~HTMLIsRaw(p) THEN d[2] ELSE IF At(p + 1) = "/" THEN "comment" ELSE "inScript"
<1>9. m \in HTMLModes /\ "text" \in HTMLModes /\ "comment" \in HTMLModes
  BY DEF HTMLModes
<1> DEFINE t == PastTemplate(p)
<1>10. HTMLRawNext(d) =
         IF d[2] = "text"
         THEN IF At(p) = "<" /\ At(p + 1) = "/" THEN <<q, d[2], d[3]>>
              ELSE IF rawTag = "script" /\ AtAll(p, <<"<", "!", "-", "-">>) THEN <<p + 4, "comment", d[3]>>
              ELSE IF At(p) # "<" /\ AtTemplate(p) THEN <<t, d[2], TRUE>>
              ELSE <<p + 1, d[2], d[3]>>
         ELSE IF AtAll(p, <<"-", "-", ">">>) THEN <<p + 3, "text", d[3]>>
         ELSE IF At(p) # "<" THEN <<p + 1, d[2], d[3]>>
         ELSE <<q, m, d[3]>>
  BY DEF HTMLRawNext, p
<1> HIDE DEF q, m, t
<1>11. CASE d[2] = "text"
  <2>1. CASE At(p) = "<" /\ At(p + 1) = "/"
    BY <1>8, <1>10, <1>11, <2>1 DEF p
  <2>2. CASE ~(At(p) = "<" /\ At(p + 1) = "/") /\ rawTag = "script" /\ AtAll(p, <<"<", "!", "-", "-">>)
    <3>1. HTMLRawNext(d) = <<p + 4, "comment", d[3]>>
      BY <1>10, <1>11, <2>2, Zenon
    <3> QED
      BY <1>5, <1>9, <2>2, <3>1, Zenon DEF p
  <2>3. CASE /\ ~(At(p) = "<" /\ At(p + 1) = "/") /\ ~(rawTag = "script" /\ AtAll(p, <<"<", "!", "-", "-">>))
             /\ At(p) # "<" /\ AtTemplate(p)
    <3>1. HTMLRawNext(d) = <<t, d[2], TRUE>>
      BY <1>10, <1>11, <2>3, Zenon
    <3>2. TRUE \in BOOLEAN
      OBVIOUS
    <3> QED
      BY <1>7, <2>3, <3>1, <3>2, Zenon DEF p, t
  <2>4. CASE /\ ~(At(p) = "<" /\ At(p + 1) = "/") /\ ~(rawTag = "script" /\ AtAll(p, <<"<", "!", "-", "-">>))
             /\ ~(At(p) # "<" /\ AtTemplate(p))
    <3>1. HTMLRawNext(d) = <<p + 1, d[2], d[3]>>
      BY <1>10, <1>11, <2>4, Zenon
    <3> QED
      BY <1>3, <3>1, Zenon DEF p
  <2> QED
    BY <2>1, <2>2, <2>3, <2>4
<1>12. CASE d[2] # "text"
  <2>1. CASE AtAll(p, <<"-", "-", ">">>)
    <3>1. HTMLRawNext(d) = <<p + 3, "text", d[3]>>
      BY <1>10, <1>12, <2>1, Zenon
    <3> QED
      BY <1>6, <1>9, <2>1, <3>1, Zenon DEF p
  <2>2. CASE ~AtAll(p, <<"-", "-", ">">>) /\ At(p) # "<"
    <3>1. HTMLRawNext(d) = <<p + 1, d[2], d[3]>>
      BY <1>10, <1>12, <2>2, Zenon
    <3> QED
      BY <1>3, <3>1, Zenon DEF p
  <2>3. CASE ~AtAll(p, <<"-", "-", ">">>) /\ At(p) = "<"
    <3>1. HTMLRawNext(d) = <<q, m, d[3]>>
      BY <1>10, <1>12, <2>3, Zenon
    <3> QED
      BY <1>8, <1>9, <2>3, <3>1, Zenon DEF p
  <2> QED
    BY <2>1, <2>2, <2>3
<1> QED
  BY <1>11, <1>12

\* What each turn of shiftRawText keeps, is so where it stops.
LEMMA HTMLRawLoop ==
    ASSUME Fits(src), TemplatesFit, NEW p0, Inside(p0), NEW inv, <<p0, "text", FALSE>> \in inv,
           \A d : d \in inv /\ d[1] \in Nat /\ d[2] \in HTMLModes /\ d[3] \in BOOLEAN /\ ~HTMLRawStop(d)
                 => HTMLRawNext(d) \in inv
    PROVE  \E e : /\ e \in inv /\ HTMLRawStop(e) /\ From(p0, e[1])
                  /\ e[2] \in HTMLModes /\ e[3] \in BOOLEAN
                  /\ RawEnd[<<p0, "text", FALSE>>] = [end |-> e[1], hasTmpl |-> e[3]]
<1> DEFINE n == Len(src)
           D == Offsets \X HTMLModes \X BOOLEAN
           off == [d \in D |-> d[1]]
           stop == {d \in D : HTMLRawStop(d)}
           Res(d) == [end |-> d[1], hasTmpl |-> d[3]]
           res == [d \in D |-> Res(d)]
           nxt == [d \in D |-> HTMLRawNext(d)]
           Body(f, d) ==
             IF Over(d[1]) THEN Res(d)
             ELSE IF At(d[1]) = "<" /\ At(d[1] + 1) = "/" /\ HTMLIsRaw(d[1]) /\ d[2] # "inScript" THEN Res(d)
             ELSE IF d[2] = "text"
             THEN IF At(d[1]) = "<"
               /\ At(d[1] + 1) = "/" THEN f[<<Past(HTMLRawName(d[1]), Letters), d[2], d[3]>>]
                  ELSE IF rawTag = "script"
                    /\ AtAll(d[1], <<"<", "!", "-", "-">>) THEN f[<<d[1] + 4, "comment", d[3]>>]
                  ELSE IF At(d[1]) # "<" /\ AtTemplate(d[1]) THEN f[<<PastTemplate(d[1]), d[2], TRUE>>]
                  ELSE f[<<d[1] + 1, d[2], d[3]>>]
             ELSE IF AtAll(d[1], <<"-", "-", ">">>) THEN f[<<d[1] + 3, "text", d[3]>>]
             ELSE IF At(d[1]) # "<" THEN f[<<d[1] + 1, d[2], d[3]>>]
             ELSE f[<<Past(HTMLRawName(d[1]), Letters),
                      IF ~HTMLIsRaw(d[1]) THEN d[2] ELSE IF At(d[1] + 1) = "/" THEN "comment"
                        ELSE "inScript", d[3]>>]
           Is(f) == f = [d \in D |-> Body(f, d)]
           g == CHOOSE f : Is(f)
<1>1. n \in Nat /\ Offsets = 0..(n + 1)
  BY SourceFacts DEF Offsets
<1>2. \A d \in D : /\ d[1] \in Nat /\ d[1] <= n + 1 /\ d[2] \in HTMLModes /\ d[3] \in BOOLEAN
                   /\ off[d] = d[1] /\ nxt[d] = HTMLRawNext(d) /\ res[d] = Res(d)
  BY <1>1
<1>3. \A d \in D : d \in stop <=> HTMLRawStop(d)
  OBVIOUS
<1>4. off \in [D -> Nat]
  BY <1>1
<1>5. \A d : d \in D <=> d = <<d[1], d[2], d[3]>> /\ d[1] \in 0..(n + 1) /\ d[2] \in HTMLModes
        /\ d[3] \in BOOLEAN
  BY <1>1
<1> HIDE DEF off, stop, res, nxt, D, Is, g
<1>6. ASSUME NEW d \in D, d \notin stop
      PROVE  nxt[d] \in D /\ off[d] < off[nxt[d]] /\ (off[d] <= n => off[nxt[d]] <= n)
  <2>1. d[1] \in Nat /\ d[2] \in HTMLModes /\ d[3] \in BOOLEAN /\ off[d] = d[1] /\ nxt[d] = HTMLRawNext(d)
    BY <1>2
  <2>2. ~HTMLRawStop(d)
    BY <1>3, <1>6
  <2>3. PICK a, b, c : /\ HTMLRawNext(d) = <<a, b, c>> /\ b \in HTMLModes /\ c \in BOOLEAN
                       /\ From(d[1], a) /\ d[1] < a
    BY <2>1, <2>2, HTMLRawAdvances
  <2>4. a \in Nat /\ a <= n /\ a \in 0..(n + 1)
    BY <1>1, <2>3 DEF From, Inside
  <2> DEFINE e == nxt[d]
  <2>5. e = <<a, b, c>>
    BY <2>1, <2>3
  <2> HIDE DEF e
  <2>6. e[1] = a /\ e[2] = b /\ e[3] = c /\ e = <<e[1], e[2], e[3]>>
    BY <2>5
  <2>7. e \in D
    BY <1>5, <2>3, <2>4, <2>6
  <2>8. off[e] = a
    BY <1>2, <2>6, <2>7
  <2>9. off[d] < off[e] /\ off[e] <= n
    BY <2>1, <2>3, <2>4, <2>8
  <2> QED
    BY <2>7, <2>9 DEF e
<1>7. ASSUME NEW f PROVE Is(f) <=> Turns(D, stop, res, nxt, f)
  <2>1. ASSUME NEW d \in D PROVE Body(f, d) = (IF d \in stop THEN res[d] ELSE f[nxt[d]])
    <3>1. d \in stop <=> HTMLRawStop(d)
      BY <1>3
    <3>2. res[d] = Res(d) /\ nxt[d] = HTMLRawNext(d)
      BY <1>2
    <3> HIDE DEF Res
    <3>3. CASE HTMLRawStop(d)
      BY <3>1, <3>2, <3>3, Zenon DEF HTMLRawStop
    <3>4. CASE ~HTMLRawStop(d)
      <4>1. ~Over(d[1]) /\ ~(At(d[1]) = "<" /\ At(d[1] + 1) = "/" /\ HTMLIsRaw(d[1]) /\ d[2] # "inScript")
        BY <3>4, Zenon DEF HTMLRawStop
      <4>2. Body(f, d) = f[HTMLRawNext(d)]
        BY <4>1, Zenon DEF HTMLRawNext
      <4> HIDE DEF Body
      <4> QED
        BY <3>1, <3>2, <3>4, <4>2, Zenon
    <3> QED
      BY <3>3, <3>4
  <2> HIDE DEF Body
  <2>2. [d \in D |-> Body(f, d)] = [d \in D |-> IF d \in stop THEN res[d] ELSE f[nxt[d]]]
    BY <2>1, Zenon
  <2> QED
    BY <2>2, Zenon DEF Turns, Is
<1>8. Nears(n, D, off, stop, nxt)
  <2>1. \A d \in D : off[d] <= n + 1
    BY <1>2
  <2> QED
    BY <1>6, <2>1, Zenon DEF Nears
<1>9. /\ \E f : Turns(D, stop, res, nxt, f)
      /\ \A f : Turns(D, stop, res, nxt, f) => Reaches(n, D, off, stop, res, f)
  <2> HIDE DEF n
  <2> QED
    BY <1>1, <1>4, <1>8, RangeLoop, Zenon
<1>10. Is(g)
  BY <1>7, <1>9, Zenon DEF g
<1> DEFINE d0 == <<p0, "text", FALSE>>
<1>11. d0[1] = p0 /\ d0[2] = "text" /\ d0[3] = FALSE /\ d0 = <<d0[1], d0[2], d0[3]>>
  OBVIOUS
<1>12. p0 \in Nat /\ p0 <= n /\ "text" \in HTMLModes
  BY DEF Inside, HTMLModes
<1> HIDE DEF d0
<1>13. d0 \in D
  <2>1. d0[1] \in 0..(n + 1) /\ d0[2] \in HTMLModes /\ d0[3] \in BOOLEAN
    <3> HIDE DEF n, Body
    <3>1. p0 \in 0..(n + 1) /\ FALSE \in BOOLEAN
      BY <1>1, <1>12 DEF n
    <3> QED
      BY <1>11, <1>12, <3>1, Zenon
  <2> HIDE DEF n
  <2> QED
    BY <1>5, <1>11, <2>1, Zenon
<1>14. off[d0] = p0 /\ d0 \in inv
  BY <1>2, <1>11, <1>13 DEF d0
<1> DEFINE rank == [d \in D |-> n + 1 - off[d]]
           I == {d \in D : off[d] <= n /\ d \in inv}
<1>15. rank \in [D -> Nat]
  <2>1. \A d \in D : off[d] \in Nat /\ off[d] <= n + 1
    BY <1>2
  <2>2. n \in Nat
    BY <1>1
  <2> HIDE DEF n, Body
  <2>3. \A d \in D : n + 1 - off[d] \in Nat
    BY <2>1, <2>2
  <2> QED
    BY <2>3
<1>16. \A d \in D : d \notin stop => nxt[d] \in D /\ rank[nxt[d]] < rank[d]
  <2> SUFFICES ASSUME NEW d \in D, d \notin stop PROVE nxt[d] \in D /\ rank[nxt[d]] < rank[d]
    OBVIOUS
  <2>1. nxt[d] \in D /\ off[d] < off[nxt[d]]
    BY <1>6
  <2>2. rank[d] = n + 1 - off[d] /\ rank[nxt[d]] = n + 1 - off[nxt[d]]
    BY <2>1
  <2>3. off[d] \in Nat /\ off[nxt[d]] \in Nat /\ n \in Nat
    BY <1>1, <1>4, <2>1
  <2> HIDE DEF n, rank, Res, Body
  <2> QED
    BY <2>1, <2>2, <2>3
<1>17. \A d \in D : d \in I <=> off[d] <= n /\ d \in inv
  OBVIOUS
<1>18. \A d \in D : d \notin stop /\ d \in I => nxt[d] \in I
  <2> SUFFICES ASSUME NEW d \in D, d \notin stop, d \in I PROVE nxt[d] \in I
    OBVIOUS
  <2>1. off[d] <= n /\ d \in inv
    BY <1>17
  <2>2. nxt[d] \in D /\ off[nxt[d]] <= n
    BY <1>6, <2>1
  <2>3. nxt[d] \in inv
    BY <1>2, <1>3, <2>1
  <2> QED
    BY <1>17, <2>2, <2>3
<1>19. d0 \in I
  BY <1>12, <1>13, <1>14, <1>17
<1>20. \A d \in D : rank[d] = n + 1 - off[d]
  OBVIOUS
<1> HIDE DEF rank, I
<1>21. PICK e \in D : e \in I /\ e \in stop /\ rank[e] <= rank[d0] /\ g[d0] = res[e]
  <2>1. Turns(D, stop, res, nxt, g)
    BY <1>7, <1>10, Zenon
  <2> HIDE DEF n
  <2> QED
    BY <1>13, <1>15, <1>16, <1>18, <1>19, <2>1, LoopKeeps, SMT
<1>22. off[d0] <= off[e] /\ off[e] <= n /\ e \in inv
  <2>1. rank[e] = n + 1 - off[e] /\ rank[d0] = n + 1 - off[d0] /\ off[e] \in Nat /\ off[d0] \in Nat
    BY <1>4, <1>13, <1>20
  <2> QED
    BY <1>1, <1>17, <1>21, <2>1
<1>23. From(p0, e[1])
  BY <1>2, <1>12, <1>14, <1>22 DEF From, Inside
<1>24. RawEnd = g
  BY Zenon DEF RawEnd, g, Is, D, HTMLModes, HTMLRawName, HTMLIsRaw
<1>25. g[d0] = Res(e) /\ e[2] \in HTMLModes /\ e[3] \in BOOLEAN
  BY <1>2, <1>21
<1>26. RawEnd[d0] = Res(e) /\ HTMLRawStop(e)
  BY <1>3, <1>21, <1>24, <1>25
<1> QED
  BY <1>22, <1>23, <1>25, <1>26, Zenon DEF d0

LEMMA HTMLRawEnd ==
    ASSUME Fits(src), TemplatesFit, NEW p0, Inside(p0)
    PROVE  From(p0, RawEnd[<<p0, "text", FALSE>>].end)
<1> DEFINE inv == Nat \X HTMLModes \X BOOLEAN
           d0 == <<p0, "text", FALSE>>
<1>1. d0 \in inv
  BY DEF Inside, HTMLModes
<1>2. ASSUME NEW d, d \in inv /\ d[1] \in Nat /\ d[2] \in HTMLModes /\ d[3] \in BOOLEAN /\ ~HTMLRawStop(d)
      PROVE  HTMLRawNext(d) \in inv
  <2>1. PICK a, b, c : HTMLRawNext(d) = <<a, b, c>> /\ b \in HTMLModes /\ c \in BOOLEAN /\ From(d[1], a)
    BY <1>2, HTMLRawAdvances, Zenon
  <2>2. a \in Nat
    BY <2>1 DEF From, Inside
  <2> QED
    BY <2>1, <2>2
<1> HIDE DEF inv
<1>3. PICK e : From(p0, e[1]) /\ RawEnd[d0] = [end |-> e[1], hasTmpl |-> e[3]]
  BY <1>1, <1>2, HTMLRawLoop, Zenon
<1> QED
  BY <1>3

HTMLForeignStop(d) ==
    /\ At(d[1]) # "\""
    /\ IF ~d[2] /\ AtAll(d[1], <<"<", "/">>)
       THEN Text(d[1] + 2, Past(d[1] + 2, Letters)) = TagName
       ELSE At(d[1]) = NUL \/ d[1] > Len(src)

HTMLForeignNext(d) ==
    IF At(d[1]) = "\"" THEN <<d[1] + 1, ~d[2]>>
    ELSE IF ~d[2] /\ AtAll(d[1], <<"<", "/">>) THEN <<Past(d[1] + 2, Letters), d[2]>>
    ELSE <<d[1] + 1, d[2]>>

LEMMA HTMLForeignAdvances ==
    ASSUME Fits(src), NEW d, d[1] \in Nat, d[2] \in BOOLEAN, ~HTMLForeignStop(d)
    PROVE  \E a, b : HTMLForeignNext(d) = <<a, b>> /\ b \in BOOLEAN /\ From(d[1], a) /\ d[1] < a
<1> DEFINE p == d[1]
<1>1. p \in Nat
  OBVIOUS
<1>2. CASE At(p) = "\""
  <2>1. Inside(p) /\ Inside(p + 1)
    <3>1. At(p) \notin {"nul", "panic"}
      BY <1>2
    <3> QED
      BY <1>1, <3>1, HTMLChar
  <2>2. From(p, p + 1) /\ p < p + 1
    <3>1. p < p + 1
      BY <1>1
    <3> QED
      BY <2>1, <3>1, FromNext
  <2>3. HTMLForeignNext(d) = <<p + 1, ~d[2]>> /\ (~d[2]) \in BOOLEAN
    BY <1>2 DEF HTMLForeignNext
  <2> QED
    BY <2>2, <2>3, Zenon
<1>3. CASE At(p) # "\"" /\ ~d[2] /\ AtAll(p, <<"<", "/">>)
  <2> DEFINE q == Past(p + 2, Letters)
  <2>1. IsWord(<<"<", "/">>, 2)
    BY Words DEF NUL
  <2>2. p + 2 <= Len(src) /\ Len(src) \in Nat
    BY <1>1, <1>3, <2>1, WordFits, SourceFacts
  <2>3. Inside(p) /\ From(p, p + 2) /\ p < p + 2 /\ Inside(p + 2)
    <3>1. p + 2 \in Nat /\ p <= Len(src) /\ p <= p + 2 /\ p < p + 2
      BY <1>1, <2>2
    <3> QED
      BY <1>1, <2>2, <3>1 DEF From, Inside
  <2>4. From(p + 2, q)
    BY <2>3, HTMLPastFrom, HTMLOfChars
  <2> HIDE DEF q
  <2>5. From(p, q) /\ p < q
    BY <2>3, <2>4, FromBeyond
  <2>6. HTMLForeignNext(d) = <<q, d[2]>>
    BY <1>3 DEF HTMLForeignNext, q
  <2> QED
    BY <2>5, <2>6, Zenon
<1>4. CASE At(p) # "\"" /\ ~(~d[2] /\ AtAll(p, <<"<", "/">>))
  <2>1. At(p) # NUL /\ ~(p > Len(src))
    BY <1>4, Zenon DEF HTMLForeignStop
  <2>2. Inside(p) /\ Inside(p + 1)
    <3>1. At(p) \notin {"nul", "panic"}
      BY <1>1, <2>1, AtFacts DEF NUL
    <3> QED
      BY <1>1, <3>1, HTMLChar
  <2>3. From(p, p + 1) /\ p < p + 1
    <3>1. p < p + 1
      BY <1>1
    <3> QED
      BY <2>2, <3>1, FromNext
  <2>4. HTMLForeignNext(d) = <<p + 1, d[2]>>
    BY <1>4, Zenon DEF HTMLForeignNext
  <2> QED
    BY <2>3, <2>4, Zenon
<1> QED
  BY <1>2, <1>3, <1>4

HTMLForeignAnswer(d) ==
    IF ~d[2] /\ AtAll(d[1], <<"<", "/">>) THEN HTMLForeignScan(Past(d[1] + 2, Letters)) ELSE d[1]

\* Foreign content ends at the end of a tag or at a NUL.
LEMMA HTMLForeignAnswered ==
    ASSUME Fits(src), NEW d, Inside(d[1]), HTMLForeignStop(d)
    PROVE  From(d[1], HTMLForeignAnswer(d)) /\ At(HTMLForeignAnswer(d)) \in {">", NUL}
<1> DEFINE p == d[1]
<1>1. p \in Nat /\ p <= Len(src) /\ Len(src) \in Nat
  BY SourceFacts DEF Inside
<1>2. CASE ~d[2] /\ AtAll(p, <<"<", "/">>)
  <2> DEFINE q == Past(p + 2, Letters)
             e == HTMLForeignScan(q)
  <2>1. IsWord(<<"<", "/">>, 2)
    BY Words DEF NUL
  <2>2. p + 2 <= Len(src)
    BY <1>1, <1>2, <2>1, WordFits
  <2>3. From(p, p + 2) /\ Inside(p + 2)
    <3>1. p + 2 \in Nat /\ p <= p + 2
      BY <1>1
    <3> QED
      BY <2>2, <3>1 DEF From, Inside
  <2>4. From(p + 2, q)
    BY <2>3, HTMLPastFrom, HTMLOfChars
  <2> HIDE DEF q
  <2>5. From(q, e) /\ At(e) \in {">", NUL}
    <3>1. q \in Nat /\ q <= Len(src)
      BY <2>4 DEF From, Inside
    <3>2. e \in Nat /\ q <= e /\ e <= Len(src) /\ At(e) \in {">", NUL}
      BY <3>1, HTMLForeignStops, Zenon
    <3> QED
      BY <3>2 DEF From, Inside
  <2>6. HTMLForeignAnswer(d) = e
    BY <1>2 DEF HTMLForeignAnswer, q
  <2> HIDE DEF e
  <2>7. From(p, e)
    BY <2>3, <2>4, <2>5, FromFrom
  <2> QED
    BY <2>5, <2>6, <2>7
<1>3. CASE ~(~d[2] /\ AtAll(p, <<"<", "/">>))
  <2>1. At(p) = NUL \/ p > Len(src)
    BY <1>3, Zenon DEF HTMLForeignStop
  <2>2. At(p) = NUL
    BY <1>1, <2>1
  <2>3. HTMLForeignAnswer(d) = p
    BY <1>3, Zenon DEF HTMLForeignAnswer
  <2> QED
    BY <2>2, <2>3, FromItself
<1> QED
  BY <1>2, <1>3

LEMMA HTMLForeignEnd ==
    ASSUME Fits(src), NEW p0, Inside(p0)
    PROVE  From(p0, ForeignEnd[<<p0, FALSE>>]) /\ At(ForeignEnd[<<p0, FALSE>>]) \in {">", NUL}
<1> DEFINE n == Len(src)
           D == Offsets \X BOOLEAN
           off == [d \in D |-> d[1]]
           stop == {d \in D : HTMLForeignStop(d)}
           res == [d \in D |-> HTMLForeignAnswer(d)]
           nxt == [d \in D |-> HTMLForeignNext(d)]
           Body(f, d) ==
             IF At(d[1]) = "\"" THEN f[<<d[1] + 1, ~d[2]>>]
             ELSE IF ~d[2] /\ AtAll(d[1], <<"<", "/">>)
                  THEN IF Text(d[1] + 2, Past(d[1] + 2, Letters)) = TagName
                       THEN HTMLForeignScan(Past(d[1] + 2, Letters))
                       ELSE f[<<Past(d[1] + 2, Letters), d[2]>>]
             ELSE IF At(d[1]) = NUL \/ d[1] > Len(src) THEN d[1]
             ELSE f[<<d[1] + 1, d[2]>>]
           Is(f) == f = [d \in D |-> Body(f, d)]
           g == CHOOSE f : Is(f)
<1>1. n \in Nat /\ Offsets = 0..(n + 1)
  BY SourceFacts DEF Offsets
<1>2. \A d \in D : /\ d[1] \in Nat /\ d[1] <= n + 1 /\ d[2] \in BOOLEAN
                   /\ off[d] = d[1] /\ nxt[d] = HTMLForeignNext(d) /\ res[d] = HTMLForeignAnswer(d)
  BY <1>1
<1>3. \A d \in D : d \in stop <=> HTMLForeignStop(d)
  OBVIOUS
<1>4. off \in [D -> Nat]
  BY <1>1
<1>5. \A d : d \in D <=> d = <<d[1], d[2]>> /\ d[1] \in 0..(n + 1) /\ d[2] \in BOOLEAN
  BY <1>1
<1> HIDE DEF off, stop, res, nxt, D, Is, g
<1>6. ASSUME NEW d \in D, d \notin stop
      PROVE  nxt[d] \in D /\ off[d] < off[nxt[d]] /\ (off[d] <= n => off[nxt[d]] <= n)
  <2>1. d[1] \in Nat /\ d[2] \in BOOLEAN /\ off[d] = d[1] /\ nxt[d] = HTMLForeignNext(d)
    BY <1>2
  <2>2. ~HTMLForeignStop(d)
    BY <1>3, <1>6
  <2>3. PICK a, b : HTMLForeignNext(d) = <<a, b>> /\ b \in BOOLEAN /\ From(d[1], a) /\ d[1] < a
    BY <2>1, <2>2, HTMLForeignAdvances
  <2>4. a \in Nat /\ a <= n /\ a \in 0..(n + 1)
    BY <1>1, <2>3 DEF From, Inside
  <2> DEFINE e == nxt[d]
  <2>5. e = <<a, b>>
    BY <2>1, <2>3
  <2> HIDE DEF e
  <2>6. e[1] = a /\ e[2] = b /\ e = <<e[1], e[2]>>
    BY <2>5
  <2>7. e \in D
    BY <1>5, <2>3, <2>4, <2>6
  <2>8. off[e] = a
    BY <1>2, <2>6, <2>7
  <2>9. off[d] < off[e] /\ off[e] <= n
    BY <2>1, <2>3, <2>4, <2>8
  <2> QED
    BY <2>7, <2>9 DEF e
<1>7. ASSUME NEW f PROVE Is(f) <=> Turns(D, stop, res, nxt, f)
  <2>1. ASSUME NEW d \in D PROVE Body(f, d) = (IF d \in stop THEN res[d] ELSE f[nxt[d]])
    <3>1. d \in stop <=> HTMLForeignStop(d)
      BY <1>3
    <3>2. res[d] = HTMLForeignAnswer(d) /\ nxt[d] = HTMLForeignNext(d)
      BY <1>2
    <3>3. CASE HTMLForeignStop(d)
      <4>1. Body(f, d) = HTMLForeignAnswer(d)
        BY <3>3, Zenon DEF HTMLForeignStop, HTMLForeignAnswer
      <4> HIDE DEF Body
      <4> QED
        BY <3>1, <3>2, <3>3, <4>1, Zenon
    <3>4. CASE ~HTMLForeignStop(d)
      <4>1. Body(f, d) = f[HTMLForeignNext(d)]
        BY <3>4, Zenon DEF HTMLForeignStop, HTMLForeignNext
      <4> HIDE DEF Body
      <4> QED
        BY <3>1, <3>2, <3>4, <4>1, Zenon
    <3> QED
      BY <3>3, <3>4
  <2> HIDE DEF Body
  <2>2. [d \in D |-> Body(f, d)] = [d \in D |-> IF d \in stop THEN res[d] ELSE f[nxt[d]]]
    BY <2>1, Zenon
  <2> QED
    BY <2>2, Zenon DEF Turns, Is
<1>8. Nears(n, D, off, stop, nxt)
  <2>1. \A d \in D : off[d] <= n + 1
    BY <1>2
  <2> QED
    BY <1>6, <2>1, Zenon DEF Nears
<1>9. /\ \E f : Turns(D, stop, res, nxt, f)
      /\ \A f : Turns(D, stop, res, nxt, f) => Reaches(n, D, off, stop, res, f)
  <2> HIDE DEF n
  <2> QED
    BY <1>1, <1>4, <1>8, RangeLoop, Zenon
<1>10. Is(g)
  BY <1>7, <1>9, Zenon DEF g
<1> DEFINE d0 == <<p0, FALSE>>
<1>11. d0[1] = p0 /\ d0[2] = FALSE /\ d0 = <<d0[1], d0[2]>>
  OBVIOUS
<1>12. p0 \in Nat /\ p0 <= n
  BY DEF Inside
<1> HIDE DEF d0
<1>13. d0 \in D
  <2>1. d0[1] \in 0..(n + 1) /\ d0[2] \in BOOLEAN
    <3> HIDE DEF n, Body
    <3>1. p0 \in 0..(n + 1) /\ FALSE \in BOOLEAN
      BY <1>1, <1>12 DEF n
    <3> QED
      BY <1>11, <1>12, <3>1, Zenon
  <2> HIDE DEF n
  <2> QED
    BY <1>5, <1>11, <2>1, Zenon
<1>14. off[d0] = p0
  BY <1>2, <1>11, <1>13
<1>15. PICK e \in D : e \in stop /\ off[d0] <= off[e] /\ off[e] <= n /\ g[d0] = res[e]
  <2>1. off[d0] <= n
    BY <1>12, <1>14
  <2> HIDE DEF n
  <2> QED
    BY <1>7, <1>9, <1>10, <1>13, <2>1, Zenon DEF Reaches
<1>16. From(p0, e[1])
  BY <1>2, <1>12, <1>14, <1>15 DEF From, Inside
<1>17. ForeignEnd = g
  BY Zenon DEF ForeignEnd, g, Is, D, HTMLForeignScan
<1>18. g[d0] = HTMLForeignAnswer(e) /\ HTMLForeignStop(e)
  BY <1>2, <1>3, <1>15
<1>19. From(e[1], HTMLForeignAnswer(e)) /\ At(HTMLForeignAnswer(e)) \in {">", NUL}
  BY <1>16, <1>18, HTMLForeignAnswered DEF From
<1>20. From(p0, HTMLForeignAnswer(e))
  BY <1>16, <1>19, FromFrom
<1> QED
  BY <1>17, <1>18, <1>19, <1>20 DEF d0

\* The steps of html/lex.go, one after the other.
LEMMA HTMLTagRest ==
    ASSUME InSource
    PROVE  /\ From(pos, TagRest) /\ BlanksBetween(pos, TagRest) /\ At(TagRest) \notin WS
<1>1. Fits(src) /\ pos \in Nat /\ pos <= Len(src)
  BY SourceKept
<1>2. TagRest = Past(pos, WS)
  BY DEF TagRest
<1>3. NUL \notin WS /\ \A c \in WS : c = " "
  BY DEF WS, NUL
<1> HIDE DEF InSource
<1>4. /\ TagRest \in Nat /\ pos <= TagRest /\ TagRest <= Len(src)
      /\ At(TagRest) \notin WS
      /\ \A r \in pos..(TagRest - 1) : At(r) \in WS
  BY <1>1, <1>2, <1>3, HTMLPast
<1>5. BlanksBetween(pos, TagRest)
  BY <1>3, <1>4, Zenon DEF BlanksBetween
<1> QED
  BY <1>4, <1>5 DEF From, Inside

LEMMA HTMLInside ==
    ASSUME Calling PROVE Fits(src) /\ Inside(pos) /\ InSource
  BY SourceKept DEF Calling, Inside

\* The two ways in which a token that begins at pos, or after blanks, is answered.
LEMMA HTMLAnswer ==
    ASSUME Calling, NEW type, NEW hi, NEW data, type # "none", From(pos, hi), pos < hi,
           Answers(type, pos, hi, data)
    PROVE  Promise!Next /\ InSource'
  BY AnswerStep DEF From, Inside

LEMMA HTMLInTagError == ASSUME Calling, InTagError PROVE Promise!Next /\ InSource'
<1>1. At(TagRest) = NUL /\ Fails(TagRest)
  BY DEF InTagError, Ended
<1>2. TagRest \in Nat /\ pos <= TagRest /\ TagRest <= Len(src) /\ BlanksBetween(pos, TagRest)
  BY HTMLInside, HTMLTagRest DEF From, Inside
<1> QED
  BY <1>1, <1>2, FailStep

LEMMA HTMLAttribute == ASSUME Calling, TemplatesFit, Attribute PROVE Promise!Next /\ InSource'
<1> DEFINE rest == TagRest
           hi == AttributeAt(rest).end
           data == [value |-> AttributeAt(rest).value, hasTmpl |-> AttributeAt(rest).hasTmpl]
<1>1. ~Ended(rest) /\ ~TagIsClosing(rest) /\ Answers("Attribute", pos, hi, data)
  BY Zenon DEF Attribute
<1>2. Fits(src) /\ Inside(pos) /\ From(pos, rest) /\ At(rest) \notin WS
  BY HTMLInside, HTMLTagRest
<1> HIDE DEF rest
<1>3. From(rest, hi) /\ rest < hi
  <2>1. Inside(rest)
    BY <1>2 DEF From
  <2> QED
    BY <1>1, <1>2, <2>1, HTMLAttributeEnd
<1> HIDE DEF hi, data
<1>4. From(pos, hi) /\ pos < hi
  BY <1>2, <1>3 DEF From, Inside
<1> QED
  BY <1>1, <1>4, HTMLAnswer

LEMMA HTMLTagClose == ASSUME Calling, TagClose PROVE Promise!Next /\ InSource'
<1> DEFINE rest == TagRest
<1>1. /\ TagIsClosing(rest)
      /\ IF At(rest) = "/" THEN Answers("StartTagVoid", rest, rest + 2, <<>>)
                           ELSE Answers("StartTagClose", rest, rest + 1, <<>>)
  BY Zenon DEF TagClose
<1>2. Fits(src) /\ Inside(pos) /\ From(pos, rest) /\ BlanksBetween(pos, rest)
  BY HTMLInside, HTMLTagRest
<1> HIDE DEF rest
<1>3. rest \in Nat /\ pos <= rest /\ rest < rest + 1 /\ rest < rest + 2 /\ rest + 1 \in Nat
        /\ rest + 2 \in Nat
  BY <1>2 DEF From, Inside
<1>4. CASE At(rest) = "/"
  <2>1. AtAll(rest, <<"/", ">">>)
    <3>1. At(rest) = "/" /\ At(rest + 1) = ">"
      BY <1>1, <1>4 DEF TagIsClosing
    <3>2. \A i \in 1..2 : i = 1 \/ i = 2
      OBVIOUS
    <3>3. rest + 1 - 1 = rest /\ rest + 2 - 1 = rest + 1 /\ Len(<<"/", ">">>) = 2
      BY <1>3
    <3> DEFINE w == <<"/", ">">>
    <3>4. w[1] = "/" /\ w[2] = ">" /\ Len(w) = 2
      OBVIOUS
    <3> HIDE DEF w
    <3>5. \A i \in 1..Len(w) : At(rest + i - 1) = w[i]
      BY <3>1, <3>2, <3>3, <3>4
    <3> QED
      BY <3>5 DEF AtAll, w
  <2>2. IsWord(<<"/", ">">>, 2)
    BY Words DEF NUL
  <2>3. rest + 2 <= Len(src)
    BY <1>2, <1>3, <2>1, <2>2, WordFits
  <2>4. Answers("StartTagVoid", rest, rest + 2, <<>>)
    BY <1>1, <1>4
  <2> QED
    BY <1>2, <1>3, <2>3, <2>4, AnswerAfterBlanks
<1>5. CASE At(rest) # "/"
  <2>1. At(rest) = ">"
    BY <1>1, <1>5 DEF TagIsClosing
  <2>2. rest + 1 <= Len(src)
    BY <1>2, <1>3, <2>1, CharFits DEF NUL
  <2>3. Answers("StartTagClose", rest, rest + 1, <<>>)
    BY <1>1, <1>5
  <2> QED
    BY <1>2, <1>3, <2>2, <2>3, AnswerAfterBlanks
<1> QED
  BY <1>4, <1>5

LEMMA HTMLRawText == ASSUME Calling, TemplatesFit, RawText PROVE Promise!Next /\ InSource'
<1> DEFINE hi == ShiftRawText.end
           data == [raw |-> rawTag, hasTmpl |-> ShiftRawText.hasTmpl]
<1>1. hi > pos /\ Answers("Text", pos, hi, data)
  BY Zenon DEF RawText, InRawText
<1>2. Fits(src) /\ Inside(pos) /\ pos \in Nat /\ pos <= Len(src)
  BY HTMLInside DEF Inside
<1>3. From(pos, hi)
  <2>1. CASE rawTag = "plaintext"
    <3>1. hi = HTMLEndScan(pos)
      BY <2>1 DEF ShiftRawText, HTMLEndScan
    <3>2. HTMLEndScan(pos) \in Nat /\ pos <= HTMLEndScan(pos) /\ HTMLEndScan(pos) <= Len(src)
      BY <1>2, HTMLEndStops, Zenon
    <3> QED
      BY <3>1, <3>2 DEF From, Inside
  <2>2. CASE rawTag # "plaintext"
    <3>1. hi = RawEnd[<<pos, "text", FALSE>>].end
      BY <2>2, Zenon DEF ShiftRawText
    <3> QED
      BY <1>2, <3>1, HTMLRawEnd
  <2> QED
    BY <2>1, <2>2
<1> HIDE DEF hi, data
<1>4. pos < hi
  BY <1>1, <1>2, <1>3 DEF From, Inside
<1> QED
  BY <1>1, <1>3, <1>4, HTMLAnswer

LEMMA HTMLContentError == ASSUME Calling, ContentError PROVE Promise!Next /\ InSource'
<1>1. At(pos) = NUL /\ Fails(pos)
  BY DEF ContentError, Ended
<1>2. pos \in Nat /\ pos <= pos /\ pos <= Len(src) /\ BlanksBetween(pos, pos)
  BY SourceKept DEF Calling
<1> QED
  BY <1>1, <1>2, FailStep

LEMMA HTMLPlainText == ASSUME Calling, PlainText PROVE Promise!Next /\ InSource'
<1> DEFINE hi == HTMLTextScan(pos)
<1>1. TextEnd = hi
  BY DEF TextEnd, HTMLTextScan
<1>2. hi > pos /\ Answers("Text", pos, hi, <<>>)
  BY <1>1, Zenon DEF PlainText
<1>3. Fits(src) /\ pos \in Nat /\ pos <= Len(src)
  BY HTMLInside DEF Inside
<1>4. hi \in Nat /\ pos <= hi /\ hi <= Len(src)
  BY <1>3, HTMLTextStops, Zenon
<1> HIDE DEF hi
<1>5. From(pos, hi) /\ pos < hi
  BY <1>2, <1>3, <1>4 DEF From, Inside
<1> QED
  BY <1>2, <1>5, HTMLAnswer

LEMMA HTMLTemplate == ASSUME Calling, TemplatesFit, Template PROVE Promise!Next /\ InSource'
<1>1. AtTemplate(pos) /\ Answers("Template", pos, PastTemplate(pos), <<>>)
  BY DEF Template
<1>2. Fits(src) /\ pos \in Nat
  BY HTMLInside DEF Inside
<1>3. From(pos, PastTemplate(pos)) /\ pos < PastTemplate(pos)
  BY <1>1, <1>2, HTMLPastTemplate
<1> QED
  BY <1>1, <1>3, HTMLAnswer

LEMMA HTMLToGT == ASSUME Fits(src), NEW p, Inside(p) PROVE From(p, ToGT(p))
<1> DEFINE q == HTMLGTScan(p)
<1>1. ToGT(p) = IF At(q) = ">" THEN q + 1 ELSE q
  BY Zenon DEF ToGT, HTMLGTScan
<1>2. From(p, q)
  <2>1. p \in Nat /\ p <= Len(src)
    BY DEF Inside
  <2> QED
    BY <2>1, HTMLGTStops, Zenon DEF From, Inside
<1> HIDE DEF q
<1>3. q \in Nat /\ Inside(q)
  BY <1>2 DEF From, Inside
<1>4. CASE At(q) = ">"
  <2>1. At(q) \notin {"nul", "panic"}
    BY <1>4
  <2>2. From(q, q + 1)
    BY <1>3, <2>1, HTMLChar, FromNext
  <2> QED
    BY <1>1, <1>2, <1>4, <2>2, FromFrom
<1> QED
  BY <1>1, <1>2, <1>4

LEMMA HTMLToWord ==
    ASSUME Fits(src), NEW p, Inside(p), NEW words, \A w \in words : \E k : IsWord(w, k)
    PROVE  From(p, ToWord(p, words))
<1> DEFINE q == HTMLWordScan(p, words)
           w == CHOOSE w \in words : AtAll(q, w)
<1>1. ToWord(p, words) = IF Over(q) THEN q ELSE q + Len(w)
  BY Zenon DEF ToWord, HTMLWordScan
<1>2. From(p, q) /\ (Ended(q) \/ \E v \in words : AtAll(q, v))
  <2>1. p \in Nat /\ p <= Len(src)
    BY DEF Inside
  <2> QED
    BY <2>1, HTMLWordStops, Zenon DEF From, Inside
<1> HIDE DEF q
<1>3. CASE ~Over(q)
  <2>1. \E v \in words : AtAll(q, v)
    BY <1>2, <1>3 DEF Over
  <2>2. w \in words /\ AtAll(q, w)
    BY <2>1, Zenon
  <2> HIDE DEF w
  <2>3. PICK k : IsWord(w, k)
    BY <2>2
  <2>4. Len(w) = k
    BY <2>3 DEF IsWord
  <2>5. Inside(q)
    BY <1>2 DEF From
  <2>6. From(q, q + k)
    BY <2>2, <2>3, <2>5, HTMLAfterWord
  <2> QED
    BY <1>1, <1>2, <1>3, <2>4, <2>6, FromFrom
<1> QED
  BY <1>1, <1>2, <1>3

\* Markup begins with a character and another.
LEMMA HTMLMarkup ==
    ASSUME Calling, NEW first, NUL \notin first, "panic" \notin first, MarkupAt(first)
    PROVE  /\ Fits(src) /\ Inside(pos) /\ Inside(pos + 1) /\ Inside(pos + 2)
           /\ From(pos, pos + 1) /\ pos < pos + 1 /\ From(pos, pos + 2) /\ pos < pos + 2
           /\ pos \in Nat /\ pos + 1 \in Nat /\ pos + 2 \in Nat
<1>1. At(pos) = "<" /\ At(pos + 1) \in first
  BY DEF MarkupAt, IsMarkup
<1>2. Fits(src) /\ Inside(pos) /\ pos \in Nat
  BY HTMLInside DEF Inside
<1>3. Inside(pos + 1) /\ pos + 1 \in Nat
  <2>1. At(pos) \notin {"nul", "panic"}
    BY <1>1
  <2> QED
    BY <1>2, <2>1, HTMLChar
<1>4. Inside(pos + 2) /\ pos + 2 \in Nat
  <2>1. At(pos + 1) \notin {"nul", "panic"}
    BY <1>1 DEF NUL
  <2>2. Inside(pos + 1 + 1) /\ pos + 1 + 1 = pos + 2 /\ pos + 2 \in Nat
    BY <1>2, <1>3, <2>1, HTMLChar
  <2> QED
    BY <2>2
<1>5. pos <= pos + 1 /\ pos < pos + 1 /\ pos <= pos + 2 /\ pos < pos + 2
  BY <1>2
<1> QED
  BY <1>2, <1>3, <1>4, <1>5 DEF From

\* A token of which the end is found from beyond its begin is not empty.
LEMMA HTMLAnswerFrom ==
    ASSUME Calling, NEW type, type # "none", NEW p, NEW hi, NEW data, Inside(pos), From(pos, p), pos < p,
           From(p, hi), Answers(type, pos, hi, data)
    PROVE  Promise!Next /\ InSource'
<1>1. From(pos, hi) /\ pos < hi
  BY FromBeyond
<1> QED
  BY <1>1, HTMLAnswer

LEMMA HTMLEndTag == ASSUME Calling, EndTag PROVE Promise!Next /\ InSource'
<1> DEFINE hi == ToGT(pos + 2)
<1>1. MarkupAt({"/"}) /\ Answers("EndTag", pos, hi, <<>>)
  BY DEF EndTag
<1>2. Fits(src) /\ Inside(pos) /\ Inside(pos + 2) /\ From(pos, pos + 2) /\ pos < pos + 2
  BY <1>1, HTMLMarkup DEF NUL
<1>3. From(pos + 2, hi)
  BY <1>2, HTMLToGT
<1> HIDE DEF hi
<1> QED
  BY <1>1, <1>2, <1>3, HTMLAnswerFrom

LEMMA HTMLBogusComment == ASSUME Calling, BogusComment PROVE Promise!Next /\ InSource'
<1> DEFINE hi == ToGT(pos + 1)
<1>1. PICK c \in {"/", "?", "!"} : MarkupAt({c}) /\ Answers("Comment", pos, hi, <<>>)
  BY Zenon DEF BogusComment
<1>2. Fits(src) /\ Inside(pos) /\ Inside(pos + 1) /\ From(pos, pos + 1) /\ pos < pos + 1
  <2>1. NUL \notin {c} /\ "panic" \notin {c}
    BY <1>1 DEF NUL
  <2> QED
    BY <1>1, <2>1, HTMLMarkup
<1>3. From(pos + 1, hi)
  BY <1>2, HTMLToGT
<1> HIDE DEF hi
<1> QED
  BY <1>1, <1>2, <1>3, HTMLAnswerFrom

LEMMA HTMLComment == ASSUME Calling, Comment PROVE Promise!Next /\ InSource'
<1> DEFINE words == {<<"-", "-", ">">>, <<"-", "-", "!", ">">>}
           hi == ToWord(pos + 4, words)
<1>1. MarkupAt({"!"}) /\ AtAll(pos + 2, <<"-", "-">>) /\ Answers("Comment", pos, hi, <<>>)
  BY DEF Comment
<1>2. Fits(src) /\ Inside(pos) /\ Inside(pos + 2) /\ From(pos, pos + 2) /\ pos < pos + 2 /\ pos \in Nat
  BY <1>1, HTMLMarkup DEF NUL
<1>3. Inside(pos + 4) /\ From(pos, pos + 4) /\ pos < pos + 4
  <2>1. IsWord(<<"-", "-">>, 2)
    BY Words DEF NUL
  <2>2. Inside(pos + 2 + 2) /\ From(pos + 2, pos + 2 + 2) /\ pos + 2 + 2 = pos + 4
    BY <1>1, <1>2, <2>1, HTMLAfterWord
  <2>3. Inside(pos + 4) /\ From(pos + 2, pos + 4)
    BY <2>2
  <2> QED
    BY <1>2, <2>3, FromBeyond
<1>4. From(pos + 4, hi)
  <2>1. IsWord(<<"-", "-", ">">>, 3) /\ IsWord(<<"-", "-", "!", ">">>, 4)
    BY Words DEF NUL
  <2>2. \A w \in words : \E k : IsWord(w, k)
    BY <2>1
  <2> HIDE DEF words
  <2> QED
    BY <1>2, <1>3, <2>2, HTMLToWord
<1> HIDE DEF hi
<1> QED
  BY <1>1, <1>2, <1>3, <1>4, HTMLAnswerFrom

\* After "<!" and a word.
LEMMA HTMLAfterDeclared ==
    ASSUME Calling, MarkupAt({"!"}), At(pos + 2) \notin {"nul", "panic"}
    PROVE  /\ Fits(src) /\ Inside(pos)
           /\ Inside(pos + 3) /\ From(pos, pos + 3) /\ pos < pos + 3
<1>1. Fits(src) /\ Inside(pos) /\ Inside(pos + 2) /\ pos \in Nat /\ pos + 2 \in Nat
  BY HTMLMarkup DEF NUL
<1>2. Inside(pos + 2 + 1) /\ pos + 2 + 1 = pos + 3
  BY <1>1, HTMLChar
<1>3. Inside(pos + 3)
  BY <1>2
<1>4. pos <= pos + 3 /\ pos < pos + 3
  BY <1>1
<1> QED
  BY <1>1, <1>3, <1>4 DEF From

LEMMA HTMLCDATA == ASSUME Calling, CDATA PROVE Promise!Next /\ InSource'
<1> DEFINE words == {<<"]", "]", ">">>}
           hi == ToWord(pos + 3, words)
<1>1. MarkupAt({"!"}) /\ At(pos + 2) = "[CDATA[" /\ Answers("Text", pos, hi, <<>>)
  BY DEF CDATA
<1>2. Fits(src) /\ Inside(pos) /\ Inside(pos + 3) /\ From(pos, pos + 3) /\ pos < pos + 3
  <2>1. At(pos + 2) \notin {"nul", "panic"}
    BY <1>1
  <2> QED
    BY <1>1, <2>1, HTMLAfterDeclared
<1>3. From(pos + 3, hi)
  <2>1. IsWord(<<"]", "]", ">">>, 3)
    BY Words DEF NUL
  <2>2. \A w \in words : \E k : IsWord(w, k)
    BY <2>1
  <2> HIDE DEF words
  <2> QED
    BY <1>2, <2>2, HTMLToWord
<1> HIDE DEF hi
<1> QED
  BY <1>1, <1>2, <1>3, HTMLAnswerFrom

LEMMA HTMLDoctype == ASSUME Calling, Doctype PROVE Promise!Next /\ InSource'
<1> DEFINE hi == ToGT(pos + 3)
<1>1. MarkupAt({"!"}) /\ At(pos + 2) = "doctype" /\ Answers("Doctype", pos, hi, <<>>)
  BY DEF Doctype
<1>2. Fits(src) /\ Inside(pos) /\ Inside(pos + 3) /\ From(pos, pos + 3) /\ pos < pos + 3
  <2>1. At(pos + 2) \notin {"nul", "panic"}
    BY <1>1
  <2> QED
    BY <1>1, <2>1, HTMLAfterDeclared
<1>3. From(pos + 3, hi)
  BY <1>2, HTMLToGT
<1> HIDE DEF hi
<1> QED
  BY <1>1, <1>2, <1>3, HTMLAnswerFrom

LEMMA HTMLTagNameEnd ==
    ASSUME Calling, MarkupAt(Letters)
    PROVE  /\ Fits(src) /\ Inside(pos) /\ pos \in Nat
           /\ From(pos, TagNameEnd) /\ pos < TagNameEnd
<1> DEFINE e == HTMLNameScan(pos + 1)
<1>1. TagNameEnd = e
  BY DEF TagNameEnd, HTMLNameScan
<1>2. NUL \notin Letters /\ "panic" \notin Letters
  BY HTMLOfChars DEF OfChars, NUL
<1>3. Fits(src) /\ Inside(pos) /\ Inside(pos + 1) /\ From(pos, pos + 1) /\ pos < pos + 1 /\ pos \in Nat
  BY <1>2, HTMLMarkup
<1>4. From(pos + 1, e)
  <2>1. pos + 1 \in Nat /\ pos + 1 <= Len(src)
    BY <1>3 DEF Inside
  <2> QED
    BY <1>3, <2>1, HTMLNameStops, Zenon DEF From, Inside
<1> HIDE DEF e
<1>5. From(pos, e) /\ pos < e
  BY <1>3, <1>4, FromBeyond
<1> QED
  BY <1>1, <1>3, <1>5

LEMMA HTMLStartTag == ASSUME Calling, StartTag PROVE Promise!Next /\ InSource'
<1>1. MarkupAt(Letters) /\ Answers("StartTag", pos, TagNameEnd, [name |-> TagName])
  BY Zenon DEF StartTag
<1> QED
  BY <1>1, HTMLTagNameEnd, HTMLAnswer

LEMMA HTMLForeign == ASSUME Calling, Foreign PROVE Promise!Next /\ InSource'
<1> DEFINE e == ForeignRest
           hi == IF At(e) = ">" THEN e + 1 ELSE e
<1>1. /\ MarkupAt(Letters)
      /\ \/ At(e) = NUL /\ ~AtEOF(e) /\ Fails(e)
         \/ Answers("Foreign", pos, hi, [name |-> TagName])
  BY Zenon DEF Foreign
<1>2. /\ Fits(src) /\ Inside(pos) /\ pos \in Nat
      /\ From(pos, TagNameEnd) /\ pos < TagNameEnd
  BY <1>1, HTMLTagNameEnd
<1>3. From(TagNameEnd, e)
  <2>1. Inside(TagNameEnd)
    BY <1>2 DEF From
  <2> QED
    BY <1>2, <2>1, HTMLForeignEnd DEF ForeignRest
<1> HIDE DEF e
<1>4. From(pos, e) /\ pos < e
  BY <1>2, <1>3, FromBeyond
<1>5. e \in Nat /\ Inside(e) /\ e <= Len(src) /\ pos <= e
  BY <1>4 DEF From, Inside
<1>6. From(e, hi)
  <2>1. CASE At(e) = ">"
    <3>1. At(e) \notin {"nul", "panic"}
      BY <2>1
    <3>2. From(e, e + 1)
      BY <1>2, <1>5, <3>1, HTMLChar, FromNext
    <3> QED
      BY <2>1, <3>2
  <2>2. CASE At(e) # ">"
    BY <1>5, <2>2, FromItself
  <2> QED
    BY <2>1, <2>2
<1> HIDE DEF hi
<1>7. CASE Answers("Foreign", pos, hi, [name |-> TagName])
  BY <1>2, <1>4, <1>6, <1>7, HTMLAnswerFrom
<1>8. CASE At(e) = NUL /\ ~AtEOF(e) /\ Fails(e)
  <2>1. e # Len(src)
    BY <1>2, <1>5, <1>8, AtFacts
  <2>2. e + ahead <= Len(src)
    BY <1>5 DEF Calling
  <2> QED
    BY <1>5, <1>8, <2>1, <2>2, StopStep DEF Calling
<1> QED
  BY <1>1, <1>7, <1>8

LEMMA HTMLStep == ASSUME Calling, TemplatesFit, NextToken PROVE Promise!Next /\ InSource'
  BY HTMLInTagError, HTMLAttribute, HTMLTagClose, HTMLRawText, HTMLContentError, HTMLPlainText,
     HTMLTemplate, HTMLEndTag, HTMLBogusComment, HTMLComment, HTMLCDATA, HTMLDoctype, HTMLStartTag,
     HTMLForeign, Zenon DEF NextToken
--------------------------------------------------------------------------------
(* The brackets of js/lex.go                                                *)

\* What append and pop do to a sequence.
LEMMA PopProperties ==
    ASSUME NEW S, NEW s \in Seq(S), s # <<>>
    PROVE  /\ Len(s) \in Nat /\ Len(s) > 0
           /\ Top(s) \in S
           /\ Pop(s) \in Seq(S)
           /\ Len(Pop(s)) = Len(s) - 1
           /\ \A i \in 1..(Len(s) - 1) : Pop(s)[i] = s[i]
<1>1. Len(s) \in Nat /\ Len(s) > 0
  OBVIOUS
<1>2. Top(s) \in S
  BY <1>1 DEF Top
<1> DEFINE n == Len(s) - 1
<1>3. n \in Nat /\ \A i \in 1..n : s[i] \in S
  BY <1>1
<1>4. /\ SubSeq(s, 1, n) \in Seq(S)
      /\ Len(SubSeq(s, 1, n)) = IF 1 <= n THEN n - 1 + 1 ELSE 0
      /\ \A i \in 1..(n - 1 + 1) : SubSeq(s, 1, n)[i] = s[1 + i - 1]
  <2> HIDE DEF n
  <2> QED
    BY <1>3, SubSeqProperties
<1>5. Pop(s) = SubSeq(s, 1, n)
  BY DEF Pop
<1> HIDE DEF n
<1>6. Pop(s) \in Seq(S) /\ Len(Pop(s)) = n
  BY <1>3, <1>4, <1>5
<1>7. \A i \in 1..n : Pop(s)[i] = s[i]
  BY <1>3, <1>4, <1>5
<1> QED
  BY <1>1, <1>2, <1>6, <1>7 DEF n

\* Append and the last element of what it gives.
LEMMA AppendFacts ==
    ASSUME NEW S, NEW s \in Seq(S), NEW x \in S
    PROVE  /\ Len(s) \in Nat
           /\ Append(s, x) \in Seq(S)
           /\ Len(Append(s, x)) = Len(s) + 1
           /\ \A i \in 1..Len(s) : Append(s, x)[i] = s[i]
           /\ Append(s, x)[Len(s) + 1] = x
  OBVIOUS

\* The parts of LevelsNested, for the sequences of one state.
Counts(l, o) == l = Len(o)

Marked(tl, o) ==
    \A k \in 1..Len(tl) : tl[k] + 1 \in 1..Len(o) /\ o[tl[k] + 1] = Substitution

Kept(tl, o) ==
    \A i \in 1..Len(o) : o[i] = Substitution => \E k \in 1..Len(tl) : tl[k] = i - 1

Increasing(tl) == \A j, k \in 1..Len(tl) : j < k => tl[j] < tl[k]

Nested(l, tl, o) == Counts(l, o) /\ Marked(tl, o) /\ Kept(tl, o) /\ Increasing(tl)

LEMMA NestedIsLevelsNested == LevelsNested <=> (balanced => Nested(level, templateLevels, open))
  BY DEF LevelsNested, Nested, Counts, Marked, Kept, Increasing

\* A bracket that is no substitution, opened or closed, leaves the levels of the
\* templates as they are.
LEMMA OpenKeepsNested ==
    ASSUME NEW l \in Int, NEW tl \in Seq(Int), NEW o \in Seq(Kinds), NEW kind \in {Paren, Brace},
           Nested(l, tl, o)
    PROVE  Nested(l + 1, tl, Append(o, kind))
<1> DEFINE p == Append(o, kind)
<1>1. kind \in Kinds /\ kind # Substitution
  BY DEF Kinds, Paren, Brace, Substitution
<1>2. /\ Len(o) \in Nat /\ Len(p) = Len(o) + 1
      /\ \A i \in 1..Len(o) : p[i] = o[i]
      /\ p[Len(o) + 1] = kind
  BY <1>1, AppendFacts
<1> HIDE DEF p
<1>3. Counts(l + 1, p)
  BY <1>2 DEF Nested, Counts
<1>4. Marked(tl, p)
  <2> SUFFICES ASSUME NEW k \in 1..Len(tl)
               PROVE  tl[k] + 1 \in 1..Len(p) /\ p[tl[k] + 1] = Substitution
    BY DEF Marked
  <2>1. tl[k] + 1 \in 1..Len(o) /\ o[tl[k] + 1] = Substitution
    BY DEF Nested, Marked
  <2> QED
    BY <2>1, <1>2
<1>5. Kept(tl, p)
  BY <1>1, <1>2 DEF Nested, Kept
<1>6. Nested(l + 1, tl, p)
  BY <1>3, <1>4, <1>5 DEF Nested
<1> QED
  BY <1>6 DEF p

LEMMA CloseKeepsNested ==
    ASSUME NEW l \in Int, NEW tl \in Seq(Int), NEW o \in Seq(Kinds),
           o # <<>>, Top(o) # Substitution, Nested(l, tl, o)
    PROVE  Nested(l - 1, tl, Pop(o))
<1> DEFINE p == Pop(o)
<1>1. /\ Len(o) \in Nat /\ Len(p) = Len(o) - 1
      /\ \A i \in 1..(Len(o) - 1) : p[i] = o[i]
  BY PopProperties
<1>2. o[Len(o)] # Substitution
  BY DEF Top
<1> HIDE DEF p
<1>3. Counts(l - 1, p)
  BY <1>1 DEF Nested, Counts
<1>4. Marked(tl, p)
  <2> SUFFICES ASSUME NEW k \in 1..Len(tl)
               PROVE  tl[k] + 1 \in 1..Len(p) /\ p[tl[k] + 1] = Substitution
    BY DEF Marked
  <2>1. tl[k] \in Int /\ tl[k] + 1 \in 1..Len(o) /\ o[tl[k] + 1] = Substitution
    BY DEF Nested, Marked
  <2>2. tl[k] + 1 # Len(o)
    BY <2>1, <1>2
  <2> QED
    BY <2>1, <2>2, <1>1
<1>5. Kept(tl, p)
  <2> SUFFICES ASSUME NEW i \in 1..Len(p), p[i] = Substitution
               PROVE  \E k \in 1..Len(tl) : tl[k] = i - 1
    BY DEF Kept
  <2>1. i \in 1..Len(o) /\ o[i] = Substitution
    BY <1>1
  <2> QED
    BY <2>1 DEF Nested, Kept
<1>6. Nested(l - 1, tl, p)
  BY <1>3, <1>4, <1>5 DEF Nested
<1> QED
  BY <1>6 DEF p

\* A template that opens a substitution.
LEMMA StartKeepsNested ==
    ASSUME NEW l \in Int, NEW tl \in Seq(Int), NEW o \in Seq(Kinds), Nested(l, tl, o)
    PROVE  Nested(l + 1, Append(tl, l), Append(o, Substitution))
<1> DEFINE p == Append(o, Substitution)
           q == Append(tl, l)
<1>1. /\ Len(o) \in Nat /\ Len(p) = Len(o) + 1
      /\ \A i \in 1..Len(o) : p[i] = o[i]
      /\ p[Len(o) + 1] = Substitution
  BY AppendFacts DEF Kinds
<1>2. /\ Len(tl) \in Nat /\ Len(q) = Len(tl) + 1
      /\ \A k \in 1..Len(tl) : q[k] = tl[k]
      /\ q[Len(tl) + 1] = l
  BY AppendFacts
<1> HIDE DEF p, q
<1>3. l = Len(o)
  BY DEF Nested, Counts
<1>4. Counts(l + 1, p)
  BY <1>1, <1>3 DEF Counts
<1>5. Marked(q, p)
  <2> SUFFICES ASSUME NEW k \in 1..Len(q)
               PROVE  q[k] + 1 \in 1..Len(p) /\ p[q[k] + 1] = Substitution
    BY DEF Marked
  <2>1. CASE k = Len(q)
    BY <2>1, <1>1, <1>2, <1>3
  <2>2. CASE k # Len(q)
    <3>1. k \in 1..Len(tl) /\ q[k] = tl[k]
      BY <2>2, <1>2
    <3>2. tl[k] + 1 \in 1..Len(o) /\ o[tl[k] + 1] = Substitution
      BY <3>1 DEF Nested, Marked
    <3> QED
      BY <3>1, <3>2, <1>1
  <2> QED
    BY <2>1, <2>2
<1>6. Kept(q, p)
  <2> SUFFICES ASSUME NEW i \in 1..Len(p), p[i] = Substitution
               PROVE  \E k \in 1..Len(q) : q[k] = i - 1
    BY DEF Kept
  <2>1. CASE i = Len(p)
    BY <2>1, <1>1, <1>2, <1>3
  <2>2. CASE i # Len(p)
    <3>1. i \in 1..Len(o) /\ o[i] = Substitution
      BY <2>2, <1>1
    <3>2. PICK k \in 1..Len(tl) : tl[k] = i - 1
      BY <3>1 DEF Nested, Kept
    <3> QED
      BY <3>2, <1>2
  <2> QED
    BY <2>1, <2>2
<1>7. Increasing(q)
  <2> SUFFICES ASSUME NEW j \in 1..Len(q), NEW k \in 1..Len(q), j < k
               PROVE  q[j] < q[k]
    BY DEF Increasing
  <2>1. j \in 1..Len(tl) /\ q[j] = tl[j]
    BY <1>2
  <2>2. tl[j] \in Int /\ tl[j] + 1 \in 1..Len(o)
    BY <2>1 DEF Nested, Marked
  <2>3. CASE k = Len(q)
    BY <2>1, <2>2, <2>3, <1>2, <1>3
  <2>4. CASE k # Len(q)
    <3>1. k \in 1..Len(tl) /\ q[k] = tl[k]
      BY <2>4, <1>2
    <3> QED
      BY <2>1, <3>1 DEF Nested, Increasing
  <2> QED
    BY <2>3, <2>4
<1>8. Nested(l + 1, q, p)
  BY <1>4, <1>5, <1>6, <1>7 DEF Nested
<1> QED
  BY <1>8 DEF p, q

\* The end of a template.
LEMMA EndKeepsNested ==
    ASSUME NEW l \in Int, NEW tl \in Seq(Int), NEW o \in Seq(Kinds), Nested(l, tl, o),
           o # <<>>, tl # <<>>, Top(tl) = l - 1
    PROVE  Nested(l - 1, Pop(tl), Pop(o))
<1> DEFINE p == Pop(o)
           q == Pop(tl)
<1>1. /\ Len(o) \in Nat /\ Len(p) = Len(o) - 1
      /\ \A i \in 1..(Len(o) - 1) : p[i] = o[i]
  BY PopProperties
<1>2. /\ Len(tl) \in Nat /\ Len(tl) > 0 /\ Len(q) = Len(tl) - 1
      /\ \A k \in 1..(Len(tl) - 1) : q[k] = tl[k]
  BY PopProperties
<1>3. tl[Len(tl)] = Len(o) - 1
  BY DEF Top, Nested, Counts
<1> HIDE DEF p, q
<1>4. Counts(l - 1, p)
  BY <1>1 DEF Nested, Counts
<1>5. Marked(q, p)
  <2> SUFFICES ASSUME NEW k \in 1..Len(q)
               PROVE  q[k] + 1 \in 1..Len(p) /\ p[q[k] + 1] = Substitution
    BY DEF Marked
  <2>1. k \in 1..Len(tl) /\ k < Len(tl) /\ q[k] = tl[k]
    BY <1>2
  <2>2. tl[k] < tl[Len(tl)]
    BY <2>1, <1>2 DEF Nested, Increasing
  <2>3. tl[k] \in Int /\ tl[k] + 1 \in 1..Len(o) /\ o[tl[k] + 1] = Substitution
    BY <2>1 DEF Nested, Marked
  <2>4. tl[k] < Len(o) - 1
    BY <2>2, <1>3
  <2>5. tl[k] + 1 \in 1..(Len(o) - 1)
    BY <2>3, <2>4, <1>1
  <2>6. p[tl[k] + 1] = o[tl[k] + 1] /\ Len(p) = Len(o) - 1
    BY <2>5, <1>1
  <2> QED
    BY <2>1, <2>3, <2>5, <2>6
<1>6. Kept(q, p)
  <2> SUFFICES ASSUME NEW i \in 1..Len(p), p[i] = Substitution
               PROVE  \E k \in 1..Len(q) : q[k] = i - 1
    BY DEF Kept
  <2>1. i \in 1..Len(o) /\ i < Len(o) /\ o[i] = Substitution
    BY <1>1
  <2>2. PICK k \in 1..Len(tl) : tl[k] = i - 1
    BY <2>1 DEF Nested, Kept
  <2>3. k # Len(tl)
    BY <2>1, <2>2, <1>3, <1>1
  <2>4. k \in 1..Len(q) /\ q[k] = i - 1
    BY <2>2, <2>3, <1>2
  <2> QED
    BY <2>4
<1>7. Increasing(q)
  <2> SUFFICES ASSUME NEW j \in 1..Len(q), NEW k \in 1..Len(q), j < k
               PROVE  q[j] < q[k]
    BY DEF Increasing
  <2>1. j \in 1..Len(tl) /\ k \in 1..Len(tl) /\ q[j] = tl[j] /\ q[k] = tl[k]
    BY <1>2
  <2> QED
    BY <2>1 DEF Nested, Increasing
<1>8. Nested(l - 1, q, p)
  BY <1>4, <1>5, <1>6, <1>7 DEF Nested
<1> QED
  BY <1>8 DEF p, q

\* The kinds of brackets are these.
LEMMA KindsOK == Paren \in Kinds /\ Brace \in Kinds /\ Substitution \in Kinds
  BY DEF Kinds

\* Closing a bracket keeps the history well typed.
LEMMA CloseOK ==
    ASSUME TypeOK, NEW kind \in Kinds, Close(kind)
    PROVE  open' \in Seq(Kinds) /\ balanced' \in BOOLEAN
<1>1. CASE open # <<>> /\ Top(open) = kind
  BY <1>1, PopProperties DEF TypeOK, Close
<1>2. CASE ~(open # <<>> /\ Top(open) = kind)
  BY <1>2 DEF TypeOK, Close
<1> QED
  BY <1>1, <1>2

\* A step keeps the types.
LEMMA TypeStep ==
    ASSUME TypeOK, Next
    PROVE  TypeOK'
<1>1. ASSUME NEW kind \in {Paren, Brace}, OpenBracket(kind) PROVE TypeOK'
  <2>1. kind \in Kinds
    BY DEF Kinds
  <2> QED
    BY <1>1, <2>1, AppendFacts DEF TypeOK, OpenBracket
<1>2. CASE CloseParen
  <2>1. open' \in Seq(Kinds) /\ balanced' \in BOOLEAN
    BY <1>2, CloseOK, KindsOK DEF CloseParen
  <2> QED
    BY <1>2, <2>1 DEF TypeOK, CloseParen
<1>3. CASE CloseBrace
  <2>1. open' \in Seq(Kinds) /\ balanced' \in BOOLEAN
    BY <1>3, CloseOK, KindsOK DEF CloseBrace
  <2> QED
    BY <1>3, <2>1 DEF TypeOK, CloseBrace
<1>4. CASE WholeTemplate
  BY <1>4 DEF TypeOK, WholeTemplate, brackets
<1>5. CASE StartTemplate
  BY <1>5, KindsOK, AppendFacts DEF TypeOK, StartTemplate
<1>6. CASE MiddleOfTemplate
  BY <1>6 DEF TypeOK, MiddleOfTemplate
<1>7. CASE EndTemplate
  <2>1. open' \in Seq(Kinds) /\ balanced' \in BOOLEAN
    BY <1>7, CloseOK, KindsOK DEF EndTemplate
  <2>2. templateLevels' \in Seq(Int)
    BY <1>7, PopProperties DEF TypeOK, EndTemplate, InTemplate
  <2> QED
    BY <1>7, <2>1, <2>2 DEF TypeOK, EndTemplate
<1>8. CASE BrokenTemplate
  <2>1. open' = open /\ balanced' = FALSE
    BY <1>8 DEF BrokenTemplate
  <2>2. Append(templateLevels, level) \in Seq(Int)
    BY AppendFacts DEF TypeOK
  <2>3. level \in Int /\ level - 1 \in Int /\ templateLevels \in Seq(Int)
    BY DEF TypeOK
  <2>4. CASE level' = level /\ templateLevels' = Append(templateLevels, level)
    BY <2>1, <2>2, <2>3, <2>4 DEF TypeOK
  <2>5. CASE level' = level - 1 /\ templateLevels' = templateLevels
    BY <2>1, <2>3, <2>5 DEF TypeOK
  <2> QED
    BY <1>8, <2>4, <2>5 DEF BrokenTemplate
<1> QED
  BY <1>1, <1>2, <1>3, <1>4, <1>5, <1>6, <1>7, <1>8 DEF Next

\* The variables of js/lex.go keep their types whatever the brackets of a source.
THEOREM BracketsTypeCorrect == Spec => []TypeOK
<1>1. Init => TypeOK
  BY DEF Init, TypeOK
<1>2. TypeOK /\ [Next]_brackets => TypeOK'
  <2> SUFFICES ASSUME TypeOK, [Next]_brackets PROVE TypeOK'
    OBVIOUS
  <2>1. CASE Next
    BY <2>1, TypeStep
  <2>2. CASE UNCHANGED brackets
    BY <2>2 DEF TypeOK, brackets
  <2> QED
    BY <2>1, <2>2
<1> QED
  BY <1>1, <1>2, PTL DEF Spec

Tracked == Nested(level, templateLevels, open)

BracketsInv == TypeOK /\ (balanced => Tracked)

\* While they match, the comparison of the levels finds the substitution that
\* is the innermost open bracket.
LEMMA InTemplateIffSubstitution ==
    ASSUME TypeOK, Tracked
    PROVE  InTemplate <=> (open # <<>> /\ Top(open) = Substitution)
<1>1. level = Len(open) /\ Len(open) \in Nat /\ Len(templateLevels) \in Nat
  BY DEF TypeOK, Tracked, Nested, Counts
<1>2. ASSUME InTemplate PROVE open # <<>> /\ Top(open) = Substitution
  <2> DEFINE k == Len(templateLevels)
  <2>1. k \in 1..Len(templateLevels) /\ templateLevels[k] = level - 1
    BY <1>2, PopProperties DEF TypeOK, InTemplate, Top
  <2>2. templateLevels[k] + 1 \in 1..Len(open) /\ open[templateLevels[k] + 1] = Substitution
    BY <2>1 DEF Tracked, Nested, Marked
  <2> HIDE DEF k
  <2>3. templateLevels[k] + 1 = Len(open)
    BY <2>1, <1>1
  <2>4. Len(open) > 0 /\ open[Len(open)] = Substitution
    BY <2>2, <2>3, <1>1
  <2> QED
    BY <2>4 DEF Top, TypeOK
<1>3. ASSUME open # <<>>, Top(open) = Substitution PROVE InTemplate
  <2>1. Len(open) \in 1..Len(open) /\ open[Len(open)] = Substitution
    BY <1>3, PopProperties DEF TypeOK, Top
  <2>2. PICK k \in 1..Len(templateLevels) : templateLevels[k] = Len(open) - 1
    BY <2>1 DEF Tracked, Nested, Kept
  <2> DEFINE n == Len(templateLevels)
  <2>3. n \in 1..n /\ k \in 1..n /\ templateLevels[n] \in Int
    BY <2>2, <1>1 DEF TypeOK
  <2>4. templateLevels[n] + 1 \in 1..Len(open)
    BY <2>3 DEF Tracked, Nested, Marked
  <2>5. ASSUME k < n PROVE templateLevels[k] < templateLevels[n]
    BY <2>3, <2>5 DEF Tracked, Nested, Increasing
  <2> HIDE DEF n
  <2>6. k = n
    BY <2>2, <2>3, <2>4, <2>5, <1>1
  <2>7. templateLevels # <<>> /\ templateLevels[n] = level - 1
    BY <2>2, <2>3, <2>6, <1>1 DEF n, TypeOK
  <2> QED
    BY <2>7 DEF InTemplate, Top, n
<1> QED
  BY <1>2, <1>3

\* A step that leaves the brackets matching keeps Tracked.
LEMMA TrackedStep ==
    ASSUME BracketsInv, Next, balanced'
    PROVE  Tracked'
<1> USE DEF BracketsInv
<1>1. ASSUME NEW kind \in {Paren, Brace}, OpenBracket(kind) PROVE Tracked'
  <2>1. Tracked
    BY <1>1 DEF OpenBracket
  <2>2. Nested(level + 1, templateLevels, Append(open, kind))
    BY <2>1, OpenKeepsNested DEF TypeOK, Tracked
  <2> QED
    BY <1>1, <2>2 DEF Tracked, OpenBracket
<1>2. ASSUME NEW kind \in {Paren, Brace}, Close(kind),
             level' = level - 1, templateLevels' = templateLevels
      PROVE  Tracked'
  <2>1. open # <<>> /\ Top(open) = kind /\ open' = Pop(open) /\ balanced' = balanced
    BY <1>2 DEF Close
  <2>2. kind # Substitution
    BY DEF Paren, Brace, Substitution
  <2>3. Nested(level - 1, templateLevels, Pop(open))
    BY <2>1, <2>2, CloseKeepsNested DEF TypeOK, Tracked
  <2> QED
    BY <1>2, <2>1, <2>3 DEF Tracked
<1>3. CASE CloseParen
  BY <1>2, <1>3 DEF CloseParen
<1>4. CASE CloseBrace
  BY <1>2, <1>4 DEF CloseBrace
<1>5. CASE WholeTemplate
  BY <1>5 DEF WholeTemplate, brackets, Tracked
<1>6. CASE StartTemplate
  <2>1. Tracked
    BY <1>6 DEF StartTemplate
  <2>2. Nested(level + 1, Append(templateLevels, level), Append(open, Substitution))
    BY <2>1, StartKeepsNested DEF TypeOK, Tracked
  <2> QED
    BY <1>6, <2>2 DEF Tracked, StartTemplate
<1>7. CASE MiddleOfTemplate
  <2>1. balanced
    BY <1>7 DEF MiddleOfTemplate
  <2> QED
    BY <1>7, <2>1 DEF MiddleOfTemplate, Tracked
<1>8. CASE EndTemplate
  <2>1. open # <<>> /\ open' = Pop(open) /\ balanced' = balanced
    BY <1>8 DEF EndTemplate, Close
  <2>2. templateLevels # <<>> /\ Top(templateLevels) = level - 1
    BY <1>8 DEF EndTemplate, InTemplate
  <2>3. Nested(level - 1, Pop(templateLevels), Pop(open))
    BY <2>1, <2>2, EndKeepsNested DEF TypeOK, Tracked
  <2> QED
    BY <1>8, <2>1, <2>3 DEF EndTemplate, Tracked
<1>9. CASE BrokenTemplate
  BY <1>9 DEF BrokenTemplate
<1> QED
  BY <1>1, <1>3, <1>4, <1>5, <1>6, <1>7, <1>8, <1>9 DEF Next

\* The inductive invariant of JSBrackets.
LEMMA BracketsInvHolds == Spec => []BracketsInv
<1>1. Init => BracketsInv
  BY DEF Init, BracketsInv, TypeOK, Tracked, Nested, Counts, Marked, Kept, Increasing
<1>2. BracketsInv /\ [Next]_brackets => BracketsInv'
  <2> SUFFICES ASSUME BracketsInv, [Next]_brackets PROVE BracketsInv'
    OBVIOUS
  <2>1. CASE Next
    <3>1. TypeOK'
      BY <2>1, TypeStep DEF BracketsInv
    <3>2. balanced' => Tracked'
      BY <2>1, TrackedStep
    <3> QED
      BY <3>1, <3>2 DEF BracketsInv
  <2>2. CASE UNCHANGED brackets
    BY <2>2 DEF BracketsInv, TypeOK, brackets, Tracked
  <2> QED
    BY <2>1, <2>2
<1> QED
  BY <1>1, <1>2, PTL DEF Spec

\* The levels of js/lex.go are the places of the substitutions among the open
\* brackets, however deep templates and brackets nest (js/lex.go:161-169, 689-721).
THEOREM BracketsLevelsNested == Spec => []LevelsNested
<1>1. BracketsInv => LevelsNested
  BY NestedIsLevelsNested DEF BracketsInv, Tracked
<1> QED
  BY <1>1, BracketsInvHolds, PTL

\* A brace goes on with a template exactly when the innermost open bracket is the
\* substitution of one (js/lex.go:163-169).
THEOREM BracketsBraceOfTemplate == Spec => []BraceOfTemplate
<1>1. BracketsInv => BraceOfTemplate
  BY InTemplateIffSubstitution DEF BracketsInv, BraceOfTemplate
<1> QED
  BY <1>1, BracketsInvHolds, PTL

\* The lexer has the brackets in common with JSBrackets.
LEMMA SameBrackets == (J!Next <=> Next) /\ (UNCHANGED J!brackets <=> UNCHANGED brackets)
<1>1. UNCHANGED J!brackets <=> UNCHANGED brackets
  BY DEF J!brackets, brackets
<1>2. /\ \A kind : (J!OpenBracket(kind) <=> OpenBracket(kind)) /\ (J!Close(kind) <=> Close(kind))
      /\ J!InTemplate <=> InTemplate
      /\ J!Paren = Paren /\ J!Brace = Brace /\ J!Substitution = Substitution
  BY Zenon DEF J!OpenBracket, OpenBracket, J!Close, Close, J!InTemplate, InTemplate, J!Top, Top, J!Pop, Pop,
     J!Paren, Paren, J!Brace, Brace, J!Substitution, Substitution
<1>3. (J!CloseParen <=> CloseParen) /\ (J!CloseBrace <=> CloseBrace) /\ (J!WholeTemplate <=> WholeTemplate)
  BY <1>1, <1>2, Zenon DEF J!CloseParen, CloseParen, J!CloseBrace, CloseBrace, J!WholeTemplate, WholeTemplate
<1>4. (J!StartTemplate <=> StartTemplate) /\ (J!MiddleOfTemplate <=> MiddleOfTemplate)
  BY <1>2, Zenon DEF J!StartTemplate, StartTemplate, J!MiddleOfTemplate, MiddleOfTemplate, J!Top, Top,
     J!Substitution, Substitution
<1>5. (J!EndTemplate <=> EndTemplate) /\ (J!BrokenTemplate <=> BrokenTemplate)
  BY <1>2, Zenon DEF J!EndTemplate, EndTemplate, J!BrokenTemplate, BrokenTemplate, J!Pop, Pop
<1> QED
  BY <1>1, <1>2, <1>3, <1>4, <1>5, Zenon DEF J!Next, Next

\* Each call does to the brackets what one step of JSBrackets does, or nothing.
LEMMA CallIsStep == ASSUME J!Calls PROVE [J!Next]_(J!brackets)
<1>1. CASE J!OpenParenOrBrace
  BY <1>1, Zenon DEF J!OpenParenOrBrace, J!Next
<1>2. CASE J!CloseParenOrBrace
  BY <1>2, Zenon DEF J!CloseParenOrBrace, J!Next
<1>3. CASE J!TemplateToken
  <2>1. \/ J!EndTemplate \/ J!WholeTemplate \/ J!MiddleOfTemplate \/ J!StartTemplate \/ J!BrokenTemplate
    BY <1>3, Zenon DEF J!TemplateToken
  <2> QED
    BY <2>1, Zenon DEF J!Next
<1>4. CASE J!EndOfFile \/ J!Whitespace \/ J!LineTerminator \/ J!Punctuator \/ J!Number \/ J!String
  BY <1>4, Zenon DEF J!EndOfFile, J!Whitespace, J!LineTerminator, J!Punctuator, J!Number, J!String, J!Plain
<1>5. CASE J!BlockComment \/ J!LineComment \/ J!Operator \/ J!PrivateIdentifier \/ J!Ident \/ J!Unexpected
  BY <1>5, Zenon DEF J!BlockComment, J!LineComment, J!Operator, J!PrivateIdentifier, J!Ident, J!Unexpected, J!Plain
<1>6. CASE J!RegExp
  BY <1>6, Zenon DEF J!RegExp, J!brackets
<1> QED
  BY <1>1, <1>2, <1>3, <1>4, <1>5, <1>6, Zenon DEF J!Calls, J!NextToken

\* js/lex.go counts its brackets as JSBrackets says, for every source.
THEOREM ImplementsBrackets ==
    ASSUME NEW CONSTANT symbols
    PROVE  Starts(symbols) /\ [][LexersNext]_lexersVars => Spec
<1>1. Starts(symbols) => Init
  <2>1. ASSUME NEW l, NEW source, NEW templates, StartsLexer(l, source, templates) PROVE Init
    <3>1. J!Init
      BY <2>1, Zenon DEF StartsLexer, J!InitLexer
    <3> QED
      BY <3>1 DEF J!Init, Init
  <2> QED
    BY <2>1, Zenon DEF Starts
<1>2. [LexersNext]_lexersVars => [Next]_brackets
  <2>1. JS => [Next]_brackets
    <3> SUFFICES ASSUME JS PROVE [Next]_brackets
      OBVIOUS
    <3>1. J!Calls
      BY DEF JS
    <3>2. J!Next \/ UNCHANGED J!brackets
      BY <3>1, CallIsStep
    <3> QED
      BY <3>2, SameBrackets
  <2>2. HTML \/ XML \/ CSS => UNCHANGED brackets
    BY DEF HTML, XML, CSS, script, brackets
  <2>3. UNCHANGED lexersVars => UNCHANGED brackets
    BY DEF lexersVars, script, brackets
  <2> QED
    BY <2>1, <2>2, <2>3 DEF LexersNext, Calls, Done
<1> QED
  BY <1>1, <1>2, PTL DEF Spec

\* In every source, as long as its brackets match, a brace goes on with a
\* template exactly when the innermost open bracket is the substitution of one
\* (js/lex.go:163-169).
THEOREM LexerBraceOfTemplate ==
    ASSUME NEW CONSTANT symbols
    PROVE  Starts(symbols) /\ [][LexersNext]_lexersVars => []BraceOfTemplate
<1>1. Starts(symbols) /\ [][LexersNext]_lexersVars => Spec
  BY ImplementsBrackets
<1> QED
  BY <1>1, BracketsBraceOfTemplate, PTL
--------------------------------------------------------------------------------
(* The refinement                                                           *)

\* What the lexers keep.
LexersInv ==
    /\ InSource
    /\ TemplatesFit
    /\ lang = "js" => Complete(src)
    /\ lang # "js" => ahead = 0

\* html/lex.go does not change the delimiters of templates.
LEMMA TemplatesKept == ASSUME NextToken PROVE tmpl' = tmpl
  BY DEF NextToken, InTagError, Attribute, TagClose, RawText, ContentError, PlainText, Template, EndTag,
     BogusComment, Comment, CDATA, Doctype, StartTag, Foreign, Leaves, lexer

\* No step of Tokenizer changes the source.
LEMMA PromiseKeepsSource == ASSUME Promise!Next PROVE src' = src
  BY DEF Promise!Next, Promise!Token, Promise!Again, Promise!Fail, Promise!Stop

\* The invariant holds at the start,
LEMMA StartsWell ==
    ASSUME NEW symbols, "panic" \notin symbols, Starts(symbols)
    PROVE  LexersInv /\ Promise!Init
<1>1. PICK l \in Languages, source \in Seq(symbols), begin \in Seq(symbols \ {NUL}), end \in Seq(symbols \ {NUL}) :
         /\ l = "js" => Complete(source)
         /\ StartsLexer(l, source, [open |-> begin, close |-> end])
  BY DEF Starts
<1>2. /\ lang = l /\ src = source /\ pos = 0 /\ tok = NoToken /\ ended = FALSE /\ ahead = 0
      /\ tmpl = [open |-> begin, close |-> end]
  BY <1>1 DEF StartsLexer, InitLexer, J!InitLexer, StartsAt
<1>3. Fits(src) /\ Len(src) \in Nat
  BY <1>1, <1>2 DEF Fits
<1>4. TemplatesFit
  <2>1. tmpl.open = begin /\ tmpl.close = end
    BY <1>2
  <2>2. "panic" \notin symbols \ {NUL} /\ NUL \notin symbols \ {NUL}
    OBVIOUS
  <2> QED
    BY <1>1, <2>1, <2>2, Zenon DEF TemplatesFit
<1>5. InSource
  <2>1. TokenFits(tok, pos)
    BY <1>2 DEF TokenFits
  <2>2. pos \in Nat /\ pos <= Len(src) /\ ahead \in Nat /\ pos + ahead <= Len(src)
    BY <1>2, <1>3
  <2>3. lang \in Languages /\ ended \in BOOLEAN
    BY <1>1, <1>2
  <2> QED
    BY <1>3, <2>1, <2>2, <2>3 DEF InSource
<1>6. LexersInv
  BY <1>1, <1>2, <1>4, <1>5 DEF LexersInv
<1>7. Promise!Init
  BY <1>2 DEF Promise!Init
<1> QED
  BY <1>6, <1>7

\* every call keeps it and is a step of Tokenizer,
LEMMA CallsStep ==
    ASSUME LexersInv, Calls
    PROVE  Promise!Next /\ LexersInv'
<1>1. InSource /\ TemplatesFit /\ (lang = "js" => Complete(src)) /\ (lang # "js" => ahead = 0)
  BY DEF LexersInv
<1>2. lang' = lang
  BY DEF Calls, HTML, XML, CSS, JS, Only
<1>3. Promise!Next /\ InSource' /\ tmpl' = tmpl /\ (lang # "js" => ahead' = 0)
  <2>1. CASE HTML
    <3>1. lang = "html" /\ NextToken /\ ahead' = ahead /\ ~ended
      BY <2>1 DEF HTML, Only, script, NextToken
    <3>2. Calling
      BY <1>1, <1>2, <3>1 DEF Calling
    <3> QED
      BY <1>1, <3>1, <3>2, HTMLStep, TemplatesKept
  <2>2. CASE XML
    <3>1. lang = "xml" /\ X!Next /\ ahead' = ahead /\ tmpl' = tmpl /\ ~ended
      BY <2>2 DEF XML, Only, script, X!Next
    <3>2. Calling
      BY <1>1, <1>2, <3>1 DEF Calling
    <3> QED
      BY <1>1, <3>1, <3>2, XMLStep
  <2>3. CASE CSS
    <3>1. lang = "css" /\ C!Next /\ ahead' = ahead /\ tmpl' = tmpl /\ ~ended
      BY <2>3 DEF CSS, Only, script, markup, C!Next, C!EndOfFile, C!Token, C!Delim
    <3>2. Calling
      BY <1>1, <1>2, <3>1 DEF Calling
    <3> QED
      BY <1>1, <3>1, <3>2, CSSStep
  <2>4. CASE JS
    <3>1. lang = "js" /\ J!Calls /\ tmpl' = tmpl
      BY <2>4 DEF JS, Only, markup
    <3> QED
      BY <1>1, <1>2, <3>1, JSStep
  <2> QED
    BY <2>1, <2>2, <2>3, <2>4 DEF Calls
<1>4. src' = src
  BY <1>3, PromiseKeepsSource
<1>5. TemplatesFit'
  BY <1>1, <1>3 DEF TemplatesFit
<1>6. (lang = "js" => Complete(src))'
  BY <1>1, <1>2, <1>4 DEF Complete, EndsIn, Unfinished
<1> QED
  BY <1>2, <1>3, <1>5, <1>6 DEF LexersInv

\* and so is every step of the client and its lexer.
LEMMA LexersStep ==
    ASSUME LexersInv, [LexersNext]_lexersVars
    PROVE  [Promise!Next]_(Promise!vars) /\ LexersInv'
<1>1. CASE Calls
  BY <1>1, CallsStep
<1>2. CASE UNCHANGED lexersVars
  <2>1. UNCHANGED <<lang, src, pos, tok, ended, ahead, tmpl>>
    BY <1>2 DEF lexersVars, markup, script
  <2>2. UNCHANGED Promise!vars
    BY <2>1 DEF Promise!vars
  <2>3. InSource'
    BY <2>1 DEF LexersInv, InSource, Fits, TokenFits
  <2>4. TemplatesFit'
    BY <2>1 DEF LexersInv, TemplatesFit
  <2>5. (lang = "js" => Complete(src))'
    BY <2>1 DEF LexersInv, Complete, EndsIn, Unfinished
  <2>6. (lang # "js" => ahead = 0)'
    BY <2>1 DEF LexersInv
  <2> QED
    BY <2>2, <2>3, <2>4, <2>5, <2>6 DEF LexersInv
<1> QED
  BY <1>1, <1>2 DEF LexersNext, Done

\* The four lexers implement Tokenizer, whatever the source, of whatever symbols,
\* and whatever the delimiters of templates: no token is empty, nothing but blanks
\* is lost between two, and no call reads past the source.
THEOREM LexersTokenize ==
    ASSUME NEW CONSTANT symbols, "panic" \notin symbols
    PROVE  Starts(symbols) /\ [][LexersNext]_lexersVars => Tokenizes
<1>1. Starts(symbols) => LexersInv /\ Promise!Init
  BY StartsWell
<1>2. LexersInv /\ [LexersNext]_lexersVars => LexersInv' /\ [Promise!Next]_(Promise!vars)
  BY LexersStep
<1> QED
  BY <1>1, <1>2, PTL DEF Tokenizes, Promise!Spec

\* And no call but the one of the finding moves the Input over its terminator.
THEOREM LexersCanContinue ==
    ASSUME NEW CONSTANT symbols, "panic" \notin symbols
    PROVE  Starts(symbols) /\ [][LexersNext]_lexersVars => []CanContinue
<1>1. Starts(symbols) => LexersInv
  BY StartsWell
<1>2. LexersInv /\ [LexersNext]_lexersVars => LexersInv'
  BY LexersStep
<1>3. LexersInv => CanContinue
  BY DEF LexersInv, InSource, CanContinue
<1> QED
  BY <1>1, <1>2, <1>3, PTL
================================================================================
