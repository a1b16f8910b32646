--------------------------- MODULE StreamLexer_proofs ---------------------------
(***************************************************************************)
(* Proofs about StreamLexer, for every stream length, every set of initial *)
(* buffer sizes and every reader: tokens keep their bytes until they are   *)
(* freed, the pool's list and byte account stay right, freed memory is     *)
(* used again, and the lexer implements StreamCursor.                      *)
(*                                                                         *)
(* The code keeps its list of blocks as links between slots that are used  *)
(* again in any order.  The proofs know it by c, the slots in list order,  *)
(* and b, the stream offsets at which these blocks begin; the invariant    *)
(* says that such c and b exist.                                           *)
(***************************************************************************)
EXTENDS StreamLexer, FiniteSetTheorems, WellFoundedInduction, TLAPS

--------------------------------------------------------------------------------
(* The inductive invariant *)

Bytes == Zero..(StreamLen - 1)

Memory == UNION {[cap : {c}, data : [0..(c - 1) -> Bytes]] : c \in Nat}

Block == [buf : Nat, len : Nat, next : Nat, active : BOOLEAN]

Pool == [blocks : Seq(Block), head : Nat, tail : Nat, pos : Nat]

Lexer == [err : {"nil", "EOF", "fail"}, buf : [id : Nat, len : Nat], pool : Pool,
          start : Nat, pos : Nat, prevStart : Nat, free : Nat]

\* c is the list of the pool's n active blocks, from the tail.
Listed(p, n, c) ==
    /\ \A j, k \in 1..n : c[j] = c[k] => j = k
    /\ \A i \in 1..Len(p.blocks) : p.blocks[i].active <=> \E k \in 1..n : c[k] = i
    /\ \A k \in 1..n : p.blocks[c[k]].next = IF k = n THEN 0 ELSE c[k + 1]
    /\ p.tail = IF n = 0 THEN 0 ELSE c[1]

Headed(p, n, c) == p.head = IF n = 0 THEN 0 ELSE c[n]

\* These blocks fill the stream between the offsets from and to.
Begins(p, n, c, b, from, to) ==
    /\ b[1] = from /\ b[n + 1] = to
    /\ \A k \in 1..n : b[k + 1] = b[k] + p.blocks[c[k]].len
    /\ \A k \in 1..(n + 1) : b[k] <= to

\* Their buffers hold the bytes of the stream from there.
Stored(mem, p, n, c, b) ==
    \A k \in 1..n :
        /\ p.blocks[c[k]].len <= mem[p.blocks[c[k]].buf].cap
        /\ \A x \in 0..(p.blocks[c[k]].len - 1) :
              mem[p.blocks[c[k]].buf].data[x] = b[k] + x

\* A byte the client holds lies in the current buffer, which begins at offset
\* to and is named id, or in the block that has its offset.
Located(p, n, c, b, id, to) ==
    \A k \in DOMAIN held :
        \/ to <= k /\ held[k] = [buf |-> id, idx |-> k - to]
        \/ \E j \in 1..n :
              /\ b[j] <= k /\ k < b[j + 1]
              /\ held[k] = [buf |-> p.blocks[c[j]].buf, idx |-> k - b[j]]

\* The pool's blocks are a list of n with slots c and begins b.
Laid(mem, p, id, from, to, n, c, b) ==
    /\ Listed(p, n, c)
    /\ Begins(p, n, c, b, from, to)
    /\ Stored(mem, p, n, c, b)
    /\ Located(p, n, c, b, id, to)

\* Every buffer is the current one or that of exactly one block; the lengths
\* and links of the blocks are in range.
Separate(mem, p, id) ==
    /\ \A i \in 1..Len(p.blocks) :
          p.blocks[i].len <= StreamLen /\ p.blocks[i].next <= Len(p.blocks)
    /\ id \in 1..Len(mem)
    /\ \A i \in 1..Len(p.blocks) : p.blocks[i].buf \in 1..Len(mem) /\ p.blocks[i].buf # id
    /\ \A i, j \in 1..Len(p.blocks) : p.blocks[i].buf = p.blocks[j].buf => i = j
    /\ \A m \in 1..Len(mem) : m = id \/ \E i \in 1..Len(p.blocks) : p.blocks[i].buf = m

\* The current buffer holds the stream from origin, and what the lexer knows
\* of its reader is true.
Current(mem, l, origin) ==
    /\ l.buf.len <= mem[l.buf.id].cap
    /\ \A j \in 0..(l.buf.len - 1) : mem[l.buf.id].data[j] = origin + j
    /\ l.start <= l.buf.len /\ l.start <= l.pos
    /\ origin + l.buf.len <= StreamLen /\ origin + l.pos <= StreamLen
    /\ l.prevStart <= StreamLen
    /\ l.err = "EOF" => origin + l.buf.len = StreamLen
    /\ l.err = "fail" => client = "peeks"
    /\ client = "peeks" => l.pos <= l.buf.len

HeldRange(l, origin) ==
    /\ freed \in Nat /\ freed <= origin + l.start
    /\ DOMAIN held = freed..((origin + l.start) - 1)

\* Stated of any lexer, so that it can be said of the one after a read.
Good(mem, l, origin) ==
    /\ mem \in Seq(Memory) /\ l \in Lexer /\ origin \in Nat /\ client \in Clients
    /\ Separate(mem, l.pool, l.buf.id)
    /\ Current(mem, l, origin)
    /\ HeldRange(l, origin)
    /\ \E n \in Nat : \E c \in [1..n -> 1..Len(l.pool.blocks)], b \in [1..(n + 1) -> Nat] :
          /\ Laid(mem, l.pool, l.buf.id, freed - l.free - l.pool.pos, origin, n, c, b)
          /\ Headed(l.pool, n, c)

Inv == Good(heap, z, base)

--------------------------------------------------------------------------------
(* Numbers, buffers and blocks *)

\* A set of naturals that is not empty has a least element: how a fact is
\* proved for all numbers here, by looking at the least one that it fails for.
LEMMA LeastNumber ==
    ASSUME NEW S \in SUBSET Nat, S # {}
    PROVE  \E n \in S : \A m \in S : n <= m
<1> DEFINE R == {ss \in Nat \X Nat : ss[1] < ss[2]}
<1>1. IsWellFoundedOn(R, Nat)
  BY NatLessThanWellFounded, Zenon DEF OpToRel
<1> HIDE DEF R
<1>2. PICK n \in S : \A m \in S : ~(<<m, n>> \in R)
  BY <1>1, WFMin
<1>3. \A m \in S : ~(m < n)
  BY <1>2 DEF R
<1> QED
  BY <1>3

\* A list of different numbers up to m has at most m of them.
LEMMA ListBound ==
    ASSUME NEW n \in Nat, NEW m \in Nat, NEW c \in [1..n -> 1..m],
           \A j, k \in 1..n : c[j] = c[k] => j = k
    PROVE  n <= m
<1>1. /\ IsFiniteSet(1..n) /\ Cardinality(1..n) = n
      /\ IsFiniteSet(1..m) /\ Cardinality(1..m) = m
  BY FS_Interval
<1>2. ~(m < n)
  BY <1>1, FS_PigeonHole
<1> QED
  BY <1>2

LEMMA MemoryIs ==
    ASSUME NEW m \in Memory
    PROVE  /\ m = [cap |-> m.cap, data |-> m.data]
           /\ m.cap \in Nat
           /\ m.data \in [0..(m.cap - 1) -> Bytes]
  BY DEF Memory

LEMMA MemoryMade ==
    ASSUME NEW c \in Nat, NEW d \in [0..(c - 1) -> Bytes]
    PROVE  [cap |-> c, data |-> d] \in Memory
  BY DEF Memory

\* Writing the data of a buffer.
LEMMA WriteData ==
    ASSUME NEW mem \in Seq(Memory), NEW id \in 1..Len(mem),
           NEW d \in [0..(mem[id].cap - 1) -> Bytes]
    PROVE  /\ [mem EXCEPT ![id].data = d] \in Seq(Memory)
           /\ Len([mem EXCEPT ![id].data = d]) = Len(mem)
           /\ [mem EXCEPT ![id].data = d][id] = [cap |-> mem[id].cap, data |-> d]
           /\ \A k \in 1..Len(mem) : k # id => [mem EXCEPT ![id].data = d][k] = mem[k]
<1>1. mem[id] \in Memory
  OBVIOUS
<1> DEFINE new == [cap |-> mem[id].cap, data |-> d]
<1>2. [mem[id] EXCEPT !.data = d] = new
  <2>1. mem[id] = [cap |-> mem[id].cap, data |-> mem[id].data]
    BY <1>1, MemoryIs
  <2>2. [[cap |-> mem[id].cap, data |-> mem[id].data] EXCEPT !.data = d] = new
    OBVIOUS
  <2> QED
    BY <2>1, <2>2, Zenon
<1>3. [mem EXCEPT ![id].data = d] = [mem EXCEPT ![id] = new]
  BY <1>2
<1>4. new \in Memory
  BY <1>1, MemoryIs, MemoryMade
<1> HIDE DEF new
<1>5. /\ [mem EXCEPT ![id] = new] \in Seq(Memory)
      /\ Len([mem EXCEPT ![id] = new]) = Len(mem)
      /\ [mem EXCEPT ![id] = new][id] = new
      /\ \A k \in 1..Len(mem) : k # id => [mem EXCEPT ![id] = new][k] = mem[k]
  BY <1>4
<1> QED
  BY <1>3, <1>5 DEF new

LEMMA NewBuffer ==
    ASSUME StreamLen \in Nat, NEW size \in Nat
    PROVE  Buffer(size) \in Memory /\ Buffer(size).cap = size
<1>1. [j \in 0..(size - 1) |-> Zero] \in [0..(size - 1) -> Bytes]
  BY DEF Bytes, Zero
<1> QED
  BY <1>1, MemoryMade DEF Buffer

--------------------------------------------------------------------------------
(* bufferPool.free *)

LEMMA BlockIs ==
    ASSUME NEW i \in Block
    PROVE  /\ i = [buf |-> i.buf, len |-> i.len, next |-> i.next, active |-> i.active]
           /\ i.buf \in Nat /\ i.len \in Nat /\ i.next \in Nat /\ i.active \in BOOLEAN
  BY DEF Block

LEMMA PoolIs ==
    ASSUME NEW p \in Pool
    PROVE  /\ p = [blocks |-> p.blocks, head |-> p.head, tail |-> p.tail, pos |-> p.pos]
           /\ p.blocks \in Seq(Block) /\ Len(p.blocks) \in Nat
           /\ p.head \in Nat /\ p.tail \in Nat /\ p.pos \in Nat
           /\ \A i \in 1..Len(p.blocks) : p.blocks[i] \in Block
  BY DEF Pool

\* The block i, no longer in use.
Idle(i) == [buf |-> i.buf, len |-> i.len, next |-> i.next, active |-> FALSE]

LEMMA IdleExcept ==
    ASSUME NEW i \in Block, NEW j, j = [i EXCEPT !.active = FALSE]
    PROVE  j = Idle(i)
  BY Zenon DEF Block, Idle

LEMMA PoolExcept ==
    ASSUME NEW p \in Pool, NEW x, NEW seq, NEW t,
           NEW q, q = [p EXCEPT !.pos = x, !.blocks = seq, !.tail = t]
    PROVE  q = [blocks |-> seq, head |-> p.head, tail |-> t, pos |-> x]
  BY Zenon DEF Pool

LEMMA PopIs ==
    ASSUME NEW p \in Pool, p.tail \in 1..Len(p.blocks), p.pos >= TailBlock(p).len
    PROVE  /\ PoolPop(p) = [blocks |-> [p.blocks EXCEPT ![p.tail] = Idle(p.blocks[p.tail])],
                            head |-> p.head, tail |-> p.blocks[p.tail].next,
                            pos |-> p.pos - p.blocks[p.tail].len]
           /\ PoolPop(p) \in Pool
<1> DEFINE t == p.blocks[p.tail]
           seq == [p.blocks EXCEPT ![p.tail] = Idle(t)]
           q == [blocks |-> seq, head |-> p.head, tail |-> t.next, pos |-> p.pos - t.len]
<1>1. t \in Block /\ p.pos \in Nat /\ p.pos >= t.len
  BY PoolIs DEF TailBlock
<1>2. [t EXCEPT !.active = FALSE] = Idle(t)
  BY <1>1, IdleExcept, Zenon
<1>3. [p.blocks EXCEPT ![p.tail].active = FALSE] = seq
  BY <1>2
<1>4. PoolPop(p) = q
  <2>1. PoolPop(p) = [p EXCEPT !.pos = p.pos - t.len,
                               !.blocks = [p.blocks EXCEPT ![p.tail].active = FALSE],
                               !.tail = t.next]
    BY DEF PoolPop, TailBlock
  <2>2. PoolPop(p) = [p EXCEPT !.pos = p.pos - t.len, !.blocks = seq, !.tail = t.next]
    BY <1>3, <2>1
  <2> HIDE DEF t, seq
  <2> QED
    BY <2>2, PoolExcept, Zenon
<1>5. Idle(t) \in Block /\ t.next \in Nat /\ p.pos - t.len \in Nat
  BY <1>1, BlockIs DEF Idle, Block
<1>6. seq \in Seq(Block)
  BY <1>5, PoolIs
<1>7. q \in Pool
  BY <1>5, <1>6, PoolIs DEF Pool
<1> QED
  BY <1>4, <1>7

LEMMA PopBlocks ==
    ASSUME NEW p \in Pool, p.tail \in 1..Len(p.blocks), p.pos >= TailBlock(p).len
    PROVE  /\ Len(PoolPop(p).blocks) = Len(p.blocks)
           /\ \A i \in 1..Len(p.blocks) :
                 /\ PoolPop(p).blocks[i].buf = p.blocks[i].buf
                 /\ PoolPop(p).blocks[i].len = p.blocks[i].len
                 /\ PoolPop(p).blocks[i].next = p.blocks[i].next
                 /\ PoolPop(p).blocks[i].active <=> i # p.tail /\ p.blocks[i].active
           /\ PoolPop(p).head = p.head
           /\ PoolPop(p).tail = p.blocks[p.tail].next
           /\ PoolPop(p).pos = p.pos - p.blocks[p.tail].len
<1> DEFINE t == p.blocks[p.tail]
           seq == [p.blocks EXCEPT ![p.tail] = Idle(t)]
<1>1. p.blocks \in Seq(Block) /\ Len(p.blocks) \in Nat /\ t \in Block /\ Idle(t) \in Block
  BY PoolIs, BlockIs DEF Idle, Block
<1>2. PoolPop(p) = [blocks |-> seq, head |-> p.head, tail |-> t.next, pos |-> p.pos - t.len]
  BY PopIs
<1>3. /\ PoolPop(p).blocks = seq /\ PoolPop(p).head = p.head
      /\ PoolPop(p).tail = t.next /\ PoolPop(p).pos = p.pos - t.len
  BY <1>2
<1>4. /\ Len(seq) = Len(p.blocks)
      /\ \A i \in 1..Len(p.blocks) : seq[i] = IF i = p.tail THEN Idle(t) ELSE p.blocks[i]
  BY <1>1
<1>5. /\ Idle(t).buf = t.buf /\ Idle(t).len = t.len /\ Idle(t).next = t.next
      /\ Idle(t).active = FALSE
  BY DEF Idle
<1> QED
  BY <1>3, <1>4, <1>5

\* q has the blocks of p, but for what is in use.
SameBlocks(p, q) ==
    /\ Len(q.blocks) = Len(p.blocks)
    /\ \A i \in 1..Len(p.blocks) :
          /\ q.blocks[i].buf = p.blocks[i].buf
          /\ q.blocks[i].len = p.blocks[i].len
          /\ q.blocks[i].next = p.blocks[i].next

\* The pool's blocks are a list of n, which the pool's head is the last of.
LaidOn(mem, p, id, to, n) ==
    \E c \in [1..n -> 1..Len(p.blocks)], b \in [1..(n + 1) -> Nat] :
        /\ Laid(mem, p, id, freed - p.pos, to, n, c, b)
        /\ n > 0 => p.head = c[n]

HeldIsNotFreed == \A k \in DOMAIN held : k \in Nat /\ freed <= k

Popable(q) == q.tail # 0 /\ q.pos >= TailBlock(q).len

\* Popping the tail block takes the first element off the list: no byte held by
\* the client lies in it.
LEMMA PopLaid ==
    ASSUME NEW mem, NEW p \in Pool, NEW id, NEW to \in Nat, NEW n \in Nat,
           freed \in Nat, HeldIsNotFreed, LaidOn(mem, p, id, to, n), Popable(p)
    PROVE  /\ n > 0 /\ PoolPop(p) \in Pool /\ SameBlocks(p, PoolPop(p))
           /\ LaidOn(mem, PoolPop(p), id, to, n - 1)
<1>c. PICK c \in [1..n -> 1..Len(p.blocks)], b \in [1..(n + 1) -> Nat] :
          /\ Laid(mem, p, id, freed - p.pos, to, n, c, b)
          /\ n > 0 => p.head = c[n]
  BY DEF LaidOn
<1>b. p.tail # 0 /\ p.pos >= TailBlock(p).len
  BY DEF Popable
<1> USE <1>c, <1>b
<1> DEFINE q == PoolPop(p)
           m == n - 1
           d == [k \in 1..m |-> c[k + 1]]
           e == [k \in 1..n |-> b[k + 1]]
<1>1. n > 0 /\ p.tail = c[1] /\ c[1] \in 1..Len(p.blocks) /\ Len(p.blocks) \in Nat
  <2>1. Len(p.blocks) \in Nat
    BY PoolIs
  <2>2. n > 0 /\ p.tail = c[1]
    BY DEF Laid, Listed
  <2> QED
    BY <2>1, <2>2
<1>2. p.tail \in 1..Len(p.blocks) /\ q \in Pool
  BY <1>1, PopIs
<1>3. /\ Len(q.blocks) = Len(p.blocks)
      /\ \A i \in 1..Len(p.blocks) :
            /\ q.blocks[i].buf = p.blocks[i].buf /\ q.blocks[i].len = p.blocks[i].len
            /\ q.blocks[i].next = p.blocks[i].next
            /\ q.blocks[i].active <=> i # c[1] /\ p.blocks[i].active
  BY <1>1, PopBlocks
<1>p. /\ q.head = p.head /\ q.tail = p.blocks[c[1]].next
      /\ q.pos = p.pos - p.blocks[c[1]].len
  BY <1>1, PopBlocks
<1>4. p.pos \in Nat /\ p.blocks[c[1]].len \in Nat /\ p.pos >= p.blocks[c[1]].len
  BY <1>1, PoolIs, BlockIs DEF TailBlock
<1>5. m \in Nat /\ n = m + 1 /\ n \in Nat
  BY <1>1
<1>d. /\ d \in [1..m -> 1..Len(p.blocks)]
      /\ \A k \in 1..m : /\ k + 1 \in 1..n /\ d[k] = c[k + 1] /\ d[k] \in 1..Len(p.blocks)
                         /\ c[k + 1] \in 1..Len(p.blocks)
  BY <1>5
<1>e. /\ e \in [1..n -> Nat] /\ e \in [1..(m + 1) -> Nat]
      /\ \A k \in 1..(m + 1) : /\ k + 1 \in 1..(n + 1) /\ e[k] = b[k + 1]
                               /\ e[k] \in Nat /\ b[k + 1] \in Nat
  BY <1>5
<1>6. Listed(q, m, d)
  <2>1. ASSUME NEW j \in 1..m, NEW k \in 1..m, d[j] = d[k]
        PROVE  j = k
    BY <2>1, <1>5, <1>d DEF Laid, Listed
  <2>2. ASSUME NEW i \in 1..Len(p.blocks)
        PROVE  q.blocks[i].active <=> \E k \in 1..m : d[k] = i
    <3>1. q.blocks[i].active <=> i # c[1] /\ \E k \in 1..n : c[k] = i
      BY <1>3 DEF Laid, Listed
    <3>2. ASSUME NEW k \in 1..n, c[k] = i, i # c[1]
          PROVE  k - 1 \in 1..m /\ d[k - 1] = i
      BY <3>2, <1>5, <1>d
    <3>3. ASSUME NEW k \in 1..m, d[k] = i
          PROVE  k + 1 \in 1..n /\ c[k + 1] = i /\ c[1] # i
      BY <3>3, <1>1, <1>5, <1>d DEF Laid, Listed
    <3> QED
      BY <3>1, <3>2, <3>3
  <2>3. ASSUME NEW k \in 1..m
        PROVE  q.blocks[d[k]].next = IF k = m THEN 0 ELSE d[k + 1]
    <3>1. k + 1 \in 1..n /\ d[k] = c[k + 1] /\ c[k + 1] \in 1..Len(p.blocks)
      BY <1>d
    <3>2. p.blocks[c[k + 1]].next = IF k + 1 = n THEN 0 ELSE c[k + 1 + 1]
      BY <3>1 DEF Laid, Listed
    <3>3. q.blocks[c[k + 1]].next = p.blocks[c[k + 1]].next
      BY <3>1, <1>3
    <3>4. k # m => d[k + 1] = c[k + 1 + 1]
      BY <1>5, <1>d
    <3> QED
      BY <3>1, <3>2, <3>3, <3>4, <1>5
  <2>4. q.tail = IF m = 0 THEN 0 ELSE d[1]
    <3>1. p.blocks[c[1]].next = IF 1 = n THEN 0 ELSE c[1 + 1]
      BY <1>1 DEF Laid, Listed
    <3>2. m # 0 => d[1] = c[1 + 1]
      BY <1>5, <1>d
    <3> QED
      BY <3>1, <3>2, <1>p, <1>5
  <2> QED
    BY <1>3, <2>1, <2>2, <2>3, <2>4 DEF Listed
<1>7. Begins(q, m, d, e, freed - q.pos, to)
  <2>1. b[1] = freed - p.pos /\ b[2] = b[1] + p.blocks[c[1]].len
    BY <1>1 DEF Laid, Begins
  <2>2. e[1] = freed - q.pos
    <3>1. e[1] = b[1 + 1]
      BY <1>5, <1>e
    <3>2. freed - q.pos = freed - p.pos + p.blocks[c[1]].len
      <4>1. ASSUME NEW x \in Nat, NEW y \in Nat
            PROVE  freed - (x - y) = freed - x + y
        OBVIOUS
      <4> QED
        BY <1>p, <1>4, <4>1
    <3> QED
      BY <2>1, <3>1, <3>2
  <2>3. e[m + 1] = to /\ \A k \in 1..(m + 1) : e[k] <= to
    BY <1>5, <1>e DEF Laid, Begins
  <2>4. ASSUME NEW k \in 1..m
        PROVE  e[k + 1] = e[k] + q.blocks[d[k]].len
    <3>1. /\ k + 1 \in 1..n /\ d[k] = c[k + 1] /\ c[k + 1] \in 1..Len(p.blocks)
          /\ e[k] = b[k + 1] /\ e[k + 1] = b[k + 1 + 1]
      BY <1>5, <1>d, <1>e
    <3>2. b[k + 1 + 1] = b[k + 1] + p.blocks[c[k + 1]].len
      BY <3>1 DEF Laid, Begins
    <3>3. q.blocks[c[k + 1]].len = p.blocks[c[k + 1]].len
      BY <3>1, <1>3
    <3> QED
      BY <3>1, <3>2, <3>3
  <2> QED
    BY <2>2, <2>3, <2>4 DEF Begins
<1>8. Stored(mem, q, m, d, e)
  <2> SUFFICES ASSUME NEW k \in 1..m
               PROVE  /\ q.blocks[d[k]].len <= mem[q.blocks[d[k]].buf].cap
                      /\ \A x \in 0..(q.blocks[d[k]].len - 1) :
                            mem[q.blocks[d[k]].buf].data[x] = e[k] + x
    BY DEF Stored
  <2>1. /\ k + 1 \in 1..n /\ d[k] = c[k + 1] /\ c[k + 1] \in 1..Len(p.blocks)
        /\ e[k] = b[k + 1]
    BY <1>5, <1>d, <1>e
  <2>2. /\ q.blocks[c[k + 1]].len = p.blocks[c[k + 1]].len
        /\ q.blocks[c[k + 1]].buf = p.blocks[c[k + 1]].buf
    BY <2>1, <1>3
  <2> QED
    BY <2>1, <2>2 DEF Laid, Stored
<1>k. ASSUME NEW k \in Nat, freed <= k, NEW j \in 1..n, k < b[j + 1]
      PROVE  /\ j - 1 \in 1..m /\ e[j - 1] = b[j] /\ e[j - 1 + 1] = b[j + 1]
             /\ q.blocks[d[j - 1]].buf = p.blocks[c[j]].buf
  <2>1. b[1] = freed - p.pos /\ b[1 + 1] = b[1] + p.blocks[c[1]].len
    BY <1>1 DEF Laid, Begins
  <2>2. b[1 + 1] <= k
    <3>1. ASSUME NEW x \in Nat, NEW y \in Nat, x >= y
          PROVE  freed - x + y <= k
      BY <3>1, <1>k
    <3> QED
      BY <2>1, <1>4, <3>1
  <2>3. j # 1
    <3> SUFFICES ASSUME j = 1
                 PROVE  FALSE
      OBVIOUS
    <3>1. k < b[1 + 1] /\ b[1 + 1] \in Nat
      BY <1>k
    <3> QED
      BY <3>1, <2>2
  <2>4. j - 1 \in 1..m /\ j - 1 + 1 = j /\ j \in 1..(m + 1)
    BY <2>3, <1>5
  <2>5. e[j - 1] = b[j - 1 + 1] /\ d[j - 1] = c[j - 1 + 1] /\ e[j] = b[j + 1]
    BY <2>4, <1>5, <1>d, <1>e
  <2>6. q.blocks[c[j]].buf = p.blocks[c[j]].buf
    BY <1>3
  <2> QED
    BY <2>4, <2>5, <2>6
<1>9. Located(q, m, d, e, id, to)
  <2>1. ASSUME NEW k \in DOMAIN held, NEW j \in 1..n,
               b[j] <= k, k < b[j + 1], held[k] = [buf |-> p.blocks[c[j]].buf, idx |-> k - b[j]]
        PROVE  \E i \in 1..m : /\ e[i] <= k /\ k < e[i + 1]
                               /\ held[k] = [buf |-> q.blocks[d[i]].buf, idx |-> k - e[i]]
    <3>1. k \in Nat /\ freed <= k
      BY DEF HeldIsNotFreed
    <3>2. /\ j - 1 \in 1..m /\ e[j - 1] = b[j] /\ e[j - 1 + 1] = b[j + 1]
          /\ q.blocks[d[j - 1]].buf = p.blocks[c[j]].buf
      BY <2>1, <3>1, <1>k
    <3> QED
      BY <2>1, <3>2, Zenon
  <2> QED
    BY <2>1, Zenon DEF Laid, Located
<1>10. m > 0 => q.head = d[m]
  <2>1. m > 0 => d[m] = c[m + 1]
    BY <1>5, <1>d
  <2> QED
    BY <1>p, <1>5, <2>1
<1>11. Laid(mem, q, id, freed - q.pos, to, m, d, e)
  BY <1>6, <1>7, <1>8, <1>9 DEF Laid
<1>12. LaidOn(mem, q, id, to, m)
  BY <1>3, <1>5, <1>d, <1>e, <1>10, <1>11, Zenon DEF LaidOn
<1> QED
  BY <1>1, <1>2, <1>3, <1>12 DEF q, m, SameBlocks

\* The recursive function of the turns is what its definition says.
LEMMA TurnsAre ==
    ASSUME NEW p \in Pool
    PROVE  /\ PoolTurns(p)[0] = p
           /\ \A k \in 1..Len(p.blocks) : PoolTurns(p)[k] = PoolTurn(PoolTurns(p)[k - 1])
<1> DEFINE Turning(f, m) == f = [k \in 0..m |-> IF k = 0 THEN p ELSE PoolTurn(f[k - 1])]
           Bad == {m \in Nat : ~ \E f : Turning(f, m)}
<1>1. Len(p.blocks) \in Nat
  BY PoolIs
<1>2. \E f : Turning(f, 0)
  <2> DEFINE f == [k \in 0..0 |-> p]
  <2>1. f = [k \in 0..0 |-> IF k = 0 THEN p ELSE PoolTurn(f[k - 1])]
    OBVIOUS
  <2> HIDE DEF f
  <2> QED
    BY <2>1
<1>3. ASSUME NEW m \in Nat, NEW f, Turning(f, m)
      PROVE  \E g : Turning(g, m + 1)
  <2> DEFINE g == [k \in 0..(m + 1) |-> IF k <= m THEN f[k] ELSE PoolTurn(f[m])]
             h == [k \in 0..(m + 1) |-> IF k = 0 THEN p ELSE PoolTurn(g[k - 1])]
  <2>1. ASSUME NEW k \in 0..(m + 1)
        PROVE  g[k] = h[k]
    <3>1. CASE k = 0
      BY <3>1, <1>3
    <3>2. CASE k \in 1..m
      <4>1. k - 1 \in 0..m /\ k \in 0..m
        BY <3>2
      <4>2. f[k] = PoolTurn(f[k - 1])
        BY <1>3, <3>2, <4>1
      <4>3. g[k] = f[k] /\ g[k - 1] = f[k - 1]
        BY <3>2, <4>1
      <4> QED
        BY <3>2, <4>2, <4>3
    <3>3. CASE k = m + 1
      <4>1. g[k] = PoolTurn(f[m]) /\ g[k - 1] = f[m] /\ k # 0
        BY <3>3
      <4> QED
        BY <4>1
    <3> QED
      BY <3>1, <3>2, <3>3
  <2>2. g = h
    BY <2>1, Zenon
  <2> HIDE DEF g
  <2> QED
    BY <2>2
<1>4. Bad = {}
  <2> SUFFICES ASSUME Bad # {}
               PROVE  FALSE
    OBVIOUS
  <2>1. PICK m \in Bad : \A k \in Bad : m <= k
    BY LeastNumber
  <2>2. m # 0 /\ m \in Nat
    BY <1>2, Zenon
  <2>3. m - 1 \in Nat /\ ~(m <= m - 1)
    BY <2>2
  <2>4. m - 1 \notin Bad
    BY <2>1, <2>3
  <2>5. \E f : Turning(f, m - 1)
    BY <2>3, <2>4, Zenon
  <2>6. \E f : Turning(f, m - 1 + 1)
    BY <1>3, <2>3, <2>5, Zenon
  <2>7. m - 1 + 1 = m
    BY <2>2
  <2> HIDE DEF Turning
  <2> QED
    BY <2>6, <2>7
<1>5. PICK f : Turning(f, Len(p.blocks))
  BY <1>1, <1>4, Zenon
<1>6. PoolTurns(p) = CHOOSE t : Turning(t, Len(p.blocks))
  BY Zenon DEF PoolTurns
<1>7. Turning(PoolTurns(p), Len(p.blocks))
  <2> HIDE DEF Turning
  <2> QED
    BY <1>5, <1>6, Zenon
<1> DEFINE t == PoolTurns(p)
<1>8. /\ t[0] = p
      /\ \A k \in 1..Len(p.blocks) : t[k] = PoolTurn(t[k - 1])
  <2> HIDE DEF t
  <2>1. t = [k \in 0..Len(p.blocks) |-> IF k = 0 THEN p ELSE PoolTurn(t[k - 1])]
    BY <1>7 DEF t
  <2> QED
    BY <1>1, <2>1
<1> QED
  BY <1>8

\* What k turns on the pool p may lead to.
Turned(mem, p, q, id, to, k) ==
    /\ q \in Pool /\ SameBlocks(p, q)
    /\ \E n \in Nat : /\ LaidOn(mem, q, id, to, n)
                      /\ (n + k <= Len(p.blocks) \/ ~Popable(q))

LEMMA TurnTurned ==
    ASSUME NEW mem, NEW p \in Pool, NEW q, NEW id, NEW to \in Nat, NEW k \in Nat,
           freed \in Nat, HeldIsNotFreed, Turned(mem, p, q, id, to, k)
    PROVE  Turned(mem, p, PoolTurn(q), id, to, k + 1)
<1>1. q \in Pool /\ SameBlocks(p, q) /\ Len(q.blocks) = Len(p.blocks) /\ Len(p.blocks) \in Nat
  BY PoolIs DEF Turned, SameBlocks
<1>2. PICK n \in Nat : /\ LaidOn(mem, q, id, to, n)
                      /\ (n + k <= Len(p.blocks) \/ ~Popable(q))
  BY DEF Turned
<1>3. CASE ~Popable(q)
  <2>1. PoolTurn(q) = q
    BY <1>3 DEF Popable, PoolTurn
  <2> QED
    BY <1>1, <1>2, <1>3, <2>1, Zenon DEF Turned
<1>4. CASE Popable(q)
  <2>1. PoolTurn(q) = PoolPop(q)
    BY <1>4 DEF Popable, PoolTurn
  <2>2. /\ n > 0 /\ PoolPop(q) \in Pool /\ SameBlocks(q, PoolPop(q))
        /\ LaidOn(mem, PoolPop(q), id, to, n - 1)
    BY <1>1, <1>2, <1>4, PopLaid, Zenon
  <2>3. /\ n - 1 \in Nat /\ n - 1 + 1 = n /\ n - 1 + (k + 1) <= Len(p.blocks)
    BY <1>1, <1>2, <1>4, <2>2
  <2>4. SameBlocks(p, PoolPop(q))
    BY <1>1, <2>2, Zenon DEF SameBlocks
  <2> QED
    BY <1>1, <2>1, <2>2, <2>3, <2>4, Zenon DEF Turned
<1> QED
  BY <1>3, <1>4

LEMMA AllTurned ==
    ASSUME NEW mem, NEW p \in Pool, NEW id, NEW to \in Nat,
           freed \in Nat, HeldIsNotFreed, Turned(mem, p, p, id, to, 0)
    PROVE  \A k \in 0..Len(p.blocks) : Turned(mem, p, PoolTurns(p)[k], id, to, k)
<1> DEFINE Bad == {k \in 0..Len(p.blocks) : ~Turned(mem, p, PoolTurns(p)[k], id, to, k)}
<1>1. Len(p.blocks) \in Nat
  BY PoolIs
<1>2. SUFFICES ASSUME Bad # {}
               PROVE  FALSE
  OBVIOUS
<1>3. PICK m \in Bad : \A k \in Bad : m <= k
  <2>1. Bad \in SUBSET Nat
    BY <1>1
  <2> QED
    BY <1>2, <2>1, LeastNumber
<1>4. m # 0
  BY TurnsAre
<1>5. m \in 1..Len(p.blocks) /\ m - 1 \in 0..Len(p.blocks) /\ m - 1 \in Nat
  BY <1>1, <1>4
<1>6. m - 1 \notin Bad
  BY <1>3, <1>5
<1>7. Turned(mem, p, PoolTurns(p)[m - 1], id, to, m - 1)
  BY <1>5, <1>6
<1>8. Turned(mem, p, PoolTurn(PoolTurns(p)[m - 1]), id, to, m - 1 + 1)
  BY <1>5, <1>7, TurnTurned, Zenon
<1>9. PoolTurns(p)[m] = PoolTurn(PoolTurns(p)[m - 1]) /\ m - 1 + 1 = m
  BY <1>5, TurnsAre
<1> QED
  BY <1>8, <1>9, Zenon

\* What a pool's blocks say does not depend on its pos and head.
LEMMA SameList ==
    ASSUME NEW mem, NEW p, NEW q, NEW id, NEW from, NEW to, NEW n, NEW c, NEW b,
           q.blocks = p.blocks, q.tail = p.tail
    PROVE  Laid(mem, p, id, from, to, n, c, b) <=> Laid(mem, q, id, from, to, n, c, b)
<1>1. Listed(p, n, c) <=> Listed(q, n, c)
  BY DEF Listed
<1>2. Begins(p, n, c, b, from, to) <=> Begins(q, n, c, b, from, to)
  BY DEF Begins
<1>3. Stored(mem, p, n, c, b) <=> Stored(mem, q, n, c, b)
  BY DEF Stored
<1>4. Located(p, n, c, b, id, to) <=> Located(q, n, c, b, id, to)
  BY DEF Located
<1> QED
  BY <1>1, <1>2, <1>3, <1>4 DEF Laid

LEMMA MovePos ==
    ASSUME NEW p \in Pool, NEW x \in Nat, NEW q, q = [p EXCEPT !.pos = x]
    PROVE  /\ q \in Pool /\ q.blocks = p.blocks /\ q.tail = p.tail /\ q.head = p.head
           /\ q.pos = x
  BY DEF Pool

LEMMA NoHead ==
    ASSUME NEW p \in Pool, NEW q, q = [p EXCEPT !.head = 0]
    PROVE  /\ q \in Pool /\ q.blocks = p.blocks /\ q.tail = p.tail /\ q.head = 0
           /\ q.pos = p.pos
  BY DEF Pool

\* After free the tail block, if there is one, is not all freed.
LEMMA FreeLaid ==
    ASSUME NEW mem, NEW p \in Pool, NEW amount \in Nat, NEW id, NEW to \in Nat,
           NEW n \in Nat,
           NEW c \in [1..n -> 1..Len(p.blocks)], NEW b \in [1..(n + 1) -> Nat],
           freed \in Nat, HeldIsNotFreed,
           Laid(mem, p, id, freed - amount - p.pos, to, n, c, b), Headed(p, n, c)
    PROVE  /\ PoolFree(p, amount) \in Pool
           /\ SameBlocks(p, PoolFree(p, amount))
           /\ \E m \in Nat : LaidOn(mem, PoolFree(p, amount), id, to, m)
           /\ PoolFree(p, amount).tail = 0 => PoolFree(p, amount).head = 0
           /\ ~Popable(PoolFree(p, amount))
<1> DEFINE r == [p EXCEPT !.pos = @ + amount]
           N == Len(p.blocks)
           q == PoolTurns(r)[N]
           f == PoolFree(p, amount)
<1>1. /\ r \in Pool /\ r.blocks = p.blocks /\ r.tail = p.tail /\ r.head = p.head
      /\ r.pos = p.pos + amount /\ p.pos \in Nat /\ N \in Nat
  <2>1. p.pos \in Nat /\ N \in Nat /\ p.pos + amount \in Nat
    BY PoolIs
  <2>2. r = [p EXCEPT !.pos = p.pos + amount]
    OBVIOUS
  <2> HIDE DEF r
  <2> QED
    BY <2>1, <2>2, MovePos
<1>2. f = IF q.tail = 0 THEN [q EXCEPT !.head = 0] ELSE q
  <2>1. N = Len(r.blocks)
    BY <1>1
  <2> QED
    BY <2>1, Zenon DEF PoolFree
<1> HIDE DEF r, N, q, f
<1>3. LaidOn(mem, r, id, to, n)
  <2>1. freed - r.pos = freed - amount - p.pos
    BY <1>1
  <2>2. Laid(mem, r, id, freed - r.pos, to, n, c, b)
    BY <2>1, <1>1, SameList, Zenon
  <2>3. n > 0 => r.head = c[n]
    BY <1>1 DEF Headed
  <2> QED
    BY <1>1, <2>2, <2>3, Zenon DEF LaidOn
<1>4. n <= N
  BY <1>1, ListBound DEF Laid, Listed, N
<1>5. Turned(mem, r, r, id, to, 0)
  <2>1. n + 0 <= Len(r.blocks)
    BY <1>1, <1>4 DEF N
  <2>2. SameBlocks(r, r)
    BY DEF SameBlocks
  <2> QED
    BY <1>1, <1>3, <2>1, <2>2, Zenon DEF Turned
<1>6. Turned(mem, r, q, id, to, N)
  <2>1. N \in 0..Len(r.blocks)
    BY <1>1 DEF N
  <2> QED
    BY <1>1, <1>5, <2>1, AllTurned DEF q
<1>7. PICK m \in Nat : LaidOn(mem, q, id, to, m) /\ (m + N <= Len(r.blocks) \/ ~Popable(q))
  BY <1>6 DEF Turned
<1>8. ~Popable(q)
  <2>1. CASE m + N <= Len(r.blocks)
    <3>1. m = 0
      BY <2>1, <1>1, <1>7 DEF N
    <3>2. q.tail = 0
      BY <3>1, <1>7 DEF LaidOn, Laid, Listed
    <3> QED
      BY <3>2 DEF Popable
  <2> QED
    BY <2>1, <1>7
<1>9. q \in Pool /\ SameBlocks(p, q) /\ Len(q.blocks) = N
  BY <1>1, <1>6 DEF Turned, SameBlocks, N
<1>10. CASE q.tail # 0
  BY <1>2, <1>7, <1>8, <1>9, <1>10, Zenon DEF f, N
<1>11. CASE q.tail = 0
  <2>1. /\ f \in Pool /\ f.blocks = q.blocks /\ f.tail = 0 /\ f.head = 0 /\ f.pos = q.pos
    BY <1>2, <1>9, <1>11, NoHead
  <2>2. PICK d \in [1..m -> 1..Len(q.blocks)], e \in [1..(m + 1) -> Nat] :
            Laid(mem, q, id, freed - q.pos, to, m, d, e)
    BY <1>7, Zenon DEF LaidOn
  <2>3. Laid(mem, f, id, freed - f.pos, to, m, d, e)
    BY <2>1, <2>2, <1>11, SameList, Zenon
  <2>4. ~(m > 0)
    <3>1. m > 0 => d[1] = 0 /\ d[1] \in 1..Len(q.blocks)
      BY <2>2, <1>11, <1>9, <1>1 DEF Laid, Listed
    <3> QED
      BY <3>1, <1>1, <1>9
  <2>5. LaidOn(mem, f, id, to, m)
    BY <2>1, <2>3, <2>4, Zenon DEF LaidOn
  <2>6. ~Popable(f)
    BY <2>1 DEF Popable
  <2>7. SameBlocks(p, f)
    BY <2>1, <1>9 DEF SameBlocks
  <2> QED
    BY <2>1, <2>5, <2>6, <2>7, Zenon DEF f
<1> QED
  BY <1>10, <1>11

--------------------------------------------------------------------------------
(* bufferPool.swap *)

\* q is the pool p with the block of len bytes in buf filed under slot, a slot
\* that is new or not in use, at the head of the list.
Added(p, q, slot, buf, len) ==
    /\ q \in Pool /\ slot \in 1..Len(q.blocks)
    /\ \/ Len(q.blocks) = Len(p.blocks) /\ ~p.blocks[slot].active
       \/ Len(q.blocks) = Len(p.blocks) + 1 /\ slot = Len(q.blocks)
    /\ q.blocks[slot] = [buf |-> buf, len |-> len, next |-> 0, active |-> TRUE]
    /\ \A i \in 1..Len(p.blocks) : i # slot =>
          /\ q.blocks[i].buf = p.blocks[i].buf /\ q.blocks[i].len = p.blocks[i].len
          /\ q.blocks[i].active = p.blocks[i].active
          /\ q.blocks[i].next = IF i = p.head THEN slot ELSE p.blocks[i].next
    /\ q.head = slot /\ q.pos = p.pos
    /\ q.tail = IF p.tail = 0 THEN slot ELSE p.tail

LEMMA NextExcept ==
    ASSUME NEW i \in Block, NEW slot, NEW j, j = [i EXCEPT !.next = slot]
    PROVE  j = [buf |-> i.buf, len |-> i.len, next |-> slot, active |-> i.active]
  BY Zenon DEF Block

\* Linking the head, if there is one, to the slot.
Linked(seq, h, slot, new) ==
    /\ new \in Seq(Block) /\ Len(new) = Len(seq)
    /\ \A i \in 1..Len(seq) : i # h => new[i] = seq[i]
    /\ \A i \in 1..Len(seq) : i = h =>
          new[i] = [buf |-> seq[i].buf, len |-> seq[i].len, next |-> slot,
                    active |-> seq[i].active]

LEMMA LinkHead ==
    ASSUME NEW seq \in Seq(Block), NEW h \in 0..Len(seq), NEW slot \in Nat,
           NEW new, new = IF h = 0 THEN seq ELSE [seq EXCEPT ![h].next = slot]
    PROVE  Linked(seq, h, slot, new)
<1>1. CASE h = 0
  BY <1>1 DEF Linked
<1>2. CASE h # 0
  <2> DEFINE t == [buf |-> seq[h].buf, len |-> seq[h].len, next |-> slot,
                   active |-> seq[h].active]
  <2>1. h \in 1..Len(seq) /\ seq[h] \in Block
    BY <1>2
  <2>2. [seq[h] EXCEPT !.next = slot] = t
    BY <2>1, NextExcept, Zenon
  <2>3. new = [seq EXCEPT ![h] = t]
    BY <1>2, <2>2
  <2>4. t \in Block
    BY <2>1, BlockIs DEF Block
  <2> HIDE DEF t
  <2>5. /\ new \in Seq(Block) /\ Len(new) = Len(seq)
        /\ \A i \in 1..Len(seq) : new[i] = IF i = h THEN t ELSE seq[i]
    BY <2>1, <2>3, <2>4
  <2> QED
    BY <2>5 DEF t, Linked
<1> QED
  BY <1>1, <1>2

\* A set of slots that is not empty has a least one.
LEMMA LeastSlot ==
    ASSUME NEW S \in SUBSET Nat, S # {}
    PROVE  Min(S) \in S
  BY LeastNumber DEF Min

LEMMA SwapIs ==
    ASSUME NEW p \in Pool, NEW buf \in Nat, NEW len \in Nat, NEW size \in Nat,
           Len(heap) \in Nat,
           p.head \in 0..Len(p.blocks), p.head # 0 => p.blocks[p.head].active,
           NEW old, old = [buf |-> buf, len |-> len], ~InPlace(p, old, size),
           NEW s, s = PoolSwap(p, old, size)
    PROVE  \E slot \in Nat :
              /\ Added(p, s.pool, slot, buf, len)
              /\ slot <= Len(p.blocks) => /\ slot \in Reusable(p, size)
                                         /\ s.id = p.blocks[slot].buf
              /\ slot > Len(p.blocks) => /\ Reusable(p, size) = {}
                                        /\ s.id = Len(heap) + 1
<1> DEFINE fits == Reusable(p, size)
           N == Len(p.blocks)
           slot == IF fits # {} THEN Min(fits) ELSE N + 1
           stored == [buf |-> buf, len |-> len, next |-> 0, active |-> TRUE]
           filed == IF fits # {} THEN [p.blocks EXCEPT ![slot] = stored]
                                 ELSE Append(p.blocks, stored)
           new == IF p.head = 0 THEN filed ELSE [filed EXCEPT ![p.head].next = slot]
           q == [blocks |-> new, head |-> slot, tail |-> IF p.tail = 0 THEN slot ELSE p.tail,
                 pos |-> p.pos]
<1>1. s = [pool |-> q, id |-> IF fits # {} THEN p.blocks[slot].buf ELSE Len(heap) + 1]
  <2>1. old.buf = buf /\ old.len = len
    OBVIOUS
  <2> QED
    BY <2>1, Zenon DEF PoolSwap
<1>2. /\ p.blocks \in Seq(Block) /\ N \in Nat /\ p.tail \in Nat /\ p.pos \in Nat
      /\ stored \in Block
  BY PoolIs DEF Block
<1>3. fits # {} => slot \in fits /\ slot \in 1..N /\ ~p.blocks[slot].active
  <2>1. DOMAIN p.blocks = 1..N
    BY <1>2
  <2>2. fits \in SUBSET Nat /\ fits \subseteq 1..N
    BY <2>1, <1>2 DEF Reusable
  <2>3. fits # {} => slot \in fits
    BY <2>2, LeastSlot
  <2> QED
    BY <2>2, <2>3 DEF Reusable
<1>4. slot \in Nat /\ slot # p.head
  BY <1>2, <1>3
<1> HIDE DEF fits, slot, stored
<1>5. /\ filed \in Seq(Block) /\ slot \in 1..Len(filed) /\ filed[slot] = stored
      /\ \A i \in 1..N : i # slot => filed[i] = p.blocks[i]
      /\ \/ fits # {} /\ Len(filed) = N
         \/ fits = {} /\ Len(filed) = N + 1 /\ slot = N + 1
  <2>1. CASE fits # {}
    BY <2>1, <1>2, <1>3
  <2>2. CASE fits = {}
    BY <2>2, <1>2 DEF slot
  <2> QED
    BY <2>1, <2>2
<1> HIDE DEF filed
<1>6. p.head \in 0..Len(filed) /\ N <= Len(filed)
  BY <1>2, <1>5
<1>7. Linked(filed, p.head, slot, new)
  <2>1. filed \in Seq(Block) /\ p.head \in 0..Len(filed) /\ slot \in Nat
    BY <1>4, <1>5, <1>6
  <2>2. new = IF p.head = 0 THEN filed ELSE [filed EXCEPT ![p.head].next = slot]
    OBVIOUS
  <2> HIDE DEF new
  <2> QED
    BY <2>1, <2>2, LinkHead, Zenon
<1> HIDE DEF new
<1>8. q \in Pool
  BY <1>2, <1>4, <1>7 DEF Pool, Linked
<1>9. new[slot] = stored
  BY <1>4, <1>5, <1>7 DEF Linked
<1>10. ASSUME NEW i \in 1..N, i # slot
       PROVE  /\ new[i].buf = p.blocks[i].buf /\ new[i].len = p.blocks[i].len
              /\ new[i].active = p.blocks[i].active
              /\ new[i].next = IF i = p.head THEN slot ELSE p.blocks[i].next
  <2>1. i \in 1..Len(filed) /\ filed[i] = p.blocks[i]
    BY <1>10, <1>2, <1>5, <1>6
  <2>2. CASE i # p.head
    BY <2>1, <2>2, <1>7, Zenon DEF Linked
  <2>3. CASE i = p.head
    <3>1. new[i] = [buf |-> p.blocks[i].buf, len |-> p.blocks[i].len, next |-> slot,
                    active |-> p.blocks[i].active]
      BY <2>1, <2>3, <1>7, Zenon DEF Linked
    <3>2. /\ new[i].buf = p.blocks[i].buf /\ new[i].len = p.blocks[i].len
          /\ new[i].next = slot
      BY <3>1
    <3>3. new[i].active = p.blocks[i].active
      <4>1. ASSUME NEW r, NEW a, NEW b, NEW c, NEW d,
                   r = [buf |-> a, len |-> b, next |-> c, active |-> d]
            PROVE  r.active = d
        BY <4>1
      <4> QED
        BY <3>1, <4>1, Zenon
    <3> QED
      BY <3>2, <3>3, <2>3, Zenon
  <2> QED
    BY <2>2, <2>3
<1>11. \/ Len(new) = N /\ ~p.blocks[slot].active
       \/ Len(new) = N + 1 /\ slot = N + 1
  BY <1>3, <1>5, <1>7 DEF Linked
<1>12. /\ q.blocks = new /\ q.head = slot /\ q.pos = p.pos
       /\ q.tail = IF p.tail = 0 THEN slot ELSE p.tail
  OBVIOUS
<1> HIDE DEF q
<1>13. Added(p, q, slot, buf, len)
  <2>1. slot \in 1..Len(new)
    BY <1>5, <1>7 DEF Linked
  <2>2. \/ Len(new) = N /\ ~p.blocks[slot].active
        \/ Len(new) = N + 1 /\ slot = Len(new)
    BY <1>11
  <2> QED
    BY <2>1, <2>2, <1>8, <1>9, <1>10, <1>12, Zenon DEF Added, stored
<1>14. s.pool = q /\ s.id = IF fits # {} THEN p.blocks[slot].buf ELSE Len(heap) + 1
  BY <1>1
<1>15. /\ fits # {} => slot <= N /\ ~(slot > N)
       /\ fits = {} => slot > N /\ ~(slot <= N)
  BY <1>2, <1>3, <1>5
<1> QED
  BY <1>3, <1>4, <1>13, <1>14, <1>15 DEF fits

HeldEnds(end) == \A k \in DOMAIN held : k \in Nat /\ k < end

\* The memory mem2 holds the n blocks of mem and the block of len bytes in buf.
Copied(mem, mem2, p, buf, len, to) ==
    /\ \A i \in 1..Len(p.blocks) : p.blocks[i].active =>
          mem2[p.blocks[i].buf] = mem[p.blocks[i].buf]
    /\ len <= mem2[buf].cap
    /\ \A x \in 0..(len - 1) : mem2[buf].data[x] = to + x

\* The current buffer becomes the last block of the list.
LEMMA AddLaid ==
    ASSUME NEW mem, NEW mem2, NEW p \in Pool, NEW q, NEW slot \in Nat,
           NEW buf \in Nat, NEW len \in Nat, NEW id2, NEW to \in Nat, NEW n \in Nat,
           freed \in Nat, HeldEnds(to + len), p.tail = 0 => p.head = 0,
           LaidOn(mem, p, buf, to, n), Added(p, q, slot, buf, len),
           Copied(mem, mem2, p, buf, len, to)
    PROVE  LaidOn(mem2, q, id2, to + len, n + 1)
<1>c. PICK c \in [1..n -> 1..Len(p.blocks)], b \in [1..(n + 1) -> Nat] :
          /\ Laid(mem, p, buf, freed - p.pos, to, n, c, b)
          /\ n > 0 => p.head = c[n]
  BY DEF LaidOn
<1> DEFINE m == n + 1
           d == [k \in 1..m |-> IF k <= n THEN c[k] ELSE slot]
           e == [k \in 1..(m + 1) |-> IF k <= m THEN b[k] ELSE to + len]
<1>1. /\ m \in Nat /\ Len(p.blocks) \in Nat /\ Len(q.blocks) \in Nat
      /\ Len(p.blocks) <= Len(q.blocks) /\ slot \in 1..Len(q.blocks)
  BY PoolIs DEF Added
<1>d. /\ d \in [1..m -> 1..Len(q.blocks)] /\ d[m] = slot
      /\ \A k \in 1..n : k \in 1..m /\ d[k] = c[k] /\ c[k] \in 1..Len(p.blocks)
  <2>1. \A k \in 1..n : k \in 1..m /\ d[k] = c[k] /\ c[k] \in 1..Len(p.blocks)
    BY <1>1
  <2>2. d[m] = slot
    BY <1>1
  <2>3. ASSUME NEW k \in 1..m
        PROVE  d[k] \in 1..Len(q.blocks)
    <3>1. CASE k \in 1..n
      <4>1. d[k] = c[k] /\ c[k] \in 1..Len(p.blocks)
        BY <2>1, <3>1
      <4>2. ASSUME NEW x \in Nat, NEW y \in Nat, x <= y
            PROVE  1..x \subseteq 1..y
        BY <4>2
      <4>3. 1..Len(p.blocks) \subseteq 1..Len(q.blocks)
        BY <4>2, <1>1, Zenon
      <4> HIDE DEF d
      <4> QED
        BY <4>1, <4>3, Zenon
    <3>2. CASE k = m
      BY <2>2, <3>2, <1>1
    <3> QED
      BY <3>1, <3>2
  <2>4. d = [k \in 1..m |-> d[k]]
    OBVIOUS
  <2> HIDE DEF d
  <2>5. d \in [1..m -> 1..Len(q.blocks)]
    BY <2>3, <2>4, Zenon
  <2> QED
    BY <2>1, <2>2, <2>5
<1>e. /\ e \in [1..(m + 1) -> Nat] /\ e[m + 1] = to + len
      /\ \A k \in 1..m : e[k] = b[k] /\ b[k] \in Nat /\ e[k] \in Nat
  BY <1>1
<1>m. m = n + 1
  OBVIOUS
<1> HIDE DEF m, d, e
<1>2. ASSUME NEW k \in 1..n
      PROVE  p.blocks[c[k]].active /\ c[k] # slot
  <2>1. p.blocks[c[k]].active /\ c[k] \in 1..Len(p.blocks)
    BY <1>c, <1>d DEF Laid, Listed
  <2>2. \/ ~p.blocks[slot].active
        \/ slot = Len(p.blocks) + 1
    BY Zenon DEF Added
  <2>3. Len(p.blocks) + 1 \notin 1..Len(p.blocks)
    BY <1>1
  <2> QED
    BY <2>1, <2>2, <2>3, Zenon
<1>3. ASSUME NEW k \in 1..n
      PROVE  /\ q.blocks[d[k]].buf = p.blocks[c[k]].buf
             /\ q.blocks[d[k]].len = p.blocks[c[k]].len
             /\ q.blocks[d[k]].next = IF c[k] = p.head THEN slot ELSE p.blocks[c[k]].next
  <2>1. d[k] = c[k] /\ c[k] \in 1..Len(p.blocks) /\ c[k] # slot
    BY <1>2, <1>d
  <2>2. /\ q.blocks[c[k]].buf = p.blocks[c[k]].buf
        /\ q.blocks[c[k]].len = p.blocks[c[k]].len
        /\ q.blocks[c[k]].next = IF c[k] = p.head THEN slot ELSE p.blocks[c[k]].next
    BY <2>1, Zenon DEF Added
  <2> QED
    BY <2>1, <2>2, Zenon
<1>4. /\ q.blocks[slot].buf = buf /\ q.blocks[slot].len = len /\ q.blocks[slot].next = 0
      /\ q.blocks[slot].active
  BY DEF Added
<1>5. q.tail = (IF p.tail = 0 THEN slot ELSE p.tail) /\ q.pos = p.pos /\ q.head = slot
  BY DEF Added
<1>6. Listed(q, m, d)
  <2>1. ASSUME NEW j \in 1..m, NEW k \in 1..m, d[j] = d[k]
        PROVE  j = k
    <3>1. CASE j \in 1..n /\ k \in 1..n
      BY <2>1, <3>1, <1>c, <1>d DEF Laid, Listed
    <3>2. CASE j = m /\ k = m
      BY <3>2
    <3>3. CASE j \in 1..n /\ k = m
      BY <2>1, <3>3, <1>2, <1>d
    <3>4. CASE j = m /\ k \in 1..n
      BY <2>1, <3>4, <1>2, <1>d
    <3> QED
      BY <3>1, <3>2, <3>3, <3>4, <1>m
  <2>2. ASSUME NEW i \in 1..Len(q.blocks)
        PROVE  q.blocks[i].active <=> \E k \in 1..m : d[k] = i
    <3>1. CASE i = slot
      BY <3>1, <1>1, <1>4, <1>d, <1>m
    <3>2. CASE i # slot
      <4>1. i \in 1..Len(p.blocks) /\ q.blocks[i].active = p.blocks[i].active
        BY <3>2, <1>1 DEF Added
      <4>2. p.blocks[i].active <=> \E k \in 1..n : c[k] = i
        BY <4>1, <1>c DEF Laid, Listed
      <4>3. (\E k \in 1..m : d[k] = i) <=> \E k \in 1..n : c[k] = i
        <5>1. ASSUME NEW k \in 1..m, d[k] = i
              PROVE  k \in 1..n /\ c[k] = i
          <6>1. k # m
            BY <5>1, <3>2, <1>d
          <6>2. k \in 1..n
            BY <6>1, <1>m
          <6> QED
            BY <5>1, <6>2, <1>d
        <5> QED
          BY <5>1, <1>d, Zenon
      <4> QED
        BY <4>1, <4>2, <4>3, Zenon
    <3> QED
      BY <3>1, <3>2
  <2>3. ASSUME NEW k \in 1..m
        PROVE  q.blocks[d[k]].next = IF k = m THEN 0 ELSE d[k + 1]
    <3>1. CASE k = m
      BY <3>1, <1>4, <1>d
    <3>2. CASE k # m
      <4>1. k \in 1..n /\ k # m
        BY <3>2, <1>m
      <4>2. CASE k = n
        <5>1. c[k] = p.head /\ d[k + 1] = slot
          BY <4>1, <4>2, <1>c, <1>d, <1>m
        <5> QED
          BY <4>1, <5>1, <1>3, Zenon
      <4>3. CASE k # n
        <5>1. k + 1 \in 1..n /\ n \in 1..n
          BY <4>1, <4>3
        <5>2. c[k] # c[n] /\ c[n] = p.head
          <6>1. c[k] = c[n] => k = n
            BY <4>1, <5>1, <1>c DEF Laid, Listed
          <6>2. n > 0
            BY <5>1
          <6> QED
            BY <4>3, <6>1, <6>2, <1>c
        <5>3. p.blocks[c[k]].next = c[k + 1]
          BY <4>1, <4>3, <1>c, Zenon DEF Laid, Listed
        <5>4. d[k + 1] = c[k + 1]
          BY <5>1, <1>d
        <5> QED
          BY <4>1, <5>2, <5>3, <5>4, <1>3, Zenon
      <4> QED
        BY <4>2, <4>3
    <3> QED
      BY <3>1, <3>2
  <2>4. q.tail = IF m = 0 THEN 0 ELSE d[1]
    <3>1. m # 0
      BY <1>m
    <3>2. CASE n = 0
      BY <3>1, <3>2, <1>5, <1>c, <1>d, <1>m DEF Laid, Listed
    <3>3. CASE n # 0
      <4>1. 1 \in 1..n /\ p.tail = c[1]
        BY <3>3, <1>c DEF Laid, Listed
      <4>2. c[1] # 0 /\ d[1] = c[1]
        BY <4>1, <1>d
      <4> QED
        BY <3>1, <4>1, <4>2, <1>5
    <3> QED
      BY <3>2, <3>3
  <2> QED
    BY <2>1, <2>2, <2>3, <2>4, Zenon DEF Listed
<1>7. Begins(q, m, d, e, freed - q.pos, to + len)
  <2>1. /\ b[1] = freed - p.pos /\ b[n + 1] = to
        /\ \A k \in 1..n : b[k + 1] = b[k] + p.blocks[c[k]].len
        /\ \A k \in 1..(n + 1) : b[k] <= to
    BY <1>c DEF Laid, Begins
  <2>2. e[1] = freed - q.pos
    <3>1. 1 \in 1..m
      BY <1>m
    <3> QED
      BY <2>1, <3>1, <1>5, <1>e
  <2>3. ASSUME NEW k \in 1..m
        PROVE  e[k + 1] = e[k] + q.blocks[d[k]].len
    <3>1. CASE k = m
      <4>1. e[m] = to /\ e[m + 1] = to + len
        BY <2>1, <1>e, <1>m
      <4> QED
        BY <3>1, <4>1, <1>4, <1>d
    <3>2. CASE k # m
      <4>1. k \in 1..n /\ k + 1 \in 1..m
        BY <3>2, <1>m
      <4> QED
        BY <4>1, <2>1, <1>3, <1>e
    <3> QED
      BY <3>1, <3>2
  <2>4. ASSUME NEW k \in 1..(m + 1)
        PROVE  e[k] <= to + len
    <3>1. CASE k = m + 1
      BY <3>1, <1>e
    <3>2. CASE k # m + 1
      <4>1. k \in 1..m
        BY <3>2, <1>m
      <4>2. e[k] = b[k] /\ b[k] \in Nat /\ b[k] <= to
        BY <4>1, <2>1, <1>e, <1>m
      <4> QED
        BY <4>2
    <3> QED
      BY <3>1, <3>2
  <2> QED
    BY <2>2, <2>3, <2>4, <1>e, Zenon DEF Begins
<1>8. Stored(mem2, q, m, d, e)
  <2> SUFFICES ASSUME NEW k \in 1..m
               PROVE  /\ q.blocks[d[k]].len <= mem2[q.blocks[d[k]].buf].cap
                      /\ \A x \in 0..(q.blocks[d[k]].len - 1) :
                            mem2[q.blocks[d[k]].buf].data[x] = e[k] + x
    BY DEF Stored
  <2>1. CASE k = m
    <3>1. e[m] = to
      BY <1>c, <1>e, <1>m DEF Laid, Begins
    <3> QED
      BY <2>1, <3>1, <1>4, <1>d DEF Copied
  <2>2. CASE k # m
    <3>1. k \in 1..n /\ e[k] = b[k]
      BY <2>2, <1>e, <1>m
    <3>2. mem2[p.blocks[c[k]].buf] = mem[p.blocks[c[k]].buf]
      BY <3>1, <1>2, <1>d DEF Copied
    <3>3. /\ p.blocks[c[k]].len <= mem[p.blocks[c[k]].buf].cap
          /\ \A x \in 0..(p.blocks[c[k]].len - 1) :
                mem[p.blocks[c[k]].buf].data[x] = b[k] + x
      BY <3>1, <1>c, Zenon DEF Laid, Stored
    <3> QED
      BY <3>1, <3>2, <3>3, <1>3, Zenon
  <2> QED
    BY <2>1, <2>2
<1>9. Located(q, m, d, e, id2, to + len)
  <2>1. ASSUME NEW k \in DOMAIN held
        PROVE  \E i \in 1..m : /\ e[i] <= k /\ k < e[i + 1]
                               /\ held[k] = [buf |-> q.blocks[d[i]].buf, idx |-> k - e[i]]
    <3>1. k \in Nat /\ k < to + len
      BY DEF HeldEnds
    <3>2. CASE to <= k /\ held[k] = [buf |-> buf, idx |-> k - to]
      <4>1. m \in 1..m /\ e[m] = to /\ e[m + 1] = to + len /\ q.blocks[d[m]].buf = buf
        BY <1>c, <1>4, <1>d, <1>e, <1>m DEF Laid, Begins
      <4> QED
        BY <3>1, <3>2, <4>1, Zenon
    <3>3. CASE \E j \in 1..n : /\ b[j] <= k /\ k < b[j + 1]
                              /\ held[k] = [buf |-> p.blocks[c[j]].buf, idx |-> k - b[j]]
      <4>1. PICK j \in 1..n : /\ b[j] <= k /\ k < b[j + 1]
                              /\ held[k] = [buf |-> p.blocks[c[j]].buf, idx |-> k - b[j]]
        BY <3>3
      <4>2. j \in 1..m /\ j + 1 \in 1..m
        BY <1>m
      <4>3. e[j] = b[j] /\ e[j + 1] = b[j + 1]
        BY <4>2, <1>e
      <4> QED
        BY <4>1, <4>2, <4>3, <1>3, Zenon
    <3> QED
      BY <3>2, <3>3, <1>c, Zenon DEF Laid, Located
  <2> QED
    BY <2>1, Zenon DEF Located
<1>10. m > 0 => q.head = d[m]
  BY <1>5, <1>d
<1> QED
  BY <1>6, <1>7, <1>8, <1>9, <1>10, <1>d, <1>e, Zenon DEF LaidOn, Laid, m

--------------------------------------------------------------------------------
(* read *)

\* The pool p as swap finds it.
FreedPool(p) ==
    /\ p \in Pool /\ Separate(heap, p, z.buf.id)
    /\ \E n \in Nat : LaidOn(heap, p, z.buf.id, base, n)
    /\ p.tail = 0 => p.head = 0
    /\ ~Popable(p)

LEMMA LexerIs ==
    ASSUME NEW l \in Lexer
    PROVE  /\ l.err \in {"nil", "EOF", "fail"}
           /\ l.buf = [id |-> l.buf.id, len |-> l.buf.len]
           /\ l.buf.id \in Nat /\ l.buf.len \in Nat
           /\ l.pool \in Pool /\ l.start \in Nat /\ l.pos \in Nat
           /\ l.prevStart \in Nat /\ l.free \in Nat
  BY DEF Lexer

\* A pool whose blocks have the same buffers is as separate.
LEMMA SameSeparate ==
    ASSUME NEW mem, NEW p, NEW q, NEW id, SameBlocks(p, q), Separate(mem, p, id)
    PROVE  Separate(mem, q, id)
  BY DEF Separate, SameBlocks

LEMMA GoodIs ==
    ASSUME NEW mem, NEW l, NEW origin, Good(mem, l, origin)
    PROVE  /\ mem \in Seq(Memory) /\ Len(mem) \in Nat /\ l \in Lexer
           /\ origin \in Nat /\ l.start \in Nat /\ l.pos \in Nat /\ l.buf.len \in Nat
           /\ l.buf.id \in 1..Len(mem) /\ l.pool \in Pool /\ l.free \in Nat
           /\ l.prevStart \in Nat /\ l.err \in {"nil", "EOF", "fail"}
           /\ origin + l.start \in Nat
           /\ freed \in Nat /\ freed <= origin + l.start
           /\ DOMAIN held = freed..((origin + l.start) - 1)
           /\ HeldIsNotFreed /\ HeldEnds(origin + l.start)
           /\ client \in Clients
           /\ Separate(mem, l.pool, l.buf.id) /\ Current(mem, l, origin)
<1>1. /\ mem \in Seq(Memory) /\ l \in Lexer /\ origin \in Nat /\ client \in Clients
      /\ Separate(mem, l.pool, l.buf.id) /\ Current(mem, l, origin) /\ HeldRange(l, origin)
  BY Zenon DEF Good
<1>2. /\ l.start \in Nat /\ l.pos \in Nat /\ l.buf.len \in Nat /\ l.pool \in Pool
      /\ l.free \in Nat /\ l.prevStart \in Nat /\ l.err \in {"nil", "EOF", "fail"}
  BY <1>1, LexerIs
<1>3. l.buf.id \in 1..Len(mem)
  BY <1>1 DEF Separate
<1>4. /\ freed \in Nat /\ freed <= origin + l.start
      /\ DOMAIN held = freed..((origin + l.start) - 1)
  BY <1>1 DEF HeldRange
<1>5. origin + l.start \in Nat /\ Len(mem) \in Nat
  BY <1>1, <1>2
<1>6. HeldIsNotFreed /\ HeldEnds(origin + l.start)
  <2>1. ASSUME NEW x \in Nat, NEW y \in Nat, NEW k \in x..(y - 1)
        PROVE  k \in Nat /\ x <= k /\ k < y
    BY <2>1
  <2> DEFINE end == origin + l.start
  <2>2. freed \in Nat /\ end \in Nat /\ DOMAIN held = freed..(end - 1)
    BY <1>4, <1>5, Zenon
  <2> HIDE DEF end
  <2>3. \A k \in DOMAIN held : k \in Nat /\ freed <= k /\ k < end
    BY <2>1, <2>2
  <2> QED
    BY <2>3 DEF HeldIsNotFreed, HeldEnds, end
<1> QED
  BY <1>1, <1>2, <1>3, <1>4, <1>5, <1>6

LEMMA FreeIs ==
    ASSUME Inv
    PROVE  FreedPool(PoolFree(z.pool, z.free))
<1> DEFINE p == z.pool
           f == PoolFree(z.pool, z.free)
<1>1. p \in Pool /\ z.free \in Nat /\ base \in Nat /\ freed \in Nat
  BY GoodIs, Zenon DEF Inv
<1>2. HeldIsNotFreed
  BY GoodIs, Zenon DEF Inv
<1>3. PICK n \in Nat : \E c \in [1..n -> 1..Len(p.blocks)], b \in [1..(n + 1) -> Nat] :
          /\ Laid(heap, p, z.buf.id, freed - z.free - p.pos, base, n, c, b)
          /\ Headed(p, n, c)
  BY Zenon DEF Inv, Good
<1>4. PICK c \in [1..n -> 1..Len(p.blocks)], b \in [1..(n + 1) -> Nat] :
          /\ Laid(heap, p, z.buf.id, freed - z.free - p.pos, base, n, c, b)
          /\ Headed(p, n, c)
  BY <1>3
<1>5. Separate(heap, p, z.buf.id)
  BY DEF Inv, Good
<1> HIDE DEF p
<1>6. /\ PoolFree(p, z.free) \in Pool
      /\ SameBlocks(p, PoolFree(p, z.free))
      /\ \E m \in Nat : LaidOn(heap, PoolFree(p, z.free), z.buf.id, base, m)
      /\ PoolFree(p, z.free).tail = 0 => PoolFree(p, z.free).head = 0
      /\ ~Popable(PoolFree(p, z.free))
  BY <1>1, <1>2, <1>4, FreeLaid, Zenon
<1>7. f = PoolFree(p, z.free)
  BY DEF p
<1> HIDE DEF f
<1>8. Separate(heap, f, z.buf.id)
  <2>1. Separate(heap, p, z.buf.id)
    BY <1>5 DEF p
  <2> QED
    BY <2>1, <1>6, <1>7, SameSeparate, Zenon
<1> QED
  BY <1>6, <1>7, <1>8, Zenon DEF FreedPool, f

\* new is the memory mem but for the data of the buffer id.
Rewritten(mem, new, id) ==
    /\ new \in Seq(Memory) /\ Len(new) = Len(mem)
    /\ \A k \in 1..Len(mem) : k # id => new[k] = mem[k]

\* What holds of the memory mem and the result s of swap.
Swapped(mem, s, size) ==
    /\ mem \in Seq(Memory) /\ s.pool \in Pool
    /\ Separate(mem, s.pool, s.id)
    /\ s.pool.tail = 0 => s.pool.head = 0
    /\ \A new : Rewritten(mem, new, s.id) =>
          \E n \in Nat : LaidOn(new, s.pool, s.id, base + z.start, n)
    /\ Len(mem) >= Len(heap)
    /\ (Len(mem) > Len(heap) /\ freed = base + z.start) =>
          /\ s.id = Len(mem) /\ mem[s.id].cap = size
          /\ \A id \in 1..Len(heap) : heap[id].cap < size

\* The current buffer can be used again: everything shifted from it is freed.
LEMMA SwapInPlace ==
    ASSUME Inv, NEW p, FreedPool(p), NEW size \in Nat,
           NEW old, old = [buf |-> z.buf.id, len |-> z.start], InPlace(p, old, size),
           NEW s, s = PoolSwap(p, old, size)
    PROVE  s.id = z.buf.id /\ Swapped(heap, s, size)
<1>1. /\ p \in Pool /\ p.pos \in Nat /\ z.start \in Nat /\ base \in Nat /\ freed \in Nat
      /\ heap \in Seq(Memory)
  <2>1. p \in Pool
    BY DEF FreedPool
  <2>2. p.pos \in Nat
    BY <2>1, PoolIs
  <2> QED
    BY <2>1, <2>2, GoodIs, Zenon DEF Inv
<1>2. p.tail = 0 /\ p.head = 0 /\ p.pos >= z.start
  <2>1. old.len = z.start
    OBVIOUS
  <2> QED
    BY <2>1 DEF InPlace, FreedPool
<1>3. PICK n \in Nat : LaidOn(heap, p, z.buf.id, base, n)
  BY DEF FreedPool
<1>4. PICK c \in [1..n -> 1..Len(p.blocks)], b \in [1..(n + 1) -> Nat] :
          Laid(heap, p, z.buf.id, freed - p.pos, base, n, c, b)
  BY <1>3, Zenon DEF LaidOn
<1>5. n = 0
  <2>1. n # 0 => p.tail = c[1]
    BY <1>4 DEF Laid, Listed
  <2>2. n # 0 => c[1] \in 1..Len(p.blocks)
    OBVIOUS
  <2> QED
    BY <2>1, <2>2, <1>2
<1>6. freed - p.pos = base
  BY <1>4, <1>5 DEF Laid, Begins
<1>7. freed = base + z.start /\ DOMAIN held = {}
  <2>1. freed <= base + z.start /\ DOMAIN held = freed..((base + z.start) - 1)
    BY GoodIs, Zenon DEF Inv
  <2>2. ASSUME NEW f \in Nat, NEW x \in Nat, NEW y \in Nat, NEW w \in Nat,
               f <= x + y, f - w = x, w >= y
        PROVE  f = x + y
    BY <2>2
  <2>3. freed = base + z.start
    BY <2>1, <2>2, <1>1, <1>2, <1>6, Zenon
  <2>4. ASSUME NEW x \in Nat
        PROVE  x..(x - 1) = {}
    BY <2>4
  <2>5. base + z.start \in Nat
    BY <1>1
  <2>6. (base + z.start)..((base + z.start) - 1) = {}
    BY <2>4, <2>5, Zenon
  <2> QED
    BY <2>1, <2>3, <2>6, Zenon
<1> DEFINE q == [p EXCEPT !.pos = p.pos - z.start]
<1>8. s = [pool |-> q, id |-> z.buf.id]
  <2>1. s = [pool |-> [p EXCEPT !.pos = @ - old.len], id |-> old.buf]
    BY Zenon DEF PoolSwap
  <2>2. old.buf = z.buf.id /\ old.len = z.start
    OBVIOUS
  <2> QED
    BY <2>1, <2>2
<1>9. /\ q \in Pool /\ q.blocks = p.blocks /\ q.tail = p.tail /\ q.head = p.head
      /\ q.pos = p.pos - z.start
  <2>1. p.pos - z.start \in Nat
    BY <1>1, <1>2
  <2>2. q = [p EXCEPT !.pos = p.pos - z.start]
    OBVIOUS
  <2> HIDE DEF q
  <2> QED
    BY <1>1, <2>1, <2>2, MovePos
<1> HIDE DEF q
<1>10. s.pool = q /\ s.id = z.buf.id
  BY <1>8
<1>11. ASSUME NEW new
       PROVE  LaidOn(new, q, z.buf.id, base + z.start, 0)
  <2> DEFINE d == [k \in 1..0 |-> 1]
             e == [k \in 1..1 |-> base + z.start]
  <2>1. d \in [1..0 -> 1..Len(q.blocks)]
    OBVIOUS
  <2>2. e \in [1..1 -> Nat] /\ e[1] = base + z.start
    BY <1>1
  <2>3. freed - q.pos = base + z.start
    BY <1>1, <1>6, <1>9
  <2> HIDE DEF d, e
  <2>4. Listed(q, 0, d)
    <3>1. ASSUME NEW i \in 1..Len(p.blocks)
          PROVE  ~p.blocks[i].active
      BY <1>4, <1>5 DEF Laid, Listed
    <3> QED
      BY <3>1, <1>2, <1>9 DEF Listed
  <2>5. Begins(q, 0, d, e, freed - q.pos, base + z.start)
    <3>1. base + z.start \in Nat
      BY <1>1
    <3>2. \A k \in 1..(0 + 1) : k = 1
      OBVIOUS
    <3>3. ASSUME NEW x \in Nat
          PROVE  x <= x
      OBVIOUS
    <3> QED
      BY <2>2, <2>3, <3>1, <3>2, <3>3 DEF Begins
  <2>6. Stored(new, q, 0, d, e)
    BY DEF Stored
  <2>7. Located(q, 0, d, e, z.buf.id, base + z.start)
    BY <1>7 DEF Located
  <2>8. e \in [1..(0 + 1) -> Nat]
    BY <2>2
  <2>9. ~(0 > 0)
    OBVIOUS
  <2> QED
    BY <2>1, <2>4, <2>5, <2>6, <2>7, <2>8, <2>9, Zenon DEF LaidOn, Laid
<1>12. Separate(heap, q, z.buf.id)
  <2>1. Separate(heap, p, z.buf.id)
    BY DEF FreedPool
  <2> QED
    BY <2>1, <1>9, SameSeparate, Zenon DEF SameBlocks
<1>13. Len(heap) \in Nat
  BY <1>1
<1>14. Len(heap) >= Len(heap) /\ ~(Len(heap) > Len(heap)) /\ 0 \in Nat
  BY <1>13
<1> QED
  BY <1>1, <1>2, <1>9, <1>10, <1>11, <1>12, <1>14, Zenon DEF Swapped

\* The memory swap leaves: a buffer of the asked size is allocated at its end.
Allocated(id, size) == IF id > Len(heap) THEN Append(heap, Buffer(size)) ELSE heap

\* If everything shifted is freed, a buffer is allocated only if all are small.
LEMMA AllFreed ==
    ASSUME Inv, NEW p, FreedPool(p), NEW size \in Nat,
           NEW old, old = [buf |-> z.buf.id, len |-> z.start], ~InPlace(p, old, size),
           Reusable(p, size) = {}, freed = base + z.start
    PROVE  \A id \in 1..Len(heap) : heap[id].cap < size
<1>1. /\ p \in Pool /\ p.pos \in Nat /\ z.start \in Nat /\ base \in Nat /\ freed \in Nat
      /\ heap \in Seq(Memory) /\ z.buf.id \in 1..Len(heap)
      /\ p.blocks \in Seq(Block) /\ Len(p.blocks) \in Nat
  <2>1. p \in Pool
    BY DEF FreedPool
  <2>2. p.pos \in Nat /\ p.blocks \in Seq(Block) /\ Len(p.blocks) \in Nat
    BY <2>1, PoolIs
  <2> QED
    BY <2>1, <2>2, GoodIs, Zenon DEF Inv
<1>2. PICK n \in Nat : LaidOn(heap, p, z.buf.id, base, n)
  BY DEF FreedPool
<1>3. PICK c \in [1..n -> 1..Len(p.blocks)], b \in [1..(n + 1) -> Nat] :
          Laid(heap, p, z.buf.id, freed - p.pos, base, n, c, b)
  BY <1>2, Zenon DEF LaidOn
<1>4. n = 0
  <2> SUFFICES ASSUME n # 0
               PROVE  FALSE
    OBVIOUS
  <2>1. /\ 1 \in 1..n /\ 1 + 1 \in 1..(n + 1) /\ c[1] \in 1..Len(p.blocks)
        /\ b[1] \in Nat /\ b[1 + 1] \in Nat
    OBVIOUS
  <2>2. p.tail = c[1] /\ p.tail # 0
    BY <2>1, <1>1, <1>3 DEF Laid, Listed
  <2>3. p.blocks[c[1]].len \in Nat
    BY <2>1, <1>1, BlockIs
  <2>4. p.pos < p.blocks[c[1]].len
    <3>1. ~(p.pos >= p.blocks[c[1]].len)
      BY <2>2, Zenon DEF FreedPool, Popable, TailBlock
    <3>2. ASSUME NEW x \in Nat, NEW y \in Nat, ~(x >= y)
          PROVE  x < y
      BY <3>2
    <3> QED
      BY <3>1, <3>2, <2>3, <1>1, Zenon
  <2>5. /\ b[1] = freed - p.pos /\ b[1 + 1] = b[1] + p.blocks[c[1]].len
        /\ b[1 + 1] <= base
    BY <2>1, <1>3 DEF Laid, Begins
  <2>6. ASSUME NEW f \in Nat, NEW g \in Nat, NEW x \in Nat, NEW y \in Nat, NEW w \in Nat,
               NEW b1 \in Nat, f = g + x, w < y, b1 = f - w, b1 + y <= g
        PROVE  FALSE
    BY <2>6
  <2>7. b[1] + p.blocks[c[1]].len <= base
    BY <2>5
  <2> QED
    BY <2>1, <2>3, <2>4, <2>5, <2>6, <2>7, <1>1, Zenon
<1>5. p.tail = 0 /\ \A i \in 1..Len(p.blocks) : ~p.blocks[i].active
  <2>1. \A i \in 1..Len(p.blocks) : p.blocks[i].active <=> \E k \in 1..n : c[k] = i
    BY <1>3 DEF Laid, Listed
  <2>2. 1..n = {}
    BY <1>4
  <2>3. p.tail = 0
    BY <1>3, <1>4 DEF Laid, Listed
  <2> QED
    BY <2>1, <2>2, <2>3, Zenon
<1>6. p.pos = z.start
  <2>1. freed - p.pos = base
    BY <1>3, <1>4 DEF Laid, Begins
  <2> QED
    BY <2>1, <1>1
<1>7. ~(size <= heap[z.buf.id].cap)
  <2>1. old.buf = z.buf.id /\ old.len = z.start
    OBVIOUS
  <2>2. p.pos >= old.len
    BY <1>1, <1>6, <2>1
  <2> QED
    BY <2>1, <2>2, <1>5, Zenon DEF InPlace
<1>8. \A i \in 1..Len(p.blocks) : ~(size <= heap[p.blocks[i].buf].cap)
  <2>1. DOMAIN p.blocks = 1..Len(p.blocks)
    BY <1>1
  <2> QED
    BY <2>1, <1>5, Zenon DEF Reusable
<1>9. \A id \in 1..Len(heap) : ~(size <= heap[id].cap)
  <2>1. Separate(heap, p, z.buf.id)
    BY DEF FreedPool
  <2> QED
    BY <2>1, <1>7, <1>8, Zenon DEF Separate
<1>10. \A id \in 1..Len(heap) : heap[id] \in Memory
  BY <1>1
<1> QED
  BY <1>9, <1>10, MemoryIs

\* The buffers stay apart when the current one is filed.
LEMMA AddSeparate ==
    ASSUME NEW p \in Pool, NEW q, NEW slot \in Nat, NEW buf, NEW len, len <= StreamLen,
           StreamLen \in Nat, NEW size \in Nat, NEW mem \in Seq(Memory),
           Separate(mem, p, buf), Added(p, q, slot, buf, len),
           NEW id, NEW mem2 \in Seq(Memory),
           \/ slot <= Len(p.blocks) /\ id = p.blocks[slot].buf /\ mem2 = mem
           \/ slot > Len(p.blocks) /\ id = Len(mem) + 1 /\ Len(mem2) = Len(mem) + 1
    PROVE  Separate(mem2, q, id)
<1>1. Len(p.blocks) \in Nat /\ Len(q.blocks) \in Nat /\ Len(mem) \in Nat
  BY PoolIs DEF Added
<1>2. /\ buf \in 1..Len(mem)
      /\ \A i \in 1..Len(p.blocks) : p.blocks[i].buf \in 1..Len(mem) /\ p.blocks[i].buf # buf
      /\ \A i, j \in 1..Len(p.blocks) : p.blocks[i].buf = p.blocks[j].buf => i = j
      /\ \A m \in 1..Len(mem) : m = buf \/ \E i \in 1..Len(p.blocks) : p.blocks[i].buf = m
  BY DEF Separate
<1>3. /\ slot \in 1..Len(q.blocks) /\ q.blocks[slot].buf = buf
      /\ \A i \in 1..Len(p.blocks) : i # slot => q.blocks[i].buf = p.blocks[i].buf
  BY DEF Added
<1>r. \A i \in 1..Len(q.blocks) :
         q.blocks[i].len <= StreamLen /\ q.blocks[i].next <= Len(q.blocks)
  <2> SUFFICES ASSUME NEW i \in 1..Len(q.blocks)
               PROVE  q.blocks[i].len <= StreamLen /\ q.blocks[i].next <= Len(q.blocks)
    OBVIOUS
  <2>1. CASE i = slot
    <3>1. q.blocks[i].len = len /\ q.blocks[i].next = 0
      BY <2>1 DEF Added
    <3> QED
      BY <3>1, <1>1
  <2>2. CASE i # slot
    <3>1. i \in 1..Len(p.blocks) /\ Len(p.blocks) <= Len(q.blocks) /\ slot <= Len(q.blocks)
      BY <2>2, <1>1, <1>3 DEF Added
    <3>2. /\ q.blocks[i].len = p.blocks[i].len
          /\ q.blocks[i].next = IF i = p.head THEN slot ELSE p.blocks[i].next
      BY <2>2, <3>1, Zenon DEF Added
    <3>3. p.blocks[i].len <= StreamLen /\ p.blocks[i].next <= Len(p.blocks)
      BY <3>1, Zenon DEF Separate
    <3>4. p.blocks[i].next \in Nat
      BY <3>1, PoolIs, BlockIs
    <3>5. p.blocks[i].next <= Len(q.blocks)
      BY <3>1, <3>3, <3>4, <1>1
    <3> QED
      BY <3>1, <3>2, <3>3, <3>5
  <2> QED
    BY <2>1, <2>2
<1>4. CASE slot <= Len(p.blocks)
  <2>1. /\ slot \in 1..Len(p.blocks) /\ Len(q.blocks) = Len(p.blocks)
        /\ id = p.blocks[slot].buf /\ mem2 = mem
    BY <1>1, <1>3, <1>4 DEF Added
  <2>2. id \in 1..Len(mem2) /\ id # buf
    BY <2>1, <1>2
  <2>3. \A i \in 1..Len(q.blocks) : q.blocks[i].buf \in 1..Len(mem2) /\ q.blocks[i].buf # id
    BY <2>1, <2>2, <1>2, <1>3
  <2>4. \A i, j \in 1..Len(q.blocks) : q.blocks[i].buf = q.blocks[j].buf => i = j
    BY <2>1, <1>2, <1>3
  <2>5. ASSUME NEW m \in 1..Len(mem2), m # id
        PROVE  \E i \in 1..Len(q.blocks) : q.blocks[i].buf = m
    <3>1. CASE m = buf
      BY <3>1, <1>3
    <3>2. CASE m # buf
      <4>1. PICK i \in 1..Len(p.blocks) : p.blocks[i].buf = m
        BY <3>2, <2>1, <1>2
      <4>2. i # slot
        BY <4>1, <2>1, <2>5
      <4> QED
        BY <4>1, <4>2, <2>1, <1>3
    <3> QED
      BY <3>1, <3>2
  <2> QED
    BY <2>2, <2>3, <2>4, <2>5, <1>r, Zenon DEF Separate
<1>5. CASE slot > Len(p.blocks)
  <2>1. /\ Len(q.blocks) = Len(p.blocks) + 1 /\ slot = Len(p.blocks) + 1
        /\ id = Len(mem) + 1 /\ Len(mem2) = Len(mem) + 1
    BY <1>1, <1>3, <1>5 DEF Added
  <2>2. id \in 1..Len(mem2) /\ buf \in 1..Len(mem2) /\ buf # id
    BY <2>1, <1>1, <1>2
  <2>3. \A i \in 1..Len(q.blocks) :
           i = slot \/ (i \in 1..Len(p.blocks) /\ i # slot)
    BY <2>1, <1>1
  <2>4. \A i \in 1..Len(p.blocks) : p.blocks[i].buf \in 1..Len(mem2) /\ p.blocks[i].buf # id
    BY <2>1, <1>1, <1>2
  <2>5. \A i \in 1..Len(q.blocks) : q.blocks[i].buf \in 1..Len(mem2) /\ q.blocks[i].buf # id
    BY <2>2, <2>3, <2>4, <1>3, Zenon
  <2>6. \A i, j \in 1..Len(q.blocks) : q.blocks[i].buf = q.blocks[j].buf => i = j
    BY <2>3, <1>2, <1>3, Zenon
  <2>7. ASSUME NEW m \in 1..Len(mem2), m # id
        PROVE  \E i \in 1..Len(q.blocks) : q.blocks[i].buf = m
    <3>1. m \in 1..Len(mem)
      BY <2>1, <2>7, <1>1
    <3>2. CASE m = buf
      BY <3>2, <1>3
    <3>3. CASE m # buf
      <4>1. PICK i \in 1..Len(p.blocks) : p.blocks[i].buf = m
        BY <3>1, <3>3, <1>2
      <4>2. i # slot /\ i \in 1..Len(q.blocks)
        BY <2>1, <1>1
      <4> QED
        BY <4>1, <4>2, <1>3
    <3> QED
      BY <3>2, <3>3
  <2> QED
    BY <2>2, <2>5, <2>6, <2>7, <1>r, Zenon DEF Separate
<1> QED
  BY <1>1, <1>4, <1>5

\* Otherwise the current buffer is filed, and a block's or a new one is used.
LEMMA SwapFiles ==
    ASSUME Inv, StreamLen \in Nat, NEW p, FreedPool(p), NEW size \in Nat,
           NEW old, old = [buf |-> z.buf.id, len |-> z.start], ~InPlace(p, old, size),
           NEW s, s = PoolSwap(p, old, size)
    PROVE  Swapped(Allocated(s.id, size), s, size)
<1> DEFINE mem == Allocated(s.id, size)
           buf == z.buf.id
           len == z.start
<1>1. /\ p \in Pool /\ len \in Nat /\ base \in Nat /\ freed \in Nat
      /\ heap \in Seq(Memory) /\ Len(heap) \in Nat /\ buf \in 1..Len(heap) /\ buf \in Nat
      /\ Len(p.blocks) \in Nat /\ p.head \in Nat /\ Current(heap, z, base)
      /\ HeldEnds(base + len)
  <2>1. p \in Pool
    BY DEF FreedPool
  <2>2. Len(p.blocks) \in Nat /\ p.head \in Nat
    BY <2>1, PoolIs
  <2>3. /\ len \in Nat /\ base \in Nat /\ freed \in Nat
        /\ heap \in Seq(Memory) /\ Len(heap) \in Nat /\ buf \in 1..Len(heap)
        /\ Current(heap, z, base) /\ HeldEnds(base + len)
    BY GoodIs, Zenon DEF Inv
  <2>4. buf \in Nat
    BY <2>3
  <2> QED
    BY <2>1, <2>2, <2>3, <2>4
<1>2. PICK n \in Nat : LaidOn(heap, p, buf, base, n)
  BY DEF FreedPool
<1>3. p.head \in 0..Len(p.blocks) /\ (p.head # 0 => p.blocks[p.head].active)
  <2>1. PICK c \in [1..n -> 1..Len(p.blocks)], b \in [1..(n + 1) -> Nat] :
            /\ Laid(heap, p, buf, freed - p.pos, base, n, c, b)
            /\ n > 0 => p.head = c[n]
    BY <1>2, Zenon DEF LaidOn
  <2>2. CASE n = 0
    <3>1. p.tail = 0
      BY <2>1, <2>2 DEF Laid, Listed
    <3>2. p.head = 0
      BY <3>1 DEF FreedPool
    <3> QED
      BY <3>2, <1>1
  <2>3. CASE n # 0
    <3>1. n \in 1..n /\ p.head = c[n] /\ c[n] \in 1..Len(p.blocks)
      BY <2>1, <2>3
    <3>2. p.blocks[c[n]].active
      BY <3>1, <2>1 DEF Laid, Listed
    <3> QED
      BY <3>1, <3>2, <1>1
  <2> QED
    BY <2>2, <2>3
<1> HIDE DEF buf, len
<1>4. PICK slot \in Nat :
          /\ Added(p, s.pool, slot, buf, len)
          /\ slot <= Len(p.blocks) => /\ slot \in Reusable(p, size)
                                     /\ s.id = p.blocks[slot].buf
          /\ slot > Len(p.blocks) => /\ Reusable(p, size) = {}
                                    /\ s.id = Len(heap) + 1
  <2>1. old = [buf |-> buf, len |-> len]
    BY DEF buf, len
  <2> QED
    BY <1>1, <1>3, <2>1, SwapIs, Zenon
<1>5. Separate(heap, p, buf)
  BY DEF FreedPool, buf
<1>6. /\ \/ slot <= Len(p.blocks) /\ s.id = p.blocks[slot].buf /\ mem = heap
         \/ slot > Len(p.blocks) /\ s.id = Len(heap) + 1 /\ mem = Append(heap, Buffer(size))
      /\ slot <= Len(p.blocks) => ~p.blocks[slot].active /\ slot \in 1..Len(p.blocks)
  <2>1. CASE slot <= Len(p.blocks)
    <3>1. s.id = p.blocks[slot].buf /\ ~p.blocks[slot].active /\ slot \in DOMAIN p.blocks
      BY <2>1, <1>4 DEF Reusable
    <3>2. slot \in 1..Len(p.blocks)
      BY <3>1, <2>1, <1>1, PoolIs
    <3>3. s.id \in 1..Len(heap)
      BY <3>1, <3>2, <1>5 DEF Separate
    <3>4. ~(s.id > Len(heap))
      BY <3>3, <1>1
    <3> QED
      BY <2>1, <3>1, <3>2, <3>4 DEF Allocated
  <2>2. CASE slot > Len(p.blocks)
    <3>1. s.id = Len(heap) + 1 /\ s.id > Len(heap) /\ ~(slot <= Len(p.blocks))
      BY <2>2, <1>1, <1>4
    <3> QED
      BY <2>2, <3>1, Zenon DEF Allocated
  <2> QED
    BY <2>1, <2>2, <1>1
<1>7. Buffer(size) \in Memory /\ Buffer(size).cap = size
  BY NewBuffer
<1>8. /\ mem \in Seq(Memory)
      /\ \A k \in 1..Len(heap) : k \in 1..Len(mem) /\ mem[k] = heap[k]
      /\ \/ Len(mem) = Len(heap) /\ slot <= Len(p.blocks)
         \/ /\ Len(mem) = Len(heap) + 1 /\ slot > Len(p.blocks)
            /\ s.id = Len(mem) /\ mem[s.id] = Buffer(size)
  <2>1. CASE mem = heap /\ slot <= Len(p.blocks)
    BY <2>1, <1>1
  <2>2. CASE mem = Append(heap, Buffer(size)) /\ slot > Len(p.blocks) /\ s.id = Len(heap) + 1
    <3> HIDE DEF mem
    <3> QED
      BY <2>2, <1>1, <1>7
  <2> QED
    BY <2>1, <2>2, <1>6
<1> HIDE DEF mem
<1>9. Separate(mem, s.pool, s.id)
  <2>1. \/ slot <= Len(p.blocks) /\ s.id = p.blocks[slot].buf /\ mem = heap
        \/ slot > Len(p.blocks) /\ s.id = Len(heap) + 1 /\ Len(mem) = Len(heap) + 1
    BY <1>6, <1>8, <1>1
  <2>2. Added(p, s.pool, slot, buf, len) /\ mem \in Seq(Memory)
    BY <1>4, <1>8
  <2>5. len <= StreamLen
    <3>1. len <= z.buf.len /\ base + z.buf.len <= StreamLen /\ z.buf.len \in Nat
      BY <1>1, GoodIs, Zenon DEF Current, Inv, len
    <3> QED
      BY <3>1, <1>1
  <2>3. CASE slot <= Len(p.blocks) /\ s.id = p.blocks[slot].buf /\ mem = heap
    BY <2>2, <2>3, <2>5, <1>1, <1>5, AddSeparate, Zenon
  <2>4. CASE slot > Len(p.blocks) /\ s.id = Len(heap) + 1 /\ Len(mem) = Len(heap) + 1
    BY <2>2, <2>4, <2>5, <1>1, <1>5, AddSeparate, Zenon
  <2> QED
    BY <2>1, <2>3, <2>4
<1>10. s.pool \in Pool /\ (s.pool.tail = 0 => s.pool.head = 0)
  <2>1. /\ s.pool \in Pool /\ slot \in 1..Len(s.pool.blocks)
        /\ s.pool.tail = IF p.tail = 0 THEN slot ELSE p.tail
    BY <1>4, Zenon DEF Added
  <2>2. slot # 0
    BY <2>1
  <2> QED
    BY <2>1, <2>2
<1>11. ASSUME NEW new, Rewritten(mem, new, s.id)
       PROVE  \E m \in Nat : LaidOn(new, s.pool, s.id, base + len, m)
  <2>1. \A i \in 1..Len(p.blocks) : p.blocks[i].active =>
            p.blocks[i].buf \in 1..Len(heap) /\ p.blocks[i].buf # s.id
    <3>1. ASSUME NEW i \in 1..Len(p.blocks), p.blocks[i].active
          PROVE  p.blocks[i].buf \in 1..Len(heap) /\ p.blocks[i].buf # s.id
      <4>1. p.blocks[i].buf \in 1..Len(heap)
        BY <1>5 DEF Separate
      <4>2. CASE slot <= Len(p.blocks)
        <5>1. s.id = p.blocks[slot].buf /\ slot \in 1..Len(p.blocks) /\ slot # i
          BY <4>2, <1>4, <1>6, <3>1
        <5> QED
          BY <4>1, <5>1, <1>5, Zenon DEF Separate
      <4>3. CASE slot > Len(p.blocks)
        BY <4>1, <4>3, <1>1, <1>4
      <4> QED
        BY <4>2, <4>3, <1>1
    <3> QED
      BY <3>1
  <2>2. buf # s.id
    <3>1. CASE slot <= Len(p.blocks)
      BY <3>1, <1>4, <1>5, <1>6, Zenon DEF Separate
    <3>2. CASE slot > Len(p.blocks)
      BY <3>2, <1>1, <1>4
    <3> QED
      BY <3>1, <3>2, <1>1
  <2>3. \A k \in 1..Len(heap) : k # s.id => new[k] = heap[k]
    BY <1>8, <1>11, Zenon DEF Rewritten
  <2>4. len <= new[buf].cap /\ \A x \in 0..(len - 1) : new[buf].data[x] = base + x
    <3>1. /\ z.buf.len \in Nat /\ len <= z.buf.len /\ z.buf.len <= heap[buf].cap
          /\ \A x \in 0..(z.buf.len - 1) : heap[buf].data[x] = base + x
      <4>1. z.buf.len \in Nat
        BY GoodIs, Zenon DEF Inv
      <4> QED
        BY <1>1, <4>1, Zenon DEF Current, buf, len
    <3>2. new[buf] = heap[buf] /\ heap[buf].cap \in Nat
      <4>1. heap[buf] \in Memory
        BY <1>1
      <4>2. heap[buf].cap \in Nat
        BY <4>1, MemoryIs
      <4> QED
        BY <2>2, <2>3, <4>2, <1>1
    <3>3. \A x \in 0..(len - 1) : x \in 0..(z.buf.len - 1)
      BY <3>1, <1>1
    <3>4. len <= heap[buf].cap
      BY <3>1, <3>2, <1>1
    <3> QED
      BY <3>1, <3>2, <3>3, <3>4, Zenon
  <2>5. Copied(heap, new, p, buf, len, base)
    BY <2>1, <2>3, <2>4, Zenon DEF Copied
  <2>6. p.tail = 0 => p.head = 0
    BY DEF FreedPool
  <2>7. LaidOn(new, s.pool, s.id, base + len, n + 1)
    BY <1>1, <1>2, <1>4, <2>5, <2>6, AddLaid, Zenon
  <2>8. n + 1 \in Nat
    OBVIOUS
  <2> QED
    BY <2>7, <2>8
<1>12. Len(mem) >= Len(heap)
  BY <1>1, <1>8
<1>13. ASSUME Len(mem) > Len(heap), freed = base + z.start
       PROVE  /\ s.id = Len(mem) /\ mem[s.id].cap = size
              /\ \A id \in 1..Len(heap) : heap[id].cap < size
  <2>1. slot > Len(p.blocks) /\ s.id = Len(mem) /\ mem[s.id] = Buffer(size)
    BY <1>1, <1>8, <1>13
  <2>2. Reusable(p, size) = {}
    BY <2>1, <1>4
  <2>3. \A id \in 1..Len(heap) : heap[id].cap < size
    BY <1>13, <2>2, AllFreed, Zenon
  <2> QED
    BY <1>7, <2>1, <2>3
<1> QED
  BY <1>8, <1>9, <1>10, <1>11, <1>12, <1>13, Zenon DEF Swapped, mem, len

LEMMA WantedIsNat ==
    ASSUME Inv, NEW want \in Nat, z.start <= want
    PROVE  WantedSize(want) \in Nat
<1>1. heap[z.buf.id].cap \in Nat /\ z.start \in Nat
  <2>1. heap \in Seq(Memory) /\ z.buf.id \in 1..Len(heap) /\ z.start \in Nat
    BY GoodIs, Zenon DEF Inv
  <2>2. heap[z.buf.id] \in Memory
    BY <2>1
  <2> QED
    BY <2>1, <2>2, MemoryIs
<1>2. ASSUME NEW c \in Nat, NEW x \in Nat
      PROVE  (IF 2 * x > c THEN 2 * c + x ELSE c) \in Nat
  BY <1>2
<1>3. want - z.start + 1 \in Nat
  BY <1>1
<1> QED
  BY <1>1, <1>2, <1>3, Zenon DEF WantedSize

\* The memory and the lexer that swap leaves, the one the reader then fills.
LEMMA SwapKeeps ==
    ASSUME Inv, StreamLen \in Nat, NEW size \in Nat,
           NEW s, s = PoolSwap(PoolFree(z.pool, z.free),
                               [buf |-> z.buf.id, len |-> z.start], size)
    PROVE  Swapped(Allocated(s.id, size), s, size)
<1> DEFINE p == PoolFree(z.pool, z.free)
           old == [buf |-> z.buf.id, len |-> z.start]
<1>1. FreedPool(p)
  BY FreeIs
<1>2. s = PoolSwap(p, old, size)
  OBVIOUS
<1>3. old = [buf |-> z.buf.id, len |-> z.start]
  OBVIOUS
<1> HIDE DEF p, old
<1>4. CASE InPlace(p, old, size)
  <2>1. s.id = z.buf.id /\ Swapped(heap, s, size)
    BY <1>1, <1>2, <1>3, <1>4, SwapInPlace, Zenon
  <2>2. ~(s.id > Len(heap))
    <3>1. z.buf.id \in 1..Len(heap) /\ Len(heap) \in Nat
      BY GoodIs, Zenon DEF Inv
    <3> QED
      BY <2>1, <3>1
  <2> QED
    BY <2>1, <2>2, Zenon DEF Allocated
<1>5. CASE ~InPlace(p, old, size)
  BY <1>1, <1>2, <1>3, <1>5, SwapFiles, Zenon
<1> QED
  BY <1>4, <1>5

\* The reader fills the buffer that swap names.
Filled(r, s, mem, data, g) ==
    r = [heap |-> [mem EXCEPT ![s.id].data = data],
         z |-> [err |-> g.err, buf |-> [id |-> s.id, len |-> g.len], pool |-> s.pool,
                start |-> 0, pos |-> z.pos - z.start, prevStart |-> z.prevStart,
                free |-> 0],
         base |-> base + z.start]

\* How a read may leave the lexer.
Reads(want, r) ==
    /\ Good(r.heap, r.z, r.base)
    /\ r.base + r.z.start = base + z.start /\ r.base + r.z.pos = base + z.pos
    /\ r.base + r.z.buf.len >= base + z.buf.len
    /\ r.z.err = "nil" => r.base + r.z.buf.len > base + want
    /\ (Len(r.heap) > Len(heap) /\ freed = base + z.start) =>
          \A id \in 1..Len(heap) : heap[id].cap < r.heap[Len(r.heap)].cap

\* What the read loop leaves in a buffer.
FillData(mem, cap, id, g, data) ==
    data = [j \in 0..(cap - 1) |->
               IF j < LeftOver THEN heap[z.buf.id].data[z.start + j]
               ELSE IF j < g.len THEN Delivered(j)
               ELSE mem[id].data[j]]

\* Separate does not look at the contents of the memory.
LEMMA SameMemory ==
    ASSUME NEW mem, NEW new, NEW p, NEW id, Len(new) = Len(mem), Separate(mem, p, id)
    PROVE  Separate(new, p, id)
  BY DEF Separate

LEMMA FillGood ==
    ASSUME Inv, StreamLen \in Nat, z.err = "nil", NEW want \in Nat, z.start <= want,
           NEW size \in Nat, NEW mem, NEW s, Swapped(mem, s, size),
           NEW g \in LoopEnds(want, mem[s.id].cap),
           NEW data, FillData(mem, mem[s.id].cap, s.id, g, data),
           NEW r, Filled(r, s, mem, data, g)
    PROVE  Reads(want, r)
<1> DEFINE cap == mem[s.id].cap
           origin == base + z.start
           left == z.buf.len - z.start
           new == [mem EXCEPT ![s.id].data = data]
           l == [err |-> g.err, buf |-> [id |-> s.id, len |-> g.len], pool |-> s.pool,
                 start |-> 0, pos |-> z.pos - z.start, prevStart |-> z.prevStart,
                 free |-> 0]
<1>1. /\ base \in Nat /\ z.start \in Nat /\ z.pos \in Nat /\ z.buf.len \in Nat
      /\ z.prevStart \in Nat /\ origin \in Nat
  BY GoodIs, Zenon DEF Inv
<1>h. /\ freed \in Nat /\ freed <= base + z.start
      /\ DOMAIN held = freed..((base + z.start) - 1)
      /\ client \in Clients /\ Current(heap, z, base)
  BY GoodIs, Zenon DEF Inv
<1>2. /\ z.start <= z.buf.len /\ z.start <= z.pos /\ z.prevStart <= StreamLen
      /\ base + z.buf.len <= StreamLen /\ base + z.pos <= StreamLen
      /\ client = "peeks" => z.pos <= z.buf.len
  BY <1>h, Zenon DEF Current
<1>c. \A j \in 0..(z.buf.len - 1) : heap[z.buf.id].data[j] = base + j
  BY <1>h, Zenon DEF Current
<1>3. left \in Nat /\ z.pos - z.start \in Nat
  BY <1>1, <1>2
<1>4. /\ mem \in Seq(Memory) /\ s.pool \in Pool /\ s.id \in 1..Len(mem)
      /\ Len(mem) \in Nat /\ mem[s.id] \in Memory
      /\ Separate(mem, s.pool, s.id)
  <2>1. mem \in Seq(Memory) /\ s.pool \in Pool /\ Separate(mem, s.pool, s.id)
    BY Zenon DEF Swapped
  <2>2. s.id \in 1..Len(mem)
    BY <2>1 DEF Separate
  <2> QED
    BY <2>1, <2>2
<1>5. cap \in Nat /\ mem[s.id].data \in [0..(cap - 1) -> Bytes]
  BY <1>4, MemoryIs
<1>6. /\ g.len \in Nat /\ left <= g.len /\ g.len <= cap
      /\ g.err \in {"nil", "EOF", "fail"}
      /\ origin + g.len <= StreamLen
      /\ g.err = "nil" => g.len > want - z.start
      /\ g.err = "EOF" => origin + g.len = StreamLen
      /\ g.err = "fail" => client = "peeks"
  <2>1. /\ g.len \in LeftOver..mem[s.id].cap
        /\ g.err \in {"nil", "EOF"} \cup (IF Fails THEN {"fail"} ELSE {})
        /\ Delivered(g.len) <= StreamLen
        /\ g.err = "nil" => g.len > want - z.start
        /\ g.err = "EOF" => Delivered(g.len) = StreamLen
    BY DEF LoopEnds
  <2>2. g.len \in Nat /\ left <= g.len /\ g.len <= cap
    BY <2>1, <1>3, <1>5 DEF LeftOver
  <2>3. Delivered(g.len) = origin + g.len
    BY <1>1, <2>2 DEF Delivered, LeftOver
  <2>4. g.err \in {"nil", "EOF", "fail"} /\ (g.err = "fail" => client = "peeks")
    BY <2>1 DEF Fails
  <2> QED
    BY <2>1, <2>2, <2>3, <2>4
<1>7. /\ data \in [0..(cap - 1) -> Bytes]
      /\ \A j \in 0..(g.len - 1) : data[j] = origin + j
  <2> DEFINE cell(j) == IF j < LeftOver THEN heap[z.buf.id].data[z.start + j]
                        ELSE IF j < g.len THEN Delivered(j)
                        ELSE mem[s.id].data[j]
  <2>1. data = [j \in 0..(cap - 1) |-> cell(j)]
    BY Zenon DEF FillData
  <2>2. ASSUME NEW j \in 0..(cap - 1)
        PROVE  /\ cell(j) \in Bytes
               /\ j < g.len => cell(j) = origin + j
    <3>1. ASSUME NEW x \in Nat, x < g.len
          PROVE  origin + x \in Bytes
      BY <3>1, <1>1, <1>6 DEF Bytes, Zero
    <3>2. j \in Nat
      BY <1>5
    <3>3. CASE j < LeftOver
      <4>1. z.start + j \in 0..(z.buf.len - 1) /\ j < g.len
        BY <3>2, <3>3, <1>1, <1>6 DEF LeftOver
      <4>2. cell(j) = base + (z.start + j)
        BY <3>3, <4>1, <1>c, Zenon
      <4>3. base + (z.start + j) = origin + j
        BY <1>1, <3>2
      <4> HIDE DEF cell, origin
      <4> QED
        BY <3>1, <3>2, <4>1, <4>2, <4>3
    <3>4. CASE ~(j < LeftOver) /\ j < g.len
      <4>1. Delivered(j) = origin + j
        BY <1>1, <3>2 DEF Delivered, LeftOver
      <4>2. cell(j) = Delivered(j)
        BY <3>4, Zenon
      <4> HIDE DEF cell, origin
      <4> QED
        BY <3>1, <3>2, <3>4, <4>1, <4>2
    <3>5. CASE ~(j < LeftOver) /\ ~(j < g.len)
      <4>1. cell(j) = mem[s.id].data[j]
        BY <3>5, Zenon
      <4> HIDE DEF cell
      <4> QED
        BY <3>5, <4>1, <1>5
    <3> QED
      BY <3>3, <3>4, <3>5
  <2> HIDE DEF cell
  <2>3. ASSUME NEW j \in 0..(g.len - 1)
        PROVE  j \in 0..(cap - 1) /\ j < g.len
    BY <1>5, <1>6
  <2> QED
    BY <2>1, <2>2, <2>3
<1>8. /\ new \in Seq(Memory) /\ Len(new) = Len(mem)
      /\ new[s.id] = [cap |-> cap, data |-> data]
      /\ \A k \in 1..Len(mem) : k # s.id => new[k] = mem[k]
  BY <1>4, <1>7, WriteData
<1>9. l \in Lexer
  BY <1>1, <1>3, <1>4, <1>6 DEF Lexer
<1>10. /\ r.heap = new /\ r.z = l /\ r.base = origin
  BY DEF Filled
<1>11. /\ l.err = g.err /\ l.buf.id = s.id /\ l.buf.len = g.len /\ l.pool = s.pool
       /\ l.start = 0 /\ l.pos = z.pos - z.start /\ l.prevStart = z.prevStart /\ l.free = 0
  OBVIOUS
<1> HIDE DEF new, l, origin, left, cap
<1>12. Separate(new, l.pool, l.buf.id)
  BY <1>4, <1>8, <1>11, SameMemory, Zenon
<1>13. Current(new, l, origin)
  <2>1. new[l.buf.id].cap = cap /\ new[l.buf.id].data = data
    BY <1>8, <1>11
  <2>2. 0 <= g.len /\ 0 <= z.pos - z.start
    BY <1>3, <1>6
  <2>3. origin + (z.pos - z.start) <= StreamLen
    BY <1>1, <1>2 DEF origin
  <2>4. client = "peeks" => z.pos - z.start <= g.len
    BY <1>1, <1>2, <1>6 DEF left
  <2> QED
    BY <2>1, <2>2, <2>3, <2>4, <1>2, <1>6, <1>7, <1>11 DEF Current
<1>14. HeldRange(l, origin)
  <2>1. origin + 0 = base + z.start
    BY <1>1 DEF origin
  <2> QED
    BY <2>1, <1>h, <1>11, Zenon DEF HeldRange
<1>15. \E n \in Nat : \E c \in [1..n -> 1..Len(l.pool.blocks)], b \in [1..(n + 1) -> Nat] :
          /\ Laid(new, l.pool, l.buf.id, freed - l.free - l.pool.pos, origin, n, c, b)
          /\ Headed(l.pool, n, c)
  <2>1. Rewritten(mem, new, s.id)
    BY <1>8 DEF Rewritten
  <2>2. PICK n \in Nat : LaidOn(new, s.pool, s.id, origin, n)
    BY <2>1, Zenon DEF Swapped, origin
  <2>3. PICK c \in [1..n -> 1..Len(s.pool.blocks)], b \in [1..(n + 1) -> Nat] :
            /\ Laid(new, s.pool, s.id, freed - s.pool.pos, origin, n, c, b)
            /\ n > 0 => s.pool.head = c[n]
    BY <2>2, Zenon DEF LaidOn
  <2>4. Headed(s.pool, n, c)
    <3>1. CASE n = 0
      <4>1. s.pool.tail = 0
        BY <2>3, <3>1 DEF Laid, Listed
      <4>2. s.pool.head = 0
        BY <4>1, Zenon DEF Swapped
      <4> QED
        BY <3>1, <4>2 DEF Headed
    <3>2. CASE n # 0
      BY <2>3, <3>2 DEF Headed
    <3> QED
      BY <3>1, <3>2
  <2>5. freed - l.free - l.pool.pos = freed - s.pool.pos
    BY <1>h, <1>4, <1>11, PoolIs
  <2> QED
    BY <2>3, <2>4, <2>5, <1>11, Zenon
<1>16. Good(new, l, origin)
  BY <1>1, <1>h, <1>8, <1>9, <1>12, <1>13, <1>14, <1>15, Zenon DEF Good, origin
<1>17. /\ origin + l.start = base + z.start /\ origin + l.pos = base + z.pos
       /\ origin + l.buf.len >= base + z.buf.len
       /\ l.err = "nil" => origin + l.buf.len > base + want
  BY <1>1, <1>2, <1>6, <1>11 DEF origin, left
<1>18. ASSUME Len(new) > Len(heap), freed = base + z.start
       PROVE  \A id \in 1..Len(heap) : heap[id].cap < new[Len(new)].cap
  <2>1. Len(mem) > Len(heap)
    BY <1>8, <1>18
  <2>2. /\ s.id = Len(mem) /\ mem[s.id].cap = size
        /\ \A id \in 1..Len(heap) : heap[id].cap < size
    BY <1>18, <2>1, Zenon DEF Swapped
  <2>3. new[Len(new)].cap = size
    BY <2>2, <1>8 DEF cap
  <2> QED
    BY <2>2, <2>3
<1> QED
  BY <1>10, <1>16, <1>17, <1>18, Zenon DEF Reads

LEMMA ReadGood ==
    ASSUME Inv, StreamLen \in Nat, NEW want \in Nat, z.start <= want,
           NEW r \in AfterRead(want)
    PROVE  /\ z.err # "nil" => r.heap = heap /\ r.z = z /\ r.base = base
           /\ z.err = "nil" => Reads(want, r)
<1>1. CASE z.err # "nil"
  <2>1. r = [heap |-> heap, z |-> z, base |-> base]
    BY <1>1 DEF AfterRead
  <2> QED
    BY <2>1, <1>1
<1>2. CASE z.err = "nil"
  <2> DEFINE size == WantedSize(want)
             old == [buf |-> z.buf.id, len |-> z.start]
             s == PoolSwap(PoolFree(z.pool, z.free), old, size)
             mem == Allocated(s.id, size)
             cap == mem[s.id].cap
             data(g) == [j \in 0..(cap - 1) |->
                            IF j < LeftOver THEN heap[z.buf.id].data[z.start + j]
                            ELSE IF j < g.len THEN Delivered(j)
                            ELSE mem[s.id].data[j]]
             after(g) == [heap |-> [mem EXCEPT ![s.id].data = data(g)],
                          z |-> [z EXCEPT !.pool = s.pool, !.free = 0, !.err = g.err,
                                          !.pos = z.pos - z.start, !.start = 0,
                                          !.buf = [id |-> s.id, len |-> g.len]],
                          base |-> base + z.start]
  <2>1. AfterRead(want) = {after(g) : g \in LoopEnds(want, cap)}
    BY <1>2, Zenon DEF AfterRead, Allocated
  <2>2. PICK g \in LoopEnds(want, cap) : r = after(g)
    BY <2>1
  <2>3. size \in Nat
    BY WantedIsNat
  <2> HIDE DEF size
  <2>4. Swapped(mem, s, size)
    BY <2>3, SwapKeeps, Zenon
  <2>5. FillData(mem, mem[s.id].cap, s.id, g, data(g))
    BY DEF FillData
  <2>6. [z EXCEPT !.pool = s.pool, !.free = 0, !.err = g.err, !.pos = z.pos - z.start,
                  !.start = 0, !.buf = [id |-> s.id, len |-> g.len]]
            = [err |-> g.err, buf |-> [id |-> s.id, len |-> g.len], pool |-> s.pool,
               start |-> 0, pos |-> z.pos - z.start, prevStart |-> z.prevStart,
               free |-> 0]
    <3>1. z \in Lexer
      BY GoodIs, Zenon DEF Inv
    <3> DEFINE pl == s.pool
               bf == [id |-> s.id, len |-> g.len]
               x == z.pos - z.start
               q == [z EXCEPT !.pool = pl, !.free = 0, !.err = g.err, !.pos = x,
                              !.start = 0, !.buf = bf]
    <3>2. q = [z EXCEPT !.pool = pl, !.free = 0, !.err = g.err, !.pos = x,
                        !.start = 0, !.buf = bf]
      OBVIOUS
    <3> HIDE DEF pl, bf, x, q
    <3>3. q = [err |-> g.err, buf |-> bf, pool |-> pl, start |-> 0, pos |-> x,
               prevStart |-> z.prevStart, free |-> 0]
      BY <3>1, <3>2, Zenon DEF Lexer
    <3> QED
      BY <3>3, Zenon DEF pl, bf, x, q
  <2>7. Filled(r, s, mem, data(g), g)
    <3> HIDE DEF s, mem, data
    <3> QED
      BY <2>2, <2>6, Zenon DEF Filled
  <2> HIDE DEF s, mem, data
  <2> QED
    BY <1>2, <2>3, <2>4, <2>5, <2>7, FillGood, Zenon
<1> QED
  BY <1>1, <1>2

--------------------------------------------------------------------------------
(* The invariant is inductive *)

\* A step that leaves the history as it was.
LEMMA GoodKept ==
    ASSUME Good(heap', z', base'), UNCHANGED <<client, freed, held>>
    PROVE  Inv'
<1>1. /\ heap' \in Seq(Memory) /\ z' \in Lexer /\ base' \in Nat /\ client \in Clients
      /\ Separate(heap', z'.pool, z'.buf.id)
      /\ Current(heap', z', base')
      /\ HeldRange(z', base')
  BY Zenon DEF Good
<1>2. PICK n \in Nat : \E c \in [1..n -> 1..Len(z'.pool.blocks)], b \in [1..(n + 1) -> Nat] :
          /\ Laid(heap', z'.pool, z'.buf.id, freed - z'.free - z'.pool.pos, base', n, c, b)
          /\ Headed(z'.pool, n, c)
  BY Zenon DEF Good
<1>3. PICK c \in [1..n -> 1..Len(z'.pool.blocks)], b \in [1..(n + 1) -> Nat] :
          /\ Laid(heap', z'.pool, z'.buf.id, freed - z'.free - z'.pool.pos, base', n, c, b)
          /\ Headed(z'.pool, n, c)
  BY <1>2
<1>4. Separate(heap, z.pool, z.buf.id)'
  BY <1>1 DEF Separate
<1>5. Current(heap, z, base)'
  BY <1>1 DEF Current
<1>6. HeldRange(z, base)'
  BY <1>1 DEF HeldRange
<1>7. Laid(heap, z.pool, z.buf.id, freed - z.free - z.pool.pos, base, n, c, b)'
  <2>1. Listed(z.pool, n, c)'
    BY <1>3, Zenon DEF Laid, Listed
  <2>2. Begins(z.pool, n, c, b, freed - z.free - z.pool.pos, base)'
    BY <1>3, Zenon DEF Laid, Begins
  <2>3. Stored(heap, z.pool, n, c, b)'
    BY <1>3, Zenon DEF Laid, Stored
  <2>4. Located(z.pool, n, c, b, z.buf.id, base)'
    BY <1>3, Zenon DEF Laid, Located
  <2> QED
    BY <2>1, <2>2, <2>3, <2>4, Zenon DEF Laid
<1>8. Headed(z.pool, n, c)'
  BY <1>3 DEF Headed
<1> QED
  BY <1>1, <1>4, <1>5, <1>6, <1>7, <1>8, Zenon DEF Inv, Good

LEMMA SetPos ==
    ASSUME NEW l \in Lexer, NEW x \in Nat, NEW q, q = [l EXCEPT !.pos = x]
    PROVE  /\ q \in Lexer /\ q.err = l.err /\ q.buf = l.buf /\ q.pool = l.pool
           /\ q.start = l.start /\ q.pos = x /\ q.prevStart = l.prevStart
           /\ q.free = l.free
  BY DEF Lexer

LEMMA SetStart ==
    ASSUME NEW l \in Lexer, NEW x \in Nat, NEW q, q = [l EXCEPT !.start = x]
    PROVE  /\ q \in Lexer /\ q.err = l.err /\ q.buf = l.buf /\ q.pool = l.pool
           /\ q.start = x /\ q.pos = l.pos /\ q.prevStart = l.prevStart
           /\ q.free = l.free
  BY DEF Lexer

LEMMA SetPrevStart ==
    ASSUME NEW l \in Lexer, NEW x \in Nat, NEW q, q = [l EXCEPT !.prevStart = x]
    PROVE  /\ q \in Lexer /\ q.err = l.err /\ q.buf = l.buf /\ q.pool = l.pool
           /\ q.start = l.start /\ q.pos = l.pos /\ q.prevStart = x
           /\ q.free = l.free
  BY DEF Lexer

LEMMA SetFree ==
    ASSUME NEW l \in Lexer, NEW x \in Nat, NEW q, q = [l EXCEPT !.free = x]
    PROVE  /\ q \in Lexer /\ q.err = l.err /\ q.buf = l.buf /\ q.pool = l.pool
           /\ q.start = l.start /\ q.pos = l.pos /\ q.prevStart = l.prevStart
           /\ q.free = x
  BY DEF Lexer

\* Moving the end of the selection, or counting anew.
LEMMA GoodMoved ==
    ASSUME NEW mem, NEW l, NEW origin, Good(mem, l, origin), NEW q \in Lexer,
           q.err = l.err, q.buf = l.buf, q.pool = l.pool, q.free = l.free,
           q.start = l.start, q.start <= q.pos, origin + q.pos <= StreamLen,
           client = "peeks" => q.pos <= q.buf.len, q.prevStart <= StreamLen
    PROVE  Good(mem, q, origin)
<1>1. Current(mem, q, origin)
  <2>1. Current(mem, l, origin)
    BY Zenon DEF Good
  <2> QED
    BY <2>1, Zenon DEF Current
<1>2. HeldRange(q, origin)
  BY Zenon DEF Good, HeldRange
<1> QED
  BY <1>1, <1>2, Zenon DEF Good

LEMMA MoveKeeps ==
    ASSUME Inv, StreamLen \in Nat, NEW n \in 1..StreamLen, Move(n)
    PROVE  Inv'
<1>1. /\ z \in Lexer /\ z.pos \in Nat /\ base \in Nat /\ z.buf.len \in Nat
      /\ z.start \in Nat /\ Current(heap, z, base)
  BY GoodIs, Zenon DEF Inv
<1>2. /\ z.start <= z.pos /\ base + z.buf.len <= StreamLen /\ z.prevStart <= StreamLen
  BY <1>1, Zenon DEF Current
<1>3. /\ z.pos + n \in Nat /\ z.start <= z.pos + n
      /\ base + (z.pos + n) <= StreamLen
      /\ client = "peeks" => z.pos + n <= z.buf.len
  <2>1. z.pos + n <= (IF client = "blind" THEN StreamLen - base ELSE z.buf.len)
    BY DEF Move
  <2>2. CASE client = "blind"
    BY <2>1, <2>2, <1>1, <1>2
  <2>3. CASE client # "blind"
    BY <2>1, <2>3, <1>1, <1>2
  <2> QED
    BY <2>2, <2>3
<1>4. z' = [z EXCEPT !.pos = z.pos + n] /\ UNCHANGED <<heap, client, base, freed, held>>
  BY DEF Move
<1>5. /\ z' \in Lexer /\ z'.err = z.err /\ z'.buf = z.buf /\ z'.pool = z.pool
      /\ z'.start = z.start /\ z'.pos = z.pos + n /\ z'.prevStart = z.prevStart
      /\ z'.free = z.free
  BY <1>1, <1>3, <1>4, SetPos
<1>6. Good(heap, z', base)
  BY <1>2, <1>3, <1>5, GoodMoved DEF Inv
<1> QED
  BY <1>4, <1>6, GoodKept

LEMMA RewindKeeps ==
    ASSUME Inv, StreamLen \in Nat, NEW mark \in 0..StreamLen, Rewind(mark)
    PROVE  Inv'
<1>1. /\ z \in Lexer /\ z.pos \in Nat /\ base \in Nat /\ z.buf.len \in Nat
      /\ z.start \in Nat /\ Current(heap, z, base)
  BY GoodIs, Zenon DEF Inv
<1>2. /\ base + z.pos <= StreamLen /\ z.prevStart <= StreamLen
      /\ client = "peeks" => z.pos <= z.buf.len
  BY <1>1, Zenon DEF Current
<1>3. /\ z.start + mark \in Nat /\ z.start <= z.start + mark
      /\ base + (z.start + mark) <= StreamLen
      /\ client = "peeks" => z.start + mark <= z.buf.len
  <2>1. mark < z.pos - z.start
    BY DEF Rewind
  <2> QED
    BY <2>1, <1>1, <1>2
<1>4. z' = [z EXCEPT !.pos = z.start + mark] /\ UNCHANGED <<heap, client, base, freed, held>>
  BY DEF Rewind
<1>5. /\ z' \in Lexer /\ z'.err = z.err /\ z'.buf = z.buf /\ z'.pool = z.pool
      /\ z'.start = z.start /\ z'.pos = z.start + mark /\ z'.prevStart = z.prevStart
      /\ z'.free = z.free
  BY <1>1, <1>3, <1>4, SetPos
<1>6. Good(heap, z', base)
  BY <1>2, <1>3, <1>5, GoodMoved DEF Inv
<1> QED
  BY <1>4, <1>6, GoodKept

LEMMA ShiftLenKeeps ==
    ASSUME Inv, StreamLen \in Nat, ShiftLen
    PROVE  Inv'
<1>1. /\ z \in Lexer /\ z.pos \in Nat /\ base \in Nat /\ z.buf.len \in Nat
      /\ z.start \in Nat /\ Current(heap, z, base)
  BY GoodIs, Zenon DEF Inv
<1>2. /\ base + z.pos <= StreamLen /\ z.start <= z.pos
      /\ client = "peeks" => z.pos <= z.buf.len
  BY <1>1, Zenon DEF Current
<1>3. z.start <= StreamLen
  BY <1>1, <1>2
<1>4. z' = [z EXCEPT !.prevStart = z.start] /\ UNCHANGED <<heap, client, base, freed, held>>
  BY DEF ShiftLen
<1>5. /\ z' \in Lexer /\ z'.err = z.err /\ z'.buf = z.buf /\ z'.pool = z.pool
      /\ z'.start = z.start /\ z'.pos = z.pos /\ z'.prevStart = z.start
      /\ z'.free = z.free
  BY <1>1, <1>4, SetPrevStart
<1>6. Good(heap, z', base)
  BY <1>2, <1>3, <1>5, GoodMoved DEF Inv
<1> QED
  BY <1>4, <1>6, GoodKept

LEMMA PeekKeeps ==
    ASSUME Inv, StreamLen \in Nat, MaxPeek \in Nat, NEW i \in 0..MaxPeek, Peek(i)
    PROVE  Inv'
<1>1. Good(heap', z', base')
  <2>1. CASE UNCHANGED <<heap, z, base>>
    BY <2>1 DEF Inv
  <2>2. CASE \E r \in AfterRead(z.pos + i) : ReadStep(r)
    <3>1. PICK r \in AfterRead(z.pos + i) : ReadStep(r)
      BY <2>2
    <3>2. z.pos + i \in Nat /\ z.start <= z.pos + i
      <4>1. z.start \in Nat /\ z.pos \in Nat /\ Current(heap, z, base)
        BY GoodIs, Zenon DEF Inv
      <4>2. z.start <= z.pos
        BY <4>1, Zenon DEF Current
      <4> QED
        BY <4>1, <4>2
    <3>3. Good(r.heap, r.z, r.base)
      BY <3>2, ReadGood, Zenon DEF Reads, Inv
    <3> QED
      BY <3>1, <3>3 DEF ReadStep
  <2> QED
    BY <2>1, <2>2, Zenon DEF Peek
<1>2. UNCHANGED <<client, freed, held>>
  BY DEF Peek
<1> QED
  BY <1>1, <1>2, GoodKept

\* The bytes of a token leave the selection: they lie in the current buffer.
LEMMA ReleaseKeeps ==
    ASSUME StreamLen \in Nat, NEW mem, NEW l, NEW origin, Good(mem, l, origin),
           l.pos <= l.buf.len, heap' = mem, base' = origin,
           z' = [l EXCEPT !.start = l.pos], Release(mem, l, origin),
           UNCHANGED <<client, freed>>
    PROVE  Inv'
<1>1. /\ mem \in Seq(Memory) /\ l \in Lexer /\ origin \in Nat /\ client \in Clients
      /\ l.start \in Nat /\ l.pos \in Nat /\ freed \in Nat
      /\ Separate(mem, l.pool, l.buf.id)
      /\ Current(mem, l, origin)
  BY GoodIs, Zenon
<1>2. /\ freed <= origin + l.start /\ DOMAIN held = freed..((origin + l.start) - 1)
  BY GoodIs, Zenon
<1>3. l.start <= l.pos
  BY <1>1, Zenon DEF Current
<1>4. /\ z' \in Lexer /\ z'.err = l.err /\ z'.buf = l.buf /\ z'.pool = l.pool
      /\ z'.start = l.pos /\ z'.pos = l.pos /\ z'.prevStart = l.prevStart
      /\ z'.free = l.free
  BY <1>1, SetStart
<1>5. Separate(heap, z.pool, z.buf.id)'
  BY <1>1, <1>4 DEF Separate
<1>6. Current(heap, z, base)'
  <2>1. l.pos <= l.pos
    BY <1>1
  <2> QED
    BY <2>1, <1>1, <1>4, Zenon DEF Current
<1>7. /\ held' = [k \in DOMAIN held \cup (origin + l.start)..((origin + l.pos) - 1) |->
                     IF k \in DOMAIN held THEN held[k]
                     ELSE [buf |-> l.buf.id, idx |-> k - origin]]
  <2>1. origin + l.pos - 1 = (origin + l.pos) - 1
    BY <1>1
  <2> QED
    BY <2>1, Zenon DEF Release
<1>8. DOMAIN held' = freed..((origin + l.pos) - 1)
  <2>1. ASSUME NEW x \in Nat, NEW y \in Nat, NEW w \in Nat, x <= y, y <= w
        PROVE  x..(y - 1) \cup y..(w - 1) = x..(w - 1)
    BY <2>1
  <2>2. /\ origin + l.start \in Nat /\ origin + l.pos \in Nat
        /\ origin + l.start <= origin + l.pos
    BY <1>1, <1>3
  <2>3. DOMAIN held' = DOMAIN held \cup (origin + l.start)..((origin + l.pos) - 1)
    BY <1>7, Zenon
  <2>4. freed..((origin + l.start) - 1) \cup (origin + l.start)..((origin + l.pos) - 1)
            = freed..((origin + l.pos) - 1)
    <3> DEFINE u == origin + l.start
               v == origin + l.pos
    <3>1. u \in Nat /\ v \in Nat /\ u <= v /\ freed \in Nat /\ freed <= u
      BY <2>2, <1>1, <1>2
    <3> HIDE DEF u, v
    <3>2. freed..(u - 1) \cup u..(v - 1) = freed..(v - 1)
      BY <3>1, <2>1, Zenon
    <3> QED
      BY <3>2 DEF u, v
  <2> QED
    BY <2>3, <2>4, <1>2, Zenon
<1>9. HeldRange(z, base)'
  <2>1. freed <= origin + l.pos
    BY <1>1, <1>2, <1>3
  <2> QED
    BY <2>1, <1>1, <1>4, <1>8, Zenon DEF HeldRange
<1>10. PICK n \in Nat : \E c \in [1..n -> 1..Len(l.pool.blocks)], b \in [1..(n + 1) -> Nat] :
          /\ Laid(mem, l.pool, l.buf.id, freed - l.free - l.pool.pos, origin, n, c, b)
          /\ Headed(l.pool, n, c)
  BY Zenon DEF Good
<1>11. PICK c \in [1..n -> 1..Len(l.pool.blocks)], b \in [1..(n + 1) -> Nat] :
          /\ Laid(mem, l.pool, l.buf.id, freed - l.free - l.pool.pos, origin, n, c, b)
          /\ Headed(l.pool, n, c)
  BY <1>10
<1>12. Located(z.pool, n, c, b, z.buf.id, base)'
  <2>1. ASSUME NEW k \in DOMAIN held'
        PROVE  \/ origin <= k /\ held'[k] = [buf |-> l.buf.id, idx |-> k - origin]
               \/ \E j \in 1..n :
                     /\ b[j] <= k /\ k < b[j + 1]
                     /\ held'[k] = [buf |-> l.pool.blocks[c[j]].buf, idx |-> k - b[j]]
    <3>1. CASE k \in DOMAIN held
      <4>1. held'[k] = held[k]
        BY <3>1, <1>7, Zenon
      <4>2. Located(l.pool, n, c, b, l.buf.id, origin)
        BY <1>11, Zenon DEF Laid
      <4> QED
        BY <3>1, <4>1, <4>2, Zenon DEF Located
    <3>2. CASE k \notin DOMAIN held
      <4>1. k \in (origin + l.start)..((origin + l.pos) - 1)
        BY <3>2, <1>7, Zenon
      <4>2. held'[k] = [buf |-> l.buf.id, idx |-> k - origin]
        BY <3>2, <4>1, <1>7, Zenon
      <4>3. origin <= k
        BY <4>1, <1>1
      <4> QED
        BY <4>2, <4>3
    <3> QED
      BY <3>1, <3>2
  <2> QED
    BY <2>1, <1>4, Zenon DEF Located
<1>13. Laid(heap, z.pool, z.buf.id, freed - z.free - z.pool.pos, base, n, c, b)'
  <2>1. Listed(z.pool, n, c)'
    BY <1>4, <1>11, Zenon DEF Laid, Listed
  <2>2. Begins(z.pool, n, c, b, freed - z.free - z.pool.pos, base)'
    BY <1>4, <1>11, Zenon DEF Laid, Begins
  <2>3. Stored(heap, z.pool, n, c, b)'
    BY <1>4, <1>11, Zenon DEF Laid, Stored
  <2> QED
    BY <2>1, <2>2, <2>3, <1>12, Zenon DEF Laid
<1>14. Headed(z.pool, n, c)'
  BY <1>4, <1>11, Zenon DEF Headed
<1> QED
  BY <1>1, <1>4, <1>5, <1>6, <1>9, <1>13, <1>14, Zenon DEF Inv, Good

LEMMA SkipKeeps ==
    ASSUME Inv, StreamLen \in Nat, Skip
    PROVE  Inv'
<1>1. /\ z.pos <= z.buf.len /\ heap' = heap /\ base' = base
      /\ z' = [z EXCEPT !.start = z.pos] /\ Release(heap, z, base)
      /\ UNCHANGED <<client, freed>>
  BY DEF Skip
<1> QED
  BY <1>1, ReleaseKeeps, Zenon DEF Inv

\* The lexer from which Shift cuts the token: all of the selection is buffered.
LEMMA ShiftReads ==
    ASSUME Inv, StreamLen \in Nat,
           NEW r \in IF z.pos > z.buf.len THEN AfterRead(z.pos - 1)
                     ELSE {[heap |-> heap, z |-> z, base |-> base]}
    PROVE  /\ Good(r.heap, r.z, r.base) /\ r.z.pos <= r.z.buf.len
           /\ r.base + r.z.start = base + z.start /\ r.base + r.z.pos = base + z.pos
           /\ \/ r.heap = heap /\ r.z = z /\ r.base = base
              \/ z.err = "nil" /\ Reads(z.pos - 1, r) /\ z.pos > z.buf.len
<1>1. /\ z.start \in Nat /\ z.pos \in Nat /\ z.buf.len \in Nat /\ base \in Nat
      /\ z.err \in {"nil", "EOF", "fail"} /\ Current(heap, z, base)
  BY GoodIs, Zenon DEF Inv
<1>2. /\ z.start <= z.buf.len /\ base + z.pos <= StreamLen
      /\ z.err = "EOF" => base + z.buf.len = StreamLen
      /\ z.err = "fail" => client = "peeks"
      /\ client = "peeks" => z.pos <= z.buf.len
  BY <1>1, Zenon DEF Current
<1>3. CASE ~(z.pos > z.buf.len)
  <2>1. r = [heap |-> heap, z |-> z, base |-> base]
    BY <1>3
  <2>2. r.heap = heap /\ r.z = z /\ r.base = base /\ z.pos <= z.buf.len
    BY <2>1, <1>1, <1>3
  <2> QED
    BY <2>2, Zenon DEF Inv
<1>4. CASE z.pos > z.buf.len
  <2>1. z.err = "nil"
    BY <1>1, <1>2, <1>4
  <2>2. z.pos - 1 \in Nat /\ z.start <= z.pos - 1 /\ r \in AfterRead(z.pos - 1)
    BY <1>1, <1>2, <1>4
  <2>3. Reads(z.pos - 1, r)
    BY <2>1, <2>2, ReadGood, Zenon
  <2>4. /\ Good(r.heap, r.z, r.base)
        /\ r.base + r.z.start = base + z.start /\ r.base + r.z.pos = base + z.pos
        /\ r.z.err = "nil" => r.base + r.z.buf.len > base + (z.pos - 1)
    BY <2>3, Zenon DEF Reads
  <2>5. /\ r.base \in Nat /\ r.z.buf.len \in Nat /\ r.z.pos \in Nat
        /\ r.z.err \in {"nil", "EOF", "fail"} /\ Current(r.heap, r.z, r.base)
    BY <2>4, GoodIs, Zenon
  <2>6. /\ r.z.err = "EOF" => r.base + r.z.buf.len = StreamLen
        /\ r.z.err = "fail" => client = "peeks"
    BY <2>5, Zenon DEF Current
  <2>7. r.z.err # "fail"
    BY <2>6, <1>1, <1>2, <1>4
  <2>8. r.z.pos <= r.z.buf.len
    <3>1. CASE r.z.err = "nil"
      BY <3>1, <2>4, <2>5, <1>1
    <3>2. CASE r.z.err = "EOF"
      BY <3>2, <2>4, <2>5, <2>6, <1>1, <1>2
    <3> QED
      BY <3>1, <3>2, <2>5, <2>7
  <2> QED
    BY <1>4, <2>1, <2>3, <2>4, <2>8, Zenon
<1> QED
  BY <1>3, <1>4

LEMMA ShiftKeeps ==
    ASSUME Inv, StreamLen \in Nat, Shift
    PROVE  Inv'
<1>1. PICK r \in IF z.pos > z.buf.len THEN AfterRead(z.pos - 1)
                 ELSE {[heap |-> heap, z |-> z, base |-> base]} :
          /\ heap' = r.heap /\ base' = r.base
          /\ z' = [r.z EXCEPT !.start = r.z.pos]
          /\ Release(r.heap, r.z, r.base)
          /\ UNCHANGED <<client, freed>>
  BY Zenon DEF Shift
<1>2. Good(r.heap, r.z, r.base) /\ r.z.pos <= r.z.buf.len
  BY <1>1, ShiftReads, Zenon
<1> QED
  BY <1>1, <1>2, ReleaseKeeps, Zenon

LEMMA FreeKeeps ==
    ASSUME Inv, StreamLen \in Nat, NEW amount \in 1..StreamLen, Free(amount)
    PROVE  Inv'
<1>1. /\ heap \in Seq(Memory) /\ z \in Lexer /\ base \in Nat /\ client \in Clients
      /\ z.start \in Nat /\ z.free \in Nat /\ freed \in Nat /\ z.pool \in Pool
      /\ Separate(heap, z.pool, z.buf.id)
      /\ Current(heap, z, base)
  BY GoodIs, Zenon DEF Inv
<1>2. freed <= base + z.start /\ DOMAIN held = freed..((base + z.start) - 1)
  BY GoodIs, Zenon DEF Inv
<1>3. /\ z' = [z EXCEPT !.free = z.free + amount] /\ freed' = freed + amount
      /\ freed' <= base + z.start
      /\ held' = [k \in {k \in DOMAIN held : k >= freed'} |-> held[k]]
      /\ heap' = heap /\ client' = client /\ base' = base
  <2>1. freed + amount <= base + z.start
    BY DEF Free
  <2> QED
    BY <2>1, Zenon DEF Free
<1>4. /\ z' \in Lexer /\ z'.err = z.err /\ z'.buf = z.buf /\ z'.pool = z.pool
      /\ z'.start = z.start /\ z'.pos = z.pos /\ z'.prevStart = z.prevStart
      /\ z'.free = z.free + amount
  <2>1. z.free + amount \in Nat
    BY <1>1
  <2> QED
    BY <2>1, <1>1, <1>3, SetFree
<1>5. Separate(heap, z.pool, z.buf.id)'
  BY <1>1, <1>3, <1>4 DEF Separate
<1>6. Current(heap, z, base)'
  BY <1>1, <1>3, <1>4, Zenon DEF Current
<1>7. HeldRange(z, base)'
  <2>1. freed' \in Nat /\ freed <= freed' /\ base + z.start \in Nat
    BY <1>1, <1>3
  <2>3. DOMAIN held' = {k \in freed..((base + z.start) - 1) : k >= freed'}
    BY <1>2, <1>3, Zenon
  <2> DEFINE w == base + z.start
             y == freed'
  <2>4. y \in Nat /\ w \in Nat /\ freed \in Nat /\ freed <= y /\ y <= w
    BY <2>1, <1>1, <1>3
  <2> HIDE DEF w, y
  <2>5. {k \in freed..(w - 1) : k >= y} = y..(w - 1)
    BY <2>4
  <2>6. DOMAIN held' = freed'..((base + z.start) - 1)
    BY <2>3, <2>5 DEF w, y
  <2> QED
    BY <2>1, <2>6, <1>3, <1>4, Zenon DEF HeldRange
<1>8. PICK n \in Nat : \E c \in [1..n -> 1..Len(z.pool.blocks)], b \in [1..(n + 1) -> Nat] :
          /\ Laid(heap, z.pool, z.buf.id, freed - z.free - z.pool.pos, base, n, c, b)
          /\ Headed(z.pool, n, c)
  BY Zenon DEF Inv, Good
<1>9. PICK c \in [1..n -> 1..Len(z.pool.blocks)], b \in [1..(n + 1) -> Nat] :
          /\ Laid(heap, z.pool, z.buf.id, freed - z.free - z.pool.pos, base, n, c, b)
          /\ Headed(z.pool, n, c)
  BY <1>8
<1>10. freed' - z'.free - z'.pool.pos = freed - z.free - z.pool.pos
  <2>1. z.pool.pos \in Nat
    BY <1>1, PoolIs
  <2>2. ASSUME NEW f \in Nat, NEW a \in Nat, NEW g \in Nat, NEW x \in Nat
        PROVE  (f + a) - (g + a) - x = f - g - x
    OBVIOUS
  <2>3. amount \in Nat
    OBVIOUS
  <2>4. (freed + amount) - (z.free + amount) - z.pool.pos = freed - z.free - z.pool.pos
    <3>1. freed \in Nat /\ z.free \in Nat
      BY <1>1
    <3> QED
      BY <2>1, <2>2, <2>3, <3>1
  <2> QED
    BY <2>4, <1>3, <1>4
<1>11. Located(z.pool, n, c, b, z.buf.id, base)'
  <2>1. Located(z.pool, n, c, b, z.buf.id, base)
    BY <1>9, Zenon DEF Laid
  <2>2. \A k \in DOMAIN held' : k \in DOMAIN held /\ held'[k] = held[k]
    BY <1>3, Zenon
  <2>3. ASSUME NEW k \in DOMAIN held'
        PROVE  \/ base <= k /\ held'[k] = [buf |-> z.buf.id, idx |-> k - base]
               \/ \E j \in 1..n :
                     /\ b[j] <= k /\ k < b[j + 1]
                     /\ held'[k] = [buf |-> z.pool.blocks[c[j]].buf, idx |-> k - b[j]]
    BY <2>1, <2>2, Zenon DEF Located
  <2>4. base' = base /\ z'.pool = z.pool /\ z'.buf = z.buf
    BY <1>3, <1>4
  <2> QED
    BY <2>3, <2>4, Zenon DEF Located
<1>12. Laid(heap, z.pool, z.buf.id, freed - z.free - z.pool.pos, base, n, c, b)'
  <2>1. Listed(z.pool, n, c)'
    BY <1>4, <1>9, Zenon DEF Laid, Listed
  <2>2. Begins(z.pool, n, c, b, freed - z.free - z.pool.pos, base)'
    BY <1>3, <1>4, <1>9, <1>10, Zenon DEF Laid, Begins
  <2>3. Stored(heap, z.pool, n, c, b)'
    BY <1>3, <1>4, <1>9, Zenon DEF Laid, Stored
  <2> QED
    BY <2>1, <2>2, <2>3, <1>11, Zenon DEF Laid
<1>13. Headed(z.pool, n, c)'
  BY <1>4, <1>9, Zenon DEF Headed
<1> QED
  BY <1>1, <1>3, <1>4, <1>5, <1>6, <1>7, <1>12, <1>13, Zenon DEF Inv, Good

\* An empty pool and a buffer that holds the first len bytes.
LEMMA EmptyGood ==
    ASSUME StreamLen \in Nat, NEW m \in Memory, NEW len \in 0..StreamLen, len <= m.cap,
           \A j \in 0..(len - 1) : m.data[j] = j,
           NEW e \in {"nil", "EOF"}, e = "EOF" => len = StreamLen,
           heap = <<m>>, base = 0, freed = 0, held = <<>>, client \in Clients,
           z = [err |-> e, buf |-> [id |-> 1, len |-> len],
                pool |-> [blocks |-> <<>>, head |-> 0, tail |-> 0, pos |-> 0],
                start |-> 0, pos |-> 0, prevStart |-> 0, free |-> 0]
    PROVE  Inv
<1> DEFINE p == [blocks |-> <<>>, head |-> 0, tail |-> 0, pos |-> 0]
           c == [k \in 1..0 |-> 1]
           b == [k \in 1..1 |-> 0]
<1>1. p \in Pool /\ p.blocks = <<>> /\ p.head = 0 /\ p.tail = 0 /\ p.pos = 0
  BY DEF Pool
<1>2. z \in Lexer
  BY <1>1 DEF Lexer
<1>3. /\ z.err = e /\ z.buf.id = 1 /\ z.buf.len = len /\ z.pool = p
      /\ z.start = 0 /\ z.pos = 0 /\ z.prevStart = 0 /\ z.free = 0
  OBVIOUS
<1> HIDE DEF p
<1>4. heap \in Seq(Memory) /\ Len(heap) = 1 /\ heap[1] = m
  OBVIOUS
<1>5. Separate(heap, z.pool, z.buf.id)
  BY <1>1, <1>3, <1>4 DEF Separate
<1>6. Current(heap, z, base)
  <2>1. 0 <= len /\ 0 + len <= StreamLen /\ 0 + 0 <= StreamLen /\ 0 <= StreamLen /\ 0 <= 0
    OBVIOUS
  <2>2. \A j \in 0..(len - 1) : m.data[j] = 0 + j
    OBVIOUS
  <2>3. e = "EOF" => 0 + len = StreamLen
    OBVIOUS
  <2>4. e # "fail"
    OBVIOUS
  <2> QED
    BY <2>1, <2>2, <2>3, <2>4, <1>3, <1>4, Zenon DEF Current
<1>7. HeldRange(z, base)
  <2>1. 0 \in Nat /\ 0 <= 0 + 0 /\ DOMAIN <<>> = 0..((0 + 0) - 1)
    OBVIOUS
  <2> QED
    BY <2>1, <1>3, Zenon DEF HeldRange
<1>8. c \in [1..0 -> 1..Len(p.blocks)] /\ b \in [1..(0 + 1) -> Nat] /\ b[1] = 0
  OBVIOUS
<1> HIDE DEF c, b
<1>9. Laid(heap, p, 1, freed - z.free - p.pos, base, 0, c, b)
  <2>1. Listed(p, 0, c)
    BY <1>1 DEF Listed
  <2>2. Begins(p, 0, c, b, freed - z.free - p.pos, base)
    <3>1. freed - z.free - p.pos = 0
      BY <1>1, <1>3
    <3> QED
      BY <3>1, <1>8 DEF Begins
  <2>3. Stored(heap, p, 0, c, b)
    BY DEF Stored
  <2>4. Located(p, 0, c, b, 1, base)
    BY DEF Located
  <2> QED
    BY <2>1, <2>2, <2>3, <2>4 DEF Laid
<1>10. Headed(p, 0, c)
  BY <1>1 DEF Headed
<1>11. 0 \in Nat
  OBVIOUS
<1> QED
  BY <1>2, <1>3, <1>4, <1>5, <1>6, <1>7, <1>8, <1>9, <1>10, <1>11, Zenon DEF Inv, Good

LEMMA InitInv ==
    ASSUME Init
    PROVE  Inv
<1>1. StreamLen \in Nat /\ InitSizes \subseteq Nat
  BY StreamLexerAssumption
<1>2. /\ base = 0 /\ freed = 0 /\ held = <<>> /\ client \in Clients
  BY DEF Init
<1>3. ASSUME NEW size \in InitSizes, heap = <<Buffer(size)>>,
             z = [err |-> "nil", buf |-> [id |-> 1, len |-> 0],
                  pool |-> [blocks |-> <<>>, head |-> 0, tail |-> 0, pos |-> 0],
                  start |-> 0, pos |-> 0, prevStart |-> 0, free |-> 0]
      PROVE  Inv
  <2>1. Buffer(size) \in Memory /\ Buffer(size).cap = size /\ size \in Nat
    BY <1>1, NewBuffer
  <2>2. /\ 0 <= Buffer(size).cap /\ 0 \in 0..StreamLen
        /\ \A j \in 0..(0 - 1) : Buffer(size).data[j] = j
        /\ "nil" \in {"nil", "EOF"} /\ "nil" # "EOF"
    BY <1>1, <2>1
  <2> QED
    BY <1>1, <1>2, <1>3, <2>1, <2>2, EmptyGood, Zenon
<1>4. ASSUME heap = <<[cap |-> StreamLen, data |-> [j \in 0..(StreamLen - 1) |-> j]]>>,
             z = [err |-> "EOF", buf |-> [id |-> 1, len |-> StreamLen],
                  pool |-> [blocks |-> <<>>, head |-> 0, tail |-> 0, pos |-> 0],
                  start |-> 0, pos |-> 0, prevStart |-> 0, free |-> 0]
      PROVE  Inv
  <2> DEFINE d == [j \in 0..(StreamLen - 1) |-> j]
             m == [cap |-> StreamLen, data |-> d]
  <2>1. d \in [0..(StreamLen - 1) -> Bytes]
    BY <1>1 DEF Bytes, Zero
  <2>2. m \in Memory
    BY <1>1, <2>1, MemoryMade, Zenon
  <2>3. m.cap = StreamLen /\ \A j \in 0..(StreamLen - 1) : m.data[j] = j
    OBVIOUS
  <2>4. /\ StreamLen <= m.cap /\ StreamLen \in 0..StreamLen /\ "EOF" \in {"nil", "EOF"}
    BY <1>1
  <2>5. heap = <<m>>
    BY <1>4
  <2> HIDE DEF m
  <2> QED
    BY <1>1, <1>2, <1>4, <2>2, <2>3, <2>4, <2>5, EmptyGood, Zenon
<1> QED
  BY <1>3, <1>4, Zenon DEF Init

LEMMA NextInv ==
    ASSUME Inv, [Next]_vars
    PROVE  Inv'
<1>1. StreamLen \in Nat /\ MaxPeek \in Nat
  BY StreamLexerAssumption
<1>2. CASE UNCHANGED vars
  BY <1>2, GoodKept DEF vars, Inv
<1>3. ASSUME NEW i \in 0..MaxPeek, Peek(i)
      PROVE  Inv'
  BY <1>1, <1>3, PeekKeeps
<1>4. ASSUME NEW n \in 1..StreamLen, Move(n)
      PROVE  Inv'
  BY <1>1, <1>4, MoveKeeps
<1>5. ASSUME NEW mark \in 0..StreamLen, Rewind(mark)
      PROVE  Inv'
  BY <1>1, <1>5, RewindKeeps
<1>6. CASE Skip
  BY <1>1, <1>6, SkipKeeps
<1>7. CASE Shift
  BY <1>1, <1>7, ShiftKeeps
<1>8. CASE ShiftLen
  BY <1>1, <1>8, ShiftLenKeeps
<1>9. ASSUME NEW n \in 1..StreamLen, Free(n)
      PROVE  Inv'
  BY <1>1, <1>9, FreeKeeps
<1> QED
  BY <1>2, <1>3, <1>4, <1>5, <1>6, <1>7, <1>8, <1>9 DEF Next

\* The invariant that carries all of the theorems.
THEOREM Invariant == Spec => []Inv
  BY InitInv, NextInv, PTL DEF Spec

--------------------------------------------------------------------------------
(* The bytes of a token *)

LEMMA InvRetained ==
    ASSUME Inv
    PROVE  Retained
<1>1. /\ heap \in Seq(Memory) /\ base \in Nat /\ freed \in Nat /\ z.start \in Nat
      /\ z.buf.len \in Nat /\ z.pool \in Pool /\ HeldEnds(base + z.start)
      /\ Current(heap, z, base)
  BY GoodIs, Zenon DEF Inv
<1>2. PICK n \in Nat : \E c \in [1..n -> 1..Len(z.pool.blocks)], b \in [1..(n + 1) -> Nat] :
          Laid(heap, z.pool, z.buf.id, freed - z.free - z.pool.pos, base, n, c, b)
  BY Zenon DEF Inv, Good
<1>3. PICK c \in [1..n -> 1..Len(z.pool.blocks)], b \in [1..(n + 1) -> Nat] :
          Laid(heap, z.pool, z.buf.id, freed - z.free - z.pool.pos, base, n, c, b)
  BY <1>2
<1>4. ASSUME NEW k \in DOMAIN held
      PROVE  heap[held[k].buf].data[held[k].idx] = k
  <2>1. k \in Nat /\ k < base + z.start
    BY <1>1 DEF HeldEnds
  <2>2. \/ base <= k /\ held[k] = [buf |-> z.buf.id, idx |-> k - base]
        \/ \E j \in 1..n :
              /\ b[j] <= k /\ k < b[j + 1]
              /\ held[k] = [buf |-> z.pool.blocks[c[j]].buf, idx |-> k - b[j]]
    BY <1>3, Zenon DEF Laid, Located
  <2>3. CASE base <= k /\ held[k] = [buf |-> z.buf.id, idx |-> k - base]
    <3>1. z.start <= z.buf.len
      BY <1>1, Zenon DEF Current
    <3>2. k - base \in 0..(z.buf.len - 1) /\ base + (k - base) = k
      BY <1>1, <2>1, <2>3, <3>1
    <3>3. heap[z.buf.id].data[k - base] = k
      BY <1>1, <3>2 DEF Current
    <3> QED
      BY <2>3, <3>3
  <2>4. ASSUME NEW j \in 1..n, b[j] <= k, k < b[j + 1],
               held[k] = [buf |-> z.pool.blocks[c[j]].buf, idx |-> k - b[j]]
        PROVE  heap[held[k].buf].data[held[k].idx] = k
    <3>1. /\ j \in 1..(n + 1) /\ j + 1 \in 1..(n + 1) /\ c[j] \in 1..Len(z.pool.blocks)
          /\ b[j] \in Nat /\ b[j + 1] \in Nat
      OBVIOUS
    <3>2. z.pool.blocks[c[j]].len \in Nat
      BY <1>1, <3>1, PoolIs, BlockIs
    <3>3. b[j + 1] = b[j] + z.pool.blocks[c[j]].len
      BY <1>3 DEF Laid, Begins
    <3>4. k - b[j] \in 0..(z.pool.blocks[c[j]].len - 1) /\ b[j] + (k - b[j]) = k
      <4>1. ASSUME NEW x \in Nat, NEW y \in Nat, NEW e \in Nat, NEW l \in Nat,
                   y <= x, x < e, e = y + l
            PROVE  x - y \in 0..(l - 1) /\ y + (x - y) = x
        BY <4>1
      <4> QED
        BY <2>1, <2>4, <3>1, <3>2, <3>3, <4>1, Zenon
    <3>5. heap[z.pool.blocks[c[j]].buf].data[k - b[j]] = k
      BY <1>3, <3>4 DEF Laid, Stored
    <3> QED
      BY <2>4, <3>5
  <2> QED
    BY <2>2, <2>3, <2>4
<1> QED
  BY <1>4 DEF Retained

\* A slice that Shift has returned keeps its bytes until they are freed, in
\* whatever order blocks are retired, freed and used again.
THEOREM TokensRetained == Spec => []Retained
  BY Invariant, InvRetained, PTL

--------------------------------------------------------------------------------
(* The types, the list and the account of the pool *)

LEMMA SeqOf ==
    ASSUME NEW S, NEW T, NEW s \in Seq(S), \A i \in 1..Len(s) : s[i] \in T
    PROVE  s \in Seq(T)
  OBVIOUS

LEMMA InvTypeOK ==
    ASSUME Inv
    PROVE  TypeOK
<1>1. /\ heap \in Seq(Memory) /\ base \in Nat /\ freed \in Nat /\ z.start \in Nat
      /\ z.pos \in Nat /\ z.buf.len \in Nat /\ z.prevStart \in Nat /\ z.free \in Nat
      /\ z.pool \in Pool /\ z.buf.id \in 1..Len(heap)
      /\ z.err \in {"nil", "EOF", "fail"} /\ client \in Clients
  BY GoodIs, Zenon DEF Inv
<1>2. /\ freed <= base + z.start /\ Current(heap, z, base)
      /\ Separate(heap, z.pool, z.buf.id)
  BY GoodIs, Zenon DEF Inv
<1>3. /\ z.start <= z.buf.len /\ z.start <= z.pos /\ z.prevStart <= StreamLen
      /\ base + z.buf.len <= StreamLen /\ base + z.pos <= StreamLen
      /\ z.buf.len <= heap[z.buf.id].cap
  BY <1>2, Zenon DEF Current
<1>4. StreamLen \in Nat
  BY StreamLexerAssumption
<1>5. ASSUME NEW id \in 1..Len(heap)
      PROVE  /\ heap[id].cap \in Nat
             /\ heap[id].data \in [0..(heap[id].cap - 1) -> Zero..(StreamLen - 1)]
  <2>1. heap[id] \in Memory
    BY <1>1
  <2> QED
    BY <2>1, MemoryIs DEF Bytes
<1>6. /\ z.buf.len \in 0..heap[z.buf.id].cap
      /\ z.start \in 0..z.buf.len /\ z.pos \in z.start..StreamLen
      /\ z.prevStart \in 0..StreamLen
      /\ base \in 0..StreamLen /\ freed \in 0..(base + z.start)
      /\ base + z.start <= StreamLen
  <2>1. heap[z.buf.id].cap \in Nat
    BY <1>1, <1>5
  <2> QED
    BY <2>1, <1>1, <1>2, <1>3, <1>4
<1>7. PICK n \in Nat : \E c \in [1..n -> 1..Len(z.pool.blocks)], b \in [1..(n + 1) -> Nat] :
          /\ Laid(heap, z.pool, z.buf.id, freed - z.free - z.pool.pos, base, n, c, b)
          /\ Headed(z.pool, n, c)
  BY Zenon DEF Inv, Good
<1>8. PICK c \in [1..n -> 1..Len(z.pool.blocks)], b \in [1..(n + 1) -> Nat] :
          /\ Laid(heap, z.pool, z.buf.id, freed - z.free - z.pool.pos, base, n, c, b)
          /\ Headed(z.pool, n, c)
  BY <1>7
<1>9. /\ z.pool.blocks \in Seq(Block) /\ Len(z.pool.blocks) \in Nat
      /\ z.pool.pos \in Nat
  BY <1>1, PoolIs
<1>10. z.pool.pos \in 0..StreamLen /\ z.free \in 0..StreamLen
  <2>1. 1 \in 1..(n + 1) /\ b[1] \in Nat
    OBVIOUS
  <2>2. b[1] = freed - z.free - z.pool.pos
    BY <1>8 DEF Laid, Begins
  <2>3. freed <= StreamLen
    BY <1>1, <1>4, <1>6
  <2>4. ASSUME NEW x \in Nat, NEW f \in Nat, NEW g \in Nat, NEW w \in Nat, NEW s \in Nat,
               x = f - g - w, f <= s
        PROVE  w \in 0..s /\ g \in 0..s
    BY <2>4
  <2> QED
    BY <2>1, <2>2, <2>3, <2>4, <1>1, <1>4, <1>9, Zenon
<1>11. z.pool.head \in 0..Len(z.pool.blocks) /\ z.pool.tail \in 0..Len(z.pool.blocks)
  <2>1. CASE n = 0
    BY <2>1, <1>8, <1>9 DEF Laid, Listed, Headed
  <2>2. CASE n # 0
    <3>1. c[1] \in 1..Len(z.pool.blocks) /\ c[n] \in 1..Len(z.pool.blocks)
      BY <2>2
    <3>2. z.pool.head = c[n] /\ z.pool.tail = c[1]
      BY <2>2, <1>8 DEF Laid, Listed, Headed
    <3> QED
      BY <3>1, <3>2
  <2> QED
    BY <2>1, <2>2
<1>12. z.pool.blocks \in Seq(BlockType)
  <2>1. ASSUME NEW i \in 1..Len(z.pool.blocks)
        PROVE  z.pool.blocks[i] \in BlockType
    <3> DEFINE k == z.pool.blocks[i]
    <3>6. k \in Block
      BY <1>9
    <3>1. k = [buf |-> k.buf, len |-> k.len, next |-> k.next, active |-> k.active]
      BY <3>6, BlockIs, Zenon
    <3>2. k.len \in Nat /\ k.next \in Nat /\ k.active \in BOOLEAN
      BY <3>6, BlockIs, Zenon
    <3>3. /\ k.buf \in 1..Len(heap) /\ k.len <= StreamLen /\ k.next <= Len(z.pool.blocks)
      BY <1>2, Zenon DEF Separate
    <3>4. k.len \in 0..StreamLen /\ k.next \in 0..Len(z.pool.blocks)
      BY <3>2, <3>3, <1>4, <1>9
    <3> HIDE DEF k
    <3>5. k \in BlockType
      BY <3>1, <3>2, <3>3, <3>4 DEF BlockType
    <3> QED
      BY <3>5 DEF k
  <2> QED
    BY <2>1, <1>9, SeqOf, Zenon
<1> QED
  BY <1>1, <1>5, <1>6, <1>10, <1>11, <1>12, Zenon DEF TypeOK

Chains(chain, p, n, c) ==
    \A k \in 0..Len(p.blocks) : chain[k] = IF k < n THEN c[k + 1] ELSE 0

\* The recursive function PoolChain follows the list.
LEMMA ChainIs ==
    ASSUME NEW p, NEW n \in Nat, Len(p.blocks) \in Nat, n <= Len(p.blocks),
           NEW c \in [1..n -> 1..Len(p.blocks)], Listed(p, n, c)
    PROVE  Chains(PoolChain(p), p, n, c)
<1> DEFINE N == Len(p.blocks)
           f == [k \in 0..N |-> IF k < n THEN c[k + 1] ELSE 0]
           after(x) == IF x = 0 THEN 0 ELSE p.blocks[x].next
           Chaining(g) == g = [k \in 0..N |-> IF k = 0 THEN p.tail ELSE
                                  IF g[k - 1] = 0 THEN 0 ELSE p.blocks[g[k - 1]].next]
<1>1. f[0] = p.tail
  <2>1. 0 \in 0..N /\ 0 + 1 = 1
    OBVIOUS
  <2>2. CASE n = 0
    BY <2>1, <2>2 DEF Listed
  <2>3. CASE n # 0
    <3>1. 0 < n /\ f[0] = c[0 + 1]
      BY <2>1, <2>3
    <3> QED
      BY <2>1, <2>3, <3>1 DEF Listed
  <2> QED
    BY <2>2, <2>3
<1>2. ASSUME NEW k \in 1..N
      PROVE  f[k] = after(f[k - 1])
  <2>1. k - 1 \in 0..N /\ k \in 0..N /\ k - 1 + 1 = k
    OBVIOUS
  <2>2. CASE k - 1 < n
    <3>1. k \in 1..n /\ f[k - 1] = c[k] /\ c[k] # 0
      BY <2>1, <2>2
    <3>2. p.blocks[c[k]].next = IF k = n THEN 0 ELSE c[k + 1]
      BY <3>1, Zenon DEF Listed
    <3>3. (k < n) <=> (k # n)
      BY <3>1
    <3>4. f[k] = IF k = n THEN 0 ELSE c[k + 1]
      BY <2>1, <3>3
    <3> HIDE DEF f
    <3> QED
      BY <3>1, <3>2, <3>4
  <2>3. CASE ~(k - 1 < n)
    <3>1. ~(k < n)
      BY <2>3
    <3> QED
      BY <2>1, <2>3, <3>1
  <2> QED
    BY <2>2, <2>3
<1>3. \E g : Chaining(g)
  <2> DEFINE h == [k \in 0..N |-> IF k = 0 THEN p.tail ELSE
                      IF f[k - 1] = 0 THEN 0 ELSE p.blocks[f[k - 1]].next]
  <2>1. ASSUME NEW k \in 0..N
        PROVE  f[k] = h[k]
    <3>1. CASE k = 0
      BY <3>1, <1>1
    <3>2. CASE k # 0
      <4>1. k \in 1..N
        BY <3>2
      <4>2. f[k] = after(f[k - 1])
        BY <4>1, <1>2, Zenon
      <4> HIDE DEF f
      <4> QED
        BY <3>2, <4>2
    <3> QED
      BY <3>1, <3>2
  <2>2. f = h
    BY <2>1, Zenon
  <2> HIDE DEF f
  <2> QED
    BY <2>2
<1> DEFINE g == PoolChain(p)
<1>4. Chaining(g)
  <2>1. g = CHOOSE t : Chaining(t)
    BY Zenon DEF PoolChain
  <2> HIDE DEF Chaining, g
  <2> QED
    BY <1>3, <2>1, Zenon
<1> HIDE DEF g
<1>5. g[0] = p.tail /\ \A k \in 1..N : k - 1 \in 0..N /\ g[k] = after(g[k - 1])
  <2>1. g = [k \in 0..N |-> IF k = 0 THEN p.tail ELSE after(g[k - 1])]
    BY <1>4
  <2>2. 0 \in 0..N /\ \A k \in 1..N : k \in 0..N /\ k - 1 \in 0..N /\ k # 0
    OBVIOUS
  <2> HIDE DEF after
  <2>3. \A k \in 0..N : g[k] = IF k = 0 THEN p.tail ELSE after(g[k - 1])
    BY <2>1, Zenon
  <2> QED
    BY <2>2, <2>3, Zenon
<1> DEFINE Bad == {k \in 0..N : g[k] # f[k]}
<1> HIDE DEF f, after
<1>6. Bad = {}
  <2> SUFFICES ASSUME Bad # {}
               PROVE  FALSE
    OBVIOUS
  <2>1. PICK m \in Bad : \A k \in Bad : m <= k
    <3>1. Bad \in SUBSET Nat
      OBVIOUS
    <3> QED
      BY <3>1, LeastNumber
  <2>2. m # 0
    BY <1>1, <1>5
  <2>3. m \in 1..N /\ m - 1 \in 0..N /\ ~(m <= m - 1)
    BY <2>2
  <2>4. g[m - 1] = f[m - 1]
    BY <2>1, <2>3
  <2>5. g[m] = f[m]
    BY <2>3, <2>4, <1>2, <1>5, Zenon
  <2> QED
    BY <2>5
<1>7. \A k \in 0..N : g[k] = f[k]
  BY <1>6
<1> QED
  BY <1>7 DEF f, g, Chains

\* The recursive function PoolBegins adds up the lengths of the list's blocks.
LEMMA BeginsAre ==
    ASSUME NEW p, NEW n \in Nat, Len(p.blocks) \in Nat, n <= Len(p.blocks),
           NEW c \in [1..n -> 1..Len(p.blocks)], NEW b \in [1..(n + 1) -> Nat],
           NEW from, NEW to \in Nat, Begins(p, n, c, b, from, to),
           NEW chain, Chains(chain, p, n, c)
    PROVE  PoolBegins(p, chain, from)[Len(p.blocks)] = to
<1> DEFINE N == Len(p.blocks)
           f == [k \in 0..N |-> IF k < n THEN b[k + 1] ELSE to]
           size(k) == IF chain[k - 1] = 0 THEN 0 ELSE p.blocks[chain[k - 1]].len
           Beginning(g) == g = [k \in 0..N |-> IF k = 0 THEN from ELSE
                                   g[k - 1] + (IF chain[k - 1] = 0 THEN 0
                                               ELSE p.blocks[chain[k - 1]].len)]
<1>0. /\ b[1] = from /\ b[n + 1] = to
      /\ \A k \in 1..n : b[k + 1] = b[k] + p.blocks[c[k]].len
  BY DEF Begins
<1>c. \A k \in 0..N : chain[k] = IF k < n THEN c[k + 1] ELSE 0
  BY DEF Chains
<1>1. f[0] = from
  <2>1. 0 \in 0..N /\ 0 + 1 = 1
    OBVIOUS
  <2>2. CASE n = 0
    BY <2>1, <2>2, <1>0
  <2>3. CASE n # 0
    <3>1. 0 < n /\ f[0] = b[0 + 1]
      BY <2>1, <2>3
    <3> QED
      BY <2>1, <3>1, <1>0
  <2> QED
    BY <2>2, <2>3
<1>2. ASSUME NEW k \in 1..N
      PROVE  f[k] = f[k - 1] + size(k)
  <2>1. k - 1 \in 0..N /\ k \in 0..N /\ k - 1 + 1 = k
    OBVIOUS
  <2>2. CASE k - 1 < n
    <3>1. k \in 1..n /\ f[k - 1] = b[k]
      BY <2>1, <2>2
    <3>2. chain[k - 1] = c[k] /\ c[k] # 0
      <4>1. chain[k - 1] = c[k - 1 + 1]
        BY <2>1, <2>2, <1>c
      <4>2. c[k] \in 1..N
        BY <3>1
      <4> QED
        BY <2>1, <4>1, <4>2
    <3>3. b[k + 1] = b[k] + p.blocks[c[k]].len
      BY <3>1, <1>0
    <3>4. f[k] = b[k + 1]
      <4>1. CASE k < n
        BY <2>1, <4>1
      <4>2. CASE k = n
        <5>1. ~(k < n)
          BY <4>2
        <5> QED
          BY <2>1, <4>2, <5>1, <1>0
      <4> QED
        BY <3>1, <4>1, <4>2
    <3> HIDE DEF f
    <3> QED
      BY <3>1, <3>2, <3>3, <3>4
  <2>3. CASE ~(k - 1 < n)
    <3>1. ~(k < n)
      BY <2>3
    <3>2. f[k] = to /\ f[k - 1] = to /\ chain[k - 1] = 0
      BY <2>1, <2>3, <3>1, <1>c
    <3>3. to + 0 = to
      OBVIOUS
    <3> HIDE DEF f
    <3> QED
      BY <3>2, <3>3
  <2> QED
    BY <2>2, <2>3
<1>3. \E g : Beginning(g)
  <2> DEFINE h == [k \in 0..N |-> IF k = 0 THEN from ELSE
                      f[k - 1] + (IF chain[k - 1] = 0 THEN 0
                                  ELSE p.blocks[chain[k - 1]].len)]
  <2>1. ASSUME NEW k \in 0..N
        PROVE  f[k] = h[k]
    <3>1. CASE k = 0
      BY <3>1, <1>1
    <3>2. CASE k # 0
      <4>1. k \in 1..N
        BY <3>2
      <4>2. f[k] = f[k - 1] + size(k)
        BY <4>1, <1>2, Zenon
      <4> HIDE DEF f
      <4> QED
        BY <3>2, <4>2
    <3> QED
      BY <3>1, <3>2
  <2>2. f = h
    BY <2>1, Zenon
  <2> HIDE DEF f
  <2> QED
    BY <2>2
<1> DEFINE g == PoolBegins(p, chain, from)
<1>4. Beginning(g)
  <2>1. g = CHOOSE t : Beginning(t)
    BY Zenon DEF PoolBegins
  <2> HIDE DEF Beginning, g
  <2> QED
    BY <1>3, <2>1, Zenon
<1> HIDE DEF g
<1>5. g[0] = from /\ \A k \in 1..N : k - 1 \in 0..N /\ g[k] = g[k - 1] + size(k)
  <2>1. g = [k \in 0..N |-> IF k = 0 THEN from ELSE g[k - 1] + size(k)]
    BY <1>4
  <2>2. 0 \in 0..N /\ \A k \in 1..N : k \in 0..N /\ k - 1 \in 0..N /\ k # 0
    OBVIOUS
  <2> HIDE DEF size
  <2>3. \A k \in 0..N : g[k] = IF k = 0 THEN from ELSE g[k - 1] + size(k)
    BY <2>1, Zenon
  <2> QED
    BY <2>2, <2>3, Zenon
<1>6. f[N] = to
  <2>1. N \in 0..N
    OBVIOUS
  <2>2. ~(N < n)
    OBVIOUS
  <2> QED
    BY <2>1, <2>2
<1> DEFINE Bad == {k \in 0..N : g[k] # f[k]}
<1> HIDE DEF f, size
<1>7. Bad = {}
  <2> SUFFICES ASSUME Bad # {}
               PROVE  FALSE
    OBVIOUS
  <2>1. PICK m \in Bad : \A k \in Bad : m <= k
    <3>1. Bad \in SUBSET Nat
      OBVIOUS
    <3> QED
      BY <3>1, LeastNumber
  <2>2. m # 0
    BY <1>1, <1>5
  <2>3. m \in 1..N /\ m - 1 \in 0..N /\ ~(m <= m - 1)
    BY <2>2
  <2>4. g[m - 1] = f[m - 1]
    BY <2>1, <2>3
  <2>5. g[m] = f[m]
    BY <2>3, <2>4, <1>2, <1>5, Zenon
  <2> QED
    BY <2>5
<1>8. g[N] = to
  <2>1. N \in 0..N
    OBVIOUS
  <2>2. g[N] = f[N]
    BY <2>1, <1>7
  <2> QED
    BY <2>2, <1>6
<1> QED
  BY <1>8 DEF g

LEMMA InvPool ==
    ASSUME Inv
    PROVE  PoolList /\ PoolAccount
<1> DEFINE p == z.pool
           N == Len(p.blocks)
           chain == PoolChain(p)
           linked == {chain[k] : k \in 0..N} \ {0}
<1>1. p \in Pool /\ base \in Nat /\ Separate(heap, p, z.buf.id)
  BY GoodIs, Zenon DEF Inv
<1>2. p.blocks \in Seq(Block) /\ N \in Nat /\ DOMAIN p.blocks = 1..N
  BY <1>1, PoolIs
<1>3. PICK n \in Nat : \E c \in [1..n -> 1..N], b \in [1..(n + 1) -> Nat] :
          /\ Laid(heap, p, z.buf.id, freed - z.free - p.pos, base, n, c, b)
          /\ Headed(p, n, c)
  BY Zenon DEF Inv, Good
<1>4. PICK c \in [1..n -> 1..N], b \in [1..(n + 1) -> Nat] :
          /\ Laid(heap, p, z.buf.id, freed - z.free - p.pos, base, n, c, b)
          /\ Headed(p, n, c)
  BY <1>3
<1> HIDE DEF p
<1>5. Listed(p, n, c) /\ Begins(p, n, c, b, freed - z.free - p.pos, base)
  BY <1>4 DEF Laid
<1>6. n <= N
  BY <1>2, <1>5, ListBound DEF Listed
<1>c. Chains(chain, p, n, c)
  BY <1>2, <1>5, <1>6, ChainIs, Zenon
<1> HIDE DEF chain
<1>7. \A k \in 0..N : chain[k] = IF k < n THEN c[k + 1] ELSE 0
  BY <1>c DEF Chains
<1>8. PoolAccount
  <2>1. PoolBegins(p, chain, freed - z.free - p.pos)[N] = base
    BY <1>1, <1>2, <1>5, <1>6, <1>c, BeginsAre, Zenon
  <2> QED
    BY <2>1 DEF PoolAccount, p, chain
<1>9. ASSUME NEW i
      PROVE  i \in linked <=> \E k \in 1..n : c[k] = i
  <2>1. ASSUME i \in linked
        PROVE  \E k \in 1..n : c[k] = i
    <3>1. PICK k \in 0..N : chain[k] = i /\ i # 0
      BY <2>1
    <3>2. k < n
      BY <3>1, <1>7
    <3>3. k + 1 \in 1..n /\ c[k + 1] = i
      BY <3>1, <3>2, <1>7
    <3> QED
      BY <3>3
  <2>2. ASSUME NEW k \in 1..n
        PROVE  c[k] \in linked
    <3>1. k - 1 \in 0..N /\ k - 1 < n /\ k - 1 + 1 = k /\ c[k] \in 1..N
      BY <1>2, <1>6
    <3>2. chain[k - 1] = c[k] /\ c[k] # 0
      <4>1. chain[k - 1] = c[k - 1 + 1]
        BY <3>1, <1>7, Zenon
      <4> QED
        BY <3>1, <4>1
    <3> QED
      BY <3>1, <3>2
  <2> QED
    BY <2>1, <2>2
<1> HIDE DEF linked
<1>10. linked = {i \in DOMAIN p.blocks : p.blocks[i].active}
  <2>1. \A i \in 1..N : p.blocks[i].active <=> \E k \in 1..n : c[k] = i
    BY <1>5 DEF Listed
  <2>2. \A k \in 1..n : c[k] \in 1..N
    OBVIOUS
  <2>3. ASSUME NEW i
        PROVE  i \in linked <=> i \in 1..N /\ p.blocks[i].active
    BY <2>1, <2>2, <1>9, Zenon
  <2> QED
    BY <2>3, <1>2, Zenon
<1>11. p.head = 0 <=> p.tail = 0
  <2>1. CASE n = 0
    BY <2>1, <1>4, <1>5 DEF Listed, Headed
  <2>2. CASE n # 0
    <3>1. p.head = c[n] /\ p.tail = c[1]
      BY <2>2, <1>4, <1>5 DEF Listed, Headed
    <3>2. c[n] # 0 /\ c[1] # 0
      BY <2>2
    <3> QED
      BY <3>1, <3>2
  <2> QED
    BY <2>1, <2>2
<1>12. ASSUME p.head # 0
       PROVE  p.head \in linked /\ p.blocks[p.head].next = 0
  <2>1. n # 0 /\ p.head = c[n]
    BY <1>4, <1>12 DEF Headed
  <2>2. n \in 1..n
    BY <2>1
  <2>3. p.blocks[c[n]].next = 0
    BY <2>2, <1>5 DEF Listed
  <2> QED
    BY <2>1, <2>2, <2>3, <1>9
<1>13. \A i \in linked : p.blocks[i].buf # z.buf.id
  <2>1. \A i \in linked : i \in 1..N
    BY <1>2, <1>10
  <2> QED
    BY <2>1, <1>1, Zenon DEF Separate
<1>14. \A i, j \in DOMAIN p.blocks : i # j => p.blocks[i].buf # p.blocks[j].buf
  BY <1>1, <1>2, Zenon DEF Separate
<1>15. PoolList
  BY <1>10, <1>11, <1>12, <1>13, <1>14, Zenon DEF PoolList, p, linked, chain
<1> QED
  BY <1>8, <1>15

\* Through every order of reads, shifts and frees the pool's list is the active
\* blocks, head is its last one, no two blocks share a buffer, and the byte
\* account of free balances (bufferPool.swap and free).
THEOREM PoolInOrder == Spec => []WellFormed
<1>1. Inv => WellFormed
  BY InvTypeOK, InvPool DEF WellFormed
<1> QED
  BY <1>1, Invariant, PTL

--------------------------------------------------------------------------------
(* Freed memory is used again *)

Reuses == (Len(heap') > Len(heap) /\ freed = base + z.start) =>
              \A id \in 1..Len(heap) : heap[id].cap < heap'[Len(heap')].cap

LEMMA KeptReuses ==
    ASSUME Inv, heap' = heap
    PROVE  Reuses
<1>1. Len(heap) \in Nat
  BY GoodIs, Zenon DEF Inv
<1> QED
  BY <1>1 DEF Reuses

LEMMA NextReuses ==
    ASSUME Inv, [Next]_vars
    PROVE  Reuses
<1>1. StreamLen \in Nat /\ MaxPeek \in Nat
  BY StreamLexerAssumption
<1>2. ASSUME NEW i \in 0..MaxPeek, Peek(i)
      PROVE  Reuses
  <2>1. CASE heap' = heap
    BY <2>1, KeptReuses
  <2>2. CASE \E r \in AfterRead(z.pos + i) : ReadStep(r)
    <3>1. PICK r \in AfterRead(z.pos + i) : ReadStep(r)
      BY <2>2
    <3>2. z.pos + i \in Nat /\ z.start <= z.pos + i
      <4>1. z.start \in Nat /\ z.pos \in Nat /\ Current(heap, z, base)
        BY GoodIs, Zenon DEF Inv
      <4>2. z.start <= z.pos
        BY <4>1, Zenon DEF Current
      <4> QED
        BY <4>1, <4>2
    <3>3. CASE z.err # "nil"
      <4>1. heap' = heap
        BY <1>1, <3>1, <3>2, <3>3, ReadGood DEF ReadStep
      <4> QED
        BY <4>1, KeptReuses
    <3>4. CASE z.err = "nil"
      <4>1. Reads(z.pos + i, r)
        BY <1>1, <3>2, <3>4, ReadGood, Zenon
      <4>2. heap' = r.heap
        BY <3>1 DEF ReadStep
      <4> QED
        BY <4>1, <4>2, Zenon DEF Reads, Reuses
    <3> QED
      BY <3>3, <3>4
  <2> QED
    BY <1>2, <2>1, <2>2, Zenon DEF Peek
<1>3. CASE Shift
  <2>1. PICK r \in IF z.pos > z.buf.len THEN AfterRead(z.pos - 1)
                   ELSE {[heap |-> heap, z |-> z, base |-> base]} : heap' = r.heap
    BY <1>3, Zenon DEF Shift
  <2>2. \/ r.heap = heap /\ r.z = z /\ r.base = base
        \/ z.err = "nil" /\ Reads(z.pos - 1, r) /\ z.pos > z.buf.len
    BY <1>1, ShiftReads, Zenon
  <2>3. CASE r.heap = heap
    BY <2>1, <2>3, KeptReuses
  <2>4. CASE Reads(z.pos - 1, r)
    BY <2>1, <2>4, Zenon DEF Reads, Reuses
  <2> QED
    BY <2>2, <2>3, <2>4
<1>4. ASSUME NEW n, Move(n) \/ Rewind(n) \/ Free(n)
      PROVE  Reuses
  BY <1>4, KeptReuses DEF Move, Rewind, Free
<1>5. CASE Skip \/ ShiftLen \/ UNCHANGED vars
  BY <1>5, KeptReuses DEF Skip, ShiftLen, vars
<1> QED
  BY <1>2, <1>3, <1>4, <1>5, Zenon DEF Next

\* read allocates only when every buffer is too small, if the client has freed
\* what it moved past (bufferPool.swap).
THEOREM AllocatesLast == Spec => FreedIsReused
<1>1. Inv /\ [Next]_vars =>
          ((Len(heap') > Len(heap) /\ freed = base + z.start) =>
              \A id \in 1..Len(heap) : heap[id].cap < heap'[Len(heap')].cap)
  BY NextReuses DEF Reuses
<1> QED
  BY <1>1, Invariant, PTL DEF Spec, FreedIsReused

--------------------------------------------------------------------------------
(* The lexer implements a cursor over the stream *)

LEMMA InitCursor ==
    ASSUME Init
    PROVE  Cursor!Init
<1>1. /\ base = 0 /\ z.start = 0 /\ z.pos = 0 /\ out = Quiet /\ StreamLen \in Nat
      /\ \/ z.err = "nil" /\ z.buf.len = 0
         \/ z.err = "EOF" /\ z.buf.len = StreamLen
  BY StreamLexerAssumption DEF Init
<1>2. /\ base + z.start = 0 /\ base + z.pos = 0
      /\ base + z.buf.len \in {0, StreamLen}
      /\ (z.err = "fail") = FALSE
  BY <1>1
<1>3. (Err = "EOF") => base + z.pos >= StreamLen
  BY <1>1 DEF Err
<1>4. out = Cursor!Quiet
  BY <1>1 DEF Quiet, Cursor!Quiet
<1> QED
  BY <1>2, <1>3, <1>4, Zenon DEF Cursor!Init, Cursor!OnTime

\* Err answers EOF only at the end of the stream.
LEMMA NextOnTime ==
    ASSUME Inv'
    PROVE  Cursor!OnTime'
<1>1. /\ z' \in Lexer /\ base' \in Nat
      /\ z'.err = "EOF" => base' + z'.buf.len = StreamLen
  BY Zenon DEF Inv, Good, Current
<1>2. z'.pos \in Nat /\ z'.buf.len \in Nat
  BY <1>1, LexerIs, Zenon
<1>3. ASSUME Err' = "EOF"
      PROVE  base' + z'.pos >= StreamLen
  <2>1. z'.err = "EOF" /\ ~(z'.pos < z'.buf.len)
    BY <1>3 DEF Err
  <2> QED
    BY <2>1, <1>1, <1>2
<1> QED
  BY <1>3 DEF Cursor!OnTime

\* What a call that needs the byte at index want does to the stream.
LEMMA Arrives ==
    ASSUME Inv, StreamLen \in Nat, NEW want \in Nat, NEW r,
           base' = r.base, z'.buf = r.z.buf, z'.err = r.z.err,
           \/ /\ r.z = z /\ r.base = base
              /\ want < z.buf.len \/ (z.err # "nil" /\ z.buf.len <= want)
           \/ z.err = "nil" /\ Reads(want, r) /\ z.buf.len <= want
    PROVE  Cursor!Arrive(base + want)
<1> DEFINE seen == base + z.buf.len
           seen2 == r.base + r.z.buf.len
<1>1. /\ base \in Nat /\ z.buf.len \in Nat /\ z.err \in {"nil", "EOF", "fail"}
      /\ Current(heap, z, base)
  BY GoodIs, Zenon DEF Inv
<1>2. /\ seen <= StreamLen /\ (z.err = "EOF" => seen = StreamLen)
  BY <1>1, Zenon DEF Current
<1>3. CASE r.z = z /\ r.base = base /\ (want < z.buf.len \/ (z.err # "nil" /\ z.buf.len <= want))
  <2>1. base' + z'.buf.len = seen /\ z'.err = z.err /\ seen \in seen..StreamLen
    BY <1>1, <1>2, <1>3
  <2>2. (base + want >= seen /\ base + want < StreamLen) => z.err = "fail"
    BY <1>1, <1>2, <1>3
  <2>3. (z'.err = "fail") \in {z.err = "fail", TRUE}
    BY <2>1
  <2> HIDE DEF seen
  <2> QED
    BY <2>1, <2>2, <2>3, Zenon DEF Cursor!Arrive, seen
<1>4. CASE z.err = "nil" /\ Reads(want, r) /\ z.buf.len <= want
  <2>1. /\ Good(r.heap, r.z, r.base) /\ seen2 >= seen
        /\ r.z.err = "nil" => seen2 > base + want
    BY <1>4, Zenon DEF Reads
  <2>2. /\ r.base \in Nat /\ r.z.buf.len \in Nat /\ r.z.err \in {"nil", "EOF", "fail"}
        /\ Current(r.heap, r.z, r.base)
    BY <2>1, GoodIs, Zenon
  <2>3. seen2 <= StreamLen /\ (r.z.err = "EOF" => seen2 = StreamLen)
    BY <2>2, Zenon DEF Current
  <2>4. seen2 \in seen..StreamLen
    BY <1>1, <2>1, <2>2, <2>3
  <2>5. ~(base + want < seen)
    BY <1>1, <1>4
  <2>6. (base + want >= seen2 /\ base + want < StreamLen) => r.z.err = "fail"
    BY <1>1, <2>1, <2>2, <2>3
  <2>7. z.err # "fail"
    BY <1>4
  <2>8. (z'.err = "fail") \in {z.err = "fail", TRUE}
    <3>1. CASE z'.err = "fail"
      BY <3>1, <2>7
    <3>2. CASE z'.err # "fail"
      BY <3>2, <2>7
    <3> QED
      BY <3>1, <3>2
  <2>9. base' + z'.buf.len = seen2 /\ z'.err = r.z.err
    OBVIOUS
  <2> HIDE DEF seen, seen2
  <2> QED
    BY <2>4, <2>5, <2>6, <2>7, <2>8, <2>9, Zenon DEF Cursor!Arrive, seen
<1> QED
  BY <1>3, <1>4

LEMMA PeekIsCursor ==
    ASSUME Inv, StreamLen \in Nat, MaxPeek \in Nat, NEW i \in 0..MaxPeek, Peek(i)
    PROVE  Cursor!Peek(i)
<1>1. /\ base \in Nat /\ z.buf.len \in Nat /\ z.pos \in Nat /\ z.start \in Nat
      /\ z.err \in {"nil", "EOF", "fail"} /\ Current(heap, z, base)
  BY GoodIs, Zenon DEF Inv
<1>2. z.start <= z.pos
  BY <1>1, Zenon DEF Current
<1>3. /\ z.pos + i \in Nat /\ z.start <= z.pos + i
      /\ base + (z.pos + i) = (base + z.pos) + i
  BY <1>1, <1>2
<1>4. Good(heap', z', base') /\ base' + z'.start = base + z.start
      /\ base' + z'.pos = base + z.pos /\ Cursor!Arrive(base + (z.pos + i))
  <2>1. CASE z.pos + i < z.buf.len /\ UNCHANGED <<heap, z, base>>
    <3>1. Good(heap', z', base')
      BY <2>1 DEF Inv
    <3>2. Cursor!Arrive(base + (z.pos + i))
      <4>1. PICK r : r = [heap |-> heap, z |-> z, base |-> base]
        OBVIOUS
      <4>2. r.z = z /\ r.base = base
        BY <4>1
      <4> QED
        BY <4>2, <2>1, <1>3, Arrives
    <3> QED
      BY <2>1, <3>1, <3>2
  <2>2. CASE z.pos + i >= z.buf.len /\ \E r \in AfterRead(z.pos + i) : ReadStep(r)
    <3>1. PICK r \in AfterRead(z.pos + i) : ReadStep(r)
      BY <2>2
    <3>2. heap' = r.heap /\ z' = r.z /\ base' = r.base
      BY <3>1 DEF ReadStep
    <3>3. z.buf.len <= z.pos + i
      BY <2>2, <1>1, <1>3
    <3>4. CASE z.err = "nil"
      <4>1. Reads(z.pos + i, r)
        BY <1>3, <3>1, <3>4, ReadGood, Zenon
      <4>2. Cursor!Arrive(base + (z.pos + i))
        BY <1>3, <3>2, <3>3, <3>4, <4>1, Arrives
      <4> QED
        BY <4>1, <4>2, <3>2, Zenon DEF Reads
    <3>5. CASE z.err # "nil"
      <4>1. r.heap = heap /\ r.z = z /\ r.base = base
        BY <1>3, <3>1, <3>5, ReadGood, Zenon
      <4>2. Cursor!Arrive(base + (z.pos + i))
        BY <1>3, <3>2, <3>3, <3>5, <4>1, Arrives
      <4> QED
        BY <4>1, <4>2, <3>2, Zenon DEF Inv
    <3> QED
      BY <3>4, <3>5
  <2> QED
    BY <2>1, <2>2, Zenon DEF Peek
<1>5. /\ base' \in Nat /\ z'.pos \in Nat /\ z'.buf.len \in Nat
      /\ Current(heap', z', base')
  BY <1>4, GoodIs, Zenon
<1>6. ByteAt(heap', z', z'.pos + i) =
          IF (base + z.pos) + i < base' + z'.buf.len THEN (base + z.pos) + i ELSE Zero
  <2>1. base' + (z'.pos + i) = (base + z.pos) + i
    BY <1>1, <1>4, <1>5
  <2>2. CASE z'.pos + i < z'.buf.len
    <3>1. /\ z'.pos + i \in 0..(z'.buf.len - 1)
          /\ (base + z.pos) + i < base' + z'.buf.len
      BY <2>1, <2>2, <1>1, <1>5
    <3>2. heap'[z'.buf.id].data[z'.pos + i] = base' + (z'.pos + i)
      BY <1>5, <3>1, Zenon DEF Current
    <3> QED
      BY <2>1, <2>2, <3>1, <3>2, Zenon DEF ByteAt
  <2>3. CASE ~(z'.pos + i < z'.buf.len)
    <3>1. ~((base + z.pos) + i < base' + z'.buf.len)
      BY <2>1, <2>3, <1>1, <1>5
    <3> QED
      BY <2>3, <3>1, Zenon DEF ByteAt
  <2> QED
    BY <2>2, <2>3
<1>7. out' = <<ByteAt(heap', z', z'.pos + i)>>
  BY Zenon DEF Peek
<1>8. Zero = Cursor!Zero
  BY DEF Zero, Cursor!Zero
<1>9. Cursor!Arrive((base + z.pos) + i)
  BY <1>3, <1>4, Zenon
<1> QED
  BY <1>4, <1>6, <1>7, <1>8, <1>9, Zenon DEF Cursor!Peek

LEMMA MoveIsCursor ==
    ASSUME Inv, StreamLen \in Nat, NEW n \in 1..StreamLen, Move(n)
    PROVE  Cursor!Move
<1>1. /\ z \in Lexer /\ base \in Nat /\ z.buf.len \in Nat /\ z.pos \in Nat /\ z.start \in Nat
      /\ Current(heap, z, base)
  BY GoodIs, Zenon DEF Inv
<1>2. base + z.buf.len <= StreamLen
  BY <1>1, Zenon DEF Current
<1>3. base + (z.pos + n) \in ((base + z.pos) + 1)..StreamLen
  <2>1. z.pos + n <= (IF client = "blind" THEN StreamLen - base ELSE z.buf.len)
    BY DEF Move
  <2>2. CASE client = "blind"
    BY <2>1, <2>2, <1>1, <1>2
  <2>3. CASE client # "blind"
    BY <2>1, <2>3, <1>1, <1>2
  <2> QED
    BY <2>2, <2>3
<1>4. z' = [z EXCEPT !.pos = z.pos + n] /\ base' = base /\ out' = Quiet
  BY DEF Move
<1>5. /\ z'.err = z.err /\ z'.buf = z.buf /\ z'.start = z.start /\ z'.pos = z.pos + n
  BY <1>1, <1>4, SetPos
<1>6. out' = Cursor!Quiet
  BY <1>4 DEF Quiet, Cursor!Quiet
<1> QED
  BY <1>3, <1>4, <1>5, <1>6, Zenon DEF Cursor!Move

LEMMA RewindIsCursor ==
    ASSUME Inv, StreamLen \in Nat, NEW mark \in 0..StreamLen, Rewind(mark)
    PROVE  Cursor!Rewind
<1>1. /\ z \in Lexer /\ base \in Nat /\ z.pos \in Nat /\ z.start \in Nat
  BY GoodIs, Zenon DEF Inv
<1>2. base + (z.start + mark) \in (base + z.start)..((base + z.pos) - 1)
  <2>1. mark < z.pos - z.start
    BY DEF Rewind
  <2> QED
    BY <2>1, <1>1
<1>3. z' = [z EXCEPT !.pos = z.start + mark] /\ base' = base /\ out' = Quiet
  BY DEF Rewind
<1>4. z.start + mark \in Nat
  BY <1>1
<1>5. /\ z'.err = z.err /\ z'.buf = z.buf /\ z'.start = z.start /\ z'.pos = z.start + mark
  BY <1>1, <1>3, <1>4, SetPos
<1>6. out' = Cursor!Quiet
  BY <1>3 DEF Quiet, Cursor!Quiet
<1> QED
  BY <1>2, <1>3, <1>5, <1>6, Zenon DEF Cursor!Rewind

LEMMA SkipIsCursor ==
    ASSUME Inv, Skip
    PROVE  Cursor!Skip
<1>1. z \in Lexer /\ z.pos \in Nat
  BY GoodIs, Zenon DEF Inv
<1>2. z' = [z EXCEPT !.start = z.pos] /\ base' = base /\ out' = Quiet
  BY DEF Skip
<1>3. /\ z'.err = z.err /\ z'.buf = z.buf /\ z'.start = z.pos /\ z'.pos = z.pos
  BY <1>1, <1>2, SetStart
<1>4. out' = Cursor!Quiet
  BY <1>2 DEF Quiet, Cursor!Quiet
<1> QED
  BY <1>2, <1>3, <1>4, Zenon DEF Cursor!Skip

\* The token handed over is the selected piece of the stream, wherever its
\* bytes were when Shift was called.
LEMMA ShiftIsCursor ==
    ASSUME Inv, StreamLen \in Nat, Shift
    PROVE  Cursor!Shift
<1> DEFINE lo == base + z.start
           hi == base + z.pos
<1>1. PICK r \in IF z.pos > z.buf.len THEN AfterRead(z.pos - 1)
                 ELSE {[heap |-> heap, z |-> z, base |-> base]} :
          /\ r.z.pos > r.z.start
          /\ base' = r.base
          /\ z' = [r.z EXCEPT !.start = r.z.pos]
          /\ out' = [k \in 1..(r.z.pos - r.z.start) |->
                        r.heap[r.z.buf.id].data[r.z.start + k - 1]]
  BY Zenon DEF Shift
<1>2. /\ Good(r.heap, r.z, r.base) /\ r.z.pos <= r.z.buf.len
      /\ r.base + r.z.start = lo /\ r.base + r.z.pos = hi
      /\ \/ r.heap = heap /\ r.z = z /\ r.base = base
         \/ z.err = "nil" /\ Reads(z.pos - 1, r) /\ z.pos > z.buf.len
  BY <1>1, ShiftReads, Zenon
<1>3. /\ r.z \in Lexer /\ r.z.pos \in Nat /\ r.z.start \in Nat /\ r.base \in Nat
      /\ r.z.buf.len \in Nat /\ Current(r.heap, r.z, r.base)
  BY <1>2, GoodIs, Zenon
<1>4. /\ base \in Nat /\ z.start \in Nat /\ z.pos \in Nat /\ z.buf.len \in Nat
      /\ Current(heap, z, base)
  BY GoodIs, Zenon DEF Inv
<1>5. /\ z'.err = r.z.err /\ z'.buf = r.z.buf /\ z'.start = r.z.pos /\ z'.pos = r.z.pos
  BY <1>1, <1>3, SetStart
<1>6. r.z.pos - r.z.start = hi - lo /\ lo < hi /\ z.pos - 1 \in Nat
      /\ base + (z.pos - 1) = hi - 1
  <2>1. base + z.start = r.base + r.z.start /\ base + z.pos = r.base + r.z.pos
    BY <1>2, Zenon
  <2>2. r.z.pos > r.z.start
    BY <1>1
  <2> QED
    BY <2>1, <2>2, <1>3, <1>4
<1>7. Cursor!Arrive(base + (z.pos - 1))
  <2>1. CASE r.z = z /\ r.base = base
    <3>1. z.pos - 1 < z.buf.len
      <4>1. z.pos <= z.buf.len
        BY <1>2, <2>1
      <4> QED
        BY <4>1, <1>4
    <3> QED
      BY <2>1, <3>1, <1>1, <1>5, <1>6, Arrives
  <2>2. CASE z.err = "nil" /\ Reads(z.pos - 1, r) /\ z.pos > z.buf.len
    <3>1. z.buf.len <= z.pos - 1
      BY <2>2, <1>4
    <3> QED
      BY <2>2, <3>1, <1>1, <1>5, <1>6, Arrives
  <2> QED
    BY <1>2, <2>1, <2>2
<1>8. ASSUME NEW k \in 1..(hi - lo)
      PROVE  r.heap[r.z.buf.id].data[r.z.start + k - 1] = lo + k - 1
  <2>1. base + z.start = r.base + r.z.start /\ k <= r.z.pos - r.z.start /\ k \in Nat /\ k >= 1
    BY <1>2, <1>3, <1>4, <1>6
  <2>2. /\ r.z.start + k - 1 \in 0..(r.z.buf.len - 1)
        /\ r.base + (r.z.start + k - 1) = lo + k - 1
    BY <2>1, <1>2, <1>3, <1>4
  <2> QED
    BY <2>2, <1>3, Zenon DEF Current
<1>9. out' = [k \in 1..(hi - lo) |-> lo + k - 1]
  <2> HIDE DEF lo, hi
  <2>1. 1..(r.z.pos - r.z.start) = 1..(hi - lo)
    BY <1>6, Zenon
  <2> QED
    BY <1>1, <1>8, <2>1, Zenon
<1>10. Cursor!Arrive(hi - 1)
  BY <1>6, <1>7, Zenon
<1>11. base' + z'.start = hi /\ base' + z'.pos = hi
  BY <1>1, <1>2, <1>5, Zenon
<1> QED
  BY <1>9, <1>10, <1>11, Zenon DEF Cursor!Shift

LEMMA AccountIsCursor ==
    ASSUME Inv, StreamLen \in Nat,
           ShiftLen \/ (\E n \in 1..StreamLen : Free(n))
    PROVE  Cursor!Account
<1>1. z \in Lexer /\ z.start \in Nat /\ z.free \in Nat
  BY GoodIs, Zenon DEF Inv
<1>2. base' = base /\ out' = Quiet
  BY DEF ShiftLen, Free
<1>3. z'.err = z.err /\ z'.buf = z.buf /\ z'.start = z.start /\ z'.pos = z.pos
  <2>1. CASE ShiftLen
    <3>1. z' = [z EXCEPT !.prevStart = z.start]
      BY <2>1 DEF ShiftLen
    <3> QED
      BY <1>1, <3>1, SetPrevStart
  <2>2. CASE \E n \in 1..StreamLen : Free(n)
    <3>1. PICK n \in 1..StreamLen : z' = [z EXCEPT !.free = z.free + n]
      BY <2>2 DEF Free
    <3>2. z.free + n \in Nat
      BY <1>1
    <3> QED
      BY <1>1, <3>1, <3>2, SetFree
  <2> QED
    BY <2>1, <2>2
<1>4. out' = Cursor!Quiet
  BY <1>2 DEF Quiet, Cursor!Quiet
<1> QED
  BY <1>2, <1>3, <1>4, Zenon DEF Cursor!Account

LEMMA NextCursor ==
    ASSUME Inv, [Next]_vars
    PROVE  [Cursor!Next]_(Cursor!vars)
<1>1. StreamLen \in Nat /\ MaxPeek \in Nat
  BY StreamLexerAssumption
<1>2. Cursor!OnTime'
  BY NextInv, NextOnTime
<1>3. CASE UNCHANGED vars
  BY <1>3 DEF vars, Cursor!vars, Err
<1>4. ASSUME NEW i \in 0..MaxPeek, Peek(i)
      PROVE  Cursor!Next
  BY <1>1, <1>2, <1>4, PeekIsCursor, Zenon DEF Cursor!Next
<1>5. ASSUME NEW n \in 1..StreamLen, Move(n)
      PROVE  Cursor!Next
  BY <1>1, <1>2, <1>5, MoveIsCursor, Zenon DEF Cursor!Next
<1>6. ASSUME NEW mark \in 0..StreamLen, Rewind(mark)
      PROVE  Cursor!Next
  BY <1>1, <1>2, <1>6, RewindIsCursor, Zenon DEF Cursor!Next
<1>7. CASE Skip
  BY <1>2, <1>7, SkipIsCursor, Zenon DEF Cursor!Next
<1>8. CASE Shift
  BY <1>1, <1>2, <1>8, ShiftIsCursor, Zenon DEF Cursor!Next
<1>9. CASE ShiftLen \/ (\E n \in 1..StreamLen : Free(n))
  BY <1>1, <1>2, <1>9, AccountIsCursor, Zenon DEF Cursor!Next
<1> QED
  BY <1>3, <1>4, <1>5, <1>6, <1>7, <1>8, <1>9, Zenon DEF Next

\* Whatever the buffers do, the client sees a cursor over the stream: Peek and
\* Shift return the bytes at the selection, none is lost at a read, and Err
\* answers EOF only at the end (StreamLexer's methods).
THEOREM ImplementsCursor == Spec => IsCursor
  BY InitCursor, NextCursor, Invariant, PTL DEF Spec, IsCursor, Cursor!Spec

================================================================================
