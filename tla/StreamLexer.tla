------------------------------ MODULE StreamLexer ------------------------------
(***************************************************************************)
(* buffer/streamlexer.go: a lexer buffer that reads an io.Reader in chunks *)
(* and keeps the bytes of shifted tokens in memory until the client frees  *)
(* them.  Buffers are aliased: a token is a slice of the buffer it was cut *)
(* from, so a buffer handed out again too early overwrites tokens.         *)
(*                                                                         *)
(* A stream byte is identified with its offset; the memory of a buffer is  *)
(* a function from its indexes to such bytes.  Indexes into bufferPool     *)
(* blocks are kept "plus one", as in the code, so that 0 is nil.           *)
(***************************************************************************)
EXTENDS Integers, FiniteSets, Sequences, FiniteSetsExt

CONSTANTS
    StreamLen,    \* bytes the io.Reader delivers before io.EOF
    InitSizes,    \* buffer sizes given to NewStreamLexerSize
    MaxPeek,      \* bound: how far ahead of the end position a client peeks
    MayFail       \* the reader may return an error other than io.EOF

ASSUME StreamLexerAssumption ==
    /\ StreamLen \in Nat /\ InitSizes \subseteq Nat /\ MaxPeek \in Nat
    /\ MayFail \in BOOLEAN

\* A client that peeks at what it moves over, and one that moves over bytes it
\* knows to exist and lets Shift read them; its reader does not fail.
Clients == {"peeks", "blind"}

Zero == -1        \* a memory cell never written, and the 0 of a failed Peek
Quiet == <<>>

VARIABLES
    heap,         \* every buffer ever allocated: [cap, data]
    z,            \* struct StreamLexer
    out,          \* what the last call returned
    client,       \* how the client uses the lexer
    \* history of the run, not read by any guard of the code:
    base,         \* stream offset of z.buf[0]
    freed,        \* total number of bytes given to Free
    held          \* shifted or skipped bytes not yet freed -> where they live

vars == <<heap, z, out, client, base, freed, held>>

Buffer(cap) == [cap |-> cap, data |-> [j \in 0..(cap - 1) |-> Zero]]

Init ==
    /\ out = Quiet /\ base = 0 /\ freed = 0 /\ held = <<>>
    /\ client \in Clients
    /\ \/ \E size \in InitSizes :
            /\ heap = <<Buffer(size)>>
            /\ z = [err |-> "nil", buf |-> [id |-> 1, len |-> 0],
                    pool |-> [blocks |-> <<>>, head |-> 0, tail |-> 0, pos |-> 0],
                    start |-> 0, pos |-> 0, prevStart |-> 0, free |-> 0]
       \/ \* the reader implements Bytes: its buffer is used as it is
            /\ heap = <<[cap |-> StreamLen, data |-> [j \in 0..(StreamLen - 1) |-> j]]>>
            /\ z = [err |-> "EOF", buf |-> [id |-> 1, len |-> StreamLen],
                    pool |-> [blocks |-> <<>>, head |-> 0, tail |-> 0, pos |-> 0],
                    start |-> 0, pos |-> 0, prevStart |-> 0, free |-> 0]

--------------------------------------------------------------------------------
(* bufferPool *)

TailBlock(p) == p.blocks[p.tail]

Bug_PopForgetsPos(p) ==
    [p EXCEPT !.blocks[p.tail].active = FALSE, !.tail = TailBlock(p).next]

\* One turn of the loop of free: the tail block is read to its end and leaves
\* the list.  After this it may be picked up by swap.
PoolPop(p) ==
    [p EXCEPT !.pos = @ - TailBlock(p).len,
              !.blocks[p.tail].active = FALSE,
              !.tail = TailBlock(p).next]

\* The loop ends when the list is empty or the tail block is not yet read.
PoolTurn(q) == IF q.tail # 0 /\ q.pos >= TailBlock(q).len THEN PoolPop(q) ELSE q

\* The pool after 0, 1, 2, ... turns: the loop turns at most once per block.
PoolTurns(p) ==
    LET turn[k \in 0..Len(p.blocks)] == IF k = 0 THEN p ELSE PoolTurn(turn[k - 1])
    IN  turn

\* free
PoolFree(p, n) ==
    LET q == PoolTurns([p EXCEPT !.pos = @ + n])[Len(p.blocks)]
    IN  IF q.tail = 0 THEN [q EXCEPT !.head = 0] ELSE q

Bug_ReusableActive(p, size) ==
    {i \in DOMAIN p.blocks : size <= heap[p.blocks[i].buf].cap}

\* The inactive blocks whose buffer is large enough.
Reusable(p, size) ==
    {i \in DOMAIN p.blocks : ~p.blocks[i].active /\ size <= heap[p.blocks[i].buf].cap}

Bug_InPlaceStrict(p, old, size) ==
    /\ Reusable(p, size) = {}
    /\ p.tail = 0 /\ p.pos > old.len /\ size <= heap[old.buf].cap

\* All of the current buffer's shifted bytes are freed and it is large enough.
InPlace(p, old, size) ==
    /\ Reusable(p, size) = {}
    /\ p.tail = 0 /\ p.pos >= old.len /\ size <= heap[old.buf].cap

\* swap: retire old (a prefix of the current buffer) and name the buffer to use
\* next; id Len(heap) + 1 is the newly allocated one.
PoolSwap(p, old, size) ==
    IF InPlace(p, old, size)
    THEN [pool |-> [p EXCEPT !.pos = @ - old.len], id |-> old.buf]
    ELSE LET fits == Reusable(p, size)
             slot == IF fits # {} THEN Min(fits) ELSE Len(p.blocks) + 1
             stored == [buf |-> old.buf, len |-> old.len, next |-> 0, active |-> TRUE]
             filed == IF fits # {} THEN [p.blocks EXCEPT ![slot] = stored]
                                   ELSE Append(p.blocks, stored)
         IN  [pool |-> [blocks |-> IF p.head = 0 THEN filed
                                   ELSE [filed EXCEPT ![p.head].next = slot],
                        head |-> slot,
                        tail |-> IF p.tail = 0 THEN slot ELSE p.tail,
                        pos |-> p.pos],
              id |-> IF fits # {} THEN p.blocks[slot].buf ELSE Len(heap) + 1]

--------------------------------------------------------------------------------
(* StreamLexer *)

\* The buffer size read asks for: doubled when the token needs more than half.
WantedSize(want) ==
    LET c == heap[z.buf.id].cap
        p == want - z.start + 1
    IN  IF 2 * p > c THEN 2 * c + p ELSE c

Bug_LeftOverAtPos == z.buf.len - z.pos

\* The bytes of the unfinished token, copied to the next buffer.
LeftOver == z.buf.len - z.start

\* The stream offset of the byte the reader puts at index j of the new buffer.
Delivered(j) == base + z.buf.len + j - LeftOver

Fails == MayFail /\ client = "peeks"

\* The outcomes of the read loop for a buffer of capacity cap: the number of
\* bytes in the buffer when it ends, and the reader's error.  The loop ends
\* when index want is reached or the reader returns an error.
LoopEnds(want, cap) ==
    {r \in [len : LeftOver..cap, err : {"nil", "EOF"} \cup (IF Fails THEN {"fail"} ELSE {})] :
        /\ Delivered(r.len) <= StreamLen
        /\ r.err = "nil" => r.len > want - z.start
        /\ r.err = "EOF" => Delivered(r.len) = StreamLen}

\* The state after read(want), as records of heap, z and base: one for each way
\* the reader may deliver.  With an error pending read does nothing.
AfterRead(want) ==
    IF z.err # "nil" THEN {[heap |-> heap, z |-> z, base |-> base]}
    ELSE LET size == WantedSize(want)
             old == [buf |-> z.buf.id, len |-> z.start]
             s == PoolSwap(PoolFree(z.pool, z.free), old, size)
             mem == IF s.id > Len(heap) THEN Append(heap, Buffer(size)) ELSE heap
             cap == mem[s.id].cap
             moved(r) == [j \in 0..(cap - 1) |->
                             IF j < LeftOver THEN heap[z.buf.id].data[z.start + j]
                             ELSE IF j < r.len THEN Delivered(j)
                             ELSE mem[s.id].data[j]]
         IN  {[heap |-> [mem EXCEPT ![s.id].data = moved(r)],
               z |-> [z EXCEPT !.pool = s.pool, !.free = 0, !.err = r.err,
                               !.pos = @ - z.start, !.start = 0,
                               !.buf = [id |-> s.id, len |-> r.len]],
               base |-> base + z.start] : r \in LoopEnds(want, cap)}

ReadStep(r) == heap' = r.heap /\ z' = r.z /\ base' = r.base

\* The byte at index i of the current buffer, 0 past its end.
ByteAt(mem, l, i) == IF i < l.buf.len THEN mem[l.buf.id].data[i] ELSE Zero

Peek(i) ==
    /\ \/ z.pos + i < z.buf.len /\ UNCHANGED <<heap, z, base>>
       \/ z.pos + i >= z.buf.len /\ \E r \in AfterRead(z.pos + i) : ReadStep(r)
    /\ out' = <<ByteAt(heap', z', z'.pos + i)>>
    /\ UNCHANGED <<client, freed, held>>

\* A client moves over bytes it has peeked; a blind one over any bytes of the
\* stream.  Moving back is Rewind.
Move(n) ==
    /\ z.pos + n <= (IF client = "blind" THEN StreamLen - base ELSE z.buf.len)
    /\ z' = [z EXCEPT !.pos = @ + n]
    /\ out' = Quiet
    /\ UNCHANGED <<heap, client, base, freed, held>>

Rewind(mark) ==
    /\ mark < z.pos - z.start
    /\ z' = [z EXCEPT !.pos = z.start + mark]
    /\ out' = Quiet
    /\ UNCHANGED <<heap, client, base, freed, held>>

\* The bytes [z.start, z.pos) leave the selection; the client may refer to
\* them through buffer memory (mem, l) until it frees them.
Release(mem, l, origin) ==
    held' = [k \in DOMAIN held \cup (origin + l.start)..(origin + l.pos - 1) |->
                IF k \in DOMAIN held THEN held[k]
                ELSE [buf |-> l.buf.id, idx |-> k - origin]]

\* The code of Skip has no condition; the client skips only what it has peeked at.
Skip ==
    /\ z.pos <= z.buf.len
    /\ z.pos > z.start
    /\ Release(heap, z, base)
    /\ z' = [z EXCEPT !.start = z.pos]
    /\ out' = Quiet
    /\ UNCHANGED <<heap, client, base, freed>>

\* Shift first reads when the client has moved past the buffered bytes.
Shift ==
    \E r \in IF z.pos > z.buf.len THEN AfterRead(z.pos - 1)
             ELSE {[heap |-> heap, z |-> z, base |-> base]} :
        /\ r.z.pos > r.z.start
        /\ heap' = r.heap /\ base' = r.base
        /\ z' = [r.z EXCEPT !.start = r.z.pos]
        /\ out' = [k \in 1..(r.z.pos - r.z.start) |->
                      r.heap[r.z.buf.id].data[r.z.start + k - 1]]
        /\ Release(r.heap, r.z, r.base)
        /\ UNCHANGED <<client, freed>>

\* What Err answers.
Err == IF z.err = "EOF" /\ z.pos < z.buf.len THEN "nil" ELSE z.err

\* ShiftLen answers ShiftLenResult and starts counting anew.
ShiftLenResult == z.start - z.prevStart

ShiftLen ==
    /\ z' = [z EXCEPT !.prevStart = z.start]
    /\ out' = Quiet
    /\ UNCHANGED <<heap, client, base, freed, held>>

\* A client frees no more than it has moved past.
Free(n) ==
    /\ freed + n <= base + z.start
    /\ z' = [z EXCEPT !.free = @ + n]
    /\ freed' = freed + n
    /\ held' = [k \in {k \in DOMAIN held : k >= freed'} |-> held[k]]
    /\ out' = Quiet
    /\ UNCHANGED <<heap, client, base>>

Next ==
    \/ \E i \in 0..MaxPeek : Peek(i)
    \/ \E n \in 1..StreamLen : Move(n)
    \/ \E mark \in 0..StreamLen : Rewind(mark)
    \/ Skip \/ Shift \/ ShiftLen
    \/ \E n \in 1..StreamLen : Free(n)

Spec == Init /\ [][Next]_vars
--------------------------------------------------------------------------------
(* Properties *)

BlockType == [buf : 1..Len(heap), len : 0..StreamLen, next : 0..Len(z.pool.blocks),
              active : BOOLEAN]

\* Every field has its type, the selection is ordered, and the buffered bytes
\* fit in their buffer (buffer/streamlexer.go:13-83).
TypeOK ==
    /\ \A id \in 1..Len(heap) :
          heap[id].data \in [0..(heap[id].cap - 1) -> Zero..(StreamLen - 1)]
    /\ client \in Clients
    /\ z.err \in {"nil", "EOF", "fail"}
    /\ z.buf.id \in 1..Len(heap)
    /\ z.buf.len \in 0..heap[z.buf.id].cap
    /\ z.pool.blocks \in Seq(BlockType)
    /\ z.pool.head \in 0..Len(z.pool.blocks) /\ z.pool.tail \in 0..Len(z.pool.blocks)
    /\ z.pool.pos \in 0..StreamLen /\ z.free \in 0..StreamLen
    /\ z.start \in 0..z.buf.len /\ z.pos \in z.start..StreamLen
    /\ z.prevStart \in 0..StreamLen
    /\ base \in 0..StreamLen /\ freed \in 0..(base + z.start)

\* A slice returned by Shift keeps its bytes until the client has freed them,
\* however often the lexer has switched buffers since: "retaining old buffers
\* in memory that are still in use" (README.md:26).
Retained == \A k \in DOMAIN held : heap[held[k].buf].data[held[k].idx] = k

\* The blocks in the order of the list: the k-th from the tail, then 0s.
PoolChain(p) ==
    LET chain[k \in 0..Len(p.blocks)] ==
            IF k = 0 THEN p.tail
            ELSE IF chain[k - 1] = 0 THEN 0 ELSE p.blocks[chain[k - 1]].next
    IN  chain

\* The active blocks are exactly the list from tail to head: head is the last
\* of them, an inactive block is not in it, and no block is in it twice
\* (bufferPool.swap and free, buffer/streamlexer.go:21-67).
PoolList ==
    LET p == z.pool
        chain == PoolChain(p)
        linked == {chain[k] : k \in 0..Len(p.blocks)} \ {0}
    IN  /\ linked = {i \in DOMAIN p.blocks : p.blocks[i].active}
        /\ p.head = 0 <=> p.tail = 0
        /\ p.head # 0 => p.head \in linked /\ p.blocks[p.head].next = 0
        /\ \A i \in linked : p.blocks[i].buf # z.buf.id
        /\ \A i, j \in DOMAIN p.blocks : i # j => p.blocks[i].buf # p.blocks[j].buf

\* Where in the stream the blocks of a chain begin, the first one at offset
\* from; after the last block, where it ends.
PoolBegins(p, chain, from) ==
    LET begin[k \in 0..Len(p.blocks)] ==
            IF k = 0 THEN from
            ELSE begin[k - 1] + (IF chain[k - 1] = 0 THEN 0 ELSE p.blocks[chain[k - 1]].len)
    IN  begin

\* The byte account of the pool balances: what free has been told, less the
\* position in the tail block, is the stream offset at which the tail block
\* begins, and the blocks of the list fill the stream from there to the current
\* buffer.
PoolAccount ==
    LET p == z.pool
    IN  PoolBegins(p, PoolChain(p), freed - z.free - p.pos)[Len(p.blocks)] = base

\* The pool's lists and account and all else the StreamLexer keeps are in order.
WellFormed == TypeOK /\ PoolList /\ PoolAccount

\* A read allocates only when it must: a client that has freed everything it
\* moved past gets a new buffer only if every buffer there is, is too small
\* ("re-using old buffers otherwise", README.md:26).
FreedIsReused ==
    [][(Len(heap') > Len(heap) /\ freed = base + z.start) =>
            \A id \in 1..Len(heap) : heap[id].cap < heap'[Len(heap')].cap]_vars

\* Peek, Move, Rewind, Skip and Shift are those of a cursor over the stream:
\* the memory management is invisible.
Cursor == INSTANCE StreamCursor WITH
              lo <- base + z.start, hi <- base + z.pos,
              seen <- base + z.buf.len, broken <- z.err = "fail",
              ended <- Err = "EOF"

IsCursor == Cursor!Spec
================================================================================
