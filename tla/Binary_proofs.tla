----------------------------- MODULE Binary_proofs -----------------------------
(***************************************************************************)
(* binary.go.  The mutex of the seeker keeps the file position right under *)
(* its holder, and the clones of a BinaryReader are independent cursors,   *)
(* for any number of clones, any file and any backend; a bitmap of any     *)
(* length, with bytes of any size, is read back as it was written, and     *)
(* neither side leaves its slice.                                          *)
(***************************************************************************)
EXTENDS BinaryReader, Bitmap, SequenceTheorems, TLAPS

\* Only the seeker's calls are ever under way; one that waits for the mutex or
\* for the file's Seek has not read anything, and what one has read is inside
\* the file.
ProgressCall(c, g) ==
    /\ c.pc # "idle" => g.kind = "seeker"
    /\ c.pc \in {"lock", "seek"} => c.got = <<>>
    /\ c.pc = "read" => c.q.off >= 0 /\ (c.got = <<>> \/ g.at <= Size)

Progress == \A r \in Readers : ProgressCall(call[r], f)

\* Aligned, of a call c of r and a backend g.
AlignedCall(r, c, g) ==
    /\ c.pc \in {"seek", "read"} <=> g.mu = r
    /\ c.pc = "read" =>
          /\ g.at = c.q.off + Len(c.got)
          /\ c.got = Run(c.q.off, Len(c.got))
          /\ Len(c.got) <= c.q.n

Inv == TypeOK /\ Aligned /\ Progress

--------------------------------------------------------------------------------
(* Runs of consecutive bytes *)

LEMMA RunType ==
    ASSUME NEW off \in Int, NEW k \in Nat, off >= 0 \/ k = 0
    PROVE  Run(off, k) \in Seq(Nat) /\ Len(Run(off, k)) = k
BY DEF Run

LEMMA RunAppend ==
    ASSUME NEW off \in Nat, NEW i \in Nat, NEW k \in Nat
    PROVE  Run(off, i) \o Run(off + i, k) = Run(off, i + k)
<1> DEFINE s == Run(off, i)  t == Run(off + i, k)  u == Run(off, i + k)
<1>1. s \in Seq(Nat) /\ Len(s) = i /\ \A j \in 1..i : s[j] = off + j - 1
  BY RunType DEF Run
<1>2. t \in Seq(Nat) /\ Len(t) = k /\ \A j \in 1..k : t[j] = off + i + j - 1
  BY RunType DEF Run
<1>3. u \in Seq(Nat) /\ Len(u) = i + k /\ \A j \in 1..(i + k) : u[j] = off + j - 1
  BY RunType DEF Run
<1> HIDE DEF s, t, u
<1>4. s \o t \in Seq(Nat) /\ Len(s \o t) = i + k
  BY <1>1, <1>2, ConcatProperties
<1>5. ASSUME NEW j \in 1..(i + k) PROVE (s \o t)[j] = u[j]
  <2>1. CASE j <= i
    <3>1. (s \o t)[j] = s[j]
      BY <1>1, <1>2, <2>1, ConcatProperties
    <3> QED BY <3>1, <2>1, <1>1, <1>3
  <2>2. CASE j > i
    <3>1. (s \o t)[j] = t[j - i] /\ j - i \in 1..k
      BY <1>1, <1>2, <2>2, ConcatProperties
    <3>2. t[j - i] = off + i + (j - i) - 1
      BY <1>2, <3>1
    <3> QED BY <3>1, <3>2, <1>3
  <2>3. j <= i \/ j > i
    OBVIOUS
  <2> QED BY <2>1, <2>2, <2>3, Zenon
<1>6. s \o t = u
  BY <1>3, <1>4, <1>5, SeqEqual
<1> QED BY <1>6 DEF s, t, u

--------------------------------------------------------------------------------
(* What every backend answers *)

\* A reply to a request for n bytes at offset off that tells the truth.
Honest(n, off, reply) ==
    /\ reply.err \in Errors
    /\ \E k \in 0..n :
          /\ reply.bytes = Run(off, k)
          /\ k = 0 \/ (0 <= off /\ off + k <= Size)
          /\ k < n => reply.err # "nil"
          /\ reply.err = "EOF" => off + k >= Size

LEMMA EmptyRun == ASSUME NEW off PROVE Run(off, 0) = <<>>
BY DEF Run

LEMMA NilHonest ==
    ASSUME NEW n \in Nat, NEW off \in Int, NEW e \in Errors,
           n > 0 => e # "nil", e = "EOF" => off >= Size
    PROVE  Honest(n, off, NilReply(e))
BY EmptyRun, BinaryReaderAssumption DEF Honest, NilReply

LEMMA FilledHonest ==
    ASSUME NEW n \in Nat, NEW off \in Int, NEW reply \in Filled(n, off)
    PROVE  Honest(n, off, reply)
<1>1. PICK o \in Outcomes(n, off) : reply = Reply(Run(off, o.k), o.err) /\ (o.k < n => o.err # "nil")
  BY DEF Filled
<1>2. o.k \in 0..n /\ o.err \in Errors
  BY DEF Outcomes
<1>3. o.k = 0 \/ (0 <= off /\ off + o.k <= Size)
  BY <1>2 DEF Outcomes
<1>4. o.err = "EOF" => off + o.k >= Size
  BY DEF Outcomes
<1> QED BY <1>1, <1>2, <1>3, <1>4 DEF Honest, Reply

LEMMA SliceHonest ==
    ASSUME NEW n \in Nat, NEW off \in Nat
    PROVE  /\ Honest(n, off, Slice(n, off, Size - off < n))
           /\ Honest(n, off, Slice(n, off, Size - off <= n))
<1> USE BinaryReaderAssumption
<1>1. CASE off >= Size
  <2>1. Honest(n, off, NilReply("EOF"))
    BY <1>1, NilHonest DEF Errors
  <2> QED BY <2>1, <1>1 DEF Slice
<1>2. CASE off < Size
  <2>1. Size - off <= n => Honest(n, off, Reply(Run(off, Size - off), "EOF"))
    <3>1. Size - off <= n => Size - off \in 0..n /\ off + (Size - off) = Size
      BY <1>2
    <3> QED BY <3>1, <1>2 DEF Honest, Reply, Errors
  <2>2. n <= Size - off => Honest(n, off, Reply(Run(off, n), "nil"))
    BY <1>2 DEF Honest, Reply, Errors
  <2>3. Honest(n, off, Slice(n, off, Size - off < n))
    <3>1. CASE Size - off < n
      BY <3>1, <2>1, <1>2 DEF Slice
    <3>2. CASE ~(Size - off < n)
      BY <3>2, <2>2, <1>2 DEF Slice
    <3> QED BY <3>1, <3>2
  <2>4. Honest(n, off, Slice(n, off, Size - off <= n))
    <3>1. CASE Size - off <= n
      BY <3>1, <2>1, <1>2 DEF Slice
    <3>2. CASE ~(Size - off <= n)
      BY <3>2, <2>2, <1>2 DEF Slice
    <3> QED BY <3>1, <3>2
  <2> QED BY <2>3, <2>4
<1> QED BY <1>1, <1>2

LEMMA RepliesHonest ==
    ASSUME NEW n \in Nat, NEW off \in Int, f.at \in Nat, f.kind \in Kinds, f.kind # "seeker",
           NEW reply \in Replies(n, off)
    PROVE  Honest(n, off, reply)
<1> USE BinaryReaderAssumption
<1>1. CASE f.kind = "bytes"
  <2>1. reply = FromBytes(n, off)
    BY <1>1 DEF Replies
  <2>2. CASE off < 0
    BY <2>1, <2>2, NilHonest DEF FromBytes, Errors
  <2>3. CASE off >= 0 /\ n = 0
    BY <2>1, <2>3, NilHonest DEF FromBytes, Errors
  <2>4. CASE off >= 0 /\ n # 0
    <3>1. reply = Slice(n, off, Size - off < n)
      BY <2>1, <2>4 DEF FromBytes
    <3> QED BY <3>1, <2>4, SliceHonest
  <2> QED BY <2>2, <2>3, <2>4
<1>2. CASE f.kind = "mmap"
  <2>1. reply = FromMmap(n, off)
    BY <1>2 DEF Replies
  <2>2. CASE f.closed \/ off < 0
    BY <2>1, <2>2, NilHonest DEF FromMmap, Errors
  <2>3. CASE ~(f.closed \/ off < 0)
    <3>1. reply = Slice(n, off, Size - off <= n)
      BY <2>1, <2>3 DEF FromMmap
    <3> QED BY <3>1, <2>3, SliceHonest
  <2> QED BY <2>2, <2>3
<1>3. CASE f.kind = "reader"
  <2>1. reply \in FromReader(n, off)
    BY <1>3 DEF Replies
  <2> QED BY <2>1, NilHonest, FilledHonest DEF FromReader, Errors
<1>4. CASE f.kind = "readerAt"
  <2>1. reply \in FromReaderAt(n, off)
    BY <1>4 DEF Replies
  <2> QED BY <2>1, NilHonest, FilledHonest DEF FromReaderAt, Errors
<1> QED BY <1>1, <1>2, <1>3, <1>4

--------------------------------------------------------------------------------
(* The end of a call *)

LEMMA RequestType ==
    ASSUME TypeOK, NEW r \in Readers, NEW q \in Requests(r)
    PROVE  /\ q \in [op : Ops, n : Nat, off : Int]
           /\ q.n \in Lengths \cup {1, 2}
           /\ q.op = "ReadAt" => q.off \in Offsets
           /\ q.op # "ReadAt" => q.off = pos[r]
<1>1. q \in [op : Ops, n : Lengths \cup {1, 2}, off : Offsets \cup {pos[r]}]
  BY DEF Requests
<1>2. IF q.op = "ReadAt" THEN q.off \in Offsets ELSE q.off = pos[r]
  BY DEF Requests
<1>3. pos[r] \in Int
  BY DEF TypeOK
<1>4. Lengths \subseteq Nat /\ Offsets \subseteq Int
  BY BinaryReaderAssumption
<1> HIDE DEF Requests, TypeOK
<1>5. q.op \in Ops /\ q.n \in Lengths \cup {1, 2} /\ q.off \in Offsets \cup {pos[r]}
  BY <1>1
<1>6. q.n \in Nat
  <2>1. \A n \in Lengths : n \in Nat
    BY <1>4, Zenon
  <2>2. q.n \in Lengths \/ q.n = 1 \/ q.n = 2
    BY <1>5, Zenon
  <2> QED BY <2>1, <2>2
<1>9. q.off \in Int
  <2>1. \A off \in Offsets : off \in Int
    BY <1>4, Zenon
  <2>2. q.off \in Offsets \/ q.off = pos[r]
    BY <1>5, Zenon
  <2> QED BY <1>3, <2>1, <2>2
<1>7. q = [op |-> q.op, n |-> q.n, off |-> q.off]
  BY <1>1
<1>8. q \in [op : Ops, n : Nat, off : Int]
  BY <1>5, <1>6, <1>7, <1>9
<1> QED BY <1>2, <1>5, <1>8, Zenon

LEMMA SameRequests ==
    ASSUME NEW r \in Readers, pos'[r] = pos[r]
    PROVE  Requests(r)' = Requests(r)
BY DEF Requests

LEMMA FinishType ==
    ASSUME TypeOK, NEW r \in Readers, NEW q \in Requests(r), NEW reply,
           Honest(q.n, q.off, reply), Finish(r, q, reply)
    PROVE  /\ pos' \in [Readers -> Nat] /\ err' \in [Readers -> Errors]
           /\ value' \in {"none", "bytes", "zero", "panic"}
           /\ \A s \in Readers \ {r} : pos'[s] = pos[s]
<1>1. q \in [op : Ops, n : Nat, off : Int]
  BY RequestType
<1>2. PICK k \in 0..q.n : reply.bytes = Run(q.off, k) /\ (k = 0 \/ 0 <= q.off)
  BY <1>1 DEF Honest
<1>3. Len(reply.bytes) \in Nat
  BY <1>1, <1>2, RunType
<1>4. pos' \in [Readers -> Nat] /\ \A s \in Readers \ {r} : pos'[s] = pos[s]
  BY <1>3 DEF Finish, TypeOK
<1>5. err' \in [Readers -> Errors]
  BY DEF Finish, TypeOK, Honest, FirstError
<1>6. value' \in {"none", "bytes", "zero", "panic"}
  BY DEF Finish, Made
<1> QED BY <1>4, <1>5, <1>6

LEMMA FinishStep ==
    ASSUME TypeOK, NEW r \in Readers, NEW q \in Requests(r), NEW reply,
           Honest(q.n, q.off, reply), Finish(r, q, reply)
    PROVE  Cursors!Next
<1> DEFINE n == q.n  off == q.off  e == reply.err
<1>1. /\ q \in [op : Ops, n : Nat, off : Int]
      /\ n \in Lengths \cup {1, 2}
      /\ q.op = "ReadAt" => off \in Offsets
      /\ q.op # "ReadAt" => off = pos[r]
  BY RequestType
<1>2. e \in Cursors!Errors
  BY DEF Honest, Errors, Cursors!Errors
<1>3. PICK k \in 0..n : /\ reply.bytes = Run(off, k)
                        /\ k = 0 \/ (0 <= off /\ off + k <= Size)
                        /\ k < n => e # "nil"
                        /\ e = "EOF" => off + k >= Size
  BY DEF Honest
<1>4. Len(reply.bytes) = k /\ k \in Nat
  BY <1>1, <1>3, RunType
<1>5. out' = [bytes |-> Run(off, k), err |-> e]
  BY <1>3 DEF Finish
<1>6. Cursors!Answer(n, off, k, e)
  BY <1>3, <1>5 DEF Cursors!Answer, Run
<1>7. CASE q.op = "ReadAt"
  <2>1. UNCHANGED <<pos, err>>
    BY <1>7 DEF Finish
  <2>2. Cursors!ReadAt(r)
    BY <1>1, <1>2, <1>6, <1>7, <2>1 DEF Cursors!ReadAt
  <2> QED BY <2>2 DEF Cursors!Next
<1>8. CASE q.op = "Read"
  <2>1. pos' = [pos EXCEPT ![r] = @ + k] /\ err' = err
    BY <1>4, <1>8 DEF Finish
  <2>2. Cursors!Read(r)
    BY <1>1, <1>2, <1>6, <1>8, <2>1 DEF Cursors!Read
  <2> QED BY <2>2 DEF Cursors!Next
<1>9. CASE q.op \notin {"ReadAt", "Read"}
  <2>1. /\ pos' = [pos EXCEPT ![r] = @ + k]
        /\ err' = [err EXCEPT ![r] = IF @ = "nil" THEN e ELSE @]
    BY <1>4, <1>9 DEF Finish, FirstError
  <2>2. Cursors!ReadBytes(r)
    BY <1>1, <1>2, <1>6, <1>9, <2>1 DEF Cursors!ReadBytes
  <2> QED BY <2>2 DEF Cursors!Next
<1> QED BY <1>7, <1>8, <1>9

--------------------------------------------------------------------------------
(* A call on the seeker *)

LEMMA CallType ==
    ASSUME TypeOK, NEW r \in Readers, call[r].pc # "idle"
    PROVE  /\ call[r] \in Pending
           /\ call[r].q \in Requests(r)
           /\ call[r].q \in [op : Ops, n : Nat, off : Int]
           /\ call[r].got \in Seq(Nat) /\ Len(call[r].got) \in Nat
<1>1. call[r] \in Pending
  BY DEF TypeOK, Idle
<1>2. call[r].q \in Requests(r)
  BY DEF TypeOK
<1>3. call[r].q \in [op : Ops, n : Nat, off : Int] /\ call[r].got \in Seq(Nat)
  BY <1>1 DEF Pending
<1> QED BY <1>1, <1>2, <1>3

\* After one turn of the loop the bytes are still consecutive and in the file,
\* and a turn that ends the loop ends it with an honest reply.
LEMMA ChunkHonest ==
    ASSUME Inv, NEW r \in Readers, call[r].pc = "read", Len(call[r].got) < call[r].q.n,
           NEW o \in Outcomes(call[r].q.n - Len(call[r].got), f.at), NEW e,
           e = IF o.err = "nil" THEN "fail" ELSE o.err
    PROVE  LET q == call[r].q
               len == Len(call[r].got) + o.k
               has == call[r].got \o Run(f.at, o.k)
           IN  /\ o.k \in Nat /\ len \in 0..q.n
               /\ f.at = q.off + Len(call[r].got) /\ q.off \in Nat
               /\ has = Run(q.off, len) /\ has \in Seq(Nat) /\ Len(has) = len
               /\ has = <<>> \/ f.at + o.k <= Size
               /\ Honest(q.n, q.off, Reply(has, e))
<1> DEFINE q == call[r].q  i == Len(call[r].got)  has == call[r].got \o Run(f.at, o.k)
<1>1. /\ q \in [op : Ops, n : Nat, off : Int]
      /\ call[r].got \in Seq(Nat) /\ i \in Nat
  BY CallType DEF Inv
<1>2. q.n \in Nat /\ q.off \in Nat /\ (call[r].got = <<>> \/ f.at <= Size)
  BY <1>1 DEF Inv, Progress, ProgressCall
<1>3. f.at = q.off + i /\ call[r].got = Run(q.off, i)
  BY DEF Inv, Aligned
<1>4. /\ o.k \in 0..(q.n - i) /\ o.err \in Errors
      /\ o.k = 0 \/ f.at + o.k <= Size
      /\ o.err = "EOF" => f.at + o.k >= Size
  BY DEF Outcomes
<1>5. o.k \in Nat /\ i + o.k \in 0..q.n
  BY <1>1, <1>2, <1>4
<1>6. has = Run(q.off, i + o.k)
  <2>1. Run(q.off, i) \o Run(q.off + i, o.k) = Run(q.off, i + o.k)
    BY <1>1, <1>2, <1>5, RunAppend
  <2> QED BY <1>3, <2>1, Zenon
<1>7. has \in Seq(Nat) /\ Len(has) = i + o.k
  <2>1. i + o.k \in Nat
    BY <1>1, <1>5
  <2>2. q.off \in Int /\ q.off >= 0
    BY <1>2
  <2> HIDE DEF has, i, q
  <2>3. Run(q.off, i + o.k) \in Seq(Nat) /\ Len(Run(q.off, i + o.k)) = i + o.k
    BY <2>1, <2>2, RunType
  <2> QED BY <1>6, <2>3, Zenon
<1>8. has = <<>> \/ f.at + o.k <= Size
  <2>1. CASE o.k = 0 /\ call[r].got = <<>>
    <3>1. Len(has) = 0
      BY <2>1, <1>7
    <3> HIDE DEF has
    <3> QED BY <3>1, <1>7
  <2>2. CASE o.k = 0 /\ call[r].got # <<>>
    <3>1. f.at <= Size /\ f.at \in Int
      BY <2>2, <1>1, <1>2, <1>3
    <3>2. f.at + o.k = f.at
      BY <2>2, <3>1
    <3> QED BY <3>1, <3>2
  <2>3. CASE o.k # 0
    BY <2>3, <1>4
  <2> QED BY <2>1, <2>2, <2>3
<1>9. Honest(q.n, q.off, Reply(has, e))
  <2> HIDE DEF has
  <2>1. e \in Errors /\ e # "nil"
    BY <1>4 DEF Errors
  <2>2. i + o.k = 0 \/ (0 <= q.off /\ q.off + (i + o.k) <= Size)
    <3>1. CASE has = <<>>
      BY <3>1, <1>7
    <3>2. CASE f.at + o.k <= Size
      BY SMTT(30), <3>2, <1>1, <1>2, <1>3, <1>5
    <3> QED BY <3>1, <3>2, <1>8
  <2>3. e = "EOF" => q.off + (i + o.k) >= Size
    BY SMTT(30), <1>1, <1>2, <1>3, <1>4, <1>5
  <2> QED BY <1>5, <1>6, <2>1, <2>2, <2>3 DEF Honest, Reply
<1> QED BY <1>2, <1>3, <1>5, <1>6, <1>7, <1>8, <1>9

LEMMA ReturnHonest ==
    ASSUME Inv, NEW r \in Readers, call[r].pc = "read", Len(call[r].got) = call[r].q.n
    PROVE  Honest(call[r].q.n, call[r].q.off, Reply(call[r].got, "nil"))
<1> DEFINE q == call[r].q
<1>1. q \in [op : Ops, n : Nat, off : Int] /\ call[r].got \in Seq(Nat)
  BY CallType DEF Inv
<1>2. q.off >= 0 /\ (call[r].got = <<>> \/ f.at <= Size)
  BY DEF Inv, Progress, ProgressCall
<1>3. f.at = q.off + q.n /\ call[r].got = Run(q.off, q.n)
  BY DEF Inv, Aligned
<1>4. q.n = 0 \/ (0 <= q.off /\ q.off + q.n <= Size)
  <2>1. CASE call[r].got = <<>>
    BY <2>1
  <2>2. CASE f.at <= Size
    BY <2>2, <1>2, <1>3
  <2> QED BY <1>2, <2>1, <2>2
<1>5. q.n \in 0..q.n
  BY <1>1
<1> QED BY <1>3, <1>4, <1>5 DEF Honest, Reply, Errors

--------------------------------------------------------------------------------
(* The inductive invariant *)

LEMMA AlignedCalls == Aligned <=> \A r \in Readers : AlignedCall(r, call[r], f)
BY DEF Aligned, AlignedCall

LEMMA AlignedCallsNext == Aligned' <=> \A r \in Readers : AlignedCall(r, call'[r], f')
BY DEF Aligned, AlignedCall

LEMMA ProgressNext == Progress' <=> \A r \in Readers : ProgressCall(call'[r], f')
BY DEF Progress, ProgressCall

\* A step of r that makes c of its call and leaves the others' calls alone.
LEMMA OwnStep ==
    ASSUME Inv, NEW r \in Readers, NEW c, call' = [call EXCEPT ![r] = c],
           f'.kind = f.kind,
           \A s \in Readers \ {r} : /\ f'.mu = s <=> f.mu = s
                                    /\ call[s].pc = "read" => f'.at = f.at,
           AlignedCall(r, c, f'), ProgressCall(c, f')
    PROVE  Aligned' /\ Progress'
<1>1. call \in [Readers -> {Idle} \cup Pending]
  BY DEF Inv, TypeOK
<1>2. call'[r] = c /\ \A s \in Readers \ {r} : call'[s] = call[s]
  BY <1>1
<1>3. ASSUME NEW s \in Readers PROVE AlignedCall(s, call'[s], f')
  <2>1. CASE s = r
    BY <1>2, <2>1
  <2>2. CASE s # r
    <3>1. AlignedCall(s, call[s], f)
      BY AlignedCalls DEF Inv
    <3>2. call'[s] = call[s] /\ (f'.mu = s <=> f.mu = s) /\ (call[s].pc = "read" => f'.at = f.at)
      BY <1>2, <2>2
    <3> QED BY <3>1, <3>2 DEF AlignedCall
  <2> QED BY <2>1, <2>2
<1>4. ASSUME NEW s \in Readers PROVE ProgressCall(call'[s], f')
  <2>1. CASE s = r
    BY <1>2, <2>1
  <2>2. CASE s # r
    <3>1. ProgressCall(call[s], f)
      BY DEF Inv, Progress
    <3>2. call'[s] = call[s] /\ (call[s].pc = "read" => f'.at = f.at)
      BY <1>2, <2>2
    <3> QED BY <3>1, <3>2 DEF ProgressCall
  <2> QED BY <2>1, <2>2
<1> QED BY <1>3, <1>4, AlignedCallsNext, ProgressNext

\* A step between calls leaves every call as it is.
LEMMA QuietCalls ==
    ASSUME Inv, call' = call, f'.kind = f.kind, f'.mu = f.mu,
           f.kind = "seeker" => f'.at = f.at
    PROVE  Aligned' /\ Progress'
<1>1. ASSUME NEW s \in Readers
      PROVE  AlignedCall(s, call'[s], f') /\ ProgressCall(call'[s], f')
  <2>1. AlignedCall(s, call[s], f) /\ ProgressCall(call[s], f)
    BY AlignedCalls DEF Inv, Progress
  <2>2. call[s].pc = "read" => f'.at = f.at
    BY <2>1 DEF ProgressCall
  <2> QED BY <2>1, <2>2 DEF AlignedCall, ProgressCall
<1> QED BY <1>1, AlignedCallsNext, ProgressNext

FType == [kind : Kinds, len : {Size} \cup Told, closed : BOOLEAN, at : Nat,
          mu : Readers \cup {NoOne}]

LEMMA TypeStep ==
    ASSUME TypeOK, NEW r \in Readers, NEW c \in {Idle} \cup Pending,
           call' = [call EXCEPT ![r] = c],
           c.pc # "idle" => c.q \in Requests(r)',
           f' \in FType, pos' \in [Readers -> Nat], err' \in [Readers -> Errors],
           value' \in {"none", "bytes", "zero", "panic"},
           \A s \in Readers \ {r} : pos'[s] = pos[s]
    PROVE  TypeOK'
<1>1. call \in [Readers -> {Idle} \cup Pending]
  BY DEF TypeOK
<1>2. call' \in [Readers -> {Idle} \cup Pending]
  BY <1>1
<1>3. ASSUME NEW s \in Readers, call'[s].pc # "idle" PROVE call'[s].q \in Requests(s)'
  <2>1. CASE s = r
    BY <1>1, <1>3, <2>1
  <2>2. CASE s # r
    <3>1. call'[s] = call[s] /\ pos'[s] = pos[s]
      BY <1>1, <2>2
    <3>2. call[s].q \in Requests(s)
      BY <1>3, <3>1 DEF TypeOK
    <3> QED BY <3>1, <3>2, SameRequests
  <2> QED BY <2>1, <2>2
<1> QED BY <1>2, <1>3 DEF TypeOK, FType

LEMMA LeaveStep ==
    ASSUME Inv, NEW r \in Readers, call[r].pc \in {"seek", "read"}, NEW at \in Nat, NEW reply,
           Honest(call[r].q.n, call[r].q.off, reply), Leave(r, at, reply)
    PROVE  Inv' /\ Cursors!Next
<1>1. call[r].q \in Requests(r)
  BY CallType DEF Inv
<1>2. f' = [f EXCEPT !.mu = NoOne, !.at = at] /\ call' = [call EXCEPT ![r] = Idle]
      /\ Finish(r, call[r].q, reply)
  BY DEF Leave
<1>3. f \in FType /\ TypeOK
  BY DEF Inv, TypeOK, FType
<1>4. f' \in FType /\ f'.mu = NoOne /\ f'.kind = f.kind
  BY <1>2, <1>3 DEF FType
<1>5. TypeOK'
  <2>1. /\ pos' \in [Readers -> Nat] /\ err' \in [Readers -> Errors]
        /\ value' \in {"none", "bytes", "zero", "panic"}
        /\ \A s \in Readers \ {r} : pos'[s] = pos[s]
    BY <1>1, <1>2, <1>3, FinishType
  <2>2. Idle.pc = "idle"
    BY DEF Idle
  <2> QED BY <1>2, <1>3, <1>4, <2>1, <2>2, TypeStep
<1>6. Aligned' /\ Progress'
  <2>1. f.mu = r
    BY AlignedCalls DEF Inv, AlignedCall
  <2>2. ASSUME NEW s \in Readers \ {r}
        PROVE  (f'.mu = s <=> f.mu = s) /\ (call[s].pc = "read" => f'.at = f.at)
    <3>1. call[s].pc # "read"
      BY <2>1, AlignedCalls DEF Inv, AlignedCall
    <3> QED BY <1>4, <2>1, <3>1, BinaryReaderAssumption
  <2>3. AlignedCall(r, Idle, f') /\ ProgressCall(Idle, f')
    BY <1>4, BinaryReaderAssumption DEF Idle, AlignedCall, ProgressCall
  <2> QED BY <1>2, <1>4, <2>2, <2>3, OwnStep
<1>7. Cursors!Next
  BY <1>1, <1>2, <1>3, FinishStep
<1> QED BY <1>5, <1>6, <1>7 DEF Inv

LEMMA SeekFailsStep ==
    ASSUME Inv, NEW r \in Readers, SeekFails(r)
    PROVE  Inv' /\ Cursors!Next
<1>1. call[r].pc = "seek" /\ Leave(r, f.at, NilReply("fail"))
  BY DEF SeekFails
<1>2. call[r].q \in [op : Ops, n : Nat, off : Int]
  BY <1>1, CallType DEF Inv
<1>3. Honest(call[r].q.n, call[r].q.off, NilReply("fail"))
  BY <1>2, NilHonest DEF Errors
<1>4. f.at \in Nat
  BY DEF Inv, TypeOK
<1> QED BY <1>1, <1>3, <1>4, LeaveStep

LEMMA ReturnStep ==
    ASSUME Inv, NEW r \in Readers, Return(r)
    PROVE  Inv' /\ Cursors!Next
<1>1. /\ call[r].pc = "read" /\ Len(call[r].got) = call[r].q.n
      /\ Leave(r, f.at, Reply(call[r].got, "nil"))
  BY DEF Return
<1>2. f.at \in Nat
  BY DEF Inv, TypeOK
<1> QED BY <1>1, <1>2, ReturnHonest, LeaveStep

LEMMA WorkStep ==
    ASSUME Quiet, UNCHANGED <<pos, err>>
    PROVE  Cursors!Next
BY DEF Quiet, Cursors!Next, Cursors!Work

LEMMA ReadChunkStep ==
    ASSUME Inv, NEW r \in Readers, ReadChunk(r)
    PROVE  Inv' /\ Cursors!Next
<1> DEFINE q == call[r].q  i == Len(call[r].got)
<1>1. call[r].pc = "read" /\ i < q.n
  BY DEF ReadChunk
<1>2. PICK o \in Outcomes(q.n - i, f.at) :
        LET has == call[r].got \o Run(f.at, o.k) IN
        \/ /\ GoesOn(o)
           /\ f' = [f EXCEPT !.at = @ + o.k]
           /\ call' = [call EXCEPT ![r].got = has]
           /\ Quiet /\ UNCHANGED <<pos, err>>
        \/ /\ ~GoesOn(o)
           /\ Leave(r, f.at + o.k, Reply(has, IF o.err = "nil" THEN "fail" ELSE o.err))
  BY DEF ReadChunk
<1> DEFINE has == call[r].got \o Run(f.at, o.k)
           e == IF o.err = "nil" THEN "fail" ELSE o.err
<1>3. /\ o.k \in Nat /\ i + o.k \in 0..q.n
      /\ f.at = q.off + i /\ q.off \in Nat
      /\ has = Run(q.off, i + o.k) /\ has \in Seq(Nat) /\ Len(has) = i + o.k
      /\ has = <<>> \/ f.at + o.k <= Size
      /\ Honest(q.n, q.off, Reply(has, e))
  BY <1>1, ChunkHonest
<1>4. f \in FType /\ TypeOK /\ call[r] \in Pending /\ q \in Requests(r) /\ i \in Nat
  BY <1>1, CallType DEF Inv, TypeOK, FType
<1>5. f.at \in Nat
  BY <1>4 DEF FType
<1> HIDE DEF has, e
<1>6. CASE GoesOn(o)
  <2>1. /\ f' = [f EXCEPT !.at = @ + o.k]
        /\ call' = [call EXCEPT ![r].got = has]
        /\ Quiet /\ UNCHANGED <<pos, err>>
    BY <1>2, <1>6 DEF has
  <2> DEFINE c == [call[r] EXCEPT !.got = has]
  <2>2. /\ c \in Pending /\ c.pc = "read" /\ c.q = q /\ c.got = has
        /\ call' = [call EXCEPT ![r] = c]
    <3>1. c \in Pending /\ c.pc = "read" /\ c.q = q /\ c.got = has
      BY <1>1, <1>3, <1>4 DEF Pending
    <3>2. call' = [call EXCEPT ![r] = c]
      BY <2>1
    <3> QED BY <3>1, <3>2
  <2> HIDE DEF c
  <2>3. f' \in FType /\ f'.kind = f.kind /\ f'.mu = f.mu /\ f'.at = f.at + o.k
    <3>1. f.at + o.k \in Nat
      BY <1>3, <1>5
    <3>2. f' = [f EXCEPT !.at = f.at + o.k]
      BY <2>1
    <3>3. f \in FType
      BY <1>4
    <3> QED BY <3>1, <3>2, <3>3 DEF FType
  <2>4. TypeOK'
    <3>1. c.q \in Requests(r)'
      BY <1>4, <2>1, <2>2, SameRequests
    <3>2. pos' \in [Readers -> Nat] /\ err' \in [Readers -> Errors]
      BY <1>4, <2>1 DEF TypeOK
    <3>3. value' \in {"none", "bytes", "zero", "panic"}
      BY <2>1 DEF Quiet
    <3> QED BY <1>4, <2>1, <2>2, <2>3, <3>1, <3>2, <3>3, TypeStep
  <2>5. Aligned' /\ Progress'
    <3>1. f.mu = r /\ f.kind = "seeker"
      BY <1>1, AlignedCalls DEF Inv, AlignedCall, Progress, ProgressCall
    <3>2. ASSUME NEW s \in Readers \ {r}
          PROVE  (f'.mu = s <=> f.mu = s) /\ (call[s].pc = "read" => f'.at = f.at)
      <4>1. call[s].pc # "read"
        BY <3>1, AlignedCalls DEF Inv, AlignedCall
      <4> QED BY <2>3, <4>1
    <3>3. AlignedCall(r, c, f')
      <4>1. f'.at = q.off + Len(has)
        BY <1>3, <1>4, <2>3
      <4> QED BY <1>3, <2>2, <2>3, <3>1, <4>1 DEF AlignedCall
    <3>4. ProgressCall(c, f')
      BY <1>3, <2>2, <2>3, <3>1 DEF ProgressCall
    <3> QED BY <2>2, <2>3, <3>2, <3>3, <3>4, OwnStep
  <2> QED BY <2>1, <2>4, <2>5, WorkStep DEF Inv
<1>7. CASE ~GoesOn(o)
  <2>1. Leave(r, f.at + o.k, Reply(has, e))
    BY <1>2, <1>7 DEF has, e
  <2>2. f.at + o.k \in Nat
    BY <1>3, <1>5
  <2> QED BY <1>1, <1>3, <2>1, <2>2, LeaveStep
<1> QED BY <1>6, <1>7

LEMMA SeekFileStep ==
    ASSUME Inv, NEW r \in Readers, SeekFile(r)
    PROVE  Inv' /\ Cursors!Next
<1> DEFINE c == [call[r] EXCEPT !.pc = "read"]
<1>1. /\ call[r].pc = "seek" /\ call[r].q.off >= 0
      /\ f' = [f EXCEPT !.at = call[r].q.off]
      /\ call' = [call EXCEPT ![r] = c]
      /\ Quiet /\ UNCHANGED <<pos, err>>
  BY DEF SeekFile
<1>2. /\ f \in FType /\ TypeOK /\ call[r] \in Pending /\ call[r].q \in Requests(r)
      /\ call[r].q.off \in Nat /\ call[r].q.n \in Nat
  BY <1>1, CallType DEF Inv, TypeOK, FType
<1>3. /\ f.mu = r /\ f.kind = "seeker" /\ call[r].got = <<>>
  BY <1>1, AlignedCalls DEF Inv, AlignedCall, Progress, ProgressCall
<1>4. c \in Pending /\ c.pc = "read" /\ c.q = call[r].q /\ c.got = <<>>
  BY <1>2, <1>3 DEF Pending
<1>5. f' \in FType /\ f'.kind = f.kind /\ f'.mu = f.mu /\ f'.at = call[r].q.off
  BY <1>1, <1>2 DEF FType
<1> HIDE DEF c
<1>6. TypeOK'
  <2>1. c.q \in Requests(r)'
    BY <1>1, <1>2, <1>4, SameRequests
  <2>2. /\ pos' \in [Readers -> Nat] /\ err' \in [Readers -> Errors]
        /\ value' \in {"none", "bytes", "zero", "panic"}
    BY <1>1, <1>2 DEF TypeOK, Quiet
  <2> QED BY <1>1, <1>2, <1>4, <1>5, <2>1, <2>2, TypeStep
<1>7. Aligned' /\ Progress'
  <2>1. ASSUME NEW s \in Readers \ {r}
        PROVE  (f'.mu = s <=> f.mu = s) /\ (call[s].pc = "read" => f'.at = f.at)
    <3>1. call[s].pc # "read"
      BY <1>3, AlignedCalls DEF Inv, AlignedCall
    <3> QED BY <1>5, <3>1
  <2>2. AlignedCall(r, c, f')
    BY <1>2, <1>3, <1>4, <1>5, EmptyRun DEF AlignedCall
  <2>3. ProgressCall(c, f')
    BY <1>1, <1>3, <1>4, <1>5 DEF ProgressCall
  <2> QED BY <1>1, <1>5, <2>1, <2>2, <2>3, OwnStep
<1> QED BY <1>1, <1>6, <1>7, WorkStep DEF Inv

LEMMA LockStep ==
    ASSUME Inv, NEW r \in Readers, Lock(r)
    PROVE  Inv' /\ Cursors!Next
<1> DEFINE c == [call[r] EXCEPT !.pc = "seek"]
<1>1. /\ call[r].pc = "lock" /\ f.mu = NoOne
      /\ f' = [f EXCEPT !.mu = r]
      /\ call' = [call EXCEPT ![r] = c]
      /\ Quiet /\ UNCHANGED <<pos, err>>
  BY DEF Lock, CanLock
<1>2. f \in FType /\ TypeOK /\ call[r] \in Pending /\ call[r].q \in Requests(r)
  BY <1>1, CallType DEF Inv, TypeOK, FType
<1>3. f.kind = "seeker" /\ call[r].got = <<>>
  BY <1>1 DEF Inv, Progress, ProgressCall
<1>4. c \in Pending /\ c.pc = "seek" /\ c.q = call[r].q /\ c.got = <<>>
  BY <1>2, <1>3 DEF Pending
<1>5. f' \in FType /\ f'.kind = f.kind /\ f'.mu = r /\ f'.at = f.at
  BY <1>1, <1>2 DEF FType
<1> HIDE DEF c
<1>6. TypeOK'
  <2>1. c.q \in Requests(r)'
    BY <1>1, <1>2, <1>4, SameRequests
  <2>2. /\ pos' \in [Readers -> Nat] /\ err' \in [Readers -> Errors]
        /\ value' \in {"none", "bytes", "zero", "panic"}
    BY <1>1, <1>2 DEF TypeOK, Quiet
  <2> QED BY <1>1, <1>2, <1>4, <1>5, <2>1, <2>2, TypeStep
<1>7. Aligned' /\ Progress'
  <2>1. ASSUME NEW s \in Readers \ {r}
        PROVE  (f'.mu = s <=> f.mu = s) /\ (call[s].pc = "read" => f'.at = f.at)
    BY <1>1, <1>5, BinaryReaderAssumption
  <2>2. AlignedCall(r, c, f') /\ ProgressCall(c, f')
    BY <1>3, <1>4, <1>5 DEF AlignedCall, ProgressCall
  <2> QED BY <1>1, <1>5, <2>1, <2>2, OwnStep
<1> QED BY <1>1, <1>6, <1>7, WorkStep DEF Inv

\* A step between calls that keeps the types keeps the invariant.
LEMMA BetweenCalls ==
    ASSUME Inv, call' = call, f' \in FType, f'.kind = f.kind, f'.mu = f.mu,
           f.kind = "seeker" => f'.at = f.at,
           pos' \in [Readers -> Nat], err' \in [Readers -> Errors],
           value' \in {"none", "bytes", "zero", "panic"},
           \A s \in Readers : call[s].pc = "idle" \/ pos'[s] = pos[s]
    PROVE  Inv'
<1>1. Aligned' /\ Progress'
  BY QuietCalls
<1>2. ASSUME NEW s \in Readers, call'[s].pc # "idle" PROVE call'[s].q \in Requests(s)'
  <2>1. call[s].q \in Requests(s) /\ pos'[s] = pos[s]
    BY <1>2 DEF Inv, TypeOK
  <2> QED BY <2>1, SameRequests
<1>3. TypeOK'
  BY <1>2 DEF Inv, TypeOK, FType
<1> QED BY <1>1, <1>3 DEF Inv

LEMMA CloseStep ==
    ASSUME Inv, NEW r \in Readers, Close(r)
    PROVE  Inv' /\ Cursors!Next
<1>1. /\ f' = [f EXCEPT !.closed = (f.kind # "bytes")]
      /\ Quiet /\ UNCHANGED <<pos, err, call>>
  BY DEF Close
<1>2. f' \in FType /\ f'.kind = f.kind /\ f'.mu = f.mu /\ f'.at = f.at
  BY <1>1 DEF Inv, TypeOK, FType
<1>3. Inv'
  BY <1>1, <1>2, BetweenCalls DEF Inv, TypeOK, Quiet
<1> QED BY <1>1, <1>3, WorkStep

LEMMA CloneStep ==
    ASSUME Inv, NEW r \in Readers, NEW s \in Readers \ {r}, Clone(r, s)
    PROVE  Inv' /\ Cursors!Next
<1>1. /\ call[s].pc = "idle"
      /\ pos' = [pos EXCEPT ![s] = pos[r]] /\ err' = [err EXCEPT ![s] = err[r]]
      /\ Quiet /\ UNCHANGED <<f, call>>
  BY DEF Clone
<1>2. /\ f' \in FType /\ pos' \in [Readers -> Nat] /\ err' \in [Readers -> Errors]
      /\ value' \in {"none", "bytes", "zero", "panic"}
      /\ \A t \in Readers \ {s} : pos'[t] = pos[t]
  BY <1>1 DEF Inv, TypeOK, FType, Quiet
<1>3. Inv'
  BY <1>1, <1>2, BetweenCalls
<1>4. Cursors!Clone(r, s)
  BY <1>1 DEF Quiet, Cursors!Clone
<1> QED BY <1>3, <1>4 DEF Cursors!Next

LEMMA SeekStep ==
    ASSUME Inv, NEW r \in Readers, Seek(r)
    PROVE  Inv' /\ Cursors!Next
<1>1. PICK off \in -f.len..f.len : SeekStart(r, off) \/ SeekCurrent(r, off) \/ SeekEnd(r, off)
  BY DEF Seek
<1>2. call[r].pc = "idle" /\ Quiet /\ UNCHANGED <<f, err, call>>
  BY DEF Seek
<1>3. f.len \in Nat /\ pos \in [Readers -> Nat] /\ pos[r] \in Nat
  BY BinaryReaderAssumption DEF Inv, TypeOK
<1>4. PICK p \in Nat : pos' = [pos EXCEPT ![r] = p]
  <2>1. CASE SeekStart(r, off)
    <3>1. off \in Nat /\ pos' = [pos EXCEPT ![r] = off]
      BY <2>1, <1>1, <1>3 DEF SeekStart, InFile
    <3> QED BY <3>1
  <2>2. CASE SeekCurrent(r, off)
    <3>1. pos[r] + off \in Nat /\ pos' = [pos EXCEPT ![r] = pos[r] + off]
      BY <2>2, <1>1, <1>3 DEF SeekCurrent, InFile
    <3> QED BY <3>1
  <2>3. CASE SeekEnd(r, off)
    <3>1. f.len - off \in Nat /\ pos' = [pos EXCEPT ![r] = f.len - off]
      BY <2>3, <1>1, <1>3 DEF SeekEnd
    <3> QED BY <3>1
  <2> QED BY <1>1, <2>1, <2>2, <2>3
<1>5. /\ f' \in FType /\ pos' \in [Readers -> Nat] /\ err' \in [Readers -> Errors]
      /\ value' \in {"none", "bytes", "zero", "panic"}
      /\ pos'[r] = p /\ \A t \in Readers \ {r} : pos'[t] = pos[t]
  BY <1>2, <1>3, <1>4 DEF Inv, TypeOK, FType, Quiet
<1>6. Inv'
  BY <1>2, <1>5, BetweenCalls
<1>7. Cursors!Seek(r)
  BY <1>2, <1>4, <1>5 DEF Quiet, Cursors!Seek
<1> QED BY <1>6, <1>7 DEF Cursors!Next

LEMMA AskStep ==
    ASSUME Inv, NEW r \in Readers, Ask(r)
    PROVE  Inv' /\ Cursors!Next
<1>1. f.kind # "seeker" /\ UNCHANGED call
  BY DEF Ask
<1>2. PICK q \in Requests(r) : \E reply \in Replies(q.n, q.off) :
          /\ Finish(r, q, reply)
          /\ f' = [f EXCEPT !.at = IF f.kind = "reader" THEN @ + Len(reply.bytes) ELSE @]
  BY DEF Ask
<1>3. PICK reply \in Replies(q.n, q.off) :
          /\ Finish(r, q, reply)
          /\ f' = [f EXCEPT !.at = IF f.kind = "reader" THEN @ + Len(reply.bytes) ELSE @]
  BY <1>2
<1>4. TypeOK /\ f \in FType /\ f.kind \in Kinds /\ f.at \in Nat
  BY DEF Inv, TypeOK, FType
<1>5. q \in [op : Ops, n : Nat, off : Int]
  BY <1>4, RequestType
<1>6. Honest(q.n, q.off, reply)
  BY <1>1, <1>4, <1>5, RepliesHonest
<1>7. /\ pos' \in [Readers -> Nat] /\ err' \in [Readers -> Errors]
      /\ value' \in {"none", "bytes", "zero", "panic"}
      /\ \A s \in Readers \ {r} : pos'[s] = pos[s]
  BY <1>3, <1>4, <1>6, FinishType
<1>8. f' \in FType /\ f'.kind = f.kind /\ f'.mu = f.mu
  <2>1. PICK k \in 0..q.n : reply.bytes = Run(q.off, k) /\ (k = 0 \/ 0 <= q.off)
    BY <1>6 DEF Honest
  <2>2. Len(reply.bytes) \in Nat
    BY <1>5, <2>1, RunType
  <2>3. PICK at \in Nat : f' = [f EXCEPT !.at = at]
    <3>1. CASE f.kind = "reader"
      <4>1. f.at + Len(reply.bytes) \in Nat /\ f' = [f EXCEPT !.at = f.at + Len(reply.bytes)]
        BY <1>3, <1>4, <2>2, <3>1
      <4> QED BY <4>1
    <3>2. CASE f.kind # "reader"
      <4>1. f' = [f EXCEPT !.at = f.at]
        BY <1>3, <3>2
      <4> QED BY <1>4, <4>1
    <3> QED BY <3>1, <3>2
  <2> QED BY <1>4, <2>3 DEF FType
<1>9. \A s \in Readers : call[s].pc = "idle"
  BY <1>1 DEF Inv, Progress, ProgressCall
<1>10. Inv'
  BY <1>1, <1>7, <1>8, <1>9, BetweenCalls
<1>11. Cursors!Next
  BY <1>3, <1>4, <1>6, FinishStep
<1> QED BY <1>10, <1>11

LEMMA EnterStep ==
    ASSUME Inv, NEW r \in Readers, Enter(r)
    PROVE  Inv' /\ Cursors!Next
<1>1. f.kind = "seeker" /\ call[r].pc = "idle"
  BY DEF Enter
<1>2. PICK q \in Requests(r) :
          \/ /\ q.n = 0
             /\ Finish(r, q, NilReply("nil"))
             /\ UNCHANGED <<f, call>>
          \/ /\ q.n > 0
             /\ call' = [call EXCEPT ![r] = [pc |-> "lock", q |-> q, got |-> <<>>]]
             /\ Quiet /\ UNCHANGED <<f, pos, err>>
  BY DEF Enter
<1>3. TypeOK /\ f \in FType
  BY DEF Inv, TypeOK, FType
<1>4. q \in [op : Ops, n : Nat, off : Int]
  BY <1>3, RequestType
<1>5. CASE q.n = 0 /\ Finish(r, q, NilReply("nil")) /\ UNCHANGED <<f, call>>
  <2>1. Honest(q.n, q.off, NilReply("nil"))
    BY <1>4, <1>5, NilHonest DEF Errors
  <2>2. /\ pos' \in [Readers -> Nat] /\ err' \in [Readers -> Errors]
        /\ value' \in {"none", "bytes", "zero", "panic"}
        /\ \A s \in Readers \ {r} : pos'[s] = pos[s]
    BY <1>3, <1>5, <2>1, FinishType
  <2>3. Inv'
    BY <1>1, <1>3, <1>5, <2>2, BetweenCalls
  <2>4. Cursors!Next
    BY <1>3, <1>5, <2>1, FinishStep
  <2> QED BY <2>3, <2>4
<1>6. CASE /\ call' = [call EXCEPT ![r] = [pc |-> "lock", q |-> q, got |-> <<>>]]
           /\ Quiet /\ UNCHANGED <<f, pos, err>>
  <2> DEFINE c == [pc |-> "lock", q |-> q, got |-> <<>>]
  <2>1. c \in Pending /\ c.pc = "lock" /\ c.q = q /\ c.got = <<>>
    BY <1>4 DEF Pending
  <2>2. call' = [call EXCEPT ![r] = c]
    BY <1>6
  <2> HIDE DEF c
  <2>3. TypeOK'
    <3>1. c.q \in Requests(r)'
      BY <1>6, <2>1, SameRequests
    <3>2. /\ f' \in FType /\ pos' \in [Readers -> Nat] /\ err' \in [Readers -> Errors]
          /\ value' \in {"none", "bytes", "zero", "panic"}
      BY <1>3, <1>6 DEF TypeOK, Quiet
    <3> QED BY <1>3, <1>6, <2>1, <2>2, <3>1, <3>2, TypeStep
  <2>4. Aligned' /\ Progress'
    <3>1. f.mu # r
      BY <1>1, AlignedCalls DEF Inv, AlignedCall
    <3>2. AlignedCall(r, c, f') /\ ProgressCall(c, f')
      BY <1>1, <1>6, <2>1, <3>1 DEF AlignedCall, ProgressCall
    <3> QED BY <1>6, <2>2, <3>2, OwnStep
  <2> QED BY <1>6, <2>3, <2>4, WorkStep DEF Inv
<1> QED BY <1>2, <1>5, <1>6

--------------------------------------------------------------------------------
(* The theorems *)

LEMMA InitInv == Init => Inv /\ Cursors!Init
<1> SUFFICES ASSUME Init PROVE Inv /\ Cursors!Init
  OBVIOUS
<1>1. PICK kind \in Kinds, len \in {Size} \cup Told :
          f = [kind |-> kind, len |-> len, closed |-> FALSE, at |-> 0, mu |-> NoOne]
  BY DEF Init
<1>2. /\ pos = [r \in Readers |-> 0] /\ err = [r \in Readers |-> "nil"]
      /\ call = [r \in Readers |-> Idle] /\ out = <<>> /\ value = "none"
  BY DEF Init
<1>3. TypeOK
  BY <1>1, <1>2 DEF TypeOK, Idle, Errors
<1>4. \A r \in Readers : call[r].pc = "idle" /\ f.mu # r
  BY <1>1, <1>2, BinaryReaderAssumption DEF Idle
<1>5. Aligned /\ Progress
  BY <1>4, AlignedCalls DEF AlignedCall, Progress, ProgressCall
<1>6. Cursors!Init
  BY <1>2 DEF Cursors!Init
<1> QED BY <1>3, <1>5, <1>6 DEF Inv

LEMMA NextStep == Inv /\ [Next]_vars => Inv' /\ [Cursors!Next]_(Cursors!vars)
<1> SUFFICES ASSUME Inv, [Next]_vars PROVE Inv' /\ [Cursors!Next]_(Cursors!vars)
  OBVIOUS
<1>1. CASE UNCHANGED vars
  <2>1. UNCHANGED Cursors!vars
    BY <1>1 DEF vars, Cursors!vars
  <2>2. Inv'
    BY <1>1 DEF vars, Inv, TypeOK, Requests, Aligned, Progress, ProgressCall
  <2> QED BY <2>1, <2>2
<1>2. ASSUME NEW r \in Readers, Ask(r) \/ Seek(r) \/ Close(r)
      PROVE  Inv' /\ Cursors!Next
  BY <1>2, AskStep, SeekStep, CloseStep
<1>3. ASSUME NEW r \in Readers, NEW s \in Readers \ {r}, Clone(r, s)
      PROVE  Inv' /\ Cursors!Next
  BY <1>3, CloneStep
<1>4. ASSUME NEW r \in Readers, Enter(r) \/ Lock(r) \/ SeekFile(r)
      PROVE  Inv' /\ Cursors!Next
  BY <1>4, EnterStep, LockStep, SeekFileStep
<1>5. ASSUME NEW r \in Readers, SeekFails(r) \/ ReadChunk(r) \/ Return(r)
      PROVE  Inv' /\ Cursors!Next
  BY <1>5, SeekFailsStep, ReadChunkStep, ReturnStep
<1> QED BY <1>1, <1>2, <1>3, <1>4, <1>5 DEF Next

LEMMA Invariance == Spec => []Inv
<1>1. Init => Inv
  BY InitInv
<1>2. Inv /\ [Next]_vars => Inv'
  BY NextStep
<1> QED BY <1>1, <1>2, PTL DEF Spec

\* Every variable keeps its type (binary.go:107-111, 194-200).
THEOREM TypeCorrect == Spec => []TypeOK
<1>1. Inv => TypeOK
  BY DEF Inv
<1> QED BY <1>1, Invariance, PTL

\* The mutex has one holder and the file position is the holder's
\* (binaryReaderSeeker.Bytes, binary.go:137-153).
THEOREM MutexAligned == Spec => []Aligned
<1>1. Inv => Aligned
  BY DEF Inv
<1> QED BY <1>1, Invariance, PTL

\* Any number of clones on any backend are independent cursors
\* (binary.go:280-287, 340-360).
THEOREM ImplementsCursors == Spec => AreCursors
<1>1. Init => Cursors!Init
  BY InitInv
<1>2. Inv /\ [Next]_vars => [Cursors!Next]_(Cursors!vars)
  BY NextStep
<1> QED BY <1>1, <1>2, Invariance, PTL DEF Spec, AreCursors, Cursors!Spec
--------------------------------------------------------------------------------
(* Bitmaps *)

LEMMA DivBounds ==
    ASSUME NEW b \in Nat \ {0}, NEW w \in Nat
    PROVE  w \div b \in Nat /\ b * (w \div b) <= w /\ w < b * (w \div b) + b
OBVIOUS

LEMMA MulMono ==
    ASSUME NEW b \in Nat, NEW x \in Nat, NEW y \in Nat, x < y
    PROVE  b * x + b <= b * y
<1>1. PICK d \in Nat : y = x + 1 + d
  <2>1. y - x - 1 \in Nat /\ y = x + 1 + (y - x - 1)
    OBVIOUS
  <2> QED BY <2>1
<1>2. b * y = b * x + b + b * d /\ b * d \in Nat
  BY <1>1
<1>3. b * x \in Nat
  OBVIOUS
<1> QED BY <1>2, <1>3

LEMMA DivMono ==
    ASSUME NEW b \in Nat \ {0}, NEW v \in Nat, NEW w \in Nat, v <= w
    PROVE  v \div b <= w \div b
<1> DEFINE x == w \div b  y == v \div b
<1>1. x \in Nat /\ w < b * x + b /\ y \in Nat /\ b * y <= v
  BY DivBounds
<1> HIDE DEF x, y
<1>2. ASSUME x < y PROVE FALSE
  <2>1. b * x + b <= b * y
    BY <1>1, <1>2, MulMono
  <2>2. b * x \in Nat /\ b * y \in Nat
    BY <1>1
  <2> QED BY <1>1, <2>1, <2>2
<1>3. y <= x
  BY <1>1, <1>2
<1> QED BY <1>3 DEF x, y

LEMMA DivStep ==
    ASSUME NEW b \in Nat \ {0}, NEW w \in Nat
    PROVE  (w + 1) \div b <= w \div b + 1
<1> DEFINE x == w \div b  y == (w + 1) \div b
<1>1. x \in Nat /\ w < b * x + b
  BY DivBounds
<1>2. y \in Nat /\ b * y <= w + 1
  BY DivBounds
<1> HIDE DEF x, y
<1>3. ASSUME x + 1 < y PROVE FALSE
  <2>1. b * (x + 1) + b <= b * y
    BY <1>1, <1>2, <1>3, MulMono
  <2>2. b * (x + 1) = b * x + b /\ b * x \in Nat /\ b * y \in Nat
    BY <1>1, <1>2
  <2> QED BY <1>1, <1>2, <2>1, <2>2
<1>4. y <= x + 1
  BY <1>1, <1>2, <1>3
<1> QED BY <1>4 DEF x, y

\* The byte after the last bit written is always in the buffer: it is appended
\* one bit early.
BitmapInv ==
    /\ wpos \in Nat /\ rpos \in Nat /\ eof \in BOOLEAN
    /\ buf.len = IF wpos = 0 THEN 0 ELSE wpos \div ByteBits + 1
    /\ buf.ones = written
    /\ written \subseteq 0..(wpos - 1)
    /\ got = {i \in written : i < rpos}
    /\ eof => rpos >= wpos

LEMMA BitmapInitInv == BitmapInit => BitmapInv
<1> SUFFICES ASSUME BitmapInit PROVE BitmapInv
  OBVIOUS
<1>1. /\ wpos = 0 /\ rpos = 0 /\ eof = FALSE /\ written = {} /\ got = {}
      /\ buf = [len |-> 0, ones |-> {}]
  BY DEF BitmapInit
<1>2. buf.len = 0 /\ buf.ones = {}
  BY <1>1
<1>3. got = {i \in written : i < rpos}
  BY <1>1
<1>4. eof => rpos >= wpos
  BY <1>1
<1> QED BY <1>1, <1>2, <1>3, <1>4 DEF BitmapInv

LEMMA WriteInv ==
    ASSUME BitmapInv, NEW bit \in BOOLEAN, rpos = 0, ~eof, Write(bit)
    PROVE  BitmapInv'
<1> USE BitmapAssumption
<1> DEFINE x == wpos \div ByteBits  y == (wpos + 1) \div ByteBits
<1>1. wpos \in Nat /\ wpos' = wpos + 1 /\ UNCHANGED <<rpos, eof, got>>
  BY DEF BitmapInv, Write
<1>2. x \in Nat /\ y \in Nat /\ x <= y /\ y <= x + 1
  BY <1>1, DivBounds, DivMono, DivStep
<1>3. buf'.len = y + 1
  <2>1. buf'.len = IF buf.len <= y THEN buf.len + 1 ELSE buf.len
    BY DEF Write, Room
  <2>2. CASE wpos = 0
    <3>1. y = 0
      <4>1. y \in Nat /\ ByteBits * y <= 1
        BY <2>2, DivBounds
      <4> HIDE DEF y
      <4>2. ASSUME y # 0 PROVE FALSE
        <5>1. ByteBits * 0 + ByteBits <= ByteBits * y
          BY <4>1, <4>2, MulMono
        <5> QED BY <4>1, <5>1
      <4> QED BY <4>2
    <3>2. buf.len = 0
      BY <2>2 DEF BitmapInv
    <3> HIDE DEF x, y
    <3> QED BY <2>1, <3>1, <3>2
  <2>3. CASE wpos # 0
    <3>1. buf.len = x + 1
      BY <2>3 DEF BitmapInv
    <3> HIDE DEF x, y
    <3> QED BY <1>2, <2>1, <3>1
  <2> QED BY <2>2, <2>3
<1>4. buf'.ones = written'
  BY DEF Write, BitmapInv
<1>5. written' \subseteq 0..(wpos' - 1)
  BY <1>1 DEF Write, BitmapInv
<1>6. got' = {i \in written' : i < rpos'} /\ rpos' \in Nat /\ eof' \in BOOLEAN
  <2>1. got = {} /\ \A i \in written' : ~(i < 0)
    <3>1. \A i \in written : ~(i < rpos)
      BY <1>1 DEF BitmapInv
    <3>2. got = {}
      BY <3>1 DEF BitmapInv
    <3>3. \A i \in written' : ~(i < 0)
      BY <1>1, <1>5
    <3> QED BY <3>2, <3>3
  <2>2. rpos' = 0 /\ got' = {} /\ eof' = FALSE
    BY <1>1, <2>1 DEF BitmapInv
  <2> QED BY <2>1, <2>2
<1>7. eof' => rpos' >= wpos'
  BY <1>1
<1> HIDE DEF y
<1>8. buf'.len = IF wpos' = 0 THEN 0 ELSE wpos' \div ByteBits + 1
  BY <1>1, <1>3 DEF y
<1> QED BY <1>1, <1>4, <1>5, <1>6, <1>7, <1>8 DEF BitmapInv

LEMMA ReadInv ==
    ASSUME BitmapInv, Read
    PROVE  BitmapInv'
<1> USE BitmapAssumption
<1>1. wpos \in Nat /\ rpos \in Nat /\ UNCHANGED <<buf, wpos, written>>
  BY DEF BitmapInv, Read
<1>2. CASE AtEnd
  <2>1. eof' = TRUE /\ UNCHANGED <<rpos, got>>
    BY <1>2 DEF Read
  <2>2. rpos >= wpos
    <3>1. CASE eof \/ wpos = 0
      BY <1>1, <3>1 DEF BitmapInv
    <3>2. CASE ~eof /\ wpos # 0
      <4>1. wpos \div ByteBits + 1 <= (rpos + 1) \div ByteBits
        BY <1>2, <3>2 DEF AtEnd, BitmapInv
      <4>2. ASSUME rpos < wpos PROVE FALSE
        <5>1. (rpos + 1) \div ByteBits <= wpos \div ByteBits
          BY <1>1, <4>2, DivMono
        <5>2. wpos \div ByteBits \in Nat /\ (rpos + 1) \div ByteBits \in Nat
          BY <1>1, DivBounds
        <5> QED BY <4>1, <5>1, <5>2
      <4> QED BY <1>1, <4>2
    <3> QED BY <3>1, <3>2
  <2> QED BY <1>1, <2>1, <2>2 DEF BitmapInv
<1>3. CASE ~AtEnd
  <2>1. /\ got' = IF rpos \in buf.ones THEN got \cup {rpos} ELSE got
        /\ rpos' = rpos + 1 /\ eof' = eof /\ ~eof
    BY <1>3 DEF Read, AtEnd
  <2>2. got' = {i \in written' : i < rpos'}
    <3>1. got = {i \in written : i < rpos} /\ buf.ones = written /\ \A i \in written : i \in Int
      BY <1>1 DEF BitmapInv
    <3>2. \A i \in written : i < rpos + 1 <=> i < rpos \/ i = rpos
      BY <1>1, <3>1
    <3> QED BY <1>1, <2>1, <3>1, <3>2
  <2> QED BY <1>1, <2>1, <2>2 DEF BitmapInv
<1> QED BY <1>2, <1>3

LEMMA BitmapInvariance == BitmapSpec => []BitmapInv
<1>1. BitmapInv /\ UNCHANGED bitmapVars => BitmapInv'
  BY DEF BitmapInv, bitmapVars
<1>2. BitmapInv /\ [BitmapNext]_bitmapVars => BitmapInv'
  BY <1>1, WriteInv, ReadInv DEF BitmapNext
<1> QED BY <1>2, BitmapInitInv, PTL DEF BitmapSpec

\* For every byte size and every number of bits, no one bit is written outside
\* the slice (binary.go:610-615).
THEOREM NeverOutside == BitmapSpec => []InSlice
<1>1. ASSUME BitmapInv PROVE InSlice
  <2> USE BitmapAssumption
  <2>1. ASSUME NEW i \in buf.ones PROVE i \div ByteBits < buf.len
    <3>4. wpos \in Nat /\ i \in 0..(wpos - 1)
      BY <1>1, <2>1 DEF BitmapInv
    <3>5. i \in Nat /\ i <= wpos /\ wpos # 0
      BY <3>4
    <3>1. i \in Nat /\ wpos \in Nat /\ i <= wpos /\ buf.len = wpos \div ByteBits + 1
      BY <1>1, <3>4, <3>5 DEF BitmapInv
    <3>2. i \div ByteBits <= wpos \div ByteBits
      BY <3>1, DivMono
    <3>3. i \div ByteBits \in Nat /\ wpos \div ByteBits \in Nat
      BY <3>1, DivBounds
    <3> QED BY <3>1, <3>2, <3>3
  <2> QED BY <2>1 DEF InSlice
<1> QED BY <1>1, BitmapInvariance, PTL

\* For every byte size and every number of bits, the reader gives back what the
\* writer wrote before it reports the end (binary.go:577-617).
THEOREM RoundTrip == BitmapSpec => []GivesBack
<1>1. BitmapInv => GivesBack
  BY DEF BitmapInv, GivesBack
<1> QED BY <1>1, BitmapInvariance, PTL
================================================================================
