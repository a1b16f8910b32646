----------------------------- MODULE BinaryReader -----------------------------
(***************************************************************************)
(* binary.go and binary_unix.go: a BinaryReader and its clones, which      *)
(* share one backend f.  The backends are a slice of bytes, a memory map,  *)
(* an io.ReaderAt, a plain io.Reader, and an io.ReadSeeker whose position  *)
(* is guarded by a mutex; only there do the calls of two clones            *)
(* interleave.  A byte is identified with its offset in the file.          *)
(***************************************************************************)
EXTENDS Integers, Sequences

CONSTANTS
    Readers,     \* the BinaryReader and its clones, one goroutine each
    Size,        \* bytes in the file
    Kinds,       \* the backends f may be
    Told,        \* what the client may say the length is, where it is asked
    Ops,         \* the calls the clients make
    Lengths,     \* how many bytes Read, ReadAt and ReadBytes ask for
    Offsets,     \* where a ReadAt asks for them
    MayFail,     \* the file may return errors other than io.EOF
    MayClose     \* a client may call Close

NoOne == "no one"    \* the mutex is free

ASSUME BinaryReaderAssumption ==
    /\ Size \in Nat /\ Told \subseteq Nat /\ Lengths \subseteq Nat /\ Offsets \subseteq Int
    /\ Ops \subseteq {"Read", "ReadAt", "ReadBytes", "ReadByte", "ReadUint16"}
    /\ Kinds \subseteq {"bytes", "mmap", "reader", "seeker", "readerAt"}
    /\ MayFail \in BOOLEAN /\ MayClose \in BOOLEAN
    /\ NoOne \notin Readers

\* For TLC: offsets before, in and after the file.
MCOffsets == {-1, 0, Size}

Errors == {"nil", "EOF", "fail"}

VARIABLES
    f,           \* the backend: kind, Len(), closed, file position, mutex
    pos, err,    \* struct BinaryReader, of each clone
    call,        \* where each clone is in a Bytes call of the seeker
    \* history of the run:
    out,         \* what the step answered to a read, bytes and error, if anything
    value        \* what ReadByte or ReadUint16 made of it

vars == <<f, pos, err, call, out, value>>

Idle == [pc |-> "idle"]

\* The length the constructor was told, or has found out.
Init ==
    /\ \E kind \in Kinds, len \in {Size} \cup Told :
          /\ kind \in {"bytes", "mmap"} => len = Size
          /\ f = [kind |-> kind, len |-> len, closed |-> FALSE, at |-> 0, mu |-> NoOne]
    /\ pos = [r \in Readers |-> 0]
    /\ err = [r \in Readers |-> "nil"]
    /\ call = [r \in Readers |-> Idle]
    /\ out = <<>> /\ value = "none"

--------------------------------------------------------------------------------
(* The backends' Bytes(b, n, off).  A reply holds the bytes, the error, and *)
(* whether the slice is nil, which the empty slice b[:0] is not.            *)

Run(off, k) == [i \in 1..k |-> off + i - 1]

Reply(bytes, e) == [bytes |-> bytes, err |-> e, isNil |-> FALSE]
NilReply(e) == [bytes |-> <<>>, err |-> e, isNil |-> TRUE]

\* What io.Reader and io.ReaderAt may do when asked for n bytes at offset off:
\* how many bytes come, and with which error.
Outcomes(n, off) ==
    {o \in [k : 0..n, err : Errors] :
        /\ f.closed \/ off < 0 => o.k = 0 /\ o.err = "fail"
        /\ o.k = 0 \/ off + o.k <= Size
        /\ o.err = "EOF" => off + o.k >= Size
        /\ o.err = "nil" /\ o.k = 0 => MayFail
        /\ o.err = "fail" => MayFail \/ f.closed \/ off < 0}

\* A loop over such reads, or one ReadAt: short only with an error.
Filled(n, off) ==
    {Reply(Run(off, o.k), o.err) : o \in {o \in Outcomes(n, off) : o.k < n => o.err # "nil"}}

\* A slice of memory, which ends with io.EOF when short, or also when exact.
Slice(n, off, short) ==
    IF off >= Size THEN NilReply("EOF")
    ELSE IF short THEN Reply(Run(off, Size - off), "EOF")
    ELSE Reply(Run(off, n), "nil")

FromBytes(n, off) ==
    IF off < 0 THEN NilReply("fail")
    ELSE IF n = 0 THEN NilReply("nil")
    ELSE Slice(n, off, Size - off < n)

FromMmap(n, off) ==
    IF f.closed \/ off < 0 THEN NilReply("fail") ELSE Slice(n, off, Size - off <= n)

Bug_FromReader(n, off) == IF n = 0 THEN {NilReply("nil")} ELSE Filled(n, f.at)

FromReader(n, off) ==
    IF off # f.at THEN {NilReply("fail")}
    ELSE IF n = 0 THEN {NilReply("nil")}
    ELSE Filled(n, off)

FromReaderAt(n, off) == IF n = 0 THEN {NilReply("nil")} ELSE Filled(n, off)

Replies(n, off) ==
    CASE f.kind = "bytes" -> {FromBytes(n, off)}
      [] f.kind = "mmap" -> {FromMmap(n, off)}
      [] f.kind = "reader" -> FromReader(n, off)
      [] f.kind = "readerAt" -> FromReaderAt(n, off)

--------------------------------------------------------------------------------
(* BinaryReader *)

\* The calls, with the lengths they ask for and where.
Requests(r) ==
    {q \in [op : Ops, n : Lengths \cup {1, 2}, off : Offsets \cup {pos[r]}] :
        /\ q.op \in {"Read", "ReadAt", "ReadBytes"} => q.n \in Lengths
        /\ q.op = "ReadByte" => q.n = 1
        /\ q.op = "ReadUint16" => q.n = 2
        /\ IF q.op = "ReadAt" THEN q.off \in Offsets ELSE q.off = pos[r]}

FirstError(old, e) == IF old = "nil" THEN e ELSE old

\* ReadByte looks at its one byte unless the slice is nil; ReadUint16, and the
\* wider ones, answer 0 when the slice is short.
Made(op, reply) ==
    IF op = "ReadByte"
    THEN IF reply.isNil THEN "zero" ELSE IF reply.bytes = <<>> THEN "panic" ELSE "bytes"
    ELSE IF op = "ReadUint16"
    THEN IF Len(reply.bytes) < 2 THEN "zero" ELSE "bytes"
    ELSE "none"

Quiet == out' = <<>> /\ value' = "none"

\* The call q of r ends with a reply.
Finish(r, q, reply) ==
    /\ out' = [bytes |-> reply.bytes, err |-> reply.err]
    /\ pos' = IF q.op = "ReadAt" THEN pos ELSE [pos EXCEPT ![r] = @ + Len(reply.bytes)]
    /\ err' = IF q.op \in {"Read", "ReadAt"} THEN err
              ELSE [err EXCEPT ![r] = FirstError(@, reply.err)]
    /\ value' = Made(q.op, reply)

\* A call on any backend but the seeker.
Ask(r) ==
    /\ f.kind # "seeker"
    /\ \E q \in Requests(r) : \E reply \in Replies(q.n, q.off) :
          /\ Finish(r, q, reply)
          /\ f' = [f EXCEPT !.at = IF f.kind = "reader" THEN @ + Len(reply.bytes) ELSE @]
    /\ UNCHANGED call

InFile(p) == 0 <= p /\ p <= f.len

SeekStart(r, off) ==
    /\ InFile(off)
    /\ pos' = [pos EXCEPT ![r] = off]

SeekCurrent(r, off) ==
    /\ InFile(pos[r] + off)
    /\ pos' = [pos EXCEPT ![r] = @ + off]

SeekEnd(r, off) ==
    /\ -f.len <= off /\ off <= 0
    /\ pos' = [pos EXCEPT ![r] = f.len - off]

\* An offset that is refused changes nothing.
Seek(r) ==
    /\ call[r].pc = "idle"
    /\ \E off \in -f.len..f.len : SeekStart(r, off) \/ SeekCurrent(r, off) \/ SeekEnd(r, off)
    /\ Quiet /\ UNCHANGED <<f, err, call>>

Clone(r, s) ==
    /\ call[r].pc = "idle" /\ call[s].pc = "idle"
    /\ pos' = [pos EXCEPT ![s] = pos[r]]
    /\ err' = [err EXCEPT ![s] = err[r]]
    /\ Quiet /\ UNCHANGED <<f, call>>

\* f is closed for every clone; the slice of a bytes backend stays.
Close(r) ==
    /\ MayClose /\ call[r].pc = "idle"
    /\ f' = [f EXCEPT !.closed = (f.kind # "bytes")]
    /\ Quiet /\ UNCHANGED <<pos, err, call>>

--------------------------------------------------------------------------------
(* binaryReaderSeeker.Bytes *)

Enter(r) ==
    /\ f.kind = "seeker" /\ call[r].pc = "idle"
    /\ \E q \in Requests(r) :
          \/ /\ q.n = 0
             /\ Finish(r, q, NilReply("nil"))
             /\ UNCHANGED <<f, call>>
          \/ /\ q.n > 0
             /\ call' = [call EXCEPT ![r] = [pc |-> "lock", q |-> q, got |-> <<>>]]
             /\ Quiet /\ UNCHANGED <<f, pos, err>>

Bug_CanLock == f.mu \in Readers \cup {NoOne}

CanLock == f.mu = NoOne

Lock(r) ==
    /\ call[r].pc = "lock" /\ CanLock
    /\ f' = [f EXCEPT !.mu = r]
    /\ call' = [call EXCEPT ![r].pc = "seek"]
    /\ Quiet /\ UNCHANGED <<pos, err>>

\* Unlock and return.
Leave(r, at, reply) ==
    /\ f' = [f EXCEPT !.mu = NoOne, !.at = at]
    /\ call' = [call EXCEPT ![r] = Idle]
    /\ Finish(r, call[r].q, reply)

SeekFile(r) ==
    /\ call[r].pc = "seek" /\ ~f.closed /\ call[r].q.off >= 0
    /\ f' = [f EXCEPT !.at = call[r].q.off]
    /\ call' = [call EXCEPT ![r].pc = "read"]
    /\ Quiet /\ UNCHANGED <<pos, err>>

SeekFails(r) ==
    /\ call[r].pc = "seek"
    /\ MayFail \/ f.closed \/ call[r].q.off < 0
    /\ Leave(r, f.at, NilReply("fail"))

Bug_GoesOn(o) == o.err \in {"nil", "EOF"}

GoesOn(o) == o.err = "nil" /\ o.k > 0

\* One turn of the loop: it ends after an error, or a read that brought nothing.
ReadChunk(r) ==
    /\ call[r].pc = "read" /\ Len(call[r].got) < call[r].q.n
    /\ \E o \in Outcomes(call[r].q.n - Len(call[r].got), f.at) :
          LET got == call[r].got \o Run(f.at, o.k) IN
          \/ /\ GoesOn(o)
             /\ f' = [f EXCEPT !.at = @ + o.k]
             /\ call' = [call EXCEPT ![r].got = got]
             /\ Quiet /\ UNCHANGED <<pos, err>>
          \/ /\ ~GoesOn(o)
             /\ Leave(r, f.at + o.k, Reply(got, IF o.err = "nil" THEN "fail" ELSE o.err))

Return(r) ==
    /\ call[r].pc = "read" /\ Len(call[r].got) = call[r].q.n
    /\ Leave(r, f.at, Reply(call[r].got, "nil"))

Next ==
    \E r \in Readers :
        \/ Ask(r) \/ Seek(r) \/ Close(r)
        \/ \E s \in Readers \ {r} : Clone(r, s)
        \/ Enter(r) \/ Lock(r) \/ SeekFile(r) \/ SeekFails(r) \/ ReadChunk(r) \/ Return(r)

\* A goroutine that holds the mutex runs on, and its file answers; one that
\* waits for it gets it in the end (a waiting sync.Mutex is handed over).
Fairness ==
    \A r \in Readers :
        /\ SF_vars(Lock(r))
        /\ WF_vars(SeekFile(r) \/ SeekFails(r) \/ ReadChunk(r) \/ Return(r))

Spec == Init /\ [][Next]_vars /\ Fairness
--------------------------------------------------------------------------------
(* Properties *)

Pending == [pc : {"lock", "seek", "read"}, q : [op : Ops, n : Nat, off : Int], got : Seq(Nat)]

\* Every variable has its type, and what a pending call asks for is still what
\* its clone would ask for (binary.go:107-111, 194-200).
TypeOK ==
    /\ f \in [kind : Kinds, len : {Size} \cup Told, closed : BOOLEAN, at : Nat,
              mu : Readers \cup {NoOne}]
    /\ pos \in [Readers -> Nat]
    /\ err \in [Readers -> Errors]
    /\ call \in [Readers -> {Idle} \cup Pending]
    /\ \A r \in Readers : call[r].pc # "idle" => call[r].q \in Requests(r)
    /\ value \in {"none", "bytes", "zero", "panic"}

\* A clone between Lock and Unlock is the mutex's one holder, and once it has
\* sought, the file stands where its next byte is: no other clone moves the
\* position under it (binaryReaderSeeker.Bytes, binary.go:137-153).
Aligned ==
    \A r \in Readers :
        /\ call[r].pc \in {"seek", "read"} <=> f.mu = r
        /\ call[r].pc = "read" =>
              /\ f.at = call[r].q.off + Len(call[r].got)
              /\ call[r].got = Run(call[r].q.off, Len(call[r].got))
              /\ Len(call[r].got) <= call[r].q.n

\* The clones are independent cursors over the same bytes (Clone,
\* binary.go:280-287, and the calls that read).
Cursors == INSTANCE BinaryCursors WITH Lengths <- Lengths \cup {1, 2}

AreCursors == Cursors!Spec

\* A call that waits for the mutex, or holds it, returns (binary.go:137-155).
CallsReturn == \A r \in Readers : call[r].pc # "idle" ~> call[r].pc = "idle"

\* A truncated read "must be treated as EOF and return 0, not panic on an
\* out-of-range index into the partial slice returned by ReadBytes"
\* (binary_test.go:10-12).
NoPanic == value # "panic"
================================================================================
