----------------------------- MODULE BinaryCursors -----------------------------
(***************************************************************************)
(* What the clones of a binary.go BinaryReader promise: each is a cursor   *)
(* of its own over the same bytes, and every call happens at one moment,   *)
(* whatever the other clones do.  A byte is identified with its offset.    *)
(***************************************************************************)
EXTENDS Integers, Sequences

CONSTANTS
    Readers,     \* the clones
    Size,        \* number of bytes
    Lengths,     \* how many bytes a call asks for
    Offsets      \* where a ReadAt may ask for them

VARIABLES
    pos,    \* reader -> its position
    err,    \* reader -> the first error of its ReadBytes calls
    out     \* the answer the step gave to a read, if it gave one

vars == <<pos, err, out>>

Errors == {"nil", "EOF", "fail"}

Init ==
    /\ pos = [r \in Readers |-> 0]
    /\ err = [r \in Readers |-> "nil"]
    /\ out = <<>>

\* Consecutive bytes from offset off, and an error if fewer than asked for.
Answer(n, off, k, e) ==
    /\ k = 0 \/ (0 <= off /\ off + k <= Size)
    /\ k < n => e # "nil"
    /\ e = "EOF" => off + k >= Size
    /\ out' = [bytes |-> [i \in 1..k |-> off + i - 1], err |-> e]

ReadAt(r) ==
    /\ \E n \in Lengths, off \in Offsets, e \in Errors : \E k \in 0..n : Answer(n, off, k, e)
    /\ UNCHANGED <<pos, err>>

Read(r) ==
    \E n \in Lengths, e \in Errors : \E k \in 0..n :
        /\ Answer(n, pos[r], k, e)
        /\ pos' = [pos EXCEPT ![r] = @ + k]
        /\ UNCHANGED err

\* The first error stays.
ReadBytes(r) ==
    \E n \in Lengths, e \in Errors : \E k \in 0..n :
        /\ Answer(n, pos[r], k, e)
        /\ pos' = [pos EXCEPT ![r] = @ + k]
        /\ err' = [err EXCEPT ![r] = IF @ = "nil" THEN e ELSE @]

Seek(r) ==
    /\ pos'[r] \in Nat
    /\ pos' = [pos EXCEPT ![r] = pos'[r]]
    /\ out' = <<>>
    /\ UNCHANGED err

Clone(r, s) ==
    /\ pos' = [pos EXCEPT ![s] = pos[r]]
    /\ err' = [err EXCEPT ![s] = err[r]]
    /\ out' = <<>>

\* A step inside a call.
Work == out' = <<>> /\ UNCHANGED <<pos, err>>

Next ==
    \/ Work
    \/ \E r \in Readers :
          \/ ReadAt(r) \/ Read(r) \/ ReadBytes(r) \/ Seek(r)
          \/ \E s \in Readers : Clone(r, s)

Spec == Init /\ [][Next]_vars
================================================================================
