-------------------------------- MODULE Slices --------------------------------
(***************************************************************************)
(* Arrays and slices of Go, as far as buffer/ and input.go use them: a     *)
(* slice refers to a piece of an array, other slices may refer to the same *)
(* bytes, and append writes into the array as long as the slice has spare  *)
(* capacity there.                                                         *)
(***************************************************************************)
EXTENDS Integers, Sequences, Runes

VARIABLES
    mem,      \* the arrays; the first is nullBuffer
    given     \* history: the arrays as their owners have written them

Slice(arr, off, len, cap) == [arr |-> arr, off |-> off, len |-> len, cap |-> cap]

nullBuffer == Slice(1, 0, 1, 1)
Nil == Slice(1, 0, 0, 0)

Bytes(s) == SubSeq(mem[s.arr], s.off + 1, s.off + s.len)

\* s[lo:hi] and s[lo:hi:hi].
Sub(s, lo, hi) == Slice(s.arr, s.off + lo, hi - lo, s.cap - lo)
Limited(s, lo, hi) == Slice(s.arr, s.off + lo, hi - lo, hi - lo)

\* The places of memory that s[lo:hi] refers to, also beyond the length of s.
Places(s, lo, hi) == {<<s.arr, s.off + k>> : k \in (lo + 1)..hi}

\* copy(s[i:], text), within the capacity of s.
Written(m, s, i, text) ==
    [m EXCEPT ![s.arr] =
        [k \in DOMAIN @ |-> IF k - s.off - i \in 1..Len(text) THEN text[k - s.off - i] ELSE @[k]]]

\* make([]byte, 0, cap), and copy.
Allocated(m, text, cap) == Append(m, text \o [k \in 1..(cap - Len(text)) |-> NUL])

StartsEmpty(cap) == mem = <<<<NUL>>, [k \in 1..cap |-> NUL]>> /\ given = mem
===============================================================================
