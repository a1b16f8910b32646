----------------------------- MODULE StreamCursor -----------------------------
(***************************************************************************)
(* What a lexer's buffer promises its client, whatever memory it uses: a   *)
(* selection [lo, hi) that moves over one byte stream.  A byte is          *)
(* identified with its offset in the stream, so "Peek returned the right   *)
(* byte" reads "Peek returned the right offset".  StreamLexer is shown to  *)
(* implement this specification.                                           *)
(***************************************************************************)
EXTENDS Integers, Sequences

CONSTANTS
    StreamLen,   \* number of bytes the reader has before io.EOF
    MaxPeek      \* how far ahead a client peeks

Zero == -1       \* the byte 0 a Peek returns where there is no byte

VARIABLES
    lo, hi,      \* the selection
    seen,        \* stream bytes taken from the reader so far
    broken,      \* the reader has failed: no byte after seen ever arrives
    ended,       \* Err answers io.EOF
    out          \* what the last call returned

vars == <<lo, hi, seen, broken, ended, out>>

Quiet == <<>>    \* the last call returned nothing

\* io.EOF is answered only when the selection is at the end of the stream.
OnTime == ended => hi >= StreamLen

Init ==
    /\ OnTime
    /\ lo = 0 /\ hi = 0 /\ broken = FALSE /\ out = Quiet
    /\ seen \in {0, StreamLen}

\* Bytes arrive in stream order, at any moment a call needs one.
Arrive(k) ==
    /\ seen' \in seen..StreamLen
    /\ broken' \in {broken, TRUE}
    /\ broken => seen' = seen
    /\ k < seen => UNCHANGED <<seen, broken>>
    /\ (k >= seen' /\ k < StreamLen) => broken'

Peek(i) ==
    /\ Arrive(hi + i)
    /\ out' = <<IF hi + i < seen' THEN hi + i ELSE Zero>>
    /\ UNCHANGED <<lo, hi>>

Move ==
    /\ hi' \in (hi + 1)..StreamLen
    /\ out' = Quiet
    /\ UNCHANGED <<lo, seen, broken>>

Rewind ==
    /\ hi' \in lo..(hi - 1)
    /\ out' = Quiet
    /\ UNCHANGED <<lo, seen, broken>>

Skip ==
    /\ lo' = hi
    /\ out' = Quiet
    /\ UNCHANGED <<hi, seen, broken>>

\* Shift hands over exactly the selected bytes of the stream, in order.
Shift ==
    /\ Arrive(hi - 1)
    /\ out' = [k \in 1..(hi - lo) |-> lo + k - 1]
    /\ lo' = hi
    /\ UNCHANGED hi

\* ShiftLen and Free do not touch the selection.
Account ==
    /\ out' = Quiet
    /\ UNCHANGED <<lo, hi, seen, broken>>

Next ==
    /\ \/ \E i \in 0..MaxPeek : Peek(i)
       \/ Move \/ Rewind \/ Skip \/ Shift \/ Account
    /\ OnTime'

Spec == Init /\ [][Next]_vars
===============================================================================
