-------------------------------- MODULE Writer --------------------------------
(***************************************************************************)
(* buffer/writer.go: a Writer appends to a slice, and moves it to an array *)
(* twice the size when it is full, or fails.                               *)
(***************************************************************************)
EXTENDS Slices, SequencesExt

VARIABLES
    writer,      \* Writer.buf, .expand and .err
    written      \* history: what has been written since the last Reset

writers == <<writer, written>>

\* Mutant: the bytes that the old array has are not copied.
Bug_Grown(m, buf, text) ==
    Allocated(m, [k \in 1..buf.len |-> NUL] \o text, 2 * buf.cap + Len(text))

Grown(m, buf, text) == Allocated(m, Bytes(buf) \o text, 2 * buf.cap + Len(text))

Write(text) ==
    LET buf == writer.buf
        n == Len(text)
    IN  \/ /\ buf.len + n <= buf.cap
           /\ mem' = Written(mem, buf, buf.len, text)
           /\ given' = Written(given, buf, buf.len, text)
           /\ writer' = [writer EXCEPT !.buf.len = @ + n]
           /\ written' = written \o text
        \/ /\ buf.len + n > buf.cap /\ writer.expand
           /\ mem' = Grown(mem, buf, text)
           /\ given' = Grown(given, buf, text)
           /\ writer' = [writer EXCEPT !.buf = Slice(Len(mem) + 1, 0, @.len + n, 2 * @.cap + n)]
           /\ written' = written \o text
        \/ /\ buf.len + n > buf.cap /\ ~writer.expand
           /\ writer' = [writer EXCEPT !.err = TRUE]
           /\ UNCHANGED <<mem, given, written>>

ResetWriter ==
    /\ writer' = [writer EXCEPT !.buf.len = 0]
    /\ written' = <<>>
    /\ UNCHANGED <<mem, given>>

StartsWriter(cap, expand) ==
    /\ writer = [buf |-> Slice(2, 0, 0, cap), expand |-> expand, err |-> FALSE]
    /\ written = <<>>
===============================================================================
