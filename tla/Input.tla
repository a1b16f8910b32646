--------------------------------- MODULE Input ---------------------------------
(***************************************************************************)
(* input.go, and buffer/lexer.go, whose Lexer is the same but for          *)
(* PeekRune: a cursor over a slice that a NUL terminates.  The NUL is      *)
(* written over the byte that follows the slice in its array, where there  *)
(* is one, until Restore.                                                  *)
(***************************************************************************)
EXTENDS Slices

CONSTANTS MaxInputs      \* how many Inputs are in use at a time

ASSUME InputAssumption == MaxInputs \in Nat

VARIABLES
    inputs,     \* per Input: its stage, Input.buf, .start, .pos, .err and .restore
    texts       \* history: what the buffer of each had to read when it was made

Inputs == 1..MaxInputs

IsOpen(i) == inputs[i].stage = "open"

\* The number of bytes before the terminator.
LenOf(i) == inputs[i].buf.len - 1

Unused == [stage |-> "unused", buf |-> nullBuffer, start |-> 0, pos |-> 0, err |-> FALSE, restore |-> <<>>]

\* What another slice must not refer to: the byte that is lent for the NUL.
Lent(i) ==
    IF inputs[i].restore = <<>> THEN {}
    ELSE Places(inputs[i].buf, LenOf(i), LenOf(i) + 1)

Begins(i, buf, restore, err, text) ==
    /\ inputs' = [inputs EXCEPT ![i] = [Unused EXCEPT !.stage = "open", !.buf = buf, !.restore = restore, !.err = err]]
    /\ texts' = [texts EXCEPT ![i] = text]

\* NewInputBytes(b), where m and g are mem and given once b has been read.
NewInputBytesIn(i, m, g, b) ==
    LET text == SubSeq(m[b.arr], b.off + 1, b.off + b.len)
    IN  \/ /\ b.len = 0
           /\ mem' = m /\ given' = g
           /\ Begins(i, nullBuffer, <<>>, FALSE, text)
        \/ /\ b.len > 0 /\ b.cap > b.len
           /\ mem' = Written(m, b, b.len, <<NUL>>) /\ given' = g
           /\ Begins(i, [b EXCEPT !.len = @ + 1], <<m[b.arr][b.off + b.len + 1]>>, FALSE, text)
        \/ /\ b.len > 0 /\ b.cap = b.len
           /\ mem' = Allocated(m, Append(text, NUL), b.len + 2)
           /\ given' = Allocated(g, Append(text, NUL), b.len + 2)
           /\ Begins(i, Slice(Len(m) + 1, 0, b.len + 1, b.len + 2), <<>>, FALSE, text)

NewInputBytes(i, b) == NewInputBytesIn(i, mem, given, b)

\* NewInput of a reader without Bytes: io.ReadAll makes an array, or fails.
NewInputReadAll(i, text, cap) ==
    NewInputBytesIn(i, Allocated(mem, text, cap), Allocated(given, text, cap),
                    Slice(Len(mem) + 1, 0, Len(text), cap))

NewInputFails(i) ==
    /\ Begins(i, nullBuffer, <<>>, TRUE, <<>>)
    /\ UNCHANGED <<mem, given>>

\* Mutant: Restore may write the byte a second time.
Bug_Restore(i) ==
    /\ mem' = IF inputs[i].restore = <<>> THEN mem
              ELSE Written(mem, inputs[i].buf, LenOf(i), inputs[i].restore)
    /\ inputs' = [inputs EXCEPT ![i].stage = "restored"]
    /\ UNCHANGED <<given, texts>>

Restore(i) ==
    /\ mem' = IF inputs[i].restore = <<>> THEN mem
              ELSE Written(mem, inputs[i].buf, LenOf(i), inputs[i].restore)
    /\ inputs' = [inputs EXCEPT ![i].stage = "restored", ![i].restore = <<>>]
    /\ UNCHANGED <<given, texts>>
--------------------------------------------------------------------------------
(* The cursor *)

PeekErr(i, k) == inputs[i].err \/ LenOf(i) <= inputs[i].pos + k

MovesTo(i, pos) == inputs' = [inputs EXCEPT ![i].pos = pos]

\* Move(n) back or forth, within the buffer.
Move(i, n) == inputs[i].pos + n \in 0..LenOf(i) /\ n # 0 /\ MovesTo(i, inputs[i].pos + n)

MoveRune(i) == ~PeekErr(i, 0) /\ MovesTo(i, inputs[i].pos + RuneLen(Bytes(inputs[i].buf), inputs[i].pos))

\* Rewind to a mark that Pos has answered.
Rewind(i, mark) ==
    /\ inputs[i].start + mark <= inputs[i].pos
    /\ MovesTo(i, inputs[i].start + mark)

\* Mutant: the slice keeps the capacity of the buffer.
Bug_Lexeme(i) == Sub(inputs[i].buf, inputs[i].start, inputs[i].pos)

Lexeme(i) == Limited(inputs[i].buf, inputs[i].start, inputs[i].pos)

\* Skip, and Shift, which answers Lexeme as well.
Skip(i) == inputs' = [inputs EXCEPT ![i].start = inputs[i].pos]

BytesOf(i) == Limited(inputs[i].buf, 0, LenOf(i))

Reset(i) == inputs' = [inputs EXCEPT ![i].start = 0, ![i].pos = 0]
================================================================================
