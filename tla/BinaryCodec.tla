------------------------------ MODULE BinaryCodec ------------------------------
(***************************************************************************)
(* binary.go: integers written by a BinaryWriter and read back by a        *)
(* BinaryReader.  Words are 1, 2, 3, 4 or 8 bytes, and the byte order may  *)
(* be changed between any two fields.                                      *)
(***************************************************************************)
EXTENDS Integers, Sequences, SequencesExt

CONSTANTS
    Base,         \* the number of values of a byte, 256; even
    Sizes,        \* word sizes in use, out of 1, 2, 3, 4 and 8 bytes
    MaxFields     \* bound: how many fields are written

Orders == {"big", "little"}
Signs == {"uint", "int"}

VARIABLES
    buf,        \* BinaryWriter.buf
    fields,     \* what has been written: [sign, size, order, value]
    pos,        \* BinaryReader.pos
    got         \* the values read back so far

vars == <<buf, fields, pos, got>>

\* The values of an intN, as Go has them for every size; an int24 is an int32
\* that fits.
Values(sign, size) ==
    IF sign = "uint" THEN 0..(Base^size - 1)
    ELSE -(Base^size \div 2)..(Base^size \div 2 - 1)

\* uintN(v): the word that represents v.
Word(size, v) == v % Base^size

\* The bytes of a word, least significant first.
Digits(size, w) == [i \in 1..size |-> (w \div Base^(i - 1)) % Base]

\* AppendUintN, or the three appended bytes of WriteUint24.
Encoded(order, size, w) ==
    IF order = "little" THEN Digits(size, w) ELSE Reverse(Digits(size, w))

Bug_Decoded(order, data) ==
    LET s == IF order = "little" THEN data ELSE Reverse(data)
    IN  FoldRight(LAMBDA d, acc : d + Base * acc, Reverse(s), 0)

\* ReadUintN of all its bytes.
Decoded(order, data) ==
    LET s == IF order = "little" THEN data ELSE Reverse(data)
    IN  FoldRight(LAMBDA d, acc : d + Base * acc, s, 0)

\* intN(w): as Go converts a word to a signed integer of the same size.  An
\* int24 is converted from a uint32, in which it is not negative.
Converted(size, w) ==
    IF size # 3 /\ w >= Base^size \div 2 THEN w - Base^size ELSE w

Init == buf = <<>> /\ fields = <<>> /\ pos = 0 /\ got = <<>>

Write(sign, size, order, v) ==
    /\ Len(fields) < MaxFields
    /\ buf' = buf \o Encoded(order, size, Word(size, v))
    /\ fields' = Append(fields, [sign |-> sign, size |-> size, order |-> order, value |-> v])
    /\ UNCHANGED <<pos, got>>

\* The reader asks for the fields in the order they were written.
Read ==
    /\ Len(got) < Len(fields)
    /\ LET q == fields[Len(got) + 1]
           w == Decoded(q.order, SubSeq(buf, pos + 1, pos + q.size))
       IN  /\ got' = Append(got, IF q.sign = "int" THEN Converted(q.size, w) ELSE w)
           /\ pos' = pos + q.size
    /\ UNCHANGED <<buf, fields>>

Next ==
    \/ /\ got = <<>>
       /\ \E sign \in Signs, size \in Sizes, order \in Orders :
             \E v \in Values(sign, size) : Write(sign, size, order, v)
    \/ Read

Spec == Init /\ [][Next]_vars
--------------------------------------------------------------------------------
(* Properties *)

Int24(q) == q.sign = "int" /\ q.size = 3

\* Every field but a negative int24 is read back as it was written, whatever
\* fields of other sizes and orders stand before it (binary.go:385-552).
ReadsBack ==
    \A i \in 1..Len(got) :
        (Int24(fields[i]) /\ fields[i].value < 0) \/ got[i] = fields[i].value
================================================================================
