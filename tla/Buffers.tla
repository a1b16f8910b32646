-------------------------------- MODULE Buffers --------------------------------
(***************************************************************************)
(* A program that works on buffers: it writes through a Writer, reads what *)
(* it has written through Inputs, makes Inputs also of what another Input  *)
(* has answered, and keeps and appends to the slices that it is given.     *)
(*                                                                         *)
(* It does three things right.  It does not make an Input of a slice whose *)
(* next byte it is using for something else, nor use or write that byte    *)
(* before Restore; it does not append to what the Writer has given, also   *)
(* when the Writer has moved on since; and it uses nothing of an array     *)
(* that it has reset the Writer to write again.                            *)
(***************************************************************************)
EXTENDS Writer, Input

CONSTANTS
    Texts,         \* what is read and written
    Capacities,    \* of the array the Writer begins with
    MaxWritten,    \* how much is written between two Resets
    MaxArrays      \* how many arrays are made

ASSUME BuffersAssumption == Texts \subseteq Seq(STRING) /\ Capacities \subseteq Nat

VARIABLES
    token          \* a slice that the program keeps, whether it may append to
                   \* it, and history: what it said

vars == <<mem, given, writers, inputs, texts, token>>

\* For TLC: a character that is cut short.
SomeTexts == {<<"two">>}

NoToken == [slice |-> Nil, own |-> TRUE, text |-> <<>>]

Init ==
    \E cap \in Capacities, expand \in BOOLEAN :
        /\ StartsEmpty(cap)
        /\ StartsWriter(cap, expand)
        /\ inputs = [i \in Inputs |-> Unused]
        /\ texts = [i \in Inputs |-> <<>>]
        /\ token = NoToken

RoomForArrays(n) == Len(mem) + n <= MaxArrays

\* What the program reads through an Input or keeps.
InUse ==
    Places(token.slice, 0, token.slice.len)
    \cup UNION {Places(inputs[i].buf, 0, inputs[i].buf.len) : i \in {j \in Inputs : IsOpen(j)}}

\* The bytes over which an Input has written its NUL.
AllLent == UNION {Lent(i) : i \in {j \in Inputs : IsOpen(j)}}

Readable(b) == Places(b, 0, b.len) \cap AllLent = {}

WriterWrites ==
    \E text \in Texts :
        /\ text # <<>> /\ Len(written) + Len(text) <= MaxWritten /\ RoomForArrays(1)
        /\ writer.buf.len + Len(text) <= writer.buf.cap
              => Places(writer.buf, writer.buf.len, writer.buf.len + Len(text)) \cap AllLent = {}
        /\ Readable(writer.buf)
        /\ Write(text)
        /\ UNCHANGED <<inputs, texts, token>>

WriterResets ==
    /\ writer.buf.len > 0
    /\ \A i \in Inputs : IsOpen(i) => inputs[i].buf.arr # writer.buf.arr
    /\ ResetWriter
    /\ token' = IF token.slice.arr = writer.buf.arr THEN NoToken ELSE token
    /\ UNCHANGED <<inputs, texts>>

Keeps(slice, own) == token' = [slice |-> slice, own |-> own, text |-> Bytes(slice)]

WriterGivesBytes ==
    /\ Readable(writer.buf)
    /\ Keeps(writer.buf, FALSE)
    /\ UNCHANGED <<mem, given, writers, inputs, texts>>

\* An Input made of the bytes of the Writer, of another Input or
\* of the slice that is kept.
InputStarts(i) ==
    /\ ~IsOpen(i)
    /\ \E b \in {writer.buf, token.slice} \cup {BytesOf(j) : j \in {k \in Inputs : IsOpen(k)}} :
          /\ Readable(b)
          /\ b.cap > b.len => Places(b, b.len, b.len + 1) \cap InUse = {}
          /\ b.cap = b.len => RoomForArrays(1)
          /\ NewInputBytes(i, b)
    /\ UNCHANGED <<writers, token>>

InputReadsAll(i) ==
    /\ ~IsOpen(i) /\ RoomForArrays(2)
    /\ \/ \E text \in Texts : NewInputReadAll(i, text, Len(text) + 1)
       \/ NewInputFails(i)
    /\ UNCHANGED <<writers, token>>

\* Restore may be called again.
InputRestores(i) ==
    /\ inputs[i].stage # "unused"
    /\ Restore(i)
    /\ UNCHANGED <<writers, token>>

InputMoves(i) ==
    /\ IsOpen(i)
    /\ \/ \E n \in -1..2 : Move(i, n)
       \/ MoveRune(i)
       \/ \E mark \in 0..LenOf(i) : Rewind(i, mark)
       \/ Skip(i)
       \/ Reset(i)
    /\ UNCHANGED <<mem, given, texts, writers, token>>

InputShifts(i) ==
    /\ IsOpen(i) /\ inputs[i].start <= inputs[i].pos
    /\ Keeps(Lexeme(i), TRUE)
    /\ Skip(i)
    /\ UNCHANGED <<mem, given, texts, writers>>

InputGivesBytes(i) ==
    /\ IsOpen(i)
    /\ Keeps(BytesOf(i), TRUE)
    /\ UNCHANGED <<mem, given, texts, writers, inputs>>

\* append(token, x)
ClientAppends ==
    /\ token.own /\ token.slice.len > 0
    /\ RoomForArrays(1) /\ Len(token.text) < MaxWritten
    /\ LET s == token.slice
           text == Append(token.text, "x")
       IN  IF s.cap > s.len
           THEN /\ Places(s, s.len, s.len + 1) \cap AllLent = {}
                /\ mem' = Written(mem, s, s.len, <<"x">>)
                /\ given' = Written(given, s, s.len, <<"x">>)
                /\ token' = [slice |-> [s EXCEPT !.len = @ + 1], own |-> TRUE, text |-> text]
           ELSE /\ mem' = Allocated(mem, Append(Bytes(s), "x"), s.len + 2)
                /\ given' = Allocated(given, Append(Bytes(s), "x"), s.len + 2)
                /\ token' = [slice |-> Slice(Len(mem) + 1, 0, s.len + 1, s.len + 2),
                             own |-> TRUE, text |-> text]
    /\ UNCHANGED <<writers, inputs, texts>>

Next ==
    \/ WriterWrites \/ WriterResets \/ WriterGivesBytes \/ ClientAppends
    \/ \E i \in Inputs :
          \/ InputStarts(i) \/ InputReadsAll(i) \/ InputRestores(i)
          \/ InputMoves(i) \/ InputShifts(i) \/ InputGivesBytes(i)

Spec == Init /\ [][Next]_vars
--------------------------------------------------------------------------------
(* Properties *)

\* Whatever else the program does with its buffers, an Input reads to its end
\* what it was made of, and then a NUL; and the slices it has answered keep what
\* they said, also when the program appends to one (input.go:156, 161-165, 173).
SlicesIntact ==
    /\ \A i \in Inputs : IsOpen(i) => Bytes(inputs[i].buf) = Append(texts[i], NUL)
    /\ Bytes(token.slice) = token.text

\* An Input changes no array but for the byte that it puts back at Restore, once
\* (input.go:63-83).
OnlyLentDiffers ==
    \A a \in DOMAIN mem : \A k \in DOMAIN mem[a] :
        mem[a][k] # given[a][k] => <<a, k>> \in AllLent

\* The Writer keeps everything written to it, from one array to the next, unless
\* it may not grow (buffer/writer.go:32-46).
WriterKeeps ==
    /\ SubSeq(given[writer.buf.arr], 1, writer.buf.len) = written
    /\ writer.err => ~writer.expand
================================================================================
