-------------------------------- MODULE Bitmap --------------------------------
(***************************************************************************)
(* binary.go: BitmapWriter fills a byte slice bit by bit, BitmapReader     *)
(* reads the slice back.  A buffer is its length in bytes and the set of   *)
(* the indexes of its one bits, counted from the first bit of the first    *)
(* byte (the most significant one, 0x80 >> (pos & 7)).                     *)
(***************************************************************************)
EXTENDS Integers

CONSTANTS
    ByteBits,    \* 8
    MaxBits      \* bound: how many bits the writer writes

ASSUME BitmapAssumption == ByteBits \in Nat \ {0, 1} /\ MaxBits \in Nat

VARIABLES
    buf,         \* the buffer, shared by the two
    wpos,        \* BitmapWriter.pos
    rpos, eof,   \* BitmapReader.pos, BitmapReader.eof
    \* history of the run:
    written,     \* the indexes of the one bits given to Write
    got          \* the indexes at which Read has answered a one

bitmapVars == <<buf, wpos, rpos, eof, written, got>>

BitmapInit ==
    /\ buf = [len |-> 0, ones |-> {}]
    /\ wpos = 0 /\ rpos = 0 /\ eof = FALSE
    /\ written = {} /\ got = {}

\* The writer's slice is too short.
Room(len) == len <= (wpos + 1) \div ByteBits

Write(bit) ==
    /\ wpos < MaxBits
    /\ buf' = [len |-> IF Room(buf.len) THEN buf.len + 1 ELSE buf.len,
               ones |-> IF bit THEN buf.ones \cup {wpos} ELSE buf.ones]
    /\ wpos' = wpos + 1
    /\ written' = IF bit THEN written \cup {wpos} ELSE written
    /\ UNCHANGED <<rpos, eof, got>>

Bug_AtEnd == eof \/ buf.len <= (rpos + 2) \div ByteBits

AtEnd == eof \/ buf.len <= (rpos + 1) \div ByteBits

Read ==
    /\ IF AtEnd
       THEN eof' = TRUE /\ UNCHANGED <<rpos, got>>
       ELSE /\ got' = IF rpos \in buf.ones THEN got \cup {rpos} ELSE got
            /\ rpos' = rpos + 1
            /\ UNCHANGED eof
    /\ UNCHANGED <<buf, wpos, written>>

\* The reader is made once the writer is done.
BitmapNext ==
    \/ rpos = 0 /\ ~eof /\ \E bit \in BOOLEAN : Write(bit)
    \/ Read

BitmapSpec == BitmapInit /\ [][BitmapNext]_bitmapVars
--------------------------------------------------------------------------------
(* Properties *)

\* Write never indexes beyond the slice it has made: a one bit lies in a byte
\* the buffer has (binary.go:610-615).
InSlice == \A i \in buf.ones : i \div ByteBits < buf.len

\* The reader gives back all that was written, bit for bit, before it reports
\* the end: the bits read so far are the bits written so far
\* (binary.go:577-585, 609-617).
GivesBack ==
    /\ got = {i \in written : i < rpos}
    /\ eof => rpos >= wpos
================================================================================
