---------------------------- MODULE Buffers_proofs ----------------------------
(***************************************************************************)
(* Proofs about Buffers, for any number of Inputs and arrays and any       *)
(* texts: whoever shares an array with an Input, the Writer and the client *)
(* read what they must.                                                    *)
(*                                                                         *)
(* The invariant gives every cell of memory its roles: a cell that an      *)
(* Input has borrowed for its NUL, one that it reads, one that a slice may *)
(* grow into.  It says which of them exclude each other.                   *)
(***************************************************************************)
EXTENDS Buffers, SequenceTheorems, TLAPS

\* The bytes that the program writes or reads.
Byte == {NUL, "x"} \cup UNION {{text[k] : k \in 1..Len(text)} : text \in Texts}

SliceSet == [arr : Nat, off : Nat, len : Nat, cap : Nat]
Arrays == Seq(Seq(Byte))

\* A slice lies within its array.
Fits(m, s) ==
    /\ s \in SliceSet /\ s.arr \in 1..Len(m)
    /\ s.len <= s.cap /\ s.off + s.cap <= Len(m[s.arr])

\* What a slice says, as its cells have it.
Says(m, s, text) ==
    /\ Len(text) = s.len
    /\ \A k \in 1..s.len : m[s.arr][s.off + k] = text[k]

\* Cell k of array a is one of the slice, or one that it may grow into.
Within(s, a, k) == a = s.arr /\ s.off < k /\ k <= s.off + s.len
SpareAt(s, a, k) == a = s.arr /\ s.off + s.len < k /\ k <= s.off + s.cap

\* An Input has borrowed the cell for its NUL, or reads it as its text.
LendsAt(in, a, k) ==
    /\ in.stage = "open" /\ in.restore # <<>>
    /\ a = in.buf.arr /\ k = in.buf.off + in.buf.len
ReadsAt(in, a, k) == in.stage = "open" /\ Within(in.buf, a, k) /\ ~LendsAt(in, a, k)
--------------------------------------------------------------------------------
(* The invariant *)

MemoryOK(m, g) ==
    /\ m \in Arrays /\ g \in Arrays
    /\ Len(g) = Len(m) /\ \A a \in 1..Len(m) : Len(g[a]) = Len(m[a])
    /\ 1 \in 1..Len(m) /\ m[1] = <<NUL>> /\ g[1] = <<NUL>>

WriterOK(m, g, w, text) ==
    /\ w \in [buf : SliceSet, expand : BOOLEAN, err : BOOLEAN]
    /\ Fits(m, w.buf) /\ w.buf.off = 0 /\ w.buf.arr # 1
    /\ text \in Seq(Byte) /\ Says(g, w.buf, text)
    /\ w.err => ~w.expand

InputSet ==
    [stage : {"unused", "open", "restored"}, buf : SliceSet, start : Nat, pos : Nat,
     err : BOOLEAN, restore : Seq(Byte)]

InputOK(m, g, in, text) ==
    /\ in \in InputSet /\ text \in Seq(Byte)
    /\ in.stage = "open" =>
          /\ Fits(m, in.buf) /\ in.buf.len > 0
          /\ in.start < in.buf.len /\ in.pos < in.buf.len
          /\ Says(m, in.buf, Append(text, NUL))
          /\ in.restore # <<>> =>
                /\ in.restore = <<g[in.buf.arr][in.buf.off + in.buf.len]>>
                /\ in.buf.arr # 1
    /\ in.stage # "open" => in.restore = <<>>

TokenOK(m, t) ==
    /\ t \in [slice : SliceSet, own : BOOLEAN, text : Seq(Byte)]
    /\ Fits(m, t.slice) /\ Says(m, t.slice, t.text)

\* Which roles of a cell exclude each other.
Exclusive(ins, w, t, a, k) ==
    /\ \A i \in Inputs : LendsAt(ins[i], a, k) =>
          /\ \A j \in Inputs : j # i => ~LendsAt(ins[j], a, k) /\ ~ReadsAt(ins[j], a, k)
          /\ ~Within(t.slice, a, k)
    /\ \A i \in Inputs : ReadsAt(ins[i], a, k) =>
          /\ ~SpareAt(w.buf, a, k)
          /\ t.own => ~SpareAt(t.slice, a, k)
    /\ Within(t.slice, a, k) => ~SpareAt(w.buf, a, k)
    /\ t.own /\ SpareAt(t.slice, a, k) => a # w.buf.arr /\ a # 1

\* A cell holds what its owner wrote but while an Input has borrowed it.
Unlent(m, g, ins, a, k) ==
    (\A i \in Inputs : ~LendsAt(ins[i], a, k)) => m[a][k] = g[a][k]

InputsOK(m, g, ins, txts) ==
    /\ DOMAIN ins = Inputs /\ DOMAIN txts = Inputs
    /\ \A i \in Inputs : InputOK(m, g, ins[i], txts[i])

RolesOK(ins, w, t) == \A a \in Nat, k \in Nat : Exclusive(ins, w, t, a, k)

AllUnlent(m, g, ins) == \A a \in 1..Len(m) : \A k \in 1..Len(m[a]) : Unlent(m, g, ins, a, k)

\* Stated of any memory, so that it can be said of one between two steps of a call.
Good(m, g, w, text, ins, txts, t) ==
    /\ MemoryOK(m, g) /\ WriterOK(m, g, w, text)
    /\ InputsOK(m, g, ins, txts) /\ TokenOK(m, t)
    /\ RolesOK(ins, w, t)
    /\ AllUnlent(m, g, ins)

Inv == Good(mem, given, writer, written, inputs, texts, token)

--------------------------------------------------------------------------------
(* Memory *)

\* The later memory has all arrays of the earlier one, as long as they were.
Extends(m, m2) ==
    /\ Len(m) <= Len(m2)
    /\ \A a \in 1..Len(m) : Len(m2[a]) = Len(m[a])

\* The cells of a slice are as they were.
Untouched(m, m2, s) ==
    \A k \in 1..Len(m[s.arr]) : Within(s, s.arr, k) => m2[s.arr][k] = m[s.arr][k]

\* What a store leaves in memory.
Stored(m, m2, s, i, text) ==
    \A a \in 1..Len(m) : \A k \in 1..Len(m[a]) :
        m2[a][k] = IF a = s.arr /\ s.off + i < k /\ k <= s.off + i + Len(text)
                   THEN text[k - s.off - i] ELSE m[a][k]

IsStored(m, m2, s, i, text) ==
    /\ m2 \in Arrays /\ Len(m2) = Len(m) /\ Extends(m, m2)
    /\ Stored(m, m2, s, i, text)
    /\ \A a \in 1..Len(m) : a # s.arr => m2[a] = m[a]

LEMMA ArraysAre ==
    ASSUME NEW m \in Arrays
    PROVE  /\ Len(m) \in Nat /\ DOMAIN m = 1..Len(m)
           /\ \A a \in 1..Len(m) : /\ m[a] \in Seq(Byte) /\ Len(m[a]) \in Nat
                                   /\ DOMAIN m[a] = 1..Len(m[a])
  BY DEF Arrays

LEMMA SliceIs ==
    ASSUME NEW s \in SliceSet
    PROVE  s.arr \in Nat /\ s.off \in Nat /\ s.len \in Nat /\ s.cap \in Nat
  BY DEF SliceSet

LEMMA WrittenIs ==
    ASSUME NEW m \in Arrays, NEW s, Fits(m, s), NEW i \in Nat, NEW text \in Seq(Byte),
           i + Len(text) <= s.cap, NEW m2, m2 = Written(m, s, i, text)
    PROVE  IsStored(m, m2, s, i, text)
<1> DEFINE row == [k \in DOMAIN m[s.arr] |->
                      IF k - s.off - i \in 1..Len(text) THEN text[k - s.off - i] ELSE m[s.arr][k]]
<1>1. /\ s.arr \in 1..Len(m) /\ s.off \in Nat /\ Len(m) \in Nat /\ DOMAIN m = 1..Len(m)
      /\ m[s.arr] \in Seq(Byte) /\ Len(m[s.arr]) \in Nat /\ Len(text) \in Nat
      /\ DOMAIN m[s.arr] = 1..Len(m[s.arr])
  BY ArraysAre, SliceIs DEF Fits
<1>2. m2 = [m EXCEPT ![s.arr] = row]
  BY DEF Written
<1>3. ASSUME NEW k \in 1..Len(m[s.arr])
      PROVE  /\ row[k] \in Byte
             /\ row[k] = IF s.off + i < k /\ k <= s.off + i + Len(text)
                         THEN text[k - s.off - i] ELSE m[s.arr][k]
  <2>1. m[s.arr][k] \in Byte
    BY <1>1
  <2>2. row[k] = IF k - s.off - i \in 1..Len(text) THEN text[k - s.off - i] ELSE m[s.arr][k]
    BY <1>1
  <2>3. k - s.off - i \in 1..Len(text) <=> s.off + i < k /\ k <= s.off + i + Len(text)
    BY <1>1
  <2>4. k - s.off - i \in 1..Len(text) => text[k - s.off - i] \in Byte
    BY <1>1
  <2> HIDE DEF row
  <2> QED
    BY <2>1, <2>2, <2>3, <2>4
<1>4. row \in [1..Len(m[s.arr]) -> Byte]
  <2>1. DOMAIN row = 1..Len(m[s.arr]) /\ row = [k \in DOMAIN row |-> row[k]]
    BY <1>1
  <2> HIDE DEF row
  <2> QED
    BY <1>3, <2>1
<1>5. row \in Seq(Byte) /\ Len(row) = Len(m[s.arr])
  <2>1. ASSUME NEW n \in Nat, NEW f \in [1..n -> Byte]
        PROVE  f \in Seq(Byte) /\ Len(f) = n
    OBVIOUS
  <2> HIDE DEF row
  <2> QED
    BY <1>1, <1>4, <2>1, Zenon
<1> HIDE DEF row
<1>6. m2 \in Arrays /\ Len(m2) = Len(m)
  BY <1>1, <1>2, <1>5 DEF Arrays
<1>7. \A a \in 1..Len(m) : m2[a] = IF a = s.arr THEN row ELSE m[a]
  BY <1>1, <1>2
<1>8. Extends(m, m2)
  <2>1. ASSUME NEW a \in 1..Len(m)
        PROVE  Len(m2[a]) = Len(m[a])
    <3>1. CASE a = s.arr
      BY <3>1, <1>5, <1>7
    <3>2. CASE a # s.arr
      BY <3>2, <1>7
    <3> QED
      BY <3>1, <3>2
  <2>2. Len(m) <= Len(m2)
    BY <1>1, <1>6
  <2> QED
    BY <2>1, <2>2, Zenon DEF Extends
<1>9. Stored(m, m2, s, i, text)
  BY <1>3, <1>7, Zenon DEF Stored
<1>10. \A a \in 1..Len(m) : a # s.arr => m2[a] = m[a]
  BY <1>7, Zenon
<1> QED
  BY <1>6, <1>8, <1>9, <1>10, Zenon DEF IsStored

\* An array is added: nothing else changes in memory.
Adds(m, m2) ==
    /\ Len(m2) = Len(m) + 1
    /\ \A a \in 1..Len(m) : m2[a] = m[a]

IsAllocated(m, m2, text, cap) ==
    /\ m2 \in Arrays /\ Adds(m, m2)
    /\ m2[Len(m) + 1] = text \o [k \in 1..(cap - Len(text)) |-> NUL]
    /\ Len(m2[Len(m) + 1]) = cap
    /\ \A k \in 1..Len(text) : m2[Len(m) + 1][k] = text[k]

LEMMA AllocatedIs ==
    ASSUME NEW m \in Arrays, NEW text \in Seq(Byte), NEW cap \in Nat, Len(text) <= cap
    PROVE  IsAllocated(m, Allocated(m, text, cap), text, cap)
<1> DEFINE pad == [k \in 1..(cap - Len(text)) |-> NUL]
           row == text \o pad
           m2 == Append(m, row)
<1>1. Len(m) \in Nat /\ Len(text) \in Nat
  BY ArraysAre
<1>2. pad \in Seq(Byte) /\ Len(pad) = cap - Len(text)
  <2> DEFINE n == cap - Len(text)
  <2>1. n \in Nat
    BY <1>1
  <2>2. NUL \in Byte
    BY DEF Byte
  <2> HIDE DEF n
  <2>3. [k \in 1..n |-> NUL] \in [1..n -> Byte]
    BY <2>2
  <2>4. [k \in 1..n |-> NUL] \in Seq(Byte) /\ Len([k \in 1..n |-> NUL]) = n
    BY <2>1, <2>3
  <2> QED
    BY <2>4 DEF n
<1> HIDE DEF pad
<1>3. row \in Seq(Byte) /\ Len(row) = cap /\ \A k \in 1..Len(text) : row[k] = text[k]
  BY <1>1, <1>2
<1>4. m2 = Allocated(m, text, cap)
  BY DEF Allocated, pad
<1> HIDE DEF row
<1>5. /\ m2 \in Arrays /\ Len(m2) = Len(m) + 1 /\ m2[Len(m) + 1] = row
      /\ \A a \in 1..Len(m) : m2[a] = m[a]
  BY <1>1, <1>3 DEF Arrays
<1> HIDE DEF m2
<1>6. IsAllocated(m, m2, text, cap)
  BY <1>3, <1>5, Zenon DEF IsAllocated, Adds, row, pad
<1> QED
  BY <1>4, <1>6, Zenon

\* The cells of a slice, as a sequence.
LEMMA TextIs ==
    ASSUME NEW m \in Arrays, NEW s, Fits(m, s), NEW text,
           text = SubSeq(m[s.arr], s.off + 1, s.off + s.len)
    PROVE  text \in Seq(Byte) /\ Says(m, s, text)
<1>1. /\ s.arr \in 1..Len(m) /\ s.off \in Nat /\ s.len \in Nat /\ s.cap \in Nat
      /\ s.off + s.cap <= Len(m[s.arr]) /\ s.len <= s.cap
      /\ m[s.arr] \in Seq(Byte) /\ Len(m[s.arr]) \in Nat
  BY ArraysAre, SliceIs DEF Fits
<1> DEFINE row == m[s.arr]
<1> HIDE DEF row
<1>2. row \in Seq(Byte) /\ Len(row) \in Nat /\ s.off + s.len <= Len(row)
  BY <1>1 DEF row
<1>3. /\ SubSeq(row, s.off + 1, s.off + s.len) \in Seq(Byte)
      /\ Len(SubSeq(row, s.off + 1, s.off + s.len)) = s.len
      /\ \A k \in 1..s.len : SubSeq(row, s.off + 1, s.off + s.len)[k] = row[s.off + k]
  <2> DEFINE lo == s.off + 1
             hi == s.off + s.len
  <2>1. lo \in Nat \ {0} /\ hi \in Nat /\ \A k \in lo..hi : row[k] \in Byte
    <3>1. lo \in Nat \ {0} /\ hi \in Nat
      BY <1>1
    <3>2. ASSUME NEW k \in lo..hi
          PROVE  row[k] \in Byte
      <4>1. k \in 1..Len(row)
        BY <1>1, <1>2
      <4> QED
        BY <1>2, <4>1
    <3> QED
      BY <3>1, <3>2
  <2>2. /\ SubSeq(row, lo, hi) \in Seq(Byte)
        /\ Len(SubSeq(row, lo, hi)) = IF lo <= hi THEN hi - lo + 1 ELSE 0
        /\ \A k \in 1..(hi - lo + 1) : SubSeq(row, lo, hi)[k] = row[lo + k - 1]
    <3> HIDE DEF lo, hi
    <3> QED
      BY <2>1, SubSeqProperties
  <2>3. (IF lo <= hi THEN hi - lo + 1 ELSE 0) = s.len /\ hi - lo + 1 = s.len
    BY <1>1
  <2>4. \A k \in 1..s.len : lo + k - 1 = s.off + k
    BY <1>1
  <2> QED
    BY <2>2, <2>3, <2>4, Zenon
<1> QED
  BY <1>3, Zenon DEF Says, row

LEMMA BytesAre ==
    ASSUME mem \in Arrays, NEW s, Fits(mem, s)
    PROVE  Bytes(s) \in Seq(Byte) /\ Says(mem, s, Bytes(s))
<1>1. Bytes(s) = SubSeq(mem[s.arr], s.off + 1, s.off + s.len)
  BY DEF Bytes
<1> QED
  BY <1>1, TextIs, Zenon

\* A sequence is what a slice says if its cells agree.
LEMMA SaysBytes ==
    ASSUME mem \in Arrays, NEW s, Fits(mem, s), NEW text \in Seq(Byte), Says(mem, s, text)
    PROVE  Bytes(s) = text
<1>1. Bytes(s) \in Seq(Byte) /\ Says(mem, s, Bytes(s))
  BY BytesAre
<1> DEFINE b == Bytes(s)
<1> HIDE DEF b
<1>2. /\ b \in Seq(Byte) /\ Len(b) = Len(text)
      /\ \A k \in 1..Len(text) : b[k] = text[k]
  BY <1>1 DEF Says, b
<1>3. b = text
  BY <1>2
<1> QED
  BY <1>3 DEF b

LEMMA FitsKept ==
    ASSUME NEW m, NEW m2, NEW s, Fits(m, s), Extends(m, m2), Len(m) \in Nat, Len(m2) \in Nat
    PROVE  Fits(m2, s)
  BY DEF Fits, Extends

LEMMA SaysKept ==
    ASSUME NEW m \in Arrays, NEW m2, NEW s, NEW text, Fits(m, s), Says(m, s, text),
           Untouched(m, m2, s)
    PROVE  Says(m2, s, text)
<1>1. /\ s.arr \in 1..Len(m) /\ s.off \in Nat /\ s.len \in Nat /\ s.cap \in Nat
      /\ s.off + s.cap <= Len(m[s.arr]) /\ s.len <= s.cap /\ Len(m[s.arr]) \in Nat
  BY ArraysAre, SliceIs DEF Fits
<1>2. ASSUME NEW k \in 1..s.len
      PROVE  m2[s.arr][s.off + k] = m[s.arr][s.off + k]
  <2>1. s.off + k \in 1..Len(m[s.arr]) /\ s.off < s.off + k /\ s.off + k <= s.off + s.len
    BY <1>1
  <2> QED
    BY <2>1, Zenon DEF Untouched, Within
<1> QED
  BY <1>2, Zenon DEF Says

--------------------------------------------------------------------------------
(* What memory other than their own may change around them *)

LEMMA WriterKept ==
    ASSUME NEW m, NEW g, NEW m2 \in Arrays, NEW g2 \in Arrays, NEW w, NEW text,
           MemoryOK(m, g), WriterOK(m, g, w, text), Extends(m, m2),
           Untouched(g, g2, w.buf)
    PROVE  WriterOK(m2, g2, w, text)
<1>1. /\ m \in Arrays /\ g \in Arrays /\ Len(m) \in Nat /\ Len(m2) \in Nat
      /\ Fits(m, w.buf) /\ Says(g, w.buf, text)
      /\ Len(g) = Len(m) /\ \A a \in 1..Len(m) : Len(g[a]) = Len(m[a])
  BY ArraysAre, Zenon DEF MemoryOK, WriterOK
<1>2. Fits(m2, w.buf)
  BY <1>1, FitsKept, Zenon
<1>3. Fits(g, w.buf)
  BY <1>1 DEF Fits
<1>4. Says(g2, w.buf, text)
  BY <1>1, <1>3, SaysKept, Zenon
<1> QED
  BY <1>2, <1>4, Zenon DEF WriterOK

LEMMA TokenKept ==
    ASSUME NEW m \in Arrays, NEW m2 \in Arrays, NEW t,
           TokenOK(m, t), Extends(m, m2), Untouched(m, m2, t.slice)
    PROVE  TokenOK(m2, t)
<1>1. Len(m) \in Nat /\ Len(m2) \in Nat /\ Fits(m, t.slice) /\ Says(m, t.slice, t.text)
  BY ArraysAre, Zenon DEF TokenOK
<1>2. Fits(m2, t.slice)
  BY <1>1, FitsKept, Zenon
<1>3. Says(m2, t.slice, t.text)
  BY <1>1, SaysKept, Zenon
<1> QED
  BY <1>2, <1>3, Zenon DEF TokenOK

\* The byte that an Input has borrowed, as its owner has written it.
OwnerKeeps(g, g2, in) ==
    in.restore # <<>> =>
        g2[in.buf.arr][in.buf.off + in.buf.len] = g[in.buf.arr][in.buf.off + in.buf.len]

LEMMA InputKept ==
    ASSUME NEW m \in Arrays, NEW g, NEW m2 \in Arrays, NEW g2, NEW in, NEW text,
           InputOK(m, g, in, text), Extends(m, m2),
           in.stage = "open" => Untouched(m, m2, in.buf) /\ OwnerKeeps(g, g2, in)
    PROVE  InputOK(m2, g2, in, text)
<1>1. Len(m) \in Nat /\ Len(m2) \in Nat
  BY ArraysAre
<1>2. CASE in.stage # "open"
  BY <1>2, Zenon DEF InputOK
<1>3. CASE in.stage = "open"
  <2>1. Fits(m, in.buf) /\ Says(m, in.buf, Append(text, NUL))
    BY <1>3, Zenon DEF InputOK
  <2>2. Fits(m2, in.buf)
    BY <1>1, <2>1, FitsKept, Zenon
  <2>3. Says(m2, in.buf, Append(text, NUL))
    BY <1>3, <2>1, SaysKept, Zenon
  <2>4. in.restore # <<>> =>
            in.restore = <<g2[in.buf.arr][in.buf.off + in.buf.len]>> /\ in.buf.arr # 1
    BY <1>3, Zenon DEF InputOK, OwnerKeeps
  <2> QED
    BY <1>3, <2>2, <2>3, <2>4, Zenon DEF InputOK
<1> QED
  BY <1>2, <1>3

LEMMA AddsUntouched ==
    ASSUME NEW m \in Arrays, NEW m2, Adds(m, m2)
    PROVE  /\ Extends(m, m2)
           /\ \A s : Fits(m, s) => Untouched(m, m2, s)
<1>1. Extends(m, m2)
  BY ArraysAre DEF Adds, Extends
<1>2. ASSUME NEW s, Fits(m, s)
      PROVE  Untouched(m, m2, s)
  <2>1. s.arr \in 1..Len(m)
    BY <1>2 DEF Fits
  <2> QED
    BY <2>1, Zenon DEF Untouched, Adds
<1> QED
  BY <1>1, <1>2

\* A store outside the cells of a slice.
LEMMA StoreUntouched ==
    ASSUME NEW m \in Arrays, NEW m2, NEW s, NEW i \in Nat, NEW text \in Seq(Byte),
           Stored(m, m2, s, i, text), s \in SliceSet, NEW t, Fits(m, t),
           \A k \in Nat : Within(t, s.arr, k) =>
               ~(s.off + i < k /\ k <= s.off + i + Len(text))
    PROVE  Untouched(m, m2, t)
<1>1. t.arr \in 1..Len(m) /\ Len(m[t.arr]) \in Nat
  BY ArraysAre DEF Fits
<1> SUFFICES ASSUME NEW k \in 1..Len(m[t.arr]), Within(t, t.arr, k)
             PROVE  m2[t.arr][k] = m[t.arr][k]
  BY Zenon DEF Untouched
<1>2. k \in Nat
  BY <1>1
<1>3. ~(t.arr = s.arr /\ s.off + i < k /\ k <= s.off + i + Len(text))
  BY <1>2, Zenon
<1> QED
  BY <1>1, <1>3, Zenon DEF Stored

\* make: everybody reads on, and has the roles there were.
LEMMA GoodAdded ==
    ASSUME NEW m, NEW g, NEW w, NEW text, NEW ins, NEW txts, NEW t,
           Good(m, g, w, text, ins, txts, t),
           NEW m2 \in Arrays, NEW g2 \in Arrays, Adds(m, m2), Adds(g, g2),
           g2[Len(m) + 1] = m2[Len(m) + 1]
    PROVE  Good(m2, g2, w, text, ins, txts, t)
<1>1. /\ m \in Arrays /\ g \in Arrays /\ Len(m) \in Nat /\ Len(g) = Len(m)
      /\ \A a \in 1..Len(m) : Len(g[a]) = Len(m[a])
      /\ MemoryOK(m, g) /\ WriterOK(m, g, w, text) /\ InputsOK(m, g, ins, txts)
      /\ TokenOK(m, t)
  BY ArraysAre, Zenon DEF Good, MemoryOK
<1>2. /\ Extends(m, m2) /\ Extends(g, g2)
      /\ \A s : Fits(m, s) => Untouched(m, m2, s)
      /\ \A s : Fits(g, s) => Untouched(g, g2, s)
  BY <1>1, AddsUntouched, Zenon
<1>3. \A s : Fits(m, s) => Fits(g, s)
  BY <1>1 DEF Fits
<1>4. MemoryOK(m2, g2)
  <2>1. Len(g2) = Len(m2) /\ Len(m2) = Len(m) + 1
    BY <1>1 DEF Adds
  <2>2. ASSUME NEW a \in 1..Len(m2)
        PROVE  Len(g2[a]) = Len(m2[a])
    <3>1. CASE a = Len(m) + 1
      BY <3>1
    <3>2. CASE a # Len(m) + 1
      <4>1. a \in 1..Len(m) /\ a \in 1..Len(g)
        BY <3>2, <2>1, <1>1
      <4> QED
        BY <4>1, <1>1, Zenon DEF Adds
    <3> QED
      BY <3>1, <3>2
  <2>3. /\ 1 \in 1..Len(m) /\ 1 \in 1..Len(g) /\ m[1] = <<NUL>> /\ g[1] = <<NUL>>
    BY <1>1, Zenon DEF MemoryOK
  <2>4. m2[1] = <<NUL>> /\ g2[1] = <<NUL>>
    BY <2>3, Zenon DEF Adds
  <2>5. 1 \in 1..Len(m2)
    BY <1>1, <2>1
  <2> QED
    BY <2>1, <2>2, <2>4, <2>5, Zenon DEF MemoryOK
<1>5. WriterOK(m2, g2, w, text)
  <2>1. Fits(m, w.buf)
    BY <1>1, Zenon DEF WriterOK
  <2> QED
    BY <1>1, <1>2, <1>3, <2>1, WriterKept, Zenon
<1>6. TokenOK(m2, t)
  <2>1. Fits(m, t.slice)
    BY <1>1, Zenon DEF TokenOK
  <2> QED
    BY <1>1, <1>2, <2>1, TokenKept, Zenon
<1>7. InputsOK(m2, g2, ins, txts)
  <2>1. ASSUME NEW i \in Inputs
        PROVE  InputOK(m2, g2, ins[i], txts[i])
    <3>1. InputOK(m, g, ins[i], txts[i])
      BY <1>1, Zenon DEF InputsOK
    <3>2. ins[i].stage = "open" => Untouched(m, m2, ins[i].buf) /\ OwnerKeeps(g, g2, ins[i])
      <4>1. ASSUME ins[i].stage = "open"
            PROVE  Fits(m, ins[i].buf)
        BY <4>1, <3>1, Zenon DEF InputOK
      <4>2. ASSUME ins[i].stage = "open"
            PROVE  OwnerKeeps(g, g2, ins[i])
        <5>1. ins[i].buf.arr \in 1..Len(g)
          BY <4>1, <4>2, <1>3, Zenon DEF Fits
        <5> QED
          BY <5>1, Zenon DEF OwnerKeeps, Adds
      <4> QED
        BY <4>1, <4>2, <1>2
    <3> QED
      BY <1>2, <3>1, <3>2, <1>1, InputKept, Zenon
  <2> QED
    BY <1>1, <2>1, Zenon DEF InputsOK
<1>8. AllUnlent(m2, g2, ins)
  <2> SUFFICES ASSUME NEW a \in 1..Len(m2), NEW k \in 1..Len(m2[a])
               PROVE  Unlent(m2, g2, ins, a, k)
    BY Zenon DEF AllUnlent
  <2>1. CASE a = Len(m) + 1
    BY <2>1, Zenon DEF Unlent
  <2>2. CASE a # Len(m) + 1
    <3>1. a \in 1..Len(m) /\ a \in 1..Len(g)
      BY <2>2, <1>1 DEF Adds
    <3>2. m2[a] = m[a] /\ g2[a] = g[a]
      BY <3>1, Zenon DEF Adds
    <3>3. Unlent(m, g, ins, a, k)
      BY <3>1, <3>2, Zenon DEF Good, AllUnlent
    <3> QED
      BY <3>2, <3>3, Zenon DEF Unlent
  <2> QED
    BY <2>1, <2>2
<1> QED
  BY <1>4, <1>5, <1>6, <1>7, <1>8, Zenon DEF Good

--------------------------------------------------------------------------------
(* One of them changes, memory and the others do not *)

\* What another token may refer to, and may grow into.
MayKeep(ins, w, t) ==
    \A a \in Nat, k \in Nat :
        /\ Within(t.slice, a, k) => ~SpareAt(w.buf, a, k) /\ \A i \in Inputs : ~LendsAt(ins[i], a, k)
        /\ t.own /\ SpareAt(t.slice, a, k) =>
               a # w.buf.arr /\ a # 1 /\ \A i \in Inputs : ~ReadsAt(ins[i], a, k)

\* What the Writer may grow into.
MayWrite(ins, w, t) ==
    \A a \in Nat, k \in Nat :
        /\ SpareAt(w.buf, a, k) => ~Within(t.slice, a, k) /\ \A i \in Inputs : ~ReadsAt(ins[i], a, k)
        /\ t.own /\ SpareAt(t.slice, a, k) => a # w.buf.arr

\* What another Input may read.
MayRead(ins, w, t, s) ==
    \A a \in Nat, k \in Nat : Within(s, a, k) =>
        /\ ~SpareAt(w.buf, a, k)
        /\ t.own => ~SpareAt(t.slice, a, k)
        /\ \A i \in Inputs : ~LendsAt(ins[i], a, k)

LEMMA GoodToken ==
    ASSUME NEW m, NEW g, NEW w, NEW text, NEW ins, NEW txts, NEW t, NEW t2,
           Good(m, g, w, text, ins, txts, t), TokenOK(m, t2), MayKeep(ins, w, t2)
    PROVE  Good(m, g, w, text, ins, txts, t2)
<1>1. ASSUME NEW a \in Nat, NEW k \in Nat
      PROVE  Exclusive(ins, w, t2, a, k)
  <2>1. Exclusive(ins, w, t, a, k)
    BY Zenon DEF Good, RolesOK
  <2>2. /\ Within(t2.slice, a, k) =>
               ~SpareAt(w.buf, a, k) /\ \A i \in Inputs : ~LendsAt(ins[i], a, k)
        /\ t2.own /\ SpareAt(t2.slice, a, k) =>
               a # w.buf.arr /\ a # 1 /\ \A i \in Inputs : ~ReadsAt(ins[i], a, k)
    BY Zenon DEF MayKeep
  <2> QED
    BY <2>1, <2>2, Zenon DEF Exclusive
<1> QED
  BY <1>1, Zenon DEF Good, RolesOK

LEMMA GoodWriter ==
    ASSUME NEW m, NEW g, NEW w, NEW text, NEW ins, NEW txts, NEW t, NEW w2, NEW text2,
           Good(m, g, w, text, ins, txts, t), WriterOK(m, g, w2, text2), MayWrite(ins, w2, t)
    PROVE  Good(m, g, w2, text2, ins, txts, t)
<1>1. ASSUME NEW a \in Nat, NEW k \in Nat
      PROVE  Exclusive(ins, w2, t, a, k)
  <2>1. Exclusive(ins, w, t, a, k)
    BY Zenon DEF Good, RolesOK
  <2>2. /\ SpareAt(w2.buf, a, k) =>
               ~Within(t.slice, a, k) /\ \A i \in Inputs : ~ReadsAt(ins[i], a, k)
        /\ t.own /\ SpareAt(t.slice, a, k) => a # w2.buf.arr
    BY Zenon DEF MayWrite
  <2> QED
    BY <2>1, <2>2, Zenon DEF Exclusive
<1> QED
  BY <1>1, Zenon DEF Good, RolesOK

\* An Input that has borrowed nothing begins.
LEMMA GoodReader ==
    ASSUME NEW m, NEW g, NEW w, NEW text, NEW ins, NEW txts, NEW t,
           Good(m, g, w, text, ins, txts, t),
           NEW i \in Inputs, ins[i].stage # "open", NEW in, NEW txt,
           InputOK(m, g, in, txt), in.restore = <<>>, MayRead(ins, w, t, in.buf)
    PROVE  Good(m, g, w, text, [ins EXCEPT ![i] = in], [txts EXCEPT ![i] = txt], t)
<1> DEFINE ins2 == [ins EXCEPT ![i] = in]
           txts2 == [txts EXCEPT ![i] = txt]
<1>1. DOMAIN ins = Inputs /\ DOMAIN txts = Inputs
  BY Zenon DEF Good, InputsOK
<1>2. /\ DOMAIN ins2 = Inputs /\ DOMAIN txts2 = Inputs /\ ins2[i] = in /\ txts2[i] = txt
      /\ \A j \in Inputs : j # i => ins2[j] = ins[j] /\ txts2[j] = txts[j]
  BY <1>1
<1> HIDE DEF ins2, txts2
<1>3. \A a, k : ~LendsAt(ins2[i], a, k) /\ ~LendsAt(ins[i], a, k)
  BY <1>2, Zenon DEF LendsAt
<1>4. \A a, k : ReadsAt(ins2[i], a, k) => Within(in.buf, a, k)
  BY <1>2, Zenon DEF ReadsAt
<1>5. ASSUME NEW a \in Nat, NEW k \in Nat
      PROVE  Exclusive(ins2, w, t, a, k)
  <2>1. Exclusive(ins, w, t, a, k)
    BY Zenon DEF Good, RolesOK
  <2>2. Within(in.buf, a, k) =>
            /\ ~SpareAt(w.buf, a, k)
            /\ t.own => ~SpareAt(t.slice, a, k)
            /\ \A j \in Inputs : ~LendsAt(ins[j], a, k)
    BY Zenon DEF MayRead
  <2>3. ASSUME NEW j \in Inputs, LendsAt(ins2[j], a, k)
        PROVE  /\ \A l \in Inputs : l # j => ~LendsAt(ins2[l], a, k) /\ ~ReadsAt(ins2[l], a, k)
               /\ ~Within(t.slice, a, k)
    <3>1. j # i /\ LendsAt(ins[j], a, k)
      BY <2>3, <1>2, <1>3, Zenon
    <3>2. /\ \A l \in Inputs : l # j => ~LendsAt(ins[l], a, k) /\ ~ReadsAt(ins[l], a, k)
          /\ ~Within(t.slice, a, k)
      BY <3>1, <2>1, Zenon DEF Exclusive
    <3>3. ~LendsAt(ins2[i], a, k) /\ ~ReadsAt(ins2[i], a, k)
      BY <3>1, <2>2, <1>3, <1>4, Zenon
    <3> QED
      BY <3>2, <3>3, <1>2, Zenon
  <2>4. ASSUME NEW j \in Inputs, ReadsAt(ins2[j], a, k)
        PROVE  ~SpareAt(w.buf, a, k) /\ (t.own => ~SpareAt(t.slice, a, k))
    <3>1. CASE j = i
      BY <3>1, <2>4, <2>2, <1>4, Zenon
    <3>2. CASE j # i
      BY <3>2, <2>4, <2>1, <1>2, Zenon DEF Exclusive
    <3> QED
      BY <3>1, <3>2
  <2> QED
    BY <2>1, <2>3, <2>4, Zenon DEF Exclusive
<1>6. InputsOK(m, g, ins2, txts2)
  BY <1>2, Zenon DEF Good, InputsOK
<1>7. AllUnlent(m, g, ins2)
  <2> SUFFICES ASSUME NEW a \in 1..Len(m), NEW k \in 1..Len(m[a]),
                      \A j \in Inputs : ~LendsAt(ins2[j], a, k)
               PROVE  m[a][k] = g[a][k]
    BY Zenon DEF AllUnlent, Unlent
  <2>1. \A j \in Inputs : ~LendsAt(ins[j], a, k)
    BY <1>2, <1>3, Zenon
  <2> QED
    BY <2>1, Zenon DEF Good, AllUnlent, Unlent
<1> QED
  BY <1>5, <1>6, <1>7, Zenon DEF Good, RolesOK, ins2, txts2

\* An Input that only moves its cursor.
Moved(in, in2) ==
    /\ in2 \in InputSet
    /\ in2.stage = in.stage /\ in2.buf = in.buf /\ in2.restore = in.restore
    /\ in.stage = "open" => in2.start < in2.buf.len /\ in2.pos < in2.buf.len

LEMMA GoodMoved ==
    ASSUME NEW m, NEW g, NEW w, NEW text, NEW ins, NEW txts, NEW t,
           Good(m, g, w, text, ins, txts, t),
           NEW i \in Inputs, NEW ins2, DOMAIN ins2 = Inputs, Moved(ins[i], ins2[i]),
           \A j \in Inputs : j # i => ins2[j] = ins[j]
    PROVE  Good(m, g, w, text, ins2, txts, t)
<1> DEFINE in == ins2[i]
<1>1. DOMAIN ins = Inputs /\ DOMAIN txts = Inputs /\ InputOK(m, g, ins[i], txts[i])
  BY Zenon DEF Good, InputsOK
<1>2. DOMAIN ins2 = Inputs /\ ins2[i] = in /\ \A j \in Inputs : j # i => ins2[j] = ins[j]
  OBVIOUS
<1> HIDE DEF in
<1>4. /\ in \in InputSet /\ in.stage = ins[i].stage /\ in.buf = ins[i].buf
      /\ in.restore = ins[i].restore
      /\ ins[i].stage = "open" => in.start < in.buf.len /\ in.pos < in.buf.len
  BY Zenon DEF Moved, in
<1>5. InputOK(m, g, in, txts[i])
  <2>1. CASE in.stage # "open"
    <3>1. in.restore = <<>> /\ txts[i] \in Seq(Byte)
      BY <2>1, <1>1, <1>4, Zenon DEF InputOK
    <3> QED
      BY <2>1, <3>1, <1>4, Zenon DEF InputOK
  <2>2. CASE in.stage = "open"
    <3>1. ins[i].stage = "open"
      BY <2>2, <1>4
    <3>2. in.start < in.buf.len /\ in.pos < in.buf.len
      BY <3>1, <1>4, Zenon
    <3>3. /\ Fits(m, in.buf) /\ in.buf.len > 0 /\ Says(m, in.buf, Append(txts[i], NUL))
          /\ txts[i] \in Seq(Byte)
      BY <3>1, <1>1, <1>4, Zenon DEF InputOK
    <3>4. in.restore # <<>> =>
              in.restore = <<g[in.buf.arr][in.buf.off + in.buf.len]>> /\ in.buf.arr # 1
      BY <3>1, <1>1, <1>4, Zenon DEF InputOK
    <3> QED
      BY <2>2, <3>2, <3>3, <3>4, <1>4, Zenon DEF InputOK
  <2> QED
    BY <2>1, <2>2
<1>6. InputsOK(m, g, ins2, txts)
  BY <1>2, <1>5, Zenon DEF Good, InputsOK
<1>7. \A j \in Inputs : \A a, k : /\ LendsAt(ins2[j], a, k) <=> LendsAt(ins[j], a, k)
                                  /\ ReadsAt(ins2[j], a, k) <=> ReadsAt(ins[j], a, k)
  BY <1>2, <1>4, Zenon DEF LendsAt, ReadsAt
<1>8. ASSUME NEW a \in Nat, NEW k \in Nat
      PROVE  Exclusive(ins2, w, t, a, k)
  <2>1. Exclusive(ins, w, t, a, k)
    BY Zenon DEF Good, RolesOK
  <2> QED
    BY <2>1, <1>7, Zenon DEF Exclusive
<1>9. AllUnlent(m, g, ins2)
  BY <1>7, Zenon DEF Good, AllUnlent, Unlent
<1> QED
  BY <1>6, <1>8, <1>9, Zenon DEF Good, RolesOK

\* The roles are of cells that there are.
LEMMA CellsThere ==
    ASSUME NEW m \in Arrays, NEW s, Fits(m, s), NEW a \in Nat, NEW k \in Nat,
           Within(s, a, k) \/ SpareAt(s, a, k)
    PROVE  a = s.arr /\ a \in 1..Len(m) /\ k \in 1..Len(m[a])
<1>1. /\ s.arr \in 1..Len(m) /\ s.off \in Nat /\ s.len \in Nat /\ s.cap \in Nat
      /\ s.off + s.cap <= Len(m[s.arr]) /\ s.len <= s.cap /\ Len(m[s.arr]) \in Nat
  BY ArraysAre, SliceIs DEF Fits
<1>2. a = s.arr
  BY Zenon DEF Within, SpareAt
<1>3. k > s.off /\ k <= s.off + s.cap
  BY <1>1 DEF Within, SpareAt
<1> QED
  BY <1>1, <1>2, <1>3

\* What borrows a cell has it in its buffer.
LEMMA LentWithin ==
    ASSUME NEW m \in Arrays, NEW g, NEW in, NEW text, InputOK(m, g, in, text),
           NEW a, NEW k, LendsAt(in, a, k)
    PROVE  Within(in.buf, a, k) /\ a # 1
<1>1. in.buf \in SliceSet /\ in.buf.len > 0 /\ in.buf.arr # 1
  BY Zenon DEF InputOK, LendsAt, Fits
<1> QED
  BY <1>1, SliceIs DEF LendsAt, Within

LEMMA RolesThere ==
    ASSUME NEW m, NEW g, NEW w, NEW text, NEW ins, NEW txts, NEW t,
           Good(m, g, w, text, ins, txts, t), NEW a \in Nat, NEW k \in Nat
    PROVE  /\ \A i \in Inputs : LendsAt(ins[i], a, k) \/ ReadsAt(ins[i], a, k) =>
                  a = ins[i].buf.arr /\ a \in 1..Len(m) /\ k \in 1..Len(m[a])
           /\ \A i \in Inputs : LendsAt(ins[i], a, k) => Within(ins[i].buf, a, k) /\ a # 1
           /\ Within(t.slice, a, k) \/ SpareAt(t.slice, a, k) =>
                  a = t.slice.arr /\ a \in 1..Len(m) /\ k \in 1..Len(m[a])
           /\ Within(w.buf, a, k) \/ SpareAt(w.buf, a, k) =>
                  a = w.buf.arr /\ a \in 1..Len(m) /\ k \in 1..Len(m[a])
<1>1. m \in Arrays /\ Fits(m, t.slice) /\ Fits(m, w.buf)
  BY Zenon DEF Good, MemoryOK, TokenOK, WriterOK
<1>2. ASSUME NEW i \in Inputs, LendsAt(ins[i], a, k)
      PROVE  Within(ins[i].buf, a, k) /\ a # 1
  <2>1. InputOK(m, g, ins[i], txts[i])
    BY Zenon DEF Good, InputsOK
  <2> QED
    BY <1>1, <1>2, <2>1, LentWithin, Zenon
<1>3. ASSUME NEW i \in Inputs, LendsAt(ins[i], a, k) \/ ReadsAt(ins[i], a, k)
      PROVE  a = ins[i].buf.arr /\ a \in 1..Len(m) /\ k \in 1..Len(m[a])
  <2>1. InputOK(m, g, ins[i], txts[i]) /\ ins[i].stage = "open"
    BY <1>3, Zenon DEF Good, InputsOK, LendsAt, ReadsAt
  <2>2. Fits(m, ins[i].buf) /\ Within(ins[i].buf, a, k)
    BY <1>2, <1>3, <2>1, Zenon DEF InputOK, ReadsAt
  <2> QED
    BY <1>1, <2>2, CellsThere, Zenon
<1> QED
  BY <1>1, <1>2, <1>3, CellsThere, Zenon

\* Nobody reads or has borrowed these cells.
Free(ins, w, t, s, i, n) ==
    \A k \in Nat : s.off + i < k /\ k <= s.off + i + n =>
        /\ ~Within(w.buf, s.arr, k) /\ ~Within(t.slice, s.arr, k)
        /\ \A j \in Inputs : ~ReadsAt(ins[j], s.arr, k) /\ ~LendsAt(ins[j], s.arr, k)

\* A store in cells that nobody reads changes nothing for those who read others.
LEMMA GoodStored ==
    ASSUME NEW m, NEW g, NEW w, NEW text, NEW ins, NEW txts, NEW t,
           Good(m, g, w, text, ins, txts, t),
           NEW s, Fits(m, s), s.arr # 1, NEW i \in Nat, NEW txt \in Seq(Byte),
           i + Len(txt) <= s.cap, Free(ins, w, t, s, i, Len(txt))
    PROVE  Good(Written(m, s, i, txt), Written(g, s, i, txt), w, text, ins, txts, t)
<1> DEFINE m2 == Written(m, s, i, txt)
           g2 == Written(g, s, i, txt)
<1>1. /\ m \in Arrays /\ g \in Arrays /\ Len(m) \in Nat /\ Len(g) = Len(m)
      /\ \A a \in 1..Len(m) : Len(g[a]) = Len(m[a])
      /\ MemoryOK(m, g) /\ WriterOK(m, g, w, text) /\ InputsOK(m, g, ins, txts)
      /\ TokenOK(m, t) /\ s \in SliceSet
  BY ArraysAre, Zenon DEF Good, MemoryOK, Fits
<1>2. \A r : Fits(m, r) => Fits(g, r)
  BY <1>1 DEF Fits
<1>3. /\ m2 \in Arrays /\ Len(m2) = Len(m) /\ Extends(m, m2) /\ Stored(m, m2, s, i, txt)
      /\ g2 \in Arrays /\ Len(g2) = Len(g) /\ Extends(g, g2) /\ Stored(g, g2, s, i, txt)
      /\ \A a \in 1..Len(m) : a # s.arr => m2[a] = m[a]
      /\ \A a \in 1..Len(g) : a # s.arr => g2[a] = g[a]
  <2> HIDE DEF m2, g2
  <2>1. /\ m2 \in Arrays /\ Len(m2) = Len(m) /\ Extends(m, m2) /\ Stored(m, m2, s, i, txt)
        /\ \A a \in 1..Len(m) : a # s.arr => m2[a] = m[a]
    <3>1. m2 = Written(m, s, i, txt) /\ m \in Arrays
      BY <1>1, Zenon DEF m2
    <3>2. IsStored(m, m2, s, i, txt)
      BY <3>1, WrittenIs, Zenon
    <3> QED
      BY <3>2, Zenon DEF IsStored
  <2>2. Fits(g, s) /\ g2 = Written(g, s, i, txt) /\ g \in Arrays
    BY <1>1, <1>2, Zenon DEF g2
  <2>3. /\ g2 \in Arrays /\ Len(g2) = Len(g) /\ Extends(g, g2) /\ Stored(g, g2, s, i, txt)
        /\ \A a \in 1..Len(g) : a # s.arr => g2[a] = g[a]
    <3>1. IsStored(g, g2, s, i, txt)
      BY <2>2, <1>1, WrittenIs, Zenon
    <3> QED
      BY <3>1, Zenon DEF IsStored
  <2> QED
    BY <2>1, <2>3
<1> HIDE DEF m2, g2
<1>4. MemoryOK(m2, g2)
  <2>1. 1 \in 1..Len(m) /\ m[1] = <<NUL>> /\ g[1] = <<NUL>>
    BY <1>1, Zenon DEF MemoryOK
  <2>2. m2[1] = <<NUL>> /\ g2[1] = <<NUL>> /\ 1 \in 1..Len(m2) /\ Len(g2) = Len(m2)
    BY <2>1, <1>1, <1>3, Zenon
  <2>3. \A a \in 1..Len(m2) : Len(g2[a]) = Len(m2[a])
    BY <1>1, <1>3, Zenon DEF Extends
  <2> QED
    BY <1>3, <2>2, <2>3, Zenon DEF MemoryOK
<1>5. WriterOK(m2, g2, w, text)
  <2>1. Fits(g, w.buf)
    BY <1>1, <1>2, Zenon DEF WriterOK
  <2>2. \A k \in Nat : Within(w.buf, s.arr, k) =>
            ~(s.off + i < k /\ k <= s.off + i + Len(txt))
    BY Zenon DEF Free
  <2>3. Untouched(g, g2, w.buf)
    BY <1>1, <1>3, <2>1, <2>2, StoreUntouched, Zenon
  <2> QED
    BY <1>1, <1>3, <2>3, WriterKept, Zenon
<1>6. TokenOK(m2, t)
  <2>1. Fits(m, t.slice)
    BY <1>1, Zenon DEF TokenOK
  <2>2. \A k \in Nat : Within(t.slice, s.arr, k) =>
            ~(s.off + i < k /\ k <= s.off + i + Len(txt))
    BY Zenon DEF Free
  <2>3. Untouched(m, m2, t.slice)
    BY <1>1, <1>3, <2>1, <2>2, StoreUntouched, Zenon
  <2> QED
    BY <1>1, <1>3, <2>3, TokenKept, Zenon
<1>7. ASSUME NEW j \in Inputs
      PROVE  InputOK(m2, g2, ins[j], txts[j])
  <2>1. InputOK(m, g, ins[j], txts[j])
    BY <1>1, Zenon DEF InputsOK
  <2>2. ASSUME ins[j].stage = "open"
        PROVE  Untouched(m, m2, ins[j].buf)
    <3>1. Fits(m, ins[j].buf)
      BY <2>1, <2>2, Zenon DEF InputOK
    <3>2. \A k \in Nat : Within(ins[j].buf, s.arr, k) =>
              ~(s.off + i < k /\ k <= s.off + i + Len(txt))
      BY <2>2, Zenon DEF Free, ReadsAt
    <3> QED
      BY <1>1, <1>3, <3>1, <3>2, StoreUntouched, Zenon
  <2>3. ASSUME ins[j].stage = "open"
        PROVE  OwnerKeeps(g, g2, ins[j])
    <3> SUFFICES ASSUME ins[j].restore # <<>>
                 PROVE  g2[ins[j].buf.arr][ins[j].buf.off + ins[j].buf.len]
                            = g[ins[j].buf.arr][ins[j].buf.off + ins[j].buf.len]
      BY Zenon DEF OwnerKeeps
    <3> DEFINE a == ins[j].buf.arr
               k == ins[j].buf.off + ins[j].buf.len
    <3>1. Fits(m, ins[j].buf)
      BY <2>1, <2>3, Zenon DEF InputOK
    <3>2. a \in Nat /\ k \in Nat
      <4>1. ins[j].buf \in SliceSet
        BY <3>1, Zenon DEF Fits
      <4>2. ins[j].buf.arr \in Nat /\ ins[j].buf.off \in Nat /\ ins[j].buf.len \in Nat
        BY <4>1, SliceIs, Zenon
      <4>3. \A x, y \in Nat : x + y \in Nat
        OBVIOUS
      <4> QED
        BY <4>2, <4>3, Zenon
    <3>3. LendsAt(ins[j], a, k)
      BY <2>3, Zenon DEF LendsAt
    <3> HIDE DEF a, k
    <3>4. a \in 1..Len(g) /\ k \in 1..Len(g[a])
      BY <3>2, <3>3, <1>1, RolesThere, Zenon
    <3>5. ~(a = s.arr /\ s.off + i < k /\ k <= s.off + i + Len(txt))
      BY <3>2, <3>3, Zenon DEF Free
    <3>6. g2[a][k] = g[a][k]
      BY <1>3, <3>4, <3>5, Zenon DEF Stored
    <3> QED
      BY <3>6 DEF a, k
  <2> QED
    BY <1>1, <1>3, <2>1, <2>2, <2>3, InputKept, Zenon
<1>8. InputsOK(m2, g2, ins, txts)
  BY <1>1, <1>7, Zenon DEF InputsOK
<1>9. AllUnlent(m2, g2, ins)
  <2> SUFFICES ASSUME NEW a \in 1..Len(m2), NEW k \in 1..Len(m2[a]),
                      \A j \in Inputs : ~LendsAt(ins[j], a, k)
               PROVE  m2[a][k] = g2[a][k]
    BY Zenon DEF AllUnlent, Unlent
  <2>1. a \in 1..Len(m) /\ k \in 1..Len(m[a]) /\ a \in 1..Len(g) /\ k \in 1..Len(g[a])
    BY <1>1, <1>3, Zenon DEF Extends
  <2>2. m[a][k] = g[a][k]
    BY <2>1, Zenon DEF Good, AllUnlent, Unlent
  <2>3. CASE a = s.arr /\ s.off + i < k /\ k <= s.off + i + Len(txt)
    BY <2>1, <2>3, <1>3, Zenon DEF Stored
  <2>4. CASE ~(a = s.arr /\ s.off + i < k /\ k <= s.off + i + Len(txt))
    BY <2>1, <2>2, <2>4, <1>3, Zenon DEF Stored
  <2> QED
    BY <2>3, <2>4
<1> QED
  BY <1>4, <1>5, <1>6, <1>8, <1>9, Zenon DEF Good, m2, g2

--------------------------------------------------------------------------------
(* The byte that is lent for the NUL *)

LEMMA LongerIs ==
    ASSUME NEW b \in SliceSet, NEW n \in Nat
    PROVE  LET s == [b EXCEPT !.len = @ + n]
           IN  /\ s \in SliceSet /\ s.arr = b.arr /\ s.off = b.off /\ s.cap = b.cap
               /\ s.len = b.len + n
  BY DEF SliceSet

LEMMA NextIs ==
    ASSUME NEW b \in SliceSet, NEW s, s = [b EXCEPT !.len = @ + 1]
    PROVE  /\ s \in SliceSet /\ s.arr = b.arr /\ s.off = b.off /\ s.cap = b.cap
           /\ s.len = b.len + 1
  BY LongerIs

\* Cell e of an array is stored, which nobody but an Input reads.
IsOneStored(m, g, w, text, t, m2, arr, e, c) ==
    /\ m2 \in Arrays /\ Extends(m, m2) /\ Len(m2) = Len(m)
    /\ \A a \in 1..Len(m) : \A k \in 1..Len(m[a]) :
           m2[a][k] = IF a = arr /\ k = e THEN c ELSE m[a][k]
    /\ MemoryOK(m2, g) /\ WriterOK(m2, g, w, text) /\ TokenOK(m2, t)
    /\ \A r : Fits(m, r) /\ ~Within(r, arr, e) => Untouched(m, m2, r)

\* One cell is stored: what holds of the memory whose owner does not know of it.
LEMMA StoreOne ==
    ASSUME NEW m, NEW g, NEW w, NEW text, NEW ins, NEW txts, NEW t,
           Good(m, g, w, text, ins, txts, t),
           NEW s, Fits(m, s), NEW n \in Nat, n < s.cap, s.arr # 1, NEW c \in Byte,
           ~Within(t.slice, s.arr, s.off + n + 1),
           NEW m2, m2 = Written(m, s, n, <<c>>)
    PROVE  IsOneStored(m, g, w, text, t, m2, s.arr, s.off + n + 1, c)
<1>1. /\ m \in Arrays /\ g \in Arrays /\ MemoryOK(m, g) /\ WriterOK(m, g, w, text)
      /\ TokenOK(m, t) /\ s \in SliceSet /\ s.arr \in 1..Len(m)
  BY Zenon DEF Good, MemoryOK, Fits
<1>2. s.off \in Nat /\ s.cap \in Nat /\ s.arr \in Nat
  BY <1>1, SliceIs
<1>3. <<c>> \in Seq(Byte) /\ Len(<<c>>) = 1 /\ <<c>>[1] = c
  OBVIOUS
<1>4. n + Len(<<c>>) <= s.cap
  BY <1>2, <1>3
<1>5. /\ m2 \in Arrays /\ Len(m2) = Len(m) /\ Extends(m, m2) /\ Stored(m, m2, s, n, <<c>>)
      /\ \A a \in 1..Len(m) : a # s.arr => m2[a] = m[a]
  <2> DEFINE one == <<c>>
  <2>1. m \in Arrays /\ one \in Seq(Byte) /\ n + Len(one) <= s.cap /\ m2 = Written(m, s, n, one)
    BY <1>1, <1>3, <1>4, Zenon
  <2> HIDE DEF one
  <2>2. IsStored(m, m2, s, n, one)
    BY <2>1, WrittenIs, Zenon
  <2> QED
    BY <2>2, Zenon DEF IsStored, one
<1>6. \A k \in Nat : s.off + n < k /\ k <= s.off + n + Len(<<c>>) <=> k = s.off + n + 1
  BY <1>2, <1>3
<1>7. ASSUME NEW a \in 1..Len(m), NEW k \in 1..Len(m[a])
      PROVE  m2[a][k] = IF a = s.arr /\ k = s.off + n + 1 THEN c ELSE m[a][k]
  <2>1. k \in Nat
    BY <1>1, ArraysAre
  <2>2. CASE a = s.arr /\ k = s.off + n + 1
    <3>1. m2[a][k] = <<c>>[k - s.off - n]
      BY <1>5, <1>6, <2>1, <2>2, Zenon DEF Stored
    <3>2. k - s.off - n = 1
      BY <1>2, <2>2
    <3> QED
      BY <3>1, <3>2, <2>2, <1>3, Zenon
  <2>3. CASE ~(a = s.arr /\ k = s.off + n + 1)
    BY <1>5, <1>6, <2>1, <2>3, Zenon DEF Stored
  <2> QED
    BY <2>2, <2>3
<1>8. ASSUME NEW r, Fits(m, r), ~Within(r, s.arr, s.off + n + 1)
      PROVE  Untouched(m, m2, r)
  <2>1. \A k \in Nat : Within(r, s.arr, k) =>
            ~(s.off + n < k /\ k <= s.off + n + Len(<<c>>))
    BY <1>6, <1>8, Zenon
  <2> QED
    BY <1>1, <1>3, <1>5, <1>8, <2>1, StoreUntouched, Zenon
<1>9. MemoryOK(m2, g)
  <2>1. /\ 1 \in 1..Len(m) /\ m[1] = <<NUL>> /\ g[1] = <<NUL>> /\ Len(g) = Len(m)
        /\ \A a \in 1..Len(m) : Len(g[a]) = Len(m[a])
    BY <1>1, Zenon DEF MemoryOK
  <2>2. m2[1] = <<NUL>>
    BY <2>1, <1>5, Zenon
  <2>3. 1 \in 1..Len(m2) /\ Len(g) = Len(m2) /\ \A a \in 1..Len(m2) : Len(g[a]) = Len(m2[a])
    BY <2>1, <1>5, Zenon DEF Extends
  <2> QED
    BY <1>1, <1>5, <2>1, <2>2, <2>3, Zenon DEF MemoryOK
<1>10. WriterOK(m2, g, w, text)
  <2>1. Untouched(g, g, w.buf)
    BY Zenon DEF Untouched
  <2> QED
    BY <1>1, <1>5, <2>1, WriterKept, Zenon
<1>11. TokenOK(m2, t)
  <2>1. Untouched(m, m2, t.slice)
    BY <1>1, <1>8, Zenon DEF TokenOK
  <2> QED
    BY <1>1, <1>5, <2>1, TokenKept, Zenon
<1> QED
  BY <1>5, <1>7, <1>8, <1>9, <1>10, <1>11, Zenon DEF IsOneStored

\* An Input begins whose NUL is written over the byte after the slice.
LEMMA GoodLent ==
    ASSUME NEW m, NEW g, NEW w, NEW text, NEW ins, NEW txts, NEW t,
           Good(m, g, w, text, ins, txts, t),
           NEW i \in Inputs, ins[i].stage # "open", NEW txt \in Seq(Byte),
           NEW b, Fits(m, b), b.len < b.cap, b.arr # 1, Says(m, b, txt),
           MayRead(ins, w, t, b),
           ~Within(t.slice, b.arr, b.off + b.len + 1),
           \A j \in Inputs : ins[j].stage = "open" =>
               ~Within(ins[j].buf, b.arr, b.off + b.len + 1),
           NEW in \in InputSet, in.stage = "open", in.start = 0, in.pos = 0,
           in.buf = [b EXCEPT !.len = @ + 1], in.restore = <<m[b.arr][b.off + b.len + 1]>>
    PROVE  Good(Written(m, b, b.len, <<NUL>>), g, w, text,
                [ins EXCEPT ![i] = in], [txts EXCEPT ![i] = txt], t)
<1> DEFINE m2 == Written(m, b, b.len, <<NUL>>)
           ins2 == [ins EXCEPT ![i] = in]
           txts2 == [txts EXCEPT ![i] = txt]
           c == b.off + b.len + 1
<1>1. /\ DOMAIN ins = Inputs /\ DOMAIN txts = Inputs /\ m \in Arrays
      /\ b \in SliceSet /\ b.arr \in 1..Len(m)
  BY Zenon DEF Good, InputsOK, MemoryOK, Fits
<1>2. /\ DOMAIN ins2 = Inputs /\ DOMAIN txts2 = Inputs /\ ins2[i] = in /\ txts2[i] = txt
      /\ \A j \in Inputs : j # i => ins2[j] = ins[j] /\ txts2[j] = txts[j]
  BY <1>1
<1>3. /\ b.arr \in Nat /\ b.off \in Nat /\ b.len \in Nat /\ b.cap \in Nat /\ c \in Nat
      /\ c \in 1..Len(m[b.arr])
  <2>1. b.arr \in Nat /\ b.off \in Nat /\ b.len \in Nat /\ b.cap \in Nat
    BY <1>1, SliceIs
  <2>2. b.off + b.cap <= Len(m[b.arr]) /\ Len(m[b.arr]) \in Nat
    BY <1>1, ArraysAre DEF Fits
  <2> QED
    BY <2>1, <2>2
<1>4. /\ in.buf \in SliceSet /\ in.buf.arr = b.arr /\ in.buf.off = b.off /\ in.buf.cap = b.cap
      /\ in.buf.len = b.len + 1
  BY <1>1, NextIs, Zenon
<1>5. /\ m2 \in Arrays /\ Extends(m, m2) /\ Len(m2) = Len(m)
      /\ \A a \in 1..Len(m) : \A k \in 1..Len(m[a]) :
             m2[a][k] = IF a = b.arr /\ k = c THEN NUL ELSE m[a][k]
      /\ MemoryOK(m2, g) /\ WriterOK(m2, g, w, text) /\ TokenOK(m2, t)
      /\ \A r : Fits(m, r) /\ ~Within(r, b.arr, c) => Untouched(m, m2, r)
  <2>1. NUL \in Byte /\ m2 = Written(m, b, b.len, <<NUL>>)
    BY DEF Byte
  <2> HIDE DEF m2
  <2>2. IsOneStored(m, g, w, text, t, m2, b.arr, b.off + b.len + 1, NUL)
    BY <1>3, <2>1, StoreOne, Zenon
  <2> QED
    BY <2>2, Zenon DEF IsOneStored
<1> HIDE DEF m2, ins2, txts2
<1> HIDE DEF c
<1>6. \A a : \A k \in Nat : /\ LendsAt(in, a, k) <=> a = b.arr /\ k = c
                            /\ ReadsAt(in, a, k) => Within(b, a, k)
  <2> SUFFICES ASSUME NEW a, NEW k \in Nat
               PROVE  /\ LendsAt(in, a, k) <=> a = b.arr /\ k = c
                      /\ ReadsAt(in, a, k) => Within(b, a, k)
    BY Zenon
  <2>1. in.buf.off + in.buf.len = c
    BY <1>3, <1>4 DEF c
  <2>2. in.restore # <<>>
    OBVIOUS
  <2>3. LendsAt(in, a, k) <=> a = b.arr /\ k = c
    BY <1>4, <2>1, <2>2, Zenon DEF LendsAt
  <2>4. Within(in.buf, a, k) <=> a = b.arr /\ b.off < k /\ k <= c
    BY <1>4, <2>1, Zenon DEF Within
  <2>5. k <= c /\ k # c => k <= b.off + b.len
    BY <1>3 DEF c
  <2> QED
    BY <2>3, <2>4, <2>5, Zenon DEF ReadsAt, Within
<1>7. \A a, k : ~LendsAt(ins[i], a, k)
  BY Zenon DEF LendsAt
<1>8. \A j \in Inputs : ~ReadsAt(ins[j], b.arr, c) /\ ~LendsAt(ins[j], b.arr, c)
  <2> SUFFICES ASSUME NEW j \in Inputs
               PROVE  ~ReadsAt(ins[j], b.arr, c) /\ ~LendsAt(ins[j], b.arr, c)
    OBVIOUS
  <2>1. ~ReadsAt(ins[j], b.arr, c)
    BY Zenon DEF ReadsAt, c
  <2>2. LendsAt(ins[j], b.arr, c) => Within(ins[j].buf, b.arr, c)
    BY <1>3, RolesThere, Zenon
  <2> QED
    BY <2>1, <2>2, Zenon DEF LendsAt, c
<1>9. ASSUME NEW a \in Nat, NEW k \in Nat
      PROVE  Exclusive(ins2, w, t, a, k)
  <2>1. Exclusive(ins, w, t, a, k)
    BY Zenon DEF Good, RolesOK
  <2>2. ReadsAt(in, a, k) =>
            /\ ~SpareAt(w.buf, a, k)
            /\ t.own => ~SpareAt(t.slice, a, k)
            /\ \A j \in Inputs : ~LendsAt(ins[j], a, k)
    BY <1>6, Zenon DEF MayRead
  <2>3. ASSUME NEW j \in Inputs, LendsAt(ins2[j], a, k)
        PROVE  /\ \A l \in Inputs : l # j => ~LendsAt(ins2[l], a, k) /\ ~ReadsAt(ins2[l], a, k)
               /\ ~Within(t.slice, a, k)
    <3>1. CASE j = i
      <4>1. a = b.arr /\ k = c
        BY <3>1, <2>3, <1>2, <1>6, Zenon
      <4> QED
        BY <3>1, <4>1, <1>2, <1>8, Zenon DEF c
    <3>2. CASE j # i
      <4>1. LendsAt(ins[j], a, k)
        BY <3>2, <2>3, <1>2, Zenon
      <4>2. /\ \A l \in Inputs : l # j => ~LendsAt(ins[l], a, k) /\ ~ReadsAt(ins[l], a, k)
            /\ ~Within(t.slice, a, k)
        BY <4>1, <2>1, Zenon DEF Exclusive
      <4>3. ~LendsAt(in, a, k) /\ ~ReadsAt(in, a, k)
        BY <4>1, <1>6, <1>8, <2>2, Zenon
      <4> QED
        BY <4>2, <4>3, <1>2, Zenon
    <3> QED
      BY <3>1, <3>2
  <2>4. ASSUME NEW j \in Inputs, ReadsAt(ins2[j], a, k)
        PROVE  ~SpareAt(w.buf, a, k) /\ (t.own => ~SpareAt(t.slice, a, k))
    <3>1. CASE j = i
      BY <3>1, <2>4, <2>2, <1>2, Zenon
    <3>2. CASE j # i
      BY <3>2, <2>4, <2>1, <1>2, Zenon DEF Exclusive
    <3> QED
      BY <3>1, <3>2
  <2> QED
    BY <2>1, <2>3, <2>4, Zenon DEF Exclusive
<1>10. AllUnlent(m2, g, ins2)
  <2> SUFFICES ASSUME NEW a \in 1..Len(m2), NEW k \in 1..Len(m2[a]),
                      \A j \in Inputs : ~LendsAt(ins2[j], a, k)
               PROVE  m2[a][k] = g[a][k]
    BY Zenon DEF AllUnlent, Unlent
  <2>1. a \in 1..Len(m) /\ k \in 1..Len(m[a])
    BY <1>5, Zenon DEF Extends
  <2>2. k \in Nat
    BY <1>1, <2>1, ArraysAre
  <2>3. ~(a = b.arr /\ k = c) /\ \A j \in Inputs : ~LendsAt(ins[j], a, k)
    BY <1>2, <1>6, <1>7, <2>2, Zenon
  <2>4. m[a][k] = g[a][k]
    BY <2>1, <2>3, Zenon DEF Good, AllUnlent, Unlent
  <2> QED
    BY <1>5, <2>1, <2>3, <2>4, Zenon
<1>11. ASSUME NEW j \in Inputs, j # i
       PROVE  InputOK(m2, g, ins2[j], txts2[j])
  <2>1. InputOK(m, g, ins[j], txts[j])
    BY Zenon DEF Good, InputsOK
  <2>2. ins[j].stage = "open" => Untouched(m, m2, ins[j].buf)
    BY <1>5, <2>1, Zenon DEF InputOK, c
  <2>3. OwnerKeeps(g, g, ins[j])
    BY Zenon DEF OwnerKeeps
  <2>4. InputOK(m2, g, ins[j], txts[j])
    BY <1>1, <1>5, <2>1, <2>2, <2>3, InputKept, Zenon
  <2> QED
    BY <1>2, <1>11, <2>4, Zenon
<1>12. InputOK(m2, g, in, txt)
  <2>1. Fits(m2, in.buf)
    <3>1. /\ b.off + b.cap <= Len(m[b.arr]) /\ b.arr \in 1..Len(m2)
          /\ Len(m2[b.arr]) = Len(m[b.arr])
      BY <1>1, <1>5, Zenon DEF Fits, Extends
    <3>2. b.len + 1 <= b.cap
      BY <1>3
    <3> QED
      BY <1>4, <3>1, <3>2, Zenon DEF Fits
  <2>2. in.buf.len > 0 /\ in.start < in.buf.len /\ in.pos < in.buf.len
    BY <1>3, <1>4
  <2>3. Len(txt) = b.len /\ \A k \in 1..b.len : m[b.arr][b.off + k] = txt[k]
    BY Zenon DEF Says
  <2>4. /\ Len(Append(txt, NUL)) = b.len + 1 /\ Append(txt, NUL)[b.len + 1] = NUL
        /\ \A k \in 1..b.len : Append(txt, NUL)[k] = txt[k]
    BY <2>3, <1>3
  <2>5. ASSUME NEW k \in 1..(b.len + 1)
        PROVE  m2[b.arr][b.off + k] = Append(txt, NUL)[k]
    <3>1. CASE k = b.len + 1
      <4>1. b.off + k = c
        BY <3>1, <1>3 DEF c
      <4>2. m2[b.arr][c] = NUL
        BY <1>1, <1>3, <1>5, Zenon
      <4> QED
        BY <3>1, <4>1, <4>2, <2>4, Zenon
    <3>2. CASE k # b.len + 1
      <4>1. k \in 1..b.len /\ b.off + k # c /\ b.off + k \in 1..Len(m[b.arr])
        <5>1. Len(m[b.arr]) \in Nat /\ c = b.off + b.len + 1
          BY <1>1, ArraysAre DEF c
        <5> QED
          <6> DEFINE x == b.off
                     n == b.len
                     l == Len(m[b.arr])
          <6>1. x \in Nat /\ n \in Nat /\ l \in Nat /\ c \in Nat /\ c = x + n + 1
            BY <1>3, <5>1, Zenon
          <6>2. c <= l
            BY <1>3, <5>1
          <6>3. k \in 1..(n + 1) /\ k # n + 1
            BY <3>2, Zenon
          <6> HIDE DEF x, n, l
          <6>4. k \in 1..n /\ x + k # c /\ x + k \in 1..l
            <7>1. k \in 1..n
              BY <6>1, <6>3
            <7>2. x + k # c
              BY <6>1, <6>3
            <7>3. x + k \in 1..l
              BY <6>1, <6>2, <7>1
            <7> QED
              BY <7>1, <7>2, <7>3
          <6> QED
            BY <6>4, Zenon DEF x, n, l
      <4>2. m2[b.arr][b.off + k] = m[b.arr][b.off + k]
        BY <4>1, <1>1, <1>5, Zenon
      <4> QED
        BY <4>1, <4>2, <2>3, <2>4, Zenon
    <3> QED
      BY <3>1, <3>2
  <2>6. Says(m2, in.buf, Append(txt, NUL))
    BY <1>4, <2>4, <2>5, Zenon DEF Says
  <2>7. in.restore = <<g[in.buf.arr][in.buf.off + in.buf.len]>>
    <3>1. m[b.arr][c] = g[b.arr][c]
      BY <1>1, <1>3, <1>8, Zenon DEF Good, AllUnlent, Unlent
    <3>2. in.buf.off + in.buf.len = c
      BY <1>3, <1>4 DEF c
    <3> QED
      BY <1>4, <3>1, <3>2, Zenon DEF c
  <2> QED
    BY <1>4, <2>1, <2>2, <2>6, <2>7, Zenon DEF InputOK
<1>13. InputsOK(m2, g, ins2, txts2)
  BY <1>2, <1>11, <1>12, Zenon DEF InputsOK
<1> QED
  BY <1>5, <1>9, <1>10, <1>13, Zenon DEF Good, RolesOK, m2, ins2, txts2

LEMMA RestoredIs ==
    ASSUME NEW in \in InputSet
    PROVE  LET r == [in EXCEPT !.stage = "restored", !.restore = <<>>]
           IN  r \in InputSet /\ r.stage = "restored" /\ r.restore = <<>>
<1> <<>> \in Seq(Byte)
  OBVIOUS
<1> QED
  BY DEF InputSet

\* An Input is no more: the others keep their roles.
LEMMA RolesClosed ==
    ASSUME NEW ins, NEW ins2, NEW w, NEW t, RolesOK(ins, w, t), NEW i \in Inputs,
           ins2[i].stage # "open", \A j \in Inputs : j # i => ins2[j] = ins[j]
    PROVE  RolesOK(ins2, w, t)
<1>1. \A j \in Inputs : \A a, k : /\ LendsAt(ins2[j], a, k) => LendsAt(ins[j], a, k)
                                  /\ ReadsAt(ins2[j], a, k) => ReadsAt(ins[j], a, k)
  BY Zenon DEF LendsAt, ReadsAt
<1>2. ASSUME NEW a \in Nat, NEW k \in Nat
      PROVE  Exclusive(ins2, w, t, a, k)
  <2>1. Exclusive(ins, w, t, a, k)
    BY Zenon DEF RolesOK
  <2> QED
    BY <2>1, <1>1, Zenon DEF Exclusive
<1> QED
  BY <1>2, Zenon DEF RolesOK

\* Restore, of an Input that has borrowed nothing, or no more.
LEMMA GoodClosed ==
    ASSUME NEW m, NEW g, NEW w, NEW text, NEW ins, NEW txts, NEW t,
           Good(m, g, w, text, ins, txts, t), NEW i \in Inputs, ins[i].restore = <<>>
    PROVE  Good(m, g, w, text,
                [ins EXCEPT ![i] = [@ EXCEPT !.stage = "restored", !.restore = <<>>]], txts, t)
<1> DEFINE in == [ins[i] EXCEPT !.stage = "restored", !.restore = <<>>]
           ins2 == [ins EXCEPT ![i] = in]
<1>1. /\ DOMAIN ins = Inputs /\ DOMAIN txts = Inputs /\ InputOK(m, g, ins[i], txts[i])
      /\ ins[i] \in InputSet /\ txts[i] \in Seq(Byte)
  BY Zenon DEF Good, InputsOK, InputOK
<1>2. in \in InputSet /\ in.stage = "restored" /\ in.restore = <<>>
  <2> DEFINE q == ins[i]
  <2>1. q \in InputSet
    BY <1>1
  <2> HIDE DEF q
  <2>2. LET r == [q EXCEPT !.stage = "restored", !.restore = <<>>]
        IN  r \in InputSet /\ r.stage = "restored" /\ r.restore = <<>>
    BY <2>1, RestoredIs, Zenon
  <2> QED
    BY <2>2, Zenon DEF q
<1>3. DOMAIN ins2 = Inputs /\ ins2[i] = in /\ \A j \in Inputs : j # i => ins2[j] = ins[j]
  BY <1>1
<1> HIDE DEF in, ins2
<1>4. ins2[i].stage # "open"
  BY <1>2, <1>3
<1>5. RolesOK(ins2, w, t)
  BY <1>3, <1>4, RolesClosed, Zenon DEF Good
<1>6. InputOK(m, g, in, txts[i])
  <2>1. in.stage # "open"
    BY <1>2
  <2> QED
    BY <1>1, <1>2, <2>1, Zenon DEF InputOK
<1>7. InputsOK(m, g, ins2, txts)
  BY <1>1, <1>3, <1>6, Zenon DEF Good, InputsOK
<1>8. AllUnlent(m, g, ins2)
  <2>1. \A j \in Inputs : \A a, k : LendsAt(ins[j], a, k) => LendsAt(ins2[j], a, k)
    BY <1>3, Zenon DEF LendsAt
  <2> QED
    BY <2>1, Zenon DEF Good, AllUnlent, Unlent
<1> QED
  BY <1>5, <1>7, <1>8, Zenon DEF Good, ins2, in

\* Restore puts the byte back that its owner has written.
LEMMA GoodRestored ==
    ASSUME NEW m, NEW g, NEW w, NEW text, NEW ins, NEW txts, NEW t,
           Good(m, g, w, text, ins, txts, t), NEW i \in Inputs, ins[i].restore # <<>>
    PROVE  Good(Written(m, ins[i].buf, ins[i].buf.len - 1, ins[i].restore), g, w, text,
                [ins EXCEPT ![i] = [@ EXCEPT !.stage = "restored", !.restore = <<>>]], txts, t)
<1> DEFINE b == ins[i].buf
           n == b.len - 1
           c == g[b.arr][b.off + b.len]
           m2 == Written(m, b, n, ins[i].restore)
           in == [ins[i] EXCEPT !.stage = "restored", !.restore = <<>>]
           ins2 == [ins EXCEPT ![i] = in]
<1>1. /\ DOMAIN ins = Inputs /\ DOMAIN txts = Inputs /\ InputOK(m, g, ins[i], txts[i])
      /\ m \in Arrays /\ g \in Arrays /\ Len(g) = Len(m)
      /\ \A a \in 1..Len(m) : Len(g[a]) = Len(m[a])
      /\ ins[i] \in InputSet /\ txts[i] \in Seq(Byte)
  BY Zenon DEF Good, InputsOK, InputOK, MemoryOK
<1>2. /\ ins[i].stage = "open" /\ Fits(m, b) /\ b.len > 0 /\ b.arr # 1
      /\ ins[i].restore = <<c>>
  BY <1>1, Zenon DEF InputOK
<1>3. /\ b.arr \in Nat /\ b.off \in Nat /\ b.len \in Nat /\ b.cap \in Nat /\ b.len <= b.cap
      /\ b.arr \in 1..Len(m) /\ b.off + b.cap <= Len(m[b.arr]) /\ Len(m[b.arr]) \in Nat
  BY <1>1, <1>2, ArraysAre, SliceIs, Zenon DEF Fits
<1> HIDE DEF b
<1>4. /\ n \in Nat /\ n < b.cap /\ b.off + n + 1 = b.off + b.len
      /\ b.off + b.len \in Nat /\ b.off + b.len \in 1..Len(m[b.arr])
  BY <1>2, <1>3
<1> DEFINE e == b.off + b.len
<1>5. LendsAt(ins[i], b.arr, e)
  BY <1>2, Zenon DEF LendsAt, b
<1>6. /\ \A j \in Inputs : j # i => ~LendsAt(ins[j], b.arr, e) /\ ~ReadsAt(ins[j], b.arr, e)
      /\ ~Within(t.slice, b.arr, e)
  <2>1. Exclusive(ins, w, t, b.arr, e)
    BY <1>3, <1>4, Zenon DEF Good, RolesOK
  <2> QED
    BY <2>1, <1>5, Zenon DEF Exclusive
<1>7. \A a, k : LendsAt(ins[i], a, k) => a = b.arr /\ k = e
  BY Zenon DEF LendsAt, b
<1> HIDE DEF e
<1>8. b.off + n + 1 = e /\ e \in 1..Len(m[b.arr]) /\ e \in Nat
  BY <1>4 DEF e
<1>9. c \in Byte /\ c = g[b.arr][e]
  <2>1. e \in 1..Len(g[b.arr]) /\ b.arr \in 1..Len(g)
    BY <1>1, <1>3, <1>8, Zenon
  <2>2. g[b.arr] \in Seq(Byte)
    BY <1>1, <2>1, ArraysAre, Zenon
  <2>3. g[b.arr][e] \in Byte
    BY <2>1, <2>2
  <2> QED
    BY <2>3, Zenon DEF e
<1> HIDE DEF n, c
<1>10. /\ m2 \in Arrays /\ Extends(m, m2) /\ Len(m2) = Len(m)
       /\ \A a \in 1..Len(m) : \A k \in 1..Len(m[a]) :
              m2[a][k] = IF a = b.arr /\ k = e THEN c ELSE m[a][k]
       /\ MemoryOK(m2, g) /\ WriterOK(m2, g, w, text) /\ TokenOK(m2, t)
       /\ \A r : Fits(m, r) /\ ~Within(r, b.arr, e) => Untouched(m, m2, r)
  <2>1. ~Within(t.slice, b.arr, b.off + n + 1)
    BY <1>6, <1>8, Zenon
  <2>2. m2 = Written(m, b, n, <<c>>) /\ n \in Nat /\ n < b.cap
    BY <1>2, <1>4, Zenon
  <2> HIDE DEF m2
  <2>3. IsOneStored(m, g, w, text, t, m2, b.arr, b.off + n + 1, c)
    BY <1>2, <1>9, <2>1, <2>2, StoreOne, Zenon
  <2> QED
    BY <2>3, <1>8, Zenon DEF IsOneStored
<1>11. in \in InputSet /\ in.stage = "restored" /\ in.restore = <<>>
  <2> DEFINE q == ins[i]
  <2>1. q \in InputSet
    BY <1>1
  <2> HIDE DEF q
  <2>2. LET r == [q EXCEPT !.stage = "restored", !.restore = <<>>]
        IN  r \in InputSet /\ r.stage = "restored" /\ r.restore = <<>>
    BY <2>1, RestoredIs, Zenon
  <2> QED
    BY <2>2, Zenon DEF q
<1>12. DOMAIN ins2 = Inputs /\ ins2[i] = in /\ \A j \in Inputs : j # i => ins2[j] = ins[j]
  BY <1>1
<1> HIDE DEF in, ins2, m2
<1>13. RolesOK(ins2, w, t)
  <2>1. ins2[i].stage # "open"
    BY <1>11, <1>12
  <2> QED
    BY <2>1, <1>12, RolesClosed, Zenon DEF Good
<1>14. ASSUME NEW j \in Inputs, j # i
       PROVE  InputOK(m2, g, ins[j], txts[j])
  <2>1. InputOK(m, g, ins[j], txts[j])
    BY Zenon DEF Good, InputsOK
  <2>2. ASSUME ins[j].stage = "open"
        PROVE  Untouched(m, m2, ins[j].buf)
    <3>1. ~Within(ins[j].buf, b.arr, e)
      BY <1>6, <1>14, <2>2, Zenon DEF ReadsAt
    <3> QED
      BY <1>10, <2>1, <2>2, <3>1, Zenon DEF InputOK
  <2>3. OwnerKeeps(g, g, ins[j])
    BY Zenon DEF OwnerKeeps
  <2> QED
    BY <1>1, <1>10, <2>1, <2>2, <2>3, InputKept, Zenon
<1>15. InputOK(m2, g, in, txts[i])
  <2>1. in.stage # "open"
    BY <1>11
  <2> QED
    BY <1>1, <1>11, <2>1, Zenon DEF InputOK
<1>16. InputsOK(m2, g, ins2, txts)
  BY <1>1, <1>12, <1>14, <1>15, Zenon DEF InputsOK
<1>17. AllUnlent(m2, g, ins2)
  <2> SUFFICES ASSUME NEW a \in 1..Len(m2), NEW k \in 1..Len(m2[a]),
                      \A j \in Inputs : ~LendsAt(ins2[j], a, k)
               PROVE  m2[a][k] = g[a][k]
    BY Zenon DEF AllUnlent, Unlent
  <2>1. a \in 1..Len(m) /\ k \in 1..Len(m[a])
    BY <1>10, Zenon DEF Extends
  <2>2. CASE a = b.arr /\ k = e
    BY <2>1, <2>2, <1>9, <1>10, Zenon
  <2>3. CASE ~(a = b.arr /\ k = e)
    <3>1. \A j \in Inputs : ~LendsAt(ins[j], a, k)
      BY <1>7, <1>12, <2>3, Zenon
    <3>2. m[a][k] = g[a][k]
      BY <2>1, <3>1, Zenon DEF Good, AllUnlent, Unlent
    <3> QED
      BY <2>1, <2>3, <3>2, <1>10, Zenon
  <2> QED
    BY <2>2, <2>3
<1> QED
  BY <1>10, <1>13, <1>16, <1>17, Zenon DEF Good, m2, ins2, in, n, b

--------------------------------------------------------------------------------
(* What the guards of the program say of the roles *)

LEMMA PlacesAre ==
    ASSUME NEW s \in SliceSet, NEW lo \in Nat, NEW hi \in Nat, NEW a, NEW k \in Nat
    PROVE  <<a, k>> \in Places(s, lo, hi) <=> a = s.arr /\ s.off + lo < k /\ k <= s.off + hi
<1>1. s.off \in Nat
  BY SliceIs
<1>2. ASSUME <<a, k>> \in Places(s, lo, hi)
      PROVE  a = s.arr /\ s.off + lo < k /\ k <= s.off + hi
  <2>1. PICK j \in (lo + 1)..hi : <<a, k>> = <<s.arr, s.off + j>>
    BY <1>2, Zenon DEF Places
  <2>2. a = s.arr /\ k = s.off + j
    BY <2>1
  <2>3. j \in Int /\ lo < j /\ j <= hi
    OBVIOUS
  <2> QED
    BY <1>1, <2>2, <2>3
<1>3. ASSUME a = s.arr, s.off + lo < k, k <= s.off + hi
      PROVE  <<a, k>> \in Places(s, lo, hi)
  <2>1. k - s.off \in (lo + 1)..hi /\ k = s.off + (k - s.off)
    BY <1>1, <1>3
  <2> QED
    BY <1>3, <2>1, Zenon DEF Places
<1> QED
  BY <1>2, <1>3

LEMMA InvInputs ==
    ASSUME Inv, NEW i \in Inputs
    PROVE  /\ InputOK(mem, given, inputs[i], texts[i])
           /\ inputs[i] \in InputSet /\ inputs[i].buf \in SliceSet
           /\ IsOpen(i) <=> inputs[i].stage = "open"
<1>1. InputOK(mem, given, inputs[i], texts[i])
  BY Zenon DEF Inv, Good, InputsOK
<1>2. inputs[i] \in InputSet
  BY <1>1, Zenon DEF InputOK
<1>3. inputs[i].buf \in SliceSet
  BY <1>2 DEF InputSet
<1> QED
  BY <1>1, <1>2, <1>3, Zenon DEF IsOpen

LEMMA LentAre ==
    ASSUME Inv, NEW a \in Nat, NEW k \in Nat
    PROVE  <<a, k>> \in AllLent <=> \E i \in Inputs : LendsAt(inputs[i], a, k)
<1>1. ASSUME NEW i \in Inputs, IsOpen(i)
      PROVE  <<a, k>> \in Lent(i) <=> LendsAt(inputs[i], a, k)
  <2>1. /\ inputs[i].stage = "open" /\ inputs[i].buf \in SliceSet
        /\ InputOK(mem, given, inputs[i], texts[i])
    BY <1>1, InvInputs, Zenon
  <2>2. CASE inputs[i].restore = <<>>
    BY <2>2, Zenon DEF Lent, LendsAt
  <2>3. CASE inputs[i].restore # <<>>
    <3> DEFINE b == inputs[i].buf
    <3>1. b \in SliceSet /\ b.len > 0 /\ b.off \in Nat /\ b.len \in Nat
      BY <2>1, SliceIs, Zenon DEF InputOK
    <3> DEFINE n == b.len - 1
    <3>2. Lent(i) = Places(b, n, n + 1)
      BY <2>3, Zenon DEF Lent, LenOf
    <3> HIDE DEF b
    <3>3. n \in Nat /\ n + 1 \in Nat /\ n + 1 = b.len
      BY <3>1
    <3> HIDE DEF n
    <3>4. <<a, k>> \in Lent(i) <=> a = b.arr /\ b.off + n < k /\ k <= b.off + b.len
      <4>1. Lent(i) = Places(b, n, b.len)
        BY <3>2, <3>3, Zenon
      <4>2. <<a, k>> \in Places(b, n, b.len) <=>
                a = b.arr /\ b.off + n < k /\ k <= b.off + b.len
        BY <3>1, <3>3, PlacesAre, Zenon
      <4> QED
        BY <4>1, <4>2, Zenon
    <3>5. b.off + n < k /\ k <= b.off + b.len <=> k = b.off + b.len
      BY <3>1, <3>3
    <3>6. LendsAt(inputs[i], a, k) <=> a = b.arr /\ k = b.off + b.len
      BY <2>1, <2>3, Zenon DEF LendsAt, b
    <3> QED
      BY <3>4, <3>5, <3>6, Zenon
  <2> QED
    BY <2>2, <2>3
<1>2. <<a, k>> \in AllLent <=> \E i \in Inputs : IsOpen(i) /\ <<a, k>> \in Lent(i)
  BY Zenon DEF AllLent
<1>3. \A i \in Inputs : LendsAt(inputs[i], a, k) => IsOpen(i)
  BY Zenon DEF LendsAt, IsOpen
<1> QED
  BY <1>1, <1>2, <1>3, Zenon

\* The guard about the places of a slice, from lo to hi.
LEMMA NotLent ==
    ASSUME Inv, NEW s \in SliceSet, NEW lo \in Nat, NEW hi \in Nat,
           Places(s, lo, hi) \cap AllLent = {}
    PROVE  \A k \in Nat : s.off + lo < k /\ k <= s.off + hi =>
               \A i \in Inputs : ~LendsAt(inputs[i], s.arr, k)
<1> SUFFICES ASSUME NEW k \in Nat, s.off + lo < k, k <= s.off + hi, NEW i \in Inputs,
                    LendsAt(inputs[i], s.arr, k)
             PROVE  FALSE
  BY Zenon
<1>1. s.arr \in Nat
  BY SliceIs
<1>2. <<s.arr, k>> \in Places(s, lo, hi)
  BY PlacesAre, Zenon
<1>3. <<s.arr, k>> \in AllLent
  BY <1>1, LentAre, Zenon
<1> QED
  BY <1>2, <1>3, Zenon

LEMMA ReadableIs ==
    ASSUME Inv, NEW b \in SliceSet, Readable(b)
    PROVE  \A a, k \in Nat : Within(b, a, k) => \A i \in Inputs : ~LendsAt(inputs[i], a, k)
<1>1. b.off \in Nat /\ b.len \in Nat /\ 0 \in Nat /\ b.off + 0 = b.off
  BY SliceIs
<1>2. Places(b, 0, b.len) \cap AllLent = {}
  BY Zenon DEF Readable
<1>3. \A k \in Nat : b.off + 0 < k /\ k <= b.off + b.len =>
          \A i \in Inputs : ~LendsAt(inputs[i], b.arr, k)
  BY <1>1, <1>2, NotLent, Zenon
<1> QED
  BY <1>1, <1>3, Zenon DEF Within

\* The byte after a slice is not in use.
LEMMA NextUnused ==
    ASSUME Inv, NEW b \in SliceSet, Places(b, b.len, b.len + 1) \cap InUse = {}
    PROVE  /\ ~Within(token.slice, b.arr, b.off + b.len + 1)
           /\ \A j \in Inputs : inputs[j].stage = "open" =>
                  ~Within(inputs[j].buf, b.arr, b.off + b.len + 1)
<1> DEFINE c == b.off + b.len + 1
<1>1. b.off \in Nat /\ b.len \in Nat /\ b.len + 1 \in Nat /\ c \in Nat
      /\ b.off + b.len < c /\ c <= b.off + (b.len + 1)
  BY SliceIs
<1> HIDE DEF c
<1>2. <<b.arr, c>> \in Places(b, b.len, b.len + 1)
  BY <1>1, PlacesAre, Zenon
<1>3. <<b.arr, c>> \notin InUse
  BY <1>2, Zenon
<1>4. ASSUME NEW s \in SliceSet, Within(s, b.arr, c)
      PROVE  <<b.arr, c>> \in Places(s, 0, s.len)
  <2>1. s.off \in Nat /\ s.len \in Nat /\ 0 \in Nat /\ s.off + 0 = s.off
    BY SliceIs
  <2>2. s.off + 0 < c /\ c <= s.off + s.len /\ b.arr = s.arr
    BY <1>4, <2>1, Zenon DEF Within
  <2> QED
    BY <1>1, <2>1, <2>2, PlacesAre, Zenon
<1>5. token.slice \in SliceSet
  BY Zenon DEF Inv, Good, TokenOK, Fits
<1>6. ASSUME Within(token.slice, b.arr, c)
      PROVE  FALSE
  <2>1. <<b.arr, c>> \in Places(token.slice, 0, token.slice.len)
    BY <1>4, <1>5, <1>6, Zenon
  <2>2. Places(token.slice, 0, token.slice.len) \subseteq InUse
    BY Zenon DEF InUse
  <2> QED
    BY <2>1, <2>2, <1>3, Zenon
<1>7. ASSUME NEW j \in Inputs, inputs[j].stage = "open"
      PROVE  ~Within(inputs[j].buf, b.arr, c)
  <2>1. IsOpen(j) /\ inputs[j].buf \in SliceSet
    BY <1>7, InvInputs, Zenon
  <2> QED
    BY <1>3, <1>4, <2>1, Zenon DEF InUse
<1> QED
  BY <1>6, <1>7, Zenon DEF c

LEMMA LimitArith ==
    ASSUME NEW so \in Nat, NEW sl \in Nat, NEW sc \in Nat, NEW lo \in Nat, NEW hi \in Nat,
           NEW l \in Nat, lo <= hi, hi <= sl, sl <= sc, so + sc <= l
    PROVE  /\ hi - lo <= hi - lo /\ (so + lo) + (hi - lo) <= l
           /\ (so + lo) + (hi - lo) = so + hi /\ so <= so + lo /\ so + hi <= so + sl
  OBVIOUS

\* s[lo:hi:hi].
LEMMA LimitedIs ==
    ASSUME NEW m \in Arrays, NEW s, Fits(m, s), NEW lo \in Nat, NEW hi \in Nat, lo <= hi,
           hi <= s.len, NEW r, r = Limited(s, lo, hi)
    PROVE  /\ Fits(m, r)
           /\ \A a, k \in Nat : /\ Within(r, a, k) => Within(s, a, k) /\ k <= s.off + hi
                                /\ ~SpareAt(r, a, k)
<1>1. /\ s.arr \in Nat /\ s.off \in Nat /\ s.len \in Nat /\ s.cap \in Nat
      /\ s.arr \in 1..Len(m) /\ s.len <= s.cap /\ s.off + s.cap <= Len(m[s.arr])
      /\ Len(m[s.arr]) \in Nat
  BY ArraysAre, SliceIs, Zenon DEF Fits
<1>2. /\ r.arr = s.arr /\ r.off = s.off + lo /\ r.len = hi - lo /\ r.cap = hi - lo
  BY DEF Limited, Slice
<1>3. r \in SliceSet
  <2>1. s.off + lo \in Nat /\ hi - lo \in Nat
    BY <1>1
  <2> QED
    BY <1>1, <2>1 DEF Limited, Slice, SliceSet
<1> DEFINE l == Len(m[s.arr])
<1>4. l \in Nat /\ s.off + s.cap <= l
  BY <1>1
<1> HIDE DEF l
<1>5. /\ r.len <= r.cap /\ r.off + r.cap <= l
      /\ r.off + r.len = s.off + hi /\ r.off + r.cap = s.off + hi /\ s.off <= r.off
      /\ s.off + hi <= s.off + s.len
  <2>1. /\ hi - lo <= hi - lo /\ (s.off + lo) + (hi - lo) <= l
        /\ (s.off + lo) + (hi - lo) = s.off + hi /\ s.off <= s.off + lo
        /\ s.off + hi <= s.off + s.len
    BY <1>1, <1>4, LimitArith, Zenon
  <2> QED
    BY <1>2, <2>1, Zenon
<1>6. Fits(m, r)
  BY <1>1, <1>2, <1>3, <1>5, Zenon DEF Fits, l
<1>7. ASSUME NEW a \in Nat, NEW k \in Nat
      PROVE  /\ Within(r, a, k) => Within(s, a, k) /\ k <= s.off + hi
             /\ ~SpareAt(r, a, k)
  <2>1. r.off \in Nat
    BY <1>3, SliceIs, Zenon
  <2>2. r.off < k => s.off < k
    BY <1>1, <1>5, <2>1
  <2>3. k <= s.off + hi => k <= s.off + s.len
    BY <1>1, <1>5, <2>1
  <2>4. ~(s.off + hi < k /\ k <= s.off + hi)
    BY <1>1
  <2> QED
    BY <1>2, <1>5, <2>2, <2>3, <2>4, Zenon DEF Within, SpareAt
<1> QED
  BY <1>6, <1>7

--------------------------------------------------------------------------------
(* The steps *)

LEMMA InitInv == Init => Inv
<1> SUFFICES ASSUME Init
             PROVE  Inv
  OBVIOUS
<1>1. PICK cap \in Capacities, expand \in BOOLEAN :
          /\ StartsEmpty(cap) /\ StartsWriter(cap, expand)
          /\ inputs = [i \in Inputs |-> Unused] /\ texts = [i \in Inputs |-> <<>>]
          /\ token = NoToken
  BY Zenon DEF Init
<1> DEFINE row == [k \in 1..cap |-> NUL]
<1>2. cap \in Nat /\ NUL \in Byte
  BY BuffersAssumption DEF Byte
<1>3. row \in Seq(Byte) /\ Len(row) = cap
  <2>1. row \in [1..cap -> Byte]
    BY <1>2
  <2> QED
    BY <1>2, <2>1
<1>4. mem = <<<<NUL>>, row>> /\ given = mem
  BY <1>1, Zenon DEF StartsEmpty
<1> HIDE DEF row
<1>5. /\ mem \in Arrays /\ Len(mem) = 2 /\ mem[1] = <<NUL>> /\ mem[2] = row
      /\ Len(mem[1]) = 1 /\ Len(mem[2]) = cap
  BY <1>2, <1>3, <1>4 DEF Arrays
<1>6. MemoryOK(mem, given)
  <2>1. 1 \in 1..Len(mem)
    BY <1>5
  <2> QED
    BY <1>4, <1>5, <2>1, Zenon DEF MemoryOK
<1>7. WriterOK(mem, given, writer, written)
  <2>1. writer = [buf |-> Slice(2, 0, 0, cap), expand |-> expand, err |-> FALSE] /\ written = <<>>
    BY <1>1, Zenon DEF StartsWriter
  <2> DEFINE b == Slice(2, 0, 0, cap)
  <2>2. b \in SliceSet /\ b.arr = 2 /\ b.off = 0 /\ b.len = 0 /\ b.cap = cap
    BY <1>2 DEF Slice, SliceSet
  <2> HIDE DEF b
  <2>3. /\ writer \in [buf : SliceSet, expand : BOOLEAN, err : BOOLEAN]
        /\ writer.buf = b /\ ~writer.err
    BY <2>1, <2>2, Zenon DEF b
  <2>4. Fits(mem, b)
    BY <1>2, <1>5, <2>2 DEF Fits
  <2>5. written \in Seq(Byte) /\ Says(given, b, written)
    BY <2>1, <2>2 DEF Says
  <2> QED
    BY <2>2, <2>3, <2>4, <2>5 DEF WriterOK
<1>8. TokenOK(mem, token)
  <2>1. /\ NoToken \in [slice : SliceSet, own : BOOLEAN, text : Seq(Byte)]
        /\ NoToken.slice = Nil /\ NoToken.text = <<>>
    BY DEF NoToken, Nil, Slice, SliceSet
  <2>2. Nil \in SliceSet /\ Nil.arr = 1 /\ Nil.off = 0 /\ Nil.len = 0 /\ Nil.cap = 0
    BY DEF Nil, Slice, SliceSet
  <2>3. Fits(mem, Nil) /\ Says(mem, Nil, <<>>)
    BY <1>5, <2>2 DEF Fits, Says
  <2> QED
    BY <1>1, <2>1, <2>3, Zenon DEF TokenOK
<1>9. \A i \in Inputs : inputs[i] = Unused /\ texts[i] = <<>>
  BY <1>1, Zenon
<1>10. Unused \in InputSet /\ Unused.stage = "unused" /\ Unused.restore = <<>>
  BY DEF Unused, nullBuffer, Slice, SliceSet, InputSet
<1>11. InputsOK(mem, given, inputs, texts)
  <2>1. InputOK(mem, given, Unused, <<>>)
    BY <1>10 DEF InputOK
  <2> QED
    BY <1>1, <1>9, <2>1, Zenon DEF InputsOK
<1>12. ASSUME NEW a \in Nat, NEW k \in Nat
       PROVE  Exclusive(inputs, writer, token, a, k)
  <2>1. \A i \in Inputs : ~LendsAt(inputs[i], a, k) /\ ~ReadsAt(inputs[i], a, k)
    BY <1>9, <1>10 DEF LendsAt, ReadsAt
  <2>2. ~Within(token.slice, a, k) /\ ~SpareAt(token.slice, a, k)
    BY <1>1 DEF NoToken, Nil, Slice, Within, SpareAt
  <2> QED
    BY <2>1, <2>2, Zenon DEF Exclusive
<1>13. AllUnlent(mem, given, inputs)
  BY <1>4, Zenon DEF AllUnlent, Unlent
<1> QED
  BY <1>6, <1>7, <1>8, <1>11, <1>12, <1>13, Zenon DEF Inv, Good, RolesOK

\* A character ends within the text.
LEMMA RuneLenIs ==
    ASSUME NEW text, Len(text) \in Nat, NEW pos \in Nat, pos < Len(text) - 1
    PROVE  RuneLen(text, pos) \in Nat /\ pos + RuneLen(text, pos) <= Len(text) - 1
  BY DEF RuneLen

LEMMA InputMovesInv == ASSUME Inv, NEW i \in Inputs, InputMoves(i) PROVE Inv'
<1>1. /\ IsOpen(i) /\ UNCHANGED <<mem, given, texts, writers, token>>
      /\ \/ \E n \in -1..2 : Move(i, n)
         \/ MoveRune(i)
         \/ \E mark \in 0..LenOf(i) : Rewind(i, mark)
         \/ Skip(i)
         \/ Reset(i)
  BY Zenon DEF InputMoves
<1>2. /\ InputOK(mem, given, inputs[i], texts[i]) /\ inputs[i] \in InputSet
      /\ inputs[i].stage = "open" /\ DOMAIN inputs = Inputs
  BY <1>1, InvInputs, Zenon DEF Inv, Good, InputsOK
<1>3. /\ inputs[i].start \in Nat /\ inputs[i].pos \in Nat /\ inputs[i].buf.len \in Nat
      /\ inputs[i].start < inputs[i].buf.len /\ inputs[i].pos < inputs[i].buf.len
      /\ LenOf(i) = inputs[i].buf.len - 1
  BY <1>2 DEF InputOK, InputSet, SliceSet, LenOf
<1> DEFINE Turns(q) ==
        /\ DOMAIN inputs' = Inputs /\ inputs'[i] = q
        /\ \A j \in Inputs : j # i => inputs'[j] = inputs[j]
<1>4. ASSUME NEW p \in Nat, p <= LenOf(i), MovesTo(i, p)
      PROVE  Moved(inputs[i], inputs'[i]) /\ Turns(inputs'[i])
  <2> DEFINE q == inputs[i]
             r == [q EXCEPT !.pos = p]
  <2>1. inputs' = [inputs EXCEPT ![i] = r]
    BY <1>4 DEF MovesTo
  <2>2. Turns(r)
    BY <1>2, <2>1
  <2>3. q \in InputSet /\ q.start < q.buf.len /\ p < q.buf.len
    BY <1>2, <1>3, <1>4
  <2> HIDE DEF q
  <2>4. Moved(q, r)
    BY <2>3 DEF Moved, InputSet
  <2> QED
    BY <2>2, <2>4, Zenon DEF q
<1>5. ASSUME Skip(i)
      PROVE  Moved(inputs[i], inputs'[i]) /\ Turns(inputs'[i])
  <2> DEFINE q == inputs[i]
             r == [q EXCEPT !.start = q.pos]
  <2>1. inputs' = [inputs EXCEPT ![i] = r]
    BY <1>5 DEF Skip
  <2>2. Turns(r)
    BY <1>2, <2>1
  <2>3. q \in InputSet /\ q.pos < q.buf.len
    BY <1>2, <1>3
  <2> HIDE DEF q
  <2>4. Moved(q, r)
    BY <2>3 DEF Moved, InputSet
  <2> QED
    BY <2>2, <2>4, Zenon DEF q
<1>6. ASSUME Reset(i)
      PROVE  Moved(inputs[i], inputs'[i]) /\ Turns(inputs'[i])
  <2> DEFINE q == inputs[i]
             r == [q EXCEPT !.start = 0, !.pos = 0]
  <2>1. inputs' = [inputs EXCEPT ![i] = r]
    BY <1>2, <1>6 DEF Reset
  <2>2. Turns(r)
    BY <1>2, <2>1
  <2>3. q \in InputSet /\ 0 < q.buf.len
    BY <1>2, <1>3
  <2> HIDE DEF q
  <2>4. Moved(q, r)
    BY <2>3 DEF Moved, InputSet
  <2> QED
    BY <2>2, <2>4, Zenon DEF q
<1>7. Moved(inputs[i], inputs'[i]) /\ Turns(inputs'[i])
  <2>1. CASE \E n \in -1..2 : Move(i, n)
    <3>1. PICK n \in -1..2 : Move(i, n)
      BY <2>1
    <3>2. inputs[i].pos + n \in Nat /\ inputs[i].pos + n <= LenOf(i) /\ MovesTo(i, inputs[i].pos + n)
      BY <1>3, <3>1 DEF Move
    <3> QED
      BY <1>4, <3>2
  <2>2. CASE MoveRune(i)
    <3> DEFINE n == RuneLen(Bytes(inputs[i].buf), inputs[i].pos)
    <3>1. ~PeekErr(i, 0) /\ MovesTo(i, inputs[i].pos + n)
      BY <2>2, Zenon DEF MoveRune
    <3>2. ~(LenOf(i) <= inputs[i].pos + 0)
      BY <3>1, Zenon DEF PeekErr
    <3>3. Len(Bytes(inputs[i].buf)) = inputs[i].buf.len
      <4>1. mem \in Arrays /\ Fits(mem, inputs[i].buf)
        BY <1>2, Zenon DEF Inv, Good, MemoryOK, InputOK
      <4> QED
        BY <4>1, BytesAre, Zenon DEF Says
    <3>4. inputs[i].pos < Len(Bytes(inputs[i].buf)) - 1
      BY <1>3, <3>2, <3>3
    <3>5. n \in Nat /\ inputs[i].pos + n <= Len(Bytes(inputs[i].buf)) - 1
      BY <1>3, <3>3, <3>4, RuneLenIs, Zenon
    <3> HIDE DEF n
    <3>6. inputs[i].pos + n \in Nat /\ inputs[i].pos + n <= LenOf(i)
      BY <1>3, <3>3, <3>5
    <3> QED
      BY <1>4, <3>1, <3>6
  <2>3. CASE \E mark \in 0..LenOf(i) : Rewind(i, mark)
    <3>1. PICK mark \in 0..LenOf(i) : Rewind(i, mark)
      BY <2>3
    <3>2. inputs[i].start + mark \in Nat /\ inputs[i].start + mark <= LenOf(i)
          /\ MovesTo(i, inputs[i].start + mark)
      BY <1>3, <3>1 DEF Rewind
    <3> QED
      BY <1>4, <3>2
  <2> QED
    BY <1>1, <1>5, <1>6, <2>1, <2>2, <2>3
<1>8. Good(mem, given, writer, written, inputs', texts, token)
  BY <1>7, GoodMoved, Zenon DEF Inv
<1> QED
  BY <1>1, <1>8, Zenon DEF Inv, writers

\* A slice of what an Input reads is kept.
LEMMA KeepsRead ==
    ASSUME Inv, NEW i \in Inputs, IsOpen(i), NEW lo \in Nat, NEW hi \in Nat, lo <= hi,
           hi <= LenOf(i), Keeps(Limited(inputs[i].buf, lo, hi), TRUE)
    PROVE  Good(mem, given, writer, written, inputs, texts, token')
<1> DEFINE s == inputs[i].buf
           r == Limited(s, lo, hi)
<1>1. /\ InputOK(mem, given, inputs[i], texts[i]) /\ inputs[i].stage = "open"
      /\ s \in SliceSet /\ Fits(mem, s) /\ mem \in Arrays
  BY InvInputs, Zenon DEF Inv, Good, MemoryOK, InputOK
<1>2. /\ s.len \in Nat /\ s.off \in Nat /\ hi <= s.len - 1
  BY <1>1, SliceIs, Zenon DEF LenOf
<1>3. token' = [slice |-> r, own |-> TRUE, text |-> Bytes(r)]
  BY Zenon DEF Keeps
<1>4. hi <= s.len
  BY <1>2
<1> HIDE DEF r, s
<1>5. /\ Fits(mem, r)
      /\ \A a, k \in Nat : /\ Within(r, a, k) => Within(s, a, k) /\ k <= s.off + hi
                           /\ ~SpareAt(r, a, k)
  BY <1>1, <1>4, LimitedIs, Zenon DEF r
<1>6. Bytes(r) \in Seq(Byte) /\ Says(mem, r, Bytes(r)) /\ r \in SliceSet
  BY <1>1, <1>5, BytesAre, Zenon DEF Fits
<1>7. /\ token' \in [slice : SliceSet, own : BOOLEAN, text : Seq(Byte)]
      /\ token'.slice = r /\ token'.text = Bytes(r)
  BY <1>3, <1>6
<1>8. TokenOK(mem, token')
  BY <1>5, <1>6, <1>7, Zenon DEF TokenOK
<1>9. ASSUME NEW a \in Nat, NEW k \in Nat, Within(r, a, k)
      PROVE  ~SpareAt(writer.buf, a, k) /\ \A j \in Inputs : ~LendsAt(inputs[j], a, k)
  <2>1. Within(s, a, k) /\ k <= s.off + hi
    BY <1>5, <1>9, Zenon
  <2>2. k # s.off + s.len
    BY <1>2, <2>1
  <2>3. ~LendsAt(inputs[i], a, k)
    BY <2>2, Zenon DEF LendsAt, s
  <2>4. ReadsAt(inputs[i], a, k)
    BY <1>1, <2>1, <2>3, Zenon DEF ReadsAt, s
  <2>5. Exclusive(inputs, writer, token, a, k)
    BY Zenon DEF Inv, Good, RolesOK
  <2> QED
    BY <2>3, <2>4, <2>5, Zenon DEF Exclusive
<1>10. MayKeep(inputs, writer, token')
  BY <1>5, <1>7, <1>9, Zenon DEF MayKeep
<1> QED
  BY <1>8, <1>10, GoodToken, Zenon DEF Inv

LEMMA InputGivesBytesInv == ASSUME Inv, NEW i \in Inputs, InputGivesBytes(i) PROVE Inv'
<1>1. /\ IsOpen(i) /\ Keeps(Limited(inputs[i].buf, 0, LenOf(i)), TRUE)
      /\ UNCHANGED <<mem, given, texts, writers, inputs>>
  BY Zenon DEF InputGivesBytes, BytesOf
<1>2. 0 \in Nat /\ LenOf(i) \in Nat /\ 0 <= LenOf(i) /\ LenOf(i) <= LenOf(i)
  <2>1. inputs[i].buf.len \in Nat /\ inputs[i].buf.len > 0
    BY <1>1, InvInputs, SliceIs, Zenon DEF InputOK
  <2> QED
    BY <2>1 DEF LenOf
<1>3. Good(mem, given, writer, written, inputs, texts, token')
  BY <1>1, <1>2, KeepsRead, Zenon
<1> QED
  BY <1>1, <1>3, Zenon DEF Inv, writers

LEMMA InputShiftsInv == ASSUME Inv, NEW i \in Inputs, InputShifts(i) PROVE Inv'
<1>1. /\ IsOpen(i) /\ inputs[i].start <= inputs[i].pos /\ Skip(i)
      /\ Keeps(Limited(inputs[i].buf, inputs[i].start, inputs[i].pos), TRUE)
      /\ UNCHANGED <<mem, given, texts, writers>>
  BY Zenon DEF InputShifts, Lexeme
<1>2. /\ InputOK(mem, given, inputs[i], texts[i]) /\ inputs[i] \in InputSet
      /\ inputs[i].stage = "open" /\ DOMAIN inputs = Inputs
  BY <1>1, InvInputs, Zenon DEF Inv, Good, InputsOK
<1>3. /\ inputs[i].start \in Nat /\ inputs[i].pos \in Nat /\ inputs[i].pos <= LenOf(i)
      /\ inputs[i].pos < inputs[i].buf.len
  BY <1>2 DEF InputOK, InputSet, SliceSet, LenOf
<1>4. Good(mem, given, writer, written, inputs, texts, token')
  BY <1>1, <1>3, KeepsRead, Zenon
<1> DEFINE q == inputs[i]
           r == [q EXCEPT !.start = q.pos]
<1>5. inputs' = [inputs EXCEPT ![i] = r]
  BY <1>1 DEF Skip
<1>6. /\ DOMAIN inputs' = Inputs /\ inputs'[i] = r
      /\ \A j \in Inputs : j # i => inputs'[j] = inputs[j]
  BY <1>2, <1>5
<1>7. q \in InputSet /\ q.pos < q.buf.len
  BY <1>2, <1>3
<1> HIDE DEF q
<1>8. Moved(q, r)
  BY <1>7 DEF Moved, InputSet
<1> HIDE DEF r
<1>9. Moved(inputs[i], inputs'[i])
  BY <1>6, <1>8, Zenon DEF q
<1>10. Good(mem, given, writer, written, inputs', texts, token')
  BY <1>4, <1>6, <1>9, GoodMoved, Zenon
<1> QED
  BY <1>1, <1>10, Zenon DEF Inv, writers

LEMMA WriterGivesBytesInv == ASSUME Inv, WriterGivesBytes PROVE Inv'
<1> DEFINE b == writer.buf
<1>1. /\ Readable(b) /\ token' = [slice |-> b, own |-> FALSE, text |-> Bytes(b)]
      /\ UNCHANGED <<mem, given, writers, inputs, texts>>
  BY Zenon DEF WriterGivesBytes, Keeps
<1>2. mem \in Arrays /\ Fits(mem, b) /\ b \in SliceSet
  BY Zenon DEF Inv, Good, MemoryOK, WriterOK, Fits
<1>3. Bytes(b) \in Seq(Byte) /\ Says(mem, b, Bytes(b))
  BY <1>2, BytesAre, Zenon
<1>4. /\ token' \in [slice : SliceSet, own : BOOLEAN, text : Seq(Byte)]
      /\ token'.slice = b /\ token'.text = Bytes(b) /\ ~token'.own
  BY <1>1, <1>2, <1>3
<1>5. TokenOK(mem, token')
  BY <1>2, <1>3, <1>4, Zenon DEF TokenOK
<1>6. ASSUME NEW a \in Nat, NEW k \in Nat, Within(b, a, k)
      PROVE  ~SpareAt(b, a, k) /\ \A j \in Inputs : ~LendsAt(inputs[j], a, k)
  <2>1. \A j \in Inputs : ~LendsAt(inputs[j], a, k)
    BY <1>1, <1>2, <1>6, ReadableIs, Zenon
  <2>2. k <= b.off + b.len /\ b.off \in Nat /\ b.len \in Nat
    BY <1>2, <1>6, SliceIs, Zenon DEF Within
  <2>3. ~(b.off + b.len < k)
    BY <2>2
  <2> QED
    BY <2>1, <2>3, Zenon DEF SpareAt
<1>7. MayKeep(inputs, writer, token')
  BY <1>4, <1>6, Zenon DEF MayKeep
<1>8. Good(mem, given, writer, written, inputs, texts, token')
  BY <1>5, <1>7, GoodToken, Zenon DEF Inv
<1> QED
  BY <1>1, <1>8, Zenon DEF Inv, writers

LEMMA NoTokenIs ==
    /\ NoToken \in [slice : SliceSet, own : BOOLEAN, text : Seq(Byte)]
    /\ NoToken.slice.arr = 1 /\ NoToken.slice.off = 0 /\ NoToken.slice.len = 0
    /\ NoToken.slice.cap = 0 /\ NoToken.text = <<>>
  BY DEF NoToken, Nil, Slice, SliceSet

LEMMA WriterResetsInv == ASSUME Inv, WriterResets PROVE Inv'
<1> DEFINE b == writer.buf
           w2 == [writer EXCEPT !.buf.len = 0]
<1>1. /\ \A i \in Inputs : IsOpen(i) => inputs[i].buf.arr # b.arr
      /\ writer' = w2 /\ written' = <<>>
      /\ token' = IF token.slice.arr = b.arr THEN NoToken ELSE token
      /\ UNCHANGED <<mem, given, inputs, texts>>
  BY Zenon DEF WriterResets, ResetWriter
<1>2. /\ WriterOK(mem, given, writer, written) /\ Fits(mem, b) /\ b \in SliceSet
      /\ writer \in [buf : SliceSet, expand : BOOLEAN, err : BOOLEAN]
      /\ b.off = 0 /\ b.arr # 1 /\ (writer.err => ~writer.expand)
      /\ mem \in Arrays /\ 1 \in 1..Len(mem) /\ TokenOK(mem, token)
  BY Zenon DEF Inv, Good, WriterOK, MemoryOK, Fits
<1>3. /\ w2 \in [buf : SliceSet, expand : BOOLEAN, err : BOOLEAN]
      /\ w2.buf = [b EXCEPT !.len = 0] /\ w2.expand = writer.expand /\ w2.err = writer.err
  BY <1>2 DEF SliceSet
<1>4. /\ w2.buf \in SliceSet /\ w2.buf.arr = b.arr /\ w2.buf.off = b.off
      /\ w2.buf.len = 0 /\ w2.buf.cap = b.cap
  BY <1>2, <1>3 DEF SliceSet
<1> HIDE DEF w2
<1>5. WriterOK(mem, given, w2, <<>>)
  <2>1. Fits(mem, w2.buf)
    BY <1>2, <1>4, SliceIs DEF Fits
  <2>2. Says(given, w2.buf, <<>>) /\ <<>> \in Seq(Byte)
    BY <1>4 DEF Says
  <2> QED
    BY <1>2, <1>3, <1>4, <2>1, <2>2, Zenon DEF WriterOK
<1>6. \A i \in Inputs : \A a, k : ReadsAt(inputs[i], a, k) => a # b.arr
  BY <1>1, Zenon DEF ReadsAt, Within, IsOpen
<1>7. Good(mem, given, writer, written, inputs, texts, token') /\ token'.slice.arr # b.arr
  <2>1. CASE token.slice.arr # b.arr
    BY <1>1, <2>1, Zenon DEF Inv
  <2>2. CASE token.slice.arr = b.arr
    <3>1. token' = NoToken
      BY <1>1, <2>2
    <3>2. TokenOK(mem, NoToken)
      <4>1. Fits(mem, NoToken.slice) /\ Says(mem, NoToken.slice, NoToken.text)
        <5>1. mem[1] \in Seq(Byte)
          BY <1>2, ArraysAre, Zenon
        <5> QED
          BY <1>2, <5>1, NoTokenIs DEF Fits, Says
      <4> QED
        BY <4>1, NoTokenIs, Zenon DEF TokenOK
    <3>3. \A a, k \in Nat : ~Within(NoToken.slice, a, k) /\ ~SpareAt(NoToken.slice, a, k)
      BY NoTokenIs DEF Within, SpareAt
    <3>4. MayKeep(inputs, writer, NoToken)
      BY <3>3, Zenon DEF MayKeep
    <3>5. Good(mem, given, writer, written, inputs, texts, NoToken)
      BY <3>2, <3>4, GoodToken, Zenon DEF Inv
    <3> QED
      BY <1>2, <3>1, <3>5, NoTokenIs, Zenon
  <2> QED
    BY <2>1, <2>2
<1>8. MayWrite(inputs, w2, token')
  <2> SUFFICES ASSUME NEW a \in Nat, NEW k \in Nat
               PROVE  /\ SpareAt(w2.buf, a, k) => /\ ~Within(token'.slice, a, k)
                                                  /\ \A i \in Inputs : ~ReadsAt(inputs[i], a, k)
                      /\ token'.own /\ SpareAt(token'.slice, a, k) => a # w2.buf.arr
    BY Zenon DEF MayWrite
  <2>1. SpareAt(w2.buf, a, k) => a = b.arr
    BY <1>4, Zenon DEF SpareAt
  <2>2. a = b.arr => ~Within(token'.slice, a, k) /\ ~SpareAt(token'.slice, a, k)
    BY <1>7, Zenon DEF Within, SpareAt
  <2> QED
    BY <1>4, <1>6, <2>1, <2>2, Zenon
<1>9. Good(mem, given, w2, <<>>, inputs, texts, token')
  BY <1>5, <1>7, <1>8, GoodWriter, Zenon
<1> QED
  BY <1>1, <1>9, Zenon DEF Inv

LEMMA InputRestoresInv == ASSUME Inv, NEW i \in Inputs, InputRestores(i) PROVE Inv'
<1>1. /\ mem' = IF inputs[i].restore = <<>> THEN mem
                ELSE Written(mem, inputs[i].buf, inputs[i].buf.len - 1, inputs[i].restore)
      /\ inputs' = [inputs EXCEPT ![i].stage = "restored", ![i].restore = <<>>]
      /\ UNCHANGED <<given, texts, writers, token>>
  BY Zenon DEF InputRestores, Restore, LenOf
<1>2. DOMAIN inputs = Inputs
  BY Zenon DEF Inv, Good, InputsOK
<1>3. inputs' = [inputs EXCEPT ![i] = [@ EXCEPT !.stage = "restored", !.restore = <<>>]]
  BY <1>1, <1>2
<1>4. Good(mem', given, writer, written, inputs', texts, token)
  <2>1. CASE inputs[i].restore = <<>>
    <3>1. mem' = mem
      BY <1>1, <2>1
    <3>2. Good(mem, given, writer, written,
               [inputs EXCEPT ![i] = [@ EXCEPT !.stage = "restored", !.restore = <<>>]],
               texts, token)
      BY <2>1, GoodClosed, Zenon DEF Inv
    <3> QED
      BY <1>3, <3>1, <3>2, Zenon
  <2>2. CASE inputs[i].restore # <<>>
    <3>1. mem' = Written(mem, inputs[i].buf, inputs[i].buf.len - 1, inputs[i].restore)
      BY <1>1, <2>2, Zenon
    <3>2. Good(Written(mem, inputs[i].buf, inputs[i].buf.len - 1, inputs[i].restore),
               given, writer, written,
               [inputs EXCEPT ![i] = [@ EXCEPT !.stage = "restored", !.restore = <<>>]],
               texts, token)
      BY <2>2, GoodRestored, Zenon DEF Inv
    <3> QED
      BY <1>3, <3>1, <3>2, Zenon
  <2> QED
    BY <2>1, <2>2
<1> QED
  BY <1>1, <1>4, Zenon DEF Inv, writers

\* The record of an Input when it begins.
IsOpened(in, buf, restore) ==
    /\ in \in InputSet /\ in.stage = "open" /\ in.buf = buf /\ in.start = 0 /\ in.pos = 0
    /\ in.restore = restore

LEMMA OpenedIs ==
    ASSUME NEW buf \in SliceSet, NEW restore \in Seq(Byte), NEW err \in BOOLEAN, NEW in,
           in = [Unused EXCEPT !.stage = "open", !.buf = buf, !.restore = restore, !.err = err]
    PROVE  IsOpened(in, buf, restore)
<1> DEFINE r == [stage |-> "open", buf |-> buf, start |-> 0, pos |-> 0, err |-> err,
                 restore |-> restore]
<1>1. in = r
  BY DEF Unused
<1>2. "open" \in {"unused", "open", "restored"} /\ 0 \in Nat
  OBVIOUS
<1>3. r \in InputSet
  BY <1>2, Zenon DEF InputSet
<1>4. /\ r.stage = "open" /\ r.buf = buf /\ r.start = 0 /\ r.pos = 0 /\ r.restore = restore
  BY Zenon
<1> QED
  BY <1>1, <1>3, <1>4, Zenon DEF IsOpened

\* There are no roles in an array that there is not yet.
Nobody(ins, w, t, a) ==
    \A k \in Nat : /\ ~Within(w.buf, a, k) /\ ~SpareAt(w.buf, a, k)
                   /\ ~Within(t.slice, a, k) /\ ~SpareAt(t.slice, a, k)
                   /\ \A i \in Inputs : ~LendsAt(ins[i], a, k) /\ ~ReadsAt(ins[i], a, k)

LEMMA GoodMade ==
    ASSUME NEW m, NEW g, NEW w, NEW text, NEW ins, NEW txts, NEW t,
           Good(m, g, w, text, ins, txts, t),
           NEW txt \in Seq(Byte), NEW cap \in Nat, Len(txt) <= cap
    PROVE  /\ Good(Allocated(m, txt, cap), Allocated(g, txt, cap), w, text, ins, txts, t)
           /\ IsAllocated(m, Allocated(m, txt, cap), txt, cap)
           /\ IsAllocated(g, Allocated(g, txt, cap), txt, cap)
           /\ Nobody(ins, w, t, Len(m) + 1) /\ Len(m) + 1 \in Nat /\ Len(m) + 1 # 1
           /\ Len(m) + 1 # w.buf.arr /\ Len(m) + 1 # t.slice.arr /\ Len(g) = Len(m)
<1> DEFINE m2 == Allocated(m, txt, cap)
           g2 == Allocated(g, txt, cap)
           new == Len(m) + 1
<1>1. m \in Arrays /\ g \in Arrays /\ Len(g) = Len(m) /\ 1 \in 1..Len(m)
  BY Zenon DEF Good, MemoryOK
<1>2. IsAllocated(m, m2, txt, cap) /\ IsAllocated(g, g2, txt, cap)
  BY <1>1, AllocatedIs, Zenon
<1> HIDE DEF m2, g2
<1>3. /\ Adds(m, m2) /\ Adds(g, g2) /\ m2 \in Arrays /\ g2 \in Arrays
      /\ g2[Len(m) + 1] = m2[Len(m) + 1]
  BY <1>1, <1>2, Zenon DEF IsAllocated
<1>4. Good(m2, g2, w, text, ins, txts, t)
  BY <1>3, GoodAdded, Zenon
<1>5. new \in Nat /\ new \notin 1..Len(m) /\ new # 1
  BY <1>1, ArraysAre
<1> HIDE DEF new
<1>6. w.buf.arr \in 1..Len(m) /\ t.slice.arr \in 1..Len(m)
  BY Zenon DEF Good, WriterOK, TokenOK, Fits
<1>7. new # w.buf.arr /\ new # t.slice.arr
  BY <1>5, <1>6, Zenon
<1>8. Nobody(ins, w, t, new)
  <2>1. ASSUME NEW k \in Nat, NEW i \in Inputs
        PROVE  ~LendsAt(ins[i], new, k) /\ ~ReadsAt(ins[i], new, k)
    BY <1>5, RolesThere, Zenon
  <2> QED
    BY <1>7, <2>1, Zenon DEF Nobody, Within, SpareAt
<1> QED
  BY <1>1, <1>2, <1>4, <1>5, <1>7, <1>8, Zenon DEF m2, g2, new

\* A slice of the array that has been made.
IsMade(m, s, arr, n, cap, txt) ==
    /\ Fits(m, s) /\ s.arr = arr /\ s.off = 0 /\ s.len = n /\ s.cap = cap
    /\ n = Len(txt) => Says(m, s, txt)

LEMMA MadeSlice ==
    ASSUME NEW m, NEW m2, NEW txt \in Seq(Byte), NEW cap \in Nat, Len(txt) <= cap,
           Len(m) \in Nat, IsAllocated(m, m2, txt, cap), NEW n \in Nat, n <= Len(txt)
    PROVE  IsMade(m2, Slice(Len(m) + 1, 0, n, cap), Len(m) + 1, n, cap, txt)
<1> DEFINE a == Len(m) + 1
           s == Slice(a, 0, n, cap)
<1>0. a \in Nat /\ a = Len(m) + 1
  OBVIOUS
<1> HIDE DEF a
<1>1. /\ s.arr = a /\ s.off = 0 /\ s.len = n /\ s.cap = cap
      /\ s = [arr |-> a, off |-> 0, len |-> n, cap |-> cap]
  BY DEF Slice
<1>2. s \in SliceSet
  BY <1>0, <1>1 DEF SliceSet
<1> HIDE DEF s
<1>3. /\ Len(m2) = Len(m) + 1 /\ Len(m2[a]) = cap
      /\ \A k \in 1..Len(txt) : m2[a][k] = txt[k]
  BY <1>0, Zenon DEF IsAllocated, Adds
<1>4. a \in 1..Len(m2)
  BY <1>0, <1>3
<1>5. n <= cap /\ 0 + cap <= cap
  OBVIOUS
<1>6. Fits(m2, s)
  BY <1>1, <1>2, <1>3, <1>4, <1>5, Zenon DEF Fits
<1>7. ASSUME n = Len(txt)
      PROVE  Says(m2, s, txt)
  <2>1. ASSUME NEW k \in 1..n
        PROVE  m2[a][0 + k] = txt[k]
    <3>1. 0 + k = k
      OBVIOUS
    <3> QED
      BY <1>3, <1>7, <3>1, Zenon
  <2> QED
    BY <1>1, <1>7, <2>1, Zenon DEF Says
<1> QED
  BY <1>1, <1>6, <1>7, Zenon DEF IsMade, s, a

\* Who reads, or may grow into, such an array does not meet anybody.
LEMMA MadeRoles ==
    ASSUME NEW ins, NEW w, NEW t, NEW s, Nobody(ins, w, t, s.arr)
    PROVE  MayRead(ins, w, t, s)
<1> SUFFICES ASSUME NEW a \in Nat, NEW k \in Nat, Within(s, a, k)
             PROVE  /\ ~SpareAt(w.buf, a, k)
                    /\ t.own => ~SpareAt(t.slice, a, k)
                    /\ \A i \in Inputs : ~LendsAt(ins[i], a, k)
  BY Zenon DEF MayRead
<1>1. a = s.arr
  BY Zenon DEF Within
<1> QED
  BY <1>1, Zenon DEF Nobody

\* An Input of nothing reads the NUL of nullBuffer.
LEMMA GoodNull ==
    ASSUME NEW m, NEW g, NEW w, NEW text, NEW ins, NEW txts, NEW t,
           Good(m, g, w, text, ins, txts, t),
           NEW i \in Inputs, ins[i].stage # "open", NEW err \in BOOLEAN
    PROVE  Good(m, g, w, text,
                [ins EXCEPT ![i] = [Unused EXCEPT !.stage = "open", !.buf = nullBuffer,
                                                  !.restore = <<>>, !.err = err]],
                [txts EXCEPT ![i] = <<>>], t)
<1> DEFINE in == [Unused EXCEPT !.stage = "open", !.buf = nullBuffer, !.restore = <<>>, !.err = err]
<1>1. /\ nullBuffer \in SliceSet /\ nullBuffer.arr = 1 /\ nullBuffer.off = 0
      /\ nullBuffer.len = 1 /\ nullBuffer.cap = 1
  BY DEF nullBuffer, Slice, SliceSet
<1>2. <<>> \in Seq(Byte)
  OBVIOUS
<1>3. /\ in \in InputSet /\ in.stage = "open" /\ in.buf = nullBuffer /\ in.start = 0 /\ in.pos = 0
      /\ in.restore = <<>>
  <2> HIDE DEF in
  <2>1. in = [Unused EXCEPT !.stage = "open", !.buf = nullBuffer, !.restore = <<>>, !.err = err]
    BY DEF in
  <2> QED
    <3>1. IsOpened(in, nullBuffer, <<>>)
      BY <1>1, <1>2, <2>1, OpenedIs, Zenon
    <3> QED
      BY <3>1, Zenon DEF IsOpened
<1> HIDE DEF in
<1>4. m \in Arrays /\ 1 \in 1..Len(m) /\ m[1] = <<NUL>> /\ w.buf.arr # 1
  BY Zenon DEF Good, MemoryOK, WriterOK
<1>5. Fits(m, nullBuffer)
  BY <1>1, <1>4 DEF Fits
<1>6. Says(m, nullBuffer, Append(<<>>, NUL))
  BY <1>1, <1>4 DEF Says
<1>7. in.buf.len > 0 /\ in.start < in.buf.len /\ in.pos < in.buf.len
  BY <1>1, <1>3
<1>8. InputOK(m, g, in, <<>>)
  BY <1>2, <1>3, <1>5, <1>6, <1>7, Zenon DEF InputOK
<1>9. MayRead(ins, w, t, in.buf)
  <2> SUFFICES ASSUME NEW a \in Nat, NEW k \in Nat, Within(nullBuffer, a, k)
               PROVE  /\ ~SpareAt(w.buf, a, k)
                      /\ t.own => ~SpareAt(t.slice, a, k)
                      /\ \A j \in Inputs : ~LendsAt(ins[j], a, k)
    BY <1>3, Zenon DEF MayRead
  <2>1. a = 1
    BY <1>1, Zenon DEF Within
  <2>2. Exclusive(ins, w, t, a, k)
    BY Zenon DEF Good, RolesOK
  <2>3. \A j \in Inputs : ~LendsAt(ins[j], a, k)
    BY <2>1, RolesThere, Zenon
  <2> QED
    BY <1>4, <2>1, <2>2, <2>3, Zenon DEF Exclusive, SpareAt
<1> QED
  BY <1>3, <1>8, <1>9, GoodReader, Zenon DEF in

\* The byte after b is free to be lent.
NextFree(ins, t, b) ==
    /\ ~Within(t.slice, b.arr, b.off + b.len + 1)
    /\ \A j \in Inputs : ins[j].stage = "open" => ~Within(ins[j].buf, b.arr, b.off + b.len + 1)

\* NewInputBytes, of what nobody writes.
LEMMA NewInputBytesGood ==
    ASSUME NEW m, NEW g, Good(m, g, writer, written, inputs, texts, token),
           NEW i \in Inputs, inputs[i].stage # "open", NEW b, Fits(m, b),
           MayRead(inputs, writer, token, b), b.len < b.cap => NextFree(inputs, token, b),
           NewInputBytesIn(i, m, g, b)
    PROVE  Good(mem', given', writer, written, inputs', texts', token)
<1> DEFINE text == SubSeq(m[b.arr], b.off + 1, b.off + b.len)
<1>1. \/ /\ b.len = 0
         /\ mem' = m /\ given' = g
         /\ Begins(i, nullBuffer, <<>>, FALSE, text)
      \/ /\ b.len > 0 /\ b.cap > b.len
         /\ mem' = Written(m, b, b.len, <<NUL>>) /\ given' = g
         /\ Begins(i, [b EXCEPT !.len = @ + 1], <<m[b.arr][b.off + b.len + 1]>>, FALSE, text)
      \/ /\ b.len > 0 /\ b.cap = b.len
         /\ mem' = Allocated(m, Append(text, NUL), b.len + 2)
         /\ given' = Allocated(g, Append(text, NUL), b.len + 2)
         /\ Begins(i, Slice(Len(m) + 1, 0, b.len + 1, b.len + 2), <<>>, FALSE, text)
  BY Zenon DEF NewInputBytesIn
<1>2. /\ m \in Arrays /\ b \in SliceSet /\ b.arr \in 1..Len(m) /\ b.len <= b.cap
      /\ b.off + b.cap <= Len(m[b.arr]) /\ m[1] = <<NUL>>
  BY Zenon DEF Good, MemoryOK, Fits
<1>3. text \in Seq(Byte) /\ Says(m, b, text)
  BY <1>2, TextIs, Zenon
<1> HIDE DEF text
<1>4. /\ b.arr \in Nat /\ b.off \in Nat /\ b.len \in Nat /\ b.cap \in Nat
      /\ Len(m) \in Nat /\ Len(m[b.arr]) \in Nat
  BY <1>2, ArraysAre, SliceIs, Zenon
<1>5. Len(text) = b.len
  BY <1>3, Zenon DEF Says
<1>6. NUL \in Byte
  BY DEF Byte
<1>7. CASE /\ b.len = 0 /\ mem' = m /\ given' = g
           /\ Begins(i, nullBuffer, <<>>, FALSE, text)
  <2>1. text = <<>>
    BY <1>3, <1>5, <1>7
  <2>2. FALSE \in BOOLEAN
    OBVIOUS
  <2>3. Good(m, g, writer, written,
             [inputs EXCEPT ![i] = [Unused EXCEPT !.stage = "open", !.buf = nullBuffer,
                                                  !.restore = <<>>, !.err = FALSE]],
             [texts EXCEPT ![i] = <<>>], token)
    BY <2>2, GoodNull, Zenon
  <2> QED
    BY <1>7, <2>1, <2>3, Zenon DEF Begins
<1>8. CASE /\ b.len > 0 /\ b.cap > b.len
           /\ mem' = Written(m, b, b.len, <<NUL>>) /\ given' = g
           /\ Begins(i, [b EXCEPT !.len = @ + 1], <<m[b.arr][b.off + b.len + 1]>>, FALSE, text)
  <2> DEFINE c == m[b.arr][b.off + b.len + 1]
             s == [b EXCEPT !.len = @ + 1]
             in == [Unused EXCEPT !.stage = "open", !.buf = s, !.restore = <<c>>, !.err = FALSE]
  <2>1. b.arr # 1
    <3>1. ASSUME b.arr = 1
          PROVE  FALSE
      <4>1. m[b.arr] = <<NUL>>
        BY <1>2, <3>1
      <4>2. Len(m[b.arr]) = 1
        BY <4>1
      <4> QED
        BY <1>2, <1>4, <1>8, <4>2
    <3> QED
      BY <3>1
  <2>2. b.len < b.cap
    BY <1>4, <1>8
  <2>3. s \in SliceSet
    BY <1>2, NextIs, Zenon
  <2>4. c \in Byte
    <3>1. b.off + b.len + 1 \in 1..Len(m[b.arr])
      BY <1>2, <1>4, <2>2
    <3>2. m[b.arr] \in Seq(Byte)
      BY <1>2, ArraysAre, Zenon
    <3> QED
      BY <3>1, <3>2
  <2> HIDE DEF c
  <2>5. <<c>> \in Seq(Byte) /\ FALSE \in BOOLEAN
    BY <2>4
  <2>6. IsOpened(in, s, <<c>>)
    BY <2>3, <2>5, OpenedIs, Zenon
  <2>7. inputs' = [inputs EXCEPT ![i] = in] /\ texts' = [texts EXCEPT ![i] = text]
    BY <1>8, Zenon DEF Begins, c
  <2> HIDE DEF in, s
  <2>8. /\ in \in InputSet /\ in.stage = "open" /\ in.start = 0 /\ in.pos = 0
        /\ in.buf = [b EXCEPT !.len = @ + 1]
        /\ in.restore = <<m[b.arr][b.off + b.len + 1]>>
    BY <2>6, Zenon DEF IsOpened, s, c
  <2>9. /\ ~Within(token.slice, b.arr, b.off + b.len + 1)
        /\ \A j \in Inputs : inputs[j].stage = "open" =>
               ~Within(inputs[j].buf, b.arr, b.off + b.len + 1)
    BY <2>2, Zenon DEF NextFree
  <2>10. Good(Written(m, b, b.len, <<NUL>>), g, writer, written,
              [inputs EXCEPT ![i] = in], [texts EXCEPT ![i] = text], token)
    BY <1>3, <2>1, <2>2, <2>8, <2>9, GoodLent, Zenon
  <2> QED
    BY <1>8, <2>7, <2>10, Zenon
<1>9. CASE /\ b.len > 0 /\ b.cap = b.len
           /\ mem' = Allocated(m, Append(text, NUL), b.len + 2)
           /\ given' = Allocated(g, Append(text, NUL), b.len + 2)
           /\ Begins(i, Slice(Len(m) + 1, 0, b.len + 1, b.len + 2), <<>>, FALSE, text)
  <2> DEFINE txt == Append(text, NUL)
             a == Len(m) + 1
             n == b.len + 1
             cap == b.len + 2
             s == Slice(a, 0, n, cap)
             in == [Unused EXCEPT !.stage = "open", !.buf = s, !.restore = <<>>, !.err = FALSE]
  <2>1. inputs' = [inputs EXCEPT ![i] = in] /\ texts' = [texts EXCEPT ![i] = text]
    BY <1>9, Zenon DEF Begins
  <2>2. /\ txt \in Seq(Byte) /\ Len(txt) = n /\ n \in Nat /\ cap \in Nat /\ n <= cap
        /\ n > 0 /\ a \in Nat /\ a = Len(m) + 1 /\ n <= n
    BY <1>3, <1>4, <1>5, <1>6
  <2>3. mem' = Allocated(m, txt, cap) /\ given' = Allocated(g, txt, cap)
    BY <1>9
  <2> HIDE DEF txt, n, cap, a
  <2>4. Len(txt) <= cap /\ n <= Len(txt)
    BY <2>2
  <2>5. /\ Good(mem', given', writer, written, inputs, texts, token)
        /\ IsAllocated(m, mem', txt, cap) /\ Nobody(inputs, writer, token, a)
    <3>1. /\ Good(Allocated(m, txt, cap), Allocated(g, txt, cap), writer, written, inputs,
                  texts, token)
          /\ IsAllocated(m, Allocated(m, txt, cap), txt, cap)
          /\ Nobody(inputs, writer, token, Len(m) + 1)
      BY <2>2, <2>4, GoodMade, Zenon
    <3> QED
      BY <2>2, <2>3, <3>1, Zenon
  <2>6. /\ Fits(mem', s) /\ s.arr = a /\ s.len = n /\ Says(mem', s, txt)
    <3>1. IsMade(mem', Slice(Len(m) + 1, 0, n, cap), Len(m) + 1, n, cap, txt)
      BY <1>4, <2>2, <2>4, <2>5, MadeSlice, Zenon
    <3> QED
      BY <2>2, <3>1, Zenon DEF IsMade
  <2> HIDE DEF s
  <2>7. MayRead(inputs, writer, token, s)
    BY <2>5, <2>6, MadeRoles, Zenon
  <2>8. s \in SliceSet /\ <<>> \in Seq(Byte) /\ FALSE \in BOOLEAN
    BY <2>6 DEF Fits
  <2>9. IsOpened(in, s, <<>>)
    BY <2>8, OpenedIs, Zenon
  <2> HIDE DEF in
  <2>10. /\ in \in InputSet /\ in.stage = "open" /\ in.buf = s /\ in.start = 0 /\ in.pos = 0
         /\ in.restore = <<>>
    BY <2>9, Zenon DEF IsOpened
  <2>11. InputOK(mem', given', in, text)
    <3>1. s.len > 0 /\ 0 < s.len
      BY <2>2, <2>6
    <3> QED
      BY <1>3, <2>6, <2>10, <3>1, Zenon DEF InputOK, txt
  <2>12. Good(mem', given', writer, written, [inputs EXCEPT ![i] = in],
              [texts EXCEPT ![i] = text], token)
    BY <2>5, <2>7, <2>10, <2>11, GoodReader, Zenon
  <2> QED
    BY <2>1, <2>12, Zenon
<1> QED
  BY <1>1, <1>7, <1>8, <1>9, Zenon

\* What the program makes an Input of: nobody writes it.
LEMMA SourcesAre ==
    ASSUME Inv, NEW b \in {writer.buf, token.slice} \cup {BytesOf(j) : j \in {k \in Inputs : IsOpen(k)}},
           Readable(b)
    PROVE  Fits(mem, b) /\ MayRead(inputs, writer, token, b)
<1>1. /\ mem \in Arrays /\ Fits(mem, writer.buf) /\ Fits(mem, token.slice)
      /\ \A a, k \in Nat : Exclusive(inputs, writer, token, a, k)
  BY Zenon DEF Inv, Good, MemoryOK, WriterOK, TokenOK, RolesOK
<1>2. ASSUME NEW s, Fits(mem, s), NEW a \in Nat, NEW k \in Nat, Within(s, a, k)
      PROVE  ~SpareAt(s, a, k)
  <2>1. s.off \in Nat /\ s.len \in Nat
    BY <1>2, SliceIs, Zenon DEF Fits
  <2>2. k <= s.off + s.len => ~(s.off + s.len < k)
    BY <2>1
  <2> QED
    BY <1>2, <2>2, Zenon DEF Within, SpareAt
<1>3. ASSUME Fits(mem, b)
      PROVE  \A a, k \in Nat : Within(b, a, k) => \A i \in Inputs : ~LendsAt(inputs[i], a, k)
  <2>1. b \in SliceSet
    BY <1>3, Zenon DEF Fits
  <2> QED
    BY <2>1, ReadableIs, Zenon
<1>4. CASE b = writer.buf
  <2>1. ASSUME NEW a \in Nat, NEW k \in Nat, Within(b, a, k)
        PROVE  ~SpareAt(writer.buf, a, k) /\ (token.own => ~SpareAt(token.slice, a, k))
    <3>1. a = writer.buf.arr
      BY <1>4, <2>1, Zenon DEF Within
    <3> QED
      BY <1>1, <1>2, <1>4, <2>1, <3>1, Zenon DEF Exclusive
  <2> QED
    BY <1>1, <1>3, <1>4, <2>1, Zenon DEF MayRead
<1>5. CASE b = token.slice
  <2>1. ASSUME NEW a \in Nat, NEW k \in Nat, Within(b, a, k)
        PROVE  ~SpareAt(writer.buf, a, k) /\ ~SpareAt(token.slice, a, k)
    BY <1>1, <1>2, <1>5, <2>1, Zenon DEF Exclusive
  <2> QED
    BY <1>1, <1>3, <1>5, <2>1, Zenon DEF MayRead
<1>6. CASE b \in {BytesOf(j) : j \in {k \in Inputs : IsOpen(k)}}
  <2>1. PICK j \in Inputs : IsOpen(j) /\ b = BytesOf(j)
    BY <1>6, Zenon
  <2> DEFINE s == inputs[j].buf
             hi == LenOf(j)
  <2>2. /\ inputs[j].stage = "open" /\ s \in SliceSet /\ s.len > 0 /\ Fits(mem, s)
        /\ b = Limited(s, 0, hi)
    BY <2>1, InvInputs, Zenon DEF InputOK, BytesOf
  <2>3. s.len \in Nat /\ s.off \in Nat
    BY <2>2, SliceIs, Zenon
  <2>4. hi = s.len - 1
    BY DEF LenOf
  <2> HIDE DEF s, hi
  <2>5. hi \in Nat /\ 0 \in Nat /\ 0 <= hi /\ hi <= s.len /\ hi < s.len
    BY <2>2, <2>3, <2>4
  <2>6. /\ Fits(mem, b)
        /\ \A a, k \in Nat : /\ Within(b, a, k) => Within(s, a, k) /\ k <= s.off + hi
                             /\ ~SpareAt(b, a, k)
    BY <1>1, <2>2, <2>5, LimitedIs, Zenon
  <2>7. ASSUME NEW a \in Nat, NEW k \in Nat, Within(b, a, k)
        PROVE  ~SpareAt(writer.buf, a, k) /\ (token.own => ~SpareAt(token.slice, a, k))
    <3>1. Within(s, a, k) /\ k <= s.off + hi
      BY <2>6, <2>7, Zenon
    <3>2. k # s.off + s.len
      BY <2>3, <2>5, <3>1
    <3>3. ReadsAt(inputs[j], a, k)
      BY <2>2, <3>1, <3>2, Zenon DEF ReadsAt, LendsAt, s
    <3> QED
      BY <1>1, <3>3, Zenon DEF Exclusive
  <2> QED
    BY <1>3, <2>6, <2>7, Zenon DEF MayRead
<1> QED
  BY <1>4, <1>5, <1>6

LEMMA InputStartsInv == ASSUME Inv, NEW i \in Inputs, InputStarts(i) PROVE Inv'
<1>1. PICK b \in {writer.buf, token.slice} \cup {BytesOf(j) : j \in {k \in Inputs : IsOpen(k)}} :
          /\ Readable(b)
          /\ b.cap > b.len => Places(b, b.len, b.len + 1) \cap InUse = {}
          /\ NewInputBytesIn(i, mem, given, b)
  BY Zenon DEF InputStarts, NewInputBytes
<1>2. ~IsOpen(i) /\ UNCHANGED <<writers, token>>
  BY Zenon DEF InputStarts
<1>3. Fits(mem, b) /\ MayRead(inputs, writer, token, b)
  BY <1>1, SourcesAre, Zenon
<1>4. b.len < b.cap => NextFree(inputs, token, b)
  <2> SUFFICES ASSUME b.len < b.cap
               PROVE  NextFree(inputs, token, b)
    OBVIOUS
  <2>1. b \in SliceSet
    BY <1>3, Zenon DEF Fits
  <2>2. b.cap > b.len
    BY <2>1, SliceIs
  <2>3. Places(b, b.len, b.len + 1) \cap InUse = {}
    BY <1>1, <2>2
  <2> QED
    BY <2>1, <2>3, NextUnused, Zenon DEF NextFree
<1>5. inputs[i].stage # "open"
  BY <1>2, Zenon DEF IsOpen
<1>6. Good(mem', given', writer, written, inputs', texts', token)
  BY <1>1, <1>3, <1>4, <1>5, NewInputBytesGood, Zenon DEF Inv
<1> QED
  BY <1>2, <1>6, Zenon DEF Inv, writers

LEMMA TextsAre ==
    ASSUME NEW text \in Texts
    PROVE  text \in Seq(Byte) /\ Len(text) \in Nat
<1>1. text \in Seq(STRING)
  BY BuffersAssumption
<1>2. Len(text) \in Nat /\ DOMAIN text = 1..Len(text) /\ text = [k \in 1..Len(text) |-> text[k]]
  BY <1>1
<1>3. \A k \in 1..Len(text) : text[k] \in Byte
  <2> SUFFICES ASSUME NEW k \in 1..Len(text)
               PROVE  text[k] \in Byte
    OBVIOUS
  <2> DEFINE said == {text[j] : j \in 1..Len(text)}
  <2>1. text[k] \in said
    BY Zenon
  <2>2. said \in {{t[j] : j \in 1..Len(t)} : t \in Texts}
    BY Zenon
  <2> HIDE DEF said
  <2> QED
    BY <2>1, <2>2, Zenon DEF Byte
<1>4. text \in [1..Len(text) -> Byte]
  BY <1>2, <1>3, Zenon
<1> QED
  BY <1>2, <1>4

LEMMA InputReadsAllInv == ASSUME Inv, NEW i \in Inputs, InputReadsAll(i) PROVE Inv'
<1>1. /\ ~IsOpen(i) /\ UNCHANGED <<writers, token>>
      /\ \/ \E text \in Texts : NewInputReadAll(i, text, Len(text) + 1)
         \/ NewInputFails(i)
  BY Zenon DEF InputReadsAll
<1>2. inputs[i].stage # "open"
  BY <1>1, Zenon DEF IsOpen
<1>3. ASSUME NEW text \in Texts, NewInputReadAll(i, text, Len(text) + 1)
      PROVE  Good(mem', given', writer, written, inputs', texts', token)
  <2> DEFINE n == Len(text)
             cap == Len(text) + 1
             m == Allocated(mem, text, cap)
             g == Allocated(given, text, cap)
             b == Slice(Len(mem) + 1, 0, n, cap)
  <2>1. text \in Seq(Byte) /\ n \in Nat /\ cap \in Nat /\ n <= cap /\ n <= n
    BY TextsAre
  <2>2. NewInputBytesIn(i, m, g, b)
    BY <1>3, Zenon DEF NewInputReadAll
  <2>3. Len(mem) \in Nat
    BY ArraysAre, Zenon DEF Inv, Good, MemoryOK
  <2> HIDE DEF cap
  <2>4. /\ Good(m, g, writer, written, inputs, texts, token)
        /\ IsAllocated(mem, m, text, cap) /\ Nobody(inputs, writer, token, Len(mem) + 1)
    BY <2>1, GoodMade, Zenon DEF Inv
  <2> HIDE DEF m, g
  <2>5. IsMade(m, b, Len(mem) + 1, n, cap, text)
    BY <2>1, <2>3, <2>4, MadeSlice, Zenon
  <2> HIDE DEF b
  <2>6. Fits(m, b) /\ b.arr = Len(mem) + 1 /\ b.off = 0 /\ b.len = n
    BY <2>5, Zenon DEF IsMade
  <2>7. MayRead(inputs, writer, token, b)
    BY <2>4, <2>6, MadeRoles, Zenon
  <2>8. NextFree(inputs, token, b)
    <3> DEFINE c == b.off + b.len + 1
    <3>1. c \in Nat
      BY <2>1, <2>6
    <3>2. b.arr \in Nat
      BY <2>3, <2>6
    <3> HIDE DEF c
    <3>3. ~Within(token.slice, b.arr, c) /\ \A j \in Inputs : ~LendsAt(inputs[j], b.arr, c)
                                                           /\ ~ReadsAt(inputs[j], b.arr, c)
      BY <2>4, <2>6, <3>1, Zenon DEF Nobody
    <3> QED
      BY <3>3, Zenon DEF NextFree, ReadsAt, c
  <2> QED
    BY <1>2, <2>2, <2>4, <2>6, <2>7, <2>8, NewInputBytesGood, Zenon
<1>4. ASSUME NewInputFails(i)
      PROVE  Good(mem', given', writer, written, inputs', texts', token)
  <2>1. TRUE \in BOOLEAN
    OBVIOUS
  <2>2. Good(mem, given, writer, written,
             [inputs EXCEPT ![i] = [Unused EXCEPT !.stage = "open", !.buf = nullBuffer,
                                                  !.restore = <<>>, !.err = TRUE]],
             [texts EXCEPT ![i] = <<>>], token)
    BY <1>2, <2>1, GoodNull, Zenon DEF Inv
  <2> QED
    BY <1>4, <2>2, Zenon DEF NewInputFails, Begins
<1>5. Good(mem', given', writer, written, inputs', texts', token)
  BY <1>1, <1>3, <1>4
<1> QED
  BY <1>1, <1>5, Zenon DEF Inv, writers

\* The cells that append writes, in place, from the length of s on.
LEMMA SpareIs ==
    ASSUME NEW s \in SliceSet, NEW n \in Nat, s.len + n <= s.cap, NEW k \in Nat,
           s.off + s.len < k, k <= s.off + s.len + n
    PROVE  SpareAt(s, s.arr, k) /\ ~Within(s, s.arr, k)
<1>1. s.off \in Nat /\ s.len \in Nat /\ s.cap \in Nat
  BY SliceIs
<1> QED
  BY <1>1 DEF SpareAt, Within

IsJoin(r, a, b) ==
    /\ r \in Seq(Byte) /\ Len(r) = Len(a) + Len(b)
    /\ \A k \in 1..(Len(a) + Len(b)) : /\ k <= Len(a) => r[k] = a[k]
                                       /\ ~(k <= Len(a)) => r[k] = b[k - Len(a)]

LEMMA JoinIs ==
    ASSUME NEW a \in Seq(Byte), NEW b \in Seq(Byte)
    PROVE  IsJoin(a \o b, a, b)
  BY DEF IsJoin

IsSpot(off, len, n, l, k) ==
    /\ off + k \in 1..l /\ (off + k) - off - len = k - len
    /\ ~(k <= len) => off + len < off + k /\ off + k <= off + len + n
    /\ k <= len => k \in 1..len

LEMMA SpotIs ==
    ASSUME NEW off \in Nat, NEW len \in Nat, NEW n \in Nat, NEW cap \in Nat, NEW l \in Nat,
           len + n <= cap, off + cap <= l, NEW k \in 1..(len + n)
    PROVE  IsSpot(off, len, n, l, k)
  BY DEF IsSpot

\* A slice that has grown by what was written there says that as well.
LEMMA SaysMore ==
    ASSUME NEW m \in Arrays, NEW m2, NEW s, Fits(m, s), NEW n \in Nat, s.len + n <= s.cap,
           NEW text \in Seq(Byte), Len(text) = n, Stored(m, m2, s, s.len, text),
           NEW txt \in Seq(Byte), Says(m2, s, txt),
           NEW s2 \in SliceSet, s2.arr = s.arr, s2.off = s.off, s2.len = s.len + n
    PROVE  Says(m2, s2, txt \o text)
<1>1. /\ s.off \in Nat /\ s.len \in Nat /\ s.cap \in Nat /\ s.arr \in 1..Len(m)
      /\ s.off + s.cap <= Len(m[s.arr]) /\ Len(m[s.arr]) \in Nat
  BY ArraysAre, SliceIs, Zenon DEF Fits
<1>2. Len(txt) = s.len /\ \A k \in 1..s.len : m2[s.arr][s.off + k] = txt[k]
  BY Zenon DEF Says
<1>3. /\ Len(txt \o text) = s.len + n
      /\ \A k \in 1..(s.len + n) : /\ k <= s.len => (txt \o text)[k] = txt[k]
                                   /\ ~(k <= s.len) => (txt \o text)[k] = text[k - s.len]
  <2>1. IsJoin(txt \o text, txt, text)
    BY JoinIs, Zenon
  <2> QED
    BY <1>2, <2>1, Zenon DEF IsJoin
<1>4. ASSUME NEW k \in 1..(s.len + n)
      PROVE  m2[s.arr][s.off + k] = (txt \o text)[k]
  <2>0. IsSpot(s.off, s.len, n, Len(m[s.arr]), k)
    BY <1>1, SpotIs, Zenon
  <2>1. CASE k <= s.len
    <3>1. k \in 1..s.len
      BY <2>0, <2>1, Zenon DEF IsSpot
    <3> QED
      BY <1>2, <1>3, <2>1, <3>1, Zenon
  <2>2. CASE ~(k <= s.len)
    <3> DEFINE e == s.off + k
    <3>1. /\ e \in 1..Len(m[s.arr]) /\ s.off + s.len < e /\ e <= s.off + s.len + n
          /\ e - s.off - s.len = k - s.len
      BY <2>0, <2>2, Zenon DEF IsSpot
    <3> HIDE DEF e
    <3>3. m2[s.arr][e] = text[e - s.off - s.len]
      BY <1>1, <3>1, Zenon DEF Stored
    <3> QED
      BY <1>3, <2>2, <3>1, <3>3, Zenon DEF e
  <2> QED
    BY <2>1, <2>2
<1> QED
  BY <1>3, <1>4, Zenon DEF Says

LEMMA WriterWritesInv == ASSUME Inv, WriterWrites PROVE Inv'
<1> DEFINE b == writer.buf
<1>1. PICK text \in Texts :
          /\ b.len + Len(text) <= b.cap => Places(b, b.len, b.len + Len(text)) \cap AllLent = {}
          /\ Readable(b) /\ Write(text)
          /\ UNCHANGED <<inputs, texts, token>>
  BY Zenon DEF WriterWrites
<1> DEFINE n == Len(text)
<1>2. text \in Seq(Byte) /\ n \in Nat
  BY TextsAre
<1>3. /\ WriterOK(mem, given, writer, written) /\ mem \in Arrays /\ given \in Arrays
      /\ Len(given) = Len(mem) /\ MemoryOK(mem, given)
      /\ writer \in [buf : SliceSet, expand : BOOLEAN, err : BOOLEAN] /\ b.off = 0 /\ b.arr # 1
      /\ Fits(mem, b) /\ b \in SliceSet /\ written \in Seq(Byte) /\ Says(given, b, written)
      /\ (writer.err => ~writer.expand)
  BY Zenon DEF Inv, Good, WriterOK, MemoryOK, Fits
<1>4. /\ b.arr \in Nat /\ b.off \in Nat /\ b.len \in Nat /\ b.cap \in Nat /\ b.len <= b.cap
      /\ b.len + n \in Nat
  BY <1>2, <1>3, SliceIs DEF Fits
<1>5. written \o text \in Seq(Byte) /\ Len(written \o text) = b.len + n
  <2>1. IsJoin(written \o text, written, text)
    BY <1>2, <1>3, JoinIs, Zenon
  <2>2. Len(written) = b.len
    BY <1>3, Zenon DEF Says
  <2> QED
    BY <2>1, <2>2, Zenon DEF IsJoin
<1>6. CASE /\ b.len + n <= b.cap
           /\ mem' = Written(mem, b, b.len, text) /\ given' = Written(given, b, b.len, text)
           /\ writer' = [writer EXCEPT !.buf.len = @ + n] /\ written' = written \o text
  <2> DEFINE w2 == [writer EXCEPT !.buf.len = @ + n]
  <2>1. Free(inputs, writer, token, b, b.len, n)
    <3> SUFFICES ASSUME NEW k \in Nat, b.off + b.len < k, k <= b.off + b.len + n
                 PROVE  /\ ~Within(b, b.arr, k) /\ ~Within(token.slice, b.arr, k)
                        /\ \A j \in Inputs : ~ReadsAt(inputs[j], b.arr, k) /\ ~LendsAt(inputs[j], b.arr, k)
      BY Zenon DEF Free
    <3>1. SpareAt(b, b.arr, k) /\ ~Within(b, b.arr, k)
      BY <1>2, <1>3, <1>6, SpareIs, Zenon
    <3>2. Exclusive(inputs, writer, token, b.arr, k)
      BY <1>4, Zenon DEF Inv, Good, RolesOK
    <3>3. \A j \in Inputs : ~LendsAt(inputs[j], b.arr, k)
      <4>1. Places(b, b.len, b.len + n) \cap AllLent = {}
        BY <1>1, <1>6
      <4>2. k <= b.off + (b.len + n)
        BY <1>2, <1>4
      <4> QED
        BY <1>3, <1>4, <4>1, <4>2, NotLent, Zenon
    <3> QED
      BY <3>1, <3>2, <3>3, Zenon DEF Exclusive
  <2>2. Good(mem', given', writer, written, inputs, texts, token)
    <3>1. Good(Written(mem, b, b.len, text), Written(given, b, b.len, text), writer, written,
               inputs, texts, token)
      BY <1>2, <1>3, <1>4, <1>6, <2>1, GoodStored, Zenon DEF Inv
    <3> QED
      BY <1>6, <3>1, Zenon
  <2>3. /\ w2 \in [buf : SliceSet, expand : BOOLEAN, err : BOOLEAN]
        /\ w2.buf = [b EXCEPT !.len = @ + n] /\ w2.expand = writer.expand /\ w2.err = writer.err
    <3>1. [b EXCEPT !.len = @ + n] \in SliceSet
      BY <1>2, <1>3, LongerIs
    <3> QED
      BY <1>3, <3>1
  <2>4. /\ w2.buf \in SliceSet /\ w2.buf.arr = b.arr /\ w2.buf.off = b.off
        /\ w2.buf.len = b.len + n /\ w2.buf.cap = b.cap
    BY <1>2, <1>3, <2>3, LongerIs
  <2> HIDE DEF w2
  <2>5. WriterOK(mem', given', w2, written \o text)
    <3>1. /\ Fits(mem', b) /\ Says(given', b, written)
      BY <2>2, Zenon DEF Good, WriterOK
    <3>2. Fits(mem', w2.buf)
      BY <1>6, <2>4, <3>1, Zenon DEF Fits
    <3>3. Fits(given, b)
      BY <1>3 DEF Fits, MemoryOK
    <3>4. Stored(given, given', b, b.len, text)
      <4>1. IsStored(given, given', b, b.len, text)
        BY <1>2, <1>3, <1>4, <1>6, <3>3, WrittenIs, Zenon
      <4> QED
        BY <4>1, Zenon DEF IsStored
    <3>5. Says(given', w2.buf, written \o text)
      BY <1>2, <1>3, <1>6, <2>4, <3>1, <3>3, <3>4, SaysMore, Zenon
    <3> QED
      BY <1>3, <1>5, <2>3, <2>4, <3>2, <3>5, Zenon DEF WriterOK
  <2>6. MayWrite(inputs, w2, token)
    <3> SUFFICES ASSUME NEW a \in Nat, NEW k \in Nat
                 PROVE  /\ SpareAt(w2.buf, a, k) =>
                               ~Within(token.slice, a, k) /\ \A i \in Inputs : ~ReadsAt(inputs[i], a, k)
                        /\ token.own /\ SpareAt(token.slice, a, k) => a # w2.buf.arr
      BY Zenon DEF MayWrite
    <3>1. Exclusive(inputs, writer, token, a, k)
      BY Zenon DEF Inv, Good, RolesOK
    <3>2. SpareAt(w2.buf, a, k) => SpareAt(b, a, k)
      <4>1. b.off + (b.len + n) < k => b.off + b.len < k
        BY <1>2, <1>4
      <4> QED
        BY <2>4, <4>1, Zenon DEF SpareAt
    <3> QED
      BY <2>4, <3>1, <3>2, Zenon DEF Exclusive
  <2>7. Good(mem', given', w2, written \o text, inputs, texts, token)
    BY <2>2, <2>5, <2>6, GoodWriter, Zenon
  <2> QED
    BY <1>1, <1>6, <2>7, Zenon DEF Inv, w2
<1>7. CASE /\ b.len + n > b.cap
           /\ mem' = Grown(mem, b, text) /\ given' = Grown(given, b, text)
           /\ writer' = [writer EXCEPT !.buf = Slice(Len(mem) + 1, 0, @.len + n, 2 * @.cap + n)]
           /\ written' = written \o text
  <2> DEFINE txt == written \o text
             cap == 2 * b.cap + n
             s == Slice(Len(mem) + 1, 0, b.len + n, cap)
             w2 == [writer EXCEPT !.buf = s]
  <2>1. Bytes(b) = written
    <3>1. ASSUME NEW k \in 1..b.len
          PROVE  mem[b.arr][b.off + k] = written[k]
      <4> DEFINE e == b.off + k
      <4>1. /\ e \in Nat /\ b.off < e /\ e <= b.off + b.len
        BY <1>4
      <4> HIDE DEF e
      <4>2. Within(b, b.arr, e)
        BY <4>1, Zenon DEF Within
      <4>3. \A i \in Inputs : ~LendsAt(inputs[i], b.arr, e)
        BY <1>1, <1>3, <1>4, <4>1, <4>2, ReadableIs, Zenon
      <4>4. b.arr \in 1..Len(mem) /\ e \in 1..Len(mem[b.arr])
        BY <1>3, <1>4, <4>1, <4>2, CellsThere, Zenon
      <4>5. mem[b.arr][e] = given[b.arr][e]
        BY <4>3, <4>4, Zenon DEF Inv, Good, AllUnlent, Unlent
      <4>6. given[b.arr][e] = written[k]
        BY <1>3, Zenon DEF Says, e
      <4> QED
        BY <4>5, <4>6, Zenon DEF e
    <3>2. Says(mem, b, written)
      BY <1>3, <3>1, Zenon DEF Says
    <3> QED
      BY <1>3, <3>2, SaysBytes, Zenon
  <2>2. /\ cap \in Nat /\ b.len + n <= cap /\ b.len + n <= b.len + n
    BY <1>2, <1>4
  <2>3. mem' = Allocated(mem, txt, cap) /\ given' = Allocated(given, txt, cap)
    BY <1>7, <2>1, Zenon DEF Grown
  <2> HIDE DEF txt, cap
  <2>4. txt \in Seq(Byte) /\ Len(txt) = b.len + n
    BY <1>5 DEF txt
  <2>5. /\ Good(mem', given', writer, written, inputs, texts, token)
        /\ IsAllocated(mem, mem', txt, cap) /\ IsAllocated(given, given', txt, cap)
        /\ Nobody(inputs, writer, token, Len(mem) + 1) /\ Len(mem) + 1 # 1
    <3>1. /\ Good(Allocated(mem, txt, cap), Allocated(given, txt, cap), writer, written, inputs,
                  texts, token)
          /\ IsAllocated(mem, Allocated(mem, txt, cap), txt, cap)
          /\ IsAllocated(given, Allocated(given, txt, cap), txt, cap)
          /\ Nobody(inputs, writer, token, Len(mem) + 1) /\ Len(mem) + 1 # 1
      <4>1. Len(txt) <= cap
        BY <2>2, <2>4
      <4> QED
        BY <2>2, <2>4, <4>1, GoodMade, Zenon DEF Inv
    <3> QED
      BY <2>3, <3>1, Zenon
  <2>6. /\ IsMade(mem', s, Len(mem) + 1, b.len + n, cap, txt)
        /\ IsMade(given', s, Len(mem) + 1, b.len + n, cap, txt)
    <3>1. Len(txt) <= cap /\ b.len + n <= Len(txt) /\ Len(mem) \in Nat /\ Len(given) \in Nat
      BY <1>3, <2>2, <2>4, ArraysAre
    <3>2. IsMade(mem', Slice(Len(mem) + 1, 0, b.len + n, cap), Len(mem) + 1, b.len + n, cap, txt)
      BY <1>4, <2>2, <2>4, <2>5, <3>1, MadeSlice, Zenon
    <3>3. IsMade(given', Slice(Len(given) + 1, 0, b.len + n, cap), Len(given) + 1, b.len + n, cap, txt)
      BY <1>4, <2>2, <2>4, <2>5, <3>1, MadeSlice, Zenon
    <3> QED
      BY <1>3, <3>2, <3>3, Zenon
  <2> HIDE DEF s
  <2>7. /\ Fits(mem', s) /\ s.arr = Len(mem) + 1 /\ s.off = 0 /\ Says(given', s, txt)
        /\ s \in SliceSet
    BY <2>4, <2>6, Zenon DEF IsMade, Fits
  <2>8. /\ w2 \in [buf : SliceSet, expand : BOOLEAN, err : BOOLEAN]
        /\ w2.buf = s /\ w2.expand = writer.expand /\ w2.err = writer.err
    BY <1>3, <2>7
  <2>9. writer' = w2
    BY <1>7, Zenon DEF s, cap
  <2> HIDE DEF w2
  <2>10. WriterOK(mem', given', w2, txt)
    BY <1>3, <2>4, <2>5, <2>7, <2>8, Zenon DEF WriterOK
  <2>11. MayWrite(inputs, w2, token)
    <3> SUFFICES ASSUME NEW a \in Nat, NEW k \in Nat
                 PROVE  /\ SpareAt(s, a, k) =>
                               ~Within(token.slice, a, k) /\ \A i \in Inputs : ~ReadsAt(inputs[i], a, k)
                        /\ token.own /\ SpareAt(token.slice, a, k) => a # s.arr
      BY <2>8, Zenon DEF MayWrite
    <3>1. SpareAt(s, a, k) => a = Len(mem) + 1
      BY <2>7, Zenon DEF SpareAt
    <3> QED
      BY <2>5, <2>7, <3>1, Zenon DEF Nobody
  <2>12. Good(mem', given', w2, txt, inputs, texts, token)
    BY <2>5, <2>10, <2>11, GoodWriter, Zenon
  <2> QED
    BY <1>1, <1>7, <2>9, <2>12, Zenon DEF Inv, txt
<1>8. CASE /\ ~writer.expand /\ writer' = [writer EXCEPT !.err = TRUE]
           /\ UNCHANGED <<mem, given, written>>
  <2> DEFINE w2 == [writer EXCEPT !.err = TRUE]
  <2>1. /\ w2 \in [buf : SliceSet, expand : BOOLEAN, err : BOOLEAN]
        /\ w2.buf = writer.buf /\ w2.expand = writer.expand
    BY <1>3
  <2> HIDE DEF w2
  <2>2. WriterOK(mem, given, w2, written)
    <3>1. w2.err => ~w2.expand
      BY <1>8, <2>1, Zenon
    <3>2. /\ Fits(mem, w2.buf) /\ w2.buf.off = 0 /\ w2.buf.arr # 1
          /\ written \in Seq(Byte) /\ Says(given, w2.buf, written)
      BY <1>3, <2>1, Zenon
    <3> QED
      BY <2>1, <3>1, <3>2, Zenon DEF WriterOK
  <2>3. MayWrite(inputs, w2, token)
    BY <2>1, Zenon DEF MayWrite, Inv, Good, RolesOK, Exclusive
  <2>4. Good(mem, given, w2, written, inputs, texts, token)
    BY <2>2, <2>3, GoodWriter, Zenon DEF Inv
  <2> QED
    BY <1>1, <1>8, <2>4, Zenon DEF Inv, w2
<1>9. \/ /\ b.len + n <= b.cap
         /\ mem' = Written(mem, b, b.len, text) /\ given' = Written(given, b, b.len, text)
         /\ writer' = [writer EXCEPT !.buf.len = @ + n] /\ written' = written \o text
      \/ /\ b.len + n > b.cap
         /\ mem' = Grown(mem, b, text) /\ given' = Grown(given, b, text)
         /\ writer' = [writer EXCEPT !.buf = Slice(Len(mem) + 1, 0, @.len + n, 2 * @.cap + n)]
         /\ written' = written \o text
      \/ /\ ~writer.expand /\ writer' = [writer EXCEPT !.err = TRUE]
         /\ UNCHANGED <<mem, given, written>>
  BY <1>1, Zenon DEF Write
<1> QED
  BY <1>6, <1>7, <1>8, <1>9, Zenon

(* What is left when a fresh array with txt is made in a good state: the      *)
(* state is as good, and nobody has the new array yet.                        *)
MadeFresh(txt, cap) ==
    /\ Good(Allocated(mem, txt, cap), Allocated(given, txt, cap), writer, written, inputs,
            texts, token)
    /\ IsAllocated(mem, Allocated(mem, txt, cap), txt, cap)
    /\ Nobody(inputs, writer, token, Len(mem) + 1) /\ Len(mem) + 1 # 1
    /\ Len(mem) + 1 # writer.buf.arr

LEMMA GoodFresh == ASSUME Inv, NEW txt \in Seq(Byte), NEW cap \in Nat, Len(txt) <= cap
                   PROVE  MadeFresh(txt, cap)
<1>1. Good(mem, given, writer, written, inputs, texts, token)
  BY Zenon DEF Inv
<1> QED
  BY <1>1, GoodMade, Zenon DEF MadeFresh

LEMMA ClientAppendsInv == ASSUME Inv, ClientAppends PROVE Inv'
<1> DEFINE s == token.slice
           text == Append(token.text, "x")
           n == s.len + 1
<1>1. /\ token.own /\ s.len > 0 /\ UNCHANGED <<writers, inputs, texts>>
      /\ \/ /\ s.cap > s.len /\ Places(s, s.len, s.len + 1) \cap AllLent = {}
            /\ mem' = Written(mem, s, s.len, <<"x">>)
            /\ given' = Written(given, s, s.len, <<"x">>)
            /\ token' = [slice |-> [s EXCEPT !.len = @ + 1], own |-> TRUE, text |-> text]
         \/ /\ ~(s.cap > s.len)
            /\ mem' = Allocated(mem, Append(Bytes(s), "x"), s.len + 2)
            /\ given' = Allocated(given, Append(Bytes(s), "x"), s.len + 2)
            /\ token' = [slice |-> Slice(Len(mem) + 1, 0, s.len + 1, s.len + 2),
                         own |-> TRUE, text |-> text]
  BY Zenon DEF ClientAppends
<1>2. /\ mem \in Arrays /\ given \in Arrays /\ Len(given) = Len(mem) /\ TokenOK(mem, token)
      /\ Fits(mem, s) /\ s \in SliceSet /\ Says(mem, s, token.text) /\ token.text \in Seq(Byte)
  <2>1. token.text \in Seq(Byte) /\ TokenOK(mem, token)
    BY Zenon DEF Inv, Good, TokenOK
  <2> QED
    BY <2>1, Zenon DEF Inv, Good, MemoryOK, TokenOK, Fits
<1>3. /\ s.arr \in Nat /\ s.off \in Nat /\ s.len \in Nat /\ s.cap \in Nat /\ s.len <= s.cap
      /\ n \in Nat
  BY <1>2, SliceIs DEF Fits
<1>4. "x" \in Byte
  BY DEF Byte
<1>5. text \in Seq(Byte) /\ Len(text) = n /\ text = token.text \o <<"x">>
  <2>1. Len(token.text) = s.len
    BY <1>2, Zenon DEF Says
  <2> QED
    BY <1>2, <1>4, <2>1
<1>6. \A a, k \in Nat : Exclusive(inputs, writer, token, a, k)
  BY Zenon DEF Inv, Good, RolesOK
<1>7. CASE /\ s.cap > s.len /\ Places(s, s.len, s.len + 1) \cap AllLent = {}
           /\ mem' = Written(mem, s, s.len, <<"x">>)
           /\ given' = Written(given, s, s.len, <<"x">>)
           /\ token' = [slice |-> [s EXCEPT !.len = @ + 1], own |-> TRUE, text |-> text]
  <2> DEFINE one == <<"x">>
             s2 == [s EXCEPT !.len = @ + 1]
             c == s.off + s.len + 1
  <2>1. one \in Seq(Byte) /\ Len(one) = 1 /\ 1 \in Nat /\ s.len + 1 <= s.cap
    BY <1>3, <1>4, <1>7
  <2>2. s2 \in SliceSet /\ s2.arr = s.arr /\ s2.off = s.off /\ s2.len = s.len + 1 /\ s2.cap = s.cap
    BY <1>2, NextIs, Zenon
  <2>3. /\ c \in Nat /\ s.off + s.len < c /\ c <= s.off + s.len + 1
        /\ \A k \in Nat : s.off + s.len < k /\ k <= s.off + s.len + 1 <=> k = c
    BY <1>3
  <2> HIDE DEF one, s2, c
  <2>4. SpareAt(s, s.arr, c) /\ ~Within(s, s.arr, c)
    BY <1>2, <2>1, <2>3, SpareIs, Zenon
  <2>5. \A j \in Inputs : ~LendsAt(inputs[j], s.arr, c)
    <3>1. Places(s, s.len, s.len + 1) \cap AllLent = {}
      BY <1>7
    <3>2. c <= s.off + (s.len + 1)
      BY <1>3, <2>3
    <3> QED
      BY <1>2, <1>3, <2>3, <3>1, <3>2, NotLent, Zenon
  <2>6. /\ s.arr # writer.buf.arr /\ s.arr # 1
        /\ \A j \in Inputs : ~ReadsAt(inputs[j], s.arr, c)
    BY <1>1, <1>3, <1>6, <2>3, <2>4, Zenon DEF Exclusive
  <2>7. Free(inputs, writer, token, s, s.len, Len(one))
    BY <2>1, <2>3, <2>4, <2>5, <2>6, Zenon DEF Free, Within
  <2>8. Good(mem', given', writer, written, inputs, texts, token)
    <3>1. s.len + Len(one) <= s.cap
      BY <2>1
    <3>2. Good(Written(mem, s, s.len, one), Written(given, s, s.len, one), writer, written,
               inputs, texts, token)
      BY <1>2, <1>3, <2>1, <2>6, <2>7, <3>1, GoodStored, Zenon DEF Inv
    <3> QED
      BY <1>7, <3>2, Zenon DEF one
  <2>9. token'.own /\ token'.slice = s2 /\ token'.text = text
    BY <1>7 DEF s2
  <2>10. token' \in [slice : SliceSet, own : BOOLEAN, text : Seq(Byte)]
    BY <1>5, <1>7, <2>2 DEF s2
  <2>11. TokenOK(mem', token')
    <3>1. Fits(mem', s) /\ Says(mem', s, token.text)
      BY <2>8, Zenon DEF Good, TokenOK
    <3>2. Fits(mem', s2)
      BY <2>1, <2>2, <3>1, Zenon DEF Fits
    <3>3. Stored(mem, mem', s, s.len, one)
      <4>1. IsStored(mem, mem', s, s.len, one)
        <5>1. s.len + Len(one) <= s.cap /\ mem' = Written(mem, s, s.len, one)
          BY <1>7, <2>1 DEF one
        <5> QED
          BY <1>2, <1>3, <2>1, <5>1, WrittenIs, Zenon
      <4> QED
        BY <4>1, Zenon DEF IsStored
    <3>4. Says(mem', s2, token.text \o one)
      BY <1>2, <2>1, <2>2, <3>1, <3>3, SaysMore, Zenon
    <3>5. Says(mem', token'.slice, token'.text)
      BY <1>5, <2>9, <3>4, Zenon DEF one
    <3> QED
      BY <2>9, <2>10, <3>2, <3>5, Zenon DEF TokenOK
  <2>12. ASSUME NEW a \in Nat, NEW k \in Nat, Within(s2, a, k)
         PROVE  ~SpareAt(writer.buf, a, k) /\ \A i \in Inputs : ~LendsAt(inputs[i], a, k)
    <3>1. a = s.arr /\ s.off < k /\ k <= s.off + (s.len + 1)
      BY <2>2, <2>12, Zenon DEF Within
    <3>2. CASE k = c
      BY <2>5, <2>6, <3>1, <3>2, Zenon DEF SpareAt
    <3>3. CASE k # c
      <4>1. k <= s.off + s.len
        BY <1>3, <3>1, <3>3 DEF c
      <4>2. Within(s, a, k)
        BY <3>1, <4>1, Zenon DEF Within
      <4> QED
        BY <1>6, <4>2, Zenon DEF Exclusive
    <3> QED
      BY <3>2, <3>3
  <2>13. ASSUME NEW a \in Nat, NEW k \in Nat, SpareAt(s2, a, k)
         PROVE  /\ a # writer.buf.arr /\ a # 1
                /\ \A i \in Inputs : ~ReadsAt(inputs[i], a, k)
    <3>1. a = s.arr /\ s.off + (s.len + 1) < k /\ k <= s.off + s.cap
      BY <2>2, <2>13, Zenon DEF SpareAt
    <3>2. s.off + s.len < k
      BY <1>3, <3>1
    <3>3. SpareAt(s, a, k)
      BY <3>1, <3>2, Zenon DEF SpareAt
    <3> QED
      BY <1>1, <1>6, <3>3, Zenon DEF Exclusive
  <2>14. MayKeep(inputs, writer, token')
    BY <2>9, <2>12, <2>13, Zenon DEF MayKeep
  <2>15. Good(mem', given', writer, written, inputs, texts, token')
    BY <2>8, <2>11, <2>14, GoodToken, Zenon
  <2> QED
    BY <1>1, <2>15, Zenon DEF Inv, writers
<1>8. CASE /\ mem' = Allocated(mem, Append(Bytes(s), "x"), s.len + 2)
           /\ given' = Allocated(given, Append(Bytes(s), "x"), s.len + 2)
           /\ token' = [slice |-> Slice(Len(mem) + 1, 0, s.len + 1, s.len + 2),
                        own |-> TRUE, text |-> text]
  <2> DEFINE cap == s.len + 2
             s2 == Slice(Len(mem) + 1, 0, n, cap)
  <2>1. Bytes(s) = token.text
    BY <1>2, SaysBytes, Zenon
  <2>2. cap \in Nat /\ Len(text) <= cap /\ n <= Len(text) /\ Len(mem) \in Nat
    BY <1>2, <1>3, <1>5, ArraysAre
  <2>3. /\ mem' = Allocated(mem, text, cap) /\ given' = Allocated(given, text, cap)
        /\ token' = [slice |-> s2, own |-> TRUE, text |-> text]
    BY <1>8, <2>1, Zenon
  <2> HIDE DEF cap, n, text
  <2>4. /\ Good(mem', given', writer, written, inputs, texts, token)
        /\ IsAllocated(mem, mem', text, cap)
        /\ Nobody(inputs, writer, token, Len(mem) + 1) /\ Len(mem) + 1 # 1
        /\ Len(mem) + 1 # writer.buf.arr
    <3>1. MadeFresh(text, cap)
      BY <1>5, <2>2, GoodFresh, Zenon
    <3> QED
      BY <2>3, <3>1, Zenon DEF MadeFresh
  <2>5. IsMade(mem', s2, Len(mem) + 1, n, cap, text)
    BY <1>3, <1>5, <2>2, <2>4, MadeSlice, Zenon
  <2> HIDE DEF s2
  <2>6. /\ Fits(mem', s2) /\ s2.arr = Len(mem) + 1 /\ Says(mem', s2, text) /\ s2 \in SliceSet
    BY <1>5, <2>5, Zenon DEF IsMade, Fits
  <2>7. token'.slice = s2 /\ token'.text = text
    BY <2>3
  <2>8. token' \in [slice : SliceSet, own : BOOLEAN, text : Seq(Byte)]
    BY <1>5, <2>3, <2>6
  <2>9. TokenOK(mem', token')
    BY <2>6, <2>7, <2>8, Zenon DEF TokenOK
  <2>10. \A a, k : Within(s2, a, k) \/ SpareAt(s2, a, k) => a = Len(mem) + 1
    BY <2>6, Zenon DEF Within, SpareAt
  <2>11. MayKeep(inputs, writer, token')
    BY <2>4, <2>7, <2>10, Zenon DEF MayKeep, Nobody
  <2>12. Good(mem', given', writer, written, inputs, texts, token')
    BY <2>4, <2>9, <2>11, GoodToken, Zenon
  <2> QED
    BY <1>1, <2>12, Zenon DEF Inv, writers
<1> QED
  BY <1>1, <1>7, <1>8, Zenon

--------------------------------------------------------------------------------
(* The theorems *)

LEMMA NextInv == Inv /\ [Next]_vars => Inv'
<1> SUFFICES ASSUME Inv, [Next]_vars
             PROVE  Inv'
  OBVIOUS
<1>1. CASE UNCHANGED vars
  BY <1>1, Zenon DEF vars, writers, Inv
<1>2. CASE WriterWrites
  BY <1>2, WriterWritesInv, Zenon
<1>3. CASE WriterResets
  BY <1>3, WriterResetsInv, Zenon
<1>4. CASE WriterGivesBytes
  BY <1>4, WriterGivesBytesInv, Zenon
<1>5. CASE ClientAppends
  BY <1>5, ClientAppendsInv, Zenon
<1>6. ASSUME NEW i \in Inputs, InputStarts(i)
      PROVE  Inv'
  BY <1>6, InputStartsInv, Zenon
<1>7. ASSUME NEW i \in Inputs, InputReadsAll(i)
      PROVE  Inv'
  BY <1>7, InputReadsAllInv, Zenon
<1>8. ASSUME NEW i \in Inputs, InputRestores(i)
      PROVE  Inv'
  BY <1>8, InputRestoresInv, Zenon
<1>9. ASSUME NEW i \in Inputs, InputMoves(i)
      PROVE  Inv'
  BY <1>9, InputMovesInv, Zenon
<1>10. ASSUME NEW i \in Inputs, InputShifts(i)
       PROVE  Inv'
  BY <1>10, InputShiftsInv, Zenon
<1>11. ASSUME NEW i \in Inputs, InputGivesBytes(i)
       PROVE  Inv'
  BY <1>11, InputGivesBytesInv, Zenon
<1> QED
  BY <1>1, <1>2, <1>3, <1>4, <1>5, <1>6, <1>7, <1>8, <1>9, <1>10, <1>11, Zenon DEF Next

\* Every cell of memory has its roles, and those exclude each other, whatever the
\* program does with its Inputs, its Writer and what it keeps.
THEOREM Invariant == Spec => []Inv
<1>1. Init => Inv
  BY InitInv
<1>2. Inv /\ [Next]_vars => Inv'
  BY NextInv
<1> QED
  BY <1>1, <1>2, PTL DEF Spec

\* An Input reads to its end what it was made of, and the slices that it has
\* answered keep what they said, for any number of Inputs, texts and arrays
\* (input.go:47-101, 141-173).
THEOREM SlicesStayIntact == Spec => []SlicesIntact
<1>1. Inv => SlicesIntact
  <2> SUFFICES ASSUME Inv
               PROVE  SlicesIntact
    OBVIOUS
  <2>1. mem \in Arrays /\ TokenOK(mem, token)
    BY Zenon DEF Inv, Good, MemoryOK
  <2>2. Bytes(token.slice) = token.text
    <3>1. token.text \in Seq(Byte)
      BY <2>1, Zenon DEF TokenOK
    <3> QED
      BY <2>1, <3>1, SaysBytes, Zenon DEF TokenOK
  <2>3. ASSUME NEW i \in Inputs, IsOpen(i)
        PROVE  Bytes(inputs[i].buf) = Append(texts[i], NUL)
    <3>1. /\ texts[i] \in Seq(Byte) /\ Fits(mem, inputs[i].buf)
          /\ Says(mem, inputs[i].buf, Append(texts[i], NUL))
      BY <2>3, InvInputs, Zenon DEF InputOK
    <3>2. NUL \in Byte
      BY DEF Byte
    <3>3. Append(texts[i], NUL) \in Seq(Byte)
      BY <3>1, <3>2
    <3> QED
      BY <2>1, <3>1, <3>3, SaysBytes, Zenon
  <2> QED
    BY <2>2, <2>3, Zenon DEF SlicesIntact
<1> QED
  BY <1>1, Invariant, PTL

\* No byte of memory differs from what its owner wrote, but for those that an
\* Input has borrowed for its NUL and not yet given back (input.go:63-83).
THEOREM OthersUnchanged == Spec => []OnlyLentDiffers
<1>1. Inv => OnlyLentDiffers
  <2> SUFFICES ASSUME Inv, NEW a \in DOMAIN mem, NEW k \in DOMAIN mem[a],
                      <<a, k>> \notin AllLent
               PROVE  mem[a][k] = given[a][k]
    BY Zenon DEF OnlyLentDiffers
  <2>1. mem \in Arrays
    BY Zenon DEF Inv, Good, MemoryOK
  <2>2. a \in 1..Len(mem) /\ k \in 1..Len(mem[a])
    BY <2>1, ArraysAre, Zenon
  <2>3. a \in Nat /\ k \in Nat
    BY <2>1, <2>2, ArraysAre
  <2>4. \A i \in Inputs : ~LendsAt(inputs[i], a, k)
    BY <2>3, LentAre, Zenon
  <2> QED
    BY <2>2, <2>4, Zenon DEF Inv, Good, AllUnlent, Unlent
<1> QED
  BY <1>1, Invariant, PTL

\* The Writer keeps all that is written to it, in whichever array it is, and it
\* only fails when it may not grow (buffer/writer.go:32-46).
THEOREM WriterKeepsAll == Spec => []WriterKeeps
<1>1. Inv => WriterKeeps
  <2> SUFFICES ASSUME Inv
               PROVE  WriterKeeps
    OBVIOUS
  <2> DEFINE b == writer.buf
  <2>1. /\ given \in Arrays /\ Fits(mem, b) /\ b.off = 0 /\ Says(given, b, written)
        /\ written \in Seq(Byte) /\ (writer.err => ~writer.expand) /\ MemoryOK(mem, given)
    BY Zenon DEF Inv, Good, WriterOK, MemoryOK
  <2>2. Fits(given, b)
    BY <2>1 DEF Fits, MemoryOK
  <2>3. b.len \in Nat
    BY <2>1, SliceIs, Zenon DEF Fits
  <2> DEFINE said == SubSeq(given[b.arr], 1, b.len)
  <2>4. said = SubSeq(given[b.arr], b.off + 1, b.off + b.len)
    BY <2>1, <2>3
  <2> HIDE DEF said
  <2>5. said \in Seq(Byte) /\ Says(given, b, said)
    BY <2>1, <2>2, <2>4, TextIs, Zenon
  <2>6. said = written
    <3>1. /\ Len(said) = Len(written)
          /\ \A k \in 1..Len(said) : said[k] = written[k]
      BY <2>1, <2>5, Zenon DEF Says
    <3> QED
      BY <2>1, <2>5, <3>1
  <2> QED
    BY <2>1, <2>6, Zenon DEF WriterKeeps, said
<1> QED
  BY <1>1, Invariant, PTL
===============================================================================
