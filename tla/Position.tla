------------------------------- MODULE Position -------------------------------
(***************************************************************************)
(* position.go: how the line and column of an offset are found, for the    *)
(* error messages of every parser, and the piece of the line that is shown *)
(* with a caret under the column.  "nl" and "cr" are \n and \r; the bytes  *)
(* of U+2028 and of U+2029 are "three", "ls", "ls".                        *)
(***************************************************************************)
EXTENDS Runes, SequencesExt, FiniteSetsExt

VARIABLES
    text, offset,     \* the arguments; offset becomes relative to the line
    pos, start,       \* of the Input
    line, broken      \* broken: the loop has been left by a break

vars == <<text, offset, pos, start, line, broken>>

Continuations == {"ls", "x"}

Buffer == Append(text, NUL)
Byte(p) == Buffer[p + 1]

AtSeparator(p) == IsPrefix(<<"three", "ls", "ls">>, SubSeq(Buffer, p + 1, Len(Buffer)))

Starts(bytes, at) ==
    /\ text = bytes /\ offset = at
    /\ pos = 0 /\ start = 0 /\ line = 1 /\ broken = FALSE

\* Mutant: \r\n is taken for two newlines.
Bug_Width(p) == IF Byte(p) \in Long THEN RuneLen(Buffer, p) ELSE 1

\* How many bytes the loop moves by.
Width(p) ==
    IF Byte(p) = "cr" /\ Byte(p + 1) = "nl" THEN 2
    ELSE IF Byte(p) \in Long THEN RuneLen(Buffer, p)
    ELSE 1

IsNewline(p) == Byte(p) \in {"nl", "cr"} \/ AtSeparator(p)

InLoop == ~broken /\ pos - start < offset

Step ==
    /\ InLoop
    /\ LET n == Width(pos)
       IN  IF pos = Len(text) \/ (n > 1 /\ offset < pos - start + n)
           THEN broken' = TRUE /\ UNCHANGED <<offset, pos, start, line>>
           ELSE /\ pos' = pos + n
                /\ IF IsNewline(pos)
                   THEN line' = line + 1 /\ start' = pos' /\ offset' = offset - (pos' - start)
                   ELSE UNCHANGED <<line, start, offset>>
                /\ UNCHANGED broken
    /\ UNCHANGED text

\* len([]rune(...)) of a piece that ends between characters.
Runes(lo, hi) == Cardinality({p \in lo..(hi - 1) : Byte(p) \notin Continuations})

col == Runes(start, pos) + 1

\* positionContext: of a line of n characters, those in lo..hi are shown, after
\* the dots of front, and the caret stands under the column caret of that.
Context(n, c) ==
    IF n <= 60 THEN [front |-> 0, lo |-> 0, hi |-> n, caret |-> c]
    ELSE IF c <= 40 THEN [front |-> 0, lo |-> 0, hi |-> 57, caret |-> c]
    ELSE IF c >= n - 23 THEN [front |-> 3, lo |-> n - 44, hi |-> n, caret |-> c - (n - 47)]
    ELSE [front |-> 3, lo |-> c - 21, hi |-> c + 20, caret |-> 24]
--------------------------------------------------------------------------------
(* Properties *)

\* The newlines of the text, and the places between its characters, where \r\n
\* is one.
Newlines ==
    {<<p, p + 1>> : p \in {q \in 0..(Len(text) - 1) :
        \/ Byte(q) = "nl" /\ (q = 0 \/ Byte(q - 1) # "cr")
        \/ Byte(q) = "cr" /\ Byte(q + 1) # "nl"}}
    \cup {<<p, p + 2>> : p \in {q \in 0..(Len(text) - 2) : Byte(q) = "cr" /\ Byte(q + 1) = "nl"}}
    \cup {<<p, p + 3>> : p \in {q \in 0..(Len(text) - 3) : AtSeparator(q)}}

Between ==
    {p \in 0..Len(text) :
        Byte(p) \notin Continuations /\ ~(p > 0 /\ Byte(p - 1) = "cr" /\ Byte(p) = "nl")}

\* The line and column are those of the character that the offset is in, also
\* within \r\n, within a character of several bytes, before the beginning and
\* after the end (position.go:12-55).
PositionRight(at) ==
    ~InLoop =>
        LET place == Max({p \in Between : p <= at} \cup {0})
            ends == {nl[2] : nl \in {l \in Newlines : l[2] <= place}}
        IN  /\ line = 1 + Cardinality(ends)
            /\ col = 1 + Runes(Max(ends \cup {0}), place)

\* What is shown of a line has at most sixty characters, dots included, and the
\* caret stands under the character of the column (position.go:66-87).
CaretUnderColumn(n, c) ==
    LET shown == Context(n, c)
    IN  /\ 0 <= shown.lo /\ shown.hi <= n
        /\ c \in (shown.lo + 1)..(shown.hi + 1)
        /\ shown.caret = shown.front + c - shown.lo
        /\ shown.front + (shown.hi - shown.lo) + (IF shown.hi < n THEN 3 ELSE 0) <= 60
===============================================================================
