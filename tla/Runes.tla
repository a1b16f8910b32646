--------------------------------- MODULE Runes ---------------------------------
(***************************************************************************)
(* How input.go and buffer/lexer.go find how many bytes a character has    *)
(* that may be cut short by the end of the text.  A text is a sequence of  *)
(* bytes, with the NUL that terminates it; the byte that begins a longer   *)
(* character is named for its length.                                      *)
(***************************************************************************)
EXTENDS Integers, Sequences

NUL == "nul"

\* The bytes that begin a character of two, three and four, as the comparisons
\* c < 0xC0, c < 0xE0 and c < 0xF0 tell them apart.
Long == {"two", "three", "four"}

\* The length that PeekRune(0) answers, and by which MoveRune moves, at a place
\* in a text with its terminator.
RuneLen(text, pos) ==
    LET c == text[pos + 1]
        left == Len(text) - 1 - pos
    IN  IF c \notin Long \/ left < 2 THEN 1
        ELSE IF c = "two" \/ left < 3 THEN 2
        ELSE IF c = "three" \/ left < 4 THEN 3
        ELSE 4

\* As buffer/lexer.go has it.
LexerRuneLen(text, pos) ==
    LET c == text[pos + 1]
    IN  IF c \notin Long \/ text[pos + 2] = NUL THEN 1
        ELSE IF c = "two" \/ text[pos + 3] = NUL THEN 2
        ELSE IF c = "three" \/ text[pos + 4] = NUL THEN 3
        ELSE 4
--------------------------------------------------------------------------------
(* Properties *)

\* A character ends before the terminator, however it is cut short, so that no
\* MoveRune passes the end of the text (input.go:108-138).
RunesWithin(text, pos) == pos < Len(text) - 1 => pos + RuneLen(text, pos) <= Len(text) - 1

\* The two ways to find the end of the text agree but for a NUL of the text
\* itself, which only buffer/lexer.go takes for the end: there the character ends
\* before it (input.go:108-119, buffer/lexer.go:104-115).
SameRunes(text, pos) ==
    LET n == RuneLen(text, pos)
        nuls == {k \in 1..(n - 1) : text[pos + 1 + k] = NUL}
    IN  LexerRuneLen(text, pos) =
            IF nuls = {} THEN n ELSE CHOOSE k \in nuls : \A m \in nuls : k <= m
================================================================================
