------------------------------ MODULE LexerInput ------------------------------
(***************************************************************************)
(* The source a lexer reads, as the lexers see the Input of input.go: a    *)
(* sequence of symbols, terminated by a NUL that is not part of it.  A     *)
(* symbol is one character, or one word of letters where only the whole    *)
(* word matters.  Offsets count symbols from 0.                            *)
(***************************************************************************)
EXTENDS Integers, Sequences, FiniteSetsExt

VARIABLES
    src,      \* the source
    pos,      \* Input.pos between two calls of the lexer's Next
    tok,      \* the last token: its type and what else Next and Text() answer
    ended     \* Next has answered ErrorToken; the client stops calling it

NUL == "nul"

\* The offsets a loop may reach; the last one is out of range.
Offsets == 0..(Len(src) + 1)

\* Peek at an offset: the terminator at the end, and an index out of range
\* beyond it.
At(p) == IF p < Len(src) THEN src[p + 1] ELSE IF p = Len(src) THEN NUL ELSE "panic"

\* Err() # nil at an offset.
AtEOF(p) == p >= Len(src)

\* c == 0 && l.r.Err() != nil.
Ended(p) == At(p) = NUL /\ AtEOF(p)

\* A loop ends here at the latest, or runs out of range.
Over(p) == Ended(p) \/ p > Len(src)

\* The lexers' at(b ...byte).
AtAll(p, word) == \A i \in 1..Len(word) : At(p + i - 1) = word[i]

Text(lo, hi) == SubSeq(src, lo + 1, hi)

\* for { if stop { break }; Move(1) }: where a loop from offset p stops.  One
\* that does not stop at the end runs over the terminator.
Scan(p, Stop(_)) ==
    CHOOSE q \in p..(Len(src) + 1) :
        (q > Len(src) \/ Stop(q)) /\ \A r \in p..(q - 1) : ~Stop(r)

\* Where a loop over the characters of a class stops.
Past(p, class) == Scan(p, LAMBDA q : At(q) \notin class)

NoToken == [type |-> "none"]

\* Next answers the token [lo, hi) of the source; data is what else is known of
\* it, if anything.
Answers(type, lo, hi, data) ==
    /\ tok' = [type |-> type, lo |-> lo, hi |-> hi, data |-> data]
    /\ pos' = hi
    /\ UNCHANGED <<src, ended>>

\* Next answers ErrorToken, with the Input at offset p.
Fails(p) ==
    /\ tok' = NoToken
    /\ pos' = p
    /\ ended' = TRUE
    /\ UNCHANGED src

StartsAt(source) == src = source /\ pos = 0 /\ tok = NoToken /\ ended = FALSE
================================================================================
