------------------------------- MODULE Tokenizer -------------------------------
(***************************************************************************)
(* What every lexer of the repository promises its client, whatever the    *)
(* language: its tokens are consecutive pieces of the source, none empty,  *)
(* and nothing between them is lost but blanks; it never reads past the    *)
(* source, and ends only at the end of the source, at a NUL or after an    *)
(* error it has reported (Spec); and it ends (Finishes).                   *)
(***************************************************************************)
EXTENDS Integers, Sequences

CONSTANTS Blanks     \* the symbols a lexer may drop between two tokens

VARIABLES
    src,             \* the source
    pos,             \* how much of it has been handed out or dropped
    piece,           \* the offsets [lo, hi) of the last token
    ended,           \* the lexer has said that there are no more tokens
    relexes,         \* the client may ask for the last token again, as another
    failed           \* an error has been reported after the last token

vars == <<src, pos, piece, ended, relexes, failed>>

Init == pos = 0 /\ piece = <<>> /\ ended = FALSE

OnlyBlanks(lo, hi) == \A i \in (lo + 1)..hi : src[i] \in Blanks

Token ==
    /\ ~ended
    /\ \E lo \in pos..(Len(src) - 1) : \E hi \in (lo + 1)..Len(src) :
          /\ OnlyBlanks(pos, lo)
          /\ piece' = <<lo, hi>>
          /\ pos' = hi
    /\ failed' = FALSE
    /\ UNCHANGED <<src, ended, relexes>>

\* The last token is another, or none, from the same offset on.
Again ==
    /\ ~ended /\ relexes /\ piece # <<>>
    /\ \/ \E hi \in (piece[1] + 1)..Len(src) : /\ piece' = <<piece[1], hi>>
                                                  /\ pos' = hi
                                                  /\ failed' = FALSE
       \/ piece' = <<>> /\ pos' = piece[1] /\ failed' = TRUE
    /\ UNCHANGED <<src, ended, relexes>>

Fail == ~ended /\ failed' = TRUE /\ UNCHANGED <<src, pos, piece, ended, relexes>>

Stop ==
    /\ ~ended
    /\ ended' = TRUE
    /\ pos' \in pos..Len(src)
    /\ IF pos' = Len(src) THEN OnlyBlanks(pos, pos') ELSE failed \/ src[pos' + 1] = "nul"
    /\ piece' = <<>>
    /\ UNCHANGED <<src, relexes, failed>>

Next == Token \/ Again \/ Fail \/ Stop

Spec == Init /\ [][Next]_vars

Finishes == <>ended
================================================================================
