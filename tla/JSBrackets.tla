------------------------------ MODULE JSBrackets ------------------------------
(***************************************************************************)
(* How js/lex.go tells a brace that closes a block from one that goes back *)
(* to the text of a template: it counts the open brackets in level, and    *)
(* keeps the levels at which templates began.  open is what a parser would *)
(* keep instead, the brackets themselves.  The actions are what a token    *)
(* does to these variables; JSLexer gives them their tokens.               *)
(***************************************************************************)
EXTENDS Integers, Sequences

VARIABLES
    level, templateLevels,   \* Lexer.level, Lexer.templateLevels
    open,                    \* history: the brackets that are open
    balanced                 \* history: every closing bracket has closed its own

brackets == <<level, templateLevels, open, balanced>>

Paren == "paren"
Brace == "brace"
Substitution == "substitution"
Kinds == {Paren, Brace, Substitution}

Top(s) == s[Len(s)]
Pop(s) == SubSeq(s, 1, Len(s) - 1)

Init == level = 0 /\ templateLevels = <<>> /\ open = <<>> /\ balanced = TRUE

\* Mutant: the levels are compared before the brace is counted.
Bug_InTemplate == templateLevels # <<>> /\ Top(templateLevels) = level

\* The } at this level goes on with a template.
InTemplate == templateLevels # <<>> /\ Top(templateLevels) = level - 1

OpenBracket(kind) ==
    /\ level' = level + 1
    /\ open' = Append(open, kind)
    /\ UNCHANGED <<templateLevels, balanced>>

\* The history of a token that closes a bracket of this kind.
Close(kind) ==
    IF open # <<>> /\ Top(open) = kind
    THEN open' = Pop(open) /\ UNCHANGED balanced
    ELSE balanced' = FALSE /\ UNCHANGED open

CloseParen ==
    /\ level' = level - 1
    /\ Close(Paren)
    /\ UNCHANGED templateLevels

CloseBrace ==
    /\ ~InTemplate
    /\ level' = level - 1
    /\ Close(Brace)
    /\ UNCHANGED templateLevels

\* A template without substitutions, or up to its first.
WholeTemplate == UNCHANGED brackets

StartTemplate ==
    /\ level' = level + 1
    /\ templateLevels' = Append(templateLevels, level)
    /\ open' = Append(open, Substitution)
    /\ UNCHANGED balanced

\* From a substitution to the next, or to the end of the template.
MiddleOfTemplate ==
    /\ InTemplate
    /\ balanced' = IF open # <<>> /\ Top(open) = Substitution THEN balanced ELSE FALSE
    /\ UNCHANGED <<level, templateLevels, open>>

EndTemplate ==
    /\ InTemplate
    /\ level' = level - 1
    /\ templateLevels' = Pop(templateLevels)
    /\ Close(Substitution)

\* A template that the source does not end.
BrokenTemplate ==
    /\ \/ level' = level /\ templateLevels' = Append(templateLevels, level)
       \/ InTemplate /\ level' = level - 1 /\ UNCHANGED templateLevels
    /\ balanced' = FALSE
    /\ UNCHANGED open

Next ==
    \/ OpenBracket(Paren) \/ OpenBracket(Brace)
    \/ CloseParen \/ CloseBrace
    \/ WholeTemplate \/ StartTemplate \/ MiddleOfTemplate \/ EndTemplate \/ BrokenTemplate

Spec == Init /\ [][Next]_brackets
--------------------------------------------------------------------------------
(* Properties *)

TypeOK ==
    /\ level \in Int /\ templateLevels \in Seq(Int) /\ open \in Seq(Kinds) /\ balanced \in BOOLEAN

\* As long as the brackets of the source match, a brace goes on with a template
\* exactly when the innermost open bracket is the substitution of one
\* (js/lex.go:163-169).
BraceOfTemplate ==
    (balanced /\ open # <<>> /\ Top(open) # Paren) => (InTemplate <=> Top(open) = Substitution)

\* While they match, level counts the open brackets, and templateLevels has the
\* places of the substitutions among them, the innermost last
\* (js/lex.go:161-169, 689-721).
LevelsNested ==
    balanced =>
        /\ level = Len(open)
        /\ \A k \in 1..Len(templateLevels) :
              /\ templateLevels[k] + 1 \in 1..Len(open)
              /\ open[templateLevels[k] + 1] = Substitution
        /\ \A i \in 1..Len(open) :
              open[i] = Substitution => \E k \in 1..Len(templateLevels) : templateLevels[k] = i - 1
        /\ \A j, k \in 1..Len(templateLevels) : j < k => templateLevels[j] < templateLevels[k]
================================================================================
