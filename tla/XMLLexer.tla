------------------------------- MODULE XMLLexer -------------------------------
(***************************************************************************)
(* xml/lex.go: one action per kind of answer of Lexer.Next.                *)
(***************************************************************************)
EXTENDS LexerInput

VARIABLES
    inTag,     \* Lexer.inTag
    tagStart   \* history: the token that opened the last start tag

vars == <<src, pos, tok, ended, inTag, tagStart>>

WS == {" "}
Quotes == {"\"", "'"}

\* A tag's end, or an XML declaration's or processing instruction's.
TagIsClosing(p) == At(p) = ">" \/ (At(p) \in {"/", "?"} /\ At(p + 1) = ">")
--------------------------------------------------------------------------------
(* Inside a tag *)

NameEnd(p) == Scan(p, LAMBDA q : At(q) \in WS \cup {"=", NUL} \/ TagIsClosing(q))

\* Mutant: either quote closes a value.
Bug_ValueEnd(p) ==
    IF At(p) \in Quotes
    THEN LET q == Scan(p + 1, LAMBDA r : At(r) \in Quotes \cup {NUL})
         IN  IF At(q) \in Quotes THEN q + 1 ELSE q
    ELSE Scan(p, LAMBDA q : At(q) \in WS \cup {NUL} \/ TagIsClosing(q))

\* The value at p: up to the quote that opened it, or to the next blank.
ValueEnd(p) ==
    IF At(p) \in Quotes
    THEN LET q == Scan(p + 1, LAMBDA r : At(r) \in {At(p), NUL})
         IN  IF At(q) = At(p) THEN q + 1 ELSE q
    ELSE Scan(p, LAMBDA q : At(q) \in WS \cup {NUL} \/ TagIsClosing(q))

\* shiftAttribute from the name at p: where the token ends.
AttributeEnd(p) ==
    LET eq == Past(NameEnd(p), WS)
    IN  IF At(eq) = "=" THEN ValueEnd(Past(eq + 1, WS)) ELSE NameEnd(p)

\* Mutant: a lone equals sign is skipped with the blanks.
Bug_TagRest == Past(pos, WS \cup {"="})

TagRest == Past(pos, WS)

\* A NUL in the source is an error of its own.
InTagError ==
    /\ inTag /\ At(TagRest) = NUL
    /\ Fails(TagRest)
    /\ UNCHANGED <<inTag, tagStart>>

Attribute ==
    /\ inTag /\ At(TagRest) # NUL /\ ~TagIsClosing(TagRest)
    /\ Answers("Attribute", pos, AttributeEnd(TagRest), <<>>)
    /\ UNCHANGED <<inTag, tagStart>>

TagClose ==
    /\ inTag /\ TagIsClosing(TagRest)
    /\ CASE At(TagRest) = "/" -> Answers("StartTagCloseVoid", TagRest, TagRest + 2, <<>>)
         [] At(TagRest) = "?" -> Answers("StartTagClosePI", TagRest, TagRest + 2, <<>>)
         [] OTHER -> Answers("StartTagClose", TagRest, TagRest + 1, <<>>)
    /\ inTag' = FALSE
    /\ UNCHANGED tagStart
--------------------------------------------------------------------------------
(* Content *)

ContentError ==
    /\ ~inTag /\ At(pos) = NUL
    /\ Fails(pos)
    /\ UNCHANGED <<inTag, tagStart>>

PlainText ==
    /\ ~inTag /\ At(pos) \notin {"<", NUL}
    /\ Answers("Text", pos, Scan(pos, LAMBDA q : At(q) \in {"<", NUL}), <<>>)
    /\ UNCHANGED <<inTag, tagStart>>

MarkupAt(word) == ~inTag /\ At(pos) = "<" /\ AtAll(pos + 1, word)

\* Up to a closing word, or to a NUL.
ToWord(p, word) ==
    LET q == Scan(p, LAMBDA r : At(r) = NUL \/ AtAll(r, word))
    IN  IF At(q) \in {NUL, "panic"} THEN q ELSE q + Len(word)

EndTag ==
    /\ MarkupAt(<<"/">>)
    /\ Answers("EndTag", pos, ToWord(pos + 2, <<">">>), <<>>)
    /\ UNCHANGED <<inTag, tagStart>>

Comment ==
    /\ MarkupAt(<<"!", "-", "-">>)
    /\ Answers("Comment", pos, ToWord(pos + 4, <<"-", "-", ">">>), <<>>)
    /\ UNCHANGED <<inTag, tagStart>>

CDATA ==
    /\ MarkupAt(<<"!", "[CDATA[">>)
    /\ Answers("CDATA", pos, ToWord(pos + 3, <<"]", "]", ">">>), <<>>)
    /\ UNCHANGED <<inTag, tagStart>>

\* shiftDOCTYPEText: double quotes pair up, and the last bracket outside them
\* tells whether p is inside the internal subset.
InString(lo, p) == Cardinality({q \in lo..(p - 1) : At(q) = "\""}) % 2 = 1

InBrackets(lo, p) ==
    LET brackets == {q \in lo..(p - 1) : At(q) \in {"[", "]"} /\ ~InString(lo, q)}
    IN  brackets # {} /\ At(Max(brackets)) = "["

DoctypeEnd(lo) ==
    LET q == Scan(lo, LAMBDA r : \/ At(r) = NUL
                                 \/ At(r) = ">" /\ ~InString(lo, r) /\ ~InBrackets(lo, r))
    IN  IF At(q) = ">" THEN q + 1 ELSE q

Doctype ==
    /\ MarkupAt(<<"!", "doctype">>)
    /\ Answers("DOCTYPE", pos, DoctypeEnd(pos + 3), <<>>)
    /\ UNCHANGED <<inTag, tagStart>>

\* Any other "<" starts a tag, whose name may be empty; "<?" also passes the
\* question mark.
StartTag ==
    /\ MarkupAt(<<>>)
    /\ ~AtAll(pos + 1, <<"/">>) /\ ~AtAll(pos + 1, <<"!", "-", "-">>)
    /\ ~AtAll(pos + 1, <<"!", "[CDATA[">>) /\ ~AtAll(pos + 1, <<"!", "doctype">>)
    /\ LET isPI == At(pos + 1) = "?"
           name == IF isPI THEN pos + 2 ELSE pos + 1
       IN  Answers(IF isPI THEN "StartTagPI" ELSE "StartTag", pos,
                   Scan(name, LAMBDA q : At(q) \in WS \cup {NUL} \/ TagIsClosing(q)), <<>>)
    /\ inTag' = TRUE
    /\ tagStart' = tok'

Init(source) == StartsAt(source) /\ inTag = FALSE /\ tagStart = NoToken

Next ==
    /\ ~ended
    /\ \/ InTagError \/ Attribute \/ TagClose
       \/ ContentError \/ PlainText \/ EndTag \/ Comment \/ CDATA \/ Doctype \/ StartTag
================================================================================
