------------------------------- MODULE HTMLLexer -------------------------------
(***************************************************************************)
(* html/lex.go: one action per kind of answer of Lexer.Next.  The loops    *)
(* over characters are operators on offsets of the source.  Letters stand  *)
(* for both cases; a name is one symbol.                                   *)
(***************************************************************************)
EXTENDS LexerInput

VARIABLES
    inTag, rawTag,   \* Lexer.inTag, Lexer.rawTag
    tmpl,            \* Lexer.tmplBegin and Lexer.tmplEnd: [open, close]
    tagStart         \* history: the token that opened the last start tag, unless foreign

lexer == <<inTag, rawTag, tmpl, tagStart>>
vars == <<src, pos, tok, ended, lexer>>

WS == {" "}
Quotes == {"\"", "'"}

\* ToHash: the names it distinguishes here.
RawTags == {"textarea", "title", "style", "xmp", "iframe", "script", "plaintext"}
ForeignTags == {"svg", "math", "xml"}
Letters == RawTags \cup ForeignTags \cup {"a", "b", "doctype"}
--------------------------------------------------------------------------------
(* Templates *)

AtTemplate(p) == tmpl.open # <<>> /\ AtAll(p, tmpl.open)

\* The quoted string that opens at p: a quote after an odd number of
\* backslashes does not close it.
Escape(p, q) ==
    LET odd[r \in 0..Len(src)] == r > p + 1 /\ At(r - 1) = "\\" /\ ~odd[r - 1]
    IN  odd[q]

QuoteEnd(p) == Scan(p + 1, LAMBDA q : Ended(q) \/ (At(q) = At(p) /\ ~Escape(p, q)))

\* moveTemplate, from an offset inside a template.
TemplateEnd[p \in Offsets] ==
    IF Over(p) THEN p
    ELSE IF AtAll(p, tmpl.close) THEN p + Len(tmpl.close)
    ELSE IF At(p) \in Quotes
         THEN LET q == QuoteEnd(p) IN IF Ended(q) THEN q ELSE TemplateEnd[q + 1]
    ELSE TemplateEnd[p + 1]

PastTemplate(p) == TemplateEnd[p + Len(tmpl.open)]

PastTemplates[p \in Offsets] == IF AtTemplate(p) THEN PastTemplates[PastTemplate(p)] ELSE p

\* Mutant: only a template at the beginning is noticed.
Bug_MeetsTemplate(lo, hi) == lo < hi /\ AtTemplate(lo)

\* moveTemplate is called between these offsets, in a loop that looks for
\* templates at every character.
MeetsTemplate(lo, hi) == \E q \in lo..(hi - 1) : AtTemplate(q)
--------------------------------------------------------------------------------
(* Inside a tag *)

\* Where an attribute's name stops; templates are skipped whole.
NameEnd[p \in Offsets] ==
    IF AtTemplate(p) THEN NameEnd[PastTemplate(p)]
    ELSE IF At(p) \in WS \cup {"=", ">"} \/ (At(p) = "/" /\ At(p + 1) = ">") \/ Over(p)
         THEN p
    ELSE NameEnd[p + 1]

\* Where a quoted value stops: after the quote that opened it.
InQuotes(p, delim) ==
    LET end[q \in Offsets] ==
            IF AtTemplate(q) THEN end[PastTemplates[q]]
            ELSE IF At(q) = delim THEN q + 1
            ELSE IF Over(q) THEN q
            ELSE end[q + 1]
    IN  end[p]

\* Mutant: a slash ends an unquoted value.
Bug_Unquoted(p) == Scan(p, LAMBDA q : At(q) \in WS \cup {">", "/"} \/ Ended(q))

Unquoted(p) == Scan(p, LAMBDA q : At(q) \in WS \cup {">"} \/ Ended(q))

ValueEnd(p) ==
    IF AtTemplate(p) THEN PastTemplates[p]
    ELSE IF At(p) \in Quotes THEN InQuotes(p + 1, At(p))
    ELSE Unquoted(p)

\* shiftAttribute from the attribute's name at p: where the value is, where
\* the token ends, and whether it has met a template.
AttributeAt(p) ==
    LET nameEnd == NameEnd[PastTemplates[p]]
        eq == Past(nameEnd, WS)
        value == Past(eq + 1, WS)
        valueEnd == IF At(eq) = "=" THEN ValueEnd(value) ELSE nameEnd
    IN  [value |-> IF At(eq) = "=" THEN <<value, valueEnd>> ELSE <<>>,
         end |-> PastTemplates[valueEnd],
         hasTmpl |-> \/ MeetsTemplate(p, nameEnd)
                     \/ AtTemplate(valueEnd)
                     \/ /\ At(eq) = "="
                        /\ \/ AtTemplate(value)
                           \/ At(value) \in Quotes /\ MeetsTemplate(value + 1, valueEnd)]

\* Where the next attribute or the end of the tag begins.
TagRest == Past(pos, WS)

TagIsClosing(p) == At(p) = ">" \/ (At(p) = "/" /\ At(p + 1) = ">")

InTagError ==
    /\ inTag /\ Ended(TagRest)
    /\ Fails(TagRest)
    /\ UNCHANGED lexer

Attribute ==
    /\ inTag /\ ~Ended(TagRest) /\ ~TagIsClosing(TagRest)
    /\ LET a == AttributeAt(TagRest)
       IN  Answers("Attribute", pos, a.end, [value |-> a.value, hasTmpl |-> a.hasTmpl])
    /\ UNCHANGED lexer

\* The blanks before the end of a tag are skipped.
TagClose ==
    /\ inTag /\ TagIsClosing(TagRest)
    /\ IF At(TagRest) = "/"
       THEN Answers("StartTagVoid", TagRest, TagRest + 2, <<>>)
       ELSE Answers("StartTagClose", TagRest, TagRest + 1, <<>>)
    /\ inTag' = FALSE
    /\ UNCHANGED <<rawTag, tmpl, tagStart>>
--------------------------------------------------------------------------------
(* Raw text *)

\* The letters after "</" or "<".
Name(p) == Text(p, Past(p, Letters))

\* shiftRawText of RCDATA, RAWTEXT and script data: where it ends and whether
\* it has met a template.  The mode tells its two loops apart, and inScript of
\* the inner one, which runs after a comment has opened in a script.
RawEnd[at \in Offsets \X {"text", "comment", "inScript"} \X BOOLEAN] ==
    LET p == at[1]
        mode == at[2]
        met == at[3]
        isEnd == At(p + 1) = "/"
        name == IF isEnd THEN p + 2 ELSE p + 1
        isRaw == Name(name) = <<rawTag>>
    IN  IF Over(p) THEN [end |-> p, hasTmpl |-> met]
        ELSE IF At(p) = "<" /\ isEnd /\ isRaw /\ mode # "inScript" THEN [end |-> p, hasTmpl |-> met]
        ELSE IF mode = "text"
        THEN IF At(p) = "<" /\ isEnd THEN RawEnd[<<Past(name, Letters), mode, met>>]
             ELSE IF rawTag = "script" /\ AtAll(p, <<"<", "!", "-", "-">>)
                  THEN RawEnd[<<p + 4, "comment", met>>]
             ELSE IF At(p) # "<" /\ AtTemplate(p) THEN RawEnd[<<PastTemplate(p), mode, TRUE>>]
             ELSE RawEnd[<<p + 1, mode, met>>]
        ELSE IF AtAll(p, <<"-", "-", ">">>) THEN RawEnd[<<p + 3, "text", met>>]
        ELSE IF At(p) # "<" THEN RawEnd[<<p + 1, mode, met>>]
        ELSE RawEnd[<<Past(name, Letters),
                      IF ~isRaw THEN mode ELSE IF isEnd THEN "comment" ELSE "inScript", met>>]

\* Mutant: the text of plaintext ends at its end tag.
Bug_ShiftRawText == RawEnd[<<pos, "text", FALSE>>]

ShiftRawText ==
    IF rawTag = "plaintext" THEN [end |-> Scan(pos, Ended), hasTmpl |-> FALSE]
    ELSE RawEnd[<<pos, "text", FALSE>>]

InRawText == ~inTag /\ rawTag # "none" /\ ShiftRawText.end > pos

\* Mutant: a template in raw text is passed over but not noted.
Bug_RawText ==
    /\ InRawText
    /\ Answers("Text", pos, ShiftRawText.end, [raw |-> rawTag, hasTmpl |-> FALSE])
    /\ rawTag' = "none"
    /\ UNCHANGED <<inTag, tmpl, tagStart>>

RawText ==
    /\ InRawText
    /\ Answers("Text", pos, ShiftRawText.end, [raw |-> rawTag, hasTmpl |-> ShiftRawText.hasTmpl])
    /\ rawTag' = "none"
    /\ UNCHANGED <<inTag, tmpl, tagStart>>
--------------------------------------------------------------------------------
(* Content *)

IsEndTag(p) == At(p + 1) = "/" /\ At(p + 2) # ">" /\ ~Ended(p + 2)

IsMarkup(p) == At(p) = "<" /\ (IsEndTag(p) \/ At(p + 1) \in Letters \cup {"!", "?"})

\* Where the text stops that begins at pos.
TextEnd == Scan(pos, LAMBDA q : AtTemplate(q) \/ IsMarkup(q) \/ Ended(q))

\* Next has left raw text, which resets rawTag, and is at p.
InContent(p) == ~inTag /\ ~InRawText /\ pos = p

Leaves == rawTag' = "none" /\ UNCHANGED <<inTag, tmpl, tagStart>>

ContentError ==
    /\ InContent(TextEnd) /\ Ended(pos) /\ ~AtTemplate(pos)
    /\ Fails(pos)
    /\ Leaves

PlainText ==
    /\ ~inTag /\ ~InRawText /\ TextEnd > pos
    /\ Answers("Text", pos, TextEnd, <<>>)
    /\ Leaves

Template ==
    /\ InContent(TextEnd) /\ AtTemplate(pos)
    /\ Answers("Template", pos, PastTemplate(pos), <<>>)
    /\ Leaves

MarkupAt(first) ==
    InContent(TextEnd) /\ ~AtTemplate(pos) /\ IsMarkup(pos) /\ At(pos + 1) \in first

\* shiftBogusComment from p, and shiftEndTag: up to the first ">".
ToGT(p) == LET q == Scan(p, LAMBDA r : At(r) = ">" \/ Ended(r))
           IN  IF At(q) = ">" THEN q + 1 ELSE q

EndTag ==
    /\ MarkupAt({"/"}) /\ At(pos + 2) \in Letters
    /\ Answers("EndTag", pos, ToGT(pos + 2), <<>>)
    /\ Leaves

BogusComment ==
    /\ \/ MarkupAt({"/"}) /\ At(pos + 2) \notin Letters
       \/ MarkupAt({"?"})
       \/ /\ MarkupAt({"!"})
          /\ \A word \in {<<"-", "-">>, <<"[CDATA[">>, <<"doctype">>} : ~AtAll(pos + 2, word)
    /\ Answers("Comment", pos, ToGT(pos + 1), <<>>)
    /\ Leaves

\* readMarkup: up to the first of the closing words.
ToWord(p, words) ==
    LET q == Scan(p, LAMBDA r : Ended(r) \/ \E w \in words : AtAll(r, w))
    IN  IF Over(q) THEN q ELSE q + Len(CHOOSE w \in words : AtAll(q, w))

Comment ==
    /\ MarkupAt({"!"}) /\ AtAll(pos + 2, <<"-", "-">>)
    /\ Answers("Comment", pos,
               ToWord(pos + 4, {<<"-", "-", ">">>, <<"-", "-", "!", ">">>}), <<>>)
    /\ Leaves

CDATA ==
    /\ MarkupAt({"!"}) /\ At(pos + 2) = "[CDATA["
    /\ Answers("Text", pos, ToWord(pos + 3, {<<"]", "]", ">">>}), <<>>)
    /\ Leaves

Doctype ==
    /\ MarkupAt({"!"}) /\ At(pos + 2) = "doctype"
    /\ Answers("Doctype", pos, ToGT(pos + 3), <<>>)
    /\ Leaves
--------------------------------------------------------------------------------
(* Start tags *)

\* shiftStartTag: the name ends at a blank, an end of the tag or a template.
TagNameEnd == Scan(pos + 1, LAMBDA q : At(q) \in WS \/ TagIsClosing(q) \/ Ended(q) \/ AtTemplate(q))

TagName == Text(pos + 1, TagNameEnd)

StartTag ==
    /\ MarkupAt(Letters) /\ TagName \notin {<<name>> : name \in ForeignTags}
    /\ Answers("StartTag", pos, TagNameEnd, [name |-> TagName])
    /\ inTag' = TRUE
    /\ rawTag' = IF TagName \in {<<name>> : name \in RawTags} THEN TagName[1] ELSE "none"
    /\ tagStart' = tok'
    /\ UNCHANGED tmpl

\* shiftXML: the first end tag of the name that is outside double quotes.
ForeignEnd[at \in Offsets \X BOOLEAN] ==
    LET p == at[1]
        inQuote == at[2]
        q == Past(p + 2, Letters)
    IN  IF At(p) = "\"" THEN ForeignEnd[<<p + 1, ~inQuote>>]
        ELSE IF ~inQuote /\ AtAll(p, <<"<", "/">>)
             THEN IF Text(p + 2, q) = TagName THEN Scan(q, LAMBDA r : At(r) \in {">", NUL})
                  ELSE ForeignEnd[<<q, inQuote>>]
        ELSE IF At(p) = NUL \/ p > Len(src) THEN p
        ELSE ForeignEnd[<<p + 1, inQuote>>]

ForeignRest == ForeignEnd[<<TagNameEnd, FALSE>>]

\* A NUL inside is an error, which takes what has been read; the end is not.
Foreign ==
    /\ MarkupAt(Letters) /\ TagName \in {<<name>> : name \in ForeignTags}
    /\ IF At(ForeignRest) = NUL /\ ~AtEOF(ForeignRest)
       THEN Fails(ForeignRest) /\ inTag' = TRUE
       ELSE /\ Answers("Foreign", pos, IF At(ForeignRest) = ">" THEN ForeignRest + 1 ELSE ForeignRest,
                       [name |-> TagName])
            /\ UNCHANGED inTag
    /\ rawTag' = "none"
    /\ tagStart' = NoToken
    /\ UNCHANGED tmpl

InitLexer(source, templates) ==
    /\ StartsAt(source)
    /\ inTag = FALSE /\ rawTag = "none" /\ tmpl = templates /\ tagStart = NoToken

NextToken ==
    /\ ~ended
    /\ \/ InTagError \/ Attribute \/ TagClose
       \/ RawText
       \/ ContentError \/ PlainText \/ Template \/ EndTag \/ BogusComment \/ Comment \/ CDATA \/ Doctype
       \/ StartTag \/ Foreign
================================================================================
