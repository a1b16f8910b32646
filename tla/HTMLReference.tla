----------------------------- MODULE HTMLReference -----------------------------
(***************************************************************************)
(* Where tags and raw text end by the tokenization of the HTML standard,   *)
(* which html/lex.go:221 says to follow, as its states are: one character  *)
(* at a time.  The reference HTMLLexer is compared with.                   *)
(***************************************************************************)
EXTENDS HTMLLexer

\* The attribute states: the state after the character c.
TagState(s, c) ==
    LET named == s \in {"name", "afterName"}
        outside == s \notin {"doubleQuoted", "singleQuoted", "beforeValue", "unquoted"}
    IN  CASE s = "doubleQuoted" -> IF c = "\"" THEN "afterQuoted" ELSE s
          [] s = "singleQuoted" -> IF c = "'" THEN "afterQuoted" ELSE s
          [] s = "beforeValue" -> CASE c = "\"" -> "doubleQuoted" [] c = "'" -> "singleQuoted"
                                    [] c = " " -> s [] OTHER -> "unquoted"
          [] s = "unquoted" -> IF c = " " THEN "beforeName" ELSE s
          [] named /\ c = "=" -> "beforeValue"
          [] named /\ c = " " -> "afterName"
          [] outside /\ ~named /\ c = " " -> "beforeName"
          [] outside /\ c = "/" -> "selfClosing"
          [] OTHER -> "name"

\* A tag from offset p on: where it ends and whether it closes itself.  A
\* template is one character of a name or a quoted value, or the whole of an
\* unquoted one.  The rest is unclear where an attribute's name would begin with
\* "=", which the code takes for a value, and where a template is further on in
\* an unquoted value, where the code does not see it.
AttributeStates == {"beforeName", "name", "afterName", "beforeValue", "unquoted",
                    "doubleQuoted", "singleQuoted", "afterQuoted", "selfClosing"}

TagFrom[at \in Offsets \X AttributeStates] ==
    LET p == at[1]
        s == at[2] IN
    IF p >= Len(src) THEN [end |-> -1]
    ELSE IF AtTemplate(p)
         THEN IF s = "unquoted" THEN [unclear |-> TRUE]
              ELSE TagFrom[<<PastTemplate(p),
                             IF s = "beforeValue" THEN "afterQuoted" ELSE TagState(s, "x")>>]
    ELSE IF s \in {"beforeName", "afterQuoted", "selfClosing"} /\ At(p) = "=" THEN [unclear |-> TRUE]
    ELSE IF At(p) = ">" /\ s \notin {"doubleQuoted", "singleQuoted"}
         THEN [end |-> p + 1, void |-> s = "selfClosing"]
    ELSE TagFrom[<<p + 1, TagState(s, At(p))>>]

\* A start tag ends where the standard ends it, whatever its attributes hold,
\* and is void when it closes itself; when it is not ended the standard does
\* not end it either (html/lex.go:135-157, 370-494).
TagEnds ==
    LET tag == TagFrom[<<tagStart.hi, "beforeName">>]
    IN  (tagStart # NoToken /\ "end" \in DOMAIN tag) =>
           /\ tok.type \in {"StartTagClose", "StartTagVoid"} =>
                 tok.hi = tag.end /\ (tag.void <=> tok.type = "StartTagVoid")
           /\ (inTag /\ ended) => tag.end = -1

\* The state of RCDATA, RAWTEXT and script data before the character at to, of
\* the raw text that begins at p: "escaped" after "<!--" in a script, and
\* "double" after "<script" in there.
Follows(word, p, q) == q - Len(word) >= p /\ AtAll(q - Len(word), word)

RawState(p, to) ==
    LET state[q \in 0..Len(src)] ==
            IF q <= p THEN "data"
            ELSE LET s == state[q - 1]
                 IN  CASE s = "data" /\ Follows(<<"<", "!", "-", "-">>, p, q) -> "escaped"
                       [] s # "data" /\ Follows(<<"-", "-", ">">>, p, q) -> "data"
                       [] s = "escaped" /\ Follows(<<"<", "script">>, p, q) -> "double"
                       [] s = "double" /\ Follows(<<"<", "/", "script">>, p, q) -> "escaped"
                       [] OTHER -> s
    IN  state[to]

EndsRaw(name, p, q) ==
    /\ AtAll(q, <<"<", "/", name>>)
    /\ name = "script" => RawState(p, q) # "double"

RawTextEndOf(name, p) ==
    Scan(p, LAMBDA q : Ended(q) \/ (name # "plaintext" /\ EndsRaw(name, p, q)))

\* The standard asks for a blank, "/" or ">" after the name, and closes an
\* escape that is "<!-->" or "<!--->"; the code does neither.
AsTheCode(name) ==
    /\ \A q \in 0..(Len(src) - 1) : At(q) = name => At(q + 1) \in WS \cup {"/", ">"}
    /\ \A q \in 0..(Len(src) - 1), close \in {<<">">>, <<"-", ">">>} :
          ~AtAll(q, <<"<", "!", "-", "-">> \o close)

\* Raw text ends at the end tag of its element, in a script at the first that
\* is not inside a nested, commented script, and otherwise at the end of the
\* source (html/lex.go:159-166, 223-301).
RawTextEnds ==
    LET name == tok.data.raw
    IN  (tok # NoToken /\ "raw" \in DOMAIN tok.data /\ AsTheCode(name) /\ ~tok.data.hasTmpl) =>
            tok.hi = RawTextEndOf(name, tok.lo)

\* An attribute whose value is quoted, or empty, or that has none.
Quoted(value) == value = <<>> \/ value[1] = value[2] \/ At(value[1]) \in Quotes

\* The raw text from lo on is searched for templates at q: not from where a comment
\* opens in a script, whether or not it is closed again, nor at characters the search
\* for an end tag may step over, "<", "/" and letters (html/lex.go:233-252).
Searched(name, lo, q) ==
    /\ At(q) \notin Letters \cup {"<", "/"}
    /\ ~(name = "script" /\ \E c \in lo..q : AtAll(c, <<"<", "!", "-", "-">>))

\* hasTmpl of an attribute and of raw text: if it is set, a template begins in the
\* token; and it is set if one begins in an attribute that is Quoted, or in raw text
\* where it is Searched and is not that of plaintext, which knows no templates
\* (html/lex.go:126-128, 290-293, 399-494).  The flag of the other tokens is not compared.
HasTemplate ==
    (tok # NoToken /\ "hasTmpl" \in DOMAIN tok.data) =>
        LET begins == {q \in tok.lo..(tok.hi - 1) : AtTemplate(q)}
        IN  /\ tok.data.hasTmpl => begins # {}
            /\ (begins # {} /\ tok.type = "Attribute" /\ Quoted(tok.data.value)) => tok.data.hasTmpl
            /\ ("raw" \in DOMAIN tok.data /\ tok.data.raw # "plaintext"
                  /\ \E q \in begins : Searched(tok.data.raw, tok.lo, q)) => tok.data.hasTmpl
================================================================================
