------------------------------- MODULE CSSLexer -------------------------------
(***************************************************************************)
(* css/lex.go.  A consumeX function is an operator X(p) from the offset    *)
(* where it is called to the offset where it leaves the Input: p itself    *)
(* when it rewinds and answers false.  A symbol is one character, whatever *)
(* its UTF-8 length; "url" is the word, and "nl" any newline.              *)
(***************************************************************************)
EXTENDS LexerInput, SequencesExt

vars == <<src, pos, tok, ended>>

WS == {" ", "nl"}
Digits == {"1"}
Hex == {"1", "a", "e"}
NameStart == {"a", "e", "x", "u", "url"}
NameChars == NameStart \cup Digits \cup {"-"}
Brackets == {"(", ")", "[", "]", "{", "}"}
--------------------------------------------------------------------------------
\* Mutant: one hexadecimal digit less.
Bug_MaxHex == 5

\* consumeEscape: up to MaxHex hexadecimal digits and a blank, or any one
\* character but a newline.
MaxHex == 6

Escape(p) ==
    LET h == Min({Past(p + 1, Hex), p + 1 + MaxHex})
    IN  IF At(p) # "\\" \/ At(p + 1) = "nl" \/ Ended(p + 1) THEN p
        ELSE IF h > p + 1 THEN (IF At(h) \in WS THEN h + 1 ELSE h)
        ELSE p + 2

\* The loop of consumeIdentToken and consumeHashToken.
NameRest[p \in Offsets] ==
    IF At(p) \in NameChars THEN NameRest[p + 1]
    ELSE IF Escape(p) > p THEN NameRest[Escape(p)]
    ELSE p

\* One character of a class, or an escape.
OneOf(p, class) == IF At(p) \in class THEN p + 1 ELSE Escape(p)

\* The name that begins with the character [q, r), p if that is none.
NameFrom(p, q, r) == IF r > q THEN NameRest[r] ELSE p

IdentToken(p) ==
    IF AtAll(p, <<"-", "-">>) THEN NameRest[p + 2]
    ELSE LET q == IF At(p) = "-" THEN p + 1 ELSE p IN NameFrom(p, q, OneOf(q, NameStart))

CustomVariableToken(p) == IF At(p + 1) = "-" THEN IdentToken(p) ELSE p

\* A call that answers one type or nothing.
Maybe(type, p, q) == IF q > p THEN <<type, q>> ELSE <<>>

AtKeywordToken(p) == Maybe("AtKeyword", p + 1, IdentToken(p + 1))

HashToken(p) == Maybe("Hash", p, NameFrom(p, p + 1, OneOf(p + 1, NameChars)))
--------------------------------------------------------------------------------
(* Numbers *)

Sign(p) == IF At(p) \in {"+", "-"} THEN p + 1 ELSE p

\* The exponent, which needs a digit.
Exponent(p) ==
    LET q == Sign(p + 1)
    IN  IF At(p) = "e" /\ At(q) \in Digits THEN Past(q, Digits) ELSE p

\* What follows the digits [q, d) of a number that begins at p.
Fraction(p, q, d) ==
    IF At(d) = "." /\ At(d + 1) \in Digits THEN Exponent(Past(d + 1, Digits))
    ELSE IF d = q THEN p
    ELSE IF At(d) = "." THEN d
    ELSE Exponent(d)

NumberToken(p) == Fraction(p, Sign(p), Past(Sign(p), Digits))

\* What follows the digits [q, h) of a range, a hyphen and more digits or
\* question marks.
RangeEnd(p, q, h) ==
    LET lo == IF At(h) = "-" THEN h + 1 ELSE q
        hi == IF At(h) = "-" THEN Past(lo, Hex) ELSE Past(h, {"?"})
    IN  IF (At(h) = "-" => h - q \in 1..MaxHex) /\ hi - lo \in 1..MaxHex THEN hi ELSE p

UnicodeRangeToken(p) ==
    IF AtAll(p, <<"u", "+">>) THEN RangeEnd(p, p + 2, Past(p + 2, Hex)) ELSE p

\* consumeNumeric: the unit of the number [p, q), which ends at r.
Unit(p, q, r) ==
    IF q = p THEN <<>>
    ELSE IF At(q) = "%" THEN <<"Percentage", q + 1>>
    ELSE IF r > q THEN <<"Dimension", r>>
    ELSE <<"Number", q>>

NumericFrom(p, q) == Unit(p, q, IdentToken(q))
Numeric(p) == NumericFrom(p, NumberToken(p))
--------------------------------------------------------------------------------
(* Comments, strings and URLs *)

Comment(p) ==
    LET q == Scan(p + 2, LAMBDA r : Ended(r) \/ AtAll(r, <<"*", "/">>))
    IN  IF ~AtAll(p, <<"/", "*">>) THEN p ELSE IF AtAll(q, <<"*", "/">>) THEN q + 2 ELSE q

\* consumeString after the quote delim: a backslash that escapes nothing is
\* passed together with the newline it stands before.
InString(p, delim) ==
    LET end[q \in Offsets] ==
            IF Over(q) THEN <<"String", q>>
            ELSE IF At(q) = "nl" THEN <<"BadString", q + 1>>
            ELSE IF At(q) = delim THEN <<"String", q + 1>>
            ELSE IF At(q) # "\\" THEN end[q + 1]
            ELSE IF Escape(q) > q THEN end[Escape(q)]
            ELSE end[IF At(q + 1) = "nl" THEN q + 2 ELSE q + 1]
    IN  end[p]

StringToken(p) == InString(p + 1, At(p))

\* consumeUnquotedURL: where it stops, and whether it may end there.
UnquotedURL[p \in Offsets] ==
    IF Over(p) \/ At(p) = ")" THEN [end |-> p, ok |-> TRUE]
    ELSE IF At(p) \in {"\"", "'", "(", "\\", NUL} \cup WS
         THEN IF Escape(p) > p THEN UnquotedURL[Escape(p)] ELSE [end |-> p, ok |-> FALSE]
    ELSE UnquotedURL[p + 1]

\* consumeRemnantsBadURL
Remnants[p \in Offsets] ==
    IF At(p) = ")" THEN p + 1
    ELSE IF AtEOF(p) THEN p
    ELSE Remnants[IF Escape(p) > p THEN Escape(p) ELSE p + 1]

\* The end of the URL that stops at r: after the blanks up to close.
URLClose(close) ==
    IF At(close) = ")" THEN <<"URL", close + 1>>
    ELSE IF AtEOF(close) THEN <<"URL", close>>
    ELSE <<"BadURL", Remnants[close]>>

URLEnd(isBad, r) == IF isBad THEN <<"BadURL", Remnants[r]>> ELSE URLClose(Past(r, WS))

QuotedEnd(string) == URLEnd(string[1] = "BadString", string[2])
UnquotedEnd(url) == URLEnd(~url.ok /\ At(url.end) \notin WS, url.end)

\* The rest of consumeIdentlike, from the blanks after "url(" on.
URLRest(q) == IF At(q) \in {"\"", "'"} THEN QuotedEnd(StringToken(q)) ELSE UnquotedEnd(UnquotedURL[q])

\* The name without its backslashes.
IsURL(p, q) == SelectSeq(Text(p, q), LAMBDA c : c # "\\") = <<"url">>

\* What the name [p, q) is.
NameIs(p, q) ==
    IF q = p THEN <<>>
    ELSE IF At(q) # "(" THEN <<"Ident", q>>
    ELSE IF ~IsURL(p, q) THEN <<"Function", q + 1>>
    ELSE URLRest(Past(q + 1, WS))

Identlike(p) == NameIs(p, IdentToken(p))
--------------------------------------------------------------------------------
(* Next *)

\* consumeMatch and consumeColumnToken
Match(p) ==
    IF At(p) \in {"$", "*", "^", "~", "|"} /\ At(p + 1) = "=" THEN <<"Match", p + 2>>
    ELSE IF AtAll(p, <<"|", "|">>) THEN <<"Column", p + 2>>
    ELSE <<>>

\* The calls Next makes for the character at p, in order.
Calls(p) ==
    LET c == At(p)
    IN  CASE c \in WS -> << <<"Whitespace", Past(p, WS)>> >>
          [] c \in {":", ";", ","} -> << <<"Punctuation", p + 1>> >>
          [] c \in Brackets -> << <<"Bracket", p + 1>> >>
          [] c = "#" -> <<HashToken(p)>>
          [] c \in {"\"", "'"} -> <<StringToken(p)>>
          [] c \in {".", "+"} -> <<Numeric(p)>>
          [] c = "-" -> <<Maybe("CDC", p, IF AtAll(p, <<"-", "-", ">">>) THEN p + 3 ELSE p),
                          Maybe("CustomPropertyName", p, CustomVariableToken(p)),
                          Identlike(p), Numeric(p)>>
          [] c = "@" -> <<AtKeywordToken(p)>>
          [] c \in {"$", "*", "^", "~", "|"} -> <<Match(p)>>
          [] c = "/" -> <<Maybe("Comment", p, Comment(p))>>
          [] c = "<" -> <<Maybe("CDO", p, IF AtAll(p, <<"<", "!", "-", "-">>) THEN p + 4 ELSE p)>>
          [] c = "\\" -> <<Identlike(p)>>
          [] c = "u" -> <<Maybe("UnicodeRange", p, UnicodeRangeToken(p)), Identlike(p)>>
          [] c = NUL -> <<>>
          [] OTHER -> <<Numeric(p), Identlike(p)>>

\* The calls that consume something.
Consuming(p) == {i \in DOMAIN Calls(p) : Calls(p)[i] # <<>>}

EndOfFile ==
    /\ ~ended /\ Ended(pos)
    /\ Fails(pos)

\* The first of them answers the token.
Token ==
    /\ ~ended /\ Consuming(pos) # {}
    /\ LET answer == Calls(pos)[Min(Consuming(pos))]
       IN  Answers(answer[1], pos, answer[2], <<>>)

Delim ==
    /\ ~ended /\ ~Ended(pos) /\ Consuming(pos) = {}
    /\ Answers("Delim", pos, pos + 1, <<>>)

Init(source) == StartsAt(source)

Next == EndOfFile \/ Token \/ Delim
================================================================================
