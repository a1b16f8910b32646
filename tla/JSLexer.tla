-------------------------------- MODULE JSLexer --------------------------------
(***************************************************************************)
(* js/lex.go: one action per kind of answer of Lexer.Next, and RegExp.  A  *)
(* consumeX function is an operator X(p) from the offset where it is       *)
(* called to the offset where it leaves the Input: p itself when it        *)
(* answers false.  A symbol is one character: "nl" a newline, "ls" the     *)
(* line separator of Unicode, "tick" a backtick.                           *)
(***************************************************************************)
EXTENDS LexerInput, SequencesExt, JSBrackets

VARIABLES
    ahead,          \* Input.pos - Input.start, that an error without a token leaves
    prevLine,       \* Lexer.prevLineTerminator
    prevNumber      \* Lexer.prevNumericLiteral

lexer == <<ahead, prevLine, prevNumber, brackets>>

Blanks == {" "}
LineTerminators == {"nl", "ls"}
Quotes == {"\"", "'"}
Letters == {"a", "b", "e", "n", "o", "u", "x"}
IdentStart == Letters \cup {"$", "_"}
Decimals == {"0", "1", "8"}
IdentPart == IdentStart \cup Decimals
Hex == {"a", "b", "e"} \cup Decimals
Octals == {"0", "1"}
Binaries == {"0", "1"}

\* Where the next call of Next begins to look.
Here == pos + ahead
--------------------------------------------------------------------------------
(* Names and numbers *)

\* consumeUnicodeEscape
UnicodeEscape(p) ==
    LET h == Past(p + 3, Hex)
    IN  IF ~AtAll(p, <<"\\", "u">>) THEN p
        ELSE IF At(p + 2) = "{" THEN (IF h > p + 3 /\ At(h) = "}" THEN h + 1 ELSE p)
        ELSE IF Past(p + 2, Hex) >= p + 6 THEN p + 6
        ELSE p

IdentRest[p \in Offsets] ==
    IF At(p) \in IdentPart THEN IdentRest[p + 1]
    ELSE IF UnicodeEscape(p) > p THEN IdentRest[UnicodeEscape(p)]
    ELSE p

Identifier(p) ==
    IF At(p) \in IdentStart THEN IdentRest[p + 1]
    ELSE IF UnicodeEscape(p) > p THEN IdentRest[UnicodeEscape(p)]
    ELSE p

\* Digits of a class, with single separators between them.
DigitsEnd(p, class) ==
    LET end[q \in Offsets] ==
            IF At(q) \in class THEN end[q + 1]
            ELSE IF At(q) = "_" /\ At(q + 1) \in class THEN end[q + 2]
            ELSE q
    IN  end[p]

Exponent(p) ==
    LET q == IF At(p + 1) \in {"+", "-"} THEN p + 2 ELSE p + 1
    IN  IF At(p) # "e" THEN <<"Number", p>>
        ELSE IF At(q) \in Decimals THEN <<"Number", DigitsEnd(q, Decimals)>>
        ELSE <<"Error", q>>

BigInt(p) == <<"Number", IF At(p) = "n" THEN p + 1 ELSE p>>

\* 0x, 0o and 0b; a 0 alone when no digit follows.
Radix(p, class) == IF At(p + 2) \in class THEN BigInt(DigitsEnd(p + 2, class)) ELSE <<"Number", p + 1>>

\* The rest of a decimal number, after its integer digits.
Fraction(p, needsDigits) ==
    IF At(p) # "." THEN (IF At(p) = "e" THEN Exponent(p) ELSE BigInt(p))
    ELSE IF At(p + 1) \in Decimals THEN Exponent(DigitsEnd(p + 1, Decimals))
    ELSE IF needsDigits THEN <<"none", p>>
    ELSE Exponent(p + 1)

NumericToken(p) ==
    CASE At(p) = "." -> Fraction(p, TRUE)
      [] At(p) = "0" /\ At(p + 1) = "x" -> Radix(p, Hex)
      [] At(p) = "0" /\ At(p + 1) = "o" -> Radix(p, Octals)
      [] At(p) = "0" /\ At(p + 1) = "b" -> Radix(p, Binaries)
      [] At(p) = "0" /\ At(p + 1) \in Decimals -> <<"Error", p + 1>>
      [] At(p) = "0" /\ At(p + 1) \notin {"x", "o", "b"} \cup Decimals -> Fraction(p + 1, FALSE)
      [] OTHER -> Fraction(DigitsEnd(p, Decimals), FALSE)
--------------------------------------------------------------------------------
(* Comments, strings, regular expressions and templates *)

LineEnd(p) == Scan(p, LAMBDA q : At(q) \in LineTerminators \/ Ended(q))

\* Mutant: a closing HTML-like comment anywhere in a line.
Bug_HTMLLikeComment(p) ==
    IF AtAll(p, <<"<", "!", "-", "-">>) THEN LineEnd(p + 4)
    ELSE IF AtAll(p, <<"-", "-", ">">>) THEN LineEnd(p + 3)
    ELSE p

\* consumeHTMLLikeCommentToken
HTMLLikeComment(p) ==
    IF AtAll(p, <<"<", "!", "-", "-">>) THEN LineEnd(p + 4)
    ELSE IF prevLine /\ AtAll(p, <<"-", "-", ">">>) THEN LineEnd(p + 3)
    ELSE p

CommentEnd(p) == Scan(p + 2, LAMBDA q : Ended(q) \/ AtAll(q, <<"*", "/">>))

HasLine(lo, hi) == \E q \in lo..(hi - 1) : At(q) \in LineTerminators

\* consumeStringToken, after the quote: a backslash takes a line terminator, a
\* backslash or the quote with it.
InString(p, delim) ==
    LET end[q \in Offsets] ==
            IF At(q) = delim THEN <<"String", q + 1>>
            ELSE IF At(q) = "\\"
                 THEN end[IF At(q + 1) \in LineTerminators \cup {delim, "\\"} THEN q + 2 ELSE q + 1]
            ELSE IF At(q) = "nl" \/ Over(q) THEN <<"Error", q>>
            ELSE end[q + 1]
    IN  end[p]

\* consumeRegExpToken, after the slash.
InRegExp[at \in Offsets \X BOOLEAN] ==
    LET p == at[1]
        inClass == at[2]
        escaped == At(p) = "\\"
        c == IF escaped THEN p + 1 ELSE p
    IN  IF At(p) = "/" /\ ~inClass THEN <<"RegExp", Past(p + 1, IdentPart)>>
        ELSE IF At(c) \in LineTerminators \/ Over(c) THEN <<"Error", c>>
        ELSE InRegExp[<<c + 1, IF At(p) = "[" THEN TRUE ELSE IF At(p) = "]" THEN FALSE ELSE inClass>>]

\* consumeTemplateToken, after the backtick or brace: up to the next
\* substitution, or to the end.
InTemplateText[p \in Offsets] ==
    IF At(p) = "tick" THEN <<"end", p + 1>>
    ELSE IF AtAll(p, <<"$", "{">>) THEN <<"substitution", p + 2>>
    ELSE IF At(p) = "\\" THEN InTemplateText[IF At(p + 1) = NUL THEN p + 1 ELSE p + 2]
    ELSE IF Over(p) THEN <<"Error", p>>
    ELSE InTemplateText[p + 1]
--------------------------------------------------------------------------------
(* Operators *)

Operators == {"=", "!", "<", ">", "+", "-", "*", "/", "%", "&", "|", "^", "~", "?"}

\* opEqTokens has neither ~= nor ?=.
EqOperators == Operators \ {"~", "?"}
Doubled == {"+", "-", "*", "&", "|", "?", "<"}

\* consumeOperatorToken
OperatorToken(p) ==
    LET c == At(p)
        d == At(p + 1)
        e == At(p + 2)
    IN  CASE d = "=" /\ e = "=" /\ c \in {"!", "="} -> <<"Operator", p + 3>>
          [] d = "=" /\ ~(e = "=" /\ c \in {"!", "="}) ->
                <<IF c \in EqOperators THEN "Operator" ELSE "none", p + 2>>
          [] d = c /\ c \in Doubled ->
                <<"Operator", IF e = "=" /\ c \notin {"+", "-"} THEN p + 3 ELSE p + 2>>
          [] c = "?" /\ d = "." /\ e \notin Decimals -> <<"Operator", p + 2>>
          [] c = "=" /\ d = ">" -> <<"Operator", p + 2>>
          [] c = ">" /\ d = ">" /\ e = ">" -> <<"Operator", IF At(p + 3) = "=" THEN p + 4 ELSE p + 3>>
          [] c = ">" /\ d = ">" /\ e # ">" -> <<"Operator", IF e = "=" THEN p + 3 ELSE p + 2>>
          [] OTHER -> <<"Operator", p + 1>>
--------------------------------------------------------------------------------
(* Next *)

\* Next answers a token from where the last one ended; whole when nothing has
\* been left over there.
Gives(type, hi) ==
    /\ ~ended
    /\ Answers(type, pos, hi, [whole |-> ahead = 0])
    /\ ahead' = 0

\* Next answers ErrorToken without a token.
Reports(hi) ==
    /\ ~ended
    /\ ahead' = hi - pos
    /\ UNCHANGED <<src, pos, tok, ended>>

AfterToken(line, number) == prevLine' = line /\ prevNumber' = number

Plain == AfterToken(FALSE, FALSE) /\ UNCHANGED brackets

EndOfFile ==
    /\ ~ended /\ Ended(Here)
    /\ Fails(pos)
    /\ UNCHANGED ahead /\ Plain

Whitespace ==
    /\ At(Here) \in Blanks
    /\ Gives("Whitespace", Past(Here, Blanks))
    /\ AfterToken(prevLine, FALSE) /\ UNCHANGED brackets

LineTerminator ==
    /\ At(Here) \in LineTerminators
    /\ Gives("LineTerminator", Past(Here, LineTerminators))
    /\ AfterToken(TRUE, FALSE) /\ UNCHANGED brackets

Punctuators == {",", ";", ":", "[", "]"}

Punctuator ==
    /\ At(Here) \in Punctuators
    /\ Gives("Punctuator", Here + 1)
    /\ Plain

OpenParenOrBrace ==
    /\ \/ At(Here) = "(" /\ OpenBracket(Paren)
       \/ At(Here) = "{" /\ OpenBracket(Brace)
    /\ Gives("Punctuator", Here + 1)
    /\ AfterToken(FALSE, FALSE)

CloseParenOrBrace ==
    /\ \/ At(Here) = ")" /\ CloseParen
       \/ At(Here) = "}" /\ CloseBrace
    /\ Gives("Punctuator", Here + 1)
    /\ AfterToken(FALSE, FALSE)

TemplateToken ==
    /\ At(Here) \in {"tick", "}"}
    /\ At(Here) = "}" => InTemplate
    /\ LET text == InTemplateText[Here + 1]
           continuation == At(Here) = "}"
       IN  /\ \/ text[1] = "end" /\ IF continuation THEN EndTemplate ELSE WholeTemplate
              \/ text[1] = "substitution" /\ IF continuation THEN MiddleOfTemplate ELSE StartTemplate
              \/ /\ text[1] = "Error" /\ BrokenTemplate
                 /\ continuation <=> templateLevels' = templateLevels
           /\ Gives(IF text[1] = "Error" THEN "Error"
                    ELSE IF continuation THEN "TemplateRest" ELSE "Template", text[2])
    /\ AfterToken(FALSE, FALSE)

\* A dot may also be one token, or three.
Number ==
    /\ At(Here) \in Decimals \cup {"."}
    /\ LET number == NumericToken(Here)
       IN  IF number[1] # "none" \/ ahead > 0
           THEN /\ Gives(IF number[1] = "none" THEN "Error" ELSE number[1], number[2])
                /\ AfterToken(FALSE, TRUE)
           ELSE /\ Gives("Punctuator", IF AtAll(Here, <<".", ".", ".">>) THEN Here + 3 ELSE Here + 1)
                /\ AfterToken(FALSE, FALSE)
    /\ UNCHANGED brackets

String ==
    /\ At(Here) \in Quotes
    /\ LET string == InString(Here + 1, At(Here)) IN Gives(string[1], string[2])
    /\ Plain

BlockComment ==
    /\ AtAll(Here, <<"/", "*">>)
    /\ LET q == CommentEnd(Here)
       IN  /\ IF Ended(q) THEN Reports(q)
              ELSE Gives(IF HasLine(Here, q) THEN "CommentLineTerminator" ELSE "Comment", q + 2)
           /\ AfterToken(HasLine(Here, q), FALSE)
    /\ UNCHANGED brackets

LineComment ==
    /\ \/ AtAll(Here, <<"/", "/">>) /\ Gives("Comment", LineEnd(Here + 2))
       \/ HTMLLikeComment(Here) > Here /\ Gives("Comment", HTMLLikeComment(Here))
    /\ Plain

IsOperator(p) ==
    At(p) \in Operators /\ HTMLLikeComment(p) = p /\ ~AtAll(p, <<"/", "/">>) /\ ~AtAll(p, <<"/", "*">>)

Operator ==
    /\ IsOperator(Here) /\ OperatorToken(Here)[1] = "Operator"
    /\ Gives("Operator", OperatorToken(Here)[2])
    /\ Plain

PrivateIdentifier ==
    /\ At(Here) = "#" /\ Identifier(Here + 1) > Here + 1
    /\ Gives("PrivateIdentifier", Identifier(Here + 1))
    /\ Plain

Ident ==
    /\ Identifier(Here) > Here
    /\ IF prevNumber THEN Reports(Identifier(Here)) ELSE Gives("Identifier", Identifier(Here))
    /\ Plain

\* Mutant: the character that is not expected is not moved over.
Bug_Unexpected ==
    /\ ~ended
    /\ \/ At(Here) = "#" /\ Identifier(Here + 1) = Here + 1
       \/ IsOperator(Here) /\ OperatorToken(Here)[1] = "none"
       \/ IF At(Here) = NUL THEN ~Ended(Here) ELSE At(Here) = "\\" /\ UnicodeEscape(Here) = Here
    /\ UNCHANGED <<src, pos, tok, ended, ahead>>
    /\ Plain

\* What no other token begins with: the error takes one character more than
\* has been looked at.
Unexpected ==
    /\ \/ At(Here) = "#" /\ Identifier(Here + 1) = Here + 1 /\ Gives("Error", Here + 2)
       \/ IsOperator(Here) /\ OperatorToken(Here)[1] = "none" /\ Gives("Error", OperatorToken(Here)[2] + 1)
       \/ /\ IF At(Here) = NUL THEN ~Ended(Here) ELSE At(Here) = "\\" /\ UnicodeEscape(Here) = Here
          /\ Gives("Error", Here + 1)
    /\ Plain

\* RegExp: the client has been given / or /= and finds that an expression
\* begins there.
IsDivision == tok # NoToken /\ tok.type = "Operator" /\ pos - tok.lo \in {1, 2} /\ At(tok.lo) = "/"

RegExp ==
    /\ ~ended /\ ahead = 0 /\ IsDivision /\ tok.data.whole
    /\ LET regexp == InRegExp[<<tok.lo + 1, FALSE>>]
       IN  IF regexp[1] = "RegExp"
           THEN Answers("RegExp", tok.lo, regexp[2], [whole |-> TRUE]) /\ UNCHANGED ahead
           ELSE /\ tok' = NoToken /\ pos' = tok.lo /\ ahead' = regexp[2] - tok.lo
                /\ UNCHANGED <<src, ended>>
    /\ UNCHANGED <<prevLine, prevNumber, brackets>>

InitLexer(source) ==
    /\ StartsAt(source)
    /\ ahead = 0 /\ prevLine = TRUE /\ prevNumber = FALSE
    /\ Init

NextToken ==
    \/ EndOfFile \/ Whitespace \/ LineTerminator
    \/ Punctuator \/ OpenParenOrBrace \/ CloseParenOrBrace \/ TemplateToken
    \/ Number \/ String \/ BlockComment \/ LineComment \/ Operator
    \/ PrivateIdentifier \/ Ident \/ Unexpected

Calls == NextToken \/ RegExp
================================================================================
