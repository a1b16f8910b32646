------------------------------ MODULE JSGrammar ------------------------------
(***************************************************************************)
(* The lexical grammar of ECMAScript, which js/lex.go:230 says to follow,  *)
(* as regular expressions: the reference for JSLexer.                      *)
(***************************************************************************)
EXTENDS Railroad

lineEnds == {"nl", "ls"}
blockComment(not) ==
    LET stars == Many(Sym({"*"}))
    IN  Then(Word(<<"/", "*">>),
             Then(Many(Alt(But({"*"} \cup not),
                           Then(stars, Then(Sym({"*"}), But({"*", "/"} \cup not))))),
                  Then(stars, Word(<<"*", "/">>))))

Lexical ==
    LET single(symbols) == {<<s>> : s \in symbols}
        words(set) == FoldSet(LAMBDA w, d : Alt(Word(w), d), Word(<<"none">>), set)
        decimals == {"0", "1", "8"}
        hex == {"a", "b", "e"} \cup decimals
        start == {"a", "b", "e", "n", "o", "u", "x", "$", "_"}
        part == start \cup decimals
        operators == {"=", "!", "<", ">", "+", "-", "*", "/", "%", "&", "|", "^", "~", "?"}
        digits(class) == Then(Sym(class), Many(Then(Opt(Sym({"_"})), Sym(class))))
        integer == Alt(Sym({"0"}),
                       Then(Sym(decimals \ {"0"}), Many(Then(Opt(Sym({"_"})), Sym(decimals)))))
        exponent == Then(Sym({"e"}), Then(Opt(Sym({"+", "-"})), digits(decimals)))
        fraction == Then(Sym({"."}), digits(decimals))
        radix(letter, class) == Then(Word(<<"0", letter>>), Then(digits(class), Opt(Sym({"n"}))))
        unicode == Then(Word(<<"\\", "u">>),
                        Alt(Then(Sym({"{"}), Then(Some(Sym(hex)), Sym({"}"}))),
                            Then(Sym(hex), Then(Sym(hex), Then(Sym(hex), Sym(hex))))))
        identifier == Then(Alt(Sym(start), unicode), Many(Alt(Sym(part), unicode)))
        line == Many(But(lineEnds))
        quoted(q) == Then(Sym({q}),
                          Then(Many(Alt(But({q, "\\", "nl"}), Then(Sym({"\\"}), But({})))), Sym({q})))
        template(begin) ==
            Then(Sym({begin}),
                 Then(Many(Alt(But({"tick", "$", "\\"}),
                               Alt(Then(Sym({"$"}), NotBefore({"{"})), Then(Sym({"\\"}), But({}))))),
                      Alt(Sym({"tick"}), Word(<<"$", "{">>))))
        regexpChar(not) == Alt(But({"\\"} \cup not \cup lineEnds), Then(Sym({"\\"}), But(lineEnds)))
        assigned == {<<c, "=">> : c \in operators \ {"~", "?"}}
        doubled == {<<c, c>> : c \in {"+", "-", "*", "&", "|", "?", "<", ">"}}
        longer == {<<c, c, "=">> : c \in {"*", "&", "|", "?", "<", ">", "="}}
                  \cup {<<"!", "=", "=">>, <<"=", ">">>, <<">", ">", ">">>, <<">", ">", ">", "=">>}
    IN  [
        Whitespace |-> Some(Sym({" "})),
        LineTerminator |-> Some(Sym(lineEnds)),
        Punctuator |-> words(single({",", ";", ":", "[", "]", "(", ")", "{", "}", "."})
                             \cup {<<".", ".", ".">>}),
        Operator |-> Alt(words(single(operators) \cup assigned \cup doubled \cup longer),
                         Then(Word(<<"?", ".">>), NotBefore(decimals))),
        Number |-> Alt(Alt(radix("x", hex), Alt(radix("o", {"0", "1"}), radix("b", {"0", "1"}))),
                       Alt(Then(integer, Sym({"n"})),
                           Then(Alt(fraction, Then(integer, Opt(Alt(fraction, Sym({"."}))))), Opt(exponent)))),
        String |-> Alt(quoted("\""), quoted("'")),
        Comment |-> Alt(Alt(Then(Word(<<"/", "/">>), line), Then(Word(<<"<", "!", "-", "-">>), line)),
                        blockComment(lineEnds)),
        CommentLineTerminator |-> blockComment({}),
        Identifier |-> identifier,
        PrivateIdentifier |-> Then(Sym({"#"}), identifier),
        Template |-> template("tick"),
        \* Where the context asks for them.
        TemplateRest |-> template("}"),
        RegExp |-> Then(Sym({"/"}),
                        Then(Many(Alt(regexpChar({"/", "["}),
                                      Then(Sym({"["}), Then(Many(regexpChar({"]"})), Sym({"]"}))))),
                             Then(Sym({"/"}), Many(Sym(part))))),
        ClosingComment |-> Then(Word(<<"-", "-", ">">>), line)]

InContext == {"TemplateRest", "RegExp", "ClosingComment"}

\* Where lines begin, and where comments end that go over a line terminator.
Lines == {0} \cup {q \in 1..Len(src) : At(q - 1) \in lineEnds}
CommentLines ==
    UNION {{hi \in Ends(blockComment({}), {lo}) : \E q \in lo..(hi - 1) : At(q) \in lineEnds} :
              lo \in 0..Len(src)}

\* Nothing but blanks and comments between the beginning of the line and p.
\* The code forgets where the line began at a comment within it.
BeginsLine(p) == p \in Ends(Many(Alt(Sym({" "}), blockComment({}))), Lines \cup CommentLines)
BeginsLineForCode(p) == p \in Ends(Many(Sym({" "})), Lines)

\* Every token is the longest match of the grammar from where it begins, and
\* of a type that matches that far; RegExp answers an expression, a closing
\* HTML-like comment begins a line, and an unterminated string or template has
\* no match.  Tokens that take in what an error has left are not looked at
\* (js/lex.go:82-226).
LongestMatch ==
    (tok # NoToken /\ tok.data.whole) =>
        LET longest == Max({Reach(Lexical[type], tok.lo) : type \in DOMAIN Lexical \ InContext})
            isClosing == AtAll(tok.lo, <<"-", "-", ">">>)
        IN  CASE tok.type = "RegExp" -> tok.hi = Reach(Lexical.RegExp, tok.lo)
              [] tok.type = "TemplateRest" -> tok.hi \in Ends(Lexical.TemplateRest, {tok.lo})
              [] tok.type = "Comment" /\ isClosing ->
                    tok.hi = Reach(Lexical.ClosingComment, tok.lo) /\ BeginsLine(tok.lo)
              [] tok.type = "Error" ->
                    /\ At(tok.lo) \in {"\"", "'"} => Ends(Lexical.String, {tok.lo}) = {}
                    /\ At(tok.lo) = "tick" => Ends(Lexical.Template, {tok.lo}) = {}
              [] OTHER -> /\ tok.hi = longest
                          /\ tok.hi = Reach(Lexical[tok.type], tok.lo)
                          /\ isClosing => ~BeginsLineForCode(tok.lo)
================================================================================
