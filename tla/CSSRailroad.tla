------------------------------ MODULE CSSRailroad ------------------------------
(***************************************************************************)
(* The tokens of CSS as the railroad diagrams of the CSS Syntax Module     *)
(* draw them, which css/lex.go:249 says to follow: the reference for       *)
(* CSSLexer.                                                               *)
(***************************************************************************)
EXTENDS Railroad

Diagrams ==
    LET space == {" ", "nl"}
        hex == {"1", "a", "e"}
        start == {"a", "e", "x", "u", "url"}
        part == start \cup {"1", "-"}
        escape == Then(Sym({"\\"}), Alt(But(hex \cup {"nl"}),
                                        Then(Then(Sym(hex), UpTo(5, Sym(hex))), Opt(Sym(space)))))
        name == Many(Alt(Sym(part), escape))
        ident == Then(Alt(Word(<<"-", "-">>),
                          Then(Opt(Sym({"-"})), Alt(Sym(start), escape))), name)
        digits == Some(Sym({"1"}))
        number == Then(Then(Opt(Sym({"+", "-"})),
                            Alt(digits, Then(Many(Sym({"1"})), Then(Sym({"."}), digits)))),
                       Opt(Then(Sym({"e"}), Then(Opt(Sym({"+", "-"})), digits))))
        quoted(q) == Then(Sym({q}),
                          Then(Many(Alt(But({q, "\\", "nl"}), Alt(escape, Word(<<"\\", "nl">>)))),
                               Alt(Sym({q}), Then(Opt(Sym({"\\"})), Eof))))
        string == Alt(quoted("\""), quoted("'"))
        blanks == Many(Sym(space))
        unquoted == Many(Alt(But({"\"", "'", "(", ")", "\\", NUL} \cup space), escape))
        stars == Many(Sym({"*"}))
    IN  [
        Whitespace |-> Some(Sym(space)),
        Punctuation |-> Sym({":", ";", ","}),
        Bracket |-> Sym({"(", ")", "[", "]", "{", "}"}),
        Hash |-> Then(Sym({"#"}), Then(Alt(Sym(part), escape), name)),
        String |-> string,
        Ident |-> ident,
        CustomPropertyName |-> Then(Word(<<"-", "-">>), name),
        AtKeyword |-> Then(Sym({"@"}), ident),
        Function |-> Then(ident, Sym({"("})),
        Number |-> number,
        Percentage |-> Then(number, Sym({"%"})),
        Dimension |-> Then(number, ident),
        CDO |-> Word(<<"<", "!", "-", "-">>),
        CDC |-> Word(<<"-", "-", ">">>),
        Match |-> Then(Sym({"$", "*", "^", "~", "|"}), Sym({"="})),
        Column |-> Word(<<"|", "|">>),
        Comment |-> Then(Word(<<"/", "*">>),
                         Then(Many(Alt(But({"*"}), Then(stars, Then(Sym({"*"}), But({"*", "/"}))))),
                              Alt(Then(stars, Word(<<"*", "/">>)), Then(stars, Eof)))),
        \* The code takes an escaped backslash before "url" for an escaped "url".
        URL |-> Then(Then(Many(Sym({"\\"})), Word(<<"url", "(">>)),
                     Then(Then(blanks, Alt(string, unquoted)),
                          Then(blanks, Alt(Sym({")"}), Eof))))]

\* Every token is the longest match of the diagrams, and is of a type whose
\* diagram matches that far; a Delim is a character where none matches; a bad
\* string or URL is where its diagram does not match.  The code has no function
\* whose name begins with two hyphens, and does not take the longest match of
\* unicode ranges, which are left out (css/lex.go:156-244).
MaximalMunch ==
    tok # NoToken =>
        LET longest == Max({Reach(Diagrams[type], tok.lo) : type \in DOMAIN Diagrams})
        IN  CASE tok.type = "BadString" -> Ends(Diagrams.String, {tok.lo}) = {}
              [] tok.type = "BadURL" -> Ends(Diagrams.URL, {tok.lo}) = {}
              [] tok.type = "UnicodeRange" -> TRUE
              [] tok.type = "Delim" -> longest = tok.lo
              [] tok.type = "CustomPropertyName" -> tok.hi = Reach(Diagrams[tok.type], tok.lo)
              [] OTHER -> tok.hi = longest /\ Reach(Diagrams[tok.type], tok.lo) = longest
================================================================================
