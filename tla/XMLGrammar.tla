------------------------------ MODULE XMLGrammar ------------------------------
(***************************************************************************)
(* The markup of XML 1.0 (productions 10, 15, 18, 23, 28, 40-44), which    *)
(* the package says to follow, as regular expressions: the reference for   *)
(* XMLLexer.  Of document types it has what lies inside the double quotes  *)
(* and one pair of brackets that the code looks at.                        *)
(***************************************************************************)
EXTENDS Railroad

Grammar ==
    LET blank == Some(Sym({" "}))
        blanks == Many(Sym({" "}))
        name == Some(Sym({"a", "b", "doctype"}))
        quotedBy(q, not) == Then(Sym({q}), Then(Many(But({q, NUL} \cup not)), Sym({q})))
        value == Alt(quotedBy("\"", {"<"}), quotedBy("'", {"<"}))
        attribute == Then(blank, Then(name, Then(Then(blanks, Then(Sym({"="}), blanks)), value)))
        attributes == Then(Many(attribute), blanks)
        internal == Many(Alt(But({"[", "]", "\"", NUL}), quotedBy("\"", {})))
        bracket == Alt(But({"]", NUL}),
                       Alt(Then(Sym({"]"}), But({"]", NUL})),
                           Then(Some(Sym({"]"})), Then(Sym({"]"}), But({"]", ">", NUL})))))
    IN  [
        Tag |-> Then(Then(Sym({"<"}), name), attributes),
        PI |-> Then(Then(Word(<<"<", "?">>), name), attributes),
        EndTag |-> Then(Then(Word(<<"<", "/">>), name), Then(blanks, Sym({">"}))),
        Comment |-> Then(Word(<<"<", "!", "-", "-">>),
                         Then(Many(Alt(But({"-", NUL}), Then(Sym({"-"}), But({"-", NUL})))),
                              Word(<<"-", "-", ">">>))),
        CDATA |-> Then(Word(<<"<", "!", "[CDATA[">>),
                       Then(Many(bracket), Then(Many(Sym({"]"})), Word(<<"]", "]", ">">>)))),
        DOCTYPE |-> Then(Then(Word(<<"<", "!", "doctype">>), Some(Alt(blank, name))),
                         Then(Many(Alt(But({">", "[", "]", "\"", NUL}), quotedBy("\"", {}))),
                              Then(Opt(Then(Sym({"["}), Then(internal, Sym({"]"})))),
                                   Then(blanks, Sym({">"})))))]

\* The first end of the grammar's construct from p, -1 if there is none.
EndOf(d, p) == LET ends == Ends(d, {p}) IN IF ends = {} THEN -1 ELSE Min(ends)

\* The three ways to close a tag.
Closed(p) ==
    CASE EndOf(Then(Grammar.Tag, Sym({">"})), p) >= 0 ->
            <<"StartTagClose", EndOf(Then(Grammar.Tag, Sym({">"})), p)>>
      [] EndOf(Then(Grammar.Tag, Word(<<"/", ">">>)), p) >= 0 ->
            <<"StartTagCloseVoid", EndOf(Then(Grammar.Tag, Word(<<"/", ">">>)), p)>>
      [] EndOf(Then(Grammar.PI, Word(<<"?", ">">>)), p) >= 0 ->
            <<"StartTagClosePI", EndOf(Then(Grammar.PI, Word(<<"?", ">">>)), p)>>
      [] OTHER -> <<>>

\* What is well-formed where a token begins ends where the grammar ends it,
\* whatever its strings, comments and sections hold: a start tag or XML
\* declaration with its attributes, and every other kind of markup; opened is
\* the token of the last start tag and inside says that it is not closed
\* (xml/lex.go:99-329).
WellFormedEnds(opened, inside) ==
    /\ (tok # NoToken /\ tok.type \in DOMAIN Grammar) =>
          EndOf(Grammar[tok.type], tok.lo) \in {-1, tok.hi}
    /\ LET close == IF opened = NoToken THEN <<>> ELSE Closed(opened.lo)
       IN  close # <<>> =>
              /\ tok.type \in {"StartTagClose", "StartTagCloseVoid", "StartTagClosePI"} =>
                    close = <<tok.type, tok.hi>>
              /\ ~(inside /\ ended)
              /\ tok.type = "Attribute" => tok.hi < close[2]
================================================================================
