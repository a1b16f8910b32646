-------------------------------- MODULE Lexers --------------------------------
(***************************************************************************)
(* The client of the lexers of html, xml, css and js, which calls one of   *)
(* them on a source until it answers ErrorToken, and what all of them      *)
(* promise it.                                                             *)
(***************************************************************************)
EXTENDS HTMLReference, JSBrackets

VARIABLES lang, ahead, prevLine, prevNumber

markup == <<inTag, rawTag, tmpl, tagStart>>
script == <<ahead, prevLine, prevNumber, level, templateLevels, open, balanced>>

X == INSTANCE XMLLexer
C == INSTANCE CSSLexer
J == INSTANCE JSLexer

lexersVars == <<lang, src, pos, tok, ended, markup, script>>

Languages == {"html", "xml", "css", "js"}

\* A lexer of a language, on a source and with templates.
StartsLexer(l, source, templates) ==
    /\ lang = l
    /\ InitLexer(source, templates)
    /\ J!InitLexer(source)

\* What the lexer of js takes one symbol more with than there is, at the end of
\* a source (CanContinue).
Unfinished == {<<"#">>, <<"~", "=">>, <<"?", "=">>}

EndsIn(source, word) ==
    /\ Len(word) <= Len(source)
    /\ \A i \in 1..Len(word) : source[Len(source) - Len(word) + i] = word[i]

Complete(source) == \A word \in Unfinished : ~EndsIn(source, word)

\* Any source and any templates, of some symbols; no template has a NUL.
Starts(symbols) ==
    \E l \in Languages, source \in Seq(symbols), begin, end \in Seq(symbols \ {NUL}) :
        /\ l = "js" => Complete(source)
        /\ StartsLexer(l, source, [open |-> begin, close |-> end])

Only(l) == lang = l /\ UNCHANGED lang
HTML == Only("html") /\ NextToken /\ UNCHANGED script
XML == Only("xml") /\ X!Next /\ UNCHANGED <<rawTag, tmpl, script>>
CSS == Only("css") /\ C!Next /\ UNCHANGED <<markup, script>>
JS == Only("js") /\ J!Calls /\ UNCHANGED markup

\* The client's loop calls Next as long as it is not told to stop.
Calls == HTML \/ XML \/ CSS \/ JS

Done == ended /\ UNCHANGED lexersVars

LexersNext == Calls \/ Done
--------------------------------------------------------------------------------
(* Properties *)

Promise == INSTANCE Tokenizer
    WITH Blanks <- {" "}, relexes <- lang = "js", failed <- ahead > 0,
         piece <- IF tok = NoToken THEN <<>> ELSE <<tok.lo, tok.hi>>

\* Every lexer implements Tokenizer: whatever the source, its tokens are
\* consecutive and not empty, lose nothing but the blanks in a tag, and no call
\* reads past the source (html/lex.go:131, xml/lex.go:99, css/lex.go:156).
Tokenizes == Promise!Spec

\* Every lexer comes to the end of its source, whatever it is, if the client goes
\* on (html/lex.go:208, xml/lex.go:166, css/lex.go:231, js/lex.go:217).
Finishes == Promise!Finishes

\* No call leaves the Input past the terminator, where the next would read: the
\* comment of js/lex.go:224 says that the client may go on after an error.
CanContinue == pos + ahead <= Len(src)

\* As HTMLReference has them.
HTMLTagEnds == lang = "html" => TagEnds
HTMLRawTextEnds == lang = "html" => RawTextEnds
HTMLHasTemplate == lang = "html" => HasTemplate
================================================================================
