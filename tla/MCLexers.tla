------------------------------- MODULE MCLexers -------------------------------
(***************************************************************************)
(* The lexers, over every source that a sequence of a few words makes, and *)
(* the grammars that their tokens are compared with.                       *)
(***************************************************************************)
EXTENDS Lexers, XMLGrammar, CSSRailroad, JSGrammar

CONSTANTS Longer     \* how many words a source has more than the shortest runs

Single(symbols) == {<<s>> : s \in symbols}

NoTemplates == [open |-> <<>>, close |-> <<>>]
GoTemplates == [open |-> <<"{{">>, close |-> <<"}}">>]
EJSTemplates == [open |-> <<"<", "%">>, close |-> <<"%", ">">>]

\* The sources: a beginning, and up to max words of a vocabulary.
Scenario(l, templates, begin, words, max) ==
    [lang |-> l, tmpl |-> templates, begin |-> begin, words |-> words, max |-> max + Longer]

Scenarios == <<
    \* every kind of markup
    Scenario("html", NoTemplates, <<>>,
             Single({"<", "a", "/", ">", " ", "!", "?", "-", "doctype", "[CDATA[", "]", NUL}), 3),
    Scenario("html", NoTemplates, <<"<", "!", "-", "-">>, Single({"-", ">", "!", "a", NUL}), 4),
    Scenario("html", NoTemplates, <<"<", "!", "[CDATA[">>, Single({"]", ">", "a"}), 4),
    \* the attributes of a tag
    Scenario("html", NoTemplates, <<"<", "a", " ">>,
             Single({"a", "/", ">", " ", "=", "\"", "'"}), 3),
    Scenario("html", NoTemplates, <<"<", "a", " ", "a", "=">>, Single({"/", ">", " ", "\"", "'"}), 4),
    \* raw text
    Scenario("html", NoTemplates, <<"<", "script", ">">>,
             {<<"<", "!", "-", "-">>, <<"-", "-", ">">>, <<"<", "script", ">">>,
              <<"<", "/", "script", " ">>, <<"<">>, <<"/">>, <<"-">>, <<"script">>, <<">">>}, 3),
    Scenario("html", NoTemplates, <<"<", "title", ">">>,
             {<<"<", "!", "-", "-">>, <<"<", "/", "title", ">">>, <<"<", "/">>, <<"a">>, <<"title">>},
             3),
    Scenario("html", NoTemplates, <<"<", "plaintext", ">">>,
             {<<"<", "/", "plaintext">>, <<"<">>, <<"a">>, <<">">>}, 3),
    \* foreign content
    Scenario("html", NoTemplates, <<"<", "svg">>,
             {<<"<", "/", "svg">>, <<"<", "/", "a">>, <<"\"">>, <<">">>, <<NUL>>, <<" ">>}, 3),
    Scenario("html", NoTemplates, <<"<", "a", ">">>,
             {<<"<", "svg">>, <<"<", "b">>, <<NUL>>, <<">">>}, 3),
    \* templates
    Scenario("html", GoTemplates, <<"<", "a", " ">>,
             Single({"a", ">", " ", "=", "\"", "'", "{{", "}}", "\\"}), 3),
    Scenario("html", GoTemplates, <<"<", "a", " ", "a", "=", "\"", "{{">>,
             Single({">", "\"", "'", "{{", "}}", "\\"}), 3),
    Scenario("html", GoTemplates, <<"<", "title", ">">>,
             {<<"<", "/", "title", ">">>, <<"{{">>, <<"}}">>, <<"\"">>, <<"a">>}, 3),
    Scenario("html", GoTemplates, <<"<", "script", ">">>,
             {<<"<", "!", "-", "-">>, <<"-", "-", ">">>, <<"{{">>, <<"}}">>, <<"<", "/">>, <<"script">>},
             4),
    Scenario("html", EJSTemplates, <<>>,
             {<<"<", "%">>, <<"%", ">">>, <<"<", "a">>, <<" ">>, <<"\"">>, <<">">>}, 3),
    \* XML
    Scenario("xml", NoTemplates, <<>>,
             Single({"<", "a", "/", ">", " ", "!", "?", "[CDATA[", "doctype", NUL}), 3),
    Scenario("xml", NoTemplates, <<"<", "a", " ">>,
             Single({"a", "/", ">", " ", "=", "\"", "'", "?"}), 3),
    Scenario("xml", NoTemplates, <<"<", "a", " ", "a", "=">>, Single({"a", "/", ">", " ", "?"}), 3),
    Scenario("xml", NoTemplates, <<"<", "a", " ", "a", "=", "\"">>, Single({"/", ">", "'", "\"", "?"}), 4),
    Scenario("xml", NoTemplates, <<"<", "?", "a", " ", "a", "=">>,
             Single({"a", "?", ">", "\"", "'", NUL}), 3),
    Scenario("xml", NoTemplates, <<"<", "!", "-", "-">>, Single({"-", ">", "<", NUL}), 4),
    Scenario("xml", NoTemplates, <<"<", "!", "[CDATA[">>, Single({"]", ">", "<", NUL}), 4),
    Scenario("xml", NoTemplates, <<"<", "!", "doctype", " ">>,
             Single({"a", "[", "]", "\"", ">", " "}), 3),
    Scenario("xml", NoTemplates, <<"<", "!", "doctype", "a", "[">>, Single({"[", "]", "\"", ">"}), 4),
    \* CSS
    Scenario("css", NoTemplates, <<>>,
             Single({"-", "1", "a", "x", "u", "+", ".", "%", "\\", "nl", "/", "*", "#", "@",
                     "|", "=", "<", "!", ">", NUL, ";", "{"}), 2),
    Scenario("css", NoTemplates, <<>>, Single({"-", "1", "e", "x", "+", ".", "%", "\\"}), 3),
    Scenario("css", NoTemplates, <<"\\">>,
             {<<"1", "1", "1", "1", "1", "1">>, <<"1">>, <<" ">>, <<"nl">>, <<"x">>, <<"(">>}, 3),
    Scenario("css", NoTemplates, <<"u", "+">>,
             {<<"1", "1", "1", "1", "1", "1">>, <<"a">>, <<"?">>, <<"-">>}, 3),
    Scenario("css", NoTemplates, <<"\"">>, Single({"\"", "'", "\\", "nl", "a", NUL}), 3),
    Scenario("css", NoTemplates, <<"url", "(">>, Single({"\"", "\\", "nl", "a", ")", "(", " "}), 3),
    Scenario("css", NoTemplates, <<"/", "*">>, Single({"/", "*", "a"}), 4),
    \* JavaScript
    Scenario("js", NoTemplates, <<>>,
             Single({" ", "nl", "ls", "a", "0", "1", ".", ",", "/", "*", "-", "<", "!", ">", "=", "+",
                     "&", "\"", "tick", "\\", NUL, "%"}), 2),
    Scenario("js", NoTemplates, <<>>,
             {<<"#", "a">>, <<"#", "1">>, <<"?", "?">>, <<"?", ".">>, <<"~", "1">>, <<"=">>, <<">">>,
              <<"1">>}, 3),
    Scenario("js", NoTemplates, <<>>,
             Single({"0", "1", "8", "x", "b", "o", "_", "n", "e", ".", "-"}), 3),
    Scenario("js", NoTemplates, <<"0">>, Single({"x", "b", "1", "_", "n", "a"}), 3),
    Scenario("js", NoTemplates, <<"tick", "$", "{">>,
             {<<"tick">>, <<"$", "{">>, <<"{">>, <<"}">>, <<"(">>, <<")">>}, 4),
    Scenario("js", NoTemplates, <<"tick">>, Single({"tick", "$", "{", "}", "\\", NUL}), 3),
    Scenario("js", NoTemplates, <<>>,
             {<<"-", "-", ">">>, <<"/", "*", "nl", "*", "/">>, <<"/", "*", "*", "/">>, <<"nl">>,
              <<" ">>, <<"a">>, <<"/", "/">>, <<"<", "!", "-", "-">>}, 3),
    Scenario("js", NoTemplates, <<"/">>,
             {<<"/">>, <<"=">>, <<"[", "/">>, <<"]">>, <<"\\">>, <<"a">>, <<"nl">>, <<"}">>}, 3),
    Scenario("js", NoTemplates, <<"\"">>, Single({"\"", "'", "\\", "nl", "ls", NUL}), 3),
    Scenario("js", NoTemplates, <<"\\", "u">>,
             {<<"{">>, <<"}">>, <<"1", "1", "1">>, <<"1">>, <<"x">>, <<"\\", "u">>}, 3)>>

MCInit ==
    \E i \in DOMAIN Scenarios :
        LET sc == Scenarios[i]
        IN  \E n \in 0..sc.max : \E w \in [1..n -> sc.words] :
                StartsLexer(sc.lang, sc.begin \o FlattenSeq(w), sc.tmpl)

MCSpec == MCInit /\ [][LexersNext]_lexersVars /\ WF_lexersVars(Calls)

\* Sources of js that end in an error.
UnfinishedInit ==
    \E begin \in {<<>>, <<"a">>, <<"a", " ">>}, word \in Unfinished :
        StartsLexer("js", begin \o word, NoTemplates)

UnfinishedSpec == UnfinishedInit /\ [][LexersNext]_lexersVars
--------------------------------------------------------------------------------
(* Properties *)

\* As XMLGrammar has it.
XMLWellFormedEnds == lang = "xml" => WellFormedEnds(tagStart, inTag)

\* As CSSRailroad has it.
CSSMaximalMunch == lang = "css" => MaximalMunch

\* As JSGrammar has it; BraceOfTemplate is that of JSBrackets.
JSLongestMatch == lang = "js" => LongestMatch
================================================================================
