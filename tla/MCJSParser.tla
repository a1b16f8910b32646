----------------------------- MODULE MCJSParser -----------------------------
(***************************************************************************)
(* JSParser and JSPrinter on programs of two kinds: those that a grammar   *)
(* of JSSentences derives, leftmost symbol first, and all sequences of     *)
(* some tokens as far as the parser may still accept what begins so.       *)
(***************************************************************************)
EXTENDS JSParser, JSPrinter

CONSTANTS
    MaxDerived,  \* the greatest length of a derived program
    MaxTokens    \* how many tokens of an alphabet there may be

Syntax == INSTANCE JSSyntax
Sentences == INSTANCE JSSentences

Grammars ==
    [statements |-> Sentences!StatementGrammar, bindings |-> Sentences!BindingGrammar,
     operators |-> Sentences!OperatorGrammar, chains |-> Sentences!ChainGrammar,
     optional |-> Sentences!OptionalGrammar, functions |-> Sentences!FunctionGrammar,
     covers |-> Sentences!CoverGrammar, classes |-> Sentences!ClassGrammar,
     modules |-> Sentences!ModuleGrammar]

\* Tokens, and what stands before them.
Text(before, tokens) == [before |-> before, tokens |-> tokens]
Texts ==
    [signs |-> Text(<<>>, {"a", "+", "++", "**", "?", ":"}),
     brackets |-> Text(<<>>, {"a", "(", ")", "{", "}", "[", "]", ",", "=>"}),
     patterns |-> Text(<<"(">>, {"a", "=", "...", "{", "}", "[", "]", ",", ":", ")", "=>"}),
     lines |-> Text(<<>>, {"a", "nl", ";", "{", "}", "if", "(", ")", "else", "do", "while"}),
     heads |-> Text(<<"for", "(">>, {"let", "of", "in", "a", "=", ";", ")", "await"}),
     generators |->
        Text(<<"function", "*", "a", "(">>, {")", "{", "yield", "a", "*", "}", "nl", "=", ","}),
     members |-> Text(<<"a", "=", "{">>, {"get", "async", "*", "a", "(", ")", "{", "}", ":", ","}),
     handlers |-> Text(<<>>, {"return", "a", ";", "{", "}", "nl", "while", "(", ")"}),
     exports |->
        Text(<<"export">>, {"default", "{", "}", "*", "as", "a", "from", "str", ",", "async", "=>"})]

\* The bounds of MCJSParser.cfg.
MCMaxDerived ==
    [statements |-> 10, bindings |-> 23, operators |-> 7, chains |-> 10, optional |-> 11,
     functions |-> 31, covers |-> 18, classes |-> 14, modules |-> 15]
MCMaxTokens ==
    [signs |-> 7, brackets |-> 6, patterns |-> 6, lines |-> 5, heads |-> 6, generators |-> 6,
     members |-> 5, handlers |-> 5, exports |-> 5]

\* Read as the code of an event handler, with while written as for.
Handlers == {"handlers"}

VARIABLES kind, form, result
vars == <<kind, form, result>>

Symbols == [k \in DOMAIN Grammars |-> DOMAIN Grammars[k]]
Derived == kind \in DOMAIN Grammars
Open(k, f) == k \in DOMAIN Grammars /\ \E n \in DOMAIN f : f[n] \in Symbols[k]

RECURSIVE Ungrouped(_)
Ungrouped(t) ==
    IF t.op = "group" THEN Ungrouped(t.sub[1])
    ELSE Node(t.op, [n \in DOMAIN t.sub |-> Ungrouped(t.sub[n])])

\* What the parser makes of the program, and of that program as it is written.
Unparsed == [ok |-> FALSE, failed |-> 0, tree |-> None, written |-> <<>>, again |-> None]
Parsed(tree, written, again) ==
    [ok |-> TRUE, failed |-> 0, tree |-> tree, written |-> written,
     again |-> IF again.err THEN None ELSE again.tree]
Again(tree, written, inline) == Parsed(tree, written, Parse(written, inline, inline))
Result(s, inline) ==
    IF s.err THEN [Unparsed EXCEPT !.failed = s.at] ELSE Again(s.tree, Write(s.tree), inline)

Init ==
    /\ \/ kind \in DOMAIN Grammars /\ form = <<"Program">>
       \/ kind \in DOMAIN Texts /\ form = Texts[kind].before
    /\ result = [Unparsed EXCEPT !.failed = Len(form) + 1]

\* The leftmost symbol becomes one of its alternatives.
Derive ==
    /\ Derived /\ Open(kind, form)
    /\ LET at == Min({n \in DOMAIN form : form[n] \in Symbols[kind]})
       IN  \E alternative \in Grammars[kind][form[at]] :
               /\ Len(form) + Len(alternative) - 1 <= MaxDerived[kind]
               /\ form' = SubSeq(form, 1, at - 1) \o alternative \o SubSeq(form, at + 1, Len(form))

\* One more token, unless the parser has failed before the last.
Extend ==
    /\ ~Derived
    /\ Len(form) < Len(Texts[kind].before) + MaxTokens[kind]
    /\ result.ok \/ result.failed > Len(form)
    /\ \E token \in Texts[kind].tokens : form' = Append(form, token)

Reads ==
    result' = IF Open(kind, form') THEN Unparsed
              ELSE Result(Parse(form', kind \in Handlers, kind \in Handlers), kind \in Handlers)

Next == (Derive \/ Extend) /\ Reads /\ UNCHANGED kind
Spec == Init /\ [][Next]_vars
--------------------------------------------------------------------------------
\* The parser accepts every program that a grammar derives: no flag of the parser
\* that a part of the program has set (in, yield, await, return, or that an arrow
\* may follow) is still set or cleared where another part is read, and every
\* statement ends at the line terminators where ECMAScript ends it.
Accepts == Derived /\ ~Open(kind, form) => result.ok

\* What JS() may add or leave out: parentheses are in the tree, but the body of an
\* arrow function gets braces and return, new gets (), and commas and semicolons go.
Punctuation == {"(", ")", "{", "}", ";", ",", "nl", "return"}
Content(program) == SelectSeq(program, LAMBDA token : token \notin Punctuation)

\* The parser loses get, async and * before a property that is no method; it makes
\* for of while for an event handler.
Lenient == {"members", "exports"} \cup Handlers

\* JS() of the tree that Parse returns writes all that has been read, in its order:
\* the parser drops and invents nothing, though it has read tokens as parameters
\* first and then as expressions.
Kept == result.ok /\ kind \notin Lenient => Content(result.written) = Content(form)

\* What JS() writes is read as the same tree, parentheses apart: an else stays with
\* its if, a statement with its block, two signs do not become one.
RoundTrip == result.ok => Ungrouped(result.again) = Ungrouped(result.tree)

\* In every tree that Parse returns each part is an expression of the production
\* that ECMAScript asks for there, so that operators have their operands by precedence
\* and associativity; and in, yield, await and return stand only where the
\* parameters of ECMAScript's productions allow them.
Grammatical == result.ok => Syntax!ProgramFits(result.tree, kind \in Handlers)
================================================================================
