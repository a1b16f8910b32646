----------------------------- MODULE JSSentences -----------------------------
(***************************************************************************)
(* Grammars from which programs are derived.  Each is ECMAScript's for a   *)
(* part of the language and derives nothing but programs: a grammar maps   *)
(* each of its symbols to its alternatives, all else is a token.           *)
(***************************************************************************)
EXTENDS Naturals, Sequences, SequencesExt, TLC

\* Statements, with the three ways in which one that needs a semicolon may end.
\* What follows a line terminator here cannot go on with the statement.
StatementGrammar ==
    [Program |-> {<<"Stmt">>, <<"Stmt", "Stmt">>},
     End |-> {<<";">>, <<"nl">>},
     Last |-> {<<"a">>, <<"var", "a">>, <<"break">>, <<"a", ":", "a">>, <<"debugger">>},
     Stmt |-> {<<"a", "End">>, <<";">>, <<"{", "Stmt", "}">>, <<"{", "Last", "}">>,
               <<"if", "(", "a", ")", "Stmt">>, <<"if", "(", "a", ")", "Stmt", "else", "Stmt">>,
               <<"do", "Stmt", "while", "(", "a", ")", "End">>,
               <<"do", "Stmt", "while", "(", "a", ")">>,
               <<"while", "(", "a", ")", "Stmt">>, <<"for", "(", ";", ";", ")", "Stmt">>,
               <<"a", ":", "Stmt">>, <<"switch", "(", "a", ")", "{", "Clauses", "}">>,
               <<"try", "{", "Stmt", "}", "Handler">>, <<"throw", "a", "End">>,
               <<"break", "a", "End">>,
               <<"continue", "End">>, <<"with", "(", "a", ")", "Stmt">>},
     Clauses |-> {<<"case", "a", ":">>, <<"default", ":", "Stmt">>,
                  <<"case", "a", ":", "Stmt", "Clauses">>},
     Handler |-> {<<"finally", "{", "}">>, <<"catch", "{", "Stmt", "}">>,
                  <<"catch", "(", "a", ")", "{", "}", "finally", "{", "}">>}]

\* The heads of for statements, declarations and patterns.
BindingGrammar ==
    [Program |-> {<<"for", "(", "Init", ";", "Cond", ";", ")", ";">>, <<"Decl", ";", "Cond", ";">>,
                  <<"for", "(", "Each", "of", "a", ")", "{", "}">>,
                  <<"for", "await", "(", "Each", "of", "a", ")", ";">>,
                  <<"for", "(", "Each", "in", "Cond", ")", "a", ";">>,
                  <<"function", "a", "(", "Params", ")", "{", "}">>,
                  <<"try", "{", "}", "catch", "(", "Binding", ")", "{", "}">>},
     Decl |-> {<<"var", "a">>, <<"let", "Element">>, <<"const", "Element", ",", "a", "=", "a">>},
     Init |-> {<<"let", "a">>, <<"var", "Binding", "=", "NoIn">>, <<"NoIn">>, <<"a", "=", "NoIn">>},
     NoIn |-> {<<"a">>, <<"(", "Cond", ")">>, <<"a", "[", "Cond", "]">>,
               <<"a", "?", "Cond", ":", "NoIn">>,
               <<"[", "Cond", "]">>, <<"a", "(", "Cond", ")">>,
               <<"function", "(", ")", "{", "Cond", "}">>,
               <<"(", "a", "=", "Cond", ")", "=>", "{", "Cond", "}">>, <<"tpl{", "Cond", "}tpl">>},
     Cond |-> {<<"a", "in", "a">>, <<"a">>},
     Each |-> {<<"a">>, <<"let", "Binding">>, <<"const", "Binding">>, <<"var", "a">>,
               <<"a", ".", "a">>},
     Element |-> {<<"Binding", "=", "a">>},
     Binding |-> {<<"a">>, <<"[", "Items", "]">>, <<"{", "Props", "}">>},
     Items |-> {<<"a">>, <<",", "a">>, <<"Element", ",", "a">>, <<"...", "Binding">>,
                <<"a", ",", ",", "...", "a">>},
     Props |-> {<<"a">>, <<"a", "=", "a">>, <<"a", ":", "Binding">>,
                <<"0", ":", "a", ",", "...", "a">>,
                <<"[", "a", "]", ":", "Element">>, <<"if", ":", "a", ",">>},
     Params |-> {<<"a">>, <<"Element", ",", "Binding">>, <<"a", ",", "...", "Binding">>,
                 <<"Binding", ",">>}]

\* Operators: each symbol has its own alternatives and those of all that bind closer.
\* ++a ** a, which the parser rejects, is not derived.
Chain == <<"Expr", "Assign", "Cond", "Short", "Or", "And", "BitOr", "BitXor", "BitAnd",
           "Equal", "Compare",
           "Shift", "Add", "Mul", "Exp", "Unary", "Prefix", "Update", "Left">>
Own ==
    [Expr |-> {<<"Expr", ",", "Assign">>},
     Assign |-> {<<"Left", "=", "Assign">>, <<"Left", "+=", "Assign">>, <<"a", "=>", "Assign">>},
     Cond |-> {<<"Short", "?", "Assign", ":", "Assign">>},
     Short |-> {<<"Head", "??", "BitOr">>},
     Or |-> {<<"Or", "||", "And">>},
     And |-> {<<"And", "&&", "BitOr">>},
     BitOr |-> {<<"BitOr", "|", "BitXor">>},
     BitXor |-> {<<"BitXor", "^", "BitAnd">>},
     BitAnd |-> {<<"BitAnd", "&", "Equal">>},
     Equal |-> {<<"Equal", "==", "Compare">>},
     Compare |-> {<<"Compare", "in", "Shift">>},
     Shift |-> {<<"Shift", "<<", "Add">>},
     Add |-> {<<"Add", "+", "Mul">>, <<"Add", "-", "Mul">>},
     Mul |-> {<<"Mul", "*", "Exp">>},
     Exp |-> {<<"Update", "**", "Exp">>},
     Unary |-> {<<"typeof", "Unary">>, <<"+", "Unary">>},
     Prefix |-> {<<"++", "Left">>},
     Update |-> {<<"Left", "++">>},
     Left |-> {<<"a">>, <<"(", "Expr", ")">>}]

OperatorGrammar ==
    [symbol \in ToSet(Chain) \cup {"Head"} |->
        IF symbol = "Head" THEN {<<"Head", "??",
            "BitOr">>} \cup UNION {Own[Chain[n]] : n \in 7..Len(Chain)}
        ELSE UNION {Own[Chain[n]] : n \in {k \in DOMAIN Chain : \E j \in 1..k : Chain[j] = symbol}}]
    @@ ("Program" :> {<<"Expr", ";">>})

\* Left-hand sides, calls, templates.
ChainGrammar ==
    [Program |-> {<<"Any", "End">>, <<"Any", "++", "End">>, <<"a", "=", "Any", "End">>,
                  <<"Any", "in", "a", ";">>},
     End |-> {<<";">>, <<"nl", "var", "a">>},
     Any |-> {<<"Call">>, <<"new", "New">>},
     New |-> {<<"Member">>, <<"new", "New">>},
     Call |-> {<<"Member">>, <<"Member", "(", "Args", ")">>, <<"Call", "(", ")">>,
               <<"Call", ".", "a">>,
               <<"import", "(", "a", ")">>, <<"super", "(", "a", ")">>, <<"Call", "tpl">>},
     Member |-> {<<"a">>, <<"0">>, <<"Member", ".", "if">>, <<"Member", "[", "Args", "]">>,
                 <<"Member", "tpl{", "a", "}tpl">>,
                 <<"new", "Member", "(", "a", ")">>, <<"new", ".", "target">>,
                 <<"import", ".", "meta">>,
                 <<"super", ".", "a">>, <<"a", ".", "#p">>},
     Args |-> {<<"a">>, <<"Member", ",", "a">>, <<"class", "extends", "Member", "{", "}">>}]

OptionalGrammar ==
    [Program |-> {<<"Optional", ";">>, <<"a", "+", "Optional", "?", "Optional", ":", "a", ";">>},
     Optional |-> {<<"Base", "Link">>, <<"Optional", "Link">>, <<"Optional", "Plain">>},
     Base |-> {<<"a">>, <<"a", "(", ")">>, <<"a", ".", "a">>, <<"new", "a", "(", ")">>},
     Link |-> {<<"?.", "a">>, <<"?.", "[", "a", "]">>, <<"?.", "(", "a", ")">>},
     Plain |-> {<<".", "a">>, <<"[", "a", "]">>, <<"(", ")">>}]

\* Functions within functions: which of yield, await and return are words.
FunctionGrammar ==
    [Program |-> {<<"Func", ";", "Module", ";">>, <<"Module", ",", "Func", ";">>,
                  <<"export", "default", "Func", ";", "Module", ";">>},
     Module |-> {<<"await", "a">>, <<"yield", "+", "a">>, <<"a", "=", "yield">>},
     Func |-> {<<"a", "(", "function", "(", "Param", ")", "{", "Plain", "}", ")">>,
               <<"a", "(", "function", "*", "(", ")", "{", "Yields", "}", ")">>,
               <<"a", "(", "async", "function", "(", ")", "{", "Awaits", "}", ")">>,
               <<"a", "(", "async", "function", "*", "(", ")", "{", "Both", "}", ")">>,
               <<"a", "(", "(", ")", "=>", "{", "Plain", "}", ")">>,
               <<"a", "(", "a", "=>", "Plain1", ")">>,
               <<"a", "(", "async", "a", "=>", "{", "Awaits", "}", ")">>,
               <<"a", "(", "async", "(", ")", "=>", "{", "Awaits", "}", ")">>,
               <<"a", "(", "{", "a", "(", ")", "{", "Plain", "}", "}", ")">>,
               <<"a", "(", "{", "*", "a", "(", ")", "{", "Yields", "}", "}", ")">>,
               <<"a", "(", "{", "async", "a", "(", ")", "{", "Awaits", "}", "}", ")">>,
               <<"a", "(", "class", "{", "static", "{", "Static", "}", "}", ")">>},
     Param |-> {<<"yield">>, <<"await", "=", "a">>},
     Plain |-> {<<"return", "Plain1">>, <<"Func", ";", "return", "Plain1">>},
     Plain1 |-> {<<"yield", "+", "a">>, <<"await", "+", "a">>},
     Yields |-> {<<"yield">>, <<"yield", "a">>, <<"yield", "*", "a">>, <<"await", "+", "a">>,
                 <<"Func", ";", "yield", "a">>,
                 <<"return", "await">>},
     Awaits |-> {<<"await", "a">>, <<"yield", "+", "a">>, <<"Func", ";", "await", "a">>,
                 <<"return", "yield">>},
     Both |-> {<<"yield", "await", "a">>, <<"await", "Func", ";", "yield">>},
     Static |-> {<<"a">>, <<"Func", ";", "a">>}]

\* Parentheses, arrays and objects that become parameters or do not.
\* ({a} = [b.c]) => d, which the parser rejects, is not derived.
CoverGrammar ==
    [Program |-> {<<"Expr", ";">>, <<"Expr", "nl", "var", "a", ";">>},
     Expr |-> {<<"Arrow">>, <<"Value", ",", "Value">>, <<"async", "(", ")">>,
               <<"async", "(", "Value", ",", "...", "a", ")">>,
               <<"[", "Value", "]", "=", "a">>, <<"async", "Arrow1">>, <<"async", "a", "=>", "a">>},
     Arrow |-> {<<"Arrow1">>, <<"a", "=>", "a">>},
     Arrow1 |-> {<<"(", ")", "=>", "Body">>, <<"(", "Param", ")", "=>", "Body">>,
                 <<"(", "Param", ",", "...", "Pattern", ")", "=>", "Body">>},
     Body |-> {<<"a">>, <<"{", "}">>, <<"(", "{", "}", ")">>},
     Param |-> {<<"Pattern">>, <<"a", "=", "Value">>, <<"Pattern", "=", "Plain">>},
     Plain |-> {<<"a">>, <<"(", "Value", ")">>},
     Pattern |-> {<<"a">>, <<"[", "Item", "]">>, <<"{", "Prop", "}">>},
     Item |-> {<<",", "Pattern">>, <<"Pattern", "=", "a", ",">>, <<"a", ",", "...", "Pattern">>},
     Prop |-> {<<"a", "=", "Value">>, <<"a", ",", "...", "a">>, <<"a", ":", "Param">>,
               <<"[", "a", "]", ":", "a">>},
     Value |-> {<<"a">>, <<"(", "Value", ")">>, <<"(", "a", ",", "Arrow", ")">>,
                <<"[", "Value", ",", ",", "...", "Value", "]">>,
                <<"[", "a", ".", "a", "]">>, <<"(", "[", "Value", "]", ")">>,
                <<"(", "{", "a", ":", "Value", ",", "a", "}", ")">>}]

ClassGrammar ==
    [Program |-> {<<"class", "a", "{", "Element", "}">>,
                  <<"class", "a", "{", "Element", "Element", "}">>,
                  <<"class", "a", "extends", "a", ".", "a", "{", ";", "Element", "}">>,
                  <<"a", "=", "{", "Property", "}", ";">>,
                  <<"a", "=", "{", "Property", ",", "Property", "}", ";">>},
     Element |-> {<<"Method">>, <<"static", "Method">>, <<"Field">>, <<"static", "Field">>,
                  <<"static", "{", "a", ";", "}">>},
     Method |-> {<<"Name", "Rest">>, <<"*", "Name", "Rest">>, <<"async", "Name", "Rest">>,
                 <<"async", "*", "Name", "Rest">>,
                 <<"get", "Name", "(", ")", "{", "}">>, <<"set", "Name", "(", "a", ")", "{", "}">>},
     Rest |-> {<<"(", ")", "{", "}">>},
     Field |-> {<<"FieldName", ";">>, <<"FieldName", "=", "a", ";">>},
     FieldName |-> {<<"Name">>, <<"#p">>},
     Name |-> {<<"a">>, <<"get">>, <<"static">>, <<"async">>, <<"if">>, <<"0">>, <<"[", "a", "]">>},
     Property |-> {<<"Method">>, <<"Name", ":", "a">>, <<"a">>, <<"get">>, <<"async">>,
                   <<"...", "a">>}]

ModuleGrammar ==
    [Program |-> {<<"Item">>, <<"Item", "Item">>},
     Item |-> {<<"import", "str", "End">>, <<"import", "Clause", "from", "str", "End">>,
               <<"import", ".", "meta", "End">>,
               <<"export", "*", "from", "str", "End">>,
               <<"export", "*", "as", "a", "from", "str", "End">>,
               <<"export", "{", "Names", "}", "End">>,
               <<"export", "{", "Names", "}", "from", "str", "End">>,
               <<"export", "default", "Default", "End">>, <<"export", "Decl">>, <<"a", ";">>,
               <<"import", "(", "a", ")", "End">>},
     End |-> {<<";">>, <<"nl">>},
     Clause |-> {<<"a">>, <<"*", "as", "a">>, <<"{", "}">>, <<"{", "Imports", "}">>,
                 <<"a", ",", "{", "Imports", "}">>,
                 <<"from", ",", "*", "as", "as">>},
     Imports |-> {<<"a">>, <<"as", ",">>, <<"if", "as", "a">>,
                  <<"a", ",", "default", "as", "from">>},
     Names |-> {<<"a">>, <<"a", "as", "default", ",">>, <<"as", "as", "as", ",", "a">>},
     Default |-> {<<"a">>, <<"async">>, <<"async", "(", ")", "=>", "a">>,
                  <<"function", "(", ")", "{", "}">>,
                  <<"async", "function", "(", ")", "{", "}">>, <<"class", "{", "}">>, <<"{", "}">>},
     Decl |-> {<<"var", "a", "End">>, <<"let", "a", "=", "a", "End">>,
               <<"function", "a", "(", ")", "{", "}">>,
               <<"async", "function", "*", "a", "(", ")", "{", "}">>, <<"class", "a", "{", "}">>}]
================================================================================
