------------------------------- MODULE CSSParser -------------------------------
(***************************************************************************)
(* css/parse.go: a stack of state functions, one per open block, and a     *)
(* level that counts the brackets inside what a function is reading.  A    *)
(* step reads one token; Next returns to its caller when gt is a unit.     *)
(* Whitespace, and the text and values of the units, are left out.         *)
(***************************************************************************)
EXTENDS Integers, Sequences, SequencesExt

CONSTANT MaxDepth    \* bound: brackets open at once, in the source and in the parser

ASSUME CSSParserAssumption == MaxDepth \in Nat

\* Tokens: "lparen" stands for ( [ and functions, "rparen" for ) and ], "name" for
\* identifiers and delimiters but *, "custom" for a custom property's name.
Opening == {"lparen", "lbrace"}
Closing == {"rparen", "rbrace"}
Opened(t) == IF t = "rparen" THEN "lparen" ELSE "lbrace"
AtKeyword == {"@page", "@media", "@other"}
Token == Opening \cup Closing \cup AtKeyword \cup
         {"semicolon", "colon", "star", "name", "custom", "cdo", "comment", "other", "eof"}

\* State functions: of a stylesheet, of a style attribute, and of the blocks.
Bottom == {"Stylesheet", "DeclarationList"}
Block == {"AtRuleRuleList", "AtRuleDeclarationList", "AtRuleUnknown",
          "QualifiedRuleDeclarationList"}

VARIABLES
    state,       \* p.state
    level,       \* p.level
    prevEnd,     \* p.prevEnd: the } that ended the last unit also ends a block
    running,     \* where inside Next the parser waits for a token, or "idle"
    local,       \* the at-rule being read, or what follows the property's name
    gt,          \* the unit Next returned, "EOF" for an ErrorGrammar without p.err
    \* history of the run:
    open,        \* the brackets open in the source so far
    matched,     \* no bracket of it was closed that was not open
    lost,        \* a bracket was read where the parser does not look at brackets
    eof,         \* the lexer has reached the end
    due          \* the End units of the blocks that the client was told of, innermost last

parser == <<state, level, prevEnd, running, local, gt>>
source == <<open, matched, lost, eof>>

Running == {"idle", "List", "Star", "AtRule", "QualifiedRule", "Declaration",
            "DeclarationError", "CustomProperty", "CustomValue"}

Local == AtKeyword \cup {"none", "nothing", "colon", "no colon"}

Grammar == {"none", "Error", "EOF", "Comment", "AtRule", "BeginAtRule", "EndAtRule",
            "BeginRuleset", "EndRuleset", "Declaration", "Token", "CustomProperty"}

Init ==
    /\ state \in {<<f>> : f \in Bottom} /\ level = 0 /\ prevEnd = FALSE
    /\ running = "idle" /\ local = "none" /\ gt = "none"
    /\ open = <<>> /\ matched = TRUE /\ lost = FALSE /\ eof = FALSE /\ due = <<>>

--------------------------------------------------------------------------------
(* Parts of the steps *)

\* Next returns g.
Unit(g) == running' = "idle" /\ local' = "none" /\ gt' = g /\ prevEnd' = FALSE

\* Next returns g, which token t has ended.
UnitEndedBy(g, t) == running' = "idle" /\ local' = "none" /\ gt' = g /\ prevEnd' = (t = "rbrace")

GoOn(f, l) == running' = f /\ local' = l /\ gt' = "none" /\ prevEnd' = FALSE

Bug_Ends(t) == t \in {"semicolon", "rbrace"} \/ t = "eof"

\* A unit without a block ends here.
Ends(t) == (t \in {"semicolon", "rbrace"} /\ level = 0) \/ t = "eof"

Push(f) == state' = Append(state, f)

\* The way out of an error, which never drops the bottom.
Pop == state' = IF 1 < Len(state) THEN Front(state) ELSE state

\* An opening or a closing bracket inside of what is being read.
Count(t) ==
    level' = level + (IF t \in Opening THEN 1 ELSE IF t \in Closing THEN -1 ELSE 0)

Unexpected(t) == t \in Closing /\ level = 0

--------------------------------------------------------------------------------
(* The functions' loops, one token each *)

ParseAtRule(t) ==
    \/ /\ t = "lbrace" /\ level = 0
       /\ Push(CASE local = "@page" -> "AtRuleDeclarationList"
                 [] local = "@media" -> "AtRuleRuleList"
                 [] OTHER -> "AtRuleUnknown")
       /\ Unit("BeginAtRule") /\ UNCHANGED level
    \/ Ends(t) /\ UnitEndedBy("AtRule", t) /\ UNCHANGED <<state, level>>
    \/ ~Ends(t) /\ Unexpected(t) /\ Pop /\ Unit("Error") /\ UNCHANGED level
    \/ /\ ~Ends(t) /\ ~Unexpected(t) /\ ~(t = "lbrace" /\ level = 0)
       /\ Count(t) /\ GoOn("AtRule", local) /\ UNCHANGED state

ParseQualifiedRule(t) ==
    \/ /\ t = "lbrace" /\ level = 0
       /\ Push("QualifiedRuleDeclarationList") /\ Unit("BeginRuleset") /\ UNCHANGED level
    \/ t = "eof" /\ Unit("Error") /\ UNCHANGED <<state, level>>
    \/ Unexpected(t) /\ Pop /\ Unit("Error") /\ UNCHANGED level
    \/ /\ t # "eof" /\ ~Unexpected(t) /\ ~(t = "lbrace" /\ level = 0)
       /\ Count(t) /\ GoOn("QualifiedRule", "none") /\ UNCHANGED state

ParseDeclarationError(t) ==
    \/ Ends(t) /\ UnitEndedBy("Error", t) /\ UNCHANGED <<state, level>>
    \/ ~Ends(t) /\ Count(t) /\ GoOn("DeclarationError", "none") /\ UNCHANGED state

\* The value begins with the first token after the name, which is a colon.
ParseDeclaration(t) ==
    \/ Ends(t) /\ local = "colon" /\ UnitEndedBy("Declaration", t) /\ UNCHANGED <<state, level>>
    \/ Ends(t) /\ local # "colon" /\ ParseDeclarationError(t)
    \/ /\ t = "lbrace" /\ level = 0 /\ state[1] = "Stylesheet"
       /\ Push("QualifiedRuleDeclarationList") /\ Unit("BeginRuleset") /\ UNCHANGED level
    \/ ~Ends(t) /\ Unexpected(t) /\ ParseDeclarationError(t)
    \/ /\ ~Ends(t) /\ ~Unexpected(t) /\ ~(t = "lbrace" /\ level = 0 /\ state[1] = "Stylesheet")
       /\ Count(t)
       /\ GoOn("Declaration",
               IF local # "nothing" THEN local ELSE IF t = "colon" THEN "colon" ELSE "no colon")
       /\ UNCHANGED state

ParseCustomProperty(t) ==
    \/ t = "colon" /\ GoOn("CustomValue", "none") /\ UNCHANGED <<state, level>>
    \/ t # "colon" /\ Unit("Error") /\ UNCHANGED <<state, level>>

Bug_ParseCustomValue(t) ==
    \/ Ends(t) /\ Unit("CustomProperty") /\ UNCHANGED <<state, level>>
    \/ ~Ends(t) /\ Unexpected(t) /\ Unit("Error") /\ UNCHANGED <<state, level>>
    \/ ~Ends(t) /\ ~Unexpected(t) /\ Count(t) /\ GoOn("CustomValue", "none") /\ UNCHANGED state

ParseCustomValue(t) ==
    \/ Ends(t) /\ UnitEndedBy("CustomProperty", t) /\ UNCHANGED <<state, level>>
    \/ ~Ends(t) /\ Unexpected(t) /\ Unit("Error") /\ UNCHANGED <<state, level>>
    \/ ~Ends(t) /\ ~Unexpected(t) /\ Count(t) /\ GoOn("CustomValue", "none") /\ UNCHANGED state

--------------------------------------------------------------------------------
(* The state functions *)

StartAtRule(t) == GoOn("AtRule", t) /\ UNCHANGED <<state, level>>

StartCustomProperty == GoOn("CustomProperty", "none") /\ UNCHANGED <<state, level>>

ParseStylesheet(t) ==
    \/ t = "cdo" /\ Unit("Token") /\ UNCHANGED <<state, level>>
    \/ t = "comment" /\ Unit("Comment") /\ UNCHANGED <<state, level>>
    \/ t = "eof" /\ Unit("EOF") /\ UNCHANGED <<state, level>>
    \/ t \in AtKeyword /\ StartAtRule(t)
    \/ t = "custom" /\ StartCustomProperty
    \/ t \notin AtKeyword \cup {"cdo", "comment", "eof", "custom"} /\ ParseQualifiedRule(t)

\* The rest of parseDeclarationList, past comment, semicolons and the hack *name.
\* After the hack the at-rule's name is "*@...", which is none that it knows.
DeclarationOrAtRule(t) ==
    \/ t = "eof" /\ Unit("EOF") /\ UNCHANGED <<state, level>>
    \/ t \in AtKeyword /\ StartAtRule(IF running = "Star" THEN "@other" ELSE t)
    \/ t \in {"name", "star"} /\ GoOn("Declaration", "nothing") /\ UNCHANGED <<state, level>>
    \/ t = "custom" /\ StartCustomProperty
    \/ t = "rbrace" /\ Unit("Error") /\ UNCHANGED <<state, level>>
    \/ /\ t \notin AtKeyword \cup {"eof", "name", "star", "custom", "rbrace"}
       /\ ParseDeclarationError(t)

ParseDeclarationList(t) ==
    \/ t \in {"comment", "semicolon"} /\ GoOn("List", "none") /\ UNCHANGED <<state, level>>
    \/ t = "star" /\ GoOn("Star", "none") /\ UNCHANGED <<state, level>>
    \/ t \notin {"comment", "semicolon", "star"} /\ DeclarationOrAtRule(t)

Bug_EndsBlock(t) == t = "rbrace"

EndsBlock(t) == t \in {"rbrace", "eof"}

EndBlock(g, t) ==
    EndsBlock(t) /\ Unit(g) /\ state' = Front(state) /\ UNCHANGED level

ParseQualifiedRuleDeclarationList(t) ==
    \/ EndBlock("EndRuleset", t)
    \/ ~EndsBlock(t) /\ ParseDeclarationList(t)

Bug_ParseAtRuleDeclarationList(t) ==
    \/ EndBlock("EndRuleset", t)
    \/ ~EndsBlock(t) /\ ParseDeclarationList(t)

ParseAtRuleDeclarationList(t) ==
    \/ EndBlock("EndAtRule", t)
    \/ ~EndsBlock(t) /\ ParseDeclarationList(t)

ParseAtRuleRuleList(t) ==
    \/ EndBlock("EndAtRule", t)
    \/ t \in AtKeyword /\ StartAtRule(t)
    \/ t \notin AtKeyword /\ ~EndsBlock(t) /\ ParseQualifiedRule(t)

Bug_ParseAtRuleUnknown(t) ==
    \/ level = 0 /\ EndBlock("EndAtRule", t)
    \/ ~(level = 0 /\ EndsBlock(t)) /\ Unit("Token") /\ Count(t) /\ UNCHANGED state

ParseAtRuleUnknown(t) ==
    \/ (level = 0 \/ t = "eof") /\ EndBlock("EndAtRule", t)
    \/ ~(EndsBlock(t) /\ (level = 0 \/ t = "eof"))
       /\ Unit("Token") /\ Count(t) /\ UNCHANGED state

--------------------------------------------------------------------------------
(* Next *)

StateFunction(t) ==
    \/ Last(state) = "Stylesheet" /\ ParseStylesheet(t)
    \/ Last(state) = "DeclarationList" /\ ParseDeclarationList(t)
    \/ Last(state) = "QualifiedRuleDeclarationList" /\ ParseQualifiedRuleDeclarationList(t)
    \/ Last(state) = "AtRuleDeclarationList" /\ ParseAtRuleDeclarationList(t)
    \/ Last(state) = "AtRuleRuleList" /\ ParseAtRuleRuleList(t)
    \/ Last(state) = "AtRuleUnknown" /\ ParseAtRuleUnknown(t)

\* popToken: token t is read from the source.
PopToken(t) ==
    /\ eof => t = "eof"
    /\ eof' = (t = "eof")
    /\ t = "comment" => running = "idle" /\ Len(state) = 1
    /\ t \in Opening => Len(open) < MaxDepth /\ Len(state) < MaxDepth /\ level < MaxDepth
    /\ t \in Closing => -MaxDepth < level
    /\ matched' = (matched /\ (t \in Closing => open # <<>> /\ Last(open) = Opened(t)))
    /\ open' = IF t \in Opening THEN Append(open, t)
               ELSE IF t \in Closing /\ open # <<>> THEN Front(open) ELSE open
    /\ lost' = (lost \/ (running = "Star" /\ t \in {"rbrace", "eof"})
                     \/ (running = "CustomProperty" /\ t \in Opening \cup Closing))

EndOf(g) == IF g = "BeginAtRule" THEN "EndAtRule" ELSE "EndRuleset"

\* The history of what the client was given: a block of its own for each Begin unit,
\* which goes with its End unit or with the error that drops it from the stack.  An
\* End unit of another block does not count.
Deliver ==
    due' = IF gt' \in {"BeginAtRule", "BeginRuleset"} THEN Append(due, EndOf(gt'))
           ELSE IF /\ due # <<>>
                   /\ gt' = Last(due) \/ (gt' = "Error" /\ Len(state') < Len(state))
           THEN Front(due)
           ELSE due

\* Next with the } that had ended the last unit.
NextAfterEnd ==
    running = "idle" /\ prevEnd /\ StateFunction("rbrace") /\ UNCHANGED source /\ Deliver

\* Token t is dealt with by the loop that waits for it.
Step(t) ==
    \/ running \in {"idle", "List"} /\ StateFunction(t)
    \/ running = "Star" /\ DeclarationOrAtRule(t)
    \/ running = "AtRule" /\ ParseAtRule(t)
    \/ running = "QualifiedRule" /\ ParseQualifiedRule(t)
    \/ running = "Declaration" /\ ParseDeclaration(t)
    \/ running = "DeclarationError" /\ ParseDeclarationError(t)
    \/ running = "CustomProperty" /\ ParseCustomProperty(t)
    \/ running = "CustomValue" /\ ParseCustomValue(t)

NextToken ==
    /\ ~prevEnd
    /\ \E t \in Token :
          /\ PopToken(t)
          /\ Step(t)
    /\ Deliver

Next == NextAfterEnd \/ NextToken

vars == <<parser, source, due>>

\* A client that goes on calling Next.
Fairness == WF_vars(Next)

Spec == Init /\ [][Next]_vars /\ Fairness

--------------------------------------------------------------------------------
(* Properties *)

\* Next always finds a state function: the bottom one stays at the bottom and
\* there only, whatever errors drop (css/parse.go:139, 271, 364).
TypeOK ==
    /\ state \in Seq(Bottom \cup Block) /\ state # <<>>
    /\ \A i \in DOMAIN state : state[i] \in Bottom <=> i = 1
    /\ level \in Int /\ prevEnd \in BOOLEAN
    /\ running \in Running /\ local \in Local /\ gt \in Grammar
    /\ open \in Seq(Opening) /\ matched \in BOOLEAN /\ lost \in BOOLEAN /\ eof \in BOOLEAN
    /\ due \in Seq({"EndAtRule", "EndRuleset"})

\* On a source whose brackets match so far the parser has as many blocks and
\* brackets open as the source, through all its errors, so that every } ends the
\* block it stands for, be it read with the unit before it (p.prevEnd).
InStep ==
    matched /\ ~lost /\ ~eof =>
        Len(state) - 1 + level = Len(open) + (IF prevEnd THEN 1 ELSE 0)

\* All functions share p.level and none resets it: it is 0 again whenever a unit
\* is complete, but for the tokens of an unknown at-rule, and only that and a
\* declaration error take it below.
Settled ==
    ~eof /\ Last(state) # "AtRuleUnknown" =>
        /\ running = "idle" => level = 0
        /\ running # "DeclarationError" => 0 <= level

\* A client that goes on over errors until Err is io.EOF, as css/parse_test.go:131-138
\* does, has been given for each block it was told of an End unit of its kind, innermost
\* first, or the error that dropped the block (css/parse.go:271, 364), which no End
\* unit follows: @media x{a} ends without an EndAtRule, and css/parse_test.go:93 expects
\* one } less than there are {.  The loop of css/README.md:109 stops at the first error
\* and is promised nothing.
AllEnded == gt = "EOF" /\ ~lost => due = <<>>

\* Once the source is exhausted the calls of Next come to that point.
Drains == eof ~> gt = "EOF"
================================================================================
