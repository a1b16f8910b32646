------------------------------ MODULE JSONParser ------------------------------
(***************************************************************************)
(* json/parse.go: the pull parser that returns one grammar unit per call   *)
(* of Next.  The input is read on the fly, as a stream of lexical units:   *)
(* white space is dropped (moveWhitespace), and a string, a number or a    *)
(* literal is one unit.  "unterminated" is an opening quote without its    *)
(* closing one before the next NUL or the end; "other" any byte that       *)
(* starts nothing.                                                         *)
(***************************************************************************)
EXTENDS Integers, Sequences

CONSTANT MaxDepth    \* bound: the input opens no more containers at a time

ASSUME JSONParserAssumption == MaxDepth \in Nat

Ends == {"nul", "EOF"}      \* Peek returns 0: an embedded NUL, or no more input
Units == {"{", "}", "[", "]", ",", ":", "string", "unterminated", "scalar", "other"}
             \cup Ends

States == {"Value", "ObjectKey", "ObjectValue", "Array"}
Starts == {"StartObject", "StartArray"}
Closes == {"EndObject", "EndArray"}
None == "none"
Commas == {",", None}       \* whether a call of Next took a comma
Grammars == Starts \cup Closes \cup {"Key", "Value", "Error"}

VARIABLES
    state,        \* p.state, the last element is the innermost container's
    needComma,    \* p.needComma
    err,          \* p.err is set
    next,         \* the lexical unit at the parser's position
    \* history of the run:
    out,          \* the last call: the unit returned, whether it took a comma
    failed        \* an ErrorGrammar has been returned

vars == <<state, needComma, err, next, out, failed>>

Top == state[Len(state)]

\* What the input may hold next for a parser with stack st.
Input(st) == IF Len(st) > MaxDepth THEN Units \ {"{", "["} ELSE Units

Init ==
    /\ state = <<"Value">>
    /\ needComma = FALSE
    /\ err = FALSE
    /\ next \in Input(state)
    /\ out = [grammar |-> None, comma |-> None]
    /\ failed = FALSE

\* state[:len-1], where the value of an object's member is now complete.
Bug_PopNoFill == SubSeq(state, 1, Len(state) - 1)

Pop ==
    LET rest == SubSeq(state, 1, Len(state) - 1)
    IN  [rest EXCEPT ![Len(rest)] = IF @ = "ObjectValue" THEN "ObjectKey" ELSE @]

\* The opening of Next: a comma is taken in an array or before a key only.
\* c is then the unit Next dispatches on.
Look(c, comma) ==
    \/ next # "," /\ c = next /\ comma = None
    \/ next = "," /\ Top \in {"Array", "ObjectKey"} /\ c \in Input(state) /\ comma = ","

\* Taking a comma settles needComma.
Due(comma) == comma = None /\ needComma

Return(grammar, comma) == out' = [grammar |-> grammar, comma |-> comma]

Emit(grammar, comma) ==
    /\ Return(grammar, comma)
    /\ next' \in Input(state')
    /\ UNCHANGED <<err, failed>>

Bug_FailSilently(c, comma) ==
    /\ Return("Error", comma)
    /\ failed' = TRUE
    /\ next' = c
    /\ UNCHANGED err

\* p.err is set and ErrorGrammar returned; the position stays at unit c.
Fail(c, comma) ==
    /\ Return("Error", comma)
    /\ err' = TRUE /\ failed' = TRUE
    /\ next' = c

CommaRefused ==
    /\ next = "," /\ Top \notin {"Array", "ObjectKey"}
    /\ Fail(",", None)
    /\ UNCHANGED <<state, needComma>>

\* p.needComma && c != '}' && c != ']' && c != 0
Bug_MissingComma(c, comma) == Due(comma) /\ c \notin {"}", "]", "["} \cup Ends

MissingComma(c, comma) == Due(comma) /\ c \notin {"}", "]"} \cup Ends

CommaExpected(c, comma) ==
    /\ MissingComma(c, comma)
    /\ Fail(c, comma)
    /\ needComma' = Due(comma)
    /\ UNCHANGED state

StartObject(c, comma) ==
    /\ c = "{" /\ ~MissingComma(c, comma)
    /\ state' = Append(state, "ObjectKey")
    /\ needComma' = Due(comma)
    /\ Emit("StartObject", comma)

StartArray(c, comma) ==
    /\ c = "[" /\ ~MissingComma(c, comma)
    /\ state' = Append(state, "Array")
    /\ needComma' = Due(comma)
    /\ Emit("StartArray", comma)

EndObject(c, comma) ==
    /\ c = "}"
    /\ IF Top = "ObjectKey"
       THEN state' = Pop /\ needComma' = TRUE /\ Emit("EndObject", comma)
       ELSE Fail(c, comma) /\ needComma' = Due(comma) /\ UNCHANGED state

\* needComma is set before the state is looked at.
EndArray(c, comma) ==
    /\ c = "]"
    /\ needComma' = TRUE
    /\ IF Top = "Array"
       THEN state' = Pop /\ Emit("EndArray", comma)
       ELSE Fail(c, comma) /\ UNCHANGED state

\* A key, its colon, and the state that waits for its value.  After a string
\* without a colon, and after an unterminated one, the string is already read.
Key(c, comma) ==
    /\ Top = "ObjectKey"
    /\ c \notin {"{", "}", "[", "]"} /\ ~MissingComma(c, comma)
    /\ needComma' = Due(comma)
    /\ \/ /\ c = "string"
          /\ \/ /\ state' = [state EXCEPT ![Len(state)] = "ObjectValue"]
                /\ Emit("Key", comma)
             \/ /\ \E after \in Input(state) \ {":"} : Fail(after, comma)
                /\ UNCHANGED state
       \/ /\ c = "unterminated"
          /\ \E after \in Ends : Fail(after, comma)
          /\ UNCHANGED state
       \/ /\ c \notin {"string", "unterminated"}
          /\ Fail(c, comma)
          /\ UNCHANGED state

Bug_FilledAlways == [state EXCEPT ![Len(state)] = "ObjectKey"]

\* The stack once a value has begun: its object expects a key next.
Filled ==
    IF Top = "ObjectValue" THEN [state EXCEPT ![Len(state)] = "ObjectKey"] ELSE state

\* A string, number or literal; needComma and the state change before the
\* token is known to be one, also when the input is at its end.
Value(c, comma) ==
    /\ Top # "ObjectKey"
    /\ c \notin {"{", "}", "[", "]"} /\ ~MissingComma(c, comma)
    /\ needComma' = TRUE
    /\ state' = Filled
    /\ \/ c \in {"string", "scalar"} /\ Emit("Value", comma)
       \/ c \in {",", ":", "other"} /\ Fail(c, comma)
       \/ /\ c \in {"unterminated"} \cup Ends
          /\ \E end \in IF c = "unterminated" THEN Ends ELSE {c} :
                IF end = "nul" THEN Fail(end, comma)
                ELSE \* at the end of the input: Err() answers io.EOF
                     /\ Return("Error", comma)
                     /\ failed' = TRUE /\ next' = end
                     /\ UNCHANGED err

Next ==
    \/ CommaRefused
    \/ \E c \in Units, comma \in Commas :
          /\ Look(c, comma)
          /\ \/ CommaExpected(c, comma)
             \/ StartObject(c, comma) \/ EndObject(c, comma)
             \/ StartArray(c, comma) \/ EndArray(c, comma)
             \/ Key(c, comma) \/ Value(c, comma)

Spec == Init /\ [][Next]_vars

--------------------------------------------------------------------------------
(* Properties *)

\* Every variable has its type (json/parse.go:82-88).
TypeOK ==
    /\ state \in Seq(States) /\ state # <<>>
    /\ needComma \in BOOLEAN /\ err \in BOOLEAN /\ failed \in BOOLEAN
    /\ next \in Units
    /\ out \in [grammar : Grammars \cup {None}, comma : Commas]

\* The bottom of the stack is the document and nothing else is: no sequence of
\* units, errors included, pops it, so p.state[len(p.state)-1] always exists
\* (json/parse.go:107-158).
Bottom == \A i \in 1..Len(state) : state[i] = "Value" <=> i = 1

\* After a complete value the next unit of the same container follows a comma,
\* or it is the end of the container: the one needComma flag is enough for all
\* nesting levels, although entering a container does not save it
\* (json/parse.go:116-162).
Separated ==
    [][(out.grammar \in Closes \cup {"Value"} /\ out'.grammar \in Starts \cup {"Key", "Value"})
            => out'.comma = ","]_vars

\* No comma stands between a key and its value, nor at the top level
\* (json/parse.go:117).
CommaPlaces ==
    [][out'.comma = "," => out.grammar # "Key" /\ Len(state) > 1]_vars

\* Two elements of a container have a comma between them, and there is none between a
\* key and its value or outside of all containers.  What JSON forbids and the parser
\* takes is a comma before the first element or after the last one: [,1], [null,] (which
\* json/parse_test.go:37 expects) and {"a":1,}.
CommasSeparate == Separated /\ CommaPlaces

\* An ErrorGrammar always comes with a non-nil Err(): a syntax error, or io.EOF
\* because the input is at its end (json/parse.go:99-104, 189-198).
ErrorHasCause == out.grammar = "Error" => err \/ next = "EOF"

\* The emitted units are those of JSON's state machine, except that a container
\* may take a key's place (json/parse.go:131-181).
Frame(s) == IF s = "Array" THEN "array" ELSE IF s = "ObjectKey" THEN "key" ELSE "value"

Frames(st) == [i \in 1..(Len(st) - 1) |-> Frame(st[i + 1])]

FramesBar == IF failed THEN <<>> ELSE Frames(state)

DocBar == IF ~failed /\ Len(state) = 1 /\ needComma THEN "complete" ELSE "pending"

Events == INSTANCE JSONEvents WITH
              Lenient <- TRUE, frames <- FramesBar, doc <- DocBar

EmitsEvents == Events!Spec
================================================================================
