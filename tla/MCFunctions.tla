------------------------------ MODULE MCFunctions ------------------------------
(***************************************************************************)
(* The parts of the repository that read and write numbers, bits and       *)
(* places, each over all arguments in small ranges: the two machines of    *)
(* binary.go that write and read back, the loop of Position, and functions *)
(* that keep no state, which are called in the initial state only.  part   *)
(* says what a behaviour is about.                                         *)
(***************************************************************************)
EXTENDS Bitmap, Strconv, TLC

CONSTANTS
    Parts,                   \* which of the parts below are run
    Base, Sizes, MaxFields,  \* of BinaryCodec
    GroupLens                \* how many bytes the group symbol has, 0 for no symbol

VARIABLES
    part, args,                                 \* what is called, and with what
    bytes, fields, next, values,                \* of BinaryCodec
    text, offset, pos, start, line, broken      \* of Position

Codec == INSTANCE BinaryCodec WITH buf <- bytes, pos <- next, got <- values
P == INSTANCE Position

\* The entities: a is &, b and bbb are the same, and the quote must stay &#39; .
Names == (<<97>> :> 38) @@ (<<98>> :> 222) @@ (<<98, 98, 98>> :> 222)
Quote == <<38, 35, 51, 57, 59>>
C == INSTANCE Common WITH
        entitiesMap <- (<<97>> :> <<38>>) @@ (<<98, 98, 98>> :> <<38, 98, 59>>),
        revEntitiesMap <- 39 :> Quote,
        MaxEntityLength <- 2

codecVars == <<bytes, fields, next, values>>
positionVars == <<text, offset, pos, start, line, broken>>

\* Texts of whole characters, for the lines and columns.
Characters ==
    {<<"a">>, <<"nl">>, <<"cr">>, <<"nul">>, <<"two", "x">>, <<"three", "x", "x">>,
     <<"three", "ls", "ls">>}
Texts == {FlattenSeq(w) : w \in UNION {[1..n -> Characters] : n \in 0..3}}

\* Any bytes, NUL among them, for the lengths of characters, with the terminator.
Buffered == {Append(b, P!NUL) : b \in UNION {[1..n -> P!Long \cup {"a", P!NUL}] : n \in 0..4}}

\* Bytes that may be a number.
Numerals == UNION {[1..n -> {0, 1, 2, 5, 6, 7, 8, Minus, Plus, Other}] : n \in 0..4}

\* Pieces of texts with entities: whitespace, letters, &, # and ; on their own,
\* and references to &, to b, to a quote, to a space and to a character that is
\* not ASCII.
Pieces ==
    {<<32>>, <<32, 10>>, <<97>>, <<38>>, <<35>>, <<59>>, <<38, 97, 59>>, <<38, 98, 98, 98, 59>>, Quote,
     <<38, 35, 120, 50, 55, 59>>, <<38, 35, 51, 50, 59>>, <<38, 35, 120, 48, 70, 70, 59>>}
TextsOf(pieces, n) == {FlattenSeq(w) : w \in UNION {[1..k -> pieces] : k \in 0..n}}

Params == {<<>>, <<<<<<120>>, <<49>>>>>>, <<<<<<120>>, <<49>>>>, <<<<121>>, <<>>>>>>,
           <<<<<<120>>, <<49>>>>, <<<<120>>, <<50>>>>>>}

\* A mimetype that has parameters may not be left out.
DataURIs ==
    {<<m, params, base64, space, data>> \in
        {<<>>, <<97, 47, 98>>} \X Params \X (0..3) \X {<<>>, <<32>>} \X {<<>>, <<97, 37, 50, 48>>, <<44, 32>>} :
        base64 <= Len(params) + 1 /\ (m = <<>> => params = <<>>)}

Calls ==
    [bitmap |-> {<<>>}, codec |-> {<<>>},
     position |-> UNION {{t} \X (-1..(Len(t) + 1)) : t \in Texts},
     context |-> {<<n, c>> \in (0..100) \X (1..101) : c <= n + 1},
     runes |-> {<<b, p>> \in Buffered \X (0..3) : p < Len(b)},
     parsed |-> {<<b>> : b \in Numerals},
     written |-> {<<n>> : n \in Signed},
     numbers |-> Signed \X (0..4) \X (0..3) \X GroupLens,
     whitespace |-> {<<t>> : t \in TextsOf(Pieces, 4)},
     url |-> {<<t>> : t \in UNION {[1..n -> {32, 37, 43, 50, 66, 97, 200}] : n \in 0..4}},
     dataURI |-> DataURIs,
     number |-> {<<t>> : t \in UNION {[1..n -> {43, 46, 53, 97, 101}] : n \in 0..6}}]

MCInit ==
    /\ BitmapInit /\ Codec!Init
    /\ part \in Parts
    /\ args \in Calls[part]
    /\ IF part = "position" THEN P!Starts(args[1], args[2]) ELSE P!Starts(<<>>, 0)

MCNext ==
    /\ UNCHANGED <<part, args>>
    /\ \/ part = "bitmap" /\ BitmapNext /\ UNCHANGED <<codecVars, positionVars>>
       \/ part = "codec" /\ Codec!Next /\ UNCHANGED <<bitmapVars, positionVars>>
       \/ part = "position" /\ P!Step /\ UNCHANGED <<bitmapVars, codecVars>>

MCSpec == MCInit /\ [][MCNext]_<<part, args, bitmapVars, codecVars, positionVars>>
--------------------------------------------------------------------------------
(* The properties, where they are about the call *)

\* Integers are read back as they were written (Codec).
ReadsBack == Codec!ReadsBack

\* A place in a text has the line and column that its newlines give it, is shown
\* with the caret below it, and lies between characters that both kinds of buffer
\* find, up to a NUL of the text (Position, Runes).
PlacesRight ==
    /\ part = "position" => P!PositionRight(args[2])
    /\ part = "context" => P!CaretUnderColumn(args[1], args[2])
    /\ part = "runes" => P!RunesWithin(args[1], args[2]) /\ P!SameRunes(args[1], args[2])

\* Integers are parsed unless they overflow, and as they were written, also the
\* smallest, which has no opposite of its width (Strconv);
\* Number finds the longest number (Common).
NumbersRight ==
    /\ part = "parsed" => ParsesIntegers(args[1])
    /\ part = "written" => ReadsIntegersBack(args[1])
    /\ part = "numbers" => ReadsNumbersBack(args[1], args[2], args[3], args[4])
    /\ part = "number" => C!NumberLongest(args[1])

\* Whitespace and entities are replaced in place, alone or at once, without a
\* change of what the text means (Common).
TextReplaced ==
    part = "whitespace" =>
        /\ C!WhitespaceCollapsed(args[1])
        /\ C!BothReplaced(args[1])
        /\ C!MeaningKept(args[1], Names)

\* What has been put into an escaped text or a data URI is what comes out (Common).
URLsReadBack ==
    /\ part = "url" => C!URLReadBack(args[1])
    /\ part = "dataURI" => C!DataURIReadBack(args[1], args[2], args[3], args[4], args[5])
================================================================================
