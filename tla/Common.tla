-------------------------------- MODULE Common --------------------------------
(***************************************************************************)
(* common.go: what the parsers and their clients do to single tokens, most *)
(* of it in place.  A byte is its code; indexes count from 0 as in the     *)
(* code, so that At(b, i) is b[i].                                         *)
(***************************************************************************)
EXTENDS Integers, Sequences, SequencesExt, FiniteSetsExt, TLC

CONSTANTS
    entitiesMap,         \* from the names of entities to shorter texts
    revEntitiesMap,      \* from characters that must stay entities to these
    MaxEntityLength      \* 31

Space == 32
Newline == 10
Percent == 37
Amp == 38
Plus == 43
Hash == 35
Comma == 44
Minus == 45
Dot == 46
Semicolon == 59
Equals == 61

IsWhitespace(c) == c \in {32, 10, 9, 12, 13}
IsNewline(c) == c \in {10, 13}
IsDigit(c) == c \in 48..57
IsHex(c) == IsDigit(c) \/ c \in 65..70 \/ c \in 97..102
IsAlphanumeric(c) == IsDigit(c) \/ c \in 65..90 \/ c \in 97..122
HexValue(c) == IF c <= 57 THEN c - 48 ELSE IF c <= 70 THEN c - 55 ELSE c - 87

At(b, i) == b[i + 1]
Part(b, lo, hi) == SubSeq(b, lo + 1, hi)

\* Where a run of such bytes ends that begins at i.
EndOfRun(b, i, Is(_)) == Min({k \in i..Len(b) : k = Len(b) \/ ~Is(At(b, k))} \cup {Len(b)})

\* copy(b[at:], text)
CopiedTo(b, at, text) == [k \in 1..Len(b) |-> IF k - at \in 1..Len(text) THEN text[k - at] ELSE b[k]]

\* The number that digits are.
Value(digits, base) == FoldLeft(LAMBDA n, d : n * base + HexValue(d), 0, digits)
RECURSIVE Decimal(_)
Decimal(n) == IF n < 10 THEN <<48 + n>> ELSE Append(Decimal(n \div 10), 48 + (n % 10))
--------------------------------------------------------------------------------
(* Entities and whitespace *)

\* Mutant: what follows the & is not looked at.
Bug_Substituted(b, i, j, r) ==
    LET by == IF Len(r) = 1 /\ r[1] \in DOMAIN revEntitiesMap THEN revEntitiesMap[r[1]] ELSE r
        n == j + 1 - i
        copied == CopiedTo(b, i, by)
        moved == CopiedTo(copied, i + Len(by), Part(copied, j + 1, Len(b)))
    IN  IF j >= Len(b) \/ At(b, j) # Semicolon \/ n <= 2 THEN <<b, i>>
        ELSE <<Part(moved, 0, Len(b) - n + Len(by)), i + Len(by) - 1>>

\* The end of replaceEntities, where j should be at the semicolon: the bytes and
\* the index that it answers.
Substituted(b, i, j, r) ==
    LET kept == Len(r) = 1 /\ r[1] \in DOMAIN revEntitiesMap
        by == IF kept THEN revEntitiesMap[r[1]] ELSE r
        n == j + 1 - i
        copied == CopiedTo(b, i, by)
        moved == CopiedTo(copied, i + Len(by), Part(copied, j + 1, Len(b)))
    IN  IF j >= Len(b) \/ At(b, j) # Semicolon \/ n <= 2 THEN <<b, i>>
        ELSE IF kept /\ by = Part(b, i, j + 1) THEN <<b, j>>
        ELSE IF /\ ~kept /\ r = <<Amp>> /\ j + 1 < Len(b)
                /\ IsAlphanumeric(At(b, j + 1)) \/ At(b, j + 1) = Hash
             THEN <<b, j + 1>>
        ELSE <<Part(moved, 0, Len(b) - n + Len(by)), i + Len(by) - 1>>

\* replaceEntities at an & that three bytes follow.
ReplaceEntity(b, i) ==
    IF At(b, i + 1) = Hash /\ At(b, i + 2) = 120      \* x
    THEN LET j == EndOfRun(b, i + 3, IsHex)
             c == Value(Part(b, i + 3, j), 16)
         IN  IF j <= i + 3 \/ 10000 <= c THEN <<b, j - 1>>
             ELSE Substituted(b, i, j, IF c < 128 THEN <<c>> ELSE <<Amp, Hash>> \o Append(Decimal(c), Semicolon))
    ELSE IF At(b, i + 1) = Hash
    THEN LET digits == EndOfRun(b, i + 2, IsDigit)
             j == Min({k \in (i + 2)..digits : k = digits \/ Value(Part(b, i + 2, k), 10) >= 128})
             c == Value(Part(b, i + 2, j), 10)
         IN  IF j <= i + 2 \/ 128 <= c THEN <<b, j - 1>> ELSE Substituted(b, i, j, <<c>>)
    ELSE LET j == Min({EndOfRun(b, i + 1, IsAlphanumeric), i + MaxEntityLength + 2})
             name == Part(b, i + 1, j)
         IN  IF Len(b) <= j \/ j = i + 1 \/ At(b, j) # Semicolon THEN <<b, i>>
             ELSE IF name \notin DOMAIN entitiesMap THEN <<b, j>>
             ELSE Substituted(b, i, j, entitiesMap[name])

RECURSIVE ReplaceFrom(_, _)
ReplaceFrom(b, i) ==
    IF i >= Len(b) THEN b
    ELSE IF At(b, i) = Amp /\ i + 3 < Len(b)
    THEN LET r == ReplaceEntity(b, i) IN ReplaceFrom(r[1], r[2] + 1)
    ELSE ReplaceFrom(b, i + 1)

ReplaceEntities(b) == ReplaceFrom(b, 0)

\* The end of the two functions that replace whitespace: j is where to write,
\* and k where the text begins that has not been written.
Finished(b, j, k) ==
    IF j = 0 THEN b
    ELSE IF j = 1 THEN Part([b EXCEPT ![k] = b[1]], k - 1, Len(b))
    ELSE Part(CopiedTo(b, j, Part(b, k, Len(b))), 0, j + Len(b) - k)

\* A run of whitespace at i, as their loops replace it: the new b, i, j and k.
RunReplaced(b, i, j, k) ==
    LET end == EndOfRun(b, i, IsWhitespace)
        by == IF \E p \in i..(end - 1) : IsNewline(At(b, p)) THEN Newline ELSE Space
        set == [b EXCEPT ![i + 1] = by]
    IN  IF end - i <= 1 THEN <<set, end, j, k>>
        ELSE IF j = 0 THEN <<set, end, i + 1, end>>
        ELSE <<CopiedTo(set, j, Part(set, k, i + 1)), end, j + (i + 1 - k), end>>

RECURSIVE CollapseFrom(_, _, _, _)
CollapseFrom(b, i, j, k) ==
    IF i >= Len(b) THEN Finished(b, j, k)
    ELSE LET r == IF IsWhitespace(At(b, i)) THEN RunReplaced(b, i, j, k) ELSE <<b, i, j, k>>
         IN  CollapseFrom(r[1], r[2] + 1, r[3], r[4])

ReplaceMultipleWhitespace(b) == CollapseFrom(b, 0, 0, 0)

EntityAt(b, i) == IF i + 3 < Len(b) /\ At(b, i) = Amp THEN ReplaceEntity(b, i) ELSE <<b, i>>

RECURSIVE CollapseBothFrom(_, _, _, _)
CollapseBothFrom(b, i, j, k) ==
    IF i >= Len(b) THEN Finished(b, j, k)
    ELSE LET r == IF IsWhitespace(At(b, i)) THEN RunReplaced(b, i, j, k) ELSE <<b, i, j, k>>
             e == EntityAt(r[1], r[2])
         IN  CollapseBothFrom(e[1], e[2] + 1, r[3], r[4])

ReplaceMultipleWhitespaceAndEntities(b) == CollapseBothFrom(b, 0, 0, 0)
--------------------------------------------------------------------------------
(* URLs *)

\* The bytes that EncodeURL escapes with URLEncodingTable and with
\* DataURIEncodingTable.
URLEncodingTable ==
    {c \in 0..255 : ~IsAlphanumeric(c)} \ {33, 39, 40, 41, 42, 45, 46, 95, 126}
DataURIEncodingTable ==
    (0..32) \cup {34, 35, 37, 38, 60, 62, 91, 92, 93, 94, 96, 123, 124, 125} \cup (127..255)

HexDigit(n) == IF n < 10 THEN 48 + n ELSE 55 + n

EncodeURL(b, table) ==
    FlattenSeq([k \in 1..Len(b) |->
        IF b[k] \in table THEN <<Percent, HexDigit(b[k] \div 16), HexDigit(b[k] % 16)>> ELSE <<b[k]>>])

\* One turn of DecodeURL: the bytes, and the index that is done.
Decoded(b, i) ==
    IF At(b, i) = Percent /\ i + 2 < Len(b) /\ IsHex(At(b, i + 1)) /\ IsHex(At(b, i + 2))
    THEN <<Part(b, 0, i) \o <<Value(Part(b, i + 1, i + 3), 16)>> \o Part(b, i + 3, Len(b)), i>>
    ELSE <<IF At(b, i) = Plus THEN [b EXCEPT ![i + 1] = Space] ELSE b, i>>

RECURSIVE DecodeFrom(_, _)
DecodeFrom(b, i) ==
    IF i >= Len(b) THEN b
    ELSE LET r == Decoded(b, i) IN DecodeFrom(r[1], r[2] + 1)

DecodeURL(b) == DecodeFrom(b, 0)
--------------------------------------------------------------------------------
(* Media types and data URIs *)

SkipSpaces(b, i) == EndOfRun(b, i, LAMBDA c : c = Space)

\* The parameter after a semicolon, and where it ends.
ParamAt(b, semicolon) ==
    LET key == SkipSpaces(b, semicolon + 1)
        keyEnd == EndOfRun(b, key, LAMBDA c : c \notin {Equals, Semicolon, Space})
        equals == SkipSpaces(b, keyEnd)
        hasValue == equals < Len(b) /\ At(b, equals) = Equals
        value == IF hasValue THEN SkipSpaces(b, equals + 1) ELSE equals
        valueEnd == IF hasValue THEN EndOfRun(b, value, LAMBDA c : c \notin {Semicolon, Space}) ELSE equals
    IN  <<Part(b, key, keyEnd) :> Part(b, value, valueEnd), SkipSpaces(b, valueEnd)>>

RECURSIVE ParamsFrom(_, _, _)
ParamsFrom(b, i, params) ==
    IF i >= Len(b) \/ At(b, i) # Semicolon THEN params
    ELSE LET p == ParamAt(b, i) IN ParamsFrom(b, p[2], p[1] @@ params)

\* The mimetype, and its parameters.
Mediatype(text) ==
    LET b == Part(text, SkipSpaces(text, 0), Len(text))
        end == Min({i \in 3..Len(b) : i = Len(b) \/ At(b, i) \in {Semicolon, Space}} \cup {Len(b)})
    IN  <<Part(b, 0, end), ParamsFrom(b, SkipSpaces(b, end), <<>>)>>

dataSchemeBytes == <<100, 97, 116, 97, 58>>
base64Bytes == <<98, 97, 115, 101, 54, 52>>
textMimeBytes == <<116, 101, 120, 116, 47, 112, 108, 97, 105, 110>>
ErrBadDataURI == <<>>

TrimWhitespace(b) ==
    LET kept == {k \in 0..(Len(b) - 1) : ~IsWhitespace(At(b, k))}
    IN  IF kept = {} THEN <<>> ELSE Part(b, Min(kept), Max(kept) + 1)

\* Mutant: the separator before base64 stays.
Bug_WithoutSeparator(mediatype) == mediatype

WithoutSeparator(mediatype) == IF mediatype = <<>> THEN <<>> ELSE Front(mediatype)

\* The loop of DataURI: i is where the piece at j begins.  Data in base 64 is
\* well-formed here: the error of its decoding is left out.
RECURSIVE DataURIFrom(_, _, _, _, _)
DataURIFrom(b, i, j, mediatype, inBase64) ==
    IF j >= Len(b) THEN ErrBadDataURI
    ELSE IF At(b, j) \notin {Equals, Semicolon, Comma} THEN DataURIFrom(b, i, j + 1, mediatype, inBase64)
    ELSE LET piece == TrimWhitespace(Part(b, i, j))
             isBase64 == At(b, j) # Equals /\ piece = base64Bytes
             m == IF isBase64 THEN WithoutSeparator(mediatype)
                  ELSE IF At(b, j) = Comma THEN mediatype \o piece
                  ELSE Append(mediatype \o piece, At(b, j))
             in == inBase64 \/ isBase64
             data == Part(b, j + 1, Len(b))
         IN  IF At(b, j) # Comma THEN DataURIFrom(b, IF isBase64 THEN j ELSE j + 1, j + 1, m, in)
             ELSE [mediatype |-> IF m = <<>> \/ m[1] = Semicolon THEN textMimeBytes ELSE m,
                   data |-> IF in THEN data ELSE DecodeURL(data), base64 |-> in]

\* The mediatype and the data, which stays encoded when it is in base 64, or
\* ErrBadDataURI.
DataURI(b) ==
    IF Len(b) > 5 /\ Part(b, 0, 5) = dataSchemeBytes
    THEN DataURIFrom(Part(b, 5, Len(b)), 0, 0, <<>>, FALSE)
    ELSE ErrBadDataURI
--------------------------------------------------------------------------------
(* Numbers *)

DigitsEnd(b, i) == EndOfRun(b, i, IsDigit)

\* Mutant: an exponent may have no digits.
Bug_ExponentEnd(b, i) ==
    IF i >= Len(b) \/ At(b, i) \notin {69, 101} THEN i ELSE DigitsEnd(b, i + 1)

ExponentEnd(b, i) ==
    IF i >= Len(b) \/ At(b, i) \notin {69, 101} THEN i
    ELSE LET sign == IF i + 1 < Len(b) /\ At(b, i + 1) \in {Plus, Minus} THEN i + 2 ELSE i + 1
             end == DigitsEnd(b, sign)
         IN  IF end = sign THEN i ELSE end

Number(b) ==
    LET i == IF Len(b) > 0 /\ b[1] \in {Plus, Minus} THEN 1 ELSE 0
        integer == DigitsEnd(b, i)
        hasDot == integer < Len(b) /\ At(b, integer) = Dot
        decimals == DigitsEnd(b, integer + 1)
    IN  IF hasDot /\ decimals > integer + 1 THEN ExponentEnd(b, decimals)
        ELSE IF integer = i THEN 0
        ELSE IF hasDot THEN integer
        ELSE ExponentEnd(b, integer)
--------------------------------------------------------------------------------
(* Properties *)

\* Every run of whitespace as one space, or as one newline when it has one.
Collapsed(b) ==
    LET starts == {k \in 1..Len(b) : IsWhitespace(b[k]) /\ (k = 1 \/ ~IsWhitespace(b[k - 1]))}
        By(k) == IF \E p \in k..EndOfRun(b, k - 1, IsWhitespace) : IsNewline(b[p]) THEN Newline ELSE Space
    IN  FlattenSeq([k \in 1..Len(b) |->
            IF k \in starts THEN <<By(k)>> ELSE IF IsWhitespace(b[k]) THEN <<>> ELSE <<b[k]>>])

\* Whitespace is replaced in place without losing or repeating any of the text
\* (common.go:241-277).
WhitespaceCollapsed(b) == ReplaceMultipleWhitespace(b) = Collapsed(b)

\* Both at once are the same as one after the other (common.go:373-412).
BothReplaced(b) == ReplaceMultipleWhitespaceAndEntities(b) = ReplaceEntities(Collapsed(b))

\* The characters that a text stands for: the length of the reference that it
\* begins with, and what that refers to.
NoReference == <<1, <<>>>>
ReferenceOf(b, names) ==
    LET end == Min({k \in 1..Len(b) : b[k] = Semicolon} \cup {Len(b) + 1})
        body == SubSeq(b, 2, end - 1)
        digits == IF Len(body) >= 2 /\ body[2] = 120 THEN SubSeq(body, 3, Len(body)) ELSE Tail(body)
        hex == Len(body) >= 2 /\ body[2] = 120
    IN  IF end > Len(b) \/ body = <<>> THEN NoReference
        ELSE IF body \in DOMAIN names THEN <<end, <<names[body]>>>>
        ELSE IF body[1] # Hash \/ digits = <<>> THEN NoReference
        ELSE IF \A k \in DOMAIN digits : IF hex THEN IsHex(digits[k]) ELSE IsDigit(digits[k])
        THEN <<end, <<Value(digits, IF hex THEN 16 ELSE 10)>>>>
        ELSE NoReference

RECURSIVE Meaning(_, _)
Meaning(b, names) ==
    IF b = <<>> THEN <<>>
    ELSE LET r == IF b[1] = Amp THEN ReferenceOf(b, names) ELSE NoReference
         IN  (IF r = NoReference THEN <<b[1]>> ELSE r[2]) \o Meaning(SubSeq(b, r[1] + 1, Len(b)), names)

\* A text stands for the same characters when its entities have been replaced
\* (common.go:280-370).
MeaningKept(b, names) == Meaning(ReplaceEntities(b), names) = Meaning(b, names)

\* What EncodeURL has escaped is decoded to what it was (common.go:508-546).
URLReadBack(b) == DecodeURL(EncodeURL(b, URLEncodingTable)) = b

\* A data URI of a mimetype, parameters, base64 between any two of these, and
\* data, is taken apart to what it was made of, whatever spaces are around its
\* pieces (common.go:92-196).
DataURIReadBack(mimetype, params, base64, space, data) ==
    LET piece(p) == space \o p[1] \o space \o <<Equals>> \o space \o p[2] \o space
        pieces == [k \in DOMAIN params |-> piece(params[k])]
        marked == IF base64 = 0 THEN pieces ELSE InsertAt(pieces, base64, space \o base64Bytes \o space)
        uri == dataSchemeBytes \o mimetype \o FlattenSeq([k \in DOMAIN marked |-> <<Semicolon>> \o marked[k]])
               \o <<Comma>> \o (IF base64 = 0 THEN EncodeURL(data, DataURIEncodingTable) ELSE data)
        r == DataURI(uri)
    IN  /\ r # ErrBadDataURI
        /\ r.data = data /\ r.base64 = (base64 # 0)
        /\ Mediatype(r.mediatype) =
              <<IF mimetype = <<>> THEN textMimeBytes ELSE mimetype,
                FoldLeft(LAMBDA f, p : (p[1] :> p[2]) @@ f, <<>>, params)>>

\* Number answers how long the longest number is that the text begins with, by
\* the expression of its comment (common.go:20).
NumberLongest(b) ==
    LET IsDigits(s) == s # <<>> /\ \A k \in DOMAIN s : IsDigit(s[k])
        Unsigned(s) == IF s # <<>> /\ s[1] \in {Plus, Minus} THEN Tail(s) ELSE s
        IsMantissa(s) ==
            \/ IsDigits(s)
            \/ \E d \in DOMAIN s :
                  /\ s[d] = Dot /\ IsDigits(SubSeq(s, d + 1, Len(s)))
                  /\ d > 1 => IsDigits(SubSeq(s, 1, d - 1))
        IsNumber(s) ==
            \/ IsMantissa(Unsigned(s))
            \/ \E e \in DOMAIN s :
                  /\ s[e] \in {69, 101}
                  /\ IsMantissa(Unsigned(SubSeq(s, 1, e - 1)))
                  /\ IsDigits(Unsigned(SubSeq(s, e + 1, Len(s))))
    IN  Number(b) = Max({0} \cup {n \in 1..Len(b) : IsNumber(SubSeq(b, 1, n))})
================================================================================
