-------------------------------- MODULE Strconv --------------------------------
(***************************************************************************)
(* strconv/int.go and strconv/number.go: integers of a fixed width, read   *)
(* from and written to bytes.  A byte is a digit 0..9, or one of the       *)
(* negative numbers below.                                                 *)
(***************************************************************************)
EXTENDS Integers, Sequences, SequencesExt, FiniteSetsExt

CONSTANTS Bits       \* the width of an integer, 64

Minus == -1
Plus == -2
Group == -3          \* the group symbol, or the first of its two bytes
Decimal == -4
GroupRest == -5      \* the second byte of a group symbol
Other == -6
Stale == -7          \* what memory has where nothing is written

Digit == 0..9
Half == 2^(Bits - 1)
Signed == -Half..(Half - 1)

\* An integer as the bits that are kept of it say, signed and unsigned.
Wrap(i) == ((i + Half) % (2^Bits)) - Half
Unsigned(i) == i % (2^Bits)

Failed == <<0, 0>>

\* Mutant: only the product is compared with the limit.
Bug_Overflows(limit, n, digit) == limit \div 10 < n

Overflows(limit, n, digit) == limit \div 10 < n \/ limit - digit < n * 10

\* The loops of ParseInt and ParseUint: from i the number so far is n.
ParseDigits(b, from, limit) ==
    LET loop[i \in Nat, n \in Nat] ==
            IF i > Len(b) \/ b[i] \notin Digit THEN <<n, i - 1>>
            ELSE IF Overflows(limit, n, b[i]) THEN Failed
            ELSE loop[i + 1, n * 10 + b[i]]
    IN  loop[from, 0]

ParseInt(b) ==
    LET signed == Len(b) > 0 /\ b[1] \in {Plus, Minus}
        from == IF signed THEN 2 ELSE 1
        r == ParseDigits(b, from, Half)
    IN  IF r[2] <= from - 1 THEN Failed
        ELSE IF signed /\ b[1] = Minus THEN <<Wrap(-Wrap(r[1])), r[2]>>
        ELSE IF Half - 1 < r[1] THEN Failed
        ELSE r

ParseUint(b) == ParseDigits(b, 1, 2^Bits - 1)

LenUint(i) == Min({k \in 1..Bits : i < 10^k})

Abs(i) == IF i < 0 THEN -i ELSE i

\* The bytes that the loop that divides by ten writes.  The remainders of a
\* negative number are negative, and the bytes they make are no digits.
DigitsOf(num) ==
    LET digit(d) == IF num < 0 /\ d # 0 THEN Other ELSE d
        rest[n \in Nat] == IF n = 0 THEN <<>> ELSE Append(rest[n \div 10], digit(n % 10))
    IN  rest[Abs(num)]

\* "-9223372036854775808" of 64 bits, and its length.
Smallest == <<Minus>> \o DigitsOf(Half)

LenInt(i) ==
    IF i = -Half THEN Len(Smallest)
    ELSE IF i < 0 THEN 1 + LenUint(Unsigned(Wrap(-i)))
    ELSE LenUint(i)

\* n bytes are made, and the text is written from their end backwards.
FromTheEnd(n, written) ==
    IF Len(written) <= n THEN [k \in 1..(n - Len(written)) |-> Stale] \o written
    ELSE SubSeq(written, Len(written) - n + 1, Len(written))

\* An integer that is not 0: its sign, and its digits when it has lost it.
AppendSigned(num) ==
    LET b == FromTheEnd(LenInt(num), DigitsOf(IF num < 0 THEN Wrap(-num) ELSE num))
    IN  IF num < 0 THEN [b EXCEPT ![1] = Minus] ELSE b

\* Mutant: the smallest integer, which has no opposite, is not told apart.
Bug_AppendInt(num) == IF num = 0 THEN <<0>> ELSE AppendSigned(num)

AppendInt(num) ==
    IF num = 0 THEN <<0>> ELSE IF num = -Half THEN Smallest ELSE AppendSigned(num)
--------------------------------------------------------------------------------
(* Numbers with groups and decimals *)

\* Whether the group symbol, of as many bytes, or the decimal symbol is at i.
AtGroup(b, i, groupLen) ==
    /\ groupLen > 0 /\ b[i] = Group
    /\ groupLen = 2 => i < Len(b) /\ b[i + 1] = GroupRest

ParseNumber(b, groupLen) ==
    LET neg == Len(b) > 0 /\ b[1] = Minus
        loop[i \in Nat, num \in Int, dec \in Nat, hasDecimals \in BOOLEAN] ==
            IF i > Len(b) THEN <<num, dec, i - 1>>
            ELSE IF b[i] \in Digit
            THEN IF Overflows(IF neg THEN Half ELSE Half - 1, Abs(num), b[i]) THEN <<num, dec, i - 1>>
                 ELSE loop[i + 1, IF neg THEN num * 10 - b[i] ELSE num * 10 + b[i],
                           IF hasDecimals THEN dec + 1 ELSE dec, hasDecimals]
            ELSE IF ~hasDecimals /\ b[i] = Decimal THEN loop[i + 1, num, dec, TRUE]
            ELSE IF ~hasDecimals /\ AtGroup(b, i, groupLen) THEN loop[i + groupLen, num, dec, FALSE]
            ELSE <<num, dec, i - 1>>
    IN  loop[IF neg THEN 2 ELSE 1, 0, 0, FALSE]

GroupSymbol(groupLen) == IF groupLen = 2 THEN <<Group, GroupRest>> ELSE <<Group>>

\* How many bytes AppendNumber makes.
NumberLen(num, dec, groupSize, groupLen) ==
    LET n == IF num < 0 THEN LenInt(num) - 1 ELSE LenInt(num)
        grouped == n + (IF dec < n /\ groupSize > 0 /\ groupLen > 0
                        THEN (groupLen * (n - dec - 1)) \div groupSize ELSE 0)
        decimals == IF dec = 0 THEN grouped ELSE IF grouped <= dec THEN dec + 2 ELSE grouped + 1
    IN  IF num < 0 THEN decimals + 1 ELSE decimals

\* The integer part, from its last digit on.
Grouped(n, groupSize, groupLen) ==
    LET rest[m \in Nat, j \in Nat] ==
            IF m = 0 THEN <<>>
            ELSE rest[m \div 10, j + 1]
                 \o <<m % 10>>
                 \o (IF groupSize > 0 /\ groupLen > 0 /\ j > 0 /\ j % groupSize = 0
                     THEN GroupSymbol(groupLen) ELSE <<>>)
    IN  IF n = 0 THEN <<0>> ELSE rest[n, 0]

AppendNumber(num, dec, groupSize, groupLen) ==
    LET n == Abs(num)
        fraction == [k \in 1..dec |-> (n \div 10^(dec - k)) % 10]
        text == (IF num < 0 THEN <<Minus>> ELSE <<>>)
                \o Grouped(n \div 10^dec, groupSize, groupLen)
                \o (IF dec > 0 THEN <<Decimal>> \o fraction ELSE <<>>)
    IN  FromTheEnd(NumberLen(num, dec, groupSize, groupLen), text)
--------------------------------------------------------------------------------
(* Properties *)

\* The digits that a sequence begins with, and the number they are.
LeadingDigits(b) ==
    SubSeq(b, 1, Min({k \in 0..Len(b) : k = Len(b) \/ b[k + 1] \notin Digit}))
Value(digits) == FoldLeft(LAMBDA n, d : n * 10 + d, 0, digits)

\* ParseInt and ParseUint answer the number that the text begins with, and how
\* many bytes it has, or nothing when it does not fit (strconv/int.go:7-61).
ParsesIntegers(b) ==
    LET signed == Len(b) > 0 /\ b[1] \in {Plus, Minus}
        digits == LeadingDigits(IF signed THEN Tail(b) ELSE b)
        number == IF signed /\ b[1] = Minus THEN -Value(digits) ELSE Value(digits)
        plain == LeadingDigits(b)
    IN  /\ ParseInt(b) = IF digits = <<>> \/ number \notin Signed THEN Failed
                         ELSE <<number, Len(digits) + (IF signed THEN 1 ELSE 0)>>
        /\ ParseUint(b) = IF Value(plain) < 2^Bits THEN <<Value(plain), Len(plain)>> ELSE Failed

\* Every integer is read back as it is written, the smallest too
\* (strconv/int.go:64-94).
ReadsIntegersBack(num) == ParseInt(AppendInt(num)) = <<num, LenInt(num)>>

\* Every number is read back as it is written, with its decimals and over its
\* whole length, however it is grouped (strconv/number.go:10-128).
ReadsNumbersBack(num, dec, groupSize, groupLen) ==
    LET b == AppendNumber(num, dec, groupSize, groupLen)
    IN  ParseNumber(b, groupLen) = <<num, dec, Len(b)>>
================================================================================
