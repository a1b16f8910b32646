---------------------------- MODULE HTMLLexer_proofs ----------------------------
(***************************************************************************)
(* What html/lex.go answers, of any source: which of its tokens hold a     *)
(* template, and that its raw text and its tags end where the standard     *)
(* ends them.  The standard takes one character at a time and the lexer a  *)
(* name, a value or a template: the loops of the two are compared at the   *)
(* offsets where both come by.                                             *)
(***************************************************************************)
EXTENDS Lexers_proofs
--------------------------------------------------------------------------------
(* Templates in tokens                                                      *)

\* A template begins with the first character of its delimiter.
LEMMA HTMLTemplateBegins ==
    ASSUME TemplatesFit, NEW q \in Nat, AtTemplate(q)
    PROVE  tmpl.open # <<>> /\ At(q) = tmpl.open[1]
<1>1. tmpl.open # <<>> /\ AtAll(q, tmpl.open)
  BY DEF AtTemplate
<1>2. Len(tmpl.open) \in Nat /\ Len(tmpl.open) > 0
  BY <1>1, HTMLTemplates DEF IsWord
<1>3. 1 \in 1..Len(tmpl.open) /\ q + 1 - 1 = q
  BY <1>2
<1>4. At(q + 1 - 1) = tmpl.open[1]
  BY <1>1, <1>3, Zenon DEF AtAll
<1> QED
  BY <1>1, <1>3, <1>4

\* A template can begin neither with a blank nor with an equals sign.
OpensPlainly == tmpl.open = <<>> \/ tmpl.open[1] \notin {" ", "="}

LEMMA HTMLPlainTemplate ==
    ASSUME TemplatesFit, OpensPlainly, NEW q \in Nat, AtTemplate(q)
    PROVE  At(q) \notin {" ", "="}
  BY HTMLTemplateBegins DEF OpensPlainly

\* An attribute has met a template only if one begins in it,
LEMMA HTMLAttributeMeets ==
    ASSUME Fits(src), TemplatesFit, NEW p, Inside(p), AttributeAt(p).hasTmpl
    PROVE  \E q \in p..(AttributeAt(p).end - 1) : AtTemplate(q)
<1> DEFINE nameEnd == HTMLNameEndFrom(p)
           eq == HTMLEq(p)
           value == HTMLValue(p)
           valueEnd == HTMLValueEndFrom(p)
           end == PastTemplates[valueEnd]
           Met == \E q \in p..(end - 1) : AtTemplate(q)
<1>1. /\ AttributeAt(p).end = end
      /\ \/ MeetsTemplate(p, nameEnd)
         \/ AtTemplate(valueEnd)
         \/ At(eq) = "=" /\ (AtTemplate(value) \/ (At(value) \in Quotes /\ MeetsTemplate(value + 1, valueEnd)))
  BY HTMLAttributeFields, Zenon
<1>2. /\ From(p, nameEnd) /\ From(nameEnd, eq) /\ From(nameEnd, valueEnd)
      /\ At(eq) = "=" => /\ From(eq + 1, value) /\ From(value, valueEnd)
                         /\ AtTemplate(value) => value < valueEnd
  BY HTMLAttributeParts, Zenon
<1>3. Inside(valueEnd)
  BY <1>2 DEF From
<1>4. From(valueEnd, end) /\ (AtTemplate(valueEnd) => valueEnd < end)
  BY <1>3, HTMLPastTemplates
<1> HIDE DEF nameEnd, eq, value, valueEnd, end
<1>5. /\ p \in Nat /\ nameEnd \in Nat /\ valueEnd \in Nat /\ end \in Nat
      /\ p <= nameEnd /\ nameEnd <= valueEnd /\ valueEnd <= end
  BY <1>2, <1>4 DEF From, Inside
<1>6. CASE MeetsTemplate(p, nameEnd)
  <2>1. PICK q \in p..(nameEnd - 1) : AtTemplate(q)
    BY <1>6 DEF MeetsTemplate
  <2>2. q \in p..(end - 1)
    BY <1>5
  <2> QED
    BY <1>1, <2>1, <2>2
<1>7. CASE AtTemplate(valueEnd)
  <2>1. valueEnd \in p..(end - 1)
    BY <1>4, <1>5, <1>7
  <2> QED
    BY <1>1, <1>7, <2>1
<1>8. CASE At(eq) = "=" /\ (AtTemplate(value) \/ (At(value) \in Quotes /\ MeetsTemplate(value + 1, valueEnd)))
  <2>1. eq \in Nat /\ nameEnd <= eq /\ value \in Nat /\ eq + 1 <= value /\ value <= valueEnd
    BY <1>2, <1>8 DEF From, Inside
  <2>2. CASE AtTemplate(value)
    <3>1. value < valueEnd
      BY <1>2, <1>8, <2>2
    <3>2. value \in p..(end - 1)
      BY <1>5, <2>1, <3>1
    <3> QED
      BY <1>1, <2>2, <3>2
  <2>3. CASE MeetsTemplate(value + 1, valueEnd)
    <3>1. PICK q \in (value + 1)..(valueEnd - 1) : AtTemplate(q)
      BY <2>3 DEF MeetsTemplate
    <3>2. q \in p..(end - 1)
      BY <1>5, <2>1
    <3> QED
      BY <1>1, <3>1, <3>2
  <2> QED
    BY <1>8, <2>2, <2>3
<1> QED
  BY <1>1, <1>6, <1>7, <1>8

\* and has met every template that begins in it, unless its value is not quoted.
LEMMA HTMLAttributeHasMet ==
    ASSUME Fits(src), TemplatesFit, OpensPlainly, NEW p, Inside(p), Quoted(AttributeAt(p).value),
           NEW q \in p..(AttributeAt(p).end - 1), AtTemplate(q)
    PROVE  AttributeAt(p).hasTmpl
<1> DEFINE nameEnd == HTMLNameEndFrom(p)
           eq == HTMLEq(p)
           value == HTMLValue(p)
           valueEnd == HTMLValueEndFrom(p)
           end == PastTemplates[valueEnd]
           met == \/ MeetsTemplate(p, nameEnd)
                  \/ AtTemplate(valueEnd)
                  \/ At(eq) = "=" /\ (AtTemplate(value)
                        \/ (At(value) \in Quotes /\ MeetsTemplate(value + 1, valueEnd)))
           v == IF At(eq) = "=" THEN <<value, valueEnd>> ELSE <<>>
<1>1. AttributeAt(p).end = end /\ AttributeAt(p).hasTmpl = met /\ AttributeAt(p).value = v
  BY HTMLAttributeFields, Zenon
<1>2. /\ From(p, nameEnd) /\ ~AtTemplate(nameEnd)
      /\ From(nameEnd, eq) /\ BlanksBetween(nameEnd, eq)
      /\ At(eq) = "=" => /\ From(eq + 1, value) /\ BlanksBetween(eq + 1, value)
                         /\ From(value, valueEnd)
      /\ From(nameEnd, valueEnd)
  BY HTMLAttributeParts, Zenon
<1>3. Inside(valueEnd)
  BY <1>2 DEF From
<1>4. From(valueEnd, end) /\ (~AtTemplate(valueEnd) => end = valueEnd)
  BY <1>3, HTMLPastTemplates
<1>5. At(eq) # "=" => valueEnd = nameEnd
  BY DEF HTMLValueEndFrom
<1>6. At(eq) = "=" => value = valueEnd \/ At(value) \in Quotes
  <2> HIDE DEF eq, value, valueEnd, nameEnd, end, met
  <2> SUFFICES ASSUME At(eq) = "=" PROVE value = valueEnd \/ At(value) \in Quotes
    OBVIOUS
  <2>1. v = <<value, valueEnd>> /\ Quoted(v)
    BY <1>1
  <2> HIDE DEF v
  <2>2. v # <<>> /\ v[1] = value /\ v[2] = valueEnd
    BY <2>1
  <2> QED
    BY <2>1, <2>2 DEF Quoted
<1>7. q \in p..(end - 1)
  BY <1>1
<1> HIDE DEF nameEnd, eq, value, valueEnd, end, v
<1>8. /\ p \in Nat /\ nameEnd \in Nat /\ valueEnd \in Nat /\ end \in Nat /\ eq \in Nat
      /\ p <= nameEnd /\ nameEnd <= valueEnd /\ valueEnd <= end /\ nameEnd <= eq
  BY <1>2, <1>4 DEF From, Inside
<1>9. q \in Nat /\ p <= q /\ q < end
  BY <1>7, <1>8
<1>10. At(q) \notin {" ", "="}
  BY <1>9, HTMLPlainTemplate
<1> SUFFICES met
  BY <1>1
<1>11. CASE q < nameEnd
  <2>1. q \in p..(nameEnd - 1)
    BY <1>8, <1>9, <1>11
  <2> QED
    BY <2>1 DEF MeetsTemplate
<1>12. CASE q >= valueEnd
  <2>1. end # valueEnd
    BY <1>8, <1>9, <1>12
  <2> QED
    BY <1>4, <2>1
<1>13. CASE nameEnd <= q /\ q < valueEnd
  <2>1. At(eq) = "="
    BY <1>5, <1>8, <1>13
  <2>2. value \in Nat /\ eq + 1 <= value /\ value <= valueEnd /\ BlanksBetween(eq + 1, value)
    BY <1>2, <2>1 DEF From, Inside
  <2>3. ~(q < eq)
    <3>1. q < eq => q \in nameEnd..(eq - 1)
      BY <1>8, <1>9, <1>13
    <3> QED
      BY <1>2, <1>10, <3>1 DEF BlanksBetween
  <2>4. q # eq
    BY <1>10, <2>1
  <2>5. ~(q < value)
    <3>1. q < value => q \in (eq + 1)..(value - 1)
      BY <1>8, <1>9, <2>2, <2>3, <2>4
    <3> QED
      BY <1>10, <2>2, <3>1 DEF BlanksBetween
  <2>6. At(value) \in Quotes
    BY <1>6, <1>8, <1>13, <2>1, <2>2, <2>5, <1>9
  <2>7. CASE q = value
    BY <2>1, <2>7
  <2>8. CASE q # value
    <3>1. q \in (value + 1)..(valueEnd - 1)
      BY <1>8, <1>9, <1>13, <2>2, <2>5, <2>8
    <3>2. MeetsTemplate(value + 1, valueEnd)
      BY <3>1 DEF MeetsTemplate
    <3> QED
      BY <2>1, <2>6, <3>2
  <2> QED
    BY <2>7, <2>8
<1> QED
  BY <1>8, <1>9, <1>11, <1>12, <1>13

\* Raw text has met a template only if one begins in it.
LEMMA HTMLRawMeets ==
    ASSUME Fits(src), TemplatesFit, NEW p0, Inside(p0), RawEnd[<<p0, "text", FALSE>>].hasTmpl
    PROVE  \E q \in p0..(RawEnd[<<p0, "text", FALSE>>].end - 1) : AtTemplate(q)
<1> DEFINE Met(p) == \E q \in p0..(p - 1) : AtTemplate(q)
           inv == {d \in Nat \X HTMLModes \X BOOLEAN : p0 <= d[1] /\ (d[3] => Met(d[1]))}
           d0 == <<p0, "text", FALSE>>
<1>1. d0 \in inv
  <2>1. d0[1] = p0 /\ d0[3] = FALSE
    OBVIOUS
  <2>2. p0 \in Nat /\ p0 <= p0 /\ "text" \in HTMLModes
    BY DEF Inside, HTMLModes
  <2>3. d0 \in Nat \X HTMLModes \X BOOLEAN
    BY <2>2
  <2> HIDE DEF d0, Met
  <2> QED
    BY <2>1, <2>2, <2>3
<1>2. ASSUME NEW d, d \in inv /\ d[1] \in Nat /\ d[2] \in HTMLModes /\ d[3] \in BOOLEAN /\ ~HTMLRawStop(d)
      PROVE  HTMLRawNext(d) \in inv
  <2>1. PICK a, b, c : /\ HTMLRawNext(d) = <<a, b, c>> /\ b \in HTMLModes /\ c \in BOOLEAN
                       /\ From(d[1], a) /\ d[1] < a
    BY <1>2, HTMLRawAdvances, Zenon
  <2>2. a \in Nat /\ d[1] \in Nat /\ p0 \in Nat /\ p0 <= d[1] /\ (d[3] => Met(d[1]))
    BY <1>2, <2>1 DEF From, Inside
  <2>3. HTMLRawNext(d)[3] = d[3] \/ AtTemplate(d[1])
    <3> DEFINE q == Past(HTMLRawName(d[1]), Letters)
               m == IF ~HTMLIsRaw(d[1]) THEN d[2] ELSE IF At(d[1] + 1) = "/" THEN "comment" ELSE "inScript"
    <3>1. HTMLRawNext(d) \in {<<q, d[2], d[3]>>, <<d[1] + 4, "comment", d[3]>>, <<d[1] + 1, d[2], d[3]>>,
                              <<d[1] + 3, "text", d[3]>>, <<q, m, d[3]>>}
            \/ AtTemplate(d[1])
      BY Zenon DEF HTMLRawNext
    <3> HIDE DEF q, m
    <3> QED
      BY <3>1
  <2>4. c => Met(a)
    <3>1. CASE AtTemplate(d[1])
      <4>1. d[1] \in p0..(a - 1)
        BY <2>1, <2>2
      <4> QED
        BY <3>1, <4>1
    <3>2. CASE HTMLRawNext(d)[3] = d[3]
      <4>1. c = d[3]
        BY <2>1, <3>2
      <4>2. \A q \in p0..(d[1] - 1) : q \in p0..(a - 1)
        BY <2>1, <2>2
      <4> QED
        BY <2>2, <4>1, <4>2
    <3> QED
      BY <2>3, <3>1, <3>2
  <2>5. p0 <= a
    BY <2>1, <2>2
  <2> HIDE DEF Met
  <2> QED
    BY <2>1, <2>2, <2>4, <2>5
<1> HIDE DEF Met, inv
<1>3. PICK e : e \in inv /\ e[3] \in BOOLEAN /\ RawEnd[d0] = [end |-> e[1], hasTmpl |-> e[3]]
  BY <1>1, <1>2, HTMLRawLoop, Zenon
<1>4. e[3] => Met(e[1])
  BY <1>3 DEF inv
<1> DEFINE r == RawEnd[d0]
<1>5. r = [end |-> e[1], hasTmpl |-> e[3]]
  BY <1>3
<1> HIDE DEF r
<1>6. r.end = e[1] /\ r.hasTmpl = e[3]
  BY <1>5
<1> QED
  BY <1>4, <1>6 DEF Met, r

\* A search for an end tag steps over "<", "/" and letters only.
LEMMA HTMLStepsOver ==
    ASSUME Fits(src), NEW p, Inside(p), At(p) = "<",
           NEW r \in p..(Past(HTMLRawName(p), Letters) - 1)
    PROVE  At(r) \in Letters \cup {"<", "/"}
<1> DEFINE k == HTMLRawName(p)
           e == Past(k, Letters)
<1>1. p \in Nat /\ Inside(p + 1)
  <2>1. p \in Nat
    BY DEF Inside
  <2>2. At(p) \notin {"nul", "panic"}
    OBVIOUS
  <2> QED
    BY <2>1, <2>2, HTMLChar
<1>2. CASE At(p + 1) = "/"
  <2>1. k = p + 2 /\ Inside(p + 2)
    <3>1. p + 1 \in Nat /\ p + 1 + 1 = p + 2 /\ At(p + 1) \notin {"nul", "panic"}
      BY <1>1, <1>2
    <3>2. Inside(p + 1 + 1)
      BY <3>1, HTMLChar
    <3> QED
      BY <1>2, <3>1, <3>2 DEF HTMLRawName
  <2>2. e \in Nat /\ \A s \in k..(e - 1) : At(s) \in Letters
    <3>1. k \in Nat /\ k <= Len(src) /\ NUL \notin Letters
      BY <2>1, HTMLOfChars DEF Inside, OfChars, NUL
    <3> QED
      BY <3>1, HTMLPast
  <2> HIDE DEF k, e
  <2>3. r \in p..(e - 1)
    BY DEF e, k
  <2>4. r = p \/ r = p + 1 \/ r \in k..(e - 1)
    BY <1>1, <2>1, <2>2, <2>3
  <2> QED
    BY <1>2, <2>2, <2>4
<1>3. CASE At(p + 1) # "/"
  <2>1. k = p + 1
    BY <1>3 DEF HTMLRawName
  <2>2. e \in Nat /\ \A s \in k..(e - 1) : At(s) \in Letters
    <3>1. k \in Nat /\ k <= Len(src) /\ NUL \notin Letters
      BY <1>1, <2>1, HTMLOfChars DEF Inside, OfChars, NUL
    <3> QED
      BY <3>1, HTMLPast
  <2> HIDE DEF k, e
  <2>3. r \in p..(e - 1)
    BY DEF e, k
  <2>4. r = p \/ r \in k..(e - 1)
    BY <1>1, <2>1, <2>2, <2>3
  <2> QED
    BY <2>2, <2>4
<1> QED
  BY <1>2, <1>3

\* A template that begins where raw text is searched.
HTMLSeen(p0, r) == AtTemplate(r) /\ Searched(rawTag, p0, r)

\* A comment has opened in the script.
HTMLCommented(p0, p) ==
    rawTag = "script" /\ \E c \in p0..(p - 1) : AtAll(c, <<"<", "!", "-", "-">>)

\* One turn notes what it could see.
LEMMA HTMLRawSees ==
    ASSUME Fits(src), TemplatesFit, NEW p0 \in Nat,
           NEW d, d[1] \in Nat, p0 <= d[1], d[2] \in HTMLModes, d[3] \in BOOLEAN, ~HTMLRawStop(d),
           d[2] = "text" \/ HTMLCommented(p0, d[1]),
           NEW a, NEW b, NEW c, HTMLRawNext(d) = <<a, b, c>>, a \in Nat, d[1] < a
    PROVE  /\ b = "text" \/ HTMLCommented(p0, a)
           /\ c = TRUE \/ (c = d[3] /\ \A r \in d[1]..(a - 1) : ~HTMLSeen(p0, r))
<1> DEFINE p == d[1]
           m == d[2]
           q == Past(HTMLRawName(p), Letters)
           t == PastTemplate(p)
           opens == <<"<", "!", "-", "-">>
           inner == IF ~HTMLIsRaw(p) THEN m ELSE IF At(p + 1) = "/" THEN "comment" ELSE "inScript"
<1>1. HTMLRawNext(d) =
         IF m = "text"
         THEN IF At(p) = "<" /\ At(p + 1) = "/" THEN <<q, m, d[3]>>
              ELSE IF rawTag = "script" /\ AtAll(p, opens) THEN <<p + 4, "comment", d[3]>>
              ELSE IF At(p) # "<" /\ AtTemplate(p) THEN <<t, m, TRUE>>
              ELSE <<p + 1, m, d[3]>>
         ELSE IF AtAll(p, <<"-", "-", ">">>) THEN <<p + 3, "text", d[3]>>
         ELSE IF At(p) # "<" THEN <<p + 1, m, d[3]>>
         ELSE <<q, inner, d[3]>>
  BY Zenon DEF HTMLRawNext
<1>2. p \in Nat /\ p0 <= p /\ p < a /\ a \in Nat /\ p0 \in Nat
  OBVIOUS
<1>3. Inside(p)
  BY <1>2, HTMLOver DEF HTMLRawStop
<1>4. \A r \in p..(q - 1) : At(p) = "<" => At(r) \in Letters \cup {"<", "/"}
  BY <1>3, HTMLStepsOver
<1>5. \A r : HTMLSeen(p0, r) => At(r) \notin Letters \cup {"<", "/"}
  BY DEF HTMLSeen, Searched
<1>6. m = "text" \/ HTMLCommented(p0, p)
  OBVIOUS
<1> HIDE DEF p, m, q, t, inner
<1>7. HTMLCommented(p0, p) => HTMLCommented(p0, a) /\ \A r \in p..(a - 1) : ~HTMLSeen(p0, r)
  <2> SUFFICES ASSUME HTMLCommented(p0, p)
               PROVE  HTMLCommented(p0, a) /\ \A r \in p..(a - 1) : ~HTMLSeen(p0, r)
    OBVIOUS
  <2>1. PICK k \in p0..(p - 1) : rawTag = "script" /\ AtAll(k, opens)
    BY DEF HTMLCommented
  <2>2. k \in p0..(a - 1) /\ \A r \in p..(a - 1) : k \in p0..r
    BY <1>2
  <2> QED
    BY <2>1, <2>2, Zenon DEF HTMLCommented, HTMLSeen, Searched
<1>8. CASE m = "text" /\ At(p) = "<" /\ At(p + 1) = "/"
  <2>1. HTMLRawNext(d) = <<q, m, d[3]>>
    BY <1>1, <1>8, Zenon
  <2>2. a = q /\ b = m /\ c = d[3]
    BY <2>1
  <2> QED
    BY <1>4, <1>5, <1>8, <2>2 DEF p
<1>9. CASE m = "text" /\ ~(At(p) = "<" /\ At(p + 1) = "/") /\ rawTag = "script" /\ AtAll(p, opens)
  <2>1. HTMLRawNext(d) = <<p + 4, "comment", d[3]>>
    BY <1>1, <1>9, Zenon
  <2>2. a = p + 4 /\ b = "comment" /\ c = d[3]
    BY <2>1
  <2>3. p \in p0..(a - 1) /\ \A r \in p..(a - 1) : p \in p0..r
    BY <1>2
  <2>4. HTMLCommented(p0, a)
    BY <1>9, <2>3, Zenon DEF HTMLCommented
  <2>5. \A r \in p..(a - 1) : ~HTMLSeen(p0, r)
    BY <1>9, <2>3, Zenon DEF HTMLSeen, Searched
  <2> QED
    BY <2>2, <2>4, <2>5 DEF p
<1>10. CASE /\ m = "text" /\ ~(At(p) = "<" /\ At(p + 1) = "/") /\ ~(rawTag = "script" /\ AtAll(p, opens))
            /\ At(p) # "<" /\ AtTemplate(p)
  <2>1. HTMLRawNext(d) = <<t, m, TRUE>>
    BY <1>1, <1>10, Zenon
  <2>2. <<a, b, c>> = <<t, m, TRUE>>
    BY <2>1, Zenon
  <2>3. b = m
    BY <2>2
  <2>4. c = TRUE
    BY <2>2
  <2> QED
    BY <1>10, <2>3, <2>4, Zenon
<1>11. CASE /\ m = "text" /\ ~(At(p) = "<" /\ At(p + 1) = "/") /\ ~(rawTag = "script" /\ AtAll(p, opens))
            /\ ~(At(p) # "<" /\ AtTemplate(p))
  <2>1. HTMLRawNext(d) = <<p + 1, m, d[3]>>
    BY <1>1, <1>11, Zenon
  <2>2. a = p + 1 /\ b = m /\ c = d[3]
    BY <2>1
  <2>3. ~HTMLSeen(p0, p)
    BY <1>11, <1>5 DEF HTMLSeen
  <2>4. \A r \in p..(a - 1) : r = p
    BY <1>2, <2>2
  <2> QED
    BY <1>11, <2>2, <2>3, <2>4 DEF p
<1>12. CASE m # "text"
  <2>1. HTMLRawNext(d) \in {<<p + 3, "text", d[3]>>, <<p + 1, m, d[3]>>, <<q, inner, d[3]>>}
    BY <1>1, <1>12, Zenon
  <2>2. c = d[3]
    BY <2>1
  <2> QED
    BY <1>6, <1>7, <1>12, <2>2 DEF p
<1> QED
  BY <1>8, <1>9, <1>10, <1>11, <1>12, Zenon

\* Raw text has met a template if one begins in it where it is searched.
LEMMA HTMLRawNotes ==
    ASSUME Fits(src), TemplatesFit, NEW p0, Inside(p0),
           NEW q \in p0..(RawEnd[<<p0, "text", FALSE>>].end - 1), AtTemplate(q), Searched(rawTag, p0, q)
    PROVE  RawEnd[<<p0, "text", FALSE>>].hasTmpl
<1> DEFINE Passed(p) == \A r \in p0..(p - 1) : ~HTMLSeen(p0, r)
           inv == {d \in Nat \X HTMLModes \X BOOLEAN :
                     /\ p0 <= d[1] /\ (d[3] \/ Passed(d[1]))
                     /\ d[2] = "text" \/ HTMLCommented(p0, d[1])}
           d0 == <<p0, "text", FALSE>>
<1>0. p0 \in Nat
  BY DEF Inside
<1>1. d0 \in inv
  <2>1. d0[1] = p0 /\ d0[2] = "text" /\ d0[3] = FALSE
    OBVIOUS
  <2>2. p0 <= p0 /\ "text" \in HTMLModes /\ p0..(p0 - 1) = {}
    BY <1>0 DEF HTMLModes
  <2>3. d0 \in Nat \X HTMLModes \X BOOLEAN
    BY <1>0, <2>2
  <2>4. Passed(p0)
    BY <2>2
  <2> HIDE DEF d0, Passed
  <2> QED
    BY <2>1, <2>2, <2>3, <2>4
<1>2. ASSUME NEW d, d \in inv /\ d[1] \in Nat /\ d[2] \in HTMLModes /\ d[3] \in BOOLEAN /\ ~HTMLRawStop(d)
      PROVE  HTMLRawNext(d) \in inv
  <2>1. PICK a, b, c : /\ HTMLRawNext(d) = <<a, b, c>> /\ b \in HTMLModes /\ c \in BOOLEAN
                       /\ From(d[1], a) /\ d[1] < a
    BY <1>2, HTMLRawAdvances, Zenon
  <2>2. /\ a \in Nat /\ d[1] \in Nat /\ p0 <= d[1]
        /\ d[3] \/ Passed(d[1])
        /\ d[2] = "text" \/ HTMLCommented(p0, d[1])
    BY <1>2, <2>1 DEF From, Inside
  <2>3. /\ b = "text" \/ HTMLCommented(p0, a)
        /\ c = TRUE \/ (c = d[3] /\ \A r \in d[1]..(a - 1) : ~HTMLSeen(p0, r))
    BY <1>0, <1>2, <2>1, <2>2, HTMLRawSees, Zenon
  <2>4. c \/ Passed(a)
    <3> SUFFICES ASSUME Passed(d[1]), \A r \in d[1]..(a - 1) : ~HTMLSeen(p0, r) PROVE Passed(a)
      BY <2>2, <2>3
    <3>1. \A r \in p0..(a - 1) : r \in p0..(d[1] - 1) \/ r \in d[1]..(a - 1)
      BY <1>0, <2>2
    <3> QED
      BY <3>1
  <2>5. p0 <= a
    BY <1>0, <2>1, <2>2
  <2> HIDE DEF Passed
  <2> QED
    BY <2>1, <2>2, <2>3, <2>4, <2>5
<1> HIDE DEF Passed, inv
<1>3. PICK e : e \in inv /\ e[3] \in BOOLEAN /\ RawEnd[d0] = [end |-> e[1], hasTmpl |-> e[3]]
  BY <1>1, <1>2, HTMLRawLoop, Zenon
<1>4. e[3] \/ Passed(e[1])
  BY <1>3 DEF inv
<1> DEFINE r == RawEnd[d0]
<1>5. r = [end |-> e[1], hasTmpl |-> e[3]]
  BY <1>3
<1>6. q \in p0..(r.end - 1)
  OBVIOUS
<1> HIDE DEF r
<1>7. r.end = e[1] /\ r.hasTmpl = e[3]
  BY <1>5
<1>8. ~Passed(e[1])
  BY <1>6, <1>7 DEF Passed, HTMLSeen
<1> QED
  BY <1>4, <1>7, <1>8 DEF r

\* What HasTemplate says of one token.
SaysTemplate(t) ==
    (t # NoToken /\ "hasTmpl" \in DOMAIN t.data) =>
        LET begins == {q \in t.lo..(t.hi - 1) : AtTemplate(q)}
        IN  /\ t.data.hasTmpl => begins # {}
            /\ (begins # {} /\ t.type = "Attribute" /\ Quoted(t.data.value)) => t.data.hasTmpl
            /\ ("raw" \in DOMAIN t.data /\ t.data.raw # "plaintext"
                  /\ \E q \in begins : Searched(t.data.raw, t.lo, q)) => t.data.hasTmpl

LEMMA HTMLSays ==
    ASSUME src' = src, tmpl' = tmpl
    PROVE  HasTemplate' <=> SaysTemplate(tok')
<1>1. \A p : AtTemplate(p)' = AtTemplate(p)
  BY DEF AtTemplate, AtAll, At
<1>2. \A value : Quoted(value)' = Quoted(value)
  BY DEF Quoted, At
<1>3. \A name, lo, q : Searched(name, lo, q)' = Searched(name, lo, q)
  BY DEF Searched, AtAll, At
<1> QED
  BY <1>1, <1>2, <1>3, Zenon DEF HasTemplate, SaysTemplate

\* Tokens that say nothing of templates.
LEMMA HTMLSaysNothing ==
    ASSUME NEW type, NEW lo, NEW hi, NEW data, "hasTmpl" \notin DOMAIN data,
           Answers(type, lo, hi, data)
    PROVE  SaysTemplate(tok')
<1>1. tok' = [type |-> type, lo |-> lo, hi |-> hi, data |-> data]
  BY DEF Answers
<1> DEFINE t == tok'
<1>2. t = [type |-> type, lo |-> lo, hi |-> hi, data |-> data]
  BY <1>1
<1> HIDE DEF t
<1>3. t.data = data
  BY <1>2
<1>4. SaysTemplate(t)
  BY <1>3 DEF SaysTemplate
<1> QED
  BY <1>4 DEF t

LEMMA HTMLSaysAttribute ==
    ASSUME Calling, TemplatesFit, OpensPlainly, Attribute
    PROVE  SaysTemplate(tok')
<1> DEFINE rest == TagRest
           a == AttributeAt(rest)
           data == [value |-> a.value, hasTmpl |-> a.hasTmpl]
           t == tok'
<1>1. Answers("Attribute", pos, a.end, data)
  BY Zenon DEF Attribute
<1>2. t = [type |-> "Attribute", lo |-> pos, hi |-> a.end, data |-> data]
  BY <1>1 DEF Answers
<1>3. data = [value |-> a.value, hasTmpl |-> a.hasTmpl]
  OBVIOUS
<1>4. Fits(src) /\ Inside(pos) /\ From(pos, rest) /\ BlanksBetween(pos, rest) /\ At(rest) \notin WS
  BY HTMLInside, HTMLTagRest
<1>5. Inside(rest)
  BY <1>4 DEF From
<1>6. a.hasTmpl => \E q \in rest..(a.end - 1) : AtTemplate(q)
  BY <1>4, <1>5, HTMLAttributeMeets
<1>7. \A q \in rest..(a.end - 1) : AtTemplate(q) /\ Quoted(a.value) => a.hasTmpl
  BY <1>4, <1>5, HTMLAttributeHasMet
<1>8. From(rest, a.end)
  <2>1. ~Ended(rest) /\ ~TagIsClosing(rest)
    BY DEF Attribute
  <2> QED
    BY <1>4, <1>5, <2>1, HTMLAttributeEnd
<1> HIDE DEF rest, a
<1>9. rest \in Nat /\ pos \in Nat /\ a.end \in Nat /\ pos <= rest /\ rest <= a.end
  BY <1>4, <1>8 DEF From, Inside
<1> HIDE DEF data, t
<1>10. t.type = "Attribute" /\ t.lo = pos /\ t.hi = a.end /\ t.data = data
  BY <1>2
<1>11. data.value = a.value /\ data.hasTmpl = a.hasTmpl
  BY <1>3
<1>12. a.hasTmpl => \E q \in pos..(a.end - 1) : AtTemplate(q)
  <2>1. \A q \in rest..(a.end - 1) : q \in pos..(a.end - 1)
    BY <1>9
  <2> QED
    BY <1>6, <2>1
<1>13. \A q \in pos..(a.end - 1) : AtTemplate(q) /\ Quoted(a.value) => a.hasTmpl
  <2> SUFFICES ASSUME NEW q \in pos..(a.end - 1), AtTemplate(q), Quoted(a.value) PROVE a.hasTmpl
    OBVIOUS
  <2>0. q \in Nat
    BY <1>9
  <2>1. At(q) \notin {" ", "="}
    BY <2>0, HTMLPlainTemplate, Zenon
  <2>2. q \notin pos..(rest - 1)
    BY <1>4, <2>1 DEF BlanksBetween
  <2>3. q \in rest..(a.end - 1)
    BY <1>9, <2>2
  <2> QED
    BY <1>7, <2>3
<1>14. SaysTemplate(t)
  <2>1. "raw" \notin DOMAIN data
    BY <1>3
  <2> QED
    BY <1>10, <1>11, <1>12, <1>13, <2>1, Zenon DEF SaysTemplate
<1> QED
  BY <1>14 DEF t

LEMMA HTMLSaysRawText ==
    ASSUME Calling, TemplatesFit, RawText
    PROVE  SaysTemplate(tok')
<1> DEFINE r == ShiftRawText
           data == [raw |-> rawTag, hasTmpl |-> r.hasTmpl]
           t == tok'
<1>1. Answers("Text", pos, r.end, data)
  BY Zenon DEF RawText
<1>2. t = [type |-> "Text", lo |-> pos, hi |-> r.end, data |-> data]
  BY <1>1 DEF Answers
<1>3. data = [raw |-> rawTag, hasTmpl |-> r.hasTmpl]
  OBVIOUS
<1>4. Fits(src) /\ Inside(pos)
  BY HTMLInside
<1>5. r.hasTmpl => \E q \in pos..(r.end - 1) : AtTemplate(q)
  <2>1. CASE rawTag = "plaintext"
    BY <2>1 DEF ShiftRawText
  <2>2. CASE rawTag # "plaintext"
    <3>1. r = RawEnd[<<pos, "text", FALSE>>]
      BY <2>2, Zenon DEF ShiftRawText
    <3> HIDE DEF r
    <3> QED
      BY <1>4, <3>1, HTMLRawMeets
  <2> QED
    BY <2>1, <2>2
<1>10. \A q \in pos..(r.end - 1) :
           AtTemplate(q) /\ Searched(rawTag, pos, q) /\ rawTag # "plaintext" => r.hasTmpl
  <2> SUFFICES ASSUME NEW q \in pos..(r.end - 1), AtTemplate(q), Searched(rawTag, pos, q),
                      rawTag # "plaintext"
               PROVE  r.hasTmpl
    OBVIOUS
  <2>1. r = RawEnd[<<pos, "text", FALSE>>]
    BY Zenon DEF ShiftRawText
  <2> HIDE DEF r
  <2> QED
    BY <1>4, <2>1, HTMLRawNotes
<1> HIDE DEF r, data, t
<1>6. t.type = "Text" /\ t.lo = pos /\ t.hi = r.end /\ t.data = data
  BY <1>2
<1>7. data.hasTmpl = r.hasTmpl /\ data.raw = rawTag
  BY <1>3
<1>8. t.type # "Attribute"
  BY <1>6
<1>9. SaysTemplate(t)
  BY <1>5, <1>6, <1>7, <1>8, <1>10, Zenon DEF SaysTemplate
<1> QED
  BY <1>9 DEF t

\* Every call answers right.
LEMMA HTMLSaysStep ==
    ASSUME Calling, TemplatesFit, OpensPlainly, NextToken
    PROVE  SaysTemplate(tok')
<1>1. CASE Attribute
  BY <1>1, HTMLSaysAttribute
<1>2. CASE RawText
  BY <1>2, HTMLSaysRawText
<1>3. CASE InTagError \/ ContentError
  BY <1>3 DEF InTagError, ContentError, Fails, SaysTemplate
<1>4. \A name : "hasTmpl" \notin DOMAIN <<>> /\ "hasTmpl" \notin DOMAIN [name |-> name]
  OBVIOUS
<1>5. CASE TagClose
  BY <1>4, <1>5, HTMLSaysNothing, Zenon DEF TagClose
<1>6. CASE PlainText \/ Template
  BY <1>4, <1>6, HTMLSaysNothing, Zenon DEF PlainText, Template
<1>7. CASE EndTag \/ BogusComment \/ Comment
  BY <1>4, <1>7, HTMLSaysNothing, Zenon DEF EndTag, BogusComment, Comment
<1>8. CASE CDATA \/ Doctype
  BY <1>4, <1>8, HTMLSaysNothing, Zenon DEF CDATA, Doctype
<1>9. CASE StartTag
  BY <1>4, <1>9, HTMLSaysNothing, Zenon DEF StartTag
<1>10. CASE Foreign
  <2>1. CASE Fails(ForeignRest)
    BY <2>1 DEF Fails, SaysTemplate
  <2>2. CASE ~Fails(ForeignRest)
    <3> DEFINE hi == IF At(ForeignRest) = ">" THEN ForeignRest + 1 ELSE ForeignRest
    <3>1. Answers("Foreign", pos, hi, [name |-> TagName])
      BY <1>10, <2>2, Zenon DEF Foreign
    <3> QED
      BY <1>4, <3>1, HTMLSaysNothing, Zenon
  <2> QED
    BY <2>1, <2>2
<1> QED
  BY <1>1, <1>2, <1>3, <1>5, <1>6, <1>7, <1>8, <1>9, <1>10 DEF NextToken

LEMMA HasTemplateStep ==
    ASSUME LexersInv, OpensPlainly, HTMLHasTemplate, [LexersNext]_lexersVars
    PROVE  OpensPlainly' /\ HTMLHasTemplate'
<1>1. CASE Calls
  <2>1. lang' = lang
    BY <1>1 DEF Calls, HTML, XML, CSS, JS, Only
  <2>2. src' = src
    BY <1>1, CallsStep, PromiseKeepsSource
  <2>3. CASE HTML
    <3>1. lang = "html" /\ NextToken /\ ahead' = ahead /\ ~ended
      BY <2>3 DEF HTML, Only, script, NextToken
    <3>2. Calling /\ TemplatesFit
      BY <2>1, <3>1 DEF Calling, LexersInv
    <3>3. tmpl' = tmpl
      BY <3>1, TemplatesKept
    <3>4. HasTemplate'
      BY <2>2, <3>1, <3>2, <3>3, HTMLSays, HTMLSaysStep
    <3> QED
      BY <3>3, <3>4 DEF OpensPlainly, HTMLHasTemplate
  <2>4. CASE ~HTML
    <3>1. lang # "html" /\ tmpl' = tmpl
      BY <1>1, <2>4 DEF Calls, XML, CSS, JS, Only, markup, C!Next, C!EndOfFile, C!Token, C!Delim
    <3> QED
      BY <2>1, <3>1 DEF OpensPlainly, HTMLHasTemplate
  <2> QED
    BY <2>3, <2>4
<1>2. CASE UNCHANGED lexersVars
  <2>1. UNCHANGED <<lang, src, tok, tmpl>>
    BY <1>2 DEF lexersVars, markup
  <2>2. \A p : AtTemplate(p)' = AtTemplate(p)
    BY <2>1 DEF AtTemplate, AtAll, At
  <2>3. \A value : Quoted(value)' = Quoted(value)
    BY <2>1 DEF Quoted, At
  <2>5. \A name, lo, q : Searched(name, lo, q)' = Searched(name, lo, q)
    BY <2>1 DEF Searched, AtAll, At
  <2>4. HasTemplate' = HasTemplate
    BY <2>1, <2>2, <2>3, <2>5, Zenon DEF HasTemplate
  <2> QED
    BY <2>1, <2>4 DEF OpensPlainly, HTMLHasTemplate
<1> QED
  BY <1>1, <1>2 DEF LexersNext, Done

\* hasTmpl of html/lex.go (126-128, 290-293, 399-494) never says of an attribute or of raw
\* text that it holds a template when none begins in it; and it says so of an attribute
\* that is not unquoted, and of raw text where this is Searched, whenever one does.
THEOREM LexersHaveTemplate ==
    ASSUME NEW CONSTANT symbols, "panic" \notin symbols
    PROVE  Starts(symbols) /\ OpensPlainly /\ [][LexersNext]_lexersVars => []HTMLHasTemplate
<1>1. Starts(symbols) => LexersInv /\ HTMLHasTemplate
  <2>1. Starts(symbols) => tok = NoToken
    BY DEF Starts, StartsLexer, InitLexer, StartsAt
  <2>2. tok = NoToken => HTMLHasTemplate
    BY DEF HTMLHasTemplate, HasTemplate
  <2> QED
    BY <2>1, <2>2, StartsWell
<1>2. LexersInv /\ OpensPlainly /\ HTMLHasTemplate /\ [LexersNext]_lexersVars
        => (LexersInv /\ OpensPlainly /\ HTMLHasTemplate)'
  BY LexersStep, HasTemplateStep
<1> QED
  BY <1>1, <1>2, PTL

--------------------------------------------------------------------------------
(* Where raw text ends                                                      *)

\* f answers, of every number up to n, what steps that begin with init come to.
Steps(n, init, step, f) ==
    f = [q \in 0..n |-> IF q = 0 THEN init ELSE step[<<f[q - 1], q>>]]

\* There is such a function.
LEMMA Stepping ==
    ASSUME NEW n \in Nat, NEW S, NEW init \in S, NEW step \in [S \X (1..n) -> S]
    PROVE  \E f : Steps(n, init, step, f)
<1> DEFINE Right(f, q) == f[q] = IF q = 0 THEN init ELSE step[<<f[q - 1], q>>]
           Has(k) == \E f \in [0..k -> S] : \A q \in 0..k : Right(f, q)
           Bad == {k \in Nat : k <= n /\ ~Has(k)}
<1>1. Has(0)
  <2> DEFINE f == [q \in 0..0 |-> init]
  <2>1. f \in [0..0 -> S] /\ \A q \in 0..0 : Right(f, q)
    OBVIOUS
  <2> HIDE DEF f, Right
  <2> QED
    BY <2>1
<1>2. ASSUME NEW k \in Nat, k # 0, k <= n, Has(k - 1) PROVE Has(k)
  <2>1. PICK f \in [0..(k - 1) -> S] : \A q \in 0..(k - 1) : Right(f, q)
    BY <1>2
  <2> DEFINE last == step[<<f[k - 1], k>>]
             g == [q \in 0..k |-> IF q = k THEN last ELSE f[q]]
  <2>2. last \in S
    <3>1. k - 1 \in 0..(k - 1) /\ k \in 1..n
      BY <1>2
    <3> QED
      BY <3>1
  <2>3. \A q \in 0..k : q # k => q \in 0..(k - 1)
    OBVIOUS
  <2>4. g \in [0..k -> S]
    <3> HIDE DEF last
    <3> QED
      BY <2>2, <2>3
  <2>5. ASSUME NEW q \in 0..k PROVE Right(g, q)
    <3>1. CASE q = k
      <4>1. k - 1 \in 0..k /\ k - 1 # k
        BY <1>2
      <4>2. g[k] = last /\ g[k - 1] = f[k - 1]
        <5> HIDE DEF last
        <5> QED
          BY <4>1
      <4> HIDE DEF g
      <4> QED
        BY <1>2, <3>1, <4>2
    <3>2. CASE q # k
      <4>1. q \in 0..(k - 1) /\ Right(f, q)
        BY <2>1, <2>3, <3>2
      <4>2. g[q] = f[q]
        BY <3>2
      <4>3. q # 0 => q - 1 \in 0..k /\ q - 1 # k
        BY <4>1
      <4>4. q # 0 => g[q - 1] = f[q - 1]
        BY <4>3
      <4> HIDE DEF g
      <4> QED
        BY <4>1, <4>2, <4>4
    <3> QED
      BY <3>1, <3>2
  <2> HIDE DEF g, Right
  <2> QED
    BY <2>4, <2>5
<1> HIDE DEF Has
<1>3. Has(n)
  <2> SUFFICES ASSUME Bad # {} PROVE FALSE
    OBVIOUS
  <2>1. PICK k \in Bad : \A m \in Bad : k <= m
    BY LeastNumber
  <2>2. k \in Nat /\ k # 0 /\ k <= n /\ ~Has(k)
    BY <1>1, <2>1
  <2>3. k - 1 \in Nat /\ k - 1 <= n /\ k - 1 \notin Bad
    BY <2>1, <2>2
  <2>4. Has(k - 1)
    BY <2>3
  <2> QED
    BY <1>2, <2>2, <2>4
<1>4. PICK f \in [0..n -> S] : \A q \in 0..n : Right(f, q)
  BY <1>3 DEF Has
<1>5. f = [q \in 0..n |-> IF q = 0 THEN init ELSE step[<<f[q - 1], q>>]]
  BY <1>4
<1> QED
  BY <1>5 DEF Steps

HTMLRawStates == {"data", "escaped", "double"}

\* The state after an offset, of the one before.
HTMLStateNext(p, q, s) ==
    CASE s = "data" /\ Follows(<<"<", "!", "-", "-">>, p, q) -> "escaped"
      [] s # "data" /\ Follows(<<"-", "-", ">">>, p, q) -> "data"
      [] s = "escaped" /\ Follows(<<"<", "script">>, p, q) -> "double"
      [] s = "double" /\ Follows(<<"<", "/", "script">>, p, q) -> "escaped"
      [] OTHER -> s

LEMMA HTMLStateType ==
    ASSUME NEW p, NEW q, NEW s \in HTMLRawStates
    PROVE  HTMLStateNext(p, q, s) \in HTMLRawStates
<1> DEFINE a == s = "data" /\ Follows(<<"<", "!", "-", "-">>, p, q)
           b == s # "data" /\ Follows(<<"-", "-", ">">>, p, q)
           c == s = "escaped" /\ Follows(<<"<", "script">>, p, q)
           d == s = "double" /\ Follows(<<"<", "/", "script">>, p, q)
<1>1. HTMLStateNext(p, q, s) = CASE a -> "escaped" [] b -> "data" [] c -> "double" [] d -> "escaped" [] OTHER -> s
  BY DEF HTMLStateNext
<1> HIDE DEF a, b, c, d
<1> QED
  BY <1>1 DEF HTMLRawStates

\* RawState, one offset after the other.
LEMMA HTMLRawState ==
    ASSUME Fits(src), NEW p, Inside(p)
    PROVE  /\ RawState(p, p) = "data"
           /\ \A q \in (p + 1)..Len(src) : RawState(p, q) = HTMLStateNext(p, q, RawState(p, q - 1))
           /\ \A q \in p..Len(src) : RawState(p, q) \in HTMLRawStates
<1> DEFINE n == Len(src)
           Is(f) == f = [q \in 0..n |-> IF q <= p THEN "data" ELSE HTMLStateNext(p, q, f[q - 1])]
           g == CHOOSE f : Is(f)
           step == [at \in HTMLRawStates \X (1..n) |-> IF at[2] <= p THEN "data" ELSE HTMLStateNext(p, at[2], at[1])]
<1>1. n \in Nat /\ p \in Nat /\ p <= n
  BY SourceFacts DEF Inside
<1>2. step \in [HTMLRawStates \X (1..n) -> HTMLRawStates] /\ "data" \in HTMLRawStates
  BY HTMLStateType DEF HTMLRawStates
<1>3. PICK f : Steps(n, "data", step, f)
  <2> HIDE DEF n, step
  <2> QED
    BY <1>1, <1>2, Stepping, Zenon
<1>4. f = [q \in 0..n |-> IF q = 0 THEN "data" ELSE step[<<f[q - 1], q>>]]
  BY <1>3, Zenon DEF Steps
<1>5. \A q \in 0..n : f[q] \in HTMLRawStates /\ f[q] = IF q <= p THEN "data" ELSE HTMLStateNext(p, q, f[q - 1])
  <2> DEFINE Bad == {q \in Nat : q <= n /\ ~(f[q] \in HTMLRawStates
                        /\ f[q] = IF q <= p THEN "data" ELSE HTMLStateNext(p, q, f[q - 1]))}
  <2> SUFFICES ASSUME Bad # {} PROVE FALSE
    OBVIOUS
  <2>1. PICK q \in Bad : \A m \in Bad : q <= m
    BY LeastNumber
  <2>2. q \in 0..n
    BY <1>1, <2>1
  <2> HIDE DEF step, Is, g
  <2>3. CASE q = 0
    <3>1. f[q] = "data"
      BY <1>4, <2>2, <2>3
    <3> QED
      BY <1>1, <1>2, <2>1, <2>3, <3>1
  <2>4. CASE q # 0
    <3>1. f[q] = step[<<f[q - 1], q>>] /\ q - 1 \in Nat /\ q - 1 <= n /\ q - 1 \notin Bad /\ q \in 1..n
      BY <1>1, <1>4, <2>1, <2>2, <2>4
    <3>2. f[q - 1] \in HTMLRawStates
      BY <3>1
    <3> DEFINE s == f[q - 1]
    <3>3. step[<<s, q>>] = IF q <= p THEN "data" ELSE HTMLStateNext(p, q, s)
      <4> HIDE DEF s, Bad, n
      <4>1. <<s, q>> \in HTMLRawStates \X (1..n)
        BY <3>1, <3>2 DEF s
      <4> QED
        BY <4>1 DEF step
    <3>4. HTMLStateNext(p, q, s) \in HTMLRawStates
      BY <3>2, HTMLStateType
    <3> HIDE DEF s
    <3>5. f[q] = IF q <= p THEN "data" ELSE HTMLStateNext(p, q, s)
      BY <3>1, <3>3 DEF s
    <3>6. f[q] \in HTMLRawStates
      BY <1>2, <3>4, <3>5
    <3> QED
      BY <2>1, <3>5, <3>6 DEF s
  <2> QED
    BY <2>3, <2>4
<1>6. Is(f)
  <2>1. f = [q \in 0..n |-> f[q]]
    BY <1>4
  <2>2. [q \in 0..n |-> f[q]] = [q \in 0..n |-> IF q <= p THEN "data" ELSE HTMLStateNext(p, q, f[q - 1])]
    BY <1>5
  <2> HIDE DEF n, step, g
  <2> QED
    BY <2>1, <2>2, Zenon
<1>7. Is(g)
  <2> HIDE DEF Is
  <2> QED
    BY <1>6, Zenon DEF g
<1>8. \A q : RawState(p, q) = g[q]
  BY Zenon DEF RawState, g, Is, HTMLStateNext
<1> HIDE DEF g, step
<1>9. \A q \in 0..n : g[q] = IF q <= p THEN "data" ELSE HTMLStateNext(p, q, g[q - 1])
  <2> HIDE DEF n
  <2>1. g = [q \in 0..n |-> IF q <= p THEN "data" ELSE HTMLStateNext(p, q, g[q - 1])]
    BY <1>7
  <2> DEFINE V(q) == IF q <= p THEN "data" ELSE HTMLStateNext(p, q, g[q - 1])
  <2>2. g = [q \in 0..n |-> V(q)]
    BY <2>1
  <2> HIDE DEF V
  <2>3. \A q \in 0..n : g[q] = V(q)
    BY <2>2
  <2> QED
    BY <2>3 DEF V
<1> HIDE DEF Is, n
<1>10. g[p] = "data"
  BY <1>1, <1>9
<1>11. \A q \in (p + 1)..n : g[q] = HTMLStateNext(p, q, g[q - 1])
  <2> SUFFICES ASSUME NEW q \in (p + 1)..n PROVE g[q] = HTMLStateNext(p, q, g[q - 1])
    OBVIOUS
  <2>1. q \in 0..n /\ ~(q <= p)
    BY <1>1
  <2> QED
    BY <1>9, <2>1, Zenon
<1>12. \A q \in p..n : g[q] \in HTMLRawStates
  <2> DEFINE Bad == {q \in Nat : q \in p..n /\ g[q] \notin HTMLRawStates}
  <2> SUFFICES ASSUME Bad # {} PROVE FALSE
    BY <1>1
  <2>1. PICK q \in Bad : \A m \in Bad : q <= m
    BY LeastNumber
  <2>2. q # p
    BY <1>2, <1>10, <2>1
  <2>3. q \in (p + 1)..n /\ q - 1 \in p..n /\ q - 1 \in Nat /\ q - 1 < q
    BY <1>1, <2>1, <2>2
  <2>4. g[q - 1] \in HTMLRawStates
    BY <2>1, <2>3
  <2>5. g[q] \in HTMLRawStates
    BY <1>11, <2>3, <2>4, HTMLStateType
  <2> QED
    BY <2>1, <2>5
<1> QED
  BY <1>8, <1>10, <1>11, <1>12 DEF n

\* The words that shiftRawText looks for.
HTMLOpens == <<"<", "!", "-", "-">>
HTMLCloses == <<"-", "-", ">">>
HTMLScript == <<"<", "script">>
HTMLEndTag1(name) == <<"<", "/", name>>

LEMMA HTMLRawWords ==
    ASSUME NEW p \in Nat, NEW name
    PROVE  /\ AtAll(p, HTMLOpens) <=> At(p) = "<" /\ At(p + 1) = "!" /\ At(p + 2) = "-" /\ At(p + 3) = "-"
           /\ AtAll(p, HTMLCloses) <=> At(p) = "-" /\ At(p + 1) = "-" /\ At(p + 2) = ">"
           /\ AtAll(p, HTMLScript) <=> At(p) = "<" /\ At(p + 1) = "script"
           /\ AtAll(p, HTMLEndTag1(name)) <=> At(p) = "<" /\ At(p + 1) = "/" /\ At(p + 2) = name
<1>1. ASSUME NEW a, NEW b PROVE AtAll(p, <<a, b>>) <=> At(p) = a /\ At(p + 1) = b
  <2> DEFINE w == <<a, b>>
  <2>1. 1..Len(w) = {1, 2} /\ w[1] = a /\ w[2] = b
    OBVIOUS
  <2> HIDE DEF w
  <2>2. p + 1 - 1 = p /\ p + 2 - 1 = p + 1
    OBVIOUS
  <2> QED
    BY <2>1, <2>2 DEF AtAll, w
<1>2. ASSUME NEW a, NEW b, NEW c
      PROVE  AtAll(p, <<a, b, c>>) <=> At(p) = a /\ At(p + 1) = b /\ At(p + 2) = c
  <2> DEFINE w == <<a, b, c>>
  <2>1. 1..Len(w) = {1, 2, 3} /\ w[1] = a /\ w[2] = b /\ w[3] = c
    OBVIOUS
  <2> HIDE DEF w
  <2>2. p + 1 - 1 = p /\ p + 2 - 1 = p + 1 /\ p + 3 - 1 = p + 2
    OBVIOUS
  <2> QED
    BY <2>1, <2>2 DEF AtAll, w
<1>3. ASSUME NEW a, NEW b, NEW c, NEW d
      PROVE  AtAll(p, <<a, b, c, d>>) <=> At(p) = a /\ At(p + 1) = b /\ At(p + 2) = c /\ At(p + 3) = d
  <2> DEFINE w == <<a, b, c, d>>
  <2>1. 1..Len(w) = {1, 2, 3, 4} /\ w[1] = a /\ w[2] = b /\ w[3] = c /\ w[4] = d
    OBVIOUS
  <2> HIDE DEF w
  <2>2. p + 1 - 1 = p /\ p + 2 - 1 = p + 1 /\ p + 3 - 1 = p + 2 /\ p + 4 - 1 = p + 3
    OBVIOUS
  <2> QED
    BY <2>1, <2>2 DEF AtAll, w
<1> QED
  BY <1>1, <1>2, <1>3, Zenon DEF HTMLOpens, HTMLCloses, HTMLScript, HTMLEndTag1

\* A comment that opens is not also closed by what opens it.
LEMMA HTMLNotClosed ==
    ASSUME Fits(src), NEW name, AsTheCode(name), NEW p, Inside(p), AtAll(p, HTMLOpens)
    PROVE  ~AtAll(p + 2, HTMLCloses) /\ ~AtAll(p + 3, HTMLCloses)
<1>1. p \in Nat /\ At(p) = "<" /\ At(p + 1) = "!" /\ At(p + 2) = "-" /\ At(p + 3) = "-"
  BY HTMLRawWords DEF Inside
<1>2. p \in 0..(Len(src) - 1)
  <2>1. At(p) \notin {"nul", "panic"}
    BY <1>1
  <2>2. p + 1 <= Len(src) /\ Len(src) \in Nat
    BY <1>1, <2>1, CharFits, SourceFacts DEF NUL
  <2> QED
    BY <1>1, <2>2
<1>3. ~AtAll(p, <<"<", "!", "-", "-">> \o <<">">>) /\ ~AtAll(p, <<"<", "!", "-", "-">> \o <<"-", ">">>)
  BY <1>2, Zenon DEF AsTheCode
<1>4. At(p + 4) # ">"
  <2> DEFINE w == <<"<", "!", "-", "-">> \o <<">">>
  <2>1. Len(w) = 5 /\ w[1] = "<" /\ w[2] = "!" /\ w[3] = "-" /\ w[4] = "-" /\ w[5] = ">"
    OBVIOUS
  <2>2. ~AtAll(p, w)
    BY <1>3
  <2> HIDE DEF w
  <2>3. PICK i \in 1..5 : At(p + i - 1) # w[i]
    BY <2>1, <2>2 DEF AtAll
  <2>4. CASE i = 1
    BY <1>1, <2>1, <2>3, <2>4
  <2>5. CASE i = 2
    <3>1. p + 2 - 1 = p + 1
      BY <1>1
    <3> QED
      BY <1>1, <2>1, <2>3, <2>5, <3>1
  <2>6. CASE i = 3
    <3>1. p + 3 - 1 = p + 2
      BY <1>1
    <3> QED
      BY <1>1, <2>1, <2>3, <2>6, <3>1
  <2>7. CASE i = 4
    <3>1. p + 4 - 1 = p + 3
      BY <1>1
    <3> QED
      BY <1>1, <2>1, <2>3, <2>7, <3>1
  <2>8. CASE i = 5
    <3>1. p + 5 - 1 = p + 4
      BY <1>1
    <3> QED
      BY <1>1, <2>1, <2>3, <2>8, <3>1
  <2> QED
    BY <2>3, <2>4, <2>5, <2>6, <2>7, <2>8
<1>5. ~(At(p + 4) = "-" /\ At(p + 5) = ">")
  <2> DEFINE w == <<"<", "!", "-", "-">> \o <<"-", ">">>
  <2>1. Len(w) = 6 /\ w[1] = "<" /\ w[2] = "!" /\ w[3] = "-" /\ w[4] = "-" /\ w[5] = "-" /\ w[6] = ">"
    OBVIOUS
  <2>2. ~AtAll(p, w)
    BY <1>3
  <2> HIDE DEF w
  <2>3. PICK i \in 1..6 : At(p + i - 1) # w[i]
    BY <2>1, <2>2 DEF AtAll
  <2>4. i \in {1, 2, 3, 4, 5, 6}
    BY <2>3
  <2>5. p + 1 - 1 = p /\ p + 2 - 1 = p + 1 /\ p + 3 - 1 = p + 2 /\ p + 4 - 1 = p + 3 /\ p + 5 - 1 = p + 4
        /\ p + 6 - 1 = p + 5
    BY <1>1
  <2> QED
    BY <1>1, <2>1, <2>3, <2>4, <2>5
<1>6. p + 2 \in Nat /\ p + 3 \in Nat /\ p + 2 + 2 = p + 4 /\ p + 3 + 1 = p + 4 /\ p + 3 + 2 = p + 5
  BY <1>1
<1> QED
  BY <1>4, <1>5, <1>6, HTMLRawWords

\* The name that shiftRawText compares, and what it leaves behind of it.
LEMMA HTMLRawNameIs ==
    ASSUME Fits(src), NEW k, Inside(k), NEW name \in Letters, AsTheCode(name)
    PROVE  /\ Name(k) = <<name>> <=> At(k) = name
           /\ At(k) = name => Past(k, Letters) = k + 1
<1> DEFINE e == Past(k, Letters)
<1>1. k \in Nat /\ k <= Len(src) /\ NUL \notin Letters /\ Len(src) \in Nat
  BY HTMLOfChars, SourceFacts DEF Inside, OfChars, NUL
<1>2. /\ e \in Nat /\ k <= e /\ e <= Len(src)
      /\ At(e) \notin Letters
      /\ \A r \in k..(e - 1) : At(r) \in Letters
  BY <1>1, HTMLPast
<1>3. Name(k) = SubSeq(src, k + 1, e)
  BY DEF Name, Text
<1> HIDE DEF e
<1>4. PICK symbols : src \in Seq(symbols)
  BY DEF Fits
<1>5. Len(SubSeq(src, k + 1, e)) = e - k /\ \A i \in 1..(e - k) : SubSeq(src, k + 1, e)[i] = src[k + i]
  BY <1>1, <1>2, <1>4
<1>6. k < Len(src) => At(k) = src[k + 1]
  BY <1>1 DEF At
<1>7. Name(k) = <<name>> => At(k) = name
  <2> SUFFICES ASSUME Name(k) = <<name>> PROVE At(k) = name
    OBVIOUS
  <2> DEFINE w == SubSeq(src, k + 1, e)
  <2>1. w = <<name>>
    BY <1>3
  <2>2. Len(w) = e - k /\ \A i \in 1..(e - k) : w[i] = src[k + i]
    BY <1>5
  <2> HIDE DEF w
  <2>3. Len(w) = 1 /\ w[1] = name
    BY <2>1
  <2>4. k < Len(src) /\ w[1] = src[k + 1]
    BY <1>1, <1>2, <2>2, <2>3
  <2> QED
    BY <1>6, <2>3, <2>4
<1>8. At(k) = name => e = k + 1
  <2> SUFFICES ASSUME At(k) = name PROVE e = k + 1
    OBVIOUS
  <2>1. k < Len(src)
    <3>1. At(k) \notin {"nul", "panic"}
      BY HTMLOfChars DEF OfChars
    <3> QED
      BY <1>1, <3>1, CharFits DEF NUL
  <2>2. At(k + 1) \in WS \cup {"/", ">"}
    <3>1. k \in 0..(Len(src) - 1)
      BY <1>1, <2>1
    <3> QED
      BY <3>1, Zenon DEF AsTheCode
  <2>3. At(k + 1) \notin Letters
    BY <2>2 DEF WS, Letters, RawTags, ForeignTags
  <2>4. k + 1 \notin k..(e - 1)
    BY <1>2, <2>3
  <2>5. e # k
    BY <1>2
  <2> QED
    BY <1>1, <1>2, <2>4, <2>5
<1>9. At(k) = name => Name(k) = <<name>>
  <2> SUFFICES ASSUME At(k) = name PROVE Name(k) = <<name>>
    OBVIOUS
  <2> DEFINE w == SubSeq(src, k + 1, e)
  <2>1. e = k + 1 /\ k < Len(src)
    BY <1>1, <1>2, <1>8
  <2>2. Len(w) = 1 /\ w[1] = src[k + 1] /\ w \in Seq(symbols)
    BY <1>1, <1>4, <1>5, <2>1
  <2> HIDE DEF w
  <2>3. w = <<name>>
    BY <1>6, <2>1, <2>2
  <2> QED
    BY <1>3, <2>3 DEF w
<1> QED
  BY <1>7, <1>8, <1>9 DEF e

\* What a turn of shiftRawText skips of a name is its letters, and the slash.
LEMMA HTMLSkipped ==
    ASSUME Fits(src), NEW p, Inside(p), At(p) = "<"
    PROVE  /\ p \in Nat /\ Inside(HTMLRawName(p)) /\ HTMLRawName(p) \in {p + 1, p + 2}
           /\ \A r \in (p + 1)..(Past(HTMLRawName(p), Letters) - 1) : At(r) \notin {"<", "-"}
<1> DEFINE k == HTMLRawName(p)
           e == Past(k, Letters)
<1>1. p \in Nat /\ Inside(p + 1)
  <2>1. p \in Nat
    BY DEF Inside
  <2> QED
    BY <2>1, HTMLChar
<1>2. At(p + 1) = "/" => Inside(p + 2)
  <2>1. p + 1 \in Nat /\ p + 1 + 1 = p + 2
    BY <1>1
  <2>2. At(p + 1) = "/" => At(p + 1) \notin {"nul", "panic"}
    OBVIOUS
  <2> QED
    BY <2>1, <2>2, HTMLChar
<1>3. Inside(k) /\ k \in {p + 1, p + 2} /\ (k = p + 2 => At(p + 1) = "/")
  BY <1>1, <1>2 DEF HTMLRawName
<1> HIDE DEF k
<1>4. k \in Nat /\ k <= Len(src) /\ NUL \notin Letters
  BY <1>3, HTMLOfChars DEF OfChars, Inside, NUL
<1>5. e \in Nat /\ \A r \in k..(e - 1) : At(r) \in Letters
  BY <1>4, HTMLPast
<1> HIDE DEF e
<1>6. ASSUME NEW r \in (p + 1)..(e - 1) PROVE At(r) \notin {"<", "-"}
  <2>1. CASE r \in k..(e - 1)
    BY <1>5, <2>1 DEF Letters, RawTags, ForeignTags
  <2>2. CASE r \notin k..(e - 1)
    <3>1. k = p + 2 /\ r = p + 1
      BY <1>1, <1>3, <1>4, <1>5, <2>2
    <3> QED
      BY <1>3, <3>1
  <2> QED
    BY <2>1, <2>2
<1> QED
  BY <1>1, <1>3, <1>6 DEF k, e

\* A scan stops at the only offset that it may.
LEMMA HTMLRawTextEnd ==
    ASSUME Fits(src), NEW p \in Nat, NEW name, NEW e \in Nat, p <= e, e <= Len(src),
           Ended(e) \/ (name # "plaintext" /\ EndsRaw(name, p, e)),
           \A r \in p..(e - 1) : ~(name # "plaintext" /\ EndsRaw(name, p, r))
    PROVE  RawTextEndOf(name, p) = e
<1> DEFINE Stop(q) == Ended(q) \/ (name # "plaintext" /\ EndsRaw(name, p, q))
           Is(q) == /\ q \in p..(Len(src) + 1)
                    /\ (q > Len(src) \/ Stop(q)) /\ \A r \in p..(q - 1) : ~Stop(r)
<1>1. Len(src) \in Nat
  BY SourceFacts
<1>2. RawTextEndOf(name, p) = CHOOSE q \in p..(Len(src) + 1) :
                                  (q > Len(src) \/ Stop(q)) /\ \A r \in p..(q - 1) : ~Stop(r)
  BY Zenon DEF RawTextEndOf, Scan
<1>3. Stop(e)
  OBVIOUS
<1>4. \A r \in p..(e - 1) : ~Stop(r)
  <2> SUFFICES ASSUME NEW r \in p..(e - 1) PROVE ~Ended(r)
    OBVIOUS
  <2>1. r \in Nat /\ r # Len(src)
    BY <1>1
  <2> QED
    BY <2>1, AtFacts
<1> HIDE DEF Stop
<1>5. e \in p..(Len(src) + 1)
  BY <1>1
<1>6. Is(e)
  BY <1>3, <1>4, <1>5
<1>7. \A q : Is(q) => q = e
  <2> SUFFICES ASSUME NEW q, Is(q) PROVE q = e
    OBVIOUS
  <2>1. q \in p..(Len(src) + 1) /\ q \in Int
    BY <1>1
  <2>2. ~(q < e)
    <3> SUFFICES ASSUME q < e PROVE FALSE
      OBVIOUS
    <3>1. q \in p..(e - 1) /\ ~(q > Len(src))
      BY <1>1, <2>1
    <3> QED
      BY <1>4, <3>1
  <2>3. ~(q > e)
    <3> SUFFICES ASSUME q > e PROVE FALSE
      OBVIOUS
    <3>1. e \in p..(q - 1)
      BY <1>1, <2>1
    <3> QED
      BY <1>3, <3>1
  <2> QED
    BY <2>1, <2>2, <2>3
<1> DEFINE c == CHOOSE q \in p..(Len(src) + 1) :
                    (q > Len(src) \/ Stop(q)) /\ \A r \in p..(q - 1) : ~Stop(r)
<1>8. Is(c)
  BY <1>6, Zenon
<1> HIDE DEF c, Is
<1>9. c = e
  BY <1>7, <1>8
<1> QED
  BY <1>2, <1>9 DEF c

\* Raw text that is not a script's ends at the end tag of its element.
LEMMA HTMLRawOther ==
    ASSUME Fits(src), TemplatesFit, NEW p0, Inside(p0), rawTag \in Letters, rawTag # "script",
           AsTheCode(rawTag), ~RawEnd[<<p0, "text", FALSE>>].hasTmpl
    PROVE  LET e == RawEnd[<<p0, "text", FALSE>>].end
           IN  /\ From(p0, e)
               /\ Ended(e) \/ AtAll(e, HTMLEndTag1(rawTag))
               /\ \A r \in p0..(e - 1) : ~AtAll(r, HTMLEndTag1(rawTag))
<1> DEFINE No(p) == \A r \in p0..(p - 1) : ~AtAll(r, HTMLEndTag1(rawTag))
           inv == {d \in Nat \X HTMLModes \X BOOLEAN : p0 <= d[1] /\ d[2] = "text" /\ (d[3] \/ No(d[1]))}
           d0 == <<p0, "text", FALSE>>
<1>1. d0 \in inv
  <2>1. d0[1] = p0 /\ d0[2] = "text"
    OBVIOUS
  <2>2. p0 \in Nat /\ p0 <= p0 /\ "text" \in HTMLModes
    BY DEF Inside, HTMLModes
  <2>3. d0 \in Nat \X HTMLModes \X BOOLEAN
    BY <2>2
  <2>4. No(p0)
    BY <2>2
  <2> HIDE DEF d0, No
  <2> QED
    BY <2>1, <2>2, <2>3, <2>4
<1>2. ASSUME NEW d, d \in inv /\ d[1] \in Nat /\ d[2] \in HTMLModes /\ d[3] \in BOOLEAN /\ ~HTMLRawStop(d)
      PROVE  HTMLRawNext(d) \in inv
  <2>1. PICK a, b, c : /\ HTMLRawNext(d) = <<a, b, c>> /\ b \in HTMLModes /\ c \in BOOLEAN
                       /\ From(d[1], a) /\ d[1] < a
    BY <1>2, HTMLRawAdvances, Zenon
  <2> DEFINE p == d[1]
             q == Past(HTMLRawName(p), Letters)
             t == PastTemplate(p)
  <2>2. a \in Nat /\ p \in Nat /\ p0 \in Nat /\ p0 <= p /\ p < a /\ d[2] = "text" /\ (d[3] \/ No(p))
    BY <1>2, <2>1 DEF From, Inside
  <2>3. Inside(p)
    BY <1>2, HTMLOver DEF HTMLRawStop
  <2>4. \/ HTMLRawNext(d) = <<q, d[2], d[3]>> /\ At(p) = "<" /\ At(p + 1) = "/" /\ ~HTMLIsRaw(p)
        \/ HTMLRawNext(d) = <<t, d[2], TRUE>>
        \/ HTMLRawNext(d) = <<p + 1, d[2], d[3]>> /\ ~(At(p) = "<" /\ At(p + 1) = "/")
    <3>1. At(p) = "<" /\ At(p + 1) = "/" => ~HTMLIsRaw(p)
      BY <1>2, <2>2 DEF HTMLRawStop
    <3> QED
      BY <2>2, <3>1, Zenon DEF HTMLRawNext
  <2> HIDE DEF p, q, t
  <2>5. b = "text" /\ (c \/ (c = d[3] /\ No(a)))
    <3>1. CASE HTMLRawNext(d) = <<q, d[2], d[3]>> /\ At(p) = "<" /\ At(p + 1) = "/" /\ ~HTMLIsRaw(p)
      <4>1. a = q /\ b = "text" /\ c = d[3]
        BY <2>1, <2>2, <3>1
      <4>2. Inside(HTMLRawName(p)) /\ HTMLRawName(p) = p + 2
            /\ \A r \in (p + 1)..(q - 1) : At(r) \notin {"<", "-"}
        BY <2>3, <3>1, HTMLSkipped DEF HTMLRawName, q
      <4>3. At(p + 2) # rawTag
        BY <3>1, <4>2, HTMLRawNameIs DEF HTMLIsRaw
      <4>4. ASSUME NEW r \in p..(q - 1) PROVE ~AtAll(r, HTMLEndTag1(rawTag))
        <5>1. r \in Nat
          BY <2>2
        <5>2. CASE r = p
          BY <4>3, <5>1, <5>2, HTMLRawWords
        <5>3. CASE r # p
          <6>1. r \in (p + 1)..(q - 1)
            BY <2>2, <5>3
          <6> QED
            BY <4>2, <5>1, <6>1, HTMLRawWords
        <5> QED
          BY <5>2, <5>3
      <4>5. No(p) => No(a)
        <5>1. \A r \in p0..(a - 1) : r \in p0..(p - 1) \/ r \in p..(q - 1)
          BY <2>2, <4>1
        <5> QED
          BY <4>4, <5>1
      <4> QED
        BY <2>2, <4>1, <4>5
    <3>2. CASE HTMLRawNext(d) = <<t, d[2], TRUE>>
      <4> HIDE DEF No
      <4>1. <<a, b, c>> = <<t, d[2], TRUE>>
        BY <2>1, <3>2
      <4>2. b = d[2] /\ c = TRUE
        BY <4>1
      <4> QED
        BY <2>2, <4>2
    <3>3. CASE HTMLRawNext(d) = <<p + 1, d[2], d[3]>> /\ ~(At(p) = "<" /\ At(p + 1) = "/")
      <4>1. a = p + 1 /\ b = "text" /\ c = d[3]
        BY <2>1, <2>2, <3>3
      <4>2. ~AtAll(p, HTMLEndTag1(rawTag))
        BY <2>2, <3>3, HTMLRawWords
      <4>3. No(p) => No(a)
        <5>1. \A r \in p0..(a - 1) : r \in p0..(p - 1) \/ r = p
          BY <2>2, <4>1
        <5> QED
          BY <4>2, <5>1
      <4> QED
        BY <2>2, <4>1, <4>3
    <3> QED
      BY <2>4, <3>1, <3>2, <3>3
  <2> HIDE DEF No
  <2> DEFINE x == HTMLRawNext(d)
  <2>6. x = <<a, b, c>>
    BY <2>1
  <2> HIDE DEF x
  <2>7. x \in Nat \X HTMLModes \X BOOLEAN /\ x[1] = a /\ x[2] = b /\ x[3] = c
    BY <2>1, <2>2, <2>6
  <2>8. p0 <= a
    BY <2>2
  <2>9. x \in inv
    BY <2>5, <2>7, <2>8
  <2> QED
    BY <2>9 DEF x
<1> HIDE DEF No, inv
<1>3. PICK e : /\ e \in inv /\ HTMLRawStop(e) /\ From(p0, e[1])
               /\ RawEnd[d0] = [end |-> e[1], hasTmpl |-> e[3]]
  BY <1>1, <1>2, HTMLRawLoop, Zenon
<1>4. e[1] \in Nat /\ e[2] = "text" /\ (e[3] \/ No(e[1]))
  BY <1>3 DEF inv
<1> DEFINE x == RawEnd[d0]
<1>5. x = [end |-> e[1], hasTmpl |-> e[3]]
  BY <1>3
<1> HIDE DEF x
<1>6. x.end = e[1] /\ x.hasTmpl = e[3]
  BY <1>5
<1>7. ~e[3]
  BY <1>6 DEF x
<1>8. Ended(e[1]) \/ AtAll(e[1], HTMLEndTag1(rawTag))
  <2>1. CASE Over(e[1])
    <3>1. ~(e[1] > Len(src))
      BY <1>3, SourceFacts DEF From, Inside
    <3> QED
      BY <2>1, <3>1 DEF Over
  <2>2. CASE At(e[1]) = "<" /\ At(e[1] + 1) = "/" /\ HTMLIsRaw(e[1])
    <3>1. Inside(e[1])
      BY <1>3 DEF From
    <3>2. Inside(HTMLRawName(e[1])) /\ HTMLRawName(e[1]) = e[1] + 2
      BY <2>2, <3>1, HTMLSkipped DEF HTMLRawName
    <3>3. At(e[1] + 2) = rawTag
      BY <2>2, <3>2, HTMLRawNameIs DEF HTMLIsRaw
    <3> QED
      BY <1>4, <2>2, <3>3, HTMLRawWords
  <2> QED
    BY <1>3, <2>1, <2>2 DEF HTMLRawStop
<1>9. No(e[1])
  BY <1>4, <1>7
<1> QED
  BY <1>3, <1>6, <1>8, <1>9 DEF No, x

HTMLEndScript == HTMLEndTag1("script")

\* The state of the standard in each mode of shiftRawText.
HTMLStateOf(m) == IF m = "text" THEN "data" ELSE IF m = "comment" THEN "escaped" ELSE "double"

LEMMA HTMLStateStep ==
    ASSUME NEW p \in Nat, NEW q \in Nat, NEW s \in HTMLRawStates
    PROVE  LET n == HTMLStateNext(p, q, s)
           IN  /\ s = "data" /\ Follows(HTMLOpens, p, q) => n = "escaped"
               /\ s = "data" /\ ~Follows(HTMLOpens, p, q) => n = s
               /\ s # "data" /\ Follows(HTMLCloses, p, q) => n = "data"
               /\ s = "escaped" /\ ~Follows(HTMLCloses, p, q) /\ Follows(HTMLScript, p, q) => n = "double"
               /\ s = "escaped" /\ ~Follows(HTMLCloses, p, q) /\ ~Follows(HTMLScript, p, q) => n = s
               /\ s = "double" /\ ~Follows(HTMLCloses, p, q) /\ Follows(HTMLEndScript, p, q) => n = "escaped"
               /\ s = "double" /\ ~Follows(HTMLCloses, p, q) /\ ~Follows(HTMLEndScript, p, q) => n = s
<1> DEFINE o == Follows(HTMLOpens, p, q)
           c == Follows(HTMLCloses, p, q)
           b == Follows(HTMLScript, p, q)
           e == Follows(HTMLEndScript, p, q)
           n == HTMLStateNext(p, q, s)
<1>1. n = CASE s = "data" /\ o -> "escaped"
            [] s # "data" /\ c -> "data"
            [] s = "escaped" /\ b -> "double"
            [] s = "double" /\ e -> "escaped"
            [] OTHER -> s
  BY DEF HTMLStateNext, HTMLOpens, HTMLCloses, HTMLScript, HTMLEndScript, HTMLEndTag1
<1>2. c => ~b /\ ~e
  <2> SUFFICES ASSUME c, b \/ e PROVE FALSE
    OBVIOUS
  <2>1. q - 3 >= p /\ AtAll(q - 3, HTMLCloses)
    BY DEF Follows, HTMLCloses
  <2>2. q - 3 \in Nat /\ q - 3 + 2 = q - 1 /\ q - 2 + 1 = q - 1 /\ q - 2 \in Nat
    BY <2>1
  <2>3. At(q - 1) = ">"
    BY <2>1, <2>2, HTMLRawWords
  <2>4. CASE b
    <3>1. AtAll(q - 2, HTMLScript)
      BY <2>4 DEF Follows, HTMLScript
    <3>2. At(q - 1) = "script"
      BY <2>2, <3>1, HTMLRawWords
    <3> QED
      BY <2>3, <3>2
  <2>5. CASE e
    <3>1. AtAll(q - 3, HTMLEndTag1("script"))
      BY <2>5 DEF Follows, HTMLEndTag1, HTMLEndScript
    <3>2. At(q - 1) = "script"
      BY <2>2, <3>1, HTMLRawWords
    <3> QED
      BY <2>3, <3>2
  <2> QED
    BY <2>4, <2>5
<1> HIDE DEF o, c, b, e, n
<1> QED
  BY <1>1, <1>2 DEF HTMLRawStates, o, c, b, e, n

\* No word that matters in the mode has begun before p and is not at its end.
HTMLClean(p0, p, m) ==
    \A r \in p0..(p - 1) :
        IF m = "text" THEN AtAll(r, HTMLOpens) => r + 4 <= p
        ELSE /\ AtAll(r, HTMLCloses) => r + 3 <= p
             /\ AtAll(r, HTMLScript) => r + 2 <= p
             /\ AtAll(r, HTMLEndScript) => r + 3 <= p

\* None that changes the state of the mode is in between.
HTMLQuiet(a, b, m) ==
    \A r \in a..(b - 1) :
        /\ m = "text" => ~(AtAll(r, HTMLOpens) /\ r + 4 <= b)
        /\ m # "text" => ~(AtAll(r, HTMLCloses) /\ r + 3 <= b)
        /\ m = "comment" => ~(AtAll(r, HTMLScript) /\ r + 2 <= b)
        /\ m = "inScript" => ~(AtAll(r, HTMLEndScript) /\ r + 3 <= b)

LEMMA HTMLFollows ==
    ASSUME NEW p \in Nat, NEW q \in Nat
    PROVE  /\ Follows(HTMLOpens, p, q) <=> q - 4 >= p /\ AtAll(q - 4, HTMLOpens)
           /\ Follows(HTMLCloses, p, q) <=> q - 3 >= p /\ AtAll(q - 3, HTMLCloses)
           /\ Follows(HTMLScript, p, q) <=> q - 2 >= p /\ AtAll(q - 2, HTMLScript)
           /\ Follows(HTMLEndScript, p, q) <=> q - 3 >= p /\ AtAll(q - 3, HTMLEndScript)
<1>1. Len(HTMLOpens) = 4 /\ Len(HTMLCloses) = 3 /\ Len(HTMLScript) = 2 /\ Len(HTMLEndScript) = 3
  BY DEF HTMLOpens, HTMLCloses, HTMLScript, HTMLEndScript, HTMLEndTag1
<1> QED
  BY <1>1, Zenon DEF Follows

\* So it is kept.
LEMMA HTMLStateKept ==
    ASSUME Fits(src), NEW p0, Inside(p0), NEW a \in Nat, NEW b \in Nat, NEW m \in HTMLModes,
           p0 <= a, a <= b, b <= Len(src),
           RawState(p0, a) = HTMLStateOf(m), HTMLClean(p0, a, m), HTMLQuiet(a, b, m)
    PROVE  \A q \in a..b : RawState(p0, q) = HTMLStateOf(m)
<1> DEFINE Bad == {q \in Nat : q \in a..b /\ RawState(p0, q) # HTMLStateOf(m)}
<1> SUFFICES ASSUME Bad # {} PROVE FALSE
  OBVIOUS
<1>1. PICK q \in Bad : \A x \in Bad : q <= x
  BY LeastNumber
<1>2. p0 \in Nat /\ Len(src) \in Nat
  BY SourceFacts DEF Inside
<1>3. q \in Nat /\ a < q /\ q <= b /\ RawState(p0, q) # HTMLStateOf(m)
  <2>1. q # a
    BY <1>1
  <2> QED
    BY <1>1, <2>1
<1>4. RawState(p0, q - 1) = HTMLStateOf(m)
  <2>1. q - 1 \in Nat /\ q - 1 \in a..b /\ ~(q <= q - 1)
    BY <1>3
  <2> QED
    BY <1>1, <2>1
<1>5. RawState(p0, q) = HTMLStateNext(p0, q, HTMLStateOf(m))
  <2>1. q \in (p0 + 1)..Len(src)
    BY <1>2, <1>3
  <2> QED
    BY <1>4, <2>1, HTMLRawState
<1>6. HTMLStateOf(m) \in HTMLRawStates
  BY DEF HTMLStateOf, HTMLRawStates, HTMLModes
<1>7. \A k \in 2..4 : /\ q - k >= p0 => q - k \in Nat
                      /\ q - k >= p0 /\ q - k < a => q - k \in p0..(a - 1) /\ ~(q - k + k <= a)
                      /\ ~(q - k < a) => q - k \in a..(b - 1) /\ q - k + k <= b
  BY <1>2, <1>3
<1>8. 2 \in 2..4 /\ 3 \in 2..4 /\ 4 \in 2..4
  OBVIOUS
<1> HIDE DEF Bad
<1>9. m = "text" => ~Follows(HTMLOpens, p0, q)
  BY <1>2, <1>3, <1>7, <1>8, HTMLFollows DEF HTMLClean, HTMLQuiet
<1>10. m # "text" => ~Follows(HTMLCloses, p0, q)
  BY <1>2, <1>3, <1>7, <1>8, HTMLFollows DEF HTMLClean, HTMLQuiet
<1>11. m = "comment" => ~Follows(HTMLScript, p0, q)
  BY <1>2, <1>3, <1>7, <1>8, HTMLFollows DEF HTMLClean, HTMLQuiet
<1>12. m = "inScript" => ~Follows(HTMLEndScript, p0, q)
  BY <1>2, <1>3, <1>7, <1>8, HTMLFollows DEF HTMLClean, HTMLQuiet
<1>13. HTMLStateNext(p0, q, HTMLStateOf(m)) = HTMLStateOf(m)
  <2> DEFINE s == HTMLStateOf(m)
             n == HTMLStateNext(p0, q, s)
  <2>1. /\ s = "data" /\ ~Follows(HTMLOpens, p0, q) => n = s
        /\ s = "escaped" /\ ~Follows(HTMLCloses, p0, q) /\ ~Follows(HTMLScript, p0, q) => n = s
        /\ s = "double" /\ ~Follows(HTMLCloses, p0, q) /\ ~Follows(HTMLEndScript, p0, q) => n = s
    BY <1>2, <1>3, <1>6, HTMLStateStep, Zenon
  <2>2. (m = "text" /\ s = "data") \/ (m = "comment" /\ s = "escaped") \/ (m = "inScript" /\ s = "double")
    BY DEF HTMLModes, HTMLStateOf
  <2> HIDE DEF s, n
  <2>3. n = s
    BY <1>9, <1>10, <1>11, <1>12, <2>1, <2>2
  <2> QED
    BY <2>3 DEF n, s
<1> QED
  BY <1>3, <1>5, <1>13

HTMLNoEnd(p0, p) == \A r \in p0..(p - 1) : ~(AtAll(r, HTMLEndScript) /\ RawState(p0, r) # "double")

\* What the turns of shiftRawText keep of a script's text.
HTMLInScript(p0, p, m) ==
    /\ Inside(p) /\ p0 <= p
    /\ RawState(p0, p) = HTMLStateOf(m)
    /\ HTMLClean(p0, p, m)
    /\ HTMLNoEnd(p0, p)

\* A turn that finds none of the words.
LEMMA HTMLScriptSkips ==
    ASSUME Fits(src), NEW p0, Inside(p0), NEW p, NEW m \in HTMLModes, HTMLInScript(p0, p, m),
           NEW a, Inside(a), p < a,
           \A r \in p..(a - 1) : /\ ~AtAll(r, HTMLEndScript)
                                 /\ m = "text" => ~AtAll(r, HTMLOpens)
                                 /\ m # "text" => ~AtAll(r, HTMLCloses) /\ ~AtAll(r, HTMLScript)
    PROVE  HTMLInScript(p0, a, m)
<1>1. /\ p0 \in Nat /\ p \in Nat /\ a \in Nat /\ p0 <= p /\ a <= Len(src)
      /\ RawState(p0, p) = HTMLStateOf(m) /\ HTMLClean(p0, p, m) /\ HTMLNoEnd(p0, p)
  BY DEF HTMLInScript, Inside
<1>2. HTMLQuiet(p, a, m)
  BY <1>1 DEF HTMLQuiet, HTMLModes
<1>3. RawState(p0, a) = HTMLStateOf(m)
  <2>1. p <= a /\ a \in p..a
    BY <1>1
  <2> QED
    BY <1>1, <1>2, <2>1, HTMLStateKept
<1>4. \A r \in p0..(a - 1) : r \in p0..(p - 1) \/ r \in p..(a - 1)
  BY <1>1
<1>5. HTMLClean(p0, a, m)
  <2> SUFFICES ASSUME NEW r \in p0..(a - 1)
               PROVE  IF m = "text" THEN AtAll(r, HTMLOpens) => r + 4 <= a
                      ELSE /\ AtAll(r, HTMLCloses) => r + 3 <= a
                           /\ AtAll(r, HTMLScript) => r + 2 <= a
                           /\ AtAll(r, HTMLEndScript) => r + 3 <= a
    BY Zenon DEF HTMLClean
  <2>1. \A k \in 2..4 : r + k <= p => r + k <= a
    BY <1>1
  <2>2. 2 \in 2..4 /\ 3 \in 2..4 /\ 4 \in 2..4
    OBVIOUS
  <2>3. CASE r \in p0..(p - 1)
    BY <1>1, <2>1, <2>2, <2>3 DEF HTMLClean
  <2>4. CASE r \in p..(a - 1)
    BY <2>4, Zenon
  <2> QED
    BY <1>4, <2>3, <2>4
<1>6. HTMLNoEnd(p0, a)
  BY <1>1, <1>4 DEF HTMLNoEnd
<1>7. p0 <= a
  BY <1>1
<1> QED
  BY <1>3, <1>5, <1>6, <1>7 DEF HTMLInScript

\* A turn that goes over a word of k symbols, to another mode.
LEMMA HTMLScriptWord ==
    ASSUME Fits(src), NEW p0, Inside(p0), NEW p, NEW m \in HTMLModes, HTMLInScript(p0, p, m),
           NEW k \in 2..4, Inside(p + k), HTMLQuiet(p, p + k - 1, m), NEW b \in HTMLModes,
           HTMLStateNext(p0, p + k, HTMLStateOf(m)) = HTMLStateOf(b),
           HTMLClean(p0, p + k, b),
           \A r \in p..(p + k - 1) : ~(AtAll(r, HTMLEndScript) /\ RawState(p0, r) # "double")
    PROVE  HTMLInScript(p0, p + k, b)
<1>1. /\ p0 \in Nat /\ p \in Nat /\ p0 <= p /\ p + k <= Len(src) /\ k \in Nat
      /\ RawState(p0, p) = HTMLStateOf(m) /\ HTMLClean(p0, p, m) /\ HTMLNoEnd(p0, p)
  BY DEF HTMLInScript, Inside
<1>2. p + k - 1 \in Nat /\ p <= p + k - 1 /\ p + k - 1 <= Len(src) /\ p + k - 1 \in p..(p + k - 1)
  BY <1>1, SourceFacts
<1>3. RawState(p0, p + k - 1) = HTMLStateOf(m)
  BY <1>1, <1>2, HTMLStateKept
<1>4. RawState(p0, p + k) = HTMLStateNext(p0, p + k, RawState(p0, p + k - 1))
  <2> DEFINE q == p + k
  <2>1. q \in (p0 + 1)..Len(src) /\ q - 1 = p + k - 1
    BY <1>1, SourceFacts
  <2> HIDE DEF q
  <2>2. RawState(p0, q) = HTMLStateNext(p0, q, RawState(p0, q - 1))
    BY <2>1, HTMLRawState
  <2> QED
    BY <2>1, <2>2 DEF q
<1>5. HTMLNoEnd(p0, p + k)
  <2>1. \A r \in p0..(p + k - 1) : r \in p0..(p - 1) \/ r \in p..(p + k - 1)
    BY <1>1
  <2> QED
    BY <1>1, <2>1 DEF HTMLNoEnd
<1>6. p0 <= p + k
  BY <1>1
<1> QED
  BY <1>3, <1>4, <1>5, <1>6 DEF HTMLInScript

\* A comment opens,
LEMMA HTMLScriptOpens ==
    ASSUME Fits(src), NEW p0, Inside(p0), AsTheCode("script"), NEW p, HTMLInScript(p0, p, "text"),
           AtAll(p, HTMLOpens)
    PROVE  HTMLInScript(p0, p + 4, "comment")
<1>1. Inside(p) /\ p0 \in Nat /\ p \in Nat /\ p0 <= p
  BY DEF HTMLInScript, Inside
<1>2. At(p) = "<" /\ At(p + 1) = "!" /\ At(p + 2) = "-" /\ At(p + 3) = "-"
  BY <1>1, HTMLRawWords
<1>3. Inside(p + 4)
  <2>1. IsWord(HTMLOpens, 4)
    BY Words DEF HTMLOpens, NUL
  <2> QED
    BY <1>1, <2>1, HTMLAfterWord
<1>4. \A r \in (p + 1)..(p + 3) : r \in Nat /\ At(r) # "<"
  <2>1. \A r \in (p + 1)..(p + 3) : r \in Nat /\ (r = p + 1 \/ r = p + 2 \/ r = p + 3)
    BY <1>1
  <2> QED
    BY <1>2, <2>1
<1>5. \A r \in (p + 1)..(p + 3) : ~AtAll(r, HTMLOpens) /\ ~AtAll(r, HTMLScript) /\ ~AtAll(r, HTMLEndScript)
  BY <1>4, HTMLRawWords DEF HTMLEndScript
<1>6. ~AtAll(p, HTMLEndScript)
  BY <1>1, <1>2, HTMLRawWords DEF HTMLEndScript
<1>7. ~AtAll(p + 2, HTMLCloses) /\ ~AtAll(p + 3, HTMLCloses)
  BY <1>1, HTMLNotClosed
<1>8. HTMLQuiet(p, p + 4 - 1, "text")
  <2> SUFFICES ASSUME NEW r \in p..(p + 4 - 1 - 1) PROVE ~(AtAll(r, HTMLOpens) /\ r + 4 <= p + 4 - 1)
    BY <1>1 DEF HTMLQuiet
  <2>1. r = p \/ r \in (p + 1)..(p + 3)
    BY <1>1
  <2>2. ~(p + 4 <= p + 4 - 1)
    BY <1>1
  <2> QED
    BY <1>5, <2>1, <2>2
<1>9. HTMLStateNext(p0, p + 4, HTMLStateOf("text")) = HTMLStateOf("comment")
  <2>1. p + 4 \in Nat /\ p + 4 - 4 = p
    BY <1>1
  <2>2. Follows(HTMLOpens, p0, p + 4)
    BY <1>1, <2>1, HTMLFollows
  <2> QED
    BY <1>1, <2>1, <2>2, HTMLStateStep DEF HTMLStateOf, HTMLRawStates
<1>10. HTMLClean(p0, p + 4, "comment")
  <2> SUFFICES ASSUME NEW r \in p0..(p + 4 - 1)
               PROVE  /\ AtAll(r, HTMLCloses) => r + 3 <= p + 4
                      /\ AtAll(r, HTMLScript) => r + 2 <= p + 4
                      /\ AtAll(r, HTMLEndScript) => r + 3 <= p + 4
    BY <1>1 DEF HTMLClean
  <2>1. \/ r + 3 <= p + 4 /\ r + 2 <= p + 4
        \/ r = p + 2 \/ r = p + 3
    BY <1>1
  <2>2. p + 2 \in (p + 1)..(p + 3) /\ p + 3 \in (p + 1)..(p + 3)
    BY <1>1
  <2> QED
    BY <1>5, <1>7, <2>1, <2>2
<1>11. \A r \in p..(p + 4 - 1) : ~AtAll(r, HTMLEndScript)
  <2>1. \A r \in p..(p + 4 - 1) : r = p \/ r \in (p + 1)..(p + 3)
    BY <1>1
  <2> QED
    BY <1>5, <1>6, <2>1
<1> QED
  BY <1>3, <1>8, <1>9, <1>10, <1>11, HTMLScriptWord DEF HTMLModes

\* it closes,
LEMMA HTMLScriptCloses ==
    ASSUME Fits(src), NEW p0, Inside(p0), NEW p, NEW m \in HTMLModes, m # "text", HTMLInScript(p0, p, m),
           AtAll(p, HTMLCloses)
    PROVE  HTMLInScript(p0, p + 3, "text")
<1>1. Inside(p) /\ p0 \in Nat /\ p \in Nat /\ p0 <= p
  BY DEF HTMLInScript, Inside
<1>2. At(p) = "-" /\ At(p + 1) = "-" /\ At(p + 2) = ">"
  BY <1>1, HTMLRawWords
<1>3. Inside(p + 3)
  <2>1. IsWord(HTMLCloses, 3)
    BY Words DEF HTMLCloses, NUL
  <2> QED
    BY <1>1, <2>1, HTMLAfterWord
<1>4. \A r \in p..(p + 2) : r \in Nat /\ At(r) # "<"
  <2>1. \A r \in p..(p + 2) : r \in Nat /\ (r = p \/ r = p + 1 \/ r = p + 2)
    BY <1>1
  <2> QED
    BY <1>2, <2>1
<1>5. \A r \in p..(p + 2) : ~AtAll(r, HTMLOpens) /\ ~AtAll(r, HTMLScript) /\ ~AtAll(r, HTMLEndScript)
  BY <1>4, HTMLRawWords DEF HTMLEndScript
<1>6. HTMLQuiet(p, p + 3 - 1, m)
  <2> SUFFICES ASSUME NEW r \in p..(p + 3 - 1 - 1) PROVE ~(r + 3 <= p + 3 - 1) /\ r \in p..(p + 2)
    BY <1>1, <1>5 DEF HTMLQuiet
  <2> QED
    BY <1>1
<1>7. HTMLStateNext(p0, p + 3, HTMLStateOf(m)) = HTMLStateOf("text")
  <2>1. p + 3 \in Nat /\ p + 3 - 3 = p
    BY <1>1
  <2>2. Follows(HTMLCloses, p0, p + 3)
    BY <1>1, <2>1, HTMLFollows
  <2>3. HTMLStateOf(m) # "data" /\ HTMLStateOf(m) \in HTMLRawStates /\ HTMLStateOf("text") = "data"
    BY DEF HTMLStateOf, HTMLRawStates, HTMLModes
  <2> QED
    BY <1>1, <2>1, <2>2, <2>3, HTMLStateStep
<1>8. HTMLClean(p0, p + 3, "text")
  <2> SUFFICES ASSUME NEW r \in p0..(p + 3 - 1) PROVE AtAll(r, HTMLOpens) => r + 4 <= p + 3
    BY <1>1 DEF HTMLClean
  <2>1. r + 4 <= p + 3 \/ r \in p..(p + 2)
    BY <1>1
  <2> QED
    BY <1>5, <2>1
<1>9. \A r \in p..(p + 3 - 1) : ~AtAll(r, HTMLEndScript)
  <2>1. \A r \in p..(p + 3 - 1) : r \in p..(p + 2)
    BY <1>1
  <2> QED
    BY <1>5, <2>1
<1> QED
  BY <1>3, <1>6, <1>7, <1>8, <1>9, HTMLScriptWord DEF HTMLModes

\* a script opens in it,
LEMMA HTMLScriptStarts ==
    ASSUME Fits(src), NEW p0, Inside(p0), NEW p, NEW m \in HTMLModes, m # "text", HTMLInScript(p0, p, m),
           AtAll(p, HTMLScript)
    PROVE  HTMLInScript(p0, p + 2, "inScript")
<1>1. Inside(p) /\ p0 \in Nat /\ p \in Nat /\ p0 <= p /\ HTMLClean(p0, p, m)
  BY DEF HTMLInScript, Inside
<1>2. At(p) = "<" /\ At(p + 1) = "script"
  BY <1>1, HTMLRawWords
<1>3. Inside(p + 2)
  <2>1. IsWord(HTMLScript, 2)
    BY Words DEF HTMLScript, NUL
  <2> QED
    BY <1>1, <2>1, HTMLAfterWord
<1>4. /\ ~AtAll(p, HTMLCloses) /\ ~AtAll(p, HTMLEndScript)
      /\ ~AtAll(p + 1, HTMLCloses) /\ ~AtAll(p + 1, HTMLEndScript) /\ ~AtAll(p + 1, HTMLScript)
  BY <1>1, <1>2, HTMLRawWords DEF HTMLEndScript
<1>5. HTMLQuiet(p, p + 2 - 1, m)
  <2> SUFFICES ASSUME NEW r \in p..(p + 2 - 1 - 1) PROVE r = p /\ ~(r + 2 <= p + 2 - 1)
    BY <1>1, <1>4 DEF HTMLQuiet
  <2> QED
    BY <1>1
<1>6. HTMLStateNext(p0, p + 2, HTMLStateOf(m)) = HTMLStateOf("inScript")
  <2>1. p + 2 \in Nat /\ p + 2 - 2 = p
    BY <1>1
  <2>2. Follows(HTMLScript, p0, p + 2)
    BY <1>1, <2>1, HTMLFollows
  <2>3. ~Follows(HTMLCloses, p0, p + 2) /\ ~Follows(HTMLEndScript, p0, p + 2)
    <3> SUFFICES ASSUME p + 2 - 3 >= p0, AtAll(p + 2 - 3, HTMLCloses) \/ AtAll(p + 2 - 3, HTMLEndScript)
                 PROVE  FALSE
      BY <1>1, <2>1, HTMLFollows
    <3>1. p + 2 - 3 \in p0..(p - 1) /\ ~(p + 2 - 3 + 3 <= p)
      BY <1>1
    <3> QED
      BY <1>1, <3>1 DEF HTMLClean
  <2>4. (HTMLStateOf(m) = "escaped" \/ HTMLStateOf(m) = "double") /\ HTMLStateOf("inScript") = "double"
        /\ HTMLStateOf(m) \in HTMLRawStates
    BY DEF HTMLStateOf, HTMLRawStates, HTMLModes
  <2> QED
    BY <1>1, <2>1, <2>2, <2>3, <2>4, HTMLStateStep
<1>7. HTMLClean(p0, p + 2, "inScript")
  <2> SUFFICES ASSUME NEW r \in p0..(p + 2 - 1)
               PROVE  /\ AtAll(r, HTMLCloses) => r + 3 <= p + 2
                      /\ AtAll(r, HTMLScript) => r + 2 <= p + 2
                      /\ AtAll(r, HTMLEndScript) => r + 3 <= p + 2
    BY <1>1 DEF HTMLClean
  <2>1. /\ r \in p0..(p - 1) \/ r = p \/ r = p + 1
        /\ r = p => r + 2 <= p + 2
        /\ r + 3 <= p => r + 3 <= p + 2
        /\ r + 2 <= p => r + 2 <= p + 2
    BY <1>1
  <2> QED
    BY <1>1, <1>4, <2>1 DEF HTMLClean
<1>8. \A r \in p..(p + 2 - 1) : ~AtAll(r, HTMLEndScript)
  <2>1. \A r \in p..(p + 2 - 1) : r = p \/ r = p + 1
    BY <1>1
  <2> QED
    BY <1>4, <2>1
<1> QED
  BY <1>3, <1>5, <1>6, <1>7, <1>8, HTMLScriptWord DEF HTMLModes

\* and is closed.
LEMMA HTMLScriptEnds ==
    ASSUME Fits(src), NEW p0, Inside(p0), NEW p, HTMLInScript(p0, p, "inScript"),
           AtAll(p, HTMLEndScript)
    PROVE  HTMLInScript(p0, p + 3, "comment")
<1>1. /\ Inside(p) /\ p0 \in Nat /\ p \in Nat /\ p0 <= p /\ HTMLClean(p0, p, "inScript")
      /\ RawState(p0, p) = "double"
  BY DEF HTMLInScript, Inside, HTMLStateOf
<1>2. At(p) = "<" /\ At(p + 1) = "/" /\ At(p + 2) = "script"
  BY <1>1, HTMLRawWords DEF HTMLEndScript
<1>3. Inside(p + 3)
  <2>1. IsWord(HTMLEndScript, 3)
    BY Words DEF HTMLEndScript, HTMLEndTag1, NUL
  <2> QED
    BY <1>1, <2>1, HTMLAfterWord
<1>4. /\ ~AtAll(p, HTMLCloses) /\ ~AtAll(p, HTMLScript)
      /\ \A r \in {p + 1, p + 2} : ~AtAll(r, HTMLCloses) /\ ~AtAll(r, HTMLEndScript) /\ ~AtAll(r, HTMLScript)
  BY <1>1, <1>2, HTMLRawWords DEF HTMLEndScript
<1>5. HTMLQuiet(p, p + 3 - 1, "inScript")
  <2> SUFFICES ASSUME NEW r \in p..(p + 3 - 1 - 1)
               PROVE  ~(AtAll(r, HTMLCloses) /\ r + 3 <= p + 3 - 1) /\ ~(AtAll(r, HTMLEndScript) /\ r + 3 <= p + 3 - 1)
    BY <1>1 DEF HTMLQuiet
  <2>1. ~(r + 3 <= p + 3 - 1)
    BY <1>1
  <2> QED
    BY <2>1
<1>6. HTMLStateNext(p0, p + 3, HTMLStateOf("inScript")) = HTMLStateOf("comment")
  <2>1. p + 3 \in Nat /\ p + 3 - 3 = p
    BY <1>1
  <2>2. Follows(HTMLEndScript, p0, p + 3) /\ ~Follows(HTMLCloses, p0, p + 3)
    BY <1>1, <1>4, <2>1, HTMLFollows
  <2>3. HTMLStateOf("inScript") = "double" /\ HTMLStateOf("comment") = "escaped" /\ "double" \in HTMLRawStates
    BY DEF HTMLStateOf, HTMLRawStates
  <2> QED
    BY <1>1, <2>1, <2>2, <2>3, HTMLStateStep
<1>7. HTMLClean(p0, p + 3, "comment")
  <2> SUFFICES ASSUME NEW r \in p0..(p + 3 - 1)
               PROVE  /\ AtAll(r, HTMLCloses) => r + 3 <= p + 3
                      /\ AtAll(r, HTMLScript) => r + 2 <= p + 3
                      /\ AtAll(r, HTMLEndScript) => r + 3 <= p + 3
    BY <1>1 DEF HTMLClean
  <2>1. /\ r \in p0..(p - 1) \/ r = p \/ r \in {p + 1, p + 2}
        /\ r = p => r + 3 <= p + 3
        /\ r + 3 <= p => r + 3 <= p + 3
        /\ r + 2 <= p => r + 2 <= p + 3
    BY <1>1
  <2> QED
    BY <1>1, <1>4, <2>1 DEF HTMLClean
<1>8. \A r \in p..(p + 3 - 1) : ~(AtAll(r, HTMLEndScript) /\ RawState(p0, r) # "double")
  <2>1. \A r \in p..(p + 3 - 1) : r = p \/ r \in {p + 1, p + 2}
    BY <1>1
  <2> QED
    BY <1>1, <1>4, <2>1
<1> QED
  BY <1>3, <1>5, <1>6, <1>7, <1>8, HTMLScriptWord DEF HTMLModes

\* Every turn keeps it, unless it meets a template.
LEMMA HTMLScriptTurn ==
    ASSUME Fits(src), NEW p0, Inside(p0), rawTag = "script", AsTheCode("script"),
           NEW d, d[2] \in HTMLModes, ~HTMLRawStop(d), HTMLInScript(p0, d[1], d[2]),
           NEW a, NEW b, NEW c, HTMLRawNext(d) = <<a, b, c>>
    PROVE  c = TRUE \/ (c = d[3] /\ HTMLInScript(p0, a, b))
<1> DEFINE p == d[1]
           m == d[2]
           q == Past(HTMLRawName(p), Letters)
           t == PastTemplate(p)
<1>1. Inside(p) /\ p \in Nat /\ HTMLInScript(p0, p, m) /\ m \in HTMLModes
  BY DEF HTMLInScript, Inside
<1>2. Inside(p + 1) /\ p < p + 1
  <2>1. ~Over(p)
    BY DEF HTMLRawStop
  <2> QED
    BY <1>1, <2>1, HTMLOver
<1>3. ASSUME At(p) = "<"
      PROVE  /\ From(p, q) /\ p < q
             /\ \A r \in (p + 1)..(q - 1) : At(r) \notin {"<", "-"}
             /\ HTMLIsRaw(p) <=> At(HTMLRawName(p)) = "script"
             /\ HTMLIsRaw(p) => q = HTMLRawName(p) + 1
  <2>1. Inside(HTMLRawName(p)) /\ \A r \in (p + 1)..(q - 1) : At(r) \notin {"<", "-"}
    BY <1>1, <1>3, HTMLSkipped
  <2>2. "script" \in Letters
    BY DEF Letters, RawTags
  <2> HIDE DEF p
  <2> QED
    BY <1>1, <1>3, <2>1, <2>2, HTMLAfterName, HTMLRawNameIs DEF HTMLIsRaw
<1>4. At(p) = "<" /\ At(p + 1) = "/" /\ HTMLIsRaw(p) => m = "inScript"
  BY DEF HTMLRawStop
<1>5. HTMLRawNext(d) =
         IF m = "text"
         THEN IF At(p) = "<" /\ At(p + 1) = "/" THEN <<q, m, d[3]>>
              ELSE IF AtAll(p, HTMLOpens) THEN <<p + 4, "comment", d[3]>>
              ELSE IF At(p) # "<" /\ AtTemplate(p) THEN <<t, m, TRUE>>
              ELSE <<p + 1, m, d[3]>>
         ELSE IF AtAll(p, HTMLCloses) THEN <<p + 3, "text", d[3]>>
         ELSE IF At(p) # "<" THEN <<p + 1, m, d[3]>>
         ELSE <<q, IF ~HTMLIsRaw(p) THEN m ELSE IF At(p + 1) = "/" THEN "comment" ELSE "inScript", d[3]>>
  BY Zenon DEF HTMLRawNext, HTMLOpens, HTMLCloses
<1> HIDE DEF p, m, q, t
\* A turn that skips the rest of a name which is not the script's.
<1>7. ASSUME At(p) = "<", ~HTMLIsRaw(p), m = "text" => ~AtAll(p, HTMLOpens)
      PROVE  HTMLInScript(p0, q, m)
  <2>1. At(p + 1) # "script" /\ ~(At(p + 1) = "/" /\ At(p + 2) = "script")
    <3>1. At(p + 1) = "script" => HTMLRawName(p) = p + 1
      BY DEF HTMLRawName
    <3>2. At(p + 1) = "/" => HTMLRawName(p) = p + 2
      BY DEF HTMLRawName
    <3> QED
      BY <1>3, <1>7, <3>1, <3>2
  <2>2. ASSUME NEW r \in p..(q - 1)
        PROVE  /\ ~AtAll(r, HTMLEndScript)
               /\ m = "text" => ~AtAll(r, HTMLOpens)
               /\ m # "text" => ~AtAll(r, HTMLCloses) /\ ~AtAll(r, HTMLScript)
    <3>1. r \in Nat
      BY <1>1
    <3>2. CASE r = p
      BY <1>7, <2>1, <3>1, <3>2, HTMLRawWords DEF HTMLEndScript
    <3>3. CASE r # p
      <4>1. r \in (p + 1)..(q - 1)
        BY <1>1, <3>3
      <4>2. At(r) # "<" /\ At(r) # "-"
        BY <1>3, <1>7, <4>1
      <4> QED
        BY <3>1, <4>2, HTMLRawWords DEF HTMLEndScript
    <3> QED
      BY <3>2, <3>3
  <2>3. Inside(q) /\ p < q
    BY <1>3, <1>7 DEF From
  <2> QED
    BY <1>1, <2>2, <2>3, HTMLScriptSkips
<1>8. ASSUME /\ ~AtAll(p, HTMLEndScript)
             /\ m = "text" => ~AtAll(p, HTMLOpens)
             /\ m # "text" => ~AtAll(p, HTMLCloses) /\ ~AtAll(p, HTMLScript)
      PROVE  HTMLInScript(p0, p + 1, m)
  <2>1. \A r \in p..(p + 1 - 1) : r = p
    BY <1>1
  <2>2. \A r \in p..(p + 1 - 1) : /\ ~AtAll(r, HTMLEndScript)
                                  /\ m = "text" => ~AtAll(r, HTMLOpens)
                                  /\ m # "text" => ~AtAll(r, HTMLCloses) /\ ~AtAll(r, HTMLScript)
    BY <1>8, <2>1
  <2> QED
    BY <1>1, <1>2, <2>2, HTMLScriptSkips
<1>9. CASE m = "text"
  <2>1. CASE At(p) = "<" /\ At(p + 1) = "/"
    <3>1. HTMLRawNext(d) = <<q, m, d[3]>>
      BY <1>5, <1>9, <2>1, Zenon
    <3>2. a = q /\ b = m /\ c = d[3]
      BY <3>1
    <3>3. ~HTMLIsRaw(p)
      BY <1>4, <1>9, <2>1
    <3>4. ~AtAll(p, HTMLOpens)
      BY <1>1, <2>1, HTMLRawWords
    <3> QED
      BY <1>7, <2>1, <3>2, <3>3, <3>4
  <2>2. CASE ~(At(p) = "<" /\ At(p + 1) = "/") /\ AtAll(p, HTMLOpens)
    <3>1. HTMLRawNext(d) = <<p + 4, "comment", d[3]>>
      BY <1>5, <1>9, <2>2, Zenon
    <3>2. a = p + 4 /\ b = "comment" /\ c = d[3]
      BY <3>1
    <3> QED
      BY <1>1, <1>9, <2>2, <3>2, HTMLScriptOpens
  <2>3. CASE ~(At(p) = "<" /\ At(p + 1) = "/") /\ ~AtAll(p, HTMLOpens) /\ At(p) # "<" /\ AtTemplate(p)
    <3>1. HTMLRawNext(d) = <<t, m, TRUE>>
      BY <1>5, <1>9, <2>3, Zenon
    <3>2. <<a, b, c>> = <<t, m, TRUE>>
      BY <3>1, Zenon
    <3>3. c = TRUE
      BY <3>2
    <3> QED
      BY <3>3
  <2>4. CASE ~(At(p) = "<" /\ At(p + 1) = "/") /\ ~AtAll(p, HTMLOpens) /\ ~(At(p) # "<" /\ AtTemplate(p))
    <3>1. HTMLRawNext(d) = <<p + 1, m, d[3]>>
      BY <1>5, <1>9, <2>4, Zenon
    <3>2. a = p + 1 /\ b = m /\ c = d[3]
      BY <3>1
    <3>3. ~AtAll(p, HTMLEndScript)
      BY <1>1, <2>4, HTMLRawWords DEF HTMLEndScript
    <3> QED
      BY <1>8, <1>9, <2>4, <3>2, <3>3
  <2> QED
    BY <2>1, <2>2, <2>3, <2>4
<1>10. CASE m # "text"
  <2>1. CASE AtAll(p, HTMLCloses)
    <3>1. HTMLRawNext(d) = <<p + 3, "text", d[3]>>
      BY <1>5, <1>10, <2>1, Zenon
    <3>2. a = p + 3 /\ b = "text" /\ c = d[3]
      BY <3>1
    <3> QED
      BY <1>1, <1>10, <2>1, <3>2, HTMLScriptCloses
  <2>2. CASE ~AtAll(p, HTMLCloses) /\ At(p) # "<"
    <3>1. HTMLRawNext(d) = <<p + 1, m, d[3]>>
      BY <1>5, <1>10, <2>2, Zenon
    <3>2. a = p + 1 /\ b = m /\ c = d[3]
      BY <3>1
    <3>3. ~AtAll(p, HTMLEndScript) /\ ~AtAll(p, HTMLScript)
      BY <1>1, <2>2, HTMLRawWords DEF HTMLEndScript
    <3> QED
      BY <1>8, <1>10, <2>2, <3>2, <3>3
  <2>3. CASE ~AtAll(p, HTMLCloses) /\ At(p) = "<" /\ ~HTMLIsRaw(p)
    <3>1. HTMLRawNext(d) = <<q, m, d[3]>>
      BY <1>5, <1>10, <2>3, Zenon
    <3>2. a = q /\ b = m /\ c = d[3]
      BY <3>1
    <3> QED
      BY <1>7, <1>10, <2>3, <3>2
  <2>4. CASE ~AtAll(p, HTMLCloses) /\ At(p) = "<" /\ HTMLIsRaw(p) /\ At(p + 1) = "/"
    <3>1. HTMLRawNext(d) = <<q, "comment", d[3]>>
      BY <1>5, <1>10, <2>4, Zenon
    <3>2. a = q /\ b = "comment" /\ c = d[3]
      BY <3>1
    <3>3. HTMLRawName(p) = p + 2 /\ m = "inScript"
      BY <1>4, <2>4 DEF HTMLRawName
    <3>4. q = p + 3 /\ At(p + 2) = "script"
      BY <1>1, <1>3, <2>4, <3>3
    <3>5. AtAll(p, HTMLEndScript)
      BY <1>1, <2>4, <3>4, HTMLRawWords DEF HTMLEndScript
    <3> QED
      BY <1>1, <3>2, <3>3, <3>4, <3>5, HTMLScriptEnds
  <2>5. CASE ~AtAll(p, HTMLCloses) /\ At(p) = "<" /\ HTMLIsRaw(p) /\ At(p + 1) # "/"
    <3>1. HTMLRawNext(d) = <<q, "inScript", d[3]>>
      BY <1>5, <1>10, <2>5, Zenon
    <3>2. a = q /\ b = "inScript" /\ c = d[3]
      BY <3>1
    <3>3. HTMLRawName(p) = p + 1
      BY <2>5 DEF HTMLRawName
    <3>4. q = p + 2 /\ At(p + 1) = "script"
      BY <1>1, <1>3, <2>5, <3>3
    <3>5. AtAll(p, HTMLScript)
      BY <1>1, <2>5, <3>4, HTMLRawWords
    <3> QED
      BY <1>1, <1>10, <3>2, <3>4, <3>5, HTMLScriptStarts
  <2> QED
    BY <2>1, <2>2, <2>3, <2>4, <2>5
<1> QED
  BY <1>9, <1>10

\* A script ends at the first end tag that is not of a script in its comments.
LEMMA HTMLRawScript ==
    ASSUME Fits(src), TemplatesFit, NEW p0, Inside(p0), rawTag = "script",
           AsTheCode("script"), ~RawEnd[<<p0, "text", FALSE>>].hasTmpl
    PROVE  LET e == RawEnd[<<p0, "text", FALSE>>].end
           IN  /\ From(p0, e)
               /\ Ended(e) \/ (AtAll(e, HTMLEndScript) /\ RawState(p0, e) # "double")
               /\ HTMLNoEnd(p0, e)
<1> DEFINE inv == {d \in Nat \X HTMLModes \X BOOLEAN : d[3] = TRUE \/ HTMLInScript(p0, d[1], d[2])}
           d0 == <<p0, "text", FALSE>>
<1>1. d0 \in inv
  <2>1. d0[1] = p0 /\ d0[2] = "text"
    OBVIOUS
  <2>2. p0 \in Nat /\ p0 <= p0 /\ "text" \in HTMLModes
    BY DEF Inside, HTMLModes
  <2>3. d0 \in Nat \X HTMLModes \X BOOLEAN
    BY <2>2
  <2>4. \A r : r \notin p0..(p0 - 1)
    BY <2>2
  <2>5. HTMLInScript(p0, p0, "text")
    BY <2>2, <2>4, HTMLRawState DEF HTMLInScript, HTMLStateOf, HTMLClean, HTMLNoEnd
  <2> HIDE DEF d0
  <2> QED
    BY <2>1, <2>3, <2>5
<1>2. ASSUME NEW d, d \in inv /\ d[1] \in Nat /\ d[2] \in HTMLModes /\ d[3] \in BOOLEAN /\ ~HTMLRawStop(d)
      PROVE  HTMLRawNext(d) \in inv
  <2>1. PICK a, b, c : /\ HTMLRawNext(d) = <<a, b, c>> /\ b \in HTMLModes /\ c \in BOOLEAN
                       /\ From(d[1], a) /\ d[1] < a
    BY <1>2, HTMLRawAdvances, Zenon
  <2>2. d[3] = TRUE \/ HTMLInScript(p0, d[1], d[2])
    BY <1>2
  <2>3. c = TRUE \/ HTMLInScript(p0, a, b)
    <3>1. CASE HTMLInScript(p0, d[1], d[2])
      <4>1. c = TRUE \/ (c = d[3] /\ HTMLInScript(p0, a, b))
        BY <1>2, <2>1, <3>1, HTMLScriptTurn, Zenon
      <4> QED
        BY <4>1
    <3>2. CASE d[3] = TRUE
      <4> DEFINE q == Past(HTMLRawName(d[1]), Letters)
                 m == IF ~HTMLIsRaw(d[1]) THEN d[2] ELSE IF At(d[1] + 1) = "/" THEN "comment" ELSE "inScript"
                 t == PastTemplate(d[1])
                 x == HTMLRawNext(d)
                 k == d[1]
                 j == d[2]
                 h == d[3]
      <4>1. x \in {<<q, j, h>>, <<k + 4, "comment", h>>, <<k + 1, j, h>>,
                   <<k + 3, "text", h>>, <<q, m, h>>, <<t, j, TRUE>>}
        BY Zenon DEF HTMLRawNext
      <4>2. x = <<a, b, c>> /\ h = TRUE
        BY <2>1, <3>2
      <4> HIDE DEF q, m, t, x, k, j, h
      <4>3. \E u, v, w : <<a, b, c>> = <<u, v, w>> /\ w = TRUE
        BY <4>1, <4>2
      <4> QED
        BY <4>3
    <3> QED
      BY <2>2, <3>1, <3>2
  <2>4. a \in Nat
    BY <2>1 DEF From, Inside
  <2> DEFINE x == HTMLRawNext(d)
  <2>5. x = <<a, b, c>>
    BY <2>1
  <2> HIDE DEF x
  <2>6. x \in Nat \X HTMLModes \X BOOLEAN /\ x[1] = a /\ x[2] = b /\ x[3] = c
    BY <2>1, <2>4, <2>5
  <2>7. x \in inv
    BY <2>3, <2>6
  <2> QED
    BY <2>7 DEF x
<1> HIDE DEF inv
<1>3. PICK e : /\ e \in inv /\ HTMLRawStop(e) /\ From(p0, e[1]) /\ e[2] \in HTMLModes
               /\ RawEnd[d0] = [end |-> e[1], hasTmpl |-> e[3]]
  BY <1>1, <1>2, HTMLRawLoop, Zenon
<1>4. e[1] \in Nat /\ (e[3] = TRUE \/ HTMLInScript(p0, e[1], e[2]))
  BY <1>3 DEF inv
<1> DEFINE x == RawEnd[d0]
<1>5. x = [end |-> e[1], hasTmpl |-> e[3]]
  BY <1>3
<1> HIDE DEF x
<1>6. x.end = e[1] /\ x.hasTmpl = e[3]
  BY <1>5
<1>7. HTMLInScript(p0, e[1], e[2])
  BY <1>4, <1>6 DEF x
<1>8. Ended(e[1]) \/ (AtAll(e[1], HTMLEndScript) /\ RawState(p0, e[1]) # "double")
  <2>1. CASE Over(e[1])
    <3>1. ~(e[1] > Len(src))
      BY <1>3, SourceFacts DEF From, Inside
    <3> QED
      BY <2>1, <3>1 DEF Over
  <2>2. CASE At(e[1]) = "<" /\ At(e[1] + 1) = "/" /\ HTMLIsRaw(e[1]) /\ e[2] # "inScript"
    <3>1. Inside(e[1])
      BY <1>3 DEF From
    <3>2. Inside(HTMLRawName(e[1])) /\ HTMLRawName(e[1]) = e[1] + 2
      BY <2>2, <3>1, HTMLSkipped DEF HTMLRawName
    <3>3. "script" \in Letters
      BY DEF Letters, RawTags
    <3>4. At(e[1] + 2) = "script"
      BY <2>2, <3>2, <3>3, HTMLRawNameIs DEF HTMLIsRaw
    <3>5. AtAll(e[1], HTMLEndScript)
      BY <1>4, <2>2, <3>4, HTMLRawWords DEF HTMLEndScript
    <3>6. RawState(p0, e[1]) # "double"
      BY <1>3, <1>7, <2>2 DEF HTMLInScript, HTMLStateOf, HTMLModes
    <3> QED
      BY <3>5, <3>6
  <2> QED
    BY <1>3, <2>1, <2>2 DEF HTMLRawStop
<1>9. HTMLNoEnd(p0, e[1])
  BY <1>7 DEF HTMLInScript
<1> QED
  BY <1>3, <1>6, <1>8, <1>9 DEF x

\* Raw text ends where the standard ends it, if the text is as the code takes
\* it to be and holds no template.
LEMMA HTMLRawTextIs ==
    ASSUME Calling, TemplatesFit, rawTag \in RawTags, AsTheCode(rawTag), ~ShiftRawText.hasTmpl
    PROVE  ShiftRawText.end = RawTextEndOf(rawTag, pos)
<1> DEFINE r == ShiftRawText
           e == r.end
<1>1. Fits(src) /\ Inside(pos)
  BY HTMLInside
<1>2. pos \in Nat /\ pos <= Len(src)
  BY <1>1 DEF Inside
<1>3. CASE rawTag = "plaintext"
  <2>1. r = [end |-> HTMLEndScan(pos), hasTmpl |-> FALSE]
    BY <1>3, Zenon DEF ShiftRawText, HTMLEndScan
  <2> HIDE DEF r
  <2>2. e = HTMLEndScan(pos)
    BY <2>1
  <2>3. e \in Nat /\ pos <= e /\ e <= Len(src) /\ Ended(e)
    BY <1>1, <1>2, <2>2, HTMLEndStops, Zenon
  <2> HIDE DEF e
  <2>4. RawTextEndOf(rawTag, pos) = e
    BY <1>1, <1>2, <1>3, <2>3, HTMLRawTextEnd
  <2> QED
    BY <2>4 DEF e, r
<1>4. CASE rawTag # "plaintext"
  <2>1. r = RawEnd[<<pos, "text", FALSE>>]
    BY <1>4, Zenon DEF ShiftRawText
  <2> HIDE DEF r
  <2>2. ~RawEnd[<<pos, "text", FALSE>>].hasTmpl
    BY <2>1 DEF r
  <2>3. e = RawEnd[<<pos, "text", FALSE>>].end
    BY <2>1
  <2>4. From(pos, e) => e \in Nat /\ pos <= e /\ e <= Len(src)
    BY DEF From, Inside
  <2>5. \A q : EndsRaw(rawTag, pos, q) <=> /\ AtAll(q, HTMLEndTag1(rawTag))
                                           /\ rawTag = "script" => RawState(pos, q) # "double"
    BY DEF EndsRaw, HTMLEndTag1
  <2>6. CASE rawTag = "script"
    <3>1. /\ From(pos, e)
          /\ Ended(e) \/ (AtAll(e, HTMLEndScript) /\ RawState(pos, e) # "double")
          /\ HTMLNoEnd(pos, e)
      BY <1>1, <2>2, <2>3, <2>6, HTMLRawScript, Zenon
    <3> HIDE DEF e
    <3>2. \A q \in pos..(e - 1) : ~EndsRaw(rawTag, pos, q)
      BY <2>5, <2>6, <3>1 DEF HTMLNoEnd, HTMLEndScript
    <3>3. Ended(e) \/ EndsRaw(rawTag, pos, e)
      BY <2>5, <2>6, <3>1 DEF HTMLEndScript
    <3>4. RawTextEndOf(rawTag, pos) = e
      BY <1>1, <1>2, <1>4, <2>4, <3>1, <3>2, <3>3, HTMLRawTextEnd
    <3> QED
      BY <3>4 DEF e, r
  <2>7. CASE rawTag # "script"
    <3>1. rawTag \in Letters
      BY DEF Letters
    <3>2. /\ From(pos, e)
          /\ Ended(e) \/ AtAll(e, HTMLEndTag1(rawTag))
          /\ \A q \in pos..(e - 1) : ~AtAll(q, HTMLEndTag1(rawTag))
      BY <1>1, <2>2, <2>3, <2>7, <3>1, HTMLRawOther, Zenon
    <3> HIDE DEF e
    <3>3. \A q \in pos..(e - 1) : ~EndsRaw(rawTag, pos, q)
      BY <2>5, <3>2
    <3>4. Ended(e) \/ EndsRaw(rawTag, pos, e)
      BY <2>5, <2>7, <3>2
    <3>5. RawTextEndOf(rawTag, pos) = e
      BY <1>1, <1>2, <1>4, <2>4, <3>2, <3>3, <3>4, HTMLRawTextEnd
    <3> QED
      BY <3>5 DEF e, r
  <2> QED
    BY <2>6, <2>7
<1> QED
  BY <1>3, <1>4

\* Raw text is of an element that has it.
RawTagKnown == rawTag \in RawTags \cup {"none"}

LEMMA HTMLRawTagStep ==
    ASSUME RawTagKnown, NextToken PROVE RawTagKnown'
<1>1. CASE StartTag
  <2>1. CASE TagName \in {<<name>> : name \in RawTags}
    <3>1. PICK name \in RawTags : TagName = <<name>>
      BY <2>1
    <3>2. TagName[1] = name
      BY <3>1
    <3>3. rawTag' = TagName[1]
      BY <1>1, <2>1, Zenon DEF StartTag
    <3> QED
      BY <3>2, <3>3 DEF RawTagKnown
  <2>2. CASE TagName \notin {<<name>> : name \in RawTags}
    <3>1. rawTag' = "none"
      BY <1>1, <2>2, Zenon DEF StartTag
    <3> QED
      BY <3>1 DEF RawTagKnown
  <2> QED
    BY <2>1, <2>2
<1>2. CASE ~StartTag
  <2>1. rawTag' = rawTag \/ rawTag' = "none"
    BY <1>2 DEF NextToken, InTagError, Attribute, TagClose, RawText, ContentError, PlainText, Template,
                EndTag, BogusComment, Comment, CDATA, Doctype, Foreign, Leaves, lexer
  <2> QED
    BY <2>1 DEF RawTagKnown
<1> QED
  BY <1>1, <1>2

\* What RawTextEnds says of one token.
SaysRaw(t) ==
    (t # NoToken /\ "raw" \in DOMAIN t.data /\ AsTheCode(t.data.raw) /\ ~t.data.hasTmpl) =>
        t.hi = RawTextEndOf(t.data.raw, t.lo)

\* Where raw text ends is a matter of the source.
LEMMA HTMLRawOfSource ==
    ASSUME src' = src
    PROVE  /\ \A name : AsTheCode(name)' <=> AsTheCode(name)
           /\ \A name, p : RawTextEndOf(name, p)' = RawTextEndOf(name, p)
<1>1. \A p : At(p)' = At(p)
  BY DEF At
<1>2. \A p, word : AtAll(p, word)' <=> AtAll(p, word)
  BY <1>1 DEF AtAll
<1>3. \A p : Ended(p)' <=> Ended(p)
  BY <1>1 DEF Ended, AtEOF
<1>4. \A name : AsTheCode(name)' <=> AsTheCode(name)
  BY <1>1, <1>2, Zenon DEF AsTheCode
<1>5. \A word, p, q : Follows(word, p, q)' <=> Follows(word, p, q)
  BY <1>2, Zenon DEF Follows
<1>6. \A p, q : RawState(p, q)' = RawState(p, q)
  <2> DEFINE Is(p, f) == f = [q \in 0..Len(src) |-> IF q <= p THEN "data" ELSE HTMLStateNext(p, q, f[q - 1])]
  <2>1. \A p, q, s : HTMLStateNext(p, q, s)' = HTMLStateNext(p, q, s)
    BY <1>5, Zenon DEF HTMLStateNext
  <2>2. \A p, q : RawState(p, q) = (CHOOSE f : Is(p, f))[q]
    BY Zenon DEF RawState, HTMLStateNext
  <2>3. \A p, q : RawState(p, q)' = (CHOOSE f : Is(p, f)')[q]
    BY Zenon DEF RawState, HTMLStateNext
  <2>4. \A p, f : Is(p, f)' <=> Is(p, f)
    BY <2>1, Zenon
  <2> HIDE DEF Is
  <2> SUFFICES ASSUME NEW p, NEW q PROVE RawState(p, q)' = RawState(p, q)
    OBVIOUS
  <2>6. RawState(p, q) = (CHOOSE f : Is(p, f))[q]
    BY <2>2, Zenon
  <2>7. RawState(p, q)' = (CHOOSE f : Is(p, f)')[q]
    BY <2>3, Zenon
  <2>8. (CHOOSE f : Is(p, f)')[q] = (CHOOSE f : Is(p, f))[q]
    <3>1. (CHOOSE f : Is(p, f)') = (CHOOSE f : Is(p, f))
      BY <2>4, Zenon
    <3> DEFINE a == CHOOSE f : Is(p, f)'
               b == CHOOSE f : Is(p, f)
    <3>2. a = b
      BY <3>1
    <3> HIDE DEF a, b
    <3>3. a[q] = b[q]
      BY <3>2
    <3> QED
      BY <3>3, Zenon DEF a, b
  <2> QED
    BY <2>6, <2>7, <2>8, Zenon
<1>7. \A name, p, q : EndsRaw(name, p, q)' <=> EndsRaw(name, p, q)
  BY <1>2, <1>6, Zenon DEF EndsRaw
<1>8. \A name, p : RawTextEndOf(name, p)' = RawTextEndOf(name, p)
  BY <1>3, <1>7, Zenon DEF RawTextEndOf, Scan
<1> QED
  BY <1>4, <1>8

LEMMA HTMLSaysRaw ==
    ASSUME src' = src
    PROVE  RawTextEnds' <=> SaysRaw(tok')
<1> QED
  BY HTMLRawOfSource, Zenon DEF RawTextEnds, SaysRaw

\* Tokens that are not raw text.
LEMMA HTMLSaysNotRaw ==
    ASSUME NEW type, NEW lo, NEW hi, NEW data, "raw" \notin DOMAIN data,
           Answers(type, lo, hi, data)
    PROVE  SaysRaw(tok')
<1> DEFINE t == tok'
<1>1. t = [type |-> type, lo |-> lo, hi |-> hi, data |-> data]
  BY DEF Answers
<1> HIDE DEF t
<1>2. t.data = data
  BY <1>1
<1>3. SaysRaw(t)
  BY <1>2 DEF SaysRaw
<1> QED
  BY <1>3 DEF t

LEMMA HTMLSaysOfRawText ==
    ASSUME Calling, TemplatesFit, RawTagKnown, RawText
    PROVE  SaysRaw(tok')
<1> DEFINE r == ShiftRawText
           data == [raw |-> rawTag, hasTmpl |-> r.hasTmpl]
           t == tok'
<1>1. Answers("Text", pos, r.end, data)
  BY Zenon DEF RawText
<1>2. t = [type |-> "Text", lo |-> pos, hi |-> r.end, data |-> data]
  BY <1>1 DEF Answers
<1>3. data = [raw |-> rawTag, hasTmpl |-> r.hasTmpl]
  OBVIOUS
<1>4. rawTag \in RawTags
  BY DEF RawText, InRawText, RawTagKnown
<1>5. AsTheCode(rawTag) /\ ~r.hasTmpl => r.end = RawTextEndOf(rawTag, pos)
  BY <1>4, HTMLRawTextIs
<1> HIDE DEF r, data, t
<1>6. t.lo = pos /\ t.hi = r.end /\ t.data = data
  BY <1>2
<1>7. data.raw = rawTag /\ data.hasTmpl = r.hasTmpl
  BY <1>3
<1>8. SaysRaw(t)
  BY <1>5, <1>6, <1>7, Zenon DEF SaysRaw
<1> QED
  BY <1>8 DEF t

\* Every call ends raw text right.
LEMMA HTMLSaysRawStep ==
    ASSUME Calling, TemplatesFit, RawTagKnown, NextToken
    PROVE  SaysRaw(tok')
<1>1. CASE Attribute
  <2> DEFINE a == AttributeAt(TagRest)
             data == [value |-> a.value, hasTmpl |-> a.hasTmpl]
  <2>1. Answers("Attribute", pos, a.end, data)
    BY <1>1, Zenon DEF Attribute
  <2>2. "raw" \notin DOMAIN data
    OBVIOUS
  <2> HIDE DEF a, data
  <2> QED
    BY <2>1, <2>2, HTMLSaysNotRaw, Zenon
<1>2. CASE RawText
  BY <1>2, HTMLSaysOfRawText
<1>3. CASE InTagError \/ ContentError
  BY <1>3 DEF InTagError, ContentError, Fails, SaysRaw
<1>4. \A name : "raw" \notin DOMAIN <<>> /\ "raw" \notin DOMAIN [name |-> name]
  OBVIOUS
<1>5. CASE TagClose
  BY <1>4, <1>5, HTMLSaysNotRaw, Zenon DEF TagClose
<1>6. CASE PlainText \/ Template
  BY <1>4, <1>6, HTMLSaysNotRaw, Zenon DEF PlainText, Template
<1>7. CASE EndTag \/ BogusComment \/ Comment
  BY <1>4, <1>7, HTMLSaysNotRaw, Zenon DEF EndTag, BogusComment, Comment
<1>8. CASE CDATA \/ Doctype
  BY <1>4, <1>8, HTMLSaysNotRaw, Zenon DEF CDATA, Doctype
<1>9. CASE StartTag
  BY <1>4, <1>9, HTMLSaysNotRaw, Zenon DEF StartTag
<1>10. CASE Foreign
  <2>1. CASE Fails(ForeignRest)
    BY <2>1 DEF Fails, SaysRaw
  <2>2. CASE ~Fails(ForeignRest)
    <3> DEFINE hi == IF At(ForeignRest) = ">" THEN ForeignRest + 1 ELSE ForeignRest
    <3>1. Answers("Foreign", pos, hi, [name |-> TagName])
      BY <1>10, <2>2, Zenon DEF Foreign
    <3> QED
      BY <1>4, <3>1, HTMLSaysNotRaw, Zenon
  <2> QED
    BY <2>1, <2>2
<1> QED
  BY <1>1, <1>2, <1>3, <1>5, <1>6, <1>7, <1>8, <1>9, <1>10 DEF NextToken

LEMMA RawTextStep ==
    ASSUME LexersInv, RawTagKnown, HTMLRawTextEnds, [LexersNext]_lexersVars
    PROVE  RawTagKnown' /\ HTMLRawTextEnds'
<1>1. CASE Calls
  <2>1. lang' = lang
    BY <1>1 DEF Calls, HTML, XML, CSS, JS, Only
  <2>2. src' = src
    BY <1>1, CallsStep, PromiseKeepsSource
  <2>3. CASE HTML
    <3>1. lang = "html" /\ NextToken /\ ahead' = ahead /\ ~ended
      BY <2>3 DEF HTML, Only, script, NextToken
    <3>2. Calling /\ TemplatesFit
      BY <2>1, <3>1 DEF Calling, LexersInv
    <3>3. RawTextEnds'
      BY <2>2, <3>1, <3>2, HTMLSaysRaw, HTMLSaysRawStep
    <3>4. RawTagKnown'
      BY <3>1, HTMLRawTagStep
    <3> QED
      BY <3>3, <3>4 DEF HTMLRawTextEnds
  <2>4. CASE ~HTML
    <3>1. lang # "html" /\ rawTag' = rawTag
      BY <1>1, <2>4 DEF Calls, XML, CSS, JS, Only, markup, C!Next, C!EndOfFile, C!Token, C!Delim
    <3> QED
      BY <2>1, <3>1 DEF RawTagKnown, HTMLRawTextEnds
  <2> QED
    BY <2>3, <2>4
<1>2. CASE UNCHANGED lexersVars
  <2>1. UNCHANGED <<lang, src, tok, rawTag>>
    BY <1>2 DEF lexersVars, markup
  <2>2. RawTextEnds' <=> SaysRaw(tok)
    BY <2>1, HTMLSaysRaw, Zenon
  <2>3. RawTextEnds <=> SaysRaw(tok)
    BY Zenon DEF RawTextEnds, SaysRaw
  <2> QED
    BY <2>1, <2>2, <2>3 DEF RawTagKnown, HTMLRawTextEnds
<1> QED
  BY <1>1, <1>2 DEF LexersNext, Done

\* The raw text of html/lex.go ends where the standard ends it, whatever the
\* source and the templates: no call takes more of it nor less.
THEOREM LexersEndRawText ==
    ASSUME NEW CONSTANT symbols, "panic" \notin symbols
    PROVE  Starts(symbols) /\ [][LexersNext]_lexersVars => []HTMLRawTextEnds
<1>1. Starts(symbols) => LexersInv /\ RawTagKnown /\ HTMLRawTextEnds
  <2>1. Starts(symbols) => tok = NoToken /\ rawTag = "none"
    BY DEF Starts, StartsLexer, InitLexer, StartsAt
  <2>2. tok = NoToken => HTMLRawTextEnds
    BY DEF HTMLRawTextEnds, RawTextEnds
  <2> QED
    BY <2>1, <2>2, StartsWell DEF RawTagKnown
<1>2. LexersInv /\ RawTagKnown /\ HTMLRawTextEnds /\ [LexersNext]_lexersVars
        => (LexersInv /\ RawTagKnown /\ HTMLRawTextEnds)'
  BY LexersStep, RawTextStep
<1> QED
  BY <1>1, <1>2, PTL

--------------------------------------------------------------------------------
(* Where tags end                                                           *)

HTMLQuoteStates == {"doubleQuoted", "singleQuoted"}

\* Where an attribute's name would begin.
HTMLNoName == {"beforeName", "afterQuoted", "selfClosing"}

LEMMA HTMLTagStates ==
    ASSUME NEW c
    PROVE  /\ TagState("doubleQuoted", c) = IF c = "\"" THEN "afterQuoted" ELSE "doubleQuoted"
           /\ TagState("singleQuoted", c) = IF c = "'" THEN "afterQuoted" ELSE "singleQuoted"
           /\ TagState("beforeValue", c) = IF c = "\"" THEN "doubleQuoted" ELSE IF c = "'" THEN "singleQuoted"
                                           ELSE IF c = " " THEN "beforeValue" ELSE "unquoted"
           /\ TagState("unquoted", c) = IF c = " " THEN "beforeName" ELSE "unquoted"
           /\ \A s \in {"name", "afterName"} :
                 TagState(s, c) = IF c = "=" THEN "beforeValue" ELSE IF c = " " THEN "afterName"
                                  ELSE IF c = "/" THEN "selfClosing" ELSE "name"
           /\ \A s \in HTMLNoName :
                 TagState(s, c) = IF c = "/" THEN "selfClosing" ELSE IF c = " " THEN "beforeName" ELSE "name"
           /\ TagState("afterName", c) = TagState("name", c)
           /\ TagState("afterQuoted", c) = TagState("beforeName", c)
           /\ TagState("selfClosing", c) = TagState("beforeName", c)
<1> DEFINE Named == IF c = "=" THEN "beforeValue" ELSE IF c = " " THEN "afterName"
                    ELSE IF c = "/" THEN "selfClosing" ELSE "name"
           Outside == IF c = "/" THEN "selfClosing" ELSE IF c = " " THEN "beforeName" ELSE "name"
<1>1. TagState("doubleQuoted", c) = IF c = "\"" THEN "afterQuoted" ELSE "doubleQuoted"
  BY DEF TagState
<1>2. TagState("singleQuoted", c) = IF c = "'" THEN "afterQuoted" ELSE "singleQuoted"
  BY DEF TagState
<1>3. TagState("beforeValue", c) = IF c = "\"" THEN "doubleQuoted" ELSE IF c = "'" THEN "singleQuoted"
                                   ELSE IF c = " " THEN "beforeValue" ELSE "unquoted"
  BY DEF TagState
<1>4. TagState("unquoted", c) = IF c = " " THEN "beforeName" ELSE "unquoted"
  BY DEF TagState
<1>5. ASSUME NEW s \in {"name", "afterName"} PROVE TagState(s, c) = Named
  BY DEF TagState
<1>6. ASSUME NEW s \in HTMLNoName PROVE TagState(s, c) = Outside
  BY DEF TagState, HTMLNoName
<1> HIDE DEF Named, Outside
<1>7. TagState("afterName", c) = TagState("name", c)
  BY <1>5
<1>8. TagState("afterQuoted", c) = TagState("beforeName", c) /\ TagState("selfClosing", c) = TagState("beforeName", c)
  BY <1>6 DEF HTMLNoName
<1> QED
  BY <1>1, <1>2, <1>3, <1>4, <1>5, <1>6, <1>7, <1>8 DEF Named, Outside

LEMMA HTMLTagState == ASSUME NEW s \in AttributeStates, NEW c PROVE TagState(s, c) \in AttributeStates
<1>1. \/ s = "doubleQuoted" \/ s = "singleQuoted" \/ s = "beforeValue" \/ s = "unquoted"
      \/ s \in {"name", "afterName"} \/ s \in HTMLNoName
  BY DEF AttributeStates, HTMLNoName
<1>2. CASE s = "doubleQuoted"
  BY <1>2, HTMLTagStates DEF AttributeStates
<1>7. CASE s = "singleQuoted"
  BY <1>7, HTMLTagStates DEF AttributeStates
<1>5. CASE s = "beforeValue"
  BY <1>5, HTMLTagStates DEF AttributeStates
<1>6. CASE s = "unquoted"
  BY <1>6, HTMLTagStates DEF AttributeStates
<1>3. CASE s \in {"name", "afterName"}
  BY <1>3, HTMLTagStates DEF AttributeStates
<1>4. CASE s \in HTMLNoName
  BY <1>4, HTMLTagStates DEF AttributeStates
<1> QED
  BY <1>1, <1>2, <1>3, <1>4, <1>5, <1>6, <1>7

HTMLUnclear == [unclear |-> TRUE]

\* TagFrom at an offset and a state, and its turns.
HTMLTag(p, s) == TagFrom[<<p, s>>]

HTMLTagStop(p, s) ==
    \/ p >= Len(src)
    \/ AtTemplate(p) /\ s = "unquoted"
    \/ ~AtTemplate(p) /\ s \in HTMLNoName /\ At(p) = "="
    \/ ~AtTemplate(p) /\ At(p) = ">" /\ s \notin HTMLQuoteStates

HTMLTagRes(p, s) ==
    IF p >= Len(src) THEN [end |-> -1]
    ELSE IF AtTemplate(p) \/ (s \in HTMLNoName /\ At(p) = "=") THEN HTMLUnclear
    ELSE [end |-> p + 1, void |-> s = "selfClosing"]

HTMLTagNext(p, s) ==
    IF AtTemplate(p) THEN <<PastTemplate(p), IF s = "beforeValue" THEN "afterQuoted" ELSE TagState(s, "x")>>
    ELSE <<p + 1, TagState(s, At(p))>>

LEMMA HTMLTagAdvances ==
    ASSUME Fits(src), TemplatesFit, NEW p \in Nat, NEW s \in AttributeStates, ~HTMLTagStop(p, s)
    PROVE  \E a, b : HTMLTagNext(p, s) = <<a, b>> /\ b \in AttributeStates /\ From(p, a) /\ p < a
<1>1. Inside(p) /\ Inside(p + 1)
  BY SourceFacts DEF HTMLTagStop, Inside
<1>2. CASE AtTemplate(p)
  <2> DEFINE a == PastTemplate(p)
             b == IF s = "beforeValue" THEN "afterQuoted" ELSE TagState(s, "x")
  <2>1. HTMLTagNext(p, s) = <<a, b>>
    BY <1>2, Zenon DEF HTMLTagNext
  <2>2. b \in AttributeStates
    BY HTMLTagState DEF AttributeStates
  <2>3. From(p, a) /\ p < a
    BY <1>2, HTMLPastTemplate
  <2> HIDE DEF a, b
  <2> QED
    BY <2>1, <2>2, <2>3
<1>3. CASE ~AtTemplate(p)
  <2>1. HTMLTagNext(p, s) = <<p + 1, TagState(s, At(p))>>
    BY <1>3, Zenon DEF HTMLTagNext
  <2>2. TagState(s, At(p)) \in AttributeStates
    BY HTMLTagState
  <2>3. From(p, p + 1) /\ p < p + 1
    BY <1>1, FromNext
  <2> QED
    BY <2>1, <2>2, <2>3
<1> QED
  BY <1>2, <1>3

\* TagFrom does as it says: its turns come to an end.
LEMMA HTMLTagFrom ==
    ASSUME Fits(src), TemplatesFit, NEW p0, Inside(p0), NEW s0 \in AttributeStates
    PROVE  HTMLTag(p0, s0) =
             IF p0 >= Len(src) THEN [end |-> -1]
             ELSE IF AtTemplate(p0)
                  THEN IF s0 = "unquoted" THEN HTMLUnclear
                       ELSE HTMLTag(PastTemplate(p0), IF s0 = "beforeValue" THEN "afterQuoted" ELSE TagState(s0, "x"))
             ELSE IF s0 \in HTMLNoName /\ At(p0) = "=" THEN HTMLUnclear
             ELSE IF At(p0) = ">" /\ s0 \notin HTMLQuoteStates THEN [end |-> p0 + 1, void |-> s0 = "selfClosing"]
             ELSE HTMLTag(p0 + 1, TagState(s0, At(p0)))
<1> DEFINE n == Len(src)
           D == Offsets \X AttributeStates
           off == [d \in D |-> d[1]]
           stop == {d \in D : HTMLTagStop(d[1], d[2])}
           res == [d \in D |-> HTMLTagRes(d[1], d[2])]
           nxt == [d \in D |-> HTMLTagNext(d[1], d[2])]
           Body(f, p, s) ==
             IF p >= Len(src) THEN [end |-> -1]
             ELSE IF AtTemplate(p)
                  THEN IF s = "unquoted" THEN HTMLUnclear
                       ELSE f[<<PastTemplate(p), IF s = "beforeValue" THEN "afterQuoted" ELSE TagState(s, "x")>>]
             ELSE IF s \in HTMLNoName /\ At(p) = "=" THEN HTMLUnclear
             ELSE IF At(p) = ">" /\ s \notin HTMLQuoteStates THEN [end |-> p + 1, void |-> s = "selfClosing"]
             ELSE f[<<p + 1, TagState(s, At(p))>>]
           Is(f) == f = [d \in D |-> Body(f, d[1], d[2])]
           g == CHOOSE f : Is(f)
<1>1. n \in Nat /\ Offsets = 0..(n + 1)
  BY SourceFacts DEF Offsets
<1>2. \A d \in D : /\ d[1] \in Nat /\ d[1] <= n + 1 /\ d[2] \in AttributeStates
                   /\ off[d] = d[1] /\ nxt[d] = HTMLTagNext(d[1], d[2]) /\ res[d] = HTMLTagRes(d[1], d[2])
  BY <1>1
<1>3. \A d \in D : d \in stop <=> HTMLTagStop(d[1], d[2])
  OBVIOUS
<1>4. off \in [D -> Nat]
  BY <1>1
<1>5. \A a \in 0..(n + 1), b \in AttributeStates : <<a, b>> \in D
  BY <1>1
<1> HIDE DEF off, stop, res, nxt, D, Is, g
<1>6. ASSUME NEW d \in D, d \notin stop
      PROVE  nxt[d] \in D /\ off[d] < off[nxt[d]] /\ (off[d] <= n => off[nxt[d]] <= n)
  <2>1. d[1] \in Nat /\ d[2] \in AttributeStates /\ off[d] = d[1] /\ nxt[d] = HTMLTagNext(d[1], d[2])
    BY <1>2
  <2>2. ~HTMLTagStop(d[1], d[2])
    BY <1>3, <1>6
  <2>3. PICK a, b : HTMLTagNext(d[1], d[2]) = <<a, b>> /\ b \in AttributeStates /\ From(d[1], a) /\ d[1] < a
    BY <2>1, <2>2, HTMLTagAdvances, Zenon
  <2>4. a \in Nat /\ a <= n /\ a \in 0..(n + 1)
    BY <1>1, <2>3 DEF From, Inside
  <2> DEFINE e == nxt[d]
  <2>5. e = <<a, b>>
    BY <2>1, <2>3
  <2> HIDE DEF e
  <2>6. e \in D
    BY <1>5, <2>3, <2>4, <2>5
  <2>7. off[e] = a
    BY <1>2, <2>5, <2>6
  <2>8. off[d] < off[e] /\ off[e] <= n
    BY <2>1, <2>3, <2>4, <2>7
  <2> QED
    BY <2>6, <2>8 DEF e
<1>7. ASSUME NEW f PROVE Is(f) <=> Turns(D, stop, res, nxt, f)
  <2>1. ASSUME NEW d \in D PROVE Body(f, d[1], d[2]) = (IF d \in stop THEN res[d] ELSE f[nxt[d]])
    <3>1. d \in stop <=> HTMLTagStop(d[1], d[2])
      BY <1>3
    <3>2. res[d] = HTMLTagRes(d[1], d[2]) /\ nxt[d] = HTMLTagNext(d[1], d[2])
      BY <1>2
    <3>3. CASE HTMLTagStop(d[1], d[2])
      <4>1. Body(f, d[1], d[2]) = HTMLTagRes(d[1], d[2])
        BY <3>3, Zenon DEF HTMLTagStop, HTMLTagRes
      <4> HIDE DEF Body
      <4> QED
        BY <3>1, <3>2, <3>3, <4>1, Zenon
    <3>4. CASE ~HTMLTagStop(d[1], d[2])
      <4>1. Body(f, d[1], d[2]) = f[HTMLTagNext(d[1], d[2])]
        BY <3>4, Zenon DEF HTMLTagStop, HTMLTagNext
      <4> HIDE DEF Body
      <4> QED
        BY <3>1, <3>2, <3>4, <4>1, Zenon
    <3> QED
      BY <3>3, <3>4
  <2> HIDE DEF Body
  <2>2. [d \in D |-> Body(f, d[1], d[2])] = [d \in D |-> IF d \in stop THEN res[d] ELSE f[nxt[d]]]
    BY <2>1, Zenon
  <2> QED
    BY <2>2, Zenon DEF Turns, Is
<1>8. Nears(n, D, off, stop, nxt)
  <2>1. \A d \in D : off[d] <= n + 1
    BY <1>2
  <2> QED
    BY <1>6, <2>1, Zenon DEF Nears
<1>9. \E f : Turns(D, stop, res, nxt, f)
  <2> HIDE DEF n
  <2> QED
    BY <1>1, <1>4, <1>8, RangeLoop, Zenon
<1>10. Is(g)
  BY <1>7, <1>9, Zenon DEF g
<1> DEFINE d0 == <<p0, s0>>
<1>11. d0 \in D
  <2>1. p0 \in 0..(n + 1)
    BY <1>1 DEF Inside
  <2> HIDE DEF n
  <2> QED
    BY <1>5, <2>1, Zenon
<1>12. d0[1] = p0 /\ d0[2] = s0
  OBVIOUS
<1> HIDE DEF d0, Body
<1>13. g[d0] = Body(g, p0, s0)
  <2>1. g[d0] = Body(g, d0[1], d0[2])
    BY <1>10, <1>11, Zenon DEF Is
  <2> QED
    BY <1>12, <2>1
<1>14. TagFrom = g
  BY Zenon DEF TagFrom, g, Is, D, Body, HTMLNoName, HTMLQuoteStates, HTMLUnclear
<1>15. TagFrom[<<p0, s0>>] = Body(TagFrom, p0, s0)
  BY <1>13, <1>14, Zenon DEF d0
<1> QED
  BY <1>15, Zenon DEF Body, HTMLTag

\* What TagFrom makes of an offset: past the source, at a template, at the end
\* of the tag, and at any other character.
LEMMA HTMLTagPast ==
    ASSUME Fits(src), TemplatesFit, NEW p, Inside(p), p >= Len(src), NEW s \in AttributeStates
    PROVE  HTMLTag(p, s) = [end |-> -1]
  BY HTMLTagFrom, Zenon

LEMMA HTMLNotPast ==
    ASSUME Fits(src), TemplatesFit, NEW p, Inside(p), AtTemplate(p) \/ ~Ended(p)
    PROVE  ~(p >= Len(src)) /\ Inside(p + 1)
<1>1. p \in Nat /\ p <= Len(src) /\ Len(src) \in Nat
  BY SourceFacts DEF Inside
<1>2. p # Len(src)
  <2>1. CASE AtTemplate(p)
    <3>1. From(p, p + Len(tmpl.open)) /\ p < p + Len(tmpl.open)
      BY <1>1, <2>1, HTMLAtTemplate
    <3> QED
      BY <1>1, <3>1 DEF From, Inside
  <2>2. CASE ~Ended(p)
    BY <1>1, <2>2, AtFacts
  <2> QED
    BY <2>1, <2>2
<1> QED
  BY <1>1, <1>2 DEF Inside

LEMMA HTMLTagTemplate ==
    ASSUME Fits(src), TemplatesFit, NEW p, Inside(p), AtTemplate(p), NEW s \in AttributeStates
    PROVE  HTMLTag(p, s) = IF s = "unquoted" THEN HTMLUnclear
                           ELSE HTMLTag(PastTemplate(p), IF s = "beforeValue" THEN "afterQuoted" ELSE TagState(s, "x"))
<1>1. ~(p >= Len(src))
  BY HTMLNotPast
<1> QED
  BY <1>1, HTMLTagFrom, Zenon

LEMMA HTMLTagCloses ==
    ASSUME Fits(src), TemplatesFit, NEW p, Inside(p), ~AtTemplate(p), At(p) = ">",
           NEW s \in AttributeStates, s \notin HTMLQuoteStates
    PROVE  HTMLTag(p, s) = [end |-> p + 1, void |-> s = "selfClosing"]
<1>1. ~Ended(p) /\ At(p) # "="
  BY DEF NUL, Ended
<1>2. ~(p >= Len(src))
  BY <1>1, HTMLNotPast
<1> QED
  BY <1>1, <1>2, HTMLTagFrom, Zenon

LEMMA HTMLTagGoesOn ==
    ASSUME Fits(src), TemplatesFit, NEW p, Inside(p), ~AtTemplate(p), ~Ended(p), NEW s \in AttributeStates,
           At(p) # ">" \/ s \in HTMLQuoteStates
    PROVE  HTMLTag(p, s) = IF s \in HTMLNoName /\ At(p) = "=" THEN HTMLUnclear
                           ELSE HTMLTag(p + 1, TagState(s, At(p)))
<1>1. ~(p >= Len(src))
  BY HTMLNotPast
<1>2. ~(At(p) = ">" /\ s \notin HTMLQuoteStates)
  OBVIOUS
<1> QED
  BY <1>1, <1>2, HTMLTagFrom, Zenon

\* States that are the same, where what follows does not tell them apart.
LEMMA HTMLTagSame ==
    ASSUME Fits(src), TemplatesFit, NEW p, Inside(p),
           NEW s \in AttributeStates \ HTMLQuoteStates, NEW r \in AttributeStates \ HTMLQuoteStates,
           AtTemplate(p) => /\ (s = "unquoted" <=> r = "unquoted")
                            /\ (s = "beforeValue" <=> r = "beforeValue")
                            /\ TagState(s, "x") = TagState(r, "x"),
           ~AtTemplate(p) /\ At(p) = ">" => (s = "selfClosing" <=> r = "selfClosing"),
           ~AtTemplate(p) /\ At(p) # ">" => /\ At(p) = "=" => (s \in HTMLNoName <=> r \in HTMLNoName)
                                            /\ ~(s \in HTMLNoName /\ At(p) = "=") => TagState(s, At(p)) = TagState(r, At(p))
    PROVE  HTMLTag(p, s) = HTMLTag(p, r)
<1>1. CASE p >= Len(src)
  <2>1. HTMLTag(p, s) = [end |-> -1] /\ HTMLTag(p, r) = [end |-> -1]
    BY <1>1, HTMLTagPast
  <2> QED
    BY <2>1
<1>2. CASE ~(p >= Len(src)) /\ AtTemplate(p)
  <2>1. CASE s = "unquoted"
    <3>1. HTMLTag(p, s) = HTMLUnclear /\ HTMLTag(p, r) = HTMLUnclear
      BY <1>2, <2>1, HTMLTagTemplate
    <3> QED
      BY <3>1
  <2>2. CASE s # "unquoted"
    <3> DEFINE b == IF s = "beforeValue" THEN "afterQuoted" ELSE TagState(s, "x")
               c == IF r = "beforeValue" THEN "afterQuoted" ELSE TagState(r, "x")
    <3>1. HTMLTag(p, s) = HTMLTag(PastTemplate(p), b) /\ HTMLTag(p, r) = HTMLTag(PastTemplate(p), c)
      BY <1>2, <2>2, HTMLTagTemplate, Zenon
    <3>2. b = c
      BY <1>2
    <3> HIDE DEF b, c
    <3> QED
      BY <3>1, <3>2
  <2> QED
    BY <2>1, <2>2
<1>3. CASE ~(p >= Len(src)) /\ ~AtTemplate(p)
  <2>1. CASE At(p) = ">"
    <3> DEFINE v == s = "selfClosing"
               w == r = "selfClosing"
    <3>1. HTMLTag(p, s) = [end |-> p + 1, void |-> v] /\ HTMLTag(p, r) = [end |-> p + 1, void |-> w]
      BY <1>3, <2>1, HTMLTagCloses, Zenon
    <3>2. v = w
      BY <1>3, <2>1
    <3> HIDE DEF v, w
    <3> QED
      BY <3>1, <3>2
  <2>2. CASE At(p) # ">"
    <3>1. ASSUME NEW z \in AttributeStates
          PROVE  HTMLTag(p, z) = IF z \in HTMLNoName /\ At(p) = "=" THEN HTMLUnclear
                                 ELSE HTMLTag(p + 1, TagState(z, At(p)))
      BY <1>3, <2>2, HTMLTagFrom, Zenon
    <3>2. CASE s \in HTMLNoName /\ At(p) = "="
      <4>1. HTMLTag(p, s) = HTMLUnclear /\ HTMLTag(p, r) = HTMLUnclear
        BY <1>3, <2>2, <3>1, <3>2
      <4> QED
        BY <4>1
    <3>3. CASE ~(s \in HTMLNoName /\ At(p) = "=")
      <4>1. ~(r \in HTMLNoName /\ At(p) = "=")
        BY <1>3, <2>2, <3>3
      <4>2. HTMLTag(p, s) = HTMLTag(p + 1, TagState(s, At(p))) /\ HTMLTag(p, r) = HTMLTag(p + 1, TagState(r, At(p)))
        BY <3>1, <3>3, <4>1, Zenon
      <4>3. TagState(s, At(p)) = TagState(r, At(p))
        BY <1>3, <2>2, <3>3
      <4> QED
        BY <4>2, <4>3
    <3> QED
      BY <3>2, <3>3
  <2> QED
    BY <2>1, <2>2
<1> QED
  BY <1>1, <1>2, <1>3

LEMMA HTMLTagSames ==
    ASSUME Fits(src), TemplatesFit, NEW p, Inside(p)
    PROVE  /\ HTMLTag(p, "afterQuoted") = HTMLTag(p, "beforeName")
           /\ HTMLTag(p, "afterName") = HTMLTag(p, "name")
           /\ AtTemplate(p) \/ At(p) # ">" => HTMLTag(p, "selfClosing") = HTMLTag(p, "beforeName")
           /\ ~AtTemplate(p) /\ At(p) \in {" ", ">"} => HTMLTag(p, "unquoted") = HTMLTag(p, "beforeName")
           /\ ~AtTemplate(p) /\ At(p) \notin {" ", "\"", "'"} => HTMLTag(p, "beforeValue") = HTMLTag(p, "unquoted")
<1> DEFINE S == AttributeStates \ HTMLQuoteStates
<1>1. /\ "afterQuoted" \in S /\ "beforeName" \in S /\ "afterName" \in S /\ "name" \in S
      /\ "selfClosing" \in S /\ "unquoted" \in S /\ "beforeValue" \in S
  BY DEF AttributeStates, HTMLQuoteStates
<1>2. HTMLTag(p, "afterQuoted") = HTMLTag(p, "beforeName")
  <2>1. \A c : TagState("afterQuoted", c) = TagState("beforeName", c)
    BY HTMLTagStates, Zenon
  <2> QED
    BY <1>1, <2>1, HTMLTagSame DEF HTMLNoName
<1>3. HTMLTag(p, "afterName") = HTMLTag(p, "name")
  <2>1. \A c : TagState("afterName", c) = TagState("name", c)
    BY HTMLTagStates, Zenon
  <2> QED
    BY <1>1, <2>1, HTMLTagSame DEF HTMLNoName
<1>4. ASSUME AtTemplate(p) \/ At(p) # ">" PROVE HTMLTag(p, "selfClosing") = HTMLTag(p, "beforeName")
  <2>1. \A c : TagState("selfClosing", c) = TagState("beforeName", c)
    BY HTMLTagStates, Zenon
  <2> QED
    BY <1>1, <1>4, <2>1, HTMLTagSame DEF HTMLNoName
<1>5. ASSUME ~AtTemplate(p), At(p) \in {" ", ">"} PROVE HTMLTag(p, "unquoted") = HTMLTag(p, "beforeName")
  <2>1. TagState("unquoted", " ") = "beforeName" /\ TagState("beforeName", " ") = "beforeName"
    BY HTMLTagStates DEF HTMLNoName
  <2>2. At(p) # "=" /\ (At(p) # ">" => At(p) = " ")
    BY <1>5
  <2> QED
    BY <1>1, <1>5, <2>1, <2>2, HTMLTagSame
<1>6. ASSUME ~AtTemplate(p), At(p) \notin {" ", "\"", "'"} PROVE HTMLTag(p, "beforeValue") = HTMLTag(p, "unquoted")
  <2>1. TagState("beforeValue", At(p)) = "unquoted" /\ TagState("unquoted", At(p)) = "unquoted"
    BY <1>6, HTMLTagStates
  <2>2. "beforeValue" \notin HTMLNoName /\ "unquoted" \notin HTMLNoName
    BY DEF HTMLNoName
  <2> QED
    BY <1>1, <1>6, <2>1, <2>2, HTMLTagSame
<1> QED
  BY <1>2, <1>3, <1>4, <1>5, <1>6

\* What fails at no offset without failing at a later one fails nowhere.
LEMMA Downward ==
    ASSUME NEW n \in Nat, NEW S \in SUBSET (0..n), \A p \in S : \E q \in S : p < q
    PROVE  S = {}
<1> DEFINE R == {r \in Nat : r <= n /\ n - r \in S}
<1> SUFFICES ASSUME S # {} PROVE FALSE
  OBVIOUS
<1>1. PICK p \in S : TRUE
  OBVIOUS
<1>2. n - p \in R
  OBVIOUS
<1>3. PICK r \in R : \A m \in R : r <= m
  BY <1>2, LeastNumber
<1>4. PICK q \in S : n - r < q
  BY <1>3
<1>5. n - q \in R /\ n - q < r
  BY <1>3, <1>4
<1> QED
  BY <1>3, <1>5

\* No template begins with what ends a name or a value.
OpensApart == tmpl.open = <<>> \/ tmpl.open[1] \notin {" ", "=", ">", "/"}

LEMMA HTMLApart ==
    ASSUME TemplatesFit, OpensApart, NEW q \in Nat, At(q) \in {" ", "=", ">", "/"}
    PROVE  ~AtTemplate(q)
  BY HTMLTemplateBegins DEF OpensApart

\* Blanks before a name, after one, or before a value.
LEMMA HTMLTagBlanks ==
    ASSUME Fits(src), TemplatesFit, OpensApart, NEW p, Inside(p), NEW q, From(p, q), BlanksBetween(p, q),
           NEW s \in {"beforeName", "name", "beforeValue"}
    PROVE  HTMLTag(p, s) = HTMLTag(q, s)
<1> DEFINE n == Len(src)
           S == {r \in 0..n : p <= r /\ r <= q /\ HTMLTag(r, s) # HTMLTag(q, s)}
<1>1. n \in Nat /\ p \in 0..n /\ q \in 0..n /\ p <= q
  BY SourceFacts DEF Inside, From
<1>5. \A r : r \in S <=> r \in 0..n /\ p <= r /\ r <= q /\ HTMLTag(r, s) # HTMLTag(q, s)
  OBVIOUS
<1> HIDE DEF S
<1>2. ASSUME NEW r \in S PROVE \E t \in S : r < t
  <2>1. r \in 0..n /\ r \in Nat /\ p <= r /\ r <= q /\ HTMLTag(r, s) # HTMLTag(q, s) /\ r # q
    BY <1>1, <1>5
  <2>2. At(r) = " "
    <3>1. r \in p..(q - 1)
      BY <1>1, <2>1
    <3> QED
      BY <3>1 DEF BlanksBetween
  <2>3. Inside(r) /\ Inside(r + 1) /\ r < r + 1 /\ r + 1 <= q /\ r + 1 \in 0..n
    BY <1>1, <2>1 DEF Inside
  <2>4. ~AtTemplate(r) /\ ~Ended(r)
    BY <2>1, <2>2, HTMLApart DEF NUL, Ended
  <2>5. s \in AttributeStates
    BY DEF AttributeStates
  <2>6. HTMLTag(r, s) = HTMLTag(r + 1, TagState(s, " "))
    BY <2>2, <2>3, <2>4, <2>5, HTMLTagGoesOn
  <2>7. HTMLTag(r + 1, TagState(s, " ")) = HTMLTag(r + 1, s)
    <3>1. CASE s = "beforeName"
      <4>1. "beforeName" \in HTMLNoName
        BY DEF HTMLNoName
      <4>2. TagState("beforeName", " ") = "beforeName"
        BY <4>1, HTMLTagStates
      <4> QED
        BY <3>1, <4>2
    <3>2. CASE s = "name"
      <4>1. TagState("name", " ") = "afterName"
        BY HTMLTagStates
      <4> QED
        BY <2>3, <3>2, <4>1, HTMLTagSames
    <3>3. CASE s = "beforeValue"
      <4>1. TagState("beforeValue", " ") = "beforeValue"
        BY HTMLTagStates
      <4> QED
        BY <3>3, <4>1
    <3> QED
      BY <3>1, <3>2, <3>3
  <2>8. r + 1 \in S
    <3>1. p <= r + 1
      BY <1>1, <2>1
    <3> QED
      BY <1>5, <2>1, <2>3, <2>6, <2>7, <3>1
  <2> QED
    BY <2>3, <2>8
<1>3. S \in SUBSET (0..n)
  BY <1>5
<1> HIDE DEF n
<1>4. S = {}
  BY <1>1, <1>2, <1>3, Downward
<1> QED
  BY <1>1, <1>4, <1>5

\* Templates one after the other, in a quoted value or in a name.
LEMMA HTMLTagTemplates ==
    ASSUME Fits(src), TemplatesFit, NEW p, Inside(p), NEW s \in HTMLQuoteStates \cup {"name"}
    PROVE  HTMLTag(p, s) = HTMLTag(PastTemplates[p], s)
<1> DEFINE n == Len(src)
           S == {r \in 0..n : HTMLTag(r, s) # HTMLTag(PastTemplates[r], s)}
<1>1. n \in Nat /\ p \in 0..n
  BY SourceFacts DEF Inside
<1>2. ASSUME NEW r \in S PROVE \E t \in S : r < t
  <2>1. r \in 0..n /\ r \in Nat /\ HTMLTag(r, s) # HTMLTag(PastTemplates[r], s)
    BY <1>1
  <2>2. Inside(r)
    BY <1>1, <2>1 DEF Inside
  <2>3. PastTemplates[r] = IF AtTemplate(r) THEN PastTemplates[PastTemplate(r)] ELSE r
    BY <2>2, HTMLPastTemplatesStop
  <2>4. AtTemplate(r)
    BY <2>1, <2>3
  <2> DEFINE t == PastTemplate(r)
  <2>5. From(r, t) /\ r < t
    BY <2>1, <2>4, HTMLPastTemplate
  <2>6. HTMLTag(r, s) = HTMLTag(t, s)
    <3>1. s \in AttributeStates /\ s # "unquoted" /\ s # "beforeValue"
      BY DEF AttributeStates, HTMLQuoteStates
    <3>2. HTMLTag(r, s) = HTMLTag(t, TagState(s, "x"))
      BY <2>2, <2>4, <3>1, HTMLTagTemplate
    <3>3. TagState(s, "x") = s
      <4>1. CASE s = "name"
        BY <4>1, HTMLTagStates
      <4>2. CASE s = "doubleQuoted"
        BY <4>2, HTMLTagStates
      <4>3. CASE s = "singleQuoted"
        BY <4>3, HTMLTagStates
      <4> QED
        BY <4>1, <4>2, <4>3 DEF HTMLQuoteStates
    <3> QED
      BY <3>2, <3>3
  <2>7. PastTemplates[r] = PastTemplates[t]
    BY <2>3, <2>4
  <2> HIDE DEF t
  <2>8. t \in 0..n
    BY <1>1, <2>5 DEF From, Inside
  <2>9. t \in S
    BY <2>1, <2>6, <2>7, <2>8
  <2> QED
    BY <2>5, <2>9
<1>3. S \in SUBSET (0..n)
  OBVIOUS
<1> HIDE DEF S, n
<1>4. S = {}
  BY <1>1, <1>2, <1>3, Downward
<1> QED
  BY <1>1, <1>4 DEF S

\* t is what TagFrom makes of the offset p between two attributes, or unclear.
Between(t, p) == t = HTMLUnclear \/ t = HTMLTag(p, "beforeName") \/ t = HTMLTag(p, "name")

LEMMA HTMLTagPastTemplates ==
    ASSUME Fits(src), TemplatesFit, NEW p, Inside(p), NEW t, Between(t, p)
    PROVE  Between(t, PastTemplates[p])
<1>1. HTMLTag(p, "name") = HTMLTag(PastTemplates[p], "name")
  BY HTMLTagTemplates
<1>2. CASE t = HTMLTag(p, "beforeName")
  <2>1. CASE AtTemplate(p)
    <3> DEFINE q == PastTemplate(p)
    <3>1. "beforeName" \in AttributeStates /\ "beforeName" \in HTMLNoName
      BY DEF AttributeStates, HTMLNoName
    <3>2. HTMLTag(p, "beforeName") = HTMLTag(q, TagState("beforeName", "x"))
      BY <2>1, <3>1, HTMLTagTemplate
    <3>3. TagState("beforeName", "x") = "name"
      BY <3>1, HTMLTagStates
    <3>4. Inside(q)
      BY <2>1, HTMLPastTemplate DEF From, Inside
    <3>5. HTMLTag(q, "name") = HTMLTag(PastTemplates[q], "name")
      BY <3>4, HTMLTagTemplates
    <3>6. PastTemplates[p] = PastTemplates[q]
      BY <2>1, HTMLPastTemplatesStop
    <3> QED
      BY <1>2, <3>2, <3>3, <3>5, <3>6 DEF Between
  <2>2. CASE ~AtTemplate(p)
    <3>1. PastTemplates[p] = p
      BY <2>2, HTMLPastTemplates
    <3> QED
      BY <3>1
  <2> QED
    BY <2>1, <2>2
<1> QED
  BY <1>1, <1>2 DEF Between

\* A turn of a name: over a template or a character that does not end it.
LEMMA HTMLNameTurn ==
    ASSUME Fits(src), TemplatesFit, NEW p, Inside(p), NEW s \in {"beforeName", "name"},
           AtTemplate(p) \/ ~(At(p) \in WS \cup {"=", ">"} \/ (At(p) = "/" /\ At(p + 1) = ">") \/ Over(p))
    PROVE  \E q : /\ From(p, q) /\ p < q /\ NameEnd[p] = NameEnd[q]
                  /\ \E r \in {"beforeName", "name"} : HTMLTag(p, s) = HTMLTag(q, r)
<1>1. s \in AttributeStates /\ s # "unquoted" /\ s # "beforeValue" /\ s \notin HTMLQuoteStates
  BY DEF AttributeStates, HTMLQuoteStates
<1>2. p \in Nat
  BY DEF Inside
<1>3. NameEnd[p] = IF AtTemplate(p) THEN NameEnd[PastTemplate(p)]
          ELSE IF At(p) \in WS \cup {"=", ">"} \/ (At(p) = "/" /\ At(p + 1) = ">") \/ Over(p) THEN p
          ELSE NameEnd[p + 1]
  BY HTMLNameEndStops
<1>4. "beforeName" \in HTMLNoName
  BY DEF HTMLNoName
<1>5. CASE AtTemplate(p)
  <2> DEFINE q == PastTemplate(p)
  <2>1. From(p, q) /\ p < q /\ NameEnd[p] = NameEnd[q]
    BY <1>2, <1>3, <1>5, HTMLPastTemplate
  <2>2. HTMLTag(p, s) = HTMLTag(q, TagState(s, "x"))
    BY <1>1, <1>5, HTMLTagTemplate
  <2>3. TagState(s, "x") = "name"
    <3>1. CASE s = "beforeName"
      BY <1>4, <3>1, HTMLTagStates
    <3>2. CASE s = "name"
      BY <3>2, HTMLTagStates
    <3> QED
      BY <3>1, <3>2
  <2> HIDE DEF q
  <2> QED
    BY <2>1, <2>2, <2>3
<1>6. CASE ~AtTemplate(p)
  <2>1. /\ At(p) # " " /\ At(p) # "=" /\ At(p) # ">" /\ ~(At(p) = "/" /\ At(p + 1) = ">") /\ ~Over(p)
    BY <1>6 DEF WS
  <2>2. Inside(p + 1) /\ p < p + 1 /\ ~Ended(p)
    <3>1. Inside(p + 1)
      BY <1>2, <2>1, HTMLOver
    <3>2. ~Ended(p)
      BY <2>1 DEF Over
    <3> QED
      BY <1>2, <3>1, <3>2
  <2>3. From(p, p + 1) /\ NameEnd[p] = NameEnd[p + 1]
    BY <1>3, <1>6, <2>1, <2>2, FromNext DEF WS
  <2>4. HTMLTag(p, s) = HTMLTag(p + 1, TagState(s, At(p)))
    BY <1>1, <1>6, <2>1, <2>2, HTMLTagGoesOn
  <2>5. TagState(s, At(p)) = IF At(p) = "/" THEN "selfClosing" ELSE "name"
    <3>1. CASE s = "beforeName"
      BY <1>4, <2>1, <3>1, HTMLTagStates
    <3>2. CASE s = "name"
      BY <2>1, <3>2, HTMLTagStates
    <3> QED
      BY <3>1, <3>2
  <2>6. CASE At(p) = "/"
    <3>1. HTMLTag(p + 1, "selfClosing") = HTMLTag(p + 1, "beforeName")
      BY <2>1, <2>2, <2>6, HTMLTagSames
    <3>2. HTMLTag(p, s) = HTMLTag(p + 1, "beforeName")
      BY <2>4, <2>5, <2>6, <3>1
    <3> QED
      BY <2>2, <2>3, <3>2
  <2>7. CASE At(p) # "/"
    <3>1. HTMLTag(p, s) = HTMLTag(p + 1, "name")
      BY <2>4, <2>5, <2>7
    <3> QED
      BY <2>2, <2>3, <3>1
  <2> QED
    BY <2>6, <2>7
<1> QED
  BY <1>5, <1>6

\* An attribute's name, if any.
LEMMA HTMLTagName ==
    ASSUME Fits(src), TemplatesFit, NEW p, Inside(p), NEW t, Between(t, p)
    PROVE  Between(t, NameEnd[p])
<1> DEFINE n == Len(src)
           S == {r \in 0..n : \E s \in {"beforeName", "name"} : ~Between(HTMLTag(r, s), NameEnd[r])}
<1>1. n \in Nat /\ p \in 0..n
  BY SourceFacts DEF Inside
<1>2. \A r : r \in S <=> r \in 0..n /\ \E s \in {"beforeName", "name"} : ~Between(HTMLTag(r, s), NameEnd[r])
  OBVIOUS
<1> HIDE DEF S
<1>3. ASSUME NEW r \in S PROVE \E q \in S : r < q
  <2>1. PICK s \in {"beforeName", "name"} : ~Between(HTMLTag(r, s), NameEnd[r])
    BY <1>2
  <2>2. Inside(r)
    BY <1>1, <1>2 DEF Inside
  <2>3. AtTemplate(r) \/ ~(At(r) \in WS \cup {"=", ">"} \/ (At(r) = "/" /\ At(r + 1) = ">") \/ Over(r))
    <3> SUFFICES ASSUME ~AtTemplate(r), At(r) \in WS \cup {"=", ">"} \/ (At(r) = "/" /\ At(r + 1) = ">") \/ Over(r)
                 PROVE  FALSE
      OBVIOUS
    <3>1. NameEnd[r] = r
      BY <2>2, HTMLNameEndStops
    <3> QED
      BY <2>1, <3>1 DEF Between
  <2>4. PICK q : /\ From(r, q) /\ r < q /\ NameEnd[r] = NameEnd[q]
                 /\ \E z \in {"beforeName", "name"} : HTMLTag(r, s) = HTMLTag(q, z)
    BY <2>2, <2>3, HTMLNameTurn
  <2>5. PICK z \in {"beforeName", "name"} : HTMLTag(r, s) = HTMLTag(q, z)
    BY <2>4
  <2>6. ~Between(HTMLTag(q, z), NameEnd[q])
    BY <2>1, <2>4, <2>5
  <2>7. q \in 0..n
    BY <1>1, <2>4 DEF From, Inside
  <2> QED
    BY <1>2, <2>4, <2>6, <2>7
<1>4. S \in SUBSET (0..n)
  BY <1>2
<1> HIDE DEF n
<1>5. S = {}
  BY <1>1, <1>3, <1>4, Downward
<1>6. \A s \in {"beforeName", "name"} : Between(HTMLTag(p, s), NameEnd[p])
  BY <1>1, <1>2, <1>5
<1>7. t = HTMLUnclear \/ t = HTMLTag(p, "beforeName") \/ t = HTMLTag(p, "name")
  BY DEF Between
<1>8. CASE t = HTMLUnclear
  BY <1>8 DEF Between
<1> QED
  BY <1>6, <1>7, <1>8

\* The state of a value that a quote has opened.
HTMLDelim(delim, s) == (delim = "\"" /\ s = "doubleQuoted") \/ (delim = "'" /\ s = "singleQuoted")

LEMMA HTMLDelims ==
    ASSUME NEW delim, NEW s, HTMLDelim(delim, s)
    PROVE  /\ delim \in Quotes /\ delim # NUL /\ s \in HTMLQuoteStates /\ s \notin HTMLNoName
           /\ s \in AttributeStates
           /\ \A c : TagState(s, c) = IF c = delim THEN "afterQuoted" ELSE s
           /\ TagState("beforeValue", delim) = s
<1>1. CASE delim = "\"" /\ s = "doubleQuoted"
  BY <1>1, HTMLTagStates DEF Quotes, NUL, HTMLQuoteStates, HTMLNoName, AttributeStates
<1>2. CASE delim = "'" /\ s = "singleQuoted"
  BY <1>2, HTMLTagStates DEF Quotes, NUL, HTMLQuoteStates, HTMLNoName, AttributeStates
<1> QED
  BY <1>1, <1>2 DEF HTMLDelim

\* A quoted value, from after the quote that opens it.
LEMMA HTMLTagQuoted ==
    ASSUME Fits(src), TemplatesFit, NEW p, Inside(p), NEW delim, NEW s, HTMLDelim(delim, s)
    PROVE  HTMLTag(p, s) = HTMLTag(InQuotes(p, delim), "beforeName")
<1> DEFINE n == Len(src)
           S == {r \in 0..n : HTMLTag(r, s) # HTMLTag(InQuotes(r, delim), "beforeName")}
<1>0. /\ s \in HTMLQuoteStates /\ s \notin HTMLNoName /\ s \in AttributeStates
      /\ "beforeName" \in AttributeStates /\ delim \in Quotes /\ delim # NUL
  BY HTMLDelims DEF AttributeStates
<1>1. n \in Nat /\ p \in 0..n
  BY SourceFacts DEF Inside
<1>2. \A r : r \in S <=> r \in 0..n /\ HTMLTag(r, s) # HTMLTag(InQuotes(r, delim), "beforeName")
  OBVIOUS
<1> HIDE DEF S
<1>3. ASSUME NEW r \in S PROVE \E q \in S : r < q
  <2>1. r \in Nat /\ Inside(r) /\ HTMLTag(r, s) # HTMLTag(InQuotes(r, delim), "beforeName")
    BY <1>1, <1>2 DEF Inside
  <2>2. InQuotes(r, delim) = IF AtTemplate(r) THEN InQuotes(PastTemplates[r], delim)
             ELSE IF At(r) = delim THEN r + 1
             ELSE IF Over(r) THEN r
             ELSE InQuotes(r + 1, delim)
    BY <1>0, <2>1, HTMLInQuotesStops, Zenon
  <2>3. CASE AtTemplate(r)
    <3> DEFINE q == PastTemplates[r]
    <3>1. From(r, q) /\ r < q
      BY <2>1, <2>3, HTMLPastTemplates
    <3>2. HTMLTag(r, s) = HTMLTag(q, s)
      BY <1>0, <2>1, HTMLTagTemplates
    <3>3. InQuotes(r, delim) = InQuotes(q, delim)
      BY <2>2, <2>3
    <3> HIDE DEF q
    <3>4. q \in 0..n
      BY <1>1, <3>1 DEF From, Inside
    <3>5. q \in S
      BY <1>2, <2>1, <3>2, <3>3, <3>4
    <3> QED
      BY <3>1, <3>5
  <2>4. CASE ~AtTemplate(r) /\ At(r) = delim
    <3>1. ~Ended(r)
      BY <1>0, <2>4 DEF Ended, NUL
    <3>2. Inside(r + 1)
      BY <2>1, <3>1, HTMLNotPast
    <3>3. HTMLTag(r, s) = HTMLTag(r + 1, TagState(s, At(r)))
      BY <1>0, <2>1, <2>4, <3>1, HTMLTagGoesOn
    <3>4. TagState(s, At(r)) = "afterQuoted"
      BY <2>4, HTMLDelims
    <3>5. HTMLTag(r + 1, "afterQuoted") = HTMLTag(r + 1, "beforeName")
      BY <3>2, HTMLTagSames
    <3> QED
      BY <2>1, <2>2, <2>4, <3>3, <3>4, <3>5
  <2>5. CASE ~AtTemplate(r) /\ At(r) # delim /\ Over(r)
    <3>1. InQuotes(r, delim) = r
      BY <2>2, <2>5
    <3>2. r >= Len(src)
      BY <2>1, <2>5, SourceFacts DEF Over, Ended, AtEOF
    <3>3. HTMLTag(r, s) = [end |-> -1] /\ HTMLTag(r, "beforeName") = [end |-> -1]
      BY <1>0, <2>1, <3>2, HTMLTagPast
    <3> QED
      BY <2>1, <3>1, <3>3
  <2>6. CASE ~AtTemplate(r) /\ At(r) # delim /\ ~Over(r)
    <3>1. ~Ended(r) /\ Inside(r + 1) /\ r < r + 1
      <4>1. Inside(r + 1)
        BY <2>1, <2>6, HTMLOver
      <4>2. ~Ended(r)
        BY <2>6 DEF Over
      <4> QED
        BY <2>1, <4>1, <4>2
    <3>2. HTMLTag(r, s) = HTMLTag(r + 1, TagState(s, At(r)))
      BY <1>0, <2>1, <2>6, <3>1, HTMLTagGoesOn
    <3>3. TagState(s, At(r)) = s
      BY <2>6, HTMLDelims
    <3>4. InQuotes(r, delim) = InQuotes(r + 1, delim)
      BY <2>2, <2>6
    <3>5. r + 1 \in 0..n
      BY <1>1, <3>1 DEF Inside
    <3>6. r + 1 \in S
      BY <1>2, <2>1, <3>2, <3>3, <3>4, <3>5
    <3> QED
      BY <3>1, <3>6
  <2> QED
    BY <2>3, <2>4, <2>5, <2>6
<1>4. S \in SUBSET (0..n)
  BY <1>2
<1> HIDE DEF n
<1>5. S = {}
  BY <1>1, <1>3, <1>4, Downward
<1> QED
  BY <1>1, <1>2, <1>5

\* A value without quotes.
LEMMA HTMLTagUnquoted ==
    ASSUME Fits(src), TemplatesFit, OpensApart, NEW p, Inside(p)
    PROVE  \/ HTMLTag(p, "unquoted") = HTMLUnclear
           \/ HTMLTag(p, "unquoted") = HTMLTag(Unquoted(p), "beforeName")
<1> DEFINE n == Len(src)
           e == Unquoted(p)
           Right(r) == HTMLTag(r, "unquoted") = HTMLUnclear \/ HTMLTag(r, "unquoted") = HTMLTag(e, "beforeName")
           S == {r \in 0..n : p <= r /\ r <= e /\ ~Right(r)}
<1>0. "unquoted" \in AttributeStates /\ "beforeName" \in AttributeStates /\ "unquoted" \notin HTMLNoName
  BY DEF AttributeStates, HTMLNoName
<1>1. n \in Nat /\ p \in 0..n /\ p \in Nat /\ p <= n
  BY SourceFacts DEF Inside
<1>2. /\ e \in Nat /\ p <= e /\ e <= n
      /\ At(e) \in WS \cup {">"} \/ Ended(e)
      /\ \A r \in p..(e - 1) : ~(At(r) \in WS \cup {">"} \/ Ended(r))
  BY <1>1, HTMLUnquotedStops, Zenon
<1>3. \A r : r \in S <=> r \in 0..n /\ p <= r /\ r <= e /\ ~Right(r)
  OBVIOUS
<1> HIDE DEF S, e
<1>4. Right(e)
  <2>1. Inside(e)
    BY <1>2 DEF Inside
  <2>2. CASE At(e) \in WS \cup {">"}
    <3>1. At(e) \in {" ", ">"}
      BY <2>2 DEF WS
    <3>2. ~AtTemplate(e)
      BY <1>2, <3>1, HTMLApart
    <3> QED
      BY <2>1, <3>1, <3>2, HTMLTagSames
  <2>3. CASE Ended(e)
    <3>1. e >= Len(src)
      BY <2>3 DEF Ended, AtEOF
    <3>2. HTMLTag(e, "unquoted") = [end |-> -1] /\ HTMLTag(e, "beforeName") = [end |-> -1]
      BY <1>0, <2>1, <3>1, HTMLTagPast
    <3> QED
      BY <3>2
  <2> QED
    BY <1>2, <2>2, <2>3
<1>5. ASSUME NEW r \in S PROVE \E q \in S : r < q
  <2>1. r \in Nat /\ p <= r /\ r <= e /\ ~Right(r) /\ r # e
    BY <1>1, <1>3, <1>4
  <2>2. r \in p..(e - 1) /\ Inside(r) /\ Inside(r + 1)
    BY <1>1, <1>2, <2>1 DEF Inside
  <2>3. At(r) # " " /\ At(r) # ">" /\ ~Ended(r)
    BY <1>2, <2>2 DEF WS
  <2>4. ~AtTemplate(r)
    <3> SUFFICES ASSUME AtTemplate(r) PROVE FALSE
      OBVIOUS
    <3>1. HTMLTag(r, "unquoted") = HTMLUnclear
      BY <1>0, <2>2, HTMLTagTemplate
    <3> QED
      BY <2>1, <3>1
  <2>5. HTMLTag(r, "unquoted") = HTMLTag(r + 1, TagState("unquoted", At(r)))
    BY <1>0, <2>2, <2>3, <2>4, HTMLTagGoesOn
  <2>6. TagState("unquoted", At(r)) = "unquoted"
    BY <2>3, HTMLTagStates
  <2>7. ~Right(r + 1)
    BY <2>1, <2>5, <2>6
  <2> HIDE DEF Right
  <2>8. r + 1 \in 0..n /\ p <= r + 1 /\ r + 1 <= e /\ r < r + 1
    BY <1>1, <1>2, <2>1
  <2> QED
    BY <1>3, <2>7, <2>8
<1>6. S \in SUBSET (0..n)
  BY <1>3
<1> HIDE DEF n, Right
<1>7. S = {}
  BY <1>1, <1>5, <1>6, Downward
<1>8. Right(p)
  BY <1>1, <1>2, <1>3, <1>7
<1> QED
  BY <1>8 DEF Right, e

\* A value, where it begins.
LEMMA HTMLTagValue ==
    ASSUME Fits(src), TemplatesFit, OpensApart, NEW p, Inside(p), At(p) \notin WS
    PROVE  Between(HTMLTag(p, "beforeValue"), ValueEnd(p))
<1> DEFINE t == HTMLTag(p, "beforeValue")
<1>1. "beforeValue" \in AttributeStates /\ "beforeValue" \notin HTMLNoName /\ "afterQuoted" \in AttributeStates
  BY DEF AttributeStates, HTMLNoName
<1>2. CASE AtTemplate(p)
  <2> DEFINE q == PastTemplate(p)
  <2>1. t = HTMLTag(q, "afterQuoted")
    BY <1>1, <1>2, HTMLTagTemplate
  <2>2. p \in Nat /\ Inside(q)
    BY <1>2, HTMLPastTemplate DEF From, Inside
  <2>3. t = HTMLTag(q, "beforeName")
    BY <2>1, <2>2, HTMLTagSames
  <2>4. Between(t, PastTemplates[q])
    BY <2>2, <2>3, HTMLTagPastTemplates DEF Between
  <2>5. ValueEnd(p) = PastTemplates[p] /\ PastTemplates[p] = PastTemplates[q]
    BY <1>2, HTMLPastTemplatesStop, Zenon DEF ValueEnd
  <2> QED
    BY <2>4, <2>5
<1>3. CASE ~AtTemplate(p) /\ At(p) \in Quotes
  <2> DEFINE delim == At(p)
  <2>1. PICK s : HTMLDelim(delim, s)
    BY <1>3, Zenon DEF Quotes, HTMLDelim
  <2>2. delim # NUL /\ s \notin HTMLQuoteStates \cap HTMLNoName /\ TagState("beforeValue", delim) = s
    BY <2>1, HTMLDelims
  <2>3. ~Ended(p) /\ At(p) # ">"
    BY <1>3, <2>2 DEF Ended, Quotes
  <2>4. Inside(p + 1)
    BY <2>3, HTMLNotPast
  <2>5. t = HTMLTag(p + 1, s)
    BY <1>1, <1>3, <2>2, <2>3, HTMLTagGoesOn, Zenon
  <2>6. HTMLTag(p + 1, s) = HTMLTag(InQuotes(p + 1, delim), "beforeName")
    BY <2>1, <2>4, HTMLTagQuoted
  <2>7. ValueEnd(p) = InQuotes(p + 1, delim)
    BY <1>3, Zenon DEF ValueEnd
  <2> QED
    BY <2>5, <2>6, <2>7, Zenon DEF Between
<1>4. CASE ~AtTemplate(p) /\ At(p) \notin Quotes
  <2>1. At(p) \notin {" ", "\"", "'"}
    BY <1>4, Zenon DEF WS, Quotes
  <2>2. t = HTMLTag(p, "unquoted")
    BY <1>4, <2>1, HTMLTagSames, Zenon
  <2>3. ValueEnd(p) = Unquoted(p)
    BY <1>4, Zenon DEF ValueEnd
  <2> QED
    BY <2>2, <2>3, HTMLTagUnquoted DEF Between
<1> QED
  BY <1>2, <1>3, <1>4

\* An attribute: TagFrom comes from its begin to its end.
LEMMA HTMLTagAttribute ==
    ASSUME Fits(src), TemplatesFit, OpensApart, NEW p, Inside(p), NEW t, Between(t, p)
    PROVE  Between(t, AttributeAt(p).end)
<1> DEFINE e == HTMLNameEndFrom(p)
           eq == HTMLEq(p)
           v == HTMLValue(p)
           w == HTMLValueEndFrom(p)
<1>1. /\ From(p, e) /\ From(e, eq) /\ BlanksBetween(e, eq) /\ From(e, w)
      /\ At(eq) = "=" => From(eq + 1, v) /\ BlanksBetween(eq + 1, v)
  BY HTMLAttributeParts, Zenon
<1>2. Inside(e) /\ Inside(eq) /\ Inside(w)
  BY <1>1 DEF From
<1>3. Between(t, e)
  <2>1. Between(t, PastTemplates[p]) /\ Inside(PastTemplates[p])
    BY HTMLTagPastTemplates, HTMLPastTemplates DEF From
  <2> QED
    BY <2>1, HTMLTagName DEF HTMLNameEndFrom
<1>4. AttributeAt(p).end = PastTemplates[w]
  BY HTMLAttributeFields, Zenon
<1>5. CASE At(eq) # "="
  <2>1. w = e
    BY <1>5 DEF HTMLValueEndFrom
  <2> QED
    BY <1>2, <1>3, <1>4, <2>1, HTMLTagPastTemplates
<1>6. CASE At(eq) = "="
  <2>1. Between(t, eq)
    <3>1. HTMLTag(e, "beforeName") = HTMLTag(eq, "beforeName") /\ HTMLTag(e, "name") = HTMLTag(eq, "name")
      BY <1>1, <1>2, HTMLTagBlanks
    <3> QED
      BY <1>3, <3>1 DEF Between
  <2>2. eq \in Nat /\ ~AtTemplate(eq) /\ ~Ended(eq) /\ At(eq) # ">"
    BY <1>2, <1>6, HTMLApart DEF Ended, NUL, Inside
  <2>3. HTMLTag(eq, "beforeName") = HTMLUnclear
    BY <1>2, <1>6, <2>2, HTMLTagGoesOn DEF AttributeStates, HTMLNoName
  <2>4. HTMLTag(eq, "name") = HTMLTag(eq + 1, "beforeValue")
    <3>1. "name" \in AttributeStates /\ "name" \notin HTMLNoName
      BY DEF AttributeStates, HTMLNoName
    <3>2. TagState("name", "=") = "beforeValue"
      BY HTMLTagStates
    <3> QED
      BY <1>2, <1>6, <2>2, <3>1, <3>2, HTMLTagGoesOn
  <2>5. Inside(eq + 1) /\ Inside(v) /\ At(v) \notin WS
    <3>1. Inside(eq + 1)
      BY <1>2, <2>2, HTMLNotPast
    <3>2. Inside(v)
      BY <1>1, <1>6 DEF From
    <3>3. At(v) \notin WS
      BY <3>1, HTMLOfChars, HTMLPastFrom DEF HTMLValue
    <3> QED
      BY <3>1, <3>2, <3>3
  <2>6. HTMLTag(eq + 1, "beforeValue") = HTMLTag(v, "beforeValue")
    BY <1>1, <1>6, <2>5, HTMLTagBlanks
  <2>7. Between(HTMLTag(v, "beforeValue"), w)
    <3>1. w = ValueEnd(v)
      BY <1>6 DEF HTMLValueEndFrom
    <3> QED
      BY <2>5, <3>1, HTMLTagValue
  <2>8. Between(t, w)
    BY <2>1, <2>3, <2>4, <2>6, <2>7 DEF Between
  <2> QED
    BY <1>2, <1>4, <2>8, HTMLTagPastTemplates
<1> QED
  BY <1>5, <1>6

\* Where a tag ends is a matter of the source and the templates.
LEMMA HTMLTagOfSource ==
    ASSUME src' = src, tmpl' = tmpl
    PROVE  TagFrom' = TagFrom
<1>1. \A p : At(p)' = At(p)
  BY DEF At
<1>2. \A p, word : AtAll(p, word)' <=> AtAll(p, word)
  BY <1>1 DEF AtAll
<1>3. \A p : (Ended(p)' <=> Ended(p)) /\ (Over(p)' <=> Over(p))
  BY <1>1 DEF Ended, AtEOF, Over
<1>4. \A p : AtTemplate(p)' <=> AtTemplate(p)
  BY <1>2 DEF AtTemplate
<1>5. Offsets' = Offsets
  BY DEF Offsets
<1>6. \A p, q : Escape(p, q)' <=> Escape(p, q)
  <2> SUFFICES ASSUME NEW p, NEW q PROVE Escape(p, q)' <=> Escape(p, q)
    OBVIOUS
  <2> DEFINE Is(f) == f = [r \in 0..Len(src) |-> r > p + 1 /\ At(r - 1) = "\\" /\ ~f[r - 1]]
             a == CHOOSE f : Is(f)
             b == CHOOSE f : Is(f)'
  <2>1. Escape(p, q) = a[q]
    BY Zenon DEF Escape
  <2>2. Escape(p, q)' = b[q]
    BY Zenon DEF Escape
  <2>3. \A f : Is(f)' <=> Is(f)
    BY <1>1, Zenon
  <2> HIDE DEF Is
  <2>4. b = a
    BY <2>3, Zenon
  <2> HIDE DEF a, b
  <2> QED
    BY <2>1, <2>2, <2>4, Zenon
<1>7. \A p : QuoteEnd(p)' = QuoteEnd(p)
  BY <1>1, <1>3, <1>6, Zenon DEF QuoteEnd, Scan
<1>8. TemplateEnd' = TemplateEnd
  <2> DEFINE Body(f, p) ==
               IF Over(p) THEN p
               ELSE IF AtAll(p, tmpl.close) THEN p + Len(tmpl.close)
               ELSE IF At(p) \in Quotes
                    THEN LET q == QuoteEnd(p) IN IF Ended(q) THEN q ELSE f[q + 1]
               ELSE f[p + 1]
             Is(f) == f = [p \in Offsets |-> Body(f, p)]
  <2>1. TemplateEnd = CHOOSE f : Is(f)
    BY Zenon DEF TemplateEnd
  <2>2. TemplateEnd' = CHOOSE f : Is(f)'
    BY Zenon DEF TemplateEnd
  <2>3. \A f, p : Body(f, p)' = Body(f, p)
    BY <1>1, <1>2, <1>3, <1>7, Zenon
  <2> HIDE DEF Body
  <2>4. \A f : Is(f)' <=> Is(f)
    BY <1>5, <2>3, Zenon
  <2> HIDE DEF Is
  <2> QED
    BY <2>1, <2>2, <2>4, Zenon
<1>9. \A p : PastTemplate(p)' = PastTemplate(p)
  BY <1>8, Zenon DEF PastTemplate
<1>10. TagFrom' = TagFrom
  <2> DEFINE Body(f, p, s) ==
               IF p >= Len(src) THEN [end |-> -1]
               ELSE IF AtTemplate(p)
                    THEN IF s = "unquoted" THEN HTMLUnclear
                         ELSE f[<<PastTemplate(p), IF s = "beforeValue" THEN "afterQuoted" ELSE TagState(s, "x")>>]
               ELSE IF s \in HTMLNoName /\ At(p) = "=" THEN HTMLUnclear
               ELSE IF At(p) = ">" /\ s \notin HTMLQuoteStates THEN [end |-> p + 1, void |-> s = "selfClosing"]
               ELSE f[<<p + 1, TagState(s, At(p))>>]
             Is(f) == f = [d \in Offsets \X AttributeStates |-> Body(f, d[1], d[2])]
  <2>1. TagFrom = CHOOSE f : Is(f)
    BY Zenon DEF TagFrom, HTMLNoName, HTMLQuoteStates, HTMLUnclear
  <2>2. TagFrom' = CHOOSE f : Is(f)'
    BY Zenon DEF TagFrom, HTMLNoName, HTMLQuoteStates, HTMLUnclear
  <2>3. ASSUME NEW f, NEW p, NEW s PROVE Body(f, p, s)' = Body(f, p, s)
    <3>1. (At(p)' = At(p)) /\ (AtTemplate(p)' <=> AtTemplate(p)) /\ PastTemplate(p)' = PastTemplate(p)
      BY <1>1, <1>4, <1>9, Zenon
    <3>2. CASE AtTemplate(p)
      BY <3>1, <3>2, Zenon
    <3>3. CASE ~AtTemplate(p)
      BY <3>1, <3>3, Zenon
    <3> QED
      BY <3>2, <3>3
  <2> HIDE DEF Body
  <2>4. \A f : Is(f)' <=> Is(f)
    BY <1>5, <2>3, Zenon
  <2> HIDE DEF Is
  <2> QED
    BY <2>1, <2>2, <2>4, Zenon
<1> QED
  BY <1>10

\* In a tag, TagFrom comes from the end of the tag's name to where the lexer is.
InTagRight ==
    inTag /\ ~ended => tagStart # NoToken /\ Between(HTMLTag(tagStart.hi, "beforeName"), pos)

\* What TagEnds says of a token, a start tag and a lexer.
SaysTag(t, start, error) ==
    LET tag == HTMLTag(start.hi, "beforeName")
    IN  (start # NoToken /\ "end" \in DOMAIN tag) =>
           /\ t.type \in {"StartTagClose", "StartTagVoid"} =>
                 t.hi = tag.end /\ (tag.void <=> t.type = "StartTagVoid")
           /\ error => tag.end = -1

LEMMA HTMLSaysTag ==
    ASSUME src' = src, tmpl' = tmpl
    PROVE  /\ TagEnds' <=> SaysTag(tok', tagStart', inTag' /\ ended')
           /\ \A p, s : HTMLTag(p, s)' = HTMLTag(p, s)
  BY HTMLTagOfSource, Zenon DEF TagEnds, SaysTag, HTMLTag

\* Of other tokens, and as long as there is no error in a tag, it says nothing.
LEMMA HTMLSaysNoTag ==
    ASSUME NEW type, type \notin {"StartTagClose", "StartTagVoid"}, NEW lo, NEW hi, NEW data, NEW start,
           Answers(type, lo, hi, data)
    PROVE  SaysTag(tok', start, FALSE)
<1> DEFINE t == tok'
<1>1. t = [type |-> type, lo |-> lo, hi |-> hi, data |-> data]
  BY DEF Answers
<1> HIDE DEF t
<1>2. t.type = type
  BY <1>1
<1>3. SaysTag(t, start, FALSE)
  BY <1>2, Zenon DEF SaysTag
<1> QED
  BY <1>3 DEF t

\* From where the lexer is to the next attribute, or the end of the tag.
LEMMA HTMLTagToRest ==
    ASSUME Calling, TemplatesFit, OpensApart, NEW t, Between(t, pos)
    PROVE  Between(t, TagRest)
<1>1. Fits(src) /\ Inside(pos) /\ From(pos, TagRest) /\ BlanksBetween(pos, TagRest)
  BY HTMLInside, HTMLTagRest
<1>2. HTMLTag(pos, "beforeName") = HTMLTag(TagRest, "beforeName") /\ HTMLTag(pos, "name") = HTMLTag(TagRest, "name")
  BY <1>1, HTMLTagBlanks
<1> QED
  BY <1>2 DEF Between

LEMMA HTMLRightAttribute ==
    ASSUME Calling, TemplatesFit, OpensApart, Attribute, InTagRight, src' = src, tmpl' = tmpl
    PROVE  InTagRight' /\ TagEnds'
<1> DEFINE a == AttributeAt(TagRest)
           data == [value |-> a.value, hasTmpl |-> a.hasTmpl]
           t == HTMLTag(tagStart.hi, "beforeName")
<1>1. Answers("Attribute", pos, a.end, data) /\ inTag /\ inTag' = inTag /\ tagStart' = tagStart
  BY Zenon DEF Attribute, lexer
<1>2. Fits(src) /\ Inside(TagRest) /\ ~ended
  BY HTMLInside, HTMLTagRest DEF Calling, From
<1>3. tagStart # NoToken /\ Between(t, TagRest)
  BY <1>1, <1>2, HTMLTagToRest DEF InTagRight
<1>4. Between(t, a.end)
  BY <1>2, <1>3, HTMLTagAttribute
<1> HIDE DEF a, data, t
<1>5. pos' = a.end /\ ended' = ended
  BY <1>1 DEF Answers
<1>6. InTagRight'
  <2>1. \A p, s : HTMLTag(p, s)' = HTMLTag(p, s)
    BY HTMLSaysTag
  <2>2. HTMLTag(tagStart.hi, "beforeName")' = t
    BY <1>1, HTMLTagOfSource DEF HTMLTag, t
  <2>3. Between(HTMLTag(tagStart.hi, "beforeName"), pos)' <=> Between(t, a.end)
    BY <1>5, <2>2, HTMLTagOfSource, Zenon DEF Between, HTMLTag
  <2> QED
    BY <1>1, <1>3, <1>4, <2>3 DEF InTagRight
<1>7. SaysTag(tok', tagStart', FALSE)
  BY <1>1, HTMLSaysNoTag
<1>8. TagEnds'
  <2>1. ~(inTag' /\ ended')
    BY <1>2, <1>5
  <2> QED
    BY <1>7, <2>1, HTMLSaysTag, Zenon DEF SaysTag
<1> QED
  BY <1>6, <1>8

LEMMA HTMLRightClose ==
    ASSUME Calling, TemplatesFit, OpensApart, TagClose, InTagRight, src' = src, tmpl' = tmpl
    PROVE  InTagRight' /\ TagEnds'
<1> DEFINE t == HTMLTag(tagStart.hi, "beforeName")
           p == TagRest
<1>1. inTag /\ inTag' = FALSE /\ tagStart' = tagStart /\ TagIsClosing(p)
  BY Zenon DEF TagClose
<1>2. Fits(src) /\ Inside(p) /\ ~ended
  BY HTMLInside, HTMLTagRest DEF Calling, From
<1>3. tagStart # NoToken /\ Between(t, p)
  BY <1>1, <1>2, HTMLTagToRest DEF InTagRight
<1>4. InTagRight'
  BY <1>1 DEF InTagRight
<1>5. /\ "beforeName" \in AttributeStates /\ "name" \in AttributeStates /\ "selfClosing" \in AttributeStates
      /\ HTMLQuoteStates \cap {"beforeName", "name", "selfClosing"} = {}
      /\ "name" \notin HTMLNoName /\ "beforeName" \in HTMLNoName
  BY DEF AttributeStates, HTMLQuoteStates, HTMLNoName
<1>6. ASSUME NEW type, NEW hi, Answers(type, p, hi, <<>>),
             t = HTMLUnclear \/ t = [end |-> hi, void |-> type = "StartTagVoid"]
      PROVE  TagEnds'
  <2> DEFINE k == tok'
             v == type = "StartTagVoid"
  <2>1. k = [type |-> type, lo |-> p, hi |-> hi, data |-> <<>>]
    BY <1>6 DEF Answers
  <2>2. v <=> type = "StartTagVoid"
    OBVIOUS
  <2>3. t = HTMLUnclear \/ t = [end |-> hi, void |-> v]
    BY <1>6
  <2> HIDE DEF k, t, v
  <2>4. k.type = type /\ k.hi = hi
    BY <2>1
  <2>5. "end" \in DOMAIN t => t.end = hi /\ t.void = v
    BY <2>3 DEF HTMLUnclear
  <2>6. SaysTag(k, tagStart, FALSE)
    BY <2>2, <2>4, <2>5, Zenon DEF SaysTag, t
  <2>7. SaysTag(tok', tagStart', inTag' /\ ended')
    BY <1>1, <2>6, Zenon DEF SaysTag, k
  <2> QED
    BY <2>7, HTMLSaysTag
<1>7. CASE At(p) = ">"
  <2>1. Answers("StartTagClose", p, p + 1, <<>>)
    BY <1>7, Zenon DEF TagClose
  <2>2. p \in Nat /\ ~AtTemplate(p)
    BY <1>2, <1>7, HTMLApart DEF Inside
  <2>3. ASSUME NEW s \in {"beforeName", "name"}
        PROVE  HTMLTag(p, s) = [end |-> p + 1, void |-> "StartTagClose" = "StartTagVoid"]
    <3>1. HTMLTag(p, s) = [end |-> p + 1, void |-> s = "selfClosing"]
      BY <1>2, <1>5, <1>7, <2>2, HTMLTagCloses
    <3>2. (s = "selfClosing") = ("StartTagClose" = "StartTagVoid")
      OBVIOUS
    <3> QED
      BY <3>1, <3>2
  <2> QED
    <3>1. t = HTMLUnclear \/ t = [end |-> p + 1, void |-> "StartTagClose" = "StartTagVoid"]
      BY <1>3, <2>3, Zenon DEF Between
    <3>2. TagEnds'
      BY <1>6, <2>1, <3>1, Zenon
    <3> QED
      BY <1>4, <3>2
<1>8. CASE At(p) # ">"
  <2>1. At(p) = "/" /\ At(p + 1) = ">"
    BY <1>1, <1>8 DEF TagIsClosing
  <2>2. Answers("StartTagVoid", p, p + 2, <<>>)
    BY <2>1, Zenon DEF TagClose
  <2>3. p \in Nat /\ ~AtTemplate(p) /\ ~Ended(p) /\ At(p) # "="
    BY <1>2, <2>1, HTMLApart DEF Inside, Ended, NUL
  <2>4. Inside(p + 1) /\ p + 1 \in Nat /\ ~AtTemplate(p + 1) /\ p + 1 + 1 = p + 2
    <3>1. Inside(p + 1)
      BY <1>2, <2>3, HTMLNotPast
    <3>2. p + 1 \in Nat /\ p + 1 + 1 = p + 2
      BY <2>3
    <3>3. ~AtTemplate(p + 1)
      BY <2>1, <3>2, HTMLApart
    <3> QED
      BY <3>1, <3>2, <3>3
  <2>5. HTMLTag(p + 1, "selfClosing") = [end |-> p + 2, void |-> "StartTagVoid" = "StartTagVoid"]
    <3>1. HTMLTag(p + 1, "selfClosing") = [end |-> p + 1 + 1, void |-> "selfClosing" = "selfClosing"]
      BY <1>2, <1>5, <2>1, <2>4, HTMLTagCloses
    <3>2. ("selfClosing" = "selfClosing") = ("StartTagVoid" = "StartTagVoid")
      OBVIOUS
    <3> QED
      BY <2>4, <3>1, <3>2
  <2>6. ASSUME NEW s \in {"beforeName", "name"} PROVE HTMLTag(p, s) = HTMLTag(p + 1, "selfClosing")
    <3>1. HTMLTag(p, s) = HTMLTag(p + 1, TagState(s, "/"))
      BY <1>2, <1>5, <1>8, <2>1, <2>3, HTMLTagGoesOn
    <3>2. TagState("beforeName", "/") = "selfClosing" /\ TagState("name", "/") = "selfClosing"
      BY <1>5, HTMLTagStates
    <3> QED
      BY <3>1, <3>2
  <2> QED
    <3>1. t = HTMLUnclear \/ t = [end |-> p + 2, void |-> "StartTagVoid" = "StartTagVoid"]
      BY <1>3, <2>5, <2>6, Zenon DEF Between
    <3>2. TagEnds'
      BY <1>6, <2>2, <3>1, Zenon
    <3> QED
      BY <1>4, <3>2
<1> QED
  BY <1>4, <1>7, <1>8

LEMMA HTMLRightError ==
    ASSUME Calling, TemplatesFit, OpensApart, InTagError, InTagRight, src' = src, tmpl' = tmpl
    PROVE  InTagRight' /\ TagEnds'
<1> DEFINE t == HTMLTag(tagStart.hi, "beforeName")
           p == TagRest
<1>1. inTag /\ Ended(p) /\ tok' = NoToken /\ ended' = TRUE /\ tagStart' = tagStart
  BY DEF InTagError, Fails, lexer
<1>2. Fits(src) /\ Inside(p) /\ ~ended
  BY HTMLInside, HTMLTagRest DEF Calling, From
<1>3. tagStart # NoToken /\ Between(t, p)
  BY <1>1, <1>2, HTMLTagToRest DEF InTagRight
<1>4. t = HTMLUnclear \/ t = [end |-> -1]
  <2>1. p >= Len(src)
    BY <1>1 DEF Ended, AtEOF
  <2>2. HTMLTag(p, "beforeName") = [end |-> -1] /\ HTMLTag(p, "name") = [end |-> -1]
    BY <1>2, <2>1, HTMLTagPast DEF AttributeStates
  <2> QED
    BY <1>3, <2>2 DEF Between
<1> HIDE DEF t, p
<1>5. "end" \in DOMAIN t => t.end = -1
  BY <1>4 DEF HTMLUnclear
<1>6. NoToken.type \notin {"StartTagClose", "StartTagVoid"}
  BY DEF NoToken
<1>7. SaysTag(NoToken, tagStart, TRUE) /\ SaysTag(NoToken, tagStart, FALSE)
  BY <1>5, <1>6, Zenon DEF SaysTag, t
<1>8. TagEnds'
  BY <1>1, <1>7, HTMLSaysTag, Zenon DEF SaysTag
<1> QED
  BY <1>1, <1>8 DEF InTagRight

LEMMA HTMLRightStart ==
    ASSUME Calling, TemplatesFit, StartTag, src' = src, tmpl' = tmpl
    PROVE  InTagRight' /\ TagEnds'
<1> DEFINE t == tok'
           hi == TagNameEnd
           data == [name |-> TagName]
<1>1. Answers("StartTag", pos, hi, data) /\ tagStart' = t
  BY Zenon DEF StartTag
<1>2. t.hi = hi /\ t # NoToken /\ pos' = hi /\ ended' = ended /\ ~ended
  BY <1>1, AnswersToken DEF Calling
<1> HIDE DEF t, hi, data
<1>3. InTagRight'
  BY <1>1, <1>2 DEF InTagRight, Between
<1>4. SaysTag(tok', tagStart', FALSE)
  BY <1>1, HTMLSaysNoTag
<1>5. ~(inTag' /\ ended')
  BY <1>2
<1> QED
  BY <1>3, <1>4, <1>5, HTMLSaysTag, Zenon DEF SaysTag

\* The other calls leave no tag open and answer other tokens.
LEMMA HTMLRightOther ==
    ASSUME Calling, NextToken, ~InTagError, ~Attribute, ~TagClose, ~StartTag, src' = src, tmpl' = tmpl
    PROVE  InTagRight' /\ TagEnds'
<1>1. ~ended
  BY DEF Calling
<1>2. CASE Foreign
  <2>1. /\ tagStart' = NoToken /\ ~inTag
        /\ inTag' = inTag \/ ended' = TRUE
    BY <1>2, Zenon DEF Foreign, MarkupAt, InContent, Fails
  <2>2. TagEnds'
    BY <2>1, HTMLSaysTag, Zenon DEF SaysTag
  <2> QED
    BY <2>1, <2>2 DEF InTagRight
<1>3. CASE ~Foreign
  <2>1. ~inTag /\ inTag' = inTag
    BY <1>3 DEF NextToken, RawText, InRawText, ContentError, PlainText, Template, EndTag, BogusComment,
                Comment, CDATA, Doctype, MarkupAt, InContent, Leaves
  <2>2. SaysTag(tok', tagStart', FALSE)
    <3>1. CASE ContentError
      <4>1. tok' = NoToken /\ NoToken.type \notin {"StartTagClose", "StartTagVoid"}
        BY <3>1 DEF ContentError, Fails, NoToken
      <4> QED
        BY <4>1, Zenon DEF SaysTag
    <3>2. \A type \in {"Text", "Template", "EndTag", "Comment", "Doctype"} :
             type \notin {"StartTagClose", "StartTagVoid"}
      OBVIOUS
    <3>3. \/ ContentError
          \/ \E type \in {"Text", "Template", "EndTag", "Comment", "Doctype"} :
                \E lo, hi, data : Answers(type, lo, hi, data)
      BY <1>3, Zenon DEF NextToken, RawText, PlainText, Template, EndTag, BogusComment, Comment, CDATA, Doctype
    <3> QED
      BY <3>1, <3>2, <3>3, HTMLSaysNoTag, Zenon
  <2>3. ~(inTag' /\ ended')
    BY <2>1
  <2>4. TagEnds'
    BY <2>2, <2>3, HTMLSaysTag, Zenon DEF SaysTag
  <2> QED
    BY <2>1, <2>4 DEF InTagRight
<1> QED
  BY <1>2, <1>3

\* Every call keeps what it needs and ends a tag right.
LEMMA HTMLRightStep ==
    ASSUME Calling, TemplatesFit, OpensApart, NextToken, InTagRight, src' = src, tmpl' = tmpl
    PROVE  InTagRight' /\ TagEnds'
<1>1. CASE InTagError
  BY <1>1, HTMLRightError
<1>2. CASE Attribute
  BY <1>2, HTMLRightAttribute
<1>3. CASE TagClose
  BY <1>3, HTMLRightClose
<1>4. CASE StartTag
  BY <1>4, HTMLRightStart
<1>5. CASE ~InTagError /\ ~Attribute /\ ~TagClose /\ ~StartTag
  BY <1>5, HTMLRightOther
<1> QED
  BY <1>1, <1>2, <1>3, <1>4, <1>5

\* The invariant that TagEnds needs.
TagEndsInv ==
    /\ LexersInv
    /\ OpensApart
    /\ lang = "html" => InTagRight
    /\ HTMLTagEnds

LEMMA TagEndsStep ==
    ASSUME TagEndsInv, [LexersNext]_lexersVars
    PROVE  TagEndsInv'
<1>1. LexersInv'
  BY LexersStep DEF TagEndsInv
<1>2. CASE Calls
  <2>1. lang' = lang
    BY <1>2 DEF Calls, HTML, XML, CSS, JS, Only
  <2>2. src' = src
    BY <1>2, CallsStep, PromiseKeepsSource DEF TagEndsInv
  <2>3. CASE HTML
    <3>1. lang = "html" /\ NextToken /\ ahead' = ahead /\ ~ended
      BY <2>3 DEF HTML, Only, script, NextToken
    <3>2. Calling /\ TemplatesFit
      BY <2>1, <3>1 DEF Calling, LexersInv, TagEndsInv
    <3>3. tmpl' = tmpl
      BY <3>1, TemplatesKept
    <3>4. InTagRight' /\ TagEnds'
      BY <2>2, <3>1, <3>2, <3>3, HTMLRightStep DEF TagEndsInv
    <3>5. OpensApart'
      BY <3>3 DEF TagEndsInv, OpensApart
    <3> QED
      BY <1>1, <3>4, <3>5 DEF TagEndsInv, HTMLTagEnds
  <2>4. CASE ~HTML
    <3>1. lang # "html" /\ tmpl' = tmpl
      BY <1>2, <2>4 DEF Calls, XML, CSS, JS, Only, markup, C!Next, C!EndOfFile, C!Token, C!Delim
    <3>2. OpensApart'
      BY <3>1 DEF TagEndsInv, OpensApart
    <3> QED
      BY <1>1, <2>1, <3>1, <3>2 DEF TagEndsInv, HTMLTagEnds
  <2> QED
    BY <2>3, <2>4
<1>3. CASE UNCHANGED lexersVars
  <2>1. UNCHANGED <<lang, src, pos, tok, ended, inTag, tmpl, tagStart>>
    BY <1>3 DEF lexersVars, markup
  <2>2. TagFrom' = TagFrom
    BY <2>1, HTMLTagOfSource
  <2>3. (TagEnds' <=> TagEnds) /\ (InTagRight' <=> InTagRight)
    BY <2>1, <2>2 DEF TagEnds, InTagRight, Between, HTMLTag
  <2>4. OpensApart'
    BY <2>1 DEF TagEndsInv, OpensApart
  <2> QED
    BY <1>1, <2>1, <2>3, <2>4 DEF TagEndsInv, HTMLTagEnds
<1> QED
  BY <1>2, <1>3 DEF LexersNext, Done

\* The tags of html/lex.go end where the standard ends them, and are void when
\* it says so, whatever the source and the templates: unless the delimiter of
\* a template begins with what ends a name or a value.
THEOREM LexersEndTags ==
    ASSUME NEW CONSTANT symbols, "panic" \notin symbols
    PROVE  Starts(symbols) /\ OpensApart /\ [][LexersNext]_lexersVars => []HTMLTagEnds
<1>1. Starts(symbols) /\ OpensApart => TagEndsInv
  <2>1. Starts(symbols) => ~inTag /\ tagStart = NoToken
    BY DEF Starts, StartsLexer, InitLexer
  <2>2. tagStart = NoToken => HTMLTagEnds
    BY DEF HTMLTagEnds, TagEnds
  <2> QED
    BY <2>1, <2>2, StartsWell DEF TagEndsInv, InTagRight
<1>2. TagEndsInv /\ [LexersNext]_lexersVars => TagEndsInv'
  BY TagEndsStep
<1>3. TagEndsInv => HTMLTagEnds
  BY DEF TagEndsInv
<1> QED
  BY <1>1, <1>2, <1>3, PTL
================================================================================
