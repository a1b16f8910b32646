--------------------------- MODULE CSSParser_proofs ---------------------------
(***************************************************************************)
(* Proofs about CSSParser, for brackets of any depth and any source.       *)
(***************************************************************************)
EXTENDS CSSParser, SequenceTheorems, TLAPS

States == Bottom \cup Block

\* A stack of state functions with the bottom one at the bottom and there only.
Stack(s) ==
    /\ s \in Seq(States) /\ s # <<>>
    /\ \A i \in DOMAIN s : s[i] \in Bottom <=> i = 1

\* The level as every function finds it and must leave it before the end: the
\* loops that do not count brackets run at level 0, and an unknown at-rule has
\* no loop.
Calm ==
    /\ Last(state) # "AtRuleUnknown" =>
          /\ running = "idle" => level = 0
          /\ running # "DeclarationError" => 0 <= level
    /\ running \in {"List", "Star", "CustomProperty"} => level = 0
    /\ Last(state) = "AtRuleUnknown" => running = "idle"
    /\ prevEnd => level = 0

\* The parser's blocks, but for one whose } is already read.
Owed == IF prevEnd THEN 1 ELSE 0
Blocks == Len(state) - 1 - Owed

\* The brackets open in the source are the parser's blocks and in them those of
\* its level, so that at level 0 only a } matches.
Nested ==
    matched /\ ~lost /\ ~eof =>
        /\ Len(open) = Blocks + level /\ 0 <= level
        /\ \A i \in 1..Blocks : open[i] = "lbrace"

\* The units that begin and end a block with state function f.
BeginUnit(f) == IF f = "QualifiedRuleDeclarationList" THEN "BeginRuleset" ELSE "BeginAtRule"
EndUnit(f) == IF f = "QualifiedRuleDeclarationList" THEN "EndRuleset" ELSE "EndAtRule"

\* The client is due the End units of the stack's blocks, in their order.
Due ==
    /\ Len(due) = Len(state) - 1
    /\ \A i \in 1..Len(due) : due[i] = EndUnit(state[i + 1])

\* At the end the stack is at its bottom.
AtBottom == gt = "EOF" /\ ~lost => Len(state) = 1

Inv ==
    /\ TypeOK /\ Nested /\ Due /\ AtBottom
    /\ ~eof => Calm
    /\ prevEnd => ~eof

--------------------------------------------------------------------------------
(* Stacks *)

LEMMA FrontProperties ==
    ASSUME NEW S, NEW s \in Seq(S), Len(s) > 0
    PROVE  /\ Front(s) \in Seq(S) /\ Len(Front(s)) = Len(s) - 1
           /\ \A i \in 1..(Len(s) - 1) : Front(s)[i] = s[i]
<1> DEFINE n == Len(s) - 1
<1>1. n \in Nat /\ Len(s) \in Nat
  BY LenProperties
<1>2. \A i \in 1..n : s[i] \in S
  BY <1>1, ElementOfSeq
<1> HIDE DEF n
<1>3. /\ SubSeq(s, 1, n) \in Seq(S) /\ Len(SubSeq(s, 1, n)) = n
      /\ \A i \in 1..n : SubSeq(s, 1, n)[i] = s[i]
  BY <1>1, <1>2, SubSeqProperties
<1> QED
  BY <1>3 DEF n, Front

LEMMA StackPush ==
    ASSUME NEW s, Stack(s), NEW f \in Block
    PROVE  /\ Stack(Append(s, f)) /\ Len(Append(s, f)) = Len(s) + 1
           /\ Last(Append(s, f)) = f
<1>1. f \in States /\ f \notin Bottom
  BY DEF States, Block, Bottom
<1>2. s \in Seq(States) /\ Len(s) \in Nat /\ Len(s) > 0
  BY EmptySeq, LenProperties DEF Stack
<1>3. /\ Append(s, f) \in Seq(States) /\ Len(Append(s, f)) = Len(s) + 1
      /\ \A i \in 1..Len(s) : Append(s, f)[i] = s[i]
      /\ Append(s, f)[Len(s) + 1] = f
  BY <1>1, <1>2, AppendProperties
<1>4. DOMAIN Append(s, f) = 1..(Len(s) + 1) /\ DOMAIN s = 1..Len(s)
  BY <1>2, <1>3, LenProperties
<1>5. \A i \in DOMAIN Append(s, f) : Append(s, f)[i] \in Bottom <=> i = 1
  <2> TAKE i \in DOMAIN Append(s, f)
  <2>1. CASE i \in 1..Len(s)
    BY <2>1, <1>3, <1>4 DEF Stack
  <2>2. CASE i = Len(s) + 1
    BY <2>2, <1>1, <1>2, <1>3
  <2> QED
    BY <2>1, <2>2, <1>2, <1>4
<1>6. Append(s, f) # <<>>
  BY <1>2, <1>3
<1> QED
  BY <1>3, <1>5, <1>6 DEF Stack, Last

LEMMA StackPop ==
    ASSUME NEW s, Stack(s), Len(s) > 1
    PROVE  Stack(Front(s)) /\ Len(Front(s)) = Len(s) - 1
<1>1. s \in Seq(States) /\ Len(s) \in Nat /\ DOMAIN s = 1..Len(s)
  BY LenProperties DEF Stack
<1>3. /\ Front(s) \in Seq(States) /\ Len(Front(s)) = Len(s) - 1
      /\ \A i \in 1..(Len(s) - 1) : Front(s)[i] = s[i]
  <2>1. Len(s) > 0
    BY <1>1
  <2> QED
    BY <1>1, <2>1, FrontProperties, Zenon
<1>4. DOMAIN Front(s) = 1..(Len(s) - 1)
  BY <1>3, LenProperties
<1>5. \A i \in DOMAIN Front(s) : Front(s)[i] \in Bottom <=> i = 1
  BY <1>1, <1>3, <1>4 DEF Stack
<1>6. Front(s) # <<>>
  BY <1>1, <1>3
<1> QED
  BY <1>3, <1>5, <1>6 DEF Stack

\* The top is the bottom function just if it stands alone.
LEMMA StackTop ==
    ASSUME NEW s, Stack(s)
    PROVE  /\ Len(s) \in Nat
           /\ Len(s) = 1 \/ Len(s) > 1
           /\ Last(s) \in States
           /\ Last(s) \in Bottom <=> Len(s) = 1
<1>1. s \in Seq(States) /\ Len(s) \in Nat /\ DOMAIN s = 1..Len(s)
  BY LenProperties DEF Stack
<1>2. Len(s) > 0
  BY <1>1, EmptySeq DEF Stack
<1>3. Len(s) \in DOMAIN s
  BY <1>1, <1>2
<1>4. s[Len(s)] \in States
  BY <1>1, <1>2, ElementOfSeq
<1> QED
  BY <1>1, <1>2, <1>3, <1>4 DEF Stack, Last

--------------------------------------------------------------------------------
(* What one token does *)

\* No matching source has t here.
Stray(t) == t \in Closing /\ level = 0 /\ (t = "rparen" \/ Len(state) = 1)

Balanced(t) ==
    \/ t \notin Opening \cup Closing /\ Blocks' = Len(state) - 1 /\ level' = level
    \/ t \in Opening /\ Blocks' = Len(state) - 1 /\ level' = level + 1
    \/ t = "lbrace" /\ level = 0 /\ Blocks' = Len(state) /\ level' = 0
    \/ t \in Closing /\ level # 0 /\ Blocks' = Len(state) - 1 /\ level' = level - 1
    \/ t = "rbrace" /\ level = 0 /\ Blocks' = Len(state) - 2 /\ level' = 0
    \/ Stray(t)

\* The parser does not look at brackets here.
Loses(t) ==
    \/ running = "Star" /\ t \in {"rbrace", "eof"}
    \/ running = "CustomProperty" /\ t \in Opening \cup Closing

Effect(t) ==
    /\ Stack(state') /\ level' \in Int /\ prevEnd' \in BOOLEAN
    /\ running' \in Running /\ local' \in Local /\ gt' \in Grammar
    /\ prevEnd' => t # "eof"
    /\ gt' = "EOF" => Len(state') = 1 \/ Loses(t)
    /\ t # "eof" => Calm' /\ (Balanced(t) \/ Loses(t))

LEMMA CountLevel ==
    ASSUME NEW t, level \in Int, Count(t)
    PROVE  /\ level' \in Int
           /\ t \in Opening => level' = level + 1
           /\ t \in Closing => level' = level - 1
           /\ t \notin Opening \cup Closing => level' = level
BY DEF Count, Opening, Closing

LEMMA OwedValue ==
    /\ prevEnd' = TRUE => Owed' = 1
    /\ prevEnd' = FALSE => Owed' = 0
BY Zenon DEF Owed

LEMMA CalmIdle ==
    ASSUME running' = "idle", level' = 0
    PROVE  Calm'
<1>1. 0 <= level'
  OBVIOUS
<1> QED
  BY <1>1, Zenon DEF Calm

\* A unit that leaves the blocks alone, and has been read at level 0 if the
\* source has not ended.
LEMMA UnitEffect ==
    ASSUME NEW t \in Token, NEW g \in Grammar, Stack(state), level \in Int, g # "EOF",
           UnitEndedBy(g, t), state' = state, level' = level,
           t # "eof" => level = 0 /\ t \in {"semicolon", "rbrace"}
    PROVE  Effect(t)
<1>1. Len(state) \in Nat
  BY StackTop, Zenon
<1>2. /\ running' = "idle" /\ local' = "none" /\ gt' = g
      /\ prevEnd' = (t = "rbrace")
  BY DEF UnitEndedBy
<1>3. prevEnd' \in BOOLEAN /\ (prevEnd' => t # "eof")
  BY <1>2, Zenon
<1>4. /\ Stack(state') /\ level' \in Int
      /\ running' \in Running /\ local' \in Local /\ gt' \in Grammar /\ gt' # "EOF"
  BY <1>2 DEF Running, Local
<1>5. t # "eof" => Calm'
  BY <1>2, CalmIdle
<1>6. t # "eof" => Balanced(t)
  <2> SUFFICES ASSUME t # "eof" PROVE Balanced(t)
    OBVIOUS
  <2>1. CASE t = "rbrace"
    <3>1. prevEnd' = TRUE
      BY <1>2, <2>1, Zenon
    <3>2. Owed' = 1
      BY <3>1, OwedValue
    <3> QED
      BY <1>1, <2>1, <3>2 DEF Balanced, Blocks
  <2>2. CASE t = "semicolon"
    <3>1. prevEnd' = FALSE
      BY <1>2, <2>2, Zenon
    <3>2. Owed' = 0
      BY <3>1, OwedValue
    <3> QED
      BY <1>1, <2>2, <3>2 DEF Balanced, Blocks, Opening, Closing
  <2> QED
    BY <2>1, <2>2
<1> QED
  BY <1>3, <1>4, <1>5, <1>6, Zenon DEF Effect

\* A token inside of what loop f is reading.
LEMMA LoopEffect ==
    ASSUME NEW t \in Token, NEW f \in Running, NEW l \in Local, Stack(state), level \in Int,
           GoOn(f, l), Count(t), state' = state,
           f \notin {"idle", "List", "Star", "CustomProperty"},
           t # "eof" => /\ Last(state) # "AtRuleUnknown" /\ ~(t = "rbrace" /\ level = 0)
                        /\ f # "DeclarationError" => 0 <= level /\ ~Unexpected(t)
    PROVE  Effect(t)
<1>1. Len(state) \in Nat
  BY StackTop, Zenon
<1>2. /\ level' \in Int
      /\ t \in Opening => level' = level + 1
      /\ t \in Closing => level' = level - 1
      /\ t \notin Opening \cup Closing => level' = level
  BY CountLevel, Zenon
<1>3. running' = f /\ local' = l /\ gt' = "none" /\ prevEnd' = FALSE
  BY DEF GoOn
<1>4. /\ Stack(state') /\ prevEnd' \in BOOLEAN /\ ~prevEnd'
      /\ running' \in Running /\ local' \in Local /\ gt' \in Grammar /\ gt' # "EOF"
  BY <1>3, Zenon DEF Grammar
<1>5. t # "eof" => Calm'
  BY <1>2, <1>3 DEF Calm, Unexpected
<1>6. Owed' = 0
  BY <1>3, OwedValue
<1>7. Blocks' = Len(state) - 1
  BY <1>1, <1>6 DEF Blocks
<1>8. t \in Closing => t \in {"rbrace", "rparen"}
  BY DEF Closing
<1>9. t # "eof" => Balanced(t)
  BY <1>2, <1>7, <1>8 DEF Balanced, Stray
<1> QED
  BY <1>2, <1>4, <1>5, <1>9, Zenon DEF Effect

\* A token that begins something, outside of brackets.
LEMMA StartEffect ==
    ASSUME NEW t \in Token, NEW f \in Running, NEW l \in Local, Stack(state), level \in Int,
           GoOn(f, l), level' = level, state' = state,
           t \notin Opening \cup Closing,
           t # "eof" => level = 0 /\ Last(state) # "AtRuleUnknown"
    PROVE  Effect(t)
<1>1. Len(state) \in Nat
  BY StackTop, Zenon
<1>2. running' = f /\ local' = l /\ gt' = "none" /\ prevEnd' = FALSE
  BY DEF GoOn
<1>3. /\ Stack(state') /\ level' \in Int /\ prevEnd' \in BOOLEAN /\ ~prevEnd'
      /\ running' \in Running /\ local' \in Local /\ gt' \in Grammar /\ gt' # "EOF"
  BY <1>2, Zenon DEF Grammar
<1>4. t # "eof" => Calm'
  BY <1>2 DEF Calm
<1>5. Owed' = 0
  BY <1>2, OwedValue
<1>6. Balanced(t)
  BY <1>1, <1>5 DEF Balanced, Blocks
<1> QED
  BY <1>3, <1>4, <1>6, Zenon DEF Effect

\* Next returns something for one token that opens and closes nothing.
LEMMA TokenEffect ==
    ASSUME NEW t \in Token, NEW g \in Grammar, Stack(state), level \in Int,
           Unit(g), level' = level, state' = state,
           g = "EOF" => Len(state) = 1 \/ Loses(t),
           t # "eof" => level = 0 /\ (t \notin Opening \cup Closing \/ Stray(t) \/ Loses(t))
    PROVE  Effect(t)
<1>1. Len(state) \in Nat
  BY StackTop, Zenon
<1>2. running' = "idle" /\ local' = "none" /\ gt' = g /\ prevEnd' = FALSE
  BY DEF Unit
<1>3. /\ Stack(state') /\ level' \in Int /\ prevEnd' \in BOOLEAN /\ ~prevEnd'
      /\ running' \in Running /\ local' \in Local /\ gt' \in Grammar
      /\ gt' = "EOF" => Len(state') = 1 \/ Loses(t)
  BY <1>2, Zenon DEF Running, Local
<1>4. t # "eof" => Calm'
  BY <1>2, CalmIdle
<1>5. Owed' = 0
  BY <1>2, OwedValue
<1>6. t # "eof" => Balanced(t) \/ Loses(t)
  BY <1>1, <1>5 DEF Balanced, Blocks
<1> QED
  BY <1>3, <1>4, <1>6, Zenon DEF Effect

\* Next returns a token of an unknown at-rule.
LEMMA UnknownEffect ==
    ASSUME NEW t \in Token, Stack(state), level \in Int, Unit("Token"), Count(t), state' = state,
           Last(state) = "AtRuleUnknown", t # "eof" => ~(t = "rbrace" /\ level = 0)
    PROVE  Effect(t)
<1>1. Len(state) \in Nat
  BY StackTop, Zenon
<1>2. /\ level' \in Int
      /\ t \in Opening => level' = level + 1
      /\ t \in Closing => level' = level - 1
      /\ t \notin Opening \cup Closing => level' = level
  BY CountLevel, Zenon
<1>3. running' = "idle" /\ local' = "none" /\ gt' = "Token" /\ prevEnd' = FALSE
  BY DEF Unit
<1>4. /\ Stack(state') /\ prevEnd' \in BOOLEAN /\ ~prevEnd'
      /\ running' \in Running /\ local' \in Local /\ gt' \in Grammar /\ gt' # "EOF"
  BY <1>3, Zenon DEF Running, Local, Grammar
<1>5. Calm'
  BY <1>3 DEF Calm
<1>6. Owed' = 0
  BY <1>3, OwedValue
<1>7. Blocks' = Len(state) - 1
  BY <1>1, <1>6 DEF Blocks
<1>8. t \in Closing => t \in {"rbrace", "rparen"}
  BY DEF Closing
<1>9. t # "eof" => Balanced(t)
  BY <1>2, <1>7, <1>8 DEF Balanced, Stray
<1> QED
  BY <1>2, <1>4, <1>5, <1>9, Zenon DEF Effect

\* A block begins.
LEMMA PushEffect ==
    ASSUME NEW f \in Block, NEW g \in Grammar, g # "EOF", Stack(state), level = 0,
           Push(f), Unit(g), level' = level
    PROVE  Effect("lbrace")
<1>1. Stack(state') /\ Len(state') = Len(state) + 1
  BY StackPush DEF Push
<1>2. Len(state) \in Nat
  BY StackTop, Zenon
<1>3. running' = "idle" /\ local' = "none" /\ gt' = g /\ prevEnd' = FALSE
  BY DEF Unit
<1>4. Calm'
  BY <1>3, CalmIdle
<1>5. Owed' = 0
  BY <1>3, OwedValue
<1>6. Balanced("lbrace")
  BY <1>1, <1>2, <1>5 DEF Balanced, Blocks
<1>7. level' \in Int
  OBVIOUS
<1>8. /\ prevEnd' \in BOOLEAN /\ ~prevEnd'
      /\ running' \in Running /\ local' \in Local /\ gt' \in Grammar /\ gt' # "EOF"
  BY <1>3, Zenon DEF Running, Local
<1> QED
  BY <1>1, <1>4, <1>6, <1>7, <1>8, Zenon DEF Effect

\* A block ends, with its } or with the source.
LEMMA EndEffect ==
    ASSUME NEW t \in Token, NEW g \in Grammar, g # "EOF", Stack(state), Len(state) > 1,
           level \in Int, state' = Front(state), Unit(g), level' = level,
           t # "eof" => level = 0 /\ t = "rbrace"
    PROVE  Effect(t)
<1>1. Stack(state') /\ Len(state') = Len(state) - 1
  BY StackPop
<1>2. Len(state) \in Nat
  BY StackTop, Zenon
<1>3. running' = "idle" /\ local' = "none" /\ gt' = g /\ prevEnd' = FALSE
  BY DEF Unit
<1>4. t # "eof" => Calm'
  BY <1>3, CalmIdle
<1>5. Owed' = 0
  BY <1>3, OwedValue
<1>6. t # "eof" => Balanced(t)
  BY <1>1, <1>2, <1>5 DEF Balanced, Blocks
<1>7. /\ level' \in Int /\ prevEnd' \in BOOLEAN /\ ~prevEnd'
      /\ running' \in Running /\ local' \in Local /\ gt' \in Grammar /\ gt' # "EOF"
  BY <1>3, Zenon DEF Running, Local
<1> QED
  BY <1>1, <1>4, <1>6, <1>7, Zenon DEF Effect

\* A block is dropped after an error, or there is none.
LEMMA PopEffect ==
    ASSUME NEW t \in Token, Stack(state), Unexpected(t), Pop, Unit("Error"), level' = level
    PROVE  Effect(t)
<1>1. Len(state) \in Nat
  BY StackTop, Zenon
<1>2. "Error" \in Grammar /\ level = 0 /\ level \in Int
  BY DEF Grammar, Unexpected
<1>3. t \in {"rbrace", "rparen"} /\ t \in Closing
  BY DEF Unexpected, Closing
<1>4. CASE Len(state) = 1
  <2>1. state' = state
    BY <1>4 DEF Pop
  <2>2. Stray(t)
    BY <1>2, <1>3, <1>4 DEF Stray
  <2> QED
    BY <1>2, <2>1, <2>2, TokenEffect
<1>5. CASE Len(state) > 1 /\ t = "rbrace"
  <2>1. state' = Front(state)
    BY <1>1, <1>5 DEF Pop
  <2> QED
    BY <1>2, <1>5, <2>1, EndEffect
<1>6. CASE Len(state) > 1 /\ t = "rparen"
  <2>1. state' = Front(state)
    BY <1>1, <1>6 DEF Pop
  <2>2. Stack(state')
    BY <1>6, <2>1, StackPop
  <2>3. Balanced(t)
    BY <1>2, <1>3, <1>6 DEF Balanced, Stray
  <2>4. running' = "idle" /\ local' = "none" /\ gt' = "Error" /\ prevEnd' = FALSE
    BY DEF Unit
  <2>5. Calm'
    BY <1>2, <2>4, CalmIdle
  <2>6. /\ level' \in Int /\ prevEnd' \in BOOLEAN /\ ~prevEnd'
        /\ running' \in Running /\ local' \in Local /\ gt' \in Grammar /\ gt' # "EOF"
    BY <1>2, <2>4 DEF Running, Local
  <2> QED
    BY <2>2, <2>3, <2>5, <2>6, Zenon DEF Effect
<1> QED
  BY <1>3, <1>4, <1>5, <1>6, StackTop

--------------------------------------------------------------------------------
(* The functions' loops *)

LEMMA AtRuleEffect ==
    ASSUME NEW t \in Token, Stack(state), level \in Int, local \in Local, ParseAtRule(t),
           t # "eof" => Last(state) # "AtRuleUnknown" /\ 0 <= level
    PROVE  Effect(t)
<1> DEFINE f == CASE local = "@page" -> "AtRuleDeclarationList"
                  [] local = "@media" -> "AtRuleRuleList"
                  [] OTHER -> "AtRuleUnknown"
<1>1. /\ f \in Block /\ {"AtRule", "BeginAtRule"} \subseteq Grammar \ {"EOF"}
      /\ "AtRule" \in Running
  BY DEF Block, Grammar, Running
<1> HIDE DEF f
<1>2. CASE t = "lbrace" /\ level = 0 /\ Push(f) /\ Unit("BeginAtRule") /\ level' = level
  BY <1>1, <1>2, PushEffect
<1>3. CASE Ends(t) /\ UnitEndedBy("AtRule", t) /\ state' = state /\ level' = level
  BY <1>1, <1>3, UnitEffect DEF Ends
<1>4. CASE Unexpected(t) /\ Pop /\ Unit("Error") /\ level' = level
  BY <1>4, PopEffect
<1>5. CASE ~Ends(t) /\ ~Unexpected(t) /\ Count(t) /\ GoOn("AtRule", local) /\ state' = state
  BY <1>1, <1>5, LoopEffect DEF Ends
<1> QED
  BY <1>2, <1>3, <1>4, <1>5, Zenon DEF ParseAtRule, f

LEMMA QualifiedRuleEffect ==
    ASSUME NEW t \in Token, Stack(state), level \in Int, ParseQualifiedRule(t),
           t # "eof" => Last(state) # "AtRuleUnknown" /\ 0 <= level
    PROVE  Effect(t)
<1>1. /\ "QualifiedRuleDeclarationList" \in Block /\ "QualifiedRule" \in Running
      /\ {"Error", "BeginRuleset"} \subseteq Grammar \ {"EOF"} /\ "none" \in Local
  BY DEF Block, Grammar, Running, Local
<1>2. CASE /\ t = "lbrace" /\ level = 0 /\ Push("QualifiedRuleDeclarationList")
           /\ Unit("BeginRuleset") /\ level' = level
  BY <1>1, <1>2, PushEffect
<1>3. CASE t = "eof" /\ Unit("Error") /\ state' = state /\ level' = level
  BY <1>1, <1>3, TokenEffect
<1>4. CASE Unexpected(t) /\ Pop /\ Unit("Error") /\ level' = level
  BY <1>4, PopEffect
<1>5. CASE ~Unexpected(t) /\ Count(t) /\ GoOn("QualifiedRule", "none") /\ state' = state
  <2>1. ~(t = "rbrace" /\ level = 0)
    BY <1>5 DEF Unexpected, Closing
  <2> QED
    BY <1>1, <1>5, <2>1, LoopEffect
<1> QED
  BY <1>2, <1>3, <1>4, <1>5, Zenon DEF ParseQualifiedRule

LEMMA DeclarationErrorEffect ==
    ASSUME NEW t \in Token, Stack(state), level \in Int, ParseDeclarationError(t),
           t # "eof" => Last(state) # "AtRuleUnknown"
    PROVE  Effect(t)
<1>1. "DeclarationError" \in Running /\ "Error" \in Grammar \ {"EOF"} /\ "none" \in Local
  BY DEF Grammar, Running, Local
<1>2. CASE Ends(t) /\ UnitEndedBy("Error", t) /\ state' = state /\ level' = level
  BY <1>1, <1>2, UnitEffect DEF Ends
<1>3. CASE ~Ends(t) /\ Count(t) /\ GoOn("DeclarationError", "none") /\ state' = state
  BY <1>1, <1>3, LoopEffect DEF Ends
<1> QED
  BY <1>2, <1>3, Zenon DEF ParseDeclarationError

LEMMA DeclarationEffect ==
    ASSUME NEW t \in Token, Stack(state), level \in Int, local \in Local, ParseDeclaration(t),
           t # "eof" => Last(state) # "AtRuleUnknown" /\ 0 <= level
    PROVE  Effect(t)
<1> DEFINE l == IF local # "nothing" THEN local ELSE IF t = "colon" THEN "colon" ELSE "no colon"
<1>1. /\ "QualifiedRuleDeclarationList" \in Block /\ "Declaration" \in Running
      /\ {"Declaration", "BeginRuleset"} \subseteq Grammar \ {"EOF"} /\ l \in Local
  BY DEF Block, Grammar, Running, Local
<1> HIDE DEF l
<1>2. CASE Ends(t) /\ UnitEndedBy("Declaration", t) /\ state' = state /\ level' = level
  BY <1>1, <1>2, UnitEffect DEF Ends
<1>3. CASE ParseDeclarationError(t)
  BY <1>3, DeclarationErrorEffect
<1>4. CASE /\ t = "lbrace" /\ level = 0 /\ Push("QualifiedRuleDeclarationList")
           /\ Unit("BeginRuleset") /\ level' = level
  BY <1>1, <1>4, PushEffect
<1>5. CASE ~Ends(t) /\ ~Unexpected(t) /\ Count(t) /\ GoOn("Declaration", l) /\ state' = state
  BY <1>1, <1>5, LoopEffect DEF Ends
<1> QED
  BY <1>2, <1>3, <1>4, <1>5, Zenon DEF ParseDeclaration, l

LEMMA CustomPropertyEffect ==
    ASSUME NEW t \in Token, Stack(state), level \in Int, ParseCustomProperty(t),
           running = "CustomProperty",
           t # "eof" => Last(state) # "AtRuleUnknown" /\ level = 0
    PROVE  Effect(t)
<1>1. "CustomValue" \in Running /\ "none" \in Local /\ "Error" \in Grammar \ {"EOF"}
  BY DEF Running, Local, Grammar
<1>2. CASE t = "colon" /\ GoOn("CustomValue", "none") /\ state' = state /\ level' = level
  BY <1>1, <1>2, StartEffect DEF Opening, Closing
<1>3. CASE Unit("Error") /\ state' = state /\ level' = level
  <2>1. t \notin Opening \cup Closing \/ Loses(t)
    BY DEF Loses
  <2> QED
    BY <1>1, <1>3, <2>1, TokenEffect
<1> QED
  BY <1>2, <1>3, Zenon DEF ParseCustomProperty

LEMMA CustomValueEffect ==
    ASSUME NEW t \in Token, Stack(state), level \in Int, ParseCustomValue(t),
           t # "eof" => Last(state) # "AtRuleUnknown" /\ 0 <= level
    PROVE  Effect(t)
<1>1. /\ "CustomValue" \in Running /\ "none" \in Local
      /\ {"Error", "CustomProperty"} \subseteq Grammar \ {"EOF"}
  BY DEF Running, Local, Grammar
<1>2. CASE Ends(t) /\ UnitEndedBy("CustomProperty", t) /\ state' = state /\ level' = level
  BY <1>1, <1>2, UnitEffect DEF Ends
<1>3. CASE ~Ends(t) /\ Unexpected(t) /\ Unit("Error") /\ state' = state /\ level' = level
  <2>1. t = "rparen" /\ level = 0
    BY <1>3 DEF Ends, Unexpected, Closing
  <2>2. Stray(t)
    BY <2>1 DEF Stray, Closing
  <2> QED
    BY <1>1, <1>3, <2>1, <2>2, TokenEffect
<1>4. CASE ~Ends(t) /\ ~Unexpected(t) /\ Count(t) /\ GoOn("CustomValue", "none") /\ state' = state
  BY <1>1, <1>4, LoopEffect DEF Ends
<1> QED
  BY <1>2, <1>3, <1>4, Zenon DEF ParseCustomValue

--------------------------------------------------------------------------------
(* The state functions *)

\* A state function finds the level at 0, but for an unknown at-rule's.
Ready(t) ==
    /\ t \in Token /\ Stack(state) /\ level \in Int
    /\ t # "eof" => level = 0 /\ Last(state) # "AtRuleUnknown"

LEMMA StartAtRuleEffect ==
    ASSUME NEW t \in AtKeyword, NEW l \in AtKeyword, Ready(t), StartAtRule(l)
    PROVE  Effect(t)
<1>1. "AtRule" \in Running /\ l \in Local /\ t \notin Opening \cup Closing /\ t \in Token
  BY DEF Running, Local, AtKeyword, Opening, Closing, Token
<1> QED
  BY <1>1, StartEffect DEF StartAtRule, Ready

LEMMA StartCustomPropertyEffect ==
    ASSUME Ready("custom"), StartCustomProperty
    PROVE  Effect("custom")
<1>1. "CustomProperty" \in Running /\ "none" \in Local /\ "custom" \notin Opening \cup Closing
  BY DEF Running, Local, Opening, Closing
<1> QED
  BY <1>1, StartEffect DEF StartCustomProperty, Ready

LEMMA DeclarationOrAtRuleEffect ==
    ASSUME NEW t, Ready(t), DeclarationOrAtRule(t),
           t \in {"rbrace", "eof"} => Len(state) = 1 \/ Loses(t)
    PROVE  Effect(t)
<1>1. /\ {"Error", "EOF"} \subseteq Grammar /\ "Declaration" \in Running /\ "nothing" \in Local
      /\ t \in Token /\ Stack(state) /\ level \in Int
  BY DEF Grammar, Running, Local, Ready
<1>2. CASE t = "eof" /\ Unit("EOF") /\ state' = state /\ level' = level
  BY <1>1, <1>2, TokenEffect
<1>3. CASE t \in AtKeyword /\ StartAtRule(IF running = "Star" THEN "@other" ELSE t)
  BY <1>3, StartAtRuleEffect DEF AtKeyword
<1>4. CASE /\ t \in {"name", "star"} /\ GoOn("Declaration", "nothing")
           /\ state' = state /\ level' = level
  BY <1>1, <1>4, StartEffect DEF Ready, Opening, Closing
<1>5. CASE t = "custom" /\ StartCustomProperty
  BY <1>5, StartCustomPropertyEffect
<1>6. CASE t = "rbrace" /\ Unit("Error") /\ state' = state /\ level' = level
  <2>1. level = 0
    BY <1>6 DEF Ready
  <2>2. Stray(t) \/ Loses(t)
    BY <1>6, <2>1 DEF Stray, Closing
  <2> QED
    BY <1>1, <1>6, <2>1, <2>2, TokenEffect
<1>7. CASE ParseDeclarationError(t)
  BY <1>1, <1>7, DeclarationErrorEffect DEF Ready
<1> QED
  BY <1>2, <1>3, <1>4, <1>5, <1>6, <1>7, Zenon DEF DeclarationOrAtRule

LEMMA DeclarationListEffect ==
    ASSUME NEW t, Ready(t), ParseDeclarationList(t),
           t \in {"rbrace", "eof"} => Len(state) = 1
    PROVE  Effect(t)
<1>1. {"List", "Star"} \subseteq Running /\ "none" \in Local
  BY DEF Running, Local
<1>2. CASE /\ t \in {"comment", "semicolon"} /\ GoOn("List", "none")
           /\ state' = state /\ level' = level
  BY <1>1, <1>2, StartEffect DEF Ready, Opening, Closing
<1>3. CASE t = "star" /\ GoOn("Star", "none") /\ state' = state /\ level' = level
  BY <1>1, <1>3, StartEffect DEF Ready, Opening, Closing
<1>4. CASE DeclarationOrAtRule(t)
  BY <1>4, DeclarationOrAtRuleEffect
<1> QED
  BY <1>2, <1>3, <1>4, Zenon DEF ParseDeclarationList

LEMMA StylesheetEffect ==
    ASSUME NEW t, Ready(t), ParseStylesheet(t), Len(state) = 1
    PROVE  Effect(t)
<1>1. /\ {"Token", "Comment", "EOF"} \subseteq Grammar
      /\ t \in Token /\ Stack(state) /\ level \in Int
  BY DEF Grammar, Ready
<1>2. CASE t = "cdo" /\ Unit("Token") /\ state' = state /\ level' = level
  BY <1>1, <1>2, TokenEffect DEF Ready, Opening, Closing
<1>3. CASE t = "comment" /\ Unit("Comment") /\ state' = state /\ level' = level
  BY <1>1, <1>3, TokenEffect DEF Ready, Opening, Closing
<1>4. CASE t = "eof" /\ Unit("EOF") /\ state' = state /\ level' = level
  BY <1>1, <1>4, TokenEffect
<1>5. CASE t \in AtKeyword /\ StartAtRule(t)
  BY <1>5, StartAtRuleEffect
<1>6. CASE t = "custom" /\ StartCustomProperty
  BY <1>6, StartCustomPropertyEffect
<1>7. CASE ParseQualifiedRule(t)
  BY <1>1, <1>7, QualifiedRuleEffect DEF Ready
<1> QED
  BY <1>2, <1>3, <1>4, <1>5, <1>6, <1>7, Zenon DEF ParseStylesheet

LEMMA EndBlockEffect ==
    ASSUME NEW t, NEW g \in {"EndRuleset", "EndAtRule"}, t \in Token, Stack(state), level \in Int,
           EndBlock(g, t), Len(state) > 1, t # "eof" => level = 0
    PROVE  Effect(t)
<1>1. g \in Grammar /\ g # "EOF"
  BY DEF Grammar
<1> QED
  BY <1>1, EndEffect DEF EndBlock, EndsBlock

LEMMA StateFunctionEffect ==
    ASSUME NEW t \in Token, Stack(state), level \in Int, StateFunction(t),
           t # "eof" /\ Last(state) # "AtRuleUnknown" => level = 0
    PROVE  Effect(t)
<1>1. /\ Len(state) \in Nat
      /\ Len(state) = 1 \/ Len(state) > 1
      /\ Last(state) \in Bottom <=> Len(state) = 1
  BY StackTop, Zenon
<1>2. CASE Last(state) = "Stylesheet" /\ ParseStylesheet(t)
  BY <1>1, <1>2, StylesheetEffect DEF Bottom, Ready
<1>3. CASE Last(state) = "DeclarationList" /\ ParseDeclarationList(t)
  BY <1>1, <1>3, DeclarationListEffect DEF Bottom, Ready
<1>4. ASSUME NEW g \in {"EndRuleset", "EndAtRule"},
             Last(state) \notin Bottom \cup {"AtRuleUnknown"}, EndBlock(g, t)
      PROVE  Effect(t)
  BY <1>1, <1>4, EndBlockEffect
<1>5. ASSUME Last(state) \notin Bottom \cup {"AtRuleUnknown"},
             ~EndsBlock(t), ParseDeclarationList(t)
      PROVE  Effect(t)
  <2>1. Ready(t) /\ t \notin {"rbrace", "eof"}
    BY <1>5 DEF Ready, EndsBlock
  <2> QED
    BY <1>5, <2>1, DeclarationListEffect
<1>6. CASE Last(state) = "QualifiedRuleDeclarationList" /\ ParseQualifiedRuleDeclarationList(t)
  <2>1. Last(state) \notin Bottom \cup {"AtRuleUnknown"}
    BY <1>6 DEF Bottom
  <2> QED
    BY <1>4, <1>5, <1>6, <2>1 DEF ParseQualifiedRuleDeclarationList
<1>7. CASE Last(state) = "AtRuleDeclarationList" /\ ParseAtRuleDeclarationList(t)
  <2>1. Last(state) \notin Bottom \cup {"AtRuleUnknown"}
    BY <1>7 DEF Bottom
  <2> QED
    BY <1>4, <1>5, <1>7, <2>1 DEF ParseAtRuleDeclarationList
<1>8. CASE Last(state) = "AtRuleRuleList" /\ ParseAtRuleRuleList(t)
  <2>1. Last(state) \notin Bottom \cup {"AtRuleUnknown"}
    BY <1>8 DEF Bottom
  <2>2. CASE EndBlock("EndAtRule", t)
    BY <1>4, <2>1, <2>2
  <2>3. CASE t \in AtKeyword /\ StartAtRule(t)
    BY <2>1, <2>3, StartAtRuleEffect DEF Ready
  <2>4. CASE ParseQualifiedRule(t)
    BY <2>1, <2>4, QualifiedRuleEffect
  <2> QED
    BY <1>8, <2>2, <2>3, <2>4, Zenon DEF ParseAtRuleRuleList
<1>9. CASE Last(state) = "AtRuleUnknown" /\ ParseAtRuleUnknown(t)
  <2>1. Len(state) > 1
    BY <1>1, <1>9 DEF Bottom
  <2>2. CASE (level = 0 \/ t = "eof") /\ EndBlock("EndAtRule", t)
    BY <2>1, <2>2, EndBlockEffect
  <2>3. CASE /\ ~(EndsBlock(t) /\ (level = 0 \/ t = "eof"))
             /\ Unit("Token") /\ Count(t) /\ state' = state
    BY <1>9, <2>3, UnknownEffect DEF EndsBlock
  <2> QED
    BY <1>9, <2>2, <2>3, Zenon DEF ParseAtRuleUnknown
<1> QED
  BY <1>2, <1>3, <1>6, <1>7, <1>8, <1>9, Zenon DEF StateFunction

LEMMA StepEffect ==
    ASSUME NEW t \in Token, Stack(state), level \in Int, local \in Local, Step(t),
           t # "eof" => Calm
    PROVE  Effect(t)
<1>1. CASE running \in {"idle", "List"} /\ StateFunction(t)
  <2>1. t # "eof" /\ Last(state) # "AtRuleUnknown" => level = 0
    BY <1>1 DEF Calm
  <2> QED
    BY <1>1, <2>1, StateFunctionEffect
<1>2. CASE running = "Star" /\ DeclarationOrAtRule(t)
  <2>1. Ready(t)
    BY <1>2 DEF Calm, Ready
  <2>2. t \in {"rbrace", "eof"} => Loses(t)
    BY <1>2 DEF Loses
  <2> QED
    BY <1>2, <2>1, <2>2, DeclarationOrAtRuleEffect
<1>3. t # "eof" /\ running # "idle" => Last(state) # "AtRuleUnknown"
  BY DEF Calm
<1>4. t # "eof" /\ running \notin {"idle", "DeclarationError"} => 0 <= level
  BY <1>3, Zenon DEF Calm
<1>5. CASE running = "AtRule" /\ ParseAtRule(t)
  BY <1>3, <1>4, <1>5, AtRuleEffect
<1>6. CASE running = "QualifiedRule" /\ ParseQualifiedRule(t)
  BY <1>3, <1>4, <1>6, QualifiedRuleEffect
<1>7. CASE running = "Declaration" /\ ParseDeclaration(t)
  BY <1>3, <1>4, <1>7, DeclarationEffect
<1>8. CASE running = "DeclarationError" /\ ParseDeclarationError(t)
  BY <1>3, <1>8, DeclarationErrorEffect
<1>9. CASE running = "CustomProperty" /\ ParseCustomProperty(t)
  <2>1. t # "eof" => level = 0
    BY <1>9 DEF Calm
  <2> QED
    BY <1>3, <1>9, <2>1, CustomPropertyEffect
<1>10. CASE running = "CustomValue" /\ ParseCustomValue(t)
  BY <1>3, <1>4, <1>10, CustomValueEffect
<1> QED
  BY <1>1, <1>2, <1>5, <1>6, <1>7, <1>8, <1>9, <1>10, Zenon DEF Step

--------------------------------------------------------------------------------
(* What the client is told of the blocks *)

\* A step begins a block, ends the last one with a unit of its kind, drops it with
\* an error, or leaves the blocks alone.
Begins == \E f \in Block : state' = Append(state, f) /\ gt' = BeginUnit(f)

Removes ==
    /\ Len(state) > 1 /\ state' = Front(state)
    /\ gt' \in {EndUnit(Last(state)), "Error"}

Keeps == state' = state /\ gt' \notin {"BeginAtRule", "BeginRuleset", "EndAtRule", "EndRuleset"}

Told == Begins \/ Removes \/ Keeps

LEMMA UnitGiven ==
    ASSUME NEW g
    PROVE  /\ Unit(g) => gt' = g
           /\ \A t : UnitEndedBy(g, t) => gt' = g
           /\ \A f, l : GoOn(f, l) => gt' = "none"
BY Zenon DEF Unit, UnitEndedBy, GoOn

LEMMA PopTold ==
    ASSUME Stack(state), Pop, Unit("Error")
    PROVE  Told
<1>1. gt' = "Error"
  BY UnitGiven, Zenon
<1>2. CASE Len(state) = 1
  <2>1. state' = state
    BY <1>2 DEF Pop
  <2> QED
    BY <1>1, <2>1 DEF Told, Keeps
<1>3. CASE Len(state) > 1
  <2>1. state' = Front(state)
    BY <1>3, StackTop DEF Pop
  <2> QED
    BY <1>1, <1>3, <2>1, Zenon DEF Told, Removes
<1> QED
  BY <1>2, <1>3, StackTop, Zenon

LEMMA EndBlockTold ==
    ASSUME NEW t, NEW g, Stack(state), Last(state) \in Block, g = EndUnit(Last(state)),
           EndBlock(g, t)
    PROVE  Told
<1>1. Last(state) \notin Bottom
  BY DEF Block, Bottom
<1>2. Len(state) > 1
  BY <1>1, StackTop, Zenon
<1>3. state' = Front(state) /\ gt' = g
  BY UnitGiven, Zenon DEF EndBlock
<1> QED
  BY <1>2, <1>3, Zenon DEF Told, Removes

\* Every other unit leaves the stack alone.
LEMMA KeepTold ==
    ASSUME NEW g \in Grammar \ {"BeginAtRule", "BeginRuleset", "EndAtRule", "EndRuleset"},
           state' = state, gt' = g
    PROVE  Told
BY DEF Told, Keeps

LEMMA LoopsTold ==
    ASSUME NEW t, Stack(state)
    PROVE  /\ ParseAtRule(t) => Told
           /\ ParseQualifiedRule(t) => Told
           /\ ParseDeclarationError(t) => Told
           /\ ParseDeclaration(t) => Told
           /\ ParseCustomProperty(t) => Told
           /\ ParseCustomValue(t) => Told
<1> DEFINE r == "QualifiedRuleDeclarationList"
<1>1. {"none", "Error", "AtRule", "Declaration", "CustomProperty"}
        \subseteq Grammar \ {"BeginAtRule", "BeginRuleset", "EndAtRule", "EndRuleset"}
  BY DEF Grammar
<1>2. r \in Block /\ BeginUnit(r) = "BeginRuleset"
  BY DEF Block, BeginUnit
<1>3. Push(r) /\ Unit("BeginRuleset") => Told
  BY <1>2, UnitGiven, Zenon DEF Push, Told, Begins
<1>4. \A f, l : state' = state /\ GoOn(f, l) => Told
  BY <1>1, UnitGiven, KeepTold
<1>5. \A g \in {"Error", "AtRule", "Declaration", "CustomProperty"} :
          state' = state /\ (Unit(g) \/ UnitEndedBy(g, t)) => Told
  BY <1>1, UnitGiven, KeepTold
<1>6. Pop /\ Unit("Error") => Told
  BY PopTold
<1>7. ParseAtRule(t) => Told
  <2> DEFINE f == CASE local = "@page" -> "AtRuleDeclarationList"
                    [] local = "@media" -> "AtRuleRuleList"
                    [] OTHER -> "AtRuleUnknown"
  <2>1. f \in Block /\ BeginUnit(f) = "BeginAtRule"
    BY DEF Block, BeginUnit
  <2> HIDE DEF f
  <2>2. Push(f) /\ Unit("BeginAtRule") => Told
    BY <2>1, UnitGiven, Zenon DEF Push, Told, Begins
  <2> QED
    BY <1>4, <1>5, <1>6, <2>2, Zenon DEF ParseAtRule, f
<1>8. ParseQualifiedRule(t) => Told
  BY <1>3, <1>4, <1>5, <1>6, Zenon DEF ParseQualifiedRule
<1>9. ParseDeclarationError(t) => Told
  BY <1>4, <1>5, Zenon DEF ParseDeclarationError
<1>10. ParseDeclaration(t) => Told
  BY <1>3, <1>4, <1>5, <1>9, Zenon DEF ParseDeclaration
<1>11. ParseCustomProperty(t) => Told
  BY <1>4, <1>5, Zenon DEF ParseCustomProperty
<1>12. ParseCustomValue(t) => Told
  BY <1>4, <1>5, Zenon DEF ParseCustomValue
<1> QED
  BY <1>7, <1>8, <1>9, <1>10, <1>11, <1>12, Zenon

LEMMA StateFunctionTold ==
    ASSUME NEW t, Stack(state), StateFunction(t) \/ DeclarationOrAtRule(t)
    PROVE  Told
<1>1. \A g \in {"none", "Comment", "Token", "Error", "EOF"} : state' = state /\ gt' = g => Told
  BY KeepTold DEF Grammar
<1>2. /\ \A f, l : state' = state /\ GoOn(f, l) => Told
      /\ \A g \in {"Comment", "Token", "Error", "EOF"} : state' = state /\ Unit(g) => Told
  BY <1>1, UnitGiven, Zenon
<1>3. DeclarationOrAtRule(t) => Told
  BY <1>2, LoopsTold, Zenon DEF DeclarationOrAtRule, StartAtRule, StartCustomProperty
<1>4. ParseDeclarationList(t) => Told
  BY <1>2, <1>3, Zenon DEF ParseDeclarationList
<1>5. ParseStylesheet(t) => Told
  BY <1>2, LoopsTold, Zenon DEF ParseStylesheet, StartAtRule, StartCustomProperty
<1>6. CASE Last(state) = "QualifiedRuleDeclarationList" /\ ParseQualifiedRuleDeclarationList(t)
  <2>1. Last(state) \in Block /\ EndUnit(Last(state)) = "EndRuleset"
    BY <1>6 DEF Block, EndUnit
  <2> QED
    BY <1>4, <1>6, <2>1, EndBlockTold DEF ParseQualifiedRuleDeclarationList
<1>7. CASE Last(state) = "AtRuleDeclarationList" /\ ParseAtRuleDeclarationList(t)
  <2>1. Last(state) \in Block /\ EndUnit(Last(state)) = "EndAtRule"
    BY <1>7 DEF Block, EndUnit
  <2> QED
    BY <1>4, <1>7, <2>1, EndBlockTold DEF ParseAtRuleDeclarationList
<1>8. CASE Last(state) = "AtRuleRuleList" /\ ParseAtRuleRuleList(t)
  <2>1. Last(state) \in Block /\ EndUnit(Last(state)) = "EndAtRule"
    BY <1>8 DEF Block, EndUnit
  <2>2. EndBlock("EndAtRule", t) => Told
    BY <2>1, EndBlockTold
  <2> QED
    BY <1>2, <1>8, <2>2, LoopsTold, Zenon DEF ParseAtRuleRuleList, StartAtRule
<1>9. CASE Last(state) = "AtRuleUnknown" /\ ParseAtRuleUnknown(t)
  <2>1. Last(state) \in Block /\ EndUnit(Last(state)) = "EndAtRule"
    BY <1>9 DEF Block, EndUnit
  <2>2. EndBlock("EndAtRule", t) => Told
    BY <2>1, EndBlockTold
  <2> QED
    BY <1>2, <1>9, <2>2, Zenon DEF ParseAtRuleUnknown
<1> QED
  BY <1>3, <1>4, <1>5, <1>6, <1>7, <1>8, <1>9, Zenon DEF StateFunction

LEMMA StepTold ==
    ASSUME NEW t, Stack(state), Step(t)
    PROVE  Told
BY LoopsTold, StateFunctionTold, Zenon DEF Step

\* What is due after a step is what is on the stack.
LEMMA DueAfter ==
    ASSUME Stack(state), due \in Seq({"EndAtRule", "EndRuleset"}), Due, Told, Deliver
    PROVE  due' \in Seq({"EndAtRule", "EndRuleset"}) /\ Due'
<1> DEFINE n == Len(due)
<1>1. n \in Nat /\ Len(state) = n + 1 /\ \A i \in 1..n : due[i] = EndUnit(state[i + 1])
  BY StackTop, LenProperties DEF Due
<1>2. state \in Seq(States) /\ Last(state) = state[n + 1]
  BY <1>1 DEF Stack, Last
<1> HIDE DEF n
<1>3. CASE Begins
  <2>1. PICK f \in Block : state' = Append(state, f) /\ gt' = BeginUnit(f)
    BY <1>3 DEF Begins
  <2>2. f \in States /\ gt' \in {"BeginAtRule", "BeginRuleset"} /\ EndOf(gt') = EndUnit(f)
    BY <2>1 DEF States, BeginUnit, EndUnit, EndOf
  <2>3. EndUnit(f) \in {"EndAtRule", "EndRuleset"} /\ due' = Append(due, EndUnit(f))
    BY <2>2 DEF EndUnit, Deliver
  <2>4. /\ Len(state') = n + 2 /\ state'[n + 2] = f
        /\ \A i \in 1..(n + 1) : state'[i] = state[i]
    BY <1>1, <1>2, <2>1, <2>2, AppendProperties
  <2>5. /\ due' \in Seq({"EndAtRule", "EndRuleset"})
        /\ Len(due') = n + 1 /\ due'[n + 1] = EndUnit(f)
        /\ \A i \in 1..n : due'[i] = due[i]
    BY <2>3, AppendProperties DEF n
  <2>6. \A i \in 1..(n + 1) : due'[i] = EndUnit(state'[i + 1])
    <3> TAKE i \in 1..(n + 1)
    <3>1. CASE i = n + 1
      BY <1>1, <2>4, <2>5, <3>1
    <3>2. CASE i \in 1..n
      <4>1. state'[i + 1] = state[i + 1] /\ due'[i] = due[i] /\ due[i] = EndUnit(state[i + 1])
        BY <1>1, <2>4, <2>5, <3>2
      <4> QED
        BY <4>1, Zenon
    <3> QED
      BY <1>1, <3>1, <3>2
  <2> QED
    BY <1>1, <2>4, <2>5, <2>6 DEF Due
<1>4. CASE Removes
  <2>1. n > 0 /\ n \in 1..n /\ due # <<>>
    BY <1>1, <1>4, EmptySeq DEF Removes, n
  <2>2. Last(due) = EndUnit(Last(state))
    BY <1>1, <1>2, <2>1 DEF Last, n
  <2>3. /\ Front(state) \in Seq(States) /\ Len(Front(state)) = n
        /\ \A i \in 1..n : Front(state)[i] = state[i]
    <3>1. Len(state) > 0 /\ Len(state) - 1 = n
      BY <1>1
    <3>2. /\ Front(state) \in Seq(States) /\ Len(Front(state)) = Len(state) - 1
          /\ \A i \in 1..(Len(state) - 1) : Front(state)[i] = state[i]
      BY <1>2, <3>1, FrontProperties, Zenon
    <3> QED
      BY <3>1, <3>2
  <2>4. gt' = Last(due) \/ (gt' = "Error" /\ Len(state') < Len(state))
    BY <1>1, <1>4, <2>2, <2>3 DEF Removes
  <2>5. gt' \notin {"BeginAtRule", "BeginRuleset"}
    BY <1>4 DEF Removes, EndUnit
  <2>6. due' = Front(due)
    BY <2>1, <2>4, <2>5, Zenon DEF Deliver
  <2>7. /\ due' \in Seq({"EndAtRule", "EndRuleset"}) /\ Len(due') = n - 1
        /\ \A i \in 1..(n - 1) : due'[i] = due[i]
    BY <2>1, <2>6, FrontProperties DEF n
  <2>8. state' = Front(state)
    BY <1>4 DEF Removes
  <2>9. \A i \in 1..(n - 1) : due'[i] = EndUnit(state'[i + 1])
    BY <1>1, <2>3, <2>7, <2>8
  <2> QED
    BY <1>1, <2>3, <2>7, <2>8, <2>9 DEF Due
<1>5. CASE Keeps
  <2>1. gt' \notin {"BeginAtRule", "BeginRuleset", "EndAtRule", "EndRuleset"} /\ state' = state
    BY <1>5 DEF Keeps
  <2>2. due # <<>> => Last(due) \in {"EndAtRule", "EndRuleset"}
    BY <1>1, EmptySeq, ElementOfSeq DEF Last, n
  <2>3. ~(Len(state') < Len(state))
    BY <1>1, <2>1
  <2>4. due' = due
    BY <2>1, <2>2, <2>3, Zenon DEF Deliver
  <2> QED
    BY <2>1, <2>4, Zenon DEF Due
<1> QED
  BY <1>3, <1>4, <1>5, Zenon DEF Told

--------------------------------------------------------------------------------
(* The invariant *)

LEMMA InitInv == Init => Inv
<1> SUFFICES ASSUME Init PROVE Inv
  OBVIOUS
<1>1. PICK f \in Bottom : state = <<f>>
  BY Zenon DEF Init
<1>2. /\ state \in Seq(States) /\ Len(state) = 1 /\ state # <<>> /\ Last(state) = f
      /\ \A i \in DOMAIN state : i = 1 /\ state[i] = f
  BY <1>1 DEF States, Last
<1>3. Stack(state)
  BY <1>2, Zenon DEF Stack
<1>4. /\ level = 0 /\ prevEnd = FALSE /\ running = "idle" /\ local = "none" /\ gt = "none"
      /\ open = <<>> /\ matched = TRUE /\ lost = FALSE /\ eof = FALSE /\ due = <<>>
  BY Zenon DEF Init
<1>5. open \in Seq(Opening) /\ Len(open) = 0 /\ level \in Int /\ 0 <= level
  BY <1>4
<1>6. /\ prevEnd \in BOOLEAN /\ matched \in BOOLEAN /\ lost \in BOOLEAN /\ eof \in BOOLEAN
      /\ running \in Running /\ local \in Local /\ gt \in Grammar /\ gt # "EOF"
  BY <1>4, Zenon DEF Running, Local, Grammar
<1>13. due \in Seq({"EndAtRule", "EndRuleset"}) /\ Due
  BY <1>2, <1>4 DEF Due
<1>7. TypeOK
  BY <1>3, <1>5, <1>6, <1>13, Zenon DEF TypeOK, Stack, States
<1>8. Calm
  BY <1>4, <1>5, Zenon DEF Calm
<1>9. Owed = 0
  BY <1>4, Zenon DEF Owed
<1>10. Blocks = 0
  BY <1>2, <1>9 DEF Blocks
<1>11. Len(open) = Blocks + level /\ \A i \in 1..Blocks : open[i] = "lbrace"
  BY <1>4, <1>5, <1>10
<1>12. Nested
  BY <1>5, <1>11, Zenon DEF Nested
<1> QED
  BY <1>4, <1>6, <1>7, <1>8, <1>12, <1>13, Zenon DEF Inv, AtBottom

\* The source's brackets as token t leaves them.
LEMMA OpenAfter ==
    ASSUME NEW t, open \in Seq(Opening), PopToken(t)
    PROVE  /\ open' \in Seq(Opening)
           /\ t \notin Opening \cup Closing => open' = open
           /\ t \in Opening => /\ Len(open') = Len(open) + 1 /\ open'[Len(open) + 1] = t
                               /\ \A i \in 1..Len(open) : open'[i] = open[i]
           /\ t \in Closing /\ matched' =>
                /\ Len(open) > 0 /\ open[Len(open)] = Opened(t)
                /\ Len(open') = Len(open) - 1
                /\ \A i \in 1..(Len(open) - 1) : open'[i] = open[i]
<1>1. t \in Closing => t \notin Opening
  BY DEF Opening, Closing
<1>2. /\ t \in Opening => open' = Append(open, t)
      /\ t \in Closing /\ open # <<>> => open' = Front(open)
      /\ t \notin Opening /\ ~(t \in Closing /\ open # <<>>) => open' = open
      /\ t \in Closing /\ matched' => open # <<>> /\ Last(open) = Opened(t)
  BY <1>1, Zenon DEF PopToken
<1>3. open # <<>> => Len(open) > 0
  BY EmptySeq, LenProperties
<1>4. CASE t \in Opening
  <2>1. /\ open' \in Seq(Opening) /\ Len(open') = Len(open) + 1
        /\ \A i \in 1..Len(open) : open'[i] = open[i]
        /\ open'[Len(open) + 1] = t
    BY <1>2, <1>4, AppendProperties
  <2> QED
    BY <1>1, <1>4, <2>1
<1>5. CASE t \in Closing /\ open # <<>>
  <2>1. open' = Front(open) /\ Len(open) > 0
    BY <1>2, <1>3, <1>5
  <2>2. /\ open' \in Seq(Opening) /\ Len(open') = Len(open) - 1
        /\ \A i \in 1..(Len(open) - 1) : open'[i] = open[i]
    BY <2>1, FrontProperties
  <2>3. matched' => open[Len(open)] = Opened(t)
    BY <1>2, <1>5, Zenon DEF Last
  <2> QED
    BY <1>1, <1>5, <2>1, <2>2, <2>3, Zenon
<1>6. CASE t \notin Opening /\ ~(t \in Closing /\ open # <<>>)
  BY <1>2, <1>6
<1> QED
  BY <1>4, <1>5, <1>6, Zenon

\* One token read from the source.
LEMMA NestedAfterToken ==
    ASSUME NEW t, Nested, ~prevEnd, open \in Seq(Opening), Stack(state), level \in Int,
           PopToken(t), Balanced(t) \/ Loses(t), matched', ~lost', ~eof', ~eof
    PROVE  /\ Len(open') = Blocks' + level' /\ 0 <= level'
           /\ \A i \in 1..Blocks' : open'[i] = "lbrace"
<1> DEFINE n == Len(state) - 1
           m == Len(open)
<1>1. /\ n \in Nat /\ m \in Nat
  BY StackTop, LenProperties
<1>2. matched /\ ~lost /\ ~Loses(t)
  BY Zenon DEF PopToken, Loses
<1>3. Owed = 0
  BY Zenon DEF Owed
<1>4. Blocks = n
  BY <1>1, <1>3 DEF Blocks
<1>5. m = n + level /\ 0 <= level /\ \A i \in 1..n : open[i] = "lbrace"
  BY <1>2, <1>4, Zenon DEF Nested
<1>6. /\ t \notin Opening \cup Closing => open' = open
      /\ t \in Opening => /\ Len(open') = m + 1 /\ open'[m + 1] = t
                          /\ \A i \in 1..m : open'[i] = open[i]
      /\ t \in Closing => /\ m > 0 /\ open[m] = Opened(t) /\ Len(open') = m - 1
                          /\ \A i \in 1..(m - 1) : open'[i] = open[i]
  BY OpenAfter, Zenon
<1>7. /\ t \in {"lbrace"} => t \in Opening
      /\ t \in {"rbrace"} => t \in Closing
      /\ Opened("rparen") = "lparen"
  BY DEF Opening, Closing, Opened
<1>15. Len(open) = m
  OBVIOUS
<1> HIDE DEF m
<1>8. CASE t \notin Opening \cup Closing /\ Blocks' = n /\ level' = level
  <2>1. Len(open') = m
    BY <1>6, <1>8, <1>15, Zenon
  <2>2. \A i \in 1..n : open'[i] = "lbrace"
    BY <1>5, <1>6, <1>8, Zenon
  <2>3. m = n + level /\ 0 <= level'
    BY <1>5, <1>8, Zenon
  <2> QED
    BY <1>8, <2>1, <2>2, <2>3, Zenon
<1>9. CASE t \in Opening /\ Blocks' = n /\ level' = level + 1
  <2>1. Len(open') = m + 1 /\ \A i \in 1..m : open'[i] = open[i]
    BY <1>6, <1>9, Zenon
  <2>2. 1..n \subseteq 1..m /\ m + 1 = n + (level + 1) /\ 0 <= level + 1
    BY <1>1, <1>5
  <2>3. \A i \in 1..n : open'[i] = "lbrace"
    BY <1>5, <2>1, <2>2, Zenon
  <2> QED
    BY <1>9, <2>1, <2>2, <2>3, Zenon
<1>10. CASE t = "lbrace" /\ level = 0 /\ Blocks' = n + 1 /\ level' = 0
  BY <1>1, <1>5, <1>6, <1>7, <1>10
<1>11. CASE t \in Closing /\ level # 0 /\ Blocks' = n /\ level' = level - 1
  BY <1>1, <1>5, <1>6, <1>11
<1>12. CASE t = "rbrace" /\ level = 0 /\ Blocks' = n - 1 /\ level' = 0
  BY <1>1, <1>5, <1>6, <1>7, <1>12
<1>13. CASE Stray(t)
  <2>1. t \in Closing /\ level = 0 /\ m = n /\ (t = "rparen" \/ n = 0)
    BY <1>1, <1>5, <1>13 DEF Stray
  <2>2. n > 0 /\ open[n] = "lbrace" /\ t = "rparen"
    BY <1>1, <1>5, <1>6, <2>1
  <2>3. open[n] = "lparen"
    BY <1>6, <1>7, <2>1, <2>2
  <2> QED
    BY <2>2, <2>3
<1>14. Len(state) = n + 1 /\ Len(state) - 2 = n - 1
  BY <1>1
<1> QED
  BY <1>2, <1>8, <1>9, <1>10, <1>11, <1>12, <1>13, <1>14, Zenon DEF Balanced

LEMMA NextTokenInv == Inv /\ NextToken => Inv'
<1> SUFFICES ASSUME Inv, NextToken PROVE Inv'
  OBVIOUS
<1>1. PICK t \in Token : PopToken(t) /\ Step(t)
  BY Zenon DEF NextToken
<1>2. /\ Stack(state) /\ level \in Int /\ local \in Local /\ open \in Seq(Opening)
      /\ matched \in BOOLEAN /\ lost \in BOOLEAN /\ ~prevEnd /\ Nested
      /\ ~eof => Calm
      /\ due \in Seq({"EndAtRule", "EndRuleset"}) /\ Due
  BY Zenon DEF Inv, TypeOK, Stack, States, NextToken
<1>3. t # "eof" => ~eof
  BY <1>1, Zenon DEF PopToken
<1>4. Effect(t)
  BY <1>1, <1>2, <1>3, StepEffect, Zenon
<1>5. /\ eof' = (t = "eof")
      /\ matched' \in BOOLEAN /\ lost' \in BOOLEAN /\ (Loses(t) => lost')
  BY <1>1, <1>2, Zenon DEF PopToken, Loses
<1>6. eof' \in BOOLEAN /\ (~eof' => t # "eof") /\ (t # "eof" => ~eof')
  BY <1>5, Zenon
<1>7. open' \in Seq(Opening)
  BY <1>1, <1>2, OpenAfter, Zenon
<1>12. due' \in Seq({"EndAtRule", "EndRuleset"}) /\ Due'
  BY <1>1, <1>2, StepTold, DueAfter, Zenon DEF NextToken
<1>8. TypeOK'
  BY <1>4, <1>5, <1>6, <1>7, <1>12, Zenon DEF TypeOK, Effect, Stack, States
<1>9. AtBottom'
  BY <1>4, <1>5, Zenon DEF AtBottom, Effect
<1>10. (~eof' => Calm') /\ (prevEnd' => ~eof')
  BY <1>4, <1>6, Zenon DEF Effect
<1>11. Nested'
  <2> SUFFICES ASSUME matched', ~lost', ~eof'
               PROVE  /\ Len(open') = Blocks' + level' /\ 0 <= level'
                      /\ \A i \in 1..Blocks' : open'[i] = "lbrace"
    BY Zenon DEF Nested
  <2>1. ~eof /\ (Balanced(t) \/ Loses(t))
    BY <1>3, <1>4, <1>6, Zenon DEF Effect
  <2> QED
    BY <1>1, <1>2, <2>1, NestedAfterToken, Zenon
<1> QED
  BY <1>8, <1>9, <1>10, <1>11, <1>12, Zenon DEF Inv

\* The } that had ended the last unit ends the block it was counted out of.
LEMMA NextAfterEndInv == Inv /\ NextAfterEnd => Inv'
<1> SUFFICES ASSUME Inv, NextAfterEnd PROVE Inv'
  OBVIOUS
<1>1. /\ running = "idle" /\ prevEnd /\ StateFunction("rbrace")
      /\ open' = open /\ matched' = matched /\ lost' = lost /\ eof' = eof
  BY Zenon DEF NextAfterEnd, source
<1>2. /\ Stack(state) /\ level \in Int /\ open \in Seq(Opening) /\ Nested
      /\ matched \in BOOLEAN /\ lost \in BOOLEAN /\ eof \in BOOLEAN /\ ~eof /\ Calm
      /\ due \in Seq({"EndAtRule", "EndRuleset"}) /\ Due
  BY <1>1, Zenon DEF Inv, TypeOK, Stack, States
<1>3. level = 0 /\ "rbrace" \in Token /\ ~Loses("rbrace")
  BY <1>1, <1>2 DEF Calm, Token, Closing, Loses
<1>4. Effect("rbrace")
  BY <1>1, <1>2, <1>3, StateFunctionEffect
<1>5. "rbrace" # "eof" /\ "rbrace" \in Closing /\ "rbrace" \notin Opening
      /\ "rbrace" # "lbrace" /\ "rbrace" # "rparen"
  BY DEF Opening, Closing
<1>6. Calm' /\ Balanced("rbrace") /\ (gt' = "EOF" => Len(state') = 1)
  BY <1>3, <1>4, <1>5, Zenon DEF Effect
<1>10. due' \in Seq({"EndAtRule", "EndRuleset"}) /\ Due'
  BY <1>1, <1>2, StateFunctionTold, DueAfter, Zenon DEF NextAfterEnd
<1>7. TypeOK'
  BY <1>1, <1>2, <1>4, <1>10, Zenon DEF TypeOK, Effect, Stack, States
<1>8. AtBottom'
  BY <1>6, Zenon DEF AtBottom
<1>9. Nested'
  <2> SUFFICES ASSUME matched', ~lost', ~eof'
               PROVE  /\ Len(open') = Blocks' + level' /\ 0 <= level'
                      /\ \A i \in 1..Blocks' : open'[i] = "lbrace"
    BY Zenon DEF Nested
  <2>1. Owed = 1
    BY <1>1, Zenon DEF Owed
  <2>2. Len(state) \in Nat /\ Len(open) \in Nat
    BY <1>2, StackTop, LenProperties
  <2>3. Blocks = Len(state) - 2
    BY <2>1, <2>2 DEF Blocks
  <2>4. Len(open) = Blocks + 0 /\ \A i \in 1..Blocks : open[i] = "lbrace"
    BY <1>1, <1>2, <1>3, Zenon DEF Nested
  <2>5. Len(state) # 1
    BY <2>2, <2>3, <2>4
  <2>6. Blocks' = Len(state) - 2 /\ level' = 0
    BY <1>3, <1>5, <1>6, <2>5, Zenon DEF Balanced, Stray
  <2>7. Len(open) = Blocks' + level' /\ 0 <= level'
    BY <2>2, <2>3, <2>4, <2>6
  <2> QED
    BY <1>1, <2>3, <2>4, <2>6, <2>7, Zenon
<1> QED
  BY <1>1, <1>2, <1>6, <1>7, <1>8, <1>9, <1>10, Zenon DEF Inv

LEMMA StutterInv == Inv /\ UNCHANGED vars => Inv'
<1> SUFFICES ASSUME Inv, UNCHANGED vars PROVE Inv'
  OBVIOUS
<1>1. /\ state' = state /\ level' = level /\ prevEnd' = prevEnd /\ running' = running
      /\ local' = local /\ gt' = gt
      /\ open' = open /\ matched' = matched /\ lost' = lost /\ eof' = eof /\ due' = due
  BY Zenon DEF vars, parser, source
<1> QED
  BY <1>1, Zenon DEF Inv, TypeOK, Nested, Due, AtBottom, Calm, Blocks, Owed

LEMMA Invariance == Spec => []Inv
<1>1. Inv /\ [Next]_vars => Inv'
  BY NextTokenInv, NextAfterEndInv, StutterInv, Zenon DEF Next
<1> QED
  BY <1>1, InitInv, PTL DEF Spec

--------------------------------------------------------------------------------
(* The theorems *)

\* Next always finds a state function, and the bottom one stays where it is.
THEOREM TypeCorrect == Spec => []TypeOK
<1>1. Inv => TypeOK
  BY Zenon DEF Inv
<1> QED
  BY <1>1, Invariance, PTL

\* On a source whose brackets match so far the parser has as many open as the source.
THEOREM StaysInStep == Spec => []InStep
<1>1. Inv => InStep
  <2> SUFFICES ASSUME Inv, matched /\ ~lost /\ ~eof
               PROVE  Len(state) - 1 + level = Len(open) + (IF prevEnd THEN 1 ELSE 0)
    BY Zenon DEF InStep
  <2>1. Stack(state) /\ level \in Int /\ open \in Seq(Opening) /\ prevEnd \in BOOLEAN
    BY Zenon DEF Inv, TypeOK, Stack, States
  <2>2. Len(state) \in Nat /\ Len(open) = Blocks + level
    BY <2>1, StackTop, Zenon DEF Inv, Nested
  <2>3. Owed \in Int
    BY DEF Owed
  <2>4. Len(state) - 1 + level = Len(open) + Owed
    BY <2>1, <2>2, <2>3 DEF Blocks
  <2> QED
    BY <2>4, Zenon DEF Owed
<1> QED
  BY <1>1, Invariance, PTL

\* The level is 0 again whenever a unit is complete.
THEOREM StaysSettled == Spec => []Settled
<1>1. Inv => Settled
  BY Zenon DEF Inv, Calm, Settled
<1> QED
  BY <1>1, Invariance, PTL

\* A client that goes on over errors until the end has been given, for each block that
\* began, its own End unit, innermost first, or the error that dropped it.
THEOREM EndsAll == Spec => []AllEnded
<1>1. Inv => AllEnded
  <2> SUFFICES ASSUME Inv, gt = "EOF", ~lost PROVE due = <<>>
    BY Zenon DEF AllEnded
  <2>1. /\ Len(state) = 1 /\ Len(due) = Len(state) - 1
        /\ due \in Seq({"EndAtRule", "EndRuleset"})
    BY Zenon DEF Inv, TypeOK, AtBottom, Due
  <2> QED
    BY <2>1, EmptySeq
<1> QED
  BY <1>1, Invariance, PTL
================================================================================
