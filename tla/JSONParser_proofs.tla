-------------------------- MODULE JSONParser_proofs --------------------------
(***************************************************************************)
(* Proofs about JSONParser, for every nesting depth and every input.       *)
(***************************************************************************)
EXTENDS JSONParser, SequenceTheorems, TLAPS

\* What the proofs need beyond TypeOK and Bottom: after a complete value the
\* comma is due, and after a key the parser waits for its value.
Inv ==
    /\ TypeOK
    /\ Bottom
    /\ out.grammar \in Closes \cup {"Value"} => needComma
    /\ out.grammar = "Key" => Top = "ObjectValue"

\* Append extends a stack at its end.
LEMMA PushStack ==
    ASSUME NEW s \in States, state \in Seq(States)
    PROVE  /\ Append(state, s) \in Seq(States)
           /\ Len(Append(state, s)) = Len(state) + 1
           /\ \A i \in 1..Len(state) : Append(state, s)[i] = state[i]
           /\ Append(state, s)[Len(state) + 1] = s
  OBVIOUS

\* All of a sequence but its last element.
LEMMA Prefix ==
    ASSUME NEW S, NEW s \in Seq(S), Len(s) > 0
    PROVE  /\ SubSeq(s, 1, Len(s) - 1) \in Seq(S)
           /\ Len(SubSeq(s, 1, Len(s) - 1)) = Len(s) - 1
           /\ \A i \in 1..(Len(s) - 1) : SubSeq(s, 1, Len(s) - 1)[i] = s[i]
<1>1. Len(s) \in Nat /\ Len(s) - 1 \in Nat
  BY LenProperties
<1>2. \A i \in 1..(Len(s) - 1) : s[i] \in S
  BY <1>1, ElementOfSeq
<1> DEFINE n == Len(s) - 1
<1>3. n \in Nat /\ \A i \in 1..n : s[i] \in S
  BY <1>1, <1>2
<1> HIDE DEF n
<1>4. /\ SubSeq(s, 1, n) \in Seq(S) /\ Len(SubSeq(s, 1, n)) = n
      /\ \A i \in 1..n : SubSeq(s, 1, n)[i] = s[i]
  BY <1>3, SubSeqProperties
<1> QED
  BY <1>4 DEF n

\* Pop removes the innermost container, leaves a stack, and completes at most
\* the member of the container around it.
LEMMA PopStack ==
    ASSUME state \in Seq(States), Len(state) > 1
    PROVE  /\ Pop \in Seq(States)
           /\ Len(Pop) = Len(state) - 1
           /\ \A i \in 1..(Len(state) - 2) : Pop[i] = state[i]
           /\ Pop[Len(state) - 1] = IF state[Len(state) - 1] = "ObjectValue"
                                    THEN "ObjectKey" ELSE state[Len(state) - 1]
<1> DEFINE rest == SubSeq(state, 1, Len(state) - 1)
<1>1. /\ rest \in Seq(States) /\ Len(rest) = Len(state) - 1
      /\ \A i \in 1..(Len(state) - 1) : rest[i] = state[i]
  BY SubSeqProperties
<1>2. Len(rest) \in 1..Len(rest) /\ DOMAIN rest = 1..Len(rest)
  BY <1>1
<1> DEFINE v == IF rest[Len(rest)] = "ObjectValue" THEN "ObjectKey" ELSE rest[Len(rest)]
<1>3. v \in States
  BY <1>1, <1>2 DEF States
<1>4. Pop = [rest EXCEPT ![Len(rest)] = v]
  BY DEF Pop
<1> HIDE DEF rest, v
<1>5. /\ Pop \in Seq(States) /\ Len(Pop) = Len(rest)
      /\ \A j \in 1..Len(rest) : Pop[j] = IF j = Len(rest) THEN v ELSE rest[j]
  BY <1>1, <1>2, <1>3, <1>4, ExceptSeq
<1> QED
  BY <1>1, <1>5 DEF v

\* Replacing the innermost state keeps the rest of the stack.
LEMMA SetTop ==
    ASSUME NEW s \in States, state \in Seq(States), state # <<>>
    PROVE  /\ [state EXCEPT ![Len(state)] = s] \in Seq(States)
           /\ Len([state EXCEPT ![Len(state)] = s]) = Len(state)
           /\ \A i \in 1..Len(state) :
                 [state EXCEPT ![Len(state)] = s][i] = IF i = Len(state) THEN s ELSE state[i]
<1>1. Len(state) \in 1..Len(state)
  BY LenProperties, EmptySeq
<1> QED
  BY <1>1, ExceptSeq

LEMMA InitInv == Init => Inv
<1> SUFFICES ASSUME Init PROVE Inv
  OBVIOUS
<1>1. state \in Seq(States) /\ state # <<>> /\ Len(state) = 1 /\ state[1] = "Value"
  BY DEF Init, States
<1>2. TypeOK
  BY <1>1 DEF Init, TypeOK, Units, Ends, Grammars, Commas, None, Input
<1> QED
  BY <1>1, <1>2 DEF Init, Inv, Bottom, Closes, None

\* One call of Next keeps the invariant.
LEMMA NextInv == Inv /\ [Next]_vars => Inv'
<1> SUFFICES ASSUME Inv, [Next]_vars PROVE Inv'
  OBVIOUS
<1> USE DEF Inv
<1>0. /\ state \in Seq(States) /\ state # <<>> /\ Len(state) \in Nat \ {0}
      /\ Top \in States
      /\ Len(state) > 1 <=> Top # "Value"
  BY LenProperties, EmptySeq, ElementOfSeq DEF TypeOK, Bottom, Top
<1>1. CASE UNCHANGED vars
  BY <1>1 DEF vars, TypeOK, Bottom, Top
<1>2. CASE CommaRefused
  <2>1. TypeOK'
    BY <1>2 DEF CommaRefused, Fail, Return, TypeOK, Units, Grammars, Commas
  <2> QED
    BY <1>2, <2>1 DEF CommaRefused, Fail, Return, Bottom, Closes
<1>3. ASSUME NEW c \in Units, NEW comma \in Commas,
             Look(c, comma),
             \/ CommaExpected(c, comma)
             \/ StartObject(c, comma) \/ EndObject(c, comma)
             \/ StartArray(c, comma) \/ EndArray(c, comma)
             \/ Key(c, comma) \/ Value(c, comma)
      PROVE  Inv'
  <2> USE DEF Return, Due
  <2>0. Input(state) \subseteq Units /\ Input(state') \subseteq Units /\ Ends \subseteq Units
    BY DEF Input, Units
  <2>1. CASE CommaExpected(c, comma)
    <3>1. TypeOK'
      BY <2>1 DEF CommaExpected, Fail, TypeOK, Grammars, Commas
    <3> QED
      BY <2>1, <3>1 DEF CommaExpected, Fail, Bottom, Closes
  <2>2. ASSUME NEW s \in {"ObjectKey", "Array"}, NEW g \in Starts,
               state' = Append(state, s), needComma' = Due(comma), Emit(g, comma)
        PROVE  Inv'
    <3>1. /\ state' \in Seq(States) /\ Len(state') = Len(state) + 1
          /\ \A i \in 1..Len(state) : state'[i] = state[i]
          /\ state'[Len(state) + 1] = s
      BY <1>0, <2>2, PushStack DEF States
    <3>2. state' # <<>>
      BY <1>0, <3>1
    <3>3. TypeOK'
      BY <2>0, <2>2, <3>1, <3>2 DEF Emit, TypeOK, Grammars, Commas
    <3>4. Bottom'
      BY <1>0, <3>1 DEF Bottom
    <3> QED
      BY <2>2, <3>3, <3>4 DEF Emit, Starts, Closes
  <2>3. CASE StartObject(c, comma)
    BY <2>2, <2>3 DEF StartObject, Starts
  <2>4. CASE StartArray(c, comma)
    BY <2>2, <2>4 DEF StartArray, Starts
  <2>5. ASSUME NEW g \in Closes, Top # "Value",
               state' = Pop, needComma' = TRUE, Emit(g, comma)
        PROVE  Inv'
    <3>1. /\ state' \in Seq(States) /\ Len(state') = Len(state) - 1
          /\ \A i \in 1..(Len(state) - 2) : state'[i] = state[i]
          /\ state'[Len(state) - 1] = IF state[Len(state) - 1] = "ObjectValue"
                                       THEN "ObjectKey" ELSE state[Len(state) - 1]
      BY <1>0, <2>5, PopStack
    <3>2. state' # <<>>
      BY <1>0, <2>5, <3>1
    <3>3. TypeOK'
      BY <2>0, <2>5, <3>1, <3>2 DEF Emit, TypeOK, Grammars, Commas
    <3>4. Bottom'
      BY <1>0, <3>1 DEF Bottom
    <3> QED
      BY <2>5, <3>3, <3>4 DEF Emit, Closes
  <2>6. ASSUME NEW u \in Units, Fail(u, comma), needComma' \in BOOLEAN, UNCHANGED state
        PROVE  Inv'
    <3>1. TypeOK'
      BY <2>6 DEF Fail, TypeOK, Grammars, Commas
    <3> QED
      BY <2>6, <3>1 DEF Fail, Bottom, Closes
  <2>7. CASE EndObject(c, comma)
    BY <2>5, <2>6, <2>7 DEF EndObject, Closes
  <2>8. CASE EndArray(c, comma)
    BY <2>5, <2>6, <2>8 DEF EndArray, Closes
  <2>9. CASE Key(c, comma)
    <3>1. CASE /\ state' = [state EXCEPT ![Len(state)] = "ObjectValue"]
               /\ Emit("Key", comma)
      <4>1. /\ state' \in Seq(States) /\ Len(state') = Len(state)
            /\ \A i \in 1..Len(state) :
                  state'[i] = IF i = Len(state) THEN "ObjectValue" ELSE state[i]
        BY <1>0, <3>1, SetTop DEF States
      <4>2. state' # <<>>
        BY <1>0, <4>1
      <4>3. TypeOK'
        BY <2>0, <2>9, <3>1, <4>1, <4>2 DEF Key, Emit, TypeOK, Grammars, Commas
      <4>4. Top = "ObjectKey"
        BY <2>9 DEF Key
      <4>5. Top' = "ObjectValue"
        BY <1>0, <4>1 DEF Top
      <4>6. Bottom'
        BY <1>0, <4>1, <4>4 DEF Bottom, Top
      <4> QED
        BY <3>1, <4>3, <4>5, <4>6 DEF Emit, Closes
    <3>2. CASE \E u \in Units : Fail(u, comma) /\ UNCHANGED state
      BY <2>6, <2>9, <3>2 DEF Key
    <3> QED
      BY <2>0, <2>9, <3>1, <3>2 DEF Key
  <2>10. CASE Value(c, comma)
    <3>1. /\ state' \in Seq(States) /\ Len(state') = Len(state)
          /\ \A i \in 1..Len(state) :
                state'[i] = IF i = Len(state) /\ state[i] = "ObjectValue"
                            THEN "ObjectKey" ELSE state[i]
      BY <1>0, <2>10, SetTop DEF Value, Filled, States, Top
    <3>2. state' # <<>> /\ needComma' = TRUE
      BY <1>0, <2>10, <3>1 DEF Value
    <3>3. Bottom'
      BY <1>0, <3>1 DEF Bottom
    <3>4. CASE Emit("Value", comma)
      <4>1. TypeOK'
        BY <2>0, <3>1, <3>2, <3>4 DEF Emit, TypeOK, Grammars, Commas
      <4> QED
        BY <3>2, <3>3, <3>4, <4>1 DEF Emit
    <3>5. CASE \E u \in Units : /\ Return("Error", comma) /\ next' = u
                               /\ failed' = TRUE /\ err' \in BOOLEAN
      <4>1. out' \in [grammar : Grammars \cup {None}, comma : Commas]
        BY <3>5 DEF Grammars
      <4>2. TypeOK'
        BY <3>1, <3>2, <3>5, <4>1 DEF TypeOK
      <4> QED
        BY <3>2, <3>3, <3>5, <4>2 DEF Closes
    <3> QED
      BY <2>0, <2>10, <3>4, <3>5 DEF Value, Fail, TypeOK
  <2> QED
    BY <1>3, <2>1, <2>3, <2>4, <2>7, <2>8, <2>9, <2>10
<1> QED
  BY <1>1, <1>2, <1>3 DEF Next

LEMMA Invariance == Spec => []Inv
  BY InitInv, NextInv, PTL DEF Spec

\* The stack of the parser is well typed and never empty.
THEOREM TypeCorrect == Spec => []TypeOK
  BY Invariance, PTL DEF Inv

\* No input makes the parser pop its bottom state.
THEOREM BottomStays == Spec => []Bottom
  BY Invariance, PTL DEF Inv

--------------------------------------------------------------------------------
(* Commas *)

\* The value branch of Next returns a value for a complete token only.
LEMMA ValueOrError ==
    ASSUME NEW c, NEW comma, Value(c, comma)
    PROVE  \/ c \in {"string", "scalar"} /\ Emit("Value", comma)
           \/ Return("Error", comma) /\ failed' = TRUE
<1>1. \/ c \in {"string", "scalar"} /\ Emit("Value", comma)
      \/ Fail(c, comma)
      \/ \E end \in IF c = "unterminated" THEN Ends ELSE {c} :
            Fail(end, comma) \/ (Return("Error", comma) /\ failed' = TRUE)
  BY Zenon DEF Value
<1> QED
  BY <1>1, Zenon DEF Fail

\* One call of Next takes a comma where Separated and CommaPlaces want it.
LEMMA CommaStep ==
    ASSUME Inv, [Next]_vars
    PROVE  /\ [(out.grammar \in Closes \cup {"Value"} /\ out'.grammar \in Starts \cup {"Key", "Value"})
                 => out'.comma = ","]_vars
           /\ [out'.comma = "," => out.grammar # "Key" /\ Len(state) > 1]_vars
<1> USE DEF Inv
<1>0. Top # "Value" => Len(state) > 1
  BY LenProperties, EmptySeq DEF TypeOK, Bottom, Top
<1>1. CASE UNCHANGED vars
  BY <1>1
<1>2. CASE CommaRefused
  BY <1>2 DEF CommaRefused, Fail, Return, Starts, None
<1>3. ASSUME NEW c \in Units, NEW comma \in Commas,
             Look(c, comma), out'.comma = comma,
             out'.grammar \in Starts \cup {"Key", "Value"} => ~Due(comma)
      PROVE  /\ (out.grammar \in Closes \cup {"Value"} /\ out'.grammar \in Starts \cup {"Key", "Value"})
                 => out'.comma = ","
             /\ out'.comma = "," => out.grammar # "Key" /\ Len(state) > 1
  BY <1>0, <1>3 DEF Look, None, Due
<1>4. ASSUME NEW c \in Units, NEW comma \in Commas,
             \/ CommaExpected(c, comma)
             \/ StartObject(c, comma) \/ EndObject(c, comma)
             \/ StartArray(c, comma) \/ EndArray(c, comma)
             \/ Key(c, comma) \/ Value(c, comma)
      PROVE  /\ out'.comma = comma
             /\ out'.grammar \in Starts \cup {"Key", "Value"} => ~MissingComma(c, comma) /\ c \notin {"}", "]"} \cup Ends
  <2> USE DEF Return, Emit, Fail, Starts, Closes, Ends
  <2> HIDE DEF Inv
  <2>1. CASE CommaExpected(c, comma)
    BY <2>1 DEF CommaExpected
  <2>2. CASE StartObject(c, comma)
    BY <2>2 DEF StartObject
  <2>3. CASE StartArray(c, comma)
    BY <2>3 DEF StartArray
  <2>4. ASSUME NEW g \in Closes \cup {"Error"}, out' = [grammar |-> g, comma |-> comma]
        PROVE  out'.comma = comma /\ out'.grammar \notin Starts \cup {"Key", "Value"}
    BY <2>4
  <2>5. CASE EndObject(c, comma)
    BY <2>4, <2>5 DEF EndObject
  <2>6. CASE EndArray(c, comma)
    BY <2>4, <2>6 DEF EndArray
  <2>7. CASE Key(c, comma)
    <3>1. ~MissingComma(c, comma) /\ c \notin {"}", "]"}
      BY <2>7 DEF Key
    <3>2. CASE c = "string"
      BY <2>7, <3>1, <3>2 DEF Key
    <3>3. CASE c # "string"
      BY <2>4, <2>7, <3>3 DEF Key
    <3> QED
      BY <3>2, <3>3
  <2>8. CASE Value(c, comma)
    <3>1. ~MissingComma(c, comma) /\ c \notin {"}", "]"}
      BY <2>8 DEF Value
    <3>2. CASE c \in {"string", "scalar"} /\ Emit("Value", comma)
      BY <3>1, <3>2
    <3>3. CASE Return("Error", comma)
      BY <2>4, <3>3
    <3> QED
      BY <2>8, <3>2, <3>3, ValueOrError
  <2> QED
    BY <1>4, <2>1, <2>2, <2>3, <2>5, <2>6, <2>7, <2>8
<1>5. ASSUME NEW c \in Units, NEW comma \in Commas,
             ~MissingComma(c, comma), c \notin {"}", "]"} \cup Ends
      PROVE  ~Due(comma)
  BY <1>5, Zenon DEF MissingComma
<1> QED
  BY <1>1, <1>2, <1>3, <1>4, <1>5 DEF Next

\* Elements and members are separated by commas, at every nesting depth, with
\* the one needComma flag of the parser.
THEOREM ElementsSeparated == Spec => Separated
<1>1. Inv /\ [Next]_vars =>
        [(out.grammar \in Closes \cup {"Value"} /\ out'.grammar \in Starts \cup {"Key", "Value"})
             => out'.comma = ","]_vars
  BY CommaStep
<1> QED
  BY <1>1, Invariance, PTL DEF Spec, Separated

\* A comma is taken neither after a key nor outside every container.
THEOREM CommasPlaced == Spec => CommaPlaces
<1>1. Inv /\ [Next]_vars => [out'.comma = "," => out.grammar # "Key" /\ Len(state) > 1]_vars
  BY CommaStep
<1> QED
  BY <1>1, Invariance, PTL DEF Spec, CommaPlaces

\* Two elements have a comma between them at every level of nesting, and there is none
\* between a key and its value or outside of all containers.
THEOREM CommasRight == Spec => CommasSeparate
BY ElementsSeparated, CommasPlaced DEF CommasSeparate

--------------------------------------------------------------------------------
(* Errors *)

\* One call of Next sets p.err, or stops at the end of the input, when it
\* returns ErrorGrammar.
LEMMA ErrorStep ==
    ASSUME ErrorHasCause, [Next]_vars
    PROVE  ErrorHasCause'
<1>1. CASE UNCHANGED vars
  BY <1>1 DEF vars, ErrorHasCause
<1>2. ASSUME NEW u, NEW comma, Fail(u, comma)
      PROVE  ErrorHasCause'
  BY <1>2 DEF Fail, ErrorHasCause
<1>3. ASSUME NEW g \in Starts \cup Closes \cup {"Key", "Value"}, NEW comma, Emit(g, comma)
      PROVE  ErrorHasCause'
  BY <1>3 DEF Emit, Return, Starts, Closes, ErrorHasCause
<1>4. CASE CommaRefused
  BY <1>2, <1>4 DEF CommaRefused
<1>5. ASSUME NEW c \in Units, NEW comma \in Commas,
             \/ CommaExpected(c, comma)
             \/ StartObject(c, comma) \/ EndObject(c, comma)
             \/ StartArray(c, comma) \/ EndArray(c, comma)
             \/ Key(c, comma) \/ Value(c, comma)
      PROVE  ErrorHasCause'
  <2>1. CASE CommaExpected(c, comma)
    BY <1>2, <2>1 DEF CommaExpected
  <2>2. CASE StartObject(c, comma)
    BY <1>3, <2>2 DEF StartObject, Starts
  <2>3. CASE StartArray(c, comma)
    BY <1>3, <2>3 DEF StartArray, Starts
  <2>4. CASE EndObject(c, comma)
    BY <1>2, <1>3, <2>4 DEF EndObject, Closes
  <2>5. CASE EndArray(c, comma)
    BY <1>2, <1>3, <2>5 DEF EndArray, Closes
  <2>6. CASE Key(c, comma)
    <3>1. Emit("Key", comma) \/ \E u : Fail(u, comma)
      BY <2>6, Zenon DEF Key
    <3> QED
      BY <1>2, <1>3, <3>1
  <2>7. CASE Value(c, comma)
    <3>1. \/ Emit("Value", comma)
          \/ \E u : Fail(u, comma)
          \/ \E end \in IF c = "unterminated" THEN Ends ELSE {c} :
                end # "nul" /\ next' = end /\ (c \in {"unterminated"} \cup Ends)
      BY <2>7, Zenon DEF Value
    <3>2. ASSUME NEW end \in IF c = "unterminated" THEN Ends ELSE {c},
                 end # "nul", next' = end, c \in {"unterminated"} \cup Ends
          PROVE  ErrorHasCause'
      <4>1. next' = "EOF"
        BY <3>2 DEF Ends
      <4> QED
        BY <4>1 DEF ErrorHasCause
    <3> QED
      BY <1>2, <1>3, <3>1, <3>2
  <2> QED
    BY <1>5, <2>1, <2>2, <2>3, <2>4, <2>5, <2>6, <2>7
<1> QED
  BY <1>1, <1>4, <1>5 DEF Next

\* Whenever ErrorGrammar is returned Err() is not nil: p.err is set, or the
\* input is at its end.
THEOREM ErrorsExplained == Spec => []ErrorHasCause
<1>1. Init => ErrorHasCause
  BY DEF Init, ErrorHasCause, None
<1> QED
  BY <1>1, ErrorStep, PTL DEF Spec

--------------------------------------------------------------------------------
(* The parser implements JSONEvents *)

\* The frames of a stack: one per open container.
LEMMA FramesShape ==
    ASSUME NEW st \in Seq(States), st # <<>>
    PROVE  /\ Frames(st) \in Seq(Events!Expected)
           /\ Len(Frames(st)) = Len(st) - 1
           /\ \A i \in 1..(Len(st) - 1) : Frames(st)[i] = Frame(st[i + 1])
           /\ Frames(st) = <<>> <=> Len(st) = 1
<1>1. Len(st) \in Nat /\ Len(st) > 0
  BY LenProperties, EmptySeq
<1>2. Frames(st) = [i \in 1..(Len(st) - 1) |-> Frame(st[i + 1])]
  BY DEF Frames
<1>3. \A i \in 1..(Len(st) - 1) : Frame(st[i + 1]) \in Events!Expected
  BY DEF Frame, Events!Expected
<1>4. Frames(st) \in [1..(Len(st) - 1) -> Events!Expected]
  BY <1>2, <1>3
<1>5. Frames(st) \in Seq(Events!Expected) /\ Len(Frames(st)) = Len(st) - 1
  BY <1>1, <1>4
<1>6. \A i \in 1..(Len(st) - 1) : Frames(st)[i] = Frame(st[i + 1])
  BY <1>2
<1>7. Frames(st) = <<>> <=> Len(Frames(st)) = 0
  <2>1. \A f \in Seq(Events!Expected) : f = <<>> <=> Len(f) = 0
    BY EmptySeq
  <2> QED
    BY <1>5, <2>1
<1> QED
  BY <1>1, <1>5, <1>6, <1>7

\* The same facts for two sequences that agree everywhere.
LEMMA SameFrames ==
    ASSUME NEW f \in Seq(Events!Expected), NEW g \in Seq(Events!Expected),
           Len(f) = Len(g), \A i \in 1..Len(f) : f[i] = g[i]
    PROVE  f = g
  BY SeqEqual

\* Filling a frame: what an object expects after a value.
LEMMA FillFrames ==
    ASSUME NEW f \in Seq(Events!Expected)
    PROVE  /\ Events!Fill(f) \in Seq(Events!Expected)
           /\ Len(Events!Fill(f)) = Len(f)
           /\ \A i \in 1..Len(f) :
                 Events!Fill(f)[i] = IF i = Len(f) /\ f[i] = "value" THEN "key" ELSE f[i]
<1>1. CASE f = <<>>
  BY <1>1, EmptySeq DEF Events!Fill
<1>2. CASE f # <<>>
  <2> DEFINE v == IF f[Len(f)] = "value" THEN "key" ELSE f[Len(f)]
  <2>1. Len(f) \in 1..Len(f)
    BY <1>2, LenProperties, EmptySeq
  <2>2. v \in Events!Expected
    BY <2>1, ElementOfSeq DEF Events!Expected
  <2>3. Events!Fill(f) = [f EXCEPT ![Len(f)] = v]
    BY <1>2, <2>1, LenProperties DEF Events!Fill
  <2> HIDE DEF v
  <2>4. /\ [f EXCEPT ![Len(f)] = v] \in Seq(Events!Expected)
        /\ Len([f EXCEPT ![Len(f)] = v]) = Len(f)
        /\ \A i \in 1..Len(f) : [f EXCEPT ![Len(f)] = v][i] = IF i = Len(f) THEN v ELSE f[i]
    BY <2>1, <2>2, ExceptSeq
  <2>5. \A i \in 1..Len(f) : Events!Fill(f)[i] = IF i = Len(f) THEN v ELSE f[i]
    BY <2>3, <2>4
  <2>6. Events!Fill(f) \in Seq(Events!Expected) /\ Len(Events!Fill(f)) = Len(f)
    BY <2>3, <2>4
  <2>7. \A i \in 1..Len(f) :
           Events!Fill(f)[i] = IF i = Len(f) /\ f[i] = "value" THEN "key" ELSE f[i]
    BY <2>5 DEF v
  <2> QED
    BY <2>6, <2>7
<1> QED
  BY <1>1, <1>2

\* Each call of Next is a step of JSONEvents, or no step at all.
LEMMA EventStep ==
    ASSUME Inv, Inv', [Next]_vars
    PROVE  [Events!Next]_(Events!vars)
<1>a. TypeOK /\ TypeOK' /\ Bottom
  BY DEF Inv
<1>b. \A st \in Seq(States) : st # <<>> => Len(st) \in Nat \ {0} /\ st[Len(st)] \in States
  BY LenProperties, EmptySeq, ElementOfSeq
<1>0. /\ state \in Seq(States) /\ state # <<>> /\ Len(state) \in Nat \ {0}
      /\ state' \in Seq(States) /\ state' # <<>> /\ Len(state') \in Nat \ {0}
      /\ Top \in States /\ (Top = "Value" <=> Len(state) = 1)
  <2>1. state \in Seq(States) /\ state # <<>> /\ state' \in Seq(States) /\ state' # <<>>
    BY <1>a DEF TypeOK
  <2>2. Len(state) \in Nat \ {0} /\ Len(state') \in Nat \ {0} /\ Top \in States
    BY <1>b, <2>1 DEF Top
  <2>3. Top = "Value" <=> Len(state) = 1
    BY <1>a, <2>2 DEF Bottom, Top
  <2> QED
    BY <2>1, <2>2, <2>3
<1>1. CASE UNCHANGED vars
  BY <1>1 DEF vars, Events!vars, FramesBar, DocBar
<1>2. ASSUME failed' = TRUE
      PROVE  Events!Fail
  BY <1>2 DEF Events!Fail, FramesBar, DocBar
<1>3. ASSUME failed, failed' = failed
      PROVE  UNCHANGED Events!vars
  BY <1>3 DEF Events!vars, FramesBar, DocBar
<1>4. CASE CommaRefused
  BY <1>2, <1>4 DEF CommaRefused, Fail, Events!Next
<1>0c. Top = "Value" \/ Len(state) > 1
  <2>1. Len(state) \in Nat \ {0} /\ (Top = "Value" <=> Len(state) = 1)
    BY <1>0
  <2> QED
    BY SMTT(30), <2>1
<1> DEFINE F == Frames(state)
           G == Frames(state')
<1>5. /\ F \in Seq(Events!Expected) /\ Len(F) = Len(state) - 1
      /\ \A i \in 1..Len(F) : F[i] = Frame(state[i + 1])
      /\ F = <<>> <=> Len(state) = 1
      /\ G \in Seq(Events!Expected) /\ Len(G) = Len(state') - 1
      /\ \A i \in 1..Len(G) : G[i] = Frame(state'[i + 1])
      /\ G = <<>> <=> Len(state') = 1
  BY <1>0, FramesShape
<1>6. Len(state) > 1 => F[Len(F)] = Frame(Top)
  BY SMTT(30), <1>0, <1>5 DEF Top
<1> HIDE DEF F, G
<1>7. ASSUME ~failed, failed' = failed
      PROVE  FramesBar = F /\ FramesBar' = G
  BY <1>7 DEF FramesBar, F, G
<1>8. ASSUME ~failed, failed' = failed, NEW s \in {"ObjectKey", "Array"},
             state' = Append(state, s),
             Len(state) = 1 => ~needComma
      PROVE  Events!Start(Frame(s))
  <2>1. /\ Len(state') = Len(state) + 1
        /\ \A i \in 1..Len(state) : state'[i] = state[i]
        /\ state'[Len(state) + 1] = s
    BY <1>0, <1>8, PushStack DEF States
  <2>2. G = Append(F, Frame(s))
    <3>1. Frame(s) \in Events!Expected
      BY <1>8 DEF Frame, Events!Expected
    <3>2. /\ Append(F, Frame(s)) \in Seq(Events!Expected)
          /\ Len(Append(F, Frame(s))) = Len(G)
          /\ \A i \in 1..Len(G) :
                Append(F, Frame(s))[i] = IF i = Len(G) THEN Frame(s) ELSE F[i]
      BY <1>0, <1>5, <2>1, <3>1
    <3>3. \A i \in 1..Len(G) : G[i] = IF i = Len(G) THEN Frame(s) ELSE F[i]
      <4> SUFFICES ASSUME NEW i \in 1..Len(G)
                   PROVE  G[i] = IF i = Len(G) THEN Frame(s) ELSE F[i]
        OBVIOUS
      <4>1. CASE i = Len(G)
        BY SMTT(30), <1>0, <1>5, <2>1, <4>1
      <4>2. CASE i # Len(G)
        <5>1. i \in 1..Len(F) /\ i + 1 \in 1..Len(state)
          BY <1>0, <1>5, <2>1, <4>2
        <5>2. state'[i + 1] = state[i + 1]
          BY <2>1, <5>1
        <5> QED
          BY <1>5, <4>2, <5>1, <5>2
      <4> QED
        BY <4>1, <4>2
    <3> QED
      BY <1>5, <3>2, <3>3, SameFrames
  <2>3. DocBar = "pending" /\ DocBar' = "pending"
    BY <1>0, <1>8, <2>1 DEF DocBar
  <2>4. F # <<>> \/ (F = <<>> /\ DocBar = "pending")
    BY <2>3
  <2> QED
    BY <1>7, <1>8, <2>2, <2>3, <2>4 DEF Events!Start, Events!ValueExpected
<1>9. ASSUME ~failed, failed' = failed, Len(state) > 1, state' = Pop, needComma' = TRUE
      PROVE  Events!End(Frame(Top))
  <2>1. /\ Len(state') = Len(state) - 1
        /\ \A i \in 1..(Len(state) - 2) : state'[i] = state[i]
        /\ state'[Len(state) - 1] = IF state[Len(state) - 1] = "ObjectValue"
                                     THEN "ObjectKey" ELSE state[Len(state) - 1]
    BY <1>0, <1>9, PopStack
  <2> DEFINE O == SubSeq(F, 1, Len(F) - 1)
  <2>2. /\ O \in Seq(Events!Expected) /\ Len(O) = Len(F) - 1
        /\ \A i \in 1..(Len(F) - 1) : O[i] = F[i]
    BY SMTT(30), <1>0, <1>5, <1>9, Prefix
  <2> HIDE DEF O
  <2>3. G = Events!Fill(O)
    <3>1. /\ Events!Fill(O) \in Seq(Events!Expected) /\ Len(Events!Fill(O)) = Len(O)
          /\ \A i \in 1..Len(O) :
                Events!Fill(O)[i] = IF i = Len(O) /\ O[i] = "value" THEN "key" ELSE O[i]
      BY <2>2, FillFrames
    <3>2. Len(G) = Len(O)
      BY <1>0, <1>5, <2>1, <2>2
    <3>3. ASSUME NEW i \in 1..Len(G)
          PROVE  G[i] = Events!Fill(O)[i]
      <4>1. G[i] = Frame(state'[i + 1]) /\ O[i] = Frame(state[i + 1])
        BY SMTT(30), <1>0, <1>5, <2>1, <2>2
      <4>2. state'[i + 1] = IF i = Len(O) /\ state[i + 1] = "ObjectValue"
                            THEN "ObjectKey" ELSE state[i + 1]
        <5>1. i \in 1..Len(O) /\ Len(O) = Len(state) - 2
          BY <1>0, <1>5, <2>2, <3>2
        <5>2. CASE i = Len(O)
          BY <1>0, <2>1, <5>1, <5>2
        <5>3. CASE i # Len(O)
          <6>1. i + 1 \in 1..(Len(state) - 2)
            BY <1>0, <5>1, <5>3
          <6> QED
            BY <2>1, <5>3, <6>1
        <5> QED
          BY <5>2, <5>3
      <4>3. state[i + 1] \in States /\ state[i + 1] # "Value"
        <5>1. i + 1 \in 1..Len(state) /\ i + 1 # 1
          BY <1>0, <1>5, <2>1
        <5> QED
          BY <1>0, <1>a, <5>1, ElementOfSeq DEF Bottom
      <4>4. Frame(state'[i + 1]) =
               IF i = Len(O) /\ Frame(state[i + 1]) = "value" THEN "key" ELSE Frame(state[i + 1])
        BY <4>2, <4>3 DEF Frame, States
      <4> QED
        BY <3>1, <3>2, <4>1, <4>4
    <3> QED
      BY <1>5, <3>1, <3>2, <3>3, SameFrames
  <2>4. O = <<>> <=> Len(state') = 1
    <3>1. O = <<>> <=> Len(O) = 0
      BY <2>2, EmptySeq
    <3> QED
      BY <1>0, <1>5, <2>1, <2>2, <3>1
  <2>6. F # <<>> /\ F[Len(F)] = Frame(Top)
    BY <1>0, <1>5, <1>6, <1>9
  <2>5. DocBar = "pending" /\ DocBar' = IF O = <<>> THEN "complete" ELSE "pending"
    <3>1. DocBar = "pending"
      <4>1. Len(state) # 1
        BY <1>5, <2>6
      <4> QED
        BY <4>1 DEF DocBar
    <3>2. DocBar' = IF Len(state') = 1 THEN "complete" ELSE "pending"
      BY <1>9 DEF DocBar
    <3> QED
      BY <2>4, <3>1, <3>2
  <2> QED
    BY <1>5, <1>7, <1>9, <2>3, <2>5, <2>6 DEF Events!End, Events!Inner, Events!Outer, O
<1>10. ASSUME ~failed, failed' = failed, Top = "ObjectKey",
              state' = [state EXCEPT ![Len(state)] = "ObjectValue"]
       PROVE  Events!Key
  <2>1. /\ Len(state') = Len(state)
        /\ \A i \in 1..Len(state) :
              state'[i] = IF i = Len(state) THEN "ObjectValue" ELSE state[i]
    BY <1>0, <1>10, SetTop DEF States
  <2>2. Len(state) > 1 /\ F # <<>> /\ Len(F) \in 1..Len(F) /\ F[Len(F)] = "key"
    BY <1>0, <1>5, <1>6, <1>10 DEF Frame
  <2> DEFINE H == [F EXCEPT ![Len(F)] = "value"]
  <2>3. /\ H \in Seq(Events!Expected) /\ Len(H) = Len(F)
        /\ \A i \in 1..Len(F) : H[i] = IF i = Len(F) THEN "value" ELSE F[i]
    BY <1>5, <2>2, ExceptSeq DEF Events!Expected
  <2> HIDE DEF H
  <2>4. G = H
    <3>1. Len(G) = Len(H)
      BY <1>5, <2>1, <2>3
    <3>2. ASSUME NEW i \in 1..Len(G)
          PROVE  G[i] = H[i]
      <4>1. /\ i \in 1..Len(F) /\ i + 1 \in 1..Len(state)
            /\ i = Len(F) <=> i + 1 = Len(state)
        BY <1>0, <1>5, <2>1
      <4>2. G[i] = Frame(state'[i + 1]) /\ F[i] = Frame(state[i + 1])
        BY <1>5, <4>1
      <4> QED
        BY <2>1, <2>3, <4>1, <4>2 DEF Frame
    <3> QED
      BY <1>5, <2>3, <3>1, <3>2, SameFrames
  <2>5. DocBar = "pending" /\ DocBar' = "pending"
    <3>1. Len(state) # 1 /\ Len(state') # 1
      BY <1>0, <2>1, <2>2
    <3> QED
      BY <3>1 DEF DocBar
  <2> QED
    BY <1>7, <1>10, <2>2, <2>4, <2>5 DEF Events!Key, Events!Inner, H
<1>11. ASSUME ~failed, failed' = failed, Top # "ObjectKey",
              Len(state) = 1 => ~needComma, needComma' = TRUE,
              state' = IF Top = "ObjectValue"
                       THEN [state EXCEPT ![Len(state)] = "ObjectKey"] ELSE state
       PROVE  Events!Value
  <2>1. /\ Len(state') = Len(state)
        /\ \A i \in 1..Len(state) :
              state'[i] = IF i = Len(state) /\ state[i] = "ObjectValue"
                          THEN "ObjectKey" ELSE state[i]
    BY <1>0, <1>11, SetTop DEF States, Top
  <2>2. /\ Events!Fill(F) \in Seq(Events!Expected) /\ Len(Events!Fill(F)) = Len(F)
        /\ \A i \in 1..Len(F) :
              Events!Fill(F)[i] = IF i = Len(F) /\ F[i] = "value" THEN "key" ELSE F[i]
    BY <1>5, FillFrames
  <2>3. G = Events!Fill(F)
    <3>1. Len(G) = Len(Events!Fill(F))
      BY <1>5, <2>1, <2>2
    <3>2. ASSUME NEW i \in 1..Len(G)
          PROVE  G[i] = Events!Fill(F)[i]
      <4>1. /\ i \in 1..Len(F) /\ i + 1 \in 1..Len(state) /\ i + 1 # 1
            /\ i = Len(F) <=> i + 1 = Len(state)
        BY <1>0, <1>5, <2>1
      <4>2. G[i] = Frame(state'[i + 1]) /\ F[i] = Frame(state[i + 1])
        BY <1>5, <4>1
      <4>3. state[i + 1] \in States /\ state[i + 1] # "Value"
        BY <1>0, <1>a, <4>1, ElementOfSeq DEF Bottom
      <4>4. Frame(state'[i + 1]) =
               IF i = Len(F) /\ Frame(state[i + 1]) = "value" THEN "key" ELSE Frame(state[i + 1])
        BY <2>1, <4>1, <4>3 DEF Frame, States
      <4> QED
        BY <2>2, <4>1, <4>2, <4>4
    <3> QED
      BY <1>5, <2>2, <3>1, <3>2, SameFrames
  <2>4. DocBar = "pending" /\ DocBar' = IF F = <<>> THEN "complete" ELSE "pending"
    <3>1. DocBar = "pending"
      BY <1>11 DEF DocBar
    <3>2. DocBar' = IF Len(state') = 1 THEN "complete" ELSE "pending"
      BY <1>11 DEF DocBar
    <3> QED
      BY <1>5, <2>1, <3>1, <3>2
  <2>5. F # <<>> => F[Len(F)] \in {"array", "value"}
    BY <1>0, <1>5, <1>6, <1>11 DEF Frame, States
  <2> QED
    BY <1>7, <1>11, <2>3, <2>4, <2>5 DEF Events!Value, Events!ValueExpected, Events!Inner
<1>12. ASSUME NEW c \in Units, NEW comma \in Commas, Look(c, comma), ~failed, failed' = failed,
              ~MissingComma(c, comma), c \notin {"}", "]"} \cup Ends, Len(state) = 1
       PROVE  ~needComma
  <2>1. Top \notin {"Array", "ObjectKey"}
    BY <1>0, <1>12
  <2>2. comma = None
    BY <1>12, <2>1, Zenon DEF Look
  <2> QED
    BY <1>12, <2>2, Zenon DEF MissingComma, Due
<1>13. ASSUME NEW c \in Units, NEW comma \in Commas, Look(c, comma),
              \/ CommaExpected(c, comma)
              \/ StartObject(c, comma) \/ EndObject(c, comma)
              \/ StartArray(c, comma) \/ EndArray(c, comma)
              \/ Key(c, comma) \/ Value(c, comma)
       PROVE  [Events!Next]_(Events!vars)
  <2>1. failed \in BOOLEAN
    BY <1>a DEF TypeOK
  <2>2. CASE failed' = TRUE
    BY <1>2, <2>2 DEF Events!Next
  <2>3. CASE failed /\ UNCHANGED failed
    BY <1>3, <2>3
  <2> SUFFICES ASSUME ~failed, UNCHANGED failed
               PROVE  Events!Next
    <3>1. failed' = TRUE \/ UNCHANGED failed
      <4>1. CASE CommaExpected(c, comma)
        BY <4>1 DEF CommaExpected, Fail
      <4>2. CASE StartObject(c, comma)
        BY <4>2 DEF StartObject, Emit
      <4>3. CASE StartArray(c, comma)
        BY <4>3 DEF StartArray, Emit
      <4>4. CASE EndObject(c, comma)
        BY <4>4 DEF EndObject, Emit, Fail
      <4>5. CASE EndArray(c, comma)
        BY <4>5 DEF EndArray, Emit, Fail
      <4>6. CASE Key(c, comma)
        BY <4>6, Zenon DEF Key, Emit, Fail
      <4>7. CASE Value(c, comma)
        BY <4>7, ValueOrError, Zenon DEF Emit
      <4> QED
        BY <1>13, <4>1, <4>2, <4>3, <4>4, <4>5, <4>6, <4>7
    <3> QED
      BY <2>2, <2>3, <3>1, Zenon
  <2>4. failed' # TRUE /\ failed' = failed
    BY Zenon
  <2>5. CASE CommaExpected(c, comma)
    BY <2>4, <2>5 DEF CommaExpected, Fail
  <2>6. CASE StartObject(c, comma)
    <3>1. c \notin {"}", "]"} \cup Ends /\ ~MissingComma(c, comma) /\ state' = Append(state, "ObjectKey")
      BY <2>6 DEF StartObject, Ends
    <3>2. Events!Start(Frame("ObjectKey"))
      BY <1>8, <1>12, <1>13, <2>4, <3>1
    <3> QED
      BY <3>2 DEF Frame, Events!Next
  <2>7. CASE StartArray(c, comma)
    <3>1. c \notin {"}", "]"} \cup Ends /\ ~MissingComma(c, comma) /\ state' = Append(state, "Array")
      BY <2>7 DEF StartArray, Ends
    <3>2. Events!Start(Frame("Array"))
      BY <1>8, <1>12, <1>13, <2>4, <3>1
    <3> QED
      BY <3>2 DEF Frame, Events!Next
  <2>8. CASE EndObject(c, comma)
    <3>1. Top = "ObjectKey" /\ state' = Pop /\ needComma' = TRUE
      BY <2>4, <2>8 DEF EndObject, Fail
    <3>2. Events!End(Frame(Top))
      <4>1. Len(state) > 1
        BY <1>0c, <3>1
      <4> QED
        BY <1>9, <2>4, <3>1, <4>1
    <3> QED
      BY <3>1, <3>2 DEF Frame, Events!Next
  <2>9. CASE EndArray(c, comma)
    <3>1. Top = "Array" /\ state' = Pop /\ needComma' = TRUE
      BY <2>4, <2>9 DEF EndArray, Fail
    <3>2. Events!End(Frame(Top))
      <4>1. Len(state) > 1
        BY <1>0c, <3>1
      <4> QED
        BY <1>9, <2>4, <3>1, <4>1
    <3> QED
      BY <3>1, <3>2 DEF Frame, Events!Next
  <2>10. CASE Key(c, comma)
    <3>1. Top = "ObjectKey" /\ state' = [state EXCEPT ![Len(state)] = "ObjectValue"]
      BY <2>4, <2>10 DEF Key, Fail
    <3> QED
      BY <1>10, <2>4, <3>1 DEF Events!Next
  <2>11. CASE Value(c, comma)
    <3>1. c \in {"string", "scalar"}
      BY <2>4, <2>11, ValueOrError, Zenon
    <3>2. c \notin {"}", "]"} \cup Ends
      BY <3>1 DEF Ends
    <3>3. /\ Top # "ObjectKey" /\ ~MissingComma(c, comma) /\ needComma' = TRUE
          /\ state' = IF Top = "ObjectValue"
                      THEN [state EXCEPT ![Len(state)] = "ObjectKey"] ELSE state
      BY <2>11, Zenon DEF Value, Filled
    <3>4. Events!Value
      BY <1>11, <1>12, <1>13, <2>4, <3>2, <3>3
    <3> QED
      BY <3>4 DEF Events!Next
  <2> QED
    BY <1>13, <2>5, <2>6, <2>7, <2>8, <2>9, <2>10, <2>11
<1> QED
  BY <1>1, <1>4, <1>13 DEF Next

LEMMA EventInit == Init => Events!Init
<1> SUFFICES ASSUME Init PROVE Events!Init
  OBVIOUS
<1>1. state \in Seq(States) /\ state # <<>> /\ Len(state) = 1 /\ ~failed /\ failed = FALSE
  BY DEF Init, States
<1>2. FramesBar = <<>>
  BY <1>1, FramesShape DEF FramesBar
<1>3. DocBar = "pending"
  BY DEF Init, DocBar
<1> QED
  BY <1>1, <1>2, <1>3 DEF Events!Init

\* The parser implements the abstract machine of JSON's grammar units: whatever
\* the input and however deep, what it returns up to the first error nests, and
\* every member that is not a container has its key.
THEOREM ImplementsEvents == Spec => EmitsEvents
<1>1. Inv /\ Inv' /\ [Next]_vars => [Events!Next]_(Events!vars)
  BY EventStep
<1> QED
  BY <1>1, EventInit, Invariance, PTL DEF Spec, EmitsEvents, Events!Spec
===============================================================================
