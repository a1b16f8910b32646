------------------------------ MODULE JSONEvents ------------------------------
(***************************************************************************)
(* The grammar units a JSON parser may emit, as a state machine: at most   *)
(* one value at the top, containers closed in the order they were opened,  *)
(* and in an object every value preceded by its key.  When Lenient is TRUE *)
(* a container may also stand where an object's key is expected.           *)
(***************************************************************************)
EXTENDS Integers, Sequences

CONSTANT Lenient

VARIABLES
    frames,   \* per open container: "array", or what the object expects next
    doc,      \* the document's value: "pending" or "complete"
    failed    \* an error was reported; nothing is promised after it

vars == <<frames, doc, failed>>

Expected == {"array", "key", "value"}

Init == frames = <<>> /\ doc = "pending" /\ failed = FALSE

Inner == frames[Len(frames)]
Outer == SubSeq(frames, 1, Len(frames) - 1)

\* A value stands at the top, in an array, or after a key.
ValueExpected ==
    IF frames = <<>> THEN doc = "pending" ELSE Inner \in {"array", "value"}

\* After a value an object expects a key.
Fill(fs) ==
    IF fs = <<>> THEN fs
    ELSE [fs EXCEPT ![Len(fs)] = IF @ = "value" THEN "key" ELSE @]

Start(kind) ==
    /\ ~failed
    /\ ValueExpected \/ (Lenient /\ frames # <<>>)
    /\ frames' = Append(frames, kind)
    /\ UNCHANGED <<doc, failed>>

End(kind) ==
    /\ ~failed /\ frames # <<>> /\ Inner = kind
    /\ frames' = Fill(Outer)
    /\ doc' = IF Outer = <<>> THEN "complete" ELSE doc
    /\ UNCHANGED failed

Key ==
    /\ ~failed /\ frames # <<>> /\ Inner = "key"
    /\ frames' = [frames EXCEPT ![Len(frames)] = "value"]
    /\ UNCHANGED <<doc, failed>>

Value ==
    /\ ~failed /\ ValueExpected
    /\ frames' = Fill(frames)
    /\ doc' = IF frames = <<>> THEN "complete" ELSE doc
    /\ UNCHANGED failed

Fail == failed' = TRUE /\ frames' = <<>> /\ doc' = "pending"

Next ==
    \/ \E kind \in {"array", "key"} : Start(kind) \/ End(kind)
    \/ Key \/ Value \/ Fail

Spec == Init /\ [][Next]_vars
===============================================================================
