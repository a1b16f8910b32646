SPECIFICATION Spec
CONSTANT MaxDepth = 4
INVARIANTS Bottom ErrorHasCause
PROPERTIES CommasSeparate EmitsEvents
