SPECIFICATION Spec
CONSTANT MaxDepth = 4
INVARIANTS InStep Settled AllEnded
PROPERTY Drains
