SPECIFICATION Spec
CONSTANTS
    MaxDerived <- MCMaxDerived
    MaxTokens <- MCMaxTokens
CHECK_DEADLOCK FALSE
INVARIANTS
    Accepts
    Kept
    RoundTrip
    Grammatical
