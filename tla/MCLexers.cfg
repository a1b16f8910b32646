SPECIFICATION MCSpec
CONSTANTS
    Longer = 0
INVARIANTS HTMLTagEnds HTMLRawTextEnds HTMLHasTemplate XMLWellFormedEnds CSSMaximalMunch JSLongestMatch BraceOfTemplate
PROPERTIES Tokenizes Finishes
