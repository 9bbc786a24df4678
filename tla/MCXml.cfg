SPECIFICATION Spec
CONSTANTS
    Plans <- MCPlans
    Names <- MCNames
    Texts <- MCTexts
    MaxNodes = 4
    MaxElementDepth = 5
    Nil = Nil
INVARIANTS WellLinked UnlinkedAreCounted SavedIsReadBack DecodesInPlace
PROPERTIES LoadLeavesNoOrphans CopiesAreEqual EditsAreLocal ReadsWhatWasWritten
CHECK_DEADLOCK FALSE
