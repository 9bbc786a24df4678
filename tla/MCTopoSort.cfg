SPECIFICATION FairSpec
CONSTANT Graphs <- MCGraphs
INVARIANTS
    TypeOK
    InputsFirst
    AcyclicSorted
    CyclesWithoutOutports
    DelaysBySlot
PROPERTY Terminates
