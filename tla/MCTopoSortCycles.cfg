SPECIFICATION Spec
CONSTANT Graphs <- MCDiagrams
INVARIANT CyclesDetected
