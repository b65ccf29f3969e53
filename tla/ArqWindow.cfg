CONSTANT MaxBlocks = 2
SPECIFICATION Spec
INVARIANTS WindowTypeOK AcksAreTrue NothingForgotten
