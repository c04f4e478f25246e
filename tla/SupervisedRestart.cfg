SPECIFICATION Spec
CONSTANTS
    MaxMutations = 1
    MaxSequence = 3
    MaxBoundary = 6
    MaxSerial = 2
INVARIANTS
    NoOverlap
    OneWorker
