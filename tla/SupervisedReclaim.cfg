SPECIFICATION Spec
CONSTANTS
    MaxMutations = 2
    MaxSequence = 4
    MaxBoundary = 7
    MaxSerial = 1
INVARIANTS
    SupervisedTypeOK
    ReclaimOnlyQuiet
    StepEvidenceCurrent
    RetiredOwesNothing
    OneWorker
    ActiveOwnsRoot
PROPERTIES
    QuarantineForever
