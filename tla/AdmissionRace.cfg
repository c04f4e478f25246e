SPECIFICATION Spec
CONSTANTS
    Gates = {g1}
    Launchers = {l1, l2}
    Epochs = {e1, e2}
    NoEpoch = NoEpoch
    NoGate = NoGate
    Capacity = 1
    Lease = 2
    MaxTime = 2
SYMMETRY Symmetry
INVARIANTS
    TypeOK
    RevocationClosesGates
    EntryWithinGrant
    SingleEntry
    GrantWithinAuthority
PROPERTIES
    StopIsFinal
    PublishedFrozen
    NoEntryAfterRevocation
