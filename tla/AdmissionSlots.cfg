SPECIFICATION Spec
CONSTANTS
    Gates = {g1, g2}
    Launchers = {l1}
    Epochs = {e1}
    NoEpoch = NoEpoch
    NoGate = NoGate
    Capacity = 1
    Lease = 2
    MaxTime = 2
SYMMETRY Symmetry
INVARIANTS
    RevocationClosesGates
    OpenGatesRegistered
PROPERTIES
    NoEntryAfterRevocation
