SPECIFICATION PlatformSpec
CONSTANTS
    Gates = {g1}
    Launchers = {l1}
    Epochs = {e1}
    NoEpoch = NoEpoch
    NoGate = NoGate
    Capacity = 1
    Lease = 3
    MaxTime = 3
    QueryLimit = 2
    MaxToken = 2
    LastIssue = 2
INVARIANTS
    PlatformTypeOK
    FreshnessBound
    LeasesAgree
    QueryCapsGrant
    OneQuery
PROPERTIES
    ImplementsPermission
