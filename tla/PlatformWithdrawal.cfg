SPECIFICATION FairSpec
CONSTANTS
    Gates = {g1}
    Launchers = {}
    Epochs = {e1, e2}
    NoEpoch = NoEpoch
    NoGate = NoGate
    Capacity = 1
    Lease = 2
    MaxTime = 3
    QueryLimit = 1
    MaxToken = 2
    LastIssue = 2
PROPERTIES
    EpochIsForever
    WithdrawalCloses
