\* Incremental controller, both kinds of change: non-empty changes are applied as sent.
CONSTANTS
    n1 = n1  n2 = n2  a = a  b = b  sse = sse  other = other
    Namespaces <- MCNamespaces
    Names <- MCNames
    Keys <- MCKeys
    Fingerprints <- MCFingerprints
    SyntheticSE = sse
    OtherCollection = other
    Modes = {TRUE, FALSE}
    NoConfig = NoConfig
    MaxApply = 2
    MaxObjects = 2
    SyncedBits = 1
SPECIFICATION Spec
INVARIANTS NonEmptyAppliedAsSent SyncedCountsApplies
