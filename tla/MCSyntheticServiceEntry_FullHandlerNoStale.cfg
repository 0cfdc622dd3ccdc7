\* Does a full change tell the handler of every config it drops (HandlerNoStale)?
CONSTANTS
    n1 = n1  n2 = n2  a = a  b = b  sse = sse  other = other
    Namespaces <- MCNamespaces
    Names <- MCNames
    Keys <- MCKeys
    Fingerprints <- MCFingerprints
    SyntheticSE = sse
    OtherCollection = other
    Modes = {TRUE, FALSE}
    NoConfig = NoConfig
    MaxApply = 2
    MaxObjects = 2
    SyncedBits = 16
SPECIFICATION Spec
INVARIANTS HandlerNoStale
