\* Incremental changes only: push classification and event dispatch keep the XDS updater current and the handler free of removed configs.
CONSTANTS
    n1 = n1  n2 = n2  a = a  b = b  sse = sse  other = other
    Namespaces <- MCNamespaces
    Names <- MCNames
    Keys <- MCKeys
    Fingerprints <- MCFingerprints
    SyntheticSE = sse
    OtherCollection = other
    Modes = {TRUE}
    NoConfig = NoConfig
    MaxApply = 3
    MaxObjects = 2
    SyncedBits = 16
SPECIFICATION Spec
INVARIANTS DownstreamFresh HandlerNoStale
