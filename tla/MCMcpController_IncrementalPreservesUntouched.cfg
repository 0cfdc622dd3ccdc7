\* Generic controller: does it keep IncrementalPreservesUntouched (spec)?
CONSTANTS
    se = se  gw = gw  sse = sse  unk = unk
    k1 = k1  k2 = k2  v1 = v1  v2 = v2  r1 = r1
    Collections <- MCCollections
    ServiceEntry = se
    SyntheticSE = sse
    Unknown = unk
    Keys <- MCKeys
    Versions <- MCVersions
    Readers <- MCReaders
    NoConfig = NoConfig
    NilMap = NilMap
    MaxApply = 2
    MaxObjects = 2
    MaxHandlers = 1
SPECIFICATION Spec
SYMMETRY MCSymmetry
INVARIANTS IncrementalPreservesUntouched
