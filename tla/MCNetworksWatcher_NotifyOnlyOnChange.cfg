\* Networks watcher: are handlers called only when the configuration changed?
CONSTANTS
    ipOnly = ipOnly  withHost = withHost  withHostResolved = withHostResolved
    h1 = h1  h2 = h2
    Contents <- MCContents
    Resolve <- MCResolve
    Handlers <- MCHandlers
    Partial = Partial
    NoValue = NoValue
    MaxWrites = 3
SPECIFICATION Spec
PROPERTIES NotifyOnlyOnChange
\* The watcher legitimately waits forever once the bounded writers stop.
CHECK_DEADLOCK FALSE
