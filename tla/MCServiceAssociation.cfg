\* The analyzer against the expected messages on every input of the instance.
CONSTANTS
    Services <- MCServices
    Deployments <- MCDeployments
    LabelKeys <- MCLabelKeys
    LabelValues <- MCLabelValues
    Absent = absent
    NoNamespace = nons
    PortNumbers <- MCPortNumbers
    Protocols <- MCProtocols
    NoProtocol = ""
    TCP = "TCP"
    NoPort = noport
    MaxPorts = 2
    s1 = s1
    s2 = s2
    d1 = d1
    app = app
    web = web
    absent = absent
    nons = nons
    noport = noport

SPECIFICATION Spec
INVARIANTS ReportsAsExpected
\* Every deployment is analyzed once; the analysis then ends.
CHECK_DEADLOCK FALSE
