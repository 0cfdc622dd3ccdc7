------------------------- MODULE ServiceAssociation -------------------------
(***************************************************************************)
(* The deployment/service association analyzer of galley                   *)
(* (galley/pkg/config/analysis/analyzers/deployment/services.go).          *)
(*                                                                         *)
(* For every deployment whose pods are in the mesh (the pod template's     *)
(* sidecar.istio.io/inject annotation, else the namespace's                *)
(* istio-injection label), it collects the services whose selector         *)
(* matches the pod labels, reports IST0117 when there is none, and         *)
(* otherwise builds the port -> protocol -> service names map and reports  *)
(* IST0116 for every port served under more than one protocol, with the    *)
(* names collected from all its protocols.                                 *)
(*                                                                         *)
(* The analysis context is the input chosen in Init: a selector and a      *)
(* port list per service, pod labels, annotation and namespace label per   *)
(* deployment.  A report's service names are counted per service (a       *)
(* multiset): the code collects them in map iteration order, which is not  *)
(* deterministic.                                                          *)
(***************************************************************************)
EXTENDS Naturals, Sequences, SequencesExt

CONSTANTS
    Services,       \* service resources
    Deployments,    \* deployment resources
    LabelKeys,      \* label keys
    LabelValues,    \* label values
    Absent,         \* a label or annotation that is not set
    NoNamespace,    \* the deployment's namespace resource does not exist
    PortNumbers,    \* port numbers
    Protocols,      \* protocol names, the empty one included
    NoProtocol,     \* the empty protocol string
    TCP,            \* core_v1.ProtocolTCP
    NoPort,         \* the port field of an IST0117 report
    MaxPorts        \* bound on the ports of one service

ASSUME ProtocolAssumption ==
    /\ NoProtocol \in Protocols /\ TCP \in Protocols /\ NoProtocol # TCP
    /\ Absent \notin LabelValues
    /\ NoPort \notin PortNumbers
    /\ MaxPorts \in Nat

InjectValues == {"true", "false"}
NamespaceLabels == {"enabled", "disabled"}
LabelSet == [LabelKeys -> LabelValues \cup {Absent}]
PortEntry == PortNumbers \X Protocols

VARIABLES
    selector,     \* selector[s]: the service's spec.selector
    ports,        \* ports[s]: the service's spec.ports, as <<port, protocol>>
    podLabels,    \* podLabels[d]: the pod template's labels
    annotation,   \* annotation[d]: the pod template's sidecar.istio.io/inject
    nsLabel,      \* nsLabel[d]: the namespace's istio-injection label
    todo,         \* deployments ForEach has still to visit
    reports       \* the messages reported so far

vars == <<selector, ports, podLabels, annotation, nsLabel, todo, reports>>

\* k8s_labels.SelectorFromSet(s.Selector).Matches(pLabels): every label of
\* the selector is set to the same value on the pod; an empty selector
\* matches every pod.
Matches(s, d) ==
    \A l \in LabelKeys : selector[s][l] # Absent => podLabels[d][l] = selector[s][l]

\* inMesh(r, c): the pod annotation decides if present, then the namespace
\* label if the namespace exists, else not in the mesh.
InMesh(d) ==
    IF annotation[d] # Absent THEN annotation[d] = "true"
    ELSE IF nsLabel[d] # NoNamespace THEN nsLabel[d] = "enabled"
    ELSE FALSE

\* findMatchingServices(d, c)
FindMatchingServices(d) == SetToSeq({s \in Services : Matches(s, d)})

\* "Default protocol is TCP"
EffectiveProtocol(p) == IF p = NoProtocol THEN TCP ELSE p

\* A list of names as a count per service.
NameCounts(seq) == [s \in Services |-> Cardinality({i \in DOMAIN seq : seq[i] = s})]

\* servicePortMap(svcs): portMap[port][protocol] is the list of the names
\* of the services serving port under protocol, in service order.
ServicePortMap(svcs) ==
    FoldLeft(LAMBDA pm, s :
                FoldLeft(LAMBDA pm2, e :
                            [pm2 EXCEPT ![e[1]][EffectiveProtocol(e[2])] = Append(@, s)],
                         pm, ports[s]),
             [p \in PortNumbers |-> [q \in Protocols |-> <<>>]], svcs)

\* The protocols of protMap: those under which some name was appended.
ProtocolsOf(pm, p) == {q \in Protocols : pm[p][q] # <<>>}

\* The names of all services of port p, over all its protocols.
PortNames(pm, p) ==
    FoldSet(LAMBDA q, acc : [s \in Services |-> acc[s] + NameCounts(pm[p][q])[s]],
            [s \in Services |-> 0],
            ProtocolsOf(pm, p))

\* Mutant: a port is reported as soon as it has one protocol.
AnalyzeReportsOffByOne(d) ==
    LET svcs == FindMatchingServices(d)
        pm == ServicePortMap(svcs)
    IN IF svcs = <<>>
         THEN {[code |-> "IST0117", dep |-> d, port |-> NoPort,
                names |-> [s \in Services |-> 0]]}
         ELSE {[code |-> "IST0116", dep |-> d, port |-> p, names |-> PortNames(pm, p)] :
                 p \in {p \in PortNumbers : Cardinality(ProtocolsOf(pm, p)) > 0}}

\* analyzeDeployment(r, c): the messages reported for one deployment.
AnalyzeReports(d) ==
    LET svcs == FindMatchingServices(d)
        pm == ServicePortMap(svcs)
    IN IF svcs = <<>>
         THEN {[code |-> "IST0117", dep |-> d, port |-> NoPort,
                names |-> [s \in Services |-> 0]]}
         ELSE {[code |-> "IST0116", dep |-> d, port |-> p, names |-> PortNames(pm, p)] :
                 p \in {p \in PortNumbers : Cardinality(ProtocolsOf(pm, p)) > 1}}

-----------------------------------------------------------------------------
Init ==
    /\ selector \in [Services -> LabelSet]
    /\ ports \in [Services -> BoundedSeq(PortEntry, MaxPorts)]
    /\ podLabels \in [Deployments -> LabelSet]
    /\ annotation \in [Deployments -> InjectValues \cup {Absent}]
    /\ nsLabel \in [Deployments -> NamespaceLabels \cup {Absent, NoNamespace}]
    /\ todo = Deployments
    /\ reports = {}

\* One callback of Analyze's ForEach over the deployments: a deployment in
\* the mesh is analyzed, any other is skipped.
AnalyzeDeployment(d) ==
    /\ d \in todo
    /\ todo' = todo \ {d}
    /\ reports' = IF InMesh(d) THEN reports \cup AnalyzeReports(d) ELSE reports
    /\ UNCHANGED <<selector, ports, podLabels, annotation, nsLabel>>

Next == \E d \in Deployments : AnalyzeDeployment(d)

Spec == Init /\ [][Next]_vars

-----------------------------------------------------------------------------
(***************************************************************************)
(* Properties.                                                             *)
(***************************************************************************)

\* What the analyzer is meant to report for d, stated from the services'
\* ports directly: IST0117 when no service selects the pods; IST0116 for a
\* port that the selecting services serve under two protocols (an empty
\* protocol being TCP), naming every service entry on that port.
Expected(d) ==
    LET sel == {s \in Services : \A l \in LabelKeys :
                   selector[s][l] = Absent \/ selector[s][l] = podLabels[d][l]}
        proto(e) == IF e[2] = NoProtocol THEN TCP ELSE e[2]
        onPort(s, p) == {i \in DOMAIN ports[s] : ports[s][i][1] = p}
    IN IF sel = {}
         THEN {[code |-> "IST0117", dep |-> d, port |-> NoPort,
                names |-> [s \in Services |-> 0]]}
         ELSE {[code |-> "IST0116", dep |-> d, port |-> p,
                names |-> [s \in Services |->
                             IF s \in sel THEN Cardinality(onPort(s, p)) ELSE 0]] :
                 p \in {p \in PortNumbers :
                          \E s1, s2 \in sel : \E i \in onPort(s1, p), j \in onPort(s2, p) :
                             proto(ports[s1][i]) # proto(ports[s2][j])}}

\* Every analyzed deployment in the mesh got exactly the expected messages
\* (servicePortMap, the default-TCP rule and the len(protMap) > 1 test),
\* and one outside the mesh none.
ReportsAsExpected ==
    \A d \in Deployments \ todo :
        {m \in reports : m.dep = d} = IF InMesh(d) THEN Expected(d) ELSE {}

=============================================================================
