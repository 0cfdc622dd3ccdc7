---------------------- MODULE MCSyntheticServiceEntry ----------------------
(***************************************************************************)
(* A small instance of SyntheticServiceEntry for TLC: two namespaces, the  *)
(* first with two names so that a namespace map outlives one of its        *)
(* configs, annotations absent ("") or "1".                                *)
(***************************************************************************)
EXTENDS SyntheticServiceEntry, TLC

CONSTANTS n1, n2, a, b, sse, other

MCNamespaces == {n1, n2}
MCNames == {a, b}
MCKeys == {<<n1, a>>, <<n1, b>>, <<n2, a>>}
MCFingerprints == {"", "1"}
=============================================================================
