-------------------------- MODULE MCMcpController --------------------------
(***************************************************************************)
(* A small instance of McpController for TLC: three collections (the       *)
(* service entries, one other type, and the synthetic service entries that *)
(* Apply refuses), two keys, two versions, two concurrent List callers.    *)
(***************************************************************************)
EXTENDS McpController, TLC

CONSTANTS se, gw, sse, unk, k1, k2, v1, v2, r1

MCCollections == {se, gw}
MCKeys == {k1, k2}
MCVersions == {v1, v2}
MCReaders == {r1}

\* Keys, versions and readers are interchangeable: no property names one.
MCSymmetry == Permutations(MCKeys) \cup Permutations(MCVersions)
                \cup Permutations(MCReaders)
=============================================================================
