------------------------- MODULE MCNetworksWatcher -------------------------
(***************************************************************************)
(* A small instance of NetworksWatcher for TLC: one file content whose     *)
(* gateways are IP addresses (resolution leaves it as it is) and one that  *)
(* names a host (resolution rewrites it), two handlers, two writes.        *)
(***************************************************************************)
EXTENDS NetworksWatcher, TLC

CONSTANTS ipOnly, withHost, withHostResolved, h1, h2

MCContents == {ipOnly, withHost}
MCResolve == (ipOnly :> ipOnly) @@ (withHost :> withHostResolved)
MCHandlers == {h1, h2}
=============================================================================
