------------------------ MODULE MCServiceAssociation ------------------------
(* Two services, one deployment, one label key with one value, two port    *)
(* numbers under three protocols ("" , TCP, UDP), at most two ports per    *)
(* service: enough for a default-TCP clash, a genuine TCP/UDP conflict,    *)
(* two protocols in one service and an empty selector.                     *)
EXTENDS ServiceAssociation, TLC

CONSTANTS s1, s2, d1, app, web, absent, nons, noport

MCServices == {s1, s2}
MCDeployments == {d1}
MCLabelKeys == {app}
MCLabelValues == {web}
MCPortNumbers == {53, 80}
MCProtocols == {"", "TCP", "UDP"}

=============================================================================
