-------------------------- MODULE MCAnalyzeCommand --------------------------
(* istioctl analyze on every analysis result of at most MaxMessages        *)
(* messages and MaxParseErrors unparsable files.                           *)
EXTENDS AnalyzeCommand

=============================================================================
