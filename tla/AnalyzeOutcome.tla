--------------------------- MODULE AnalyzeOutcome ---------------------------
(***************************************************************************)
(* What `istioctl analyze` promises about its return code, without the     *)
(* display: the inputs (the unfiltered message levels, the files that did  *)
(* not parse, the failure threshold and the output format) are fixed, and  *)
(* the command returns once, with CommandParseError for an unknown format, *)
(* AnalyzerFoundIssuesError when a message reaches the failure threshold,  *)
(* else FileParseError when a file did not parse, else success.            *)
(***************************************************************************)
EXTENDS Naturals, Sequences

CONSTANTS Levels, Formats

VARIABLES
    messages,      \* the unfiltered messages, by level
    parseErrors,   \* files that could not be parsed
    failureLevel,  \* the failure threshold
    format,        \* the output format asked for
    returned,      \* the command has returned
    result         \* the error it returned

ovars == <<messages, parseErrors, failureLevel, format, returned, result>>

\* The return code the command promises for its inputs.
Verdict ==
    IF format \notin Formats THEN "CommandParse"
    ELSE IF \E i \in DOMAIN messages : messages[i] >= failureLevel THEN "FoundIssues"
    ELSE IF parseErrors > 0 THEN "FileParse"
    ELSE "nil"

Init ==
    /\ messages \in Seq(Levels)
    /\ parseErrors \in Nat
    /\ failureLevel \in Levels
    /\ returned = FALSE
    /\ result = "nil"

\* The command returns its verdict.
Return ==
    /\ ~returned
    /\ returned' = TRUE
    /\ result' = Verdict
    /\ UNCHANGED <<messages, parseErrors, failureLevel, format>>

Spec == Init /\ [][Return]_ovars

=============================================================================
