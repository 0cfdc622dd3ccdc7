--------------------------- MODULE AnalyzeCommand ---------------------------
(***************************************************************************)
(* The outcome of `istioctl analyze` (istioctl/cmd/analyze.go): once the   *)
(* analyzers have run, the command filters the messages by the output      *)
(* threshold for display, prints a "no issues" line when nothing is        *)
(* displayed (log format), and computes the exit error from the unfiltered *)
(* messages and the failure threshold, falling back to a file parse error. *)
(*                                                                         *)
(* A message is reduced to its level (Info < Warning < Error, as diag      *)
(* orders them); the analysis result is the input chosen in Init.  Text,   *)
(* colour and the JSON/YAML encodings are left out: the model records      *)
(* which messages are displayed and which notice line is printed.          *)
(***************************************************************************)
EXTENDS Naturals, Sequences, SequencesExt

CONSTANTS
    MaxMessages,      \* bound on the messages of one analysis
    MaxParseErrors    \* bound on the files that fail to parse

ASSUME CommandBounds == MaxMessages \in Nat /\ MaxParseErrors \in Nat

Levels == 1..3                 \* Info, Warning, Error
Info == 1
Warning == 2
Formats == {"log", "json", "yaml"}
Results == {"nil", "FoundIssues", "FileParse", "CommandParse"}
Notices == {"none", "noIssues", "noIssuesButParse"}

VARIABLES
    messages,      \* result.Messages, by level
    parseErrors,   \* files that could not be parsed
    failureLevel,  \* --failure-threshold (default Warning)
    outputLevel,   \* --output-threshold (default Info)
    format,        \* --output
    pc,            \* "run" until RunE returns
    displayed,     \* the messages written to stdout
    notice,        \* the line written to stderr when nothing is displayed
    result         \* the error RunE returns

vars == <<messages, parseErrors, failureLevel, outputLevel, format, pc,
          displayed, notice, result>>

\* m.Type.Level().IsWorseThanOrEqualTo(threshold)
AtLeast(level, threshold) == level >= threshold

\* Mutant: the exit error is computed with the output threshold.
ErrorIfMessagesExceedOutputThreshold(msgs) ==
    IF \E i \in DOMAIN msgs : AtLeast(msgs[i], outputLevel) THEN "FoundIssues" ELSE "nil"

\* errorIfMessagesExceedThreshold(messages)
ErrorIfMessagesExceedThreshold(msgs) ==
    IF \E i \in DOMAIN msgs : AtLeast(msgs[i], failureLevel) THEN "FoundIssues" ELSE "nil"

-----------------------------------------------------------------------------
Init ==
    /\ messages \in BoundedSeq(Levels, MaxMessages)
    /\ parseErrors \in 0..MaxParseErrors
    /\ failureLevel \in Levels
    /\ outputLevel \in Levels
    /\ format \in Formats \cup {"other"}
    /\ pc = "run"
    /\ displayed = <<>>
    /\ notice = "none"
    /\ result = "nil"

\* RunE, an --output value that is not a known format: CommandParseError.
RejectFormat ==
    /\ pc = "run"
    /\ format \notin Formats
    /\ pc' = "done"
    /\ result' = "CommandParse"
    /\ UNCHANGED <<messages, parseErrors, failureLevel, outputLevel, format,
                   displayed, notice>>

\* The tail of RunE: filter by the output threshold, print, and return the
\* error of the unfiltered messages, else a FileParseError if a file did
\* not parse.
Render ==
    /\ pc = "run"
    /\ format \in Formats
    /\ LET shown == SelectSeq(messages, LAMBDA l : AtLeast(l, outputLevel))
           found == ErrorIfMessagesExceedThreshold(messages)
       IN /\ displayed' = shown
          /\ notice' = IF format = "log" /\ shown = <<>>
                         THEN IF parseErrors = 0 THEN "noIssues" ELSE "noIssuesButParse"
                         ELSE "none"
          /\ result' = IF found = "nil" /\ parseErrors > 0 THEN "FileParse" ELSE found
    /\ pc' = "done"
    /\ UNCHANGED <<messages, parseErrors, failureLevel, outputLevel, format>>

Next == RejectFormat \/ Render

Spec == Init /\ [][Next]_vars

-----------------------------------------------------------------------------
(***************************************************************************)
(* Properties.                                                             *)
(***************************************************************************)

\* The command implements AnalyzeOutcome: it has returned once pc is done;
\* the display, the notice and the output threshold are hidden.
Outcome == INSTANCE AnalyzeOutcome WITH returned <- (pc = "done")

\* RunE returns once and only once, and what it returns is decided by the
\* unfiltered messages, the failure threshold, the parse errors and the
\* format alone (the --output check, errorIfMessagesExceedThreshold and the
\* FileParseError fallback), whatever the output threshold displays.
ReturnsVerdict == Outcome!Spec

\* The command never prints "No validation issues found" and then exits
\* with an error because of the analysis messages.
NoIssuesMeansSuccess ==
    pc = "done" /\ notice = "noIssues" => result = "nil"

=============================================================================
