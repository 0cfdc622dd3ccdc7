\* A warning hidden by the output threshold still fails the command.
CONSTANTS
    MaxMessages = 3
    MaxParseErrors = 2

SPECIFICATION Spec
INVARIANTS NoIssuesMeansSuccess
\* RunE returns once; the command then stops.
CHECK_DEADLOCK FALSE
