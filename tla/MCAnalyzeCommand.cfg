\* Every analysis result of up to three messages and two parse errors,
\* under every pair of thresholds and every output format.
CONSTANTS
    MaxMessages = 3
    MaxParseErrors = 2

SPECIFICATION Spec
PROPERTIES ReturnsVerdict
\* RunE returns once; the command then stops.
CHECK_DEADLOCK FALSE
