------------------------- MODULE AnalyzeCommandProofs -------------------------
(***************************************************************************)
(* Machine-checked proof that `istioctl analyze` (AnalyzeCommand,         *)
(* istioctl/cmd/analyze.go) implements AnalyzeOutcome: it returns once,    *)
(* with the error decided by the unfiltered messages, the failure          *)
(* threshold, the parse errors and the format alone, for every number of   *)
(* messages and parse errors.                                              *)
(***************************************************************************)
EXTENDS AnalyzeCommand, TLAPS

USE CommandBounds

-----------------------------------------------------------------------------
(***************************************************************************)
(* Refinement of AnalyzeOutcome.  The inputs the outcome depends on never  *)
(* change, and each of the two ways RunE ends is the one Return step of    *)
(* the abstract command: an unknown format returns CommandParseError, and  *)
(* Render returns the verdict of the unfiltered messages.  Both start from *)
(* pc = "run", so the abstract command has not returned yet; no invariant  *)
(* is needed.                                                              *)
(***************************************************************************)
LEMMA OutcomeInit == Init => Outcome!Init
<1> SUFFICES ASSUME Init PROVE Outcome!Init
  OBVIOUS
<1>1. PICK m \in 0..MaxMessages : messages \in [1..m -> Levels]
  BY DEF Init, BoundedSeq, SeqOf
<1>2. messages \in Seq(Levels)
  BY <1>1
<1> QED
  BY <1>2 DEF Init, Outcome!Init

LEMMA OutcomeStep == [Next]_vars => [Outcome!Return]_Outcome!ovars
<1> SUFFICES ASSUME [Next]_vars PROVE [Outcome!Return]_Outcome!ovars
  OBVIOUS
<1>1. CASE RejectFormat
  <2>1. Outcome!Verdict = "CommandParse"
    BY <1>1 DEF RejectFormat, Outcome!Verdict
  <2>2. Outcome!Return
    BY <1>1, <2>1 DEF RejectFormat, Outcome!Return
  <2> QED
    BY <2>2
<1>2. CASE Render
  <2> DEFINE reached == \E i \in DOMAIN messages : messages[i] >= failureLevel
  <2>1. ErrorIfMessagesExceedThreshold(messages) = IF reached THEN "FoundIssues" ELSE "nil"
    BY DEF ErrorIfMessagesExceedThreshold, AtLeast
  <2>2. result' = IF reached THEN "FoundIssues"
                  ELSE IF parseErrors > 0 THEN "FileParse" ELSE "nil"
    BY <1>2, <2>1 DEF Render
  <2>3. format \in Formats
    BY <1>2 DEF Render
  <2>4. result' = Outcome!Verdict
    BY <2>2, <2>3 DEF Outcome!Verdict
  <2>5. Outcome!Return
    BY <1>2, <2>4 DEF Render, Outcome!Return
  <2> QED
    BY <2>5
<1>3. CASE UNCHANGED vars
  BY <1>3 DEF vars, Outcome!ovars
<1> QED
  BY <1>1, <1>2, <1>3 DEF Next

\* istioctl analyze returns once, and returns exactly what its unfiltered
\* messages, failure threshold, parse errors and format call for
\* (RunE's --output check and tail, errorIfMessagesExceedThreshold): for
\* every bound on the messages and parse errors.
THEOREM ImplementsOutcome == Spec => ReturnsVerdict
<1> QED
  BY OutcomeInit, OutcomeStep, PTL DEF Spec, ReturnsVerdict, Outcome!Spec

=============================================================================
