\* When an execution has answered and the venue has decided on its orders nothing
\* happens any more.
CONSTANTS
    Size = 2
    N = 2
    EvSubmitTimeout = 1
    EvFillTimeout = 1
    AdvisorModes = {"advisory", "shadow"}

SPECIFICATION KindsFairSpec
INVARIANTS
    NoIllegalTransition SubmittedMeansMatched UnwindBacked OpenOrderReported
    SubmittedMeansWhole NothingLeftBehind FailureSettled
PROPERTIES ImplementsOutcome NeverBackwards EveryKindFinishes
CHECK_DEADLOCK FALSE
