SPECIFICATION Spec
CONSTANTS
    Revisions <- MCRevisions
    Policy <- MCPolicy
    Fastest = "v3"
    MaxTime = 7
INVARIANTS TypeOK NoOverAdmission
PROPERTIES RetryAfterExact ResetExact
