SPECIFICATION EntrySpec
CONSTANTS
    Revisions <- MCRevisions
    Policy <- MCPolicy
    Period = 5
    Segments = 3
    MinTime <- MCMinTime
    MaxTime = 6
INVARIANTS NoOverAdmission RollingBound RefusalsJust ResetHonest
PROPERTIES LiveKept
