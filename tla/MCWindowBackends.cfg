SPECIFICATION DeploymentSpec
CONSTANTS
    Revisions <- MCRevisions
    Policy <- MCPolicy
    Period = 4
    Segments = 3
    Skew = 1
    Floor = 1
    MaxTime = 9
INVARIANTS NoOverAdmission RollingBound RefusalsJust StrictTrustsStrict
