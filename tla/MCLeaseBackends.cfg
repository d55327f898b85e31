SPECIFICATION DeploymentSpec
CONSTANTS
    Ids = {a, b, c}
    Revisions <- MCRevisions
    Policy <- MCPatient
    Skew = 1
    Floor = 1
    MaxTime = 5
    IdleTimes = {1, 3}
SYMMETRY Holders
INVARIANTS HoldersKept RefusalJustified
PROPERTIES PoolSpec
