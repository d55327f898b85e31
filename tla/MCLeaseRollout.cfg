SPECIFICATION DeploymentSpec
CONSTANTS
    Ids = {a, b}
    Revisions <- MCRevisions
    Policy <- MCHasty
    Skew = 0
    Floor = 1
    MaxTime = 6
    IdleTimes = {1, 3}
INVARIANTS HoldersKept
