SPECIFICATION DeploymentSpec
CONSTANTS
    Deployments <- MCDeployments
    Floor = 1
    MaxTime = 8
INVARIANTS NoOverAdmission NeverCorrupt StrictCapped
PROPERTIES ResetExact
