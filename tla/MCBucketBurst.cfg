SPECIFICATION DeploymentSpec
CONSTANTS
    Deployments <- MCValkeyBurst
    Floor = 1
    MaxTime = 10
INVARIANTS NoOverAdmission
