------------------------ MODULE MCDeploymentHistory ------------------------
EXTENDS DeploymentHistory, MCDeploymentTracker
=============================================================================
