-------------------------- MODULE MCWorkerLifecycle --------------------------
\* Instances of WorkerLifecycle for TLC.
EXTENDS WorkerLifecycle

AllOps == {"wake", "sleep", "restart", "ensure", "edit", "stop", "delete", "team", "mention"}

==============================================================================
