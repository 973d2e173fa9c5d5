SPECIFICATION FairSpec
CONSTANTS
    Kinds = {"Deployment", "ReplicaSet", "ReplicationController", "DaemonSet",
             "StatefulSet", "Service", "Ingress", "Pod",
             "PersistentVolumeClaim", "PersistentVolume"}
    MaxReplicas = 2
    MaxUpdates = 2
    MaxSetbacks = 2
INVARIANTS TypeOK
PROPERTIES ReadyMeansRunning WaitEnds
CHECK_DEADLOCK FALSE
