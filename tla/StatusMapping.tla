---------------------------- MODULE StatusMapping ----------------------------
(***************************************************************************)
(* Waiting for an object to become ready: the poststart, pull or           *)
(* check_status of a node, repeated by the engine while it raises, and the *)
(* controllers of the cluster that bring the object up and publish how far *)
(* they are.  What an operation is told is what they published last.       *)
(***************************************************************************)
EXTENDS Naturals, Sequences

CONSTANTS
    Kinds,        \* kinds of objects to consider
    MaxReplicas,  \* pods of an object
    MaxUpdates,   \* updates that change the number of pods
    MaxSetbacks   \* pods or claims that are lost

Counted == {"Deployment", "ReplicaSet", "ReplicationController", "DaemonSet",
            "StatefulSet"}
Balanced == {"Service", "Ingress"}
Phased == {"Pod", "PersistentVolumeClaim", "PersistentVolume"}

ASSUME KindsAssumption == Kinds \subseteq Counted \cup Balanced \cup Phased
ASSUME BoundsAssumption ==
    MaxReplicas \in Nat /\ MaxUpdates \in Nat /\ MaxSetbacks \in Nat

VARIABLES
    kind, validate,  \* of the object, and validate_resource_status: fixed
    asker,           \* the operation that waits, fixed
    exposed,         \* the cluster gives the object an address, fixed
    pods,            \* pods that are wanted, created, and up
    shown,           \* the pods when the controller last published
    status,          \* what it published: the fields the checks read
    poll,            \* how the operation stands
    budget

vars == <<kind, validate, asker, exposed, pods, shown, status, poll, budget>>

\* The server leaves out a number that is zero, except where it must be there.
None == <<>>
Some(n) == <<n>>
OrNone(n) == IF n = 0 THEN None ELSE Some(n)
Truthy(field) == field \notin {None, Some(0)}

NoPods == [desired |-> 0, created |-> 0, up |-> 0]

\* What the object says before its controller has looked at it.
InitialStatus == [phase |-> "Pending", ingress |-> FALSE, unavailable |-> None,
                  ready |-> None, replicas |-> Some(0)]

Init ==
    /\ kind \in Kinds /\ validate \in BOOLEAN /\ exposed \in BOOLEAN
    /\ asker \in {"read", "check_status"}
    /\ \E n \in 0 .. MaxReplicas :
           pods = [NoPods EXCEPT !.desired = IF kind \in Counted THEN n ELSE 0]
    /\ shown = NoPods /\ status = InitialStatus
    /\ poll = "polling"
    /\ budget = [updates |-> MaxUpdates, setbacks |-> MaxSetbacks]

-----------------------------------------------------------------------------
(* The classes: is_resource_ready, "no" for what it answers when it has no *)
(* idea and "fatal" for a NonRecoverableError.                             *)

YesOrRetry(condition) == IF condition THEN "yes" ELSE "retry"

\* A bug for PodReady: a pod that has done its work does not count.
OnlyRunning == IF status.phase = "Failed" THEN "fatal"
               ELSE YesOrRetry(status.phase = "Running")

PodReady ==
    CASE status.phase \in {"Running", "Succeeded"} -> "yes"
      [] status.phase \in {"Pending", "Unknown"}   -> "retry"
      [] status.phase = "Failed"                   -> "fatal"
      [] OTHER                                     -> "no"

\* A bug for ClaimReady: a lost claim is the end.
LostIsFatal == IF status.phase = "Lost" THEN "fatal" ELSE "yes"

ClaimReady == YesOrRetry(status.phase \in {"Pending", "Available", "Bound"})
VolumeReady == YesOrRetry(status.phase \in {"Bound", "Available"})

\* A bug for ReplicaSetReady: a number that is left out is taken for zero.
MissingIsZero ==
    YesOrRetry(status.ready = status.replicas
               \/ (status.ready = None /\ status.replicas = Some(0)))

\* No pod that is up is None, which is not the 0 of no pod that is there.
ReplicaSetReady == YesOrRetry(status.ready = status.replicas)

IsResourceReady ==
    CASE kind = "Pod"                    -> PodReady
      [] kind \in Balanced               -> YesOrRetry(status.ingress)
      [] kind \in {"Deployment", "DaemonSet"} ->
             YesOrRetry(~Truthy(status.unavailable))
      [] kind = "PersistentVolumeClaim"  -> ClaimReady
      [] kind = "PersistentVolume"       -> VolumeReady
      [] kind \in {"ReplicaSet", "ReplicationController"} -> ReplicaSetReady
      [] kind = "StatefulSet"            -> YesOrRetry(Truthy(status.ready))

\* ready(), which answers None when it is not to validate.
Ready == IF validate THEN IsResourceReady ELSE "no"

\* A read takes no notice of a false answer; a check_status raises for it.
Poll ==
    /\ poll = "polling"
    /\ Ready # "retry"
    /\ asker = "check_status" => Ready # "no"
    /\ poll' = CASE Ready = "fatal" -> "failed"
                 [] Ready = "yes"   -> "ready"
                 [] OTHER           -> "unchecked"
    /\ UNCHANGED <<kind, validate, asker, exposed, pods, shown, status, budget>>

-----------------------------------------------------------------------------
(* The cluster.                                                            *)

Brings(p) ==
    /\ kind \in Counted /\ pods' = p
    /\ UNCHANGED <<kind, validate, asker, exposed, shown, status, poll, budget>>

CreatePod ==
    pods.created < pods.desired /\ Brings([pods EXCEPT !.created = @ + 1])
StartPod == pods.up < pods.created /\ Brings([pods EXCEPT !.up = @ + 1])

\* The controller publishes what it finds.
Publish ==
    /\ kind \in Counted /\ shown # pods
    /\ shown' = pods
    /\ status' = [status EXCEPT
                     !.unavailable = OrNone(pods.desired - pods.up),
                     !.ready = OrNone(pods.up), !.replicas = Some(pods.created)]
    /\ UNCHANGED <<kind, validate, asker, exposed, pods, poll, budget>>

AssignAddress ==
    /\ kind \in Balanced /\ exposed /\ ~status.ingress
    /\ status' = [status EXCEPT !.ingress = TRUE]
    /\ UNCHANGED <<kind, validate, asker, exposed, pods, shown, poll, budget>>

\* Phases an object goes through, and those it is set back to.
Forward(phase) ==
    CASE kind = "Pod" /\ phase \in {"Pending", "Unknown"} -> {"Running"}
      [] kind = "Pod" /\ phase = "Running" -> {"Succeeded"}
      [] kind = "PersistentVolumeClaim" /\ phase = "Pending" -> {"Bound"}
      [] kind = "PersistentVolume" /\ phase = "Pending" -> {"Available"}
      [] kind = "PersistentVolume" /\ phase = "Available" -> {"Bound"}
      [] OTHER -> {}
Back(phase) ==
    CASE kind = "Pod" /\ phase = "Pending" -> {"Failed"}
      [] kind = "Pod" /\ phase = "Running" -> {"Failed", "Unknown"}
      [] kind = "PersistentVolumeClaim" /\ phase = "Bound" -> {"Lost"}
      [] kind = "PersistentVolume" /\ phase = "Bound" -> {"Released"}
      [] OTHER -> {}

Enters(phases) ==
    /\ \E p \in phases : status' = [status EXCEPT !.phase = p]
    /\ UNCHANGED <<kind, validate, asker, exposed, pods, shown, poll>>

Proceeds == Enters(Forward(status.phase)) /\ UNCHANGED budget

SetBack == budget' = [budget EXCEPT !.setbacks = @ - 1]

FallsBack == budget.setbacks > 0 /\ Enters(Back(status.phase)) /\ SetBack

LosePod ==
    /\ kind \in Counted /\ pods.up > 0 /\ budget.setbacks > 0
    /\ pods' = [pods EXCEPT !.up = @ - 1, !.created = @ - 1]
    /\ SetBack
    /\ UNCHANGED <<kind, validate, asker, exposed, shown, status, poll>>

\* The node is updated with another number of pods and waits again.
Update(n) ==
    /\ kind \in Counted /\ n # pods.desired
    /\ poll # "polling" /\ budget.updates > 0
    /\ pods' = [desired |-> n,
                created |-> IF pods.created < n THEN pods.created ELSE n,
                up |-> IF pods.up < n THEN pods.up ELSE n]
    /\ poll' = "polling"
    /\ budget' = [budget EXCEPT !.updates = @ - 1]
    /\ UNCHANGED <<kind, validate, asker, exposed, shown, status>>

Next ==
    \/ Poll \/ CreatePod \/ StartPod \/ Publish \/ AssignAddress \/ Proceeds
    \/ FallsBack \/ LosePod
    \/ \E n \in 0 .. MaxReplicas : Update(n)

Spec == Init /\ [][Next]_vars

\* The engine retries, and every controller does its work.
Fairness ==
    /\ WF_vars(Poll) /\ WF_vars(CreatePod) /\ WF_vars(StartPod)
    /\ WF_vars(Publish) /\ WF_vars(AssignAddress) /\ WF_vars(Proceeds)

FairSpec == Spec /\ Fairness

-----------------------------------------------------------------------------
(* Properties.                                                             *)

PodsType == [desired : 0 .. MaxReplicas, created : 0 .. MaxReplicas,
             up : 0 .. MaxReplicas]
Fields == {None} \cup {Some(n) : n \in 0 .. MaxReplicas}
PodPhases == {"Pending", "Running", "Succeeded", "Failed", "Unknown"}
ClaimPhases == {"Pending", "Bound", "Lost"}
VolumePhases == {"Pending", "Available", "Bound", "Released"}

\* The published fields are those of the pods shown.
StatusOK ==
    /\ status \in [phase : PodPhases \cup ClaimPhases \cup VolumePhases,
                   ingress : BOOLEAN, unavailable : Fields, ready : Fields,
                   replicas : Fields]
    /\ kind \in Counted =>
          /\ status.unavailable = OrNone(shown.desired - shown.up)
          /\ status.ready = OrNone(shown.up)
          /\ status.replicas = Some(shown.created)

PodsOK(p) == p \in PodsType /\ p.up <= p.created /\ p.created <= p.desired

\* Every variable has the type its declaration says, the status is what the
\* controller has seen, and only a pod can make an operation fail for good.
TypeOK ==
    /\ kind \in Kinds /\ validate \in BOOLEAN /\ exposed \in BOOLEAN
    /\ asker \in {"read", "check_status"}
    /\ PodsOK(pods) /\ PodsOK(shown) /\ StatusOK
    /\ poll \in {"polling", "ready", "failed", "unchecked"}
    /\ poll = "failed" => kind = "Pod"
    /\ budget \in [updates : Nat, setbacks : Nat]

\* No pod was lost, and their number was not changed.
Undisturbed ==
    budget.setbacks = MaxSetbacks /\ budget.updates = MaxUpdates

\* What must be so of the pods themselves, and not of what was published of them.
\* A Deployment or DaemonSet that its controller has not looked at says nothing of
\* pods that are not available.
Runs ==
    /\ kind \in {"ReplicaSet", "ReplicationController", "StatefulSet"} =>
          pods.up > 0
    /\ kind \in {"Deployment", "DaemonSet"} =>
          pods.up = pods.desired \/ shown = NoPods

\* What an operation is told is late: pods are created and started after it was
\* published, and before.  As long as none is lost or asked for meanwhile, "ready"
\* is still true of the pods when it is told: all of a Deployment or DaemonSet are
\* up, if its controller has looked at it, and one at least of another kind, also
\* when the numbers that are compared are both left out or zero.
ReadyMeansRunning ==
    [][poll' = "ready" /\ poll # "ready" /\ Undisturbed => Runs]_vars

\* States of which no operation that waits is ever told "ready": no pods of a
\* kind that wants one, an object without an address, a claim or volume that is
\* gone, and, for check_status, any object whose status is not validated.
Hopeless ==
    \/ asker = "check_status" /\ ~validate
    \/ kind \in {"ReplicaSet", "ReplicationController", "StatefulSet"}
       /\ pods.desired = 0
    \/ kind \in Balanced /\ ~exposed
    \/ status.phase \in {"Lost", "Released"}

\* Everywhere else the wait ends, whichever field its class reads.
WaitEnds == poll = "polling" ~> poll # "polling" \/ Hopeless
=============================================================================
