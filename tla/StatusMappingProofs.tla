------------------------- MODULE StatusMappingProofs -------------------------
(* Theorems about StatusMapping, for any kinds, numbers of pods, updates    *)
(* and setbacks.                                                           *)
EXTENDS StatusMapping, TLAPS

BudgetOK == budget.updates <= MaxUpdates /\ budget.setbacks <= MaxSetbacks

\* What was published is less than what there is, of the number that was wanted.
LateOK ==
    Undisturbed => /\ shown.up <= pods.up
                   /\ shown = NoPods \/ shown.desired = pods.desired

IInv == TypeOK /\ BudgetOK /\ LateOK

\* A field is left out exactly if its number is zero.
LEMMA FieldsTell ==
    ASSUME NEW n \in Nat, NEW m \in Nat
    PROVE  /\ Truthy(OrNone(n)) <=> n # 0
           /\ OrNone(n) = Some(m) <=> n = m /\ n # 0
<1>1. Some(n) # None /\ (Some(n) = Some(m) <=> n = m)
      /\ (Some(n) = Some(0) <=> n = 0)
  <2>1. Some(n)[1] = n /\ Some(m)[1] = m /\ Some(0)[1] = 0
    BY DEF Some
  <2>2. Len(Some(n)) = 1 /\ Len(None) = 0
    BY DEF Some, None
  <2> QED
    BY <2>1, <2>2
<1>2. CASE n = 0
  <2>1. OrNone(n) = None
    BY <1>2 DEF OrNone
  <2>2. Some(m) # None
    <3>1. Len(Some(m)) = 1 /\ Len(None) = 0
      BY DEF Some, None
    <3> QED
      BY <3>1
  <2> QED
    BY <1>2, <2>1, <2>2 DEF Truthy
<1>3. CASE n # 0
  BY <1>1, <1>3 DEF OrNone, Truthy
<1> QED
  BY <1>2, <1>3

LEMMA OrNoneType ==
    ASSUME NEW n \in 0 .. MaxReplicas
    PROVE  OrNone(n) \in Fields /\ Some(n) \in Fields
BY DEF OrNone, Fields

\* Only a pod fails for good.
LEMMA OnlyPodsFail == kind \in Kinds /\ Ready = "fatal" => kind = "Pod"
<1> SUFFICES ASSUME kind \in Kinds, kind # "Pod", Ready = "fatal" PROVE FALSE
  OBVIOUS
<1>1. kind \in Counted \cup Balanced \cup Phased
  BY KindsAssumption
<1>2. \A condition : YesOrRetry(condition) # "fatal"
  BY DEF YesOrRetry
<1>3. /\ ClaimReady # "fatal" /\ VolumeReady # "fatal"
      /\ ReplicaSetReady # "fatal"
  BY <1>2 DEF ClaimReady, VolumeReady, ReplicaSetReady
<1>4. IsResourceReady = "fatal"
  BY DEF Ready
<1> QED
  BY <1>1, <1>2, <1>3, <1>4 DEF IsResourceReady, Counted, Balanced, Phased

\* What "yes" says of the pods, class by class.
LEMMA ReadyRuns == IInv /\ Undisturbed /\ Ready = "yes" => Runs
<1> SUFFICES ASSUME IInv, Undisturbed, Ready = "yes" PROVE Runs
  OBVIOUS
<1>1. IsResourceReady = "yes"
  BY DEF Ready
<1>2. /\ shown.up \in Nat /\ shown.created \in Nat /\ shown.desired \in Nat
      /\ shown.up <= shown.created /\ shown.created <= shown.desired
      /\ pods.up \in Nat /\ pods.desired \in Nat /\ pods.created \in Nat
      /\ pods.up <= pods.created /\ pods.created <= pods.desired
      /\ shown.up <= pods.up
      /\ shown = NoPods \/ shown.desired = pods.desired
  BY BoundsAssumption DEF IInv, TypeOK, PodsOK, PodsType, LateOK
<1>3. kind \in Counted =>
          /\ status.unavailable = OrNone(shown.desired - shown.up)
          /\ status.ready = OrNone(shown.up)
          /\ status.replicas = Some(shown.created)
  BY DEF IInv, TypeOK, StatusOK
<1>4. ASSUME kind \in {"Deployment", "DaemonSet"}
      PROVE  pods.up = pods.desired \/ shown = NoPods
  <2>1. ~Truthy(status.unavailable)
    BY <1>1, <1>4 DEF IsResourceReady, YesOrRetry, Balanced
  <2>2. shown.desired - shown.up \in Nat
    BY <1>2
  <2>3. shown.desired - shown.up = 0
    BY <1>3, <1>4, <2>1, <2>2, FieldsTell DEF Counted
  <2> QED
    BY <1>2, <2>3
<1>5. ASSUME kind \in {"ReplicaSet", "ReplicationController"}
      PROVE  pods.up > 0
  <2>1. status.ready = status.replicas
    BY <1>1, <1>5 DEF IsResourceReady, ReplicaSetReady, YesOrRetry, Balanced
  <2>2. shown.up # 0
    BY <1>2, <1>3, <1>5, <2>1, FieldsTell DEF Counted
  <2> QED
    BY <1>2, <2>2
<1>6. ASSUME kind = "StatefulSet" PROVE pods.up > 0
  <2>1. Truthy(status.ready)
    BY <1>1, <1>6 DEF IsResourceReady, YesOrRetry, Balanced
  <2>2. shown.up # 0
    BY <1>2, <1>3, <1>6, <2>1, FieldsTell DEF Counted
  <2> QED
    BY <1>2, <2>2
<1> QED
  BY <1>4, <1>5, <1>6 DEF Runs

LEMMA InitIInv == Init => IInv
<1> SUFFICES ASSUME Init PROVE IInv
  OBVIOUS
<1> USE BoundsAssumption
<1>1. PodsOK(pods) /\ PodsOK(shown)
  BY DEF Init, PodsOK, PodsType, NoPods
<1>2. status = InitialStatus /\ shown = NoPods
  BY DEF Init
<1>3. StatusOK
  BY <1>2 DEF StatusOK, InitialStatus, NoPods, OrNone, Fields, PodPhases
<1>4. BudgetOK
  BY DEF Init, BudgetOK
<1>5. LateOK
  BY <1>1, <1>2 DEF LateOK, NoPods, PodsOK, PodsType
<1> QED
  BY <1>1, <1>2, <1>3, <1>4, <1>5 DEF Init, IInv, TypeOK

\* Every step keeps the types.
LEMMA TypeStep == TypeOK /\ [Next]_vars => TypeOK'
<1> SUFFICES ASSUME TypeOK, [Next]_vars PROVE TypeOK'
  OBVIOUS
<1> USE BoundsAssumption
<1>1. CASE Poll
  <2>1. UNCHANGED <<kind, validate, asker, exposed, pods, shown, status, budget>>
        /\ poll' \in {"ready", "failed", "unchecked"}
        /\ (poll' = "failed" => Ready = "fatal")
    BY <1>1 DEF Poll
  <2> QED
    BY <2>1, OnlyPodsFail DEF TypeOK, PodsOK, StatusOK
<1>2. ASSUME NEW p, PodsOK(p), Brings(p) PROVE TypeOK'
  BY <1>2 DEF Brings, TypeOK, PodsOK, StatusOK
<1>3. CASE CreatePod
  <2>1. PodsOK([pods EXCEPT !.created = @ + 1])
    BY <1>3 DEF CreatePod, TypeOK, PodsOK, PodsType
  <2> QED
    BY <1>2, <1>3, <2>1 DEF CreatePod
<1>4. CASE StartPod
  <2>1. PodsOK([pods EXCEPT !.up = @ + 1])
    BY <1>4 DEF StartPod, TypeOK, PodsOK, PodsType
  <2> QED
    BY <1>2, <1>4, <2>1 DEF StartPod
<1>5. CASE Publish
  <2>1. /\ pods.desired - pods.up \in 0 .. MaxReplicas
        /\ pods.up \in 0 .. MaxReplicas /\ pods.created \in 0 .. MaxReplicas
    BY DEF TypeOK, PodsOK, PodsType
  <2>2. /\ status' = [status EXCEPT
                         !.unavailable = OrNone(pods.desired - pods.up),
                         !.ready = OrNone(pods.up),
                         !.replicas = Some(pods.created)]
        /\ shown' = pods
        /\ UNCHANGED <<kind, validate, asker, exposed, pods, poll, budget>>
    BY <1>5 DEF Publish
  <2>3. StatusOK'
    BY <2>1, <2>2, OrNoneType DEF TypeOK, StatusOK
  <2> QED
    BY <2>2, <2>3 DEF TypeOK, PodsOK
<1>6. CASE AssignAddress
  <2>1. StatusOK'
    BY <1>6 DEF AssignAddress, TypeOK, StatusOK, Counted, Balanced
  <2> QED
    BY <1>6, <2>1 DEF AssignAddress, TypeOK, PodsOK
<1>7. ASSUME NEW phases \in SUBSET (PodPhases \cup ClaimPhases \cup VolumePhases),
             Enters(phases),
             budget' \in [updates : Nat, setbacks : Nat]
      PROVE  TypeOK'
  <2>1. StatusOK'
    BY <1>7 DEF Enters, TypeOK, StatusOK
  <2> QED
    BY <1>7, <2>1 DEF Enters, TypeOK, PodsOK
<1>8. CASE Proceeds
  <2>1. Forward(status.phase)
            \in SUBSET (PodPhases \cup ClaimPhases \cup VolumePhases)
    BY DEF Forward, PodPhases, ClaimPhases, VolumePhases
  <2> QED
    BY <1>7, <1>8, <2>1 DEF Proceeds, TypeOK
<1>9. budget.setbacks > 0 /\ SetBack =>
          budget' \in [updates : Nat, setbacks : Nat]
  BY DEF SetBack, TypeOK
<1>10. CASE FallsBack
  <2>1. Back(status.phase)
            \in SUBSET (PodPhases \cup ClaimPhases \cup VolumePhases)
    BY DEF Back, PodPhases, ClaimPhases, VolumePhases
  <2> QED
    BY <1>7, <1>9, <1>10, <2>1 DEF FallsBack
<1>11. CASE LosePod
  <2> DEFINE left == [desired |-> pods.desired, created |-> pods.created - 1,
                      up |-> pods.up - 1]
  <2>0. /\ pods.up \in 1 .. MaxReplicas /\ pods.created \in 1 .. MaxReplicas
        /\ pods.desired \in 0 .. MaxReplicas
        /\ pods.up <= pods.created /\ pods.created <= pods.desired
    BY <1>11 DEF LosePod, TypeOK, PodsOK, PodsType
  <2>1. PodsOK(left)
    BY <2>0 DEF PodsOK, PodsType
  <2>2. pods' = left
    BY <1>11 DEF LosePod, TypeOK, PodsOK, PodsType
  <2> QED
    BY <1>9, <1>11, <2>1, <2>2 DEF LosePod, TypeOK, PodsOK, StatusOK
<1>12. ASSUME NEW n \in 0 .. MaxReplicas, Update(n) PROVE TypeOK'
  <2>1. PodsOK(pods')
    BY <1>12 DEF Update, TypeOK, PodsOK, PodsType
  <2>2. budget' \in [updates : Nat, setbacks : Nat]
    BY <1>12 DEF Update, TypeOK
  <2> QED
    BY <1>12, <2>1, <2>2 DEF Update, TypeOK, PodsOK, StatusOK
<1>13. CASE UNCHANGED vars
  BY <1>13 DEF vars, TypeOK, PodsOK, StatusOK
<1> QED
  BY <1>1, <1>3, <1>4, <1>5, <1>6, <1>8, <1>10, <1>11, <1>12, <1>13 DEF Next

\* No bound is ever exceeded.
LEMMA BudgetStep == TypeOK /\ BudgetOK /\ [Next]_vars => BudgetOK'
<1> SUFFICES ASSUME TypeOK, BudgetOK, [Next]_vars PROVE BudgetOK'
  OBVIOUS
<1>1. \/ UNCHANGED budget
      \/ budget' = [budget EXCEPT !.setbacks = @ - 1]
      \/ budget' = [budget EXCEPT !.updates = @ - 1]
  BY DEF Next, Poll, CreatePod, StartPod, Brings, Publish, AssignAddress,
     Proceeds, FallsBack, SetBack, LosePod, Update, vars
<1> QED
  BY <1>1, BoundsAssumption DEF BudgetOK, TypeOK

\* As long as no pod is lost and their number stays, there are never fewer than
\* the controller has published.
LEMMA LateStep == TypeOK /\ BudgetOK /\ LateOK /\ [Next]_vars => LateOK'
<1> SUFFICES ASSUME TypeOK, BudgetOK, LateOK, [Next]_vars, Undisturbed'
             PROVE  /\ shown'.up <= pods'.up
                    /\ shown' = NoPods \/ shown'.desired = pods'.desired
  BY DEF LateOK
<1> USE BoundsAssumption
<1>0. /\ shown.up \in Nat /\ pods.up \in Nat /\ pods \in PodsType
      /\ budget.setbacks \in Nat /\ budget.updates \in Nat
      /\ budget.setbacks <= MaxSetbacks /\ budget.updates <= MaxUpdates
      /\ budget'.setbacks = MaxSetbacks /\ budget'.updates = MaxUpdates
  BY DEF TypeOK, PodsOK, PodsType, BudgetOK, Undisturbed
<1>1. ASSUME SetBack PROVE FALSE
  <2>1. budget'.setbacks = budget.setbacks - 1
    BY <1>1 DEF SetBack, TypeOK
  <2> QED
    BY <1>0, <2>1
<1>2. ASSUME NEW n, Update(n) PROVE FALSE
  <2>1. budget'.updates = budget.updates - 1
    BY <1>2 DEF Update, TypeOK
  <2> QED
    BY <1>0, <2>1
<1>3. CASE Poll \/ AssignAddress \/ Proceeds \/ UNCHANGED vars
  BY <1>3 DEF Poll, AssignAddress, Proceeds, Enters, vars, LateOK, Undisturbed
<1>4. CASE CreatePod \/ StartPod
  <2>1. /\ UNCHANGED <<shown, budget>> /\ pods'.desired = pods.desired
        /\ pods'.up = pods.up \/ pods'.up = pods.up + 1
    BY <1>0, <1>4 DEF CreatePod, StartPod, Brings, PodsType
  <2> QED
    BY <1>0, <2>1 DEF LateOK, Undisturbed
<1>5. CASE Publish
  BY <1>0, <1>5 DEF Publish
<1> QED
  BY <1>1, <1>2, <1>3, <1>4, <1>5 DEF Next, FallsBack, LosePod

LEMMA Invariance == Spec => []IInv
BY InitIInv, TypeStep, BudgetStep, LateStep, PTL DEF Spec, IInv

\* Every variable keeps its type, the status is what the controller has seen,
\* and only a pod makes an operation fail for good.
THEOREM TypeCorrect == Spec => []TypeOK
BY Invariance, PTL DEF IInv

\* As long as no pod is lost and their number stays, "ready" is true of the pods
\* when it is said, however late the status is, for any number of pods.
THEOREM ReadyIsRunning == Spec => ReadyMeansRunning
<1>1. IInv /\ [Next]_vars =>
          [poll' = "ready" /\ poll # "ready" /\ Undisturbed => Runs]_vars
  <2> SUFFICES ASSUME IInv, Next, poll' = "ready", poll # "ready", Undisturbed
               PROVE  Runs
    OBVIOUS
  <2>1. Poll
    BY DEF Next, Brings, CreatePod, StartPod, Publish, AssignAddress, Proceeds,
           FallsBack, Enters, LosePod, Update
  <2>2. Ready = "yes"
    BY <2>1 DEF Poll
  <2> QED
    BY <2>2, ReadyRuns
<1> QED
  BY <1>1, Invariance, PTL DEF Spec, ReadyMeansRunning
=============================================================================
