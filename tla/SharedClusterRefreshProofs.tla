---------------------- MODULE SharedClusterRefreshProofs ----------------------
(* Theorems about SharedClusterRefresh, for any clients, users and faults.  *)
EXTENDS SharedClusterRefresh, TLAPS

\* An execution that a client waits for is the one it started.
OwnerOK ==
    execution.owner # "nobody" =>
        execution.workflow = "execute_operation" /\ execution.step = 1

\* The details of the deployment are no newer than the cluster's, and no older
\* than an operation that has seen its execution end well.
FreshSoFar ==
    /\ shared.capability <= credentials
    /\ \A c \in Clients :
          /\ client[c].since <= credentials
          /\ client[c].mine = "terminated" =>
                 shared.capability >= client[c].since

\* A renewal is under way as long as its execution.
RenewalOK ==
    execution.workflow = "refresh_and_store_token" <=> renewal = "running"

\* Without a fault no execution of a client fails.
FailedOnlyByFaults ==
    /\ budget.faults <= MaxFaults /\ budget.crashes <= MaxCrashes
    /\ /\ "cluster" \in nodes
       /\ budget.faults = MaxFaults /\ budget.crashes = MaxCrashes
       => \A c \in Clients : client[c].mine # "failed"

IInv == /\ TypeOK /\ OwnerOK /\ FreshSoFar /\ RenewalOK /\ FailedOnlyByFaults
        /\ FreshWhenRefreshed /\ KeptIsToken /\ BrokenOnlyByFaults

\* The plans, operation by operation.
LEMMA Plans ==
    /\ Len(Plan("execute_operation")) = 1
    /\ Len(Plan("update_resource_definition")) = 2
    /\ Len(Plan("refresh_and_store_token")) = 8
    /\ Plan("execute_operation")[1] = Run("cluster", "poststart")
    /\ Plan("update_resource_definition")[1] = Run("resource", "poststart")
    /\ Plan("update_resource_definition")[2] = Run("resource", "update")
    /\ Plan("refresh_and_store_token")[1] = Run("cluster", "poststart")
    /\ Plan("refresh_and_store_token")[2] = Run("cluster", "check_drift")
    /\ Plan("refresh_and_store_token")[3] = Run("manager", "create_secret")
    /\ Plan("refresh_and_store_token")[4] = Run("service_account", "update")
    /\ Plan("refresh_and_store_token")[5] = Run("service_account", "poststart")
    /\ Plan("refresh_and_store_token")[6] = Run("secret", "delete")
    /\ Plan("refresh_and_store_token")[7] = Run("secret", "create")
    /\ Plan("refresh_and_store_token")[8] = Run("store", "create")
BY DEF Plan, RefreshAndStore, Upto

\* An operation changes the details to the cluster's or not at all; the token
\* and its copy only in the last three operations of a renewal.
LEMMA Effects ==
    ASSUME credentials \in Nat, shared \in SharedType, NEW run
    PROVE  /\ Effect(run) \in SharedType
           /\ Effect(run).capability \in {shared.capability, credentials}
           /\ run = Run("cluster", "poststart") =>
                  Effect(run).capability = credentials
           /\ run = Run("store", "create") =>
                  Effect(run).kept = Effect(run).token
           /\ run.node \notin {"secret", "store"} =>
                  /\ Effect(run).kept = shared.kept
                  /\ Effect(run).token = shared.token
<1>1. CASE run = Run("cluster", "poststart")
  <2>1. Effect(run) = [shared EXCEPT !.capability = credentials]
    BY <1>1 DEF Effect, Run
  <2> QED
    BY <1>1, <2>1 DEF SharedType, Run
<1>2. CASE run = Run("manager", "create_secret")
  <2>1. Effect(run) \in {[shared EXCEPT !.config = shared.capability], shared}
    BY <1>2 DEF Effect, Run
  <2> QED
    BY <1>2, <2>1 DEF SharedType, Run
<1>3. CASE run = Run("secret", "delete")
  <2>1. Effect(run) = [shared EXCEPT !.token = 0]
    BY <1>3 DEF Effect, Run
  <2> QED
    BY <1>3, <2>1 DEF SharedType, Run
<1>4. CASE run = Run("secret", "create")
  <2>1. CASE shared.token = 0
    <3>1. Effect(run) = WithNewToken
      BY <1>4, <2>1 DEF Effect, Run
    <3>2. shared.made + 1 \in Nat
      BY DEF SharedType
    <3>3. WithNewToken \in SharedType
      BY <3>2 DEF WithNewToken, SharedType
    <3>4. WithNewToken.capability = shared.capability
      BY DEF WithNewToken, SharedType
    <3> QED
      BY <1>4, <3>1, <3>3, <3>4 DEF Run
  <2>2. CASE shared.token # 0
    <3>1. Effect(run) = shared
      BY <1>4, <2>2 DEF Effect, Run
    <3> QED
      BY <1>4, <3>1 DEF SharedType, Run
  <2> QED
    BY <2>1, <2>2
<1>5. CASE run = Run("store", "create")
  <2>1. Effect(run) = [shared EXCEPT !.kept = shared.token]
    BY <1>5 DEF Effect, Run
  <2>2. shared.token \in Nat /\ shared \in SharedType
    BY DEF SharedType
  <2> QED
    BY <1>5, <2>1, <2>2 DEF SharedType, Run
<1>6. CASE /\ run # Run("cluster", "poststart")
           /\ run # Run("manager", "create_secret")
           /\ run # Run("secret", "delete")
           /\ run # Run("secret", "create")
           /\ run # Run("store", "create")
  <2>1. Effect(run) = shared
    BY <1>6 DEF Effect
  <2> QED
    BY <1>6, <2>1
<1> QED
  BY <1>1, <1>2, <1>3, <1>4, <1>5, <1>6

\* Where an execution can be.
LEMMA Places ==
    ASSUME TypeOK, Running
    PROVE  /\ execution \in ExecutionType
           /\ execution.step \in 1 .. Len(Plan(execution.workflow))
           /\ Len(Plan(execution.workflow)) \in 1 .. 8
<1>1. execution \in ExecutionType
      /\ execution.step <= Len(Plan(execution.workflow))
  BY DEF TypeOK, Running
<1>2. execution.workflow \in Workflows /\ execution.step \in 1 .. 8
  BY <1>1 DEF ExecutionType
<1>3. Len(Plan(execution.workflow)) \in 1 .. 8
  BY <1>2, Plans DEF Workflows
<1> QED
  BY <1>1, <1>2, <1>3

\* The invariant holds at the start.
LEMMA InitIInv == Init => IInv
<1> SUFFICES ASSUME Init PROVE IInv
  OBVIOUS
<1> USE ClientsAssumption, InventoriesAssumption, BoundsAssumption
<1>1. TypeOK
  <2>1. WaitOK
    BY DEF Init, WaitOK, InitialClient, NoExecution, Started
  <2> QED
    BY <2>1 DEF Init, TypeOK, SharedType, InitialShared, NoExecution, Running,
            ClientType, InitialClient
<1>2. OwnerOK /\ RenewalOK
  BY DEF Init, OwnerOK, RenewalOK, NoExecution, Started
<1>3. FreshSoFar /\ FailedOnlyByFaults
  BY DEF Init, FreshSoFar, FailedOnlyByFaults, InitialShared, InitialClient
<1>4. FreshWhenRefreshed /\ KeptIsToken /\ BrokenOnlyByFaults
  BY DEF Init, FreshWhenRefreshed, KeptIsToken, BrokenOnlyByFaults,
         InitialShared, InitialClient
<1> QED
  BY <1>1, <1>2, <1>3, <1>4 DEF IInv

-----------------------------------------------------------------------------
(* Executions.                                                             *)

\* An execution that ends leaves every client in its type.
LEMMA EndsType ==
    ASSUME TypeOK, Running, NEW state \in {"terminated", "failed"}, Ends(state)
    PROVE  /\ execution' = NoExecution
           /\ renewal' \in {"running", "terminated", "failed"}
           /\ client' \in [Clients -> ClientType] /\ WaitOK'
<1> USE ClientsAssumption DEF Ends, TypeOK
<1>1. client' \in [Clients -> ClientType]
  <2>1. ASSUME NEW c \in Clients
        PROVE  /\ client[c] \in ClientType
               /\ [client[c] EXCEPT !.mine = state] \in ClientType
    BY DEF ClientType
  <2>2. client' = [c \in Clients |-> IF c = execution.owner
                                     THEN [client[c] EXCEPT !.mine = state]
                                     ELSE client[c]]
    OBVIOUS
  <2> QED
    BY <2>1, <2>2
<1>2. ASSUME NEW c \in Clients
      PROVE  /\ client[c] \in ClientType
             /\ client'[c] = IF c = execution.owner
                              THEN [client[c] EXCEPT !.mine = state]
                              ELSE client[c]
             /\ client[c].stage = "refreshing" <=> client[c].pc # "idle"
             /\ client[c].mine = "none" <=> client[c].pc # "verify"
             /\ client[c].mine = "running" <=> execution.owner = c
  BY DEF WaitOK
<1>3. \A c \in Clients : execution'.owner # c
  BY DEF NoExecution, Started
<1>4. ASSUME NEW c \in Clients
      PROVE  /\ client'[c].stage = "refreshing" <=> client'[c].pc # "idle"
             /\ client'[c].mine = "none" <=> client'[c].pc # "verify"
             /\ client'[c].mine = "running" <=> execution'.owner = c
  BY <1>2, <1>3 DEF ClientType
<1> QED
  BY <1>1, <1>4 DEF WaitOK

\* What an execution that goes on, or ends well, leaves.
LEMMA AdvancesType ==
    ASSUME TypeOK, Running, Advances
    PROVE  /\ execution' \in ExecutionType \cup {NoExecution}
           /\ Running' => execution'.step <= Len(Plan(execution'.workflow))
           /\ renewal' \in {"running", "terminated", "failed"}
           /\ client' \in [Clients -> ClientType] /\ WaitOK'
<1>1. CASE execution.step = Len(Plan(execution.workflow))
  BY <1>1, EndsType DEF Advances, Running
<1>2. CASE execution.step # Len(Plan(execution.workflow))
  <2>1. execution' = [execution EXCEPT !.step = @ + 1]
        /\ UNCHANGED <<renewal, client>>
    BY <1>2 DEF Advances
  <2>2. execution.step + 1 \in 1 .. 8
        /\ execution.step + 1 <= Len(Plan(execution.workflow))
    <3> DEFINE length == Len(Plan(execution.workflow))
    <3>1. length \in 1 .. 8 /\ execution.step \in 1 .. length
          /\ execution.step # length
      BY <1>2, Places
    <3> HIDE DEF length
    <3>2. execution.step + 1 \in 1 .. 8 /\ execution.step + 1 <= length
      BY <3>1
    <3> QED
      BY <3>2 DEF length
  <2>3. execution \in ExecutionType
    BY Places
  <2>4. execution' \in ExecutionType
        /\ execution'.workflow = execution.workflow
        /\ execution'.step = execution.step + 1
        /\ execution'.owner = execution.owner
    BY <2>1, <2>2, <2>3 DEF ExecutionType
  <2> QED
    BY <2>1, <2>2, <2>4 DEF TypeOK, WaitOK
<1> QED
  BY <1>1, <1>2

-----------------------------------------------------------------------------
(* Clients.                                                                *)

Pcs == {"idle", "retry", "lookup", "poll", "start"}

\* A client that takes a step other than to wait.
LEMMA BecomeType ==
    ASSUME TypeOK, NEW c \in Clients,
           NEW st \in {"refreshing", "refreshed", "broken"}, NEW p \in Pcs,
           st = "refreshing" <=> p # "idle",
           Become(c, st, p),
           execution'.owner # c,
           execution'.owner \in {execution.owner, "nobody"},
           execution'.owner # execution.owner => execution.owner = c
    PROVE  client' \in [Clients -> ClientType] /\ WaitOK'
<1>1. client' = [client EXCEPT ![c].stage = st, ![c].pc = p, ![c].mine = "none"]
  BY DEF Become
<1>2. client \in [Clients -> ClientType] /\ WaitOK
  BY DEF TypeOK
<1>3. client'[c].stage = st /\ client'[c].pc = p /\ client'[c].mine = "none"
      /\ client'[c] \in ClientType
  BY <1>1, <1>2 DEF ClientType, Pcs
<1>4. \A d \in Clients \ {c} : client'[d] = client[d]
  BY <1>1, <1>2
<1>5. client' \in [Clients -> ClientType]
  BY <1>1, <1>2, <1>3, <1>4
<1>6. WaitOK'
  BY <1>2, <1>3, <1>4, ClientsAssumption DEF WaitOK, Pcs
<1> QED
  BY <1>5, <1>6

\* An execution that loses its client stays what it is.
LEMMA DisownType ==
    ASSUME TypeOK, NEW c \in Clients, Disown(c)
    PROVE  /\ execution' \in ExecutionType \cup {NoExecution}
           /\ Running' => Running
           /\ Running' => execution'.step <= Len(Plan(execution'.workflow))
           /\ execution'.owner # c
           /\ execution'.owner \in {execution.owner, "nobody"}
           /\ execution'.owner # execution.owner => execution.owner = c
           /\ execution'.workflow = execution.workflow
           /\ execution'.step = execution.step
<1>1. CASE execution.owner = c
  <2>1. execution' = [execution EXCEPT !.owner = "nobody"]
    BY <1>1 DEF Disown
  <2>2. Running
    BY <1>1, ClientsAssumption DEF Running, NoExecution, Started
  <2>3. execution \in ExecutionType
    BY <2>2, Places
  <2> QED
    BY <1>1, <2>1, <2>2, <2>3, ClientsAssumption DEF ExecutionType, TypeOK, Running
<1>2. CASE execution.owner # c
  BY <1>2 DEF Disown, TypeOK, Running
<1> QED
  BY <1>1, <1>2

\* An execution that does not run has no owner.
LEMMA NobodyRuns == ~Running => execution.owner = "nobody"
BY DEF Running, NoExecution, Started

\* What is started is an execution, at the beginning of its plan.
LEMMA StartedType ==
    ASSUME NEW w \in Workflows, NEW owner \in Clients \cup {"nobody"},
           NEW parsed \in BOOLEAN
    PROVE  /\ Started(w, owner, parsed) \in ExecutionType
           /\ Started(w, owner, parsed).step <= Len(Plan(w))
           /\ Started(w, owner, parsed).workflow = w
           /\ Started(w, owner, parsed).owner = owner
BY Plans DEF Started, ExecutionType, Workflows

\* Every step keeps the types.
LEMMA TypeStep == TypeOK /\ [Next]_vars => TypeOK'
<1> SUFFICES ASSUME TypeOK, [Next]_vars PROVE TypeOK'
  OBVIOUS
<1> USE ClientsAssumption, BoundsAssumption
<1>1. CASE Operate
  <2>1. shared' \in SharedType
    BY <1>1, Effects DEF Operate, TypeOK
  <2>2. Advances /\ Running /\ UNCHANGED <<credentials, nodes, budget>>
    BY <1>1 DEF Operate
  <2> QED
    BY <2>1, <2>2, AdvancesType DEF TypeOK
<1>2. CASE Rejected
  <2>1. Ends("failed") /\ Running
        /\ UNCHANGED <<credentials, shared, nodes, budget>>
    BY <1>2 DEF Rejected
  <2> QED
    BY <2>1, EndsType DEF TypeOK, Running
<1>3. CASE OperationFails
  <2>1. shared' \in SharedType
    BY <1>3, Effects DEF OperationFails, TypeOK
  <2>2. /\ Ends("failed") /\ Running /\ CanFail /\ Charged
        /\ UNCHANGED <<credentials, nodes>>
    BY <1>3 DEF OperationFails
  <2> QED
    BY <2>1, <2>2, EndsType DEF TypeOK, Running, CanFail, Charged
<1>4. CASE SecretNotCreated
  <2>1. /\ Advances /\ Running /\ CanFail /\ Charged
        /\ UNCHANGED <<credentials, shared, nodes>>
    BY <1>4 DEF SecretNotCreated
  <2> QED
    BY <2>1, AdvancesType DEF TypeOK, CanFail, Charged
<1>5. ASSUME NEW w \in Workflows, NEW parsed \in BOOLEAN,
             StartWorkflow(Started(w, "nobody", parsed)),
             renewal' \in {renewal, "running"}
      PROVE  TypeOK'
  <2>1. /\ execution' = Started(w, "nobody", parsed) /\ ~Running
        /\ UNCHANGED <<credentials, shared, nodes, client>>
        /\ budget' = [budget EXCEPT !.starts = @ - 1] /\ budget.starts > 0
    BY <1>5 DEF StartWorkflow
  <2>2. WaitOK'
    BY <2>1, NobodyRuns, StartedType DEF TypeOK, WaitOK
  <2> QED
    BY <1>5, <2>1, <2>2, StartedType DEF TypeOK
<1>6. CASE StartRenewal
  BY <1>5, <1>6 DEF StartRenewal, Workflows
<1>7. ASSUME NEW json \in BOOLEAN, StartUpdate(json) PROVE TypeOK'
  BY <1>5, <1>7 DEF StartUpdate, Workflows
<1>8. ASSUME NEW c \in Clients, Begin(c) PROVE TypeOK'
  <2>1. client[c].pc = "idle" /\ client[c].mine = "none"
    BY <1>8 DEF Begin, At, TypeOK, WaitOK
  <2>2. WaitOK' /\ client' \in [Clients -> ClientType]
    BY <1>8, <2>1 DEF Begin, TypeOK, WaitOK, ClientType
  <2> QED
    BY <1>8, <2>2 DEF Begin, TypeOK, Running
<1>9. ASSUME NEW c \in Clients, NEW st \in {"refreshing", "refreshed", "broken"},
             NEW p \in Pcs, st = "refreshing" <=> p # "idle", Become(c, st, p),
             execution.owner # c,
             UNCHANGED <<credentials, shared, nodes, execution, renewal, budget>>
      PROVE  TypeOK'
  BY <1>9, BecomeType DEF TypeOK, Running
<1>10. ASSUME NEW c \in Clients, client[c].mine # "running"
       PROVE  execution.owner # c
  BY <1>10 DEF TypeOK, WaitOK
<1>11. ASSUME NEW c \in Clients, client[c].pc # "verify"
       PROVE  execution.owner # c
  BY <1>10, <1>11 DEF TypeOK, WaitOK
<1>12. ASSUME NEW c \in Clients, Lookup(c) PROVE TypeOK'
  BY <1>9, <1>11, <1>12 DEF Lookup, At, Goto, Pcs
<1>13. ASSUME NEW c \in Clients, Poll(c) PROVE TypeOK'
  BY <1>9, <1>11, <1>13 DEF Poll, At, Goto, Pcs
<1>14. ASSUME NEW c \in Clients, StartExecution(c) PROVE TypeOK'
  <2>1. CASE Running
    BY <1>9, <1>11, <1>14, <2>1 DEF StartExecution, Refused, At, Goto, Pcs
  <2>2. CASE ~Running
    <3>1. /\ execution' = Started("execute_operation", c, TRUE)
          /\ client' = [client EXCEPT ![c].pc = "verify", ![c].mine = "running"]
          /\ client[c].pc = "start"
          /\ UNCHANGED <<credentials, shared, nodes, renewal, budget>>
      BY <1>14, <2>2 DEF StartExecution, At
    <3>2. client' \in [Clients -> ClientType]
      <4>1. client[c] \in ClientType /\ client \in [Clients -> ClientType]
        BY DEF TypeOK
      <4>2. [client[c] EXCEPT !.pc = "verify", !.mine = "running"] \in ClientType
        BY <4>1 DEF ClientType
      <4>3. client' = [client EXCEPT ![c] = [client[c] EXCEPT
                                                 !.pc = "verify",
                                                 !.mine = "running"]]
        BY <3>1, <4>1 DEF ClientType
      <4> QED
        BY <4>1, <4>2, <4>3
    <3>3. /\ execution' \in ExecutionType /\ execution'.owner = c
          /\ execution'.step <= Len(Plan(execution'.workflow))
      BY <3>1, StartedType DEF Workflows
    <3>4. WaitOK'
      <4>1. client \in [Clients -> ClientType] /\ WaitOK
            /\ execution.owner = "nobody"
        BY <2>2, NobodyRuns DEF TypeOK
      <4>2. /\ client'[c].stage = client[c].stage /\ client'[c].pc = "verify"
            /\ client'[c].mine = "running"
        BY <3>1, <4>1 DEF ClientType
      <4>3. \A d \in Clients \ {c} : client'[d] = client[d]
        BY <3>1, <4>1
      <4>4. client[c].stage = "refreshing"
        BY <3>1, <4>1 DEF WaitOK
      <4>5. ASSUME NEW d \in Clients \ {c}
            PROVE  /\ client'[d].stage = "refreshing" <=> client'[d].pc # "idle"
                   /\ client'[d].mine = "none" <=> client'[d].pc # "verify"
                   /\ client'[d].mine = "running" <=> execution'.owner = d
        BY <3>3, <4>1, <4>3 DEF WaitOK
      <4> QED
        BY <3>3, <4>2, <4>4, <4>5 DEF WaitOK
    <3> QED
      BY <3>1, <3>2, <3>3, <3>4 DEF TypeOK
  <2> QED
    BY <2>1, <2>2
<1>15. ASSUME NEW c \in Clients, Verify(c) PROVE TypeOK'
  BY <1>9, <1>10, <1>15 DEF Verify, Pcs
<1>16. ASSUME NEW c \in Clients, Retry(c) PROVE TypeOK'
  BY <1>9, <1>11, <1>16 DEF Retry, At, Goto, Pcs
<1>17. Charged /\ CanFail => budget' \in [refreshes : Nat, starts : Nat,
                                         faults : Nat, crashes : Nat]
  BY DEF Charged, CanFail, TypeOK
<1>18. ASSUME NEW c \in Clients, StartLost(c) PROVE TypeOK'
  <2>1. /\ execution' = Started("execute_operation", "nobody", TRUE)
        /\ Become(c, "refreshing", "retry") /\ CanFail /\ Charged
        /\ client[c].pc = "start" /\ ~Running
        /\ UNCHANGED <<credentials, shared, nodes, renewal>>
    BY <1>18 DEF StartLost, Goto, At
  <2>2. /\ execution' \in ExecutionType /\ execution'.owner = "nobody"
        /\ execution'.step <= Len(Plan(execution'.workflow))
    BY <2>1, StartedType DEF Workflows
  <2>3. client' \in [Clients -> ClientType] /\ WaitOK'
    BY <2>1, <2>2, NobodyRuns, BecomeType DEF Pcs
  <2> QED
    BY <1>17, <2>1, <2>2, <2>3 DEF TypeOK
<1>19. ASSUME NEW c \in Clients, NEW st \in {"refreshing", "broken"},
              NEW p \in {"idle", "retry"}, st = "refreshing" <=> p # "idle",
              Become(c, st, p), Disown(c),
              UNCHANGED <<credentials, shared, nodes, renewal>>,
              budget' \in [refreshes : Nat, starts : Nat, faults : Nat,
                           crashes : Nat]
       PROVE  TypeOK'
  <2>1. client' \in [Clients -> ClientType] /\ WaitOK'
    BY <1>19, DisownType, BecomeType DEF Pcs
  <2> QED
    BY <1>19, <2>1, DisownType DEF TypeOK
<1>20. ASSUME NEW c \in Clients, VerifyTimeout(c) PROVE TypeOK'
  BY <1>19, <1>17, <1>20 DEF VerifyTimeout
<1>21. ASSUME NEW c \in Clients, CallFails(c) PROVE TypeOK'
  BY <1>19, <1>17, <1>21 DEF CallFails, Goto
<1>22. ASSUME NEW c \in Clients, Crash(c) PROVE TypeOK'
  <2>1. budget' \in [refreshes : Nat, starts : Nat, faults : Nat, crashes : Nat]
    BY <1>22 DEF Crash, TypeOK
  <2> QED
    BY <1>19, <1>22, <2>1 DEF Crash
<1>23. CASE Rotate
  BY <1>23 DEF Rotate, TypeOK, WaitOK, Running
<1>24. CASE UNCHANGED vars
  BY <1>24 DEF vars, TypeOK, WaitOK, Running
<1> QED
  BY <1>1, <1>2, <1>3, <1>4, <1>6, <1>7, <1>8, <1>12, <1>13, <1>14, <1>15,
     <1>16, <1>18, <1>20, <1>21, <1>22, <1>23, <1>24
     DEF Next, Execution, Step, Fault

\* Every variable keeps its type and a client waits only for what it started,
\* for any clients, users, faults and crashes.
THEOREM TypeCorrect == Spec => []TypeOK
<1>1. Init => TypeOK
  BY InitIInv DEF IInv
<1> QED
  BY <1>1, TypeStep, PTL DEF Spec

-----------------------------------------------------------------------------
(* The inductive invariant.                                                *)

\* The budgets of faults and crashes, of which a step may take.
Spends == /\ budget'.faults \in Nat /\ budget'.crashes \in Nat
          /\ budget'.faults <= budget.faults
          /\ budget'.crashes <= budget.crashes
Faulty == budget'.faults < budget.faults \/ budget'.crashes < budget.crashes

\* A step that can only fail at the cost of a fault or a crash spends it.
LEMMA Spending ==
    ASSUME TypeOK
    PROVE  /\ CanFail /\ Charged => Spends /\ Faulty
           /\ UNCHANGED budget => Spends
BY DEF TypeOK, CanFail, Charged, Spends, Faulty

\* Nothing has gone wrong, and nothing in this step either.
LEMMA StillUnspent ==
    ASSUME TypeOK, FailedOnlyByFaults, Spends, UNCHANGED nodes,
           "cluster" \in nodes',
           budget'.faults = MaxFaults /\ budget'.crashes = MaxCrashes
    PROVE  /\ budget.faults = MaxFaults /\ budget.crashes = MaxCrashes
           /\ ~Faulty /\ "cluster" \in nodes
BY BoundsAssumption DEF TypeOK, FailedOnlyByFaults, Spends, Faulty

\* A client that takes a step other than to wait.
LEMMA BecomeStep ==
    ASSUME IInv, NEW c \in Clients,
           NEW st \in {"refreshing", "refreshed", "broken"}, NEW p \in Pcs,
           Become(c, st, p), Spends,
           st = "refreshed" => client[c].mine = "terminated",
           st = "broken" => \/ "cluster" \notin nodes
                            \/ client[c].mine = "failed" \/ Faulty,
           OwnerOK', RenewalOK', UNCHANGED <<credentials, shared, nodes, renewal>>
    PROVE  /\ FreshSoFar' /\ FailedOnlyByFaults'
           /\ FreshWhenRefreshed' /\ KeptIsToken' /\ BrokenOnlyByFaults'
<1> USE DEF IInv
<1>1. /\ client'[c].stage = st /\ client'[c].mine = "none"
      /\ client'[c].since = client[c].since
      /\ \A d \in Clients \ {c} : client'[d] = client[d]
  BY DEF Become, TypeOK, ClientType
<1>2. FreshSoFar' /\ FreshWhenRefreshed' /\ KeptIsToken'
  BY <1>1 DEF FreshSoFar, FreshWhenRefreshed, KeptIsToken
<1>3. FailedOnlyByFaults'
  <2>1. budget'.faults <= MaxFaults /\ budget'.crashes <= MaxCrashes
    BY BoundsAssumption DEF Spends, FailedOnlyByFaults, TypeOK
  <2> QED
    BY <1>1, <2>1, StillUnspent DEF FailedOnlyByFaults
<1>4. BrokenOnlyByFaults'
  BY <1>1, StillUnspent DEF BrokenOnlyByFaults, FailedOnlyByFaults
<1> QED
  BY <1>2, <1>3, <1>4

\* An execution that ends, and what its last operation did.
LEMMA EndsStep ==
    ASSUME IInv, TypeOK', Running, NEW state \in {"terminated", "failed"}, Ends(state),
           Spends, UNCHANGED <<credentials, nodes>>,
           shared'.capability \in {shared.capability, credentials},
           execution.workflow # "refresh_and_store_token" =>
               shared'.kept = shared.kept /\ shared'.token = shared.token,
           state = "terminated" /\ execution.owner # "nobody" =>
               shared'.capability = credentials,
           state = "terminated" /\ execution.workflow = "refresh_and_store_token"
               => shared'.kept = shared'.token,
           state = "failed" /\ execution.owner # "nobody" =>
               "cluster" \notin nodes \/ Faulty
    PROVE  IInv'
<1> USE ClientsAssumption DEF IInv
<1>1. ASSUME NEW c \in Clients
      PROVE  /\ client'[c].stage = client[c].stage
             /\ client'[c].since = client[c].since
             /\ client'[c].mine = IF c = execution.owner THEN state
                                  ELSE client[c].mine
  BY DEF Ends, TypeOK, ClientType
<1>2. /\ execution'.workflow = "none" /\ execution'.owner = "nobody"
      /\ renewal' = IF execution.workflow = "refresh_and_store_token" THEN state
                    ELSE renewal
  BY DEF Ends, NoExecution, Started
<1>3. shared.capability \in Nat /\ credentials \in Nat
      /\ shared'.capability \in Nat /\ shared'.capability >= shared.capability
      /\ shared'.capability <= credentials
  <2>1. shared.capability \in Nat /\ credentials \in Nat
        /\ shared.capability <= credentials
    BY DEF TypeOK, SharedType, FreshSoFar
  <2> QED
    BY <2>1
<1>4. \A c \in Clients : client[c].since \in Nat
  BY DEF TypeOK, ClientType
<1>5. OwnerOK' /\ RenewalOK'
  BY <1>2 DEF OwnerOK, RenewalOK
<1>6. FreshSoFar'
  BY <1>1, <1>3, <1>4 DEF FreshSoFar
<1>7. FreshWhenRefreshed'
  BY <1>1, <1>3, <1>4 DEF FreshWhenRefreshed
<1>8. KeptIsToken'
  BY <1>2 DEF KeptIsToken, RenewalOK
<1>9. FailedOnlyByFaults'
  <2>1. budget'.faults <= MaxFaults /\ budget'.crashes <= MaxCrashes
    BY BoundsAssumption DEF Spends, FailedOnlyByFaults, TypeOK
  <2> QED
    BY <1>1, <2>1, StillUnspent DEF FailedOnlyByFaults
<1>10. BrokenOnlyByFaults'
  BY <1>1, StillUnspent DEF BrokenOnlyByFaults
<1> QED
  BY <1>5, <1>6, <1>7, <1>8, <1>9, <1>10

\* Which operation of which workflow may touch the token and its copy.
LEMMA CurrentOperation ==
    ASSUME TypeOK, Running
    PROVE  /\ execution.workflow # "refresh_and_store_token" =>
                  Current.node \notin {"secret", "store"}
           /\ execution.workflow = "execute_operation" =>
                  /\ Current = Run("cluster", "poststart")
                  /\ Len(Plan(execution.workflow)) = 1
           /\ execution.workflow = "refresh_and_store_token"
              /\ execution.step = Len(Plan(execution.workflow)) =>
                  Current = Run("store", "create")
<1>1. /\ execution.workflow \in Workflows
      /\ execution.step \in 1 .. Len(Plan(execution.workflow))
  BY Places DEF ExecutionType
<1>2. CASE execution.workflow = "execute_operation"
  BY <1>1, <1>2, Plans DEF Current, Run
<1>3. CASE execution.workflow = "update_resource_definition"
  BY <1>1, <1>3, Plans DEF Current, Run
<1>4. CASE execution.workflow = "refresh_and_store_token"
  BY <1>1, <1>4, Plans DEF Current, Run
<1> QED
  BY <1>1, <1>2, <1>3, <1>4 DEF Workflows

\* An operation of an execution that succeeds.
LEMMA OperateStep ==
    ASSUME IInv, TypeOK', Running, Advances, Spends,
           UNCHANGED <<credentials, nodes>>, NodeFound, Accepted,
           \/ shared' = Effect(Current)
           \/ Current.operation = "create_secret" /\ shared' = shared
    PROVE  IInv'
<1> USE DEF IInv
<1>1. /\ shared'.capability \in {shared.capability, credentials}
      /\ Current = Run("cluster", "poststart") =>
             shared'.capability = credentials
      /\ Current = Run("store", "create") => shared'.kept = shared'.token
      /\ Current.node \notin {"secret", "store"} =>
             shared'.kept = shared.kept /\ shared'.token = shared.token
  <2>1. CASE shared' = Effect(Current)
    BY <2>1, Effects DEF TypeOK
  <2>2. CASE Current.operation = "create_secret" /\ shared' = shared
    BY <2>2 DEF Run
  <2> QED
    BY <2>1, <2>2
<1>2. CASE execution.step = Len(Plan(execution.workflow))
  <2>1. Ends("terminated")
    BY <1>2 DEF Advances
  <2>2. execution.owner # "nobody" => Current = Run("cluster", "poststart")
    BY CurrentOperation DEF OwnerOK
  <2>3. execution.workflow = "refresh_and_store_token" =>
            Current = Run("store", "create")
    BY <1>2, CurrentOperation
  <2>4. execution.workflow # "refresh_and_store_token" =>
            Current.node \notin {"secret", "store"}
    BY CurrentOperation
  <2> QED
    BY <1>1, <2>1, <2>2, <2>3, <2>4, EndsStep
<1>3. CASE execution.step # Len(Plan(execution.workflow))
  <2>1. execution' = [execution EXCEPT !.step = @ + 1]
        /\ UNCHANGED <<renewal, client>>
    BY <1>3 DEF Advances
  <2>2. execution.owner = "nobody"
    BY <1>3, CurrentOperation, Places DEF OwnerOK
  <2>3. /\ execution'.owner = execution.owner
        /\ execution'.workflow = execution.workflow
    BY <2>1, Places DEF ExecutionType
  <2>4. OwnerOK' /\ RenewalOK'
    BY <2>1, <2>2, <2>3 DEF OwnerOK, RenewalOK
  <2>5. /\ shared.capability \in Nat /\ credentials \in Nat
        /\ shared'.capability \in Nat /\ shared'.capability >= shared.capability
        /\ shared'.capability <= credentials
        /\ \A c \in Clients : client[c].since \in Nat
    <3>1. shared \in SharedType /\ shared' \in SharedType
      BY DEF TypeOK
    <3>2. /\ shared.capability \in Nat /\ credentials \in Nat
          /\ shared'.capability \in Nat
      BY <3>1 DEF SharedType, TypeOK
    <3>3. \A c \in Clients : client[c].since \in Nat
      BY DEF TypeOK, ClientType
    <3>4. shared.capability <= credentials
      BY DEF FreshSoFar
    <3> HIDE DEF IInv
    <3> QED
      BY <1>1, <3>2, <3>3, <3>4
  <2>6. FreshSoFar' /\ FreshWhenRefreshed'
    BY <2>1, <2>5 DEF FreshSoFar, FreshWhenRefreshed
  <2>7. KeptIsToken'
    BY <1>1, <2>1, CurrentOperation DEF KeptIsToken, RenewalOK
  <2>8. budget'.faults <= MaxFaults /\ budget'.crashes <= MaxCrashes
    BY BoundsAssumption DEF Spends, FailedOnlyByFaults, TypeOK
  <2>9. FailedOnlyByFaults' /\ BrokenOnlyByFaults'
    BY <2>1, <2>8, StillUnspent DEF FailedOnlyByFaults, BrokenOnlyByFaults
  <2> QED
    BY <2>4, <2>6, <2>7, <2>9
<1> QED
  BY <1>2, <1>3

\* Every step keeps the invariant.
LEMMA IInvStep == IInv /\ [Next]_vars => IInv'
<1> SUFFICES ASSUME IInv, [Next]_vars PROVE IInv'
  OBVIOUS
<1> USE ClientsAssumption DEF IInv
<1>1. TypeOK /\ TypeOK'
  BY TypeStep
<1>2. /\ CanFail /\ Charged => Spends /\ Faulty
      /\ UNCHANGED budget => Spends
  BY Spending
<1>3. CASE Operate
  BY <1>1, <1>2, <1>3, OperateStep DEF Operate
<1>4. CASE Rejected
  <2>1. /\ Ends("failed") /\ Running /\ ~(NodeFound /\ Accepted)
        /\ UNCHANGED <<credentials, shared, nodes, budget>>
    BY <1>4 DEF Rejected
  <2>2. execution.owner # "nobody" => "cluster" \notin nodes
    BY <2>1, CurrentOperation DEF OwnerOK, NodeFound, Accepted, Run
  <2> QED
    BY <1>1, <1>2, <2>1, <2>2, EndsStep
<1>5. CASE OperationFails
  <2>1. /\ Ends("failed") /\ Running /\ CanFail /\ Charged
        /\ shared' \in {shared, Effect(Current)}
        /\ UNCHANGED <<credentials, nodes>>
    BY <1>5 DEF OperationFails
  <2>2. shared'.capability \in {shared.capability, credentials}
    BY <2>1, Effects DEF TypeOK
  <2>3. execution.workflow # "refresh_and_store_token" =>
            shared'.kept = shared.kept /\ shared'.token = shared.token
    BY <2>1, Effects, CurrentOperation DEF TypeOK
  <2> QED
    BY <1>1, <1>2, <2>1, <2>2, <2>3, EndsStep
<1>6. CASE SecretNotCreated
  <2>1. /\ Running /\ Advances /\ CanFail /\ Charged
        /\ Current.operation = "create_secret"
        /\ UNCHANGED <<credentials, shared, nodes>>
    BY <1>6 DEF SecretNotCreated
  <2>2. Accepted
    BY <2>1 DEF Accepted
  <2>3. NodeFound
    <3>1. execution.workflow \in Workflows
          /\ execution.step \in 1 .. Len(Plan(execution.workflow))
      BY <2>1, Places DEF ExecutionType
    <3>2. CASE execution.workflow = "execute_operation"
      BY <2>1, <3>1, <3>2, Plans DEF Current, Run
    <3>3. CASE execution.workflow = "update_resource_definition"
      BY <2>1, <3>1, <3>3, Plans DEF Current, Run
    <3>4. CASE execution.workflow = "refresh_and_store_token"
      <4>1. execution.step \in {1, 2, 3, 4, 5, 6, 7, 8}
        <5>1. execution.step \in 1 .. 8
          BY <2>1, Places DEF ExecutionType
        <5> QED
          BY <5>1
      <4>2. Current.operation # "create_secret" \/ execution.step = 3
        BY <3>4, <4>1, Plans DEF Current, Run
      <4> QED
        BY <2>1, <3>4, <4>2, Plans DEF Current, Run, NodeFound
    <3> QED
      BY <3>1, <3>2, <3>3, <3>4 DEF Workflows
  <2> QED
    BY <1>1, <1>2, <2>1, <2>2, <2>3, OperateStep
<1>7. ASSUME StartRenewal \/ \E json \in BOOLEAN : StartUpdate(json)
      PROVE  IInv'
  <2>1. /\ UNCHANGED <<credentials, shared, nodes, client>>
        /\ execution'.owner = "nobody"
        /\ \/ /\ execution'.workflow = "refresh_and_store_token"
              /\ renewal' = "running"
           \/ /\ execution'.workflow = "update_resource_definition"
              /\ renewal' = renewal /\ ~Running
        /\ budget' = [budget EXCEPT !.starts = @ - 1]
    BY <1>7 DEF StartRenewal, StartUpdate, StartWorkflow, Started
  <2>2. OwnerOK' /\ RenewalOK'
    BY <2>1 DEF OwnerOK, RenewalOK, Running, NoExecution, Started
  <2>3. budget'.faults = budget.faults /\ budget'.crashes = budget.crashes
    BY <2>1 DEF TypeOK
  <2>4. FreshSoFar' /\ FreshWhenRefreshed' /\ KeptIsToken'
    BY <2>1 DEF FreshSoFar, FreshWhenRefreshed, KeptIsToken
  <2>5. FailedOnlyByFaults' /\ BrokenOnlyByFaults'
    BY <2>1, <2>3 DEF FailedOnlyByFaults, BrokenOnlyByFaults
  <2> QED
    BY <1>1, <2>2, <2>4, <2>5
<1>8. ASSUME NEW c \in Clients, Begin(c) PROVE IInv'
  <2>1. /\ client'[c] = [stage |-> "refreshing", pc |-> "lookup",
                         since |-> credentials, mine |-> "none"]
        /\ \A d \in Clients \ {c} : client'[d] = client[d]
        /\ UNCHANGED <<credentials, shared, nodes, execution, renewal>>
        /\ budget'.faults = budget.faults /\ budget'.crashes = budget.crashes
    BY <1>8 DEF Begin, TypeOK
  <2>2. OwnerOK' /\ RenewalOK' /\ FreshSoFar'
    BY <2>1 DEF OwnerOK, RenewalOK, FreshSoFar, TypeOK
  <2>3. FreshWhenRefreshed' /\ KeptIsToken'
    BY <2>1 DEF FreshWhenRefreshed, KeptIsToken
  <2>4. FailedOnlyByFaults' /\ BrokenOnlyByFaults'
    BY <2>1 DEF FailedOnlyByFaults, BrokenOnlyByFaults
  <2> QED
    BY <1>1, <2>2, <2>3, <2>4
<1>9. UNCHANGED <<execution, renewal>> => OwnerOK' /\ RenewalOK'
  BY DEF OwnerOK, RenewalOK
<1>10. ASSUME NEW c \in Clients, Lookup(c) PROVE IInv'
  BY <1>1, <1>2, <1>9, <1>10, BecomeStep DEF Lookup, Goto, Pcs
<1>11. ASSUME NEW c \in Clients, Poll(c) PROVE IInv'
  BY <1>1, <1>2, <1>9, <1>11, BecomeStep DEF Poll, Goto, Pcs
<1>12. ASSUME NEW c \in Clients, StartExecution(c) PROVE IInv'
  <2>1. CASE Running
    BY <1>1, <1>2, <1>9, <1>12, <2>1, BecomeStep
       DEF StartExecution, Refused, Goto, Pcs
  <2>2. CASE ~Running
    <3>1. /\ execution' = Started("execute_operation", c, TRUE)
          /\ client' = [client EXCEPT ![c].pc = "verify", ![c].mine = "running"]
          /\ UNCHANGED <<credentials, shared, nodes, renewal, budget>>
      BY <1>12, <2>2 DEF StartExecution
    <3>2. /\ client'[c].stage = client[c].stage /\ client'[c].mine = "running"
          /\ client'[c].since = client[c].since
          /\ \A d \in Clients \ {c} : client'[d] = client[d]
      BY <3>1 DEF TypeOK, ClientType
    <3>3. OwnerOK' /\ RenewalOK'
      BY <2>2, <3>1 DEF OwnerOK, RenewalOK, Started, Running, NoExecution
    <3>4. FreshSoFar' /\ FreshWhenRefreshed' /\ KeptIsToken'
      BY <3>1, <3>2 DEF FreshSoFar, FreshWhenRefreshed, KeptIsToken
    <3>5. FailedOnlyByFaults' /\ BrokenOnlyByFaults'
      BY <3>1, <3>2 DEF FailedOnlyByFaults, BrokenOnlyByFaults
    <3> QED
      BY <1>1, <3>3, <3>4, <3>5
  <2> QED
    BY <2>1, <2>2
<1>13. ASSUME NEW c \in Clients, Verify(c) PROVE IInv'
  BY <1>1, <1>2, <1>9, <1>13, BecomeStep DEF Verify, Verdict, Pcs
<1>14. ASSUME NEW c \in Clients, Retry(c) PROVE IInv'
  BY <1>1, <1>2, <1>9, <1>14, BecomeStep DEF Retry, Goto, Pcs
<1>15. ASSUME NEW c \in Clients, StartLost(c) PROVE IInv'
  <2>1. /\ execution' = Started("execute_operation", "nobody", TRUE)
        /\ Become(c, "refreshing", "retry") /\ CanFail /\ Charged /\ ~Running
        /\ UNCHANGED <<credentials, shared, nodes, renewal>>
    BY <1>15 DEF StartLost, Goto
  <2>2. OwnerOK' /\ RenewalOK'
    BY <2>1 DEF OwnerOK, RenewalOK, Started, Running, NoExecution
  <2> QED
    BY <1>1, <1>2, <2>1, <2>2, BecomeStep DEF Pcs
<1>16. ASSUME NEW c \in Clients, Disown(c), UNCHANGED renewal
       PROVE  OwnerOK' /\ RenewalOK'
  BY <1>1, <1>16, DisownType DEF OwnerOK, RenewalOK
<1>17. ASSUME NEW c \in Clients, VerifyTimeout(c) PROVE IInv'
  BY <1>1, <1>2, <1>16, <1>17, BecomeStep DEF VerifyTimeout, Pcs
<1>18. ASSUME NEW c \in Clients, CallFails(c) PROVE IInv'
  BY <1>1, <1>2, <1>16, <1>18, BecomeStep DEF CallFails, Goto, Pcs
<1>19. ASSUME NEW c \in Clients, Crash(c) PROVE IInv'
  <2>1. Spends /\ Faulty
    BY <1>19 DEF Crash, Spends, Faulty, TypeOK
  <2> QED
    BY <1>1, <1>16, <1>19, <2>1, BecomeStep DEF Crash, Pcs
<1>20. CASE Rotate
  <2>1. credentials' = credentials + 1
        /\ UNCHANGED <<shared, nodes, execution, renewal, client, budget>>
    BY <1>20 DEF Rotate
  <2>2. FreshSoFar'
    BY <2>1 DEF FreshSoFar, TypeOK, SharedType, ClientType
  <2> QED
    BY <1>1, <2>1, <2>2 DEF OwnerOK, RenewalOK, FailedOnlyByFaults,
       FreshWhenRefreshed, KeptIsToken, BrokenOnlyByFaults
<1>21. CASE UNCHANGED vars
  BY <1>1, <1>21 DEF vars, OwnerOK, FreshSoFar, RenewalOK, FailedOnlyByFaults,
     FreshWhenRefreshed, KeptIsToken, BrokenOnlyByFaults
<1> QED
  BY <1>3, <1>4, <1>5, <1>6, <1>7, <1>8, <1>10, <1>11, <1>12, <1>13, <1>14,
     <1>15, <1>17, <1>18, <1>19, <1>20, <1>21
     DEF Next, Execution, Step, Fault

\* The invariant is inductive.
LEMMA Invariance == Spec => []IInv
BY InitIInv, IInvStep, PTL DEF Spec

\* A refresh_config that succeeds has connection details in the shared
\* deployment that are no older than itself.
THEOREM RefreshIsFresh == Spec => []FreshWhenRefreshed
BY Invariance, PTL DEF IInv

\* A refresh_and_store_token that succeeds leaves the token of the cluster in
\* its store, and until the next one nothing parts them.
THEOREM TokenIsKept == Spec => []KeptIsToken
BY Invariance, PTL DEF IInv

\* Other clients and users never make a refresh_config fail for good.
THEOREM OnlyFaultsBreak == Spec => []BrokenOnlyByFaults
BY Invariance, PTL DEF IInv
=============================================================================
