------------------------- MODULE SharedClusterRefresh -------------------------
(***************************************************************************)
(* The deployment of a cluster that others share, and what is run in it:   *)
(* the two workflows of the plugin, and the execute_operation workflow     *)
(* that refresh_config starts there for every node that uses the cluster   *)
(* and that the node waits for.                                            *)
(*                                                                         *)
(* A workflow is a sequence of operations.  An operation of an execution   *)
(* is one step here, with its retries: it succeeds, or fails for good with *)
(* or without its effect.                                                  *)
(***************************************************************************)
EXTENDS Naturals, Sequences

CONSTANTS
    Clients,       \* SharedCluster node instances of other deployments
    Inventories,   \* nodes the shared deployment may have
    MaxRefreshes,  \* times a client runs refresh_config
    MaxStarts,     \* workflows that users start in the shared deployment
    MaxFaults,     \* failed calls, operations and timeouts
    MaxCrashes,    \* crashes of a worker that runs refresh_config
    MaxRotations   \* times the cluster changes its connection details

Nodes == {"cluster", "service_account", "secret", "store", "resource"}

ASSUME ClientsAssumption == Clients # {} /\ "nobody" \notin Clients
ASSUME InventoriesAssumption ==
    Inventories \subseteq SUBSET Nodes /\ Inventories # {}
ASSUME BoundsAssumption ==
    /\ MaxRefreshes \in Nat /\ MaxStarts \in Nat /\ MaxFaults \in Nat
    /\ MaxCrashes \in Nat /\ MaxRotations \in Nat

\* The node "manager" stands for a call to the manager in place of an operation.
Run(node, operation) == [node |-> node, operation |-> operation]

Upto(last) ==
    << Run("cluster", "poststart"), Run("cluster", "check_drift"),
       Run("manager", "create_secret"),
       Run("service_account", "update"), Run("service_account", "poststart") >>
    \o last

\* A bug for RefreshAndStore: the token is stored before the secret is replaced.
StoresFirst ==
    Upto(<< Run("store", "create"), Run("secret", "delete"),
            Run("secret", "create") >>)

RefreshAndStore ==
    Upto(<< Run("secret", "delete"), Run("secret", "create"),
            Run("store", "create") >>)

Workflows == {"execute_operation", "refresh_and_store_token",
              "update_resource_definition"}

Plan(workflow) ==
    CASE workflow = "execute_operation" -> << Run("cluster", "poststart") >>
      [] workflow = "refresh_and_store_token" -> RefreshAndStore
      [] workflow = "update_resource_definition" ->
             << Run("resource", "poststart"), Run("resource", "update") >>

VARIABLES
    credentials,  \* version of the cluster's connection details
    shared,       \* what the operations of the shared deployment have made
    nodes,        \* nodes of the shared deployment, fixed
    execution,    \* the running execution of the shared deployment, if any
    renewal,      \* state of its last refresh_and_store_token
    client,       \* per client: the operation refresh_config
    budget        \* what is left of the bounds

vars == <<credentials, shared, nodes, execution, renewal, client, budget>>

\* capability: version in the capabilities of the deployment; config: version in
\* the secret kubernetes_config of the manager, 0 if there is none; made: tokens
\* made so far; token: the one in the cluster; kept: the one the store node has
\* taken, which 0 stands for no token in both.
InitialShared(config) ==
    [capability |-> 1, config |-> config, made |-> 1, token |-> 1, kept |-> 1]

\* since: the credentials when the operation began; mine: state of the execution
\* the client has started and knows of.
InitialClient == [stage |-> "idle", pc |-> "idle", since |-> 1, mine |-> "none"]

\* owner: the client that started it and knows it; parsed: the changes an update
\* is to make are a dictionary.
Started(workflow, owner, parsed) ==
    [workflow |-> workflow, step |-> 1, owner |-> owner, parsed |-> parsed]
NoExecution == Started("none", "nobody", TRUE)
Running == execution # NoExecution

Init ==
    /\ credentials = 1
    /\ \E config \in {0, 1} : shared = InitialShared(config)
    /\ nodes \in Inventories
    /\ execution = NoExecution
    /\ renewal = "terminated"
    /\ client = [c \in Clients |-> InitialClient]
    /\ budget = [refreshes |-> MaxRefreshes, starts |-> MaxStarts,
                 faults |-> MaxFaults, crashes |-> MaxCrashes]

CanFail == budget.faults > 0
Charged == budget' = [budget EXCEPT !.faults = @ - 1]

-----------------------------------------------------------------------------
(* Executions of the shared deployment.                                    *)

Current == Plan(execution.workflow)[execution.step]

\* The token controller fills the secret that was created.
WithNewToken == [shared EXCEPT !.made = @ + 1, !.token = shared.made + 1]

\* What an operation does if it succeeds.  A secret of the manager that exists
\* is left as it is, and so is the error; a create adopts an object that is
\* there.
Effect(run) ==
    CASE run = Run("cluster", "poststart") ->
             [shared EXCEPT !.capability = credentials]
      [] run = Run("manager", "create_secret") /\ shared.config = 0 ->
             [shared EXCEPT !.config = shared.capability]
      [] run = Run("secret", "delete") -> [shared EXCEPT !.token = 0]
      [] run = Run("secret", "create") /\ shared.token = 0 ->
             WithNewToken
      [] run = Run("store", "create") -> [shared EXCEPT !.kept = shared.token]
      [] OTHER -> shared

Ends(state) ==
    /\ execution' = NoExecution
    /\ renewal' = IF execution.workflow = "refresh_and_store_token" THEN state
                  ELSE renewal
    /\ client' = [c \in Clients |-> IF c = execution.owner
                                    THEN [client[c] EXCEPT !.mine = state]
                                    ELSE client[c]]

Advances ==
    IF execution.step = Len(Plan(execution.workflow)) THEN Ends("terminated")
    ELSE /\ execution' = [execution EXCEPT !.step = @ + 1]
         /\ UNCHANGED <<renewal, client>>

\* lookup_node_instance, one at a time as the workflow comes to them.
NodeFound == Current.node \in nodes \cup {"manager"}

\* An update with changes that are not a dictionary cannot merge them.
Accepted == Current.operation = "update" => execution.parsed

Operate ==
    /\ Running /\ NodeFound /\ Accepted
    /\ shared' = Effect(Current)
    /\ Advances
    /\ UNCHANGED <<credentials, nodes, budget>>

Rejected ==
    /\ Running /\ ~(NodeFound /\ Accepted)
    /\ Ends("failed")
    /\ UNCHANGED <<credentials, shared, nodes, budget>>

OperationFails ==
    /\ Running /\ NodeFound /\ Accepted /\ CanFail
    /\ shared' \in {shared, Effect(Current)}
    /\ Ends("failed")
    /\ Charged
    /\ UNCHANGED <<credentials, nodes>>

\* create_secrets_kubernetes_config logs the error of the call and goes on.
SecretNotCreated ==
    /\ Running /\ Current.operation = "create_secret" /\ CanFail
    /\ Advances
    /\ Charged
    /\ UNCHANGED <<credentials, shared, nodes>>

\* A user starts a workflow.
StartWorkflow(e) ==
    /\ ~Running /\ budget.starts > 0
    /\ execution' = e
    /\ budget' = [budget EXCEPT !.starts = @ - 1]
    /\ UNCHANGED <<credentials, shared, nodes, client>>

StartRenewal ==
    /\ StartWorkflow(Started("refresh_and_store_token", "nobody", TRUE))
    /\ renewal' = "running"

\* Changes that are no JSON stay text: json's messages are not those that
\* update_resource_definition looks for.
StartUpdate(json) ==
    /\ StartWorkflow(Started("update_resource_definition", "nobody", json))
    /\ UNCHANGED renewal

-----------------------------------------------------------------------------
(* refresh_config of a client.                                             *)

Become(c, stage, pc) ==
    client' = [client EXCEPT ![c].stage = stage, ![c].pc = pc,
                             ![c].mine = "none"]
Goto(c, pc) == Become(c, "refreshing", pc)

At(c, pc) == client[c].pc = pc

\* The client stops waiting for an execution it has started.
Disown(c) ==
    execution' = IF execution.owner = c
                 THEN [execution EXCEPT !.owner = "nobody"] ELSE execution

\* configure of an install, or prestop of an uninstall.
Begin(c) ==
    /\ At(c, "idle") /\ budget.refreshes > 0
    /\ client' = [client EXCEPT ![c] = [stage |-> "refreshing", pc |-> "lookup",
                                        since |-> credentials, mine |-> "none"]]
    /\ budget' = [budget EXCEPT !.refreshes = @ - 1]
    /\ UNCHANGED <<credentials, shared, nodes, execution, renewal>>

\* get_kubernetes_cluster_node_instance_id
Lookup(c) ==
    /\ At(c, "lookup")
    /\ IF "cluster" \in nodes THEN Goto(c, "poll") ELSE Become(c, "broken", "idle")
    /\ UNCHANGED <<credentials, shared, nodes, execution, renewal, budget>>

\* A bug for AllFinished: an operation that waits is taken for an execution.
CountsWaiting(c) == ~Running /\ \A d \in Clients \ {c} : ~At(d, "poll")

\* is_all_executions_finished
AllFinished(c) == ~Running

Poll(c) ==
    /\ At(c, "poll") /\ AllFinished(c)
    /\ Goto(c, "start")
    /\ UNCHANGED <<credentials, shared, nodes, execution, renewal, budget>>

\* Bugs for Refused: it is final, or it is not noticed.
GivesUp(c) == Become(c, "broken", "idle")
WaitsAnyway(c) == Goto(c, "verify")

\* The manager starts no execution while another one runs.  Its refusal is an
\* exception like any other, and the operation is retried.
Refused(c) == Goto(c, "retry")

StartExecution(c) ==
    /\ At(c, "start")
    /\ IF Running
       THEN Refused(c) /\ UNCHANGED execution
       ELSE /\ execution' = Started("execute_operation", c, TRUE)
            /\ client' = [client EXCEPT ![c].pc = "verify",
                                        ![c].mine = "running"]
    /\ UNCHANGED <<credentials, shared, nodes, renewal, budget>>

\* The execution starts and the client does not learn of it.
StartLost(c) ==
    /\ At(c, "start") /\ ~Running /\ CanFail
    /\ execution' = Started("execute_operation", "nobody", TRUE)
    /\ Goto(c, "retry")
    /\ Charged
    /\ UNCHANGED <<credentials, shared, nodes, renewal>>

\* A bug for Verdict: any end will do.
EndIsEnough(state) == TRUE

\* verify_execution_state is asked for the state 'terminated'.
Verdict(state) == state = "terminated"

Verify(c) ==
    /\ At(c, "verify") /\ client[c].mine \in {"terminated", "failed"}
    /\ IF Verdict(client[c].mine) THEN Become(c, "refreshed", "idle")
       ELSE Become(c, "broken", "idle")
    /\ UNCHANGED <<credentials, shared, nodes, execution, renewal, budget>>

\* The timeout of verify_execution_state: the client gives up, the execution
\* goes on.
VerifyTimeout(c) ==
    /\ At(c, "verify") /\ client[c].mine = "running" /\ CanFail
    /\ Become(c, "broken", "idle")
    /\ Disown(c)
    /\ Charged
    /\ UNCHANGED <<credentials, shared, nodes, renewal>>

\* An exception of the REST client, or of what the code makes of a list or a
\* node it could not get, or the timeout of the poll.
CallFails(c) ==
    /\ client[c].pc \in {"lookup", "poll", "start", "verify"} /\ CanFail
    /\ Goto(c, "retry")
    /\ Disown(c)
    /\ Charged
    /\ UNCHANGED <<credentials, shared, nodes, renewal>>

Retry(c) ==
    /\ At(c, "retry")
    /\ Goto(c, "lookup")
    /\ UNCHANGED <<credentials, shared, nodes, execution, renewal, budget>>

\* refresh_config is not resumable.
Crash(c) ==
    /\ client[c].stage = "refreshing" /\ budget.crashes > 0
    /\ Become(c, "broken", "idle")
    /\ Disown(c)
    /\ budget' = [budget EXCEPT !.crashes = @ - 1]
    /\ UNCHANGED <<credentials, shared, nodes, renewal>>

\* The cluster gets other connection details.
Rotate ==
    /\ credentials <= MaxRotations
    /\ credentials' = credentials + 1
    /\ UNCHANGED <<shared, nodes, execution, renewal, client, budget>>

Execution == Operate \/ Rejected
Step(c) == Lookup(c) \/ Poll(c) \/ StartExecution(c) \/ Verify(c) \/ Retry(c)
Fault(c) == StartLost(c) \/ VerifyTimeout(c) \/ CallFails(c) \/ Crash(c)

Next ==
    \/ Execution \/ OperationFails \/ SecretNotCreated \/ Rotate
    \/ StartRenewal \/ \E json \in BOOLEAN : StartUpdate(json)
    \/ \E c \in Clients : Begin(c) \/ Step(c) \/ Fault(c)

Spec == Init /\ [][Next]_vars

\* Executions run, and the workers that wait for them go on.
Fairness == WF_vars(Execution) /\ \A c \in Clients : WF_vars(Step(c))

FairSpec == Spec /\ Fairness

-----------------------------------------------------------------------------
(* Properties.                                                             *)

SharedType == [capability : Nat, config : Nat, made : Nat, token : Nat,
               kept : Nat]
ExecutionType ==
    [workflow : Workflows, step : 1 .. 8, owner : Clients \cup {"nobody"},
     parsed : BOOLEAN]
ClientType ==
    [stage : {"idle", "refreshing", "refreshed", "broken"},
     pc : {"idle", "retry", "lookup", "poll", "start", "verify"},
     since : Nat, mine : {"none", "running", "terminated", "failed"}]

\* A client waits for the execution it started, and for no other.
WaitOK ==
    \A c \in Clients :
        /\ client[c].stage = "refreshing" <=> client[c].pc # "idle"
        /\ client[c].mine = "none" <=> client[c].pc # "verify"
        /\ client[c].mine = "running" <=> execution.owner = c

\* Every variable has the type its declaration says, an execution is within its
\* plan, and a client waits only for what it has started.
TypeOK ==
    /\ credentials \in Nat /\ shared \in SharedType /\ nodes \in Inventories
    /\ execution \in ExecutionType \cup {NoExecution}
    /\ Running => execution.step <= Len(Plan(execution.workflow))
    /\ renewal \in {"running", "terminated", "failed"}
    /\ client \in [Clients -> ClientType] /\ WaitOK
    /\ budget \in [refreshes : Nat, starts : Nat, faults : Nat, crashes : Nat]

\* A client whose refresh_config succeeded finds connection details in the
\* shared deployment that are no older than its operation, whatever calls were
\* lost or refused and whoever else ran the cluster's poststart.
FreshWhenRefreshed ==
    \A c \in Clients : client[c].stage = "refreshed" =>
        shared.capability >= client[c].since

\* The store node has the token that is in the cluster, except while
\* refresh_and_store_token is between its steps, or has failed there.
KeptIsToken == renewal = "terminated" => shared.kept = shared.token

\* A refresh_config fails for good only through a fault or because the shared
\* deployment has no cluster, and not for what other clients and users do
\* between its poll and its start.
BrokenOnlyByFaults ==
    /\ "cluster" \in nodes
    /\ budget.faults = MaxFaults /\ budget.crashes = MaxCrashes
    => \A c \in Clients : client[c].stage # "broken"

\* A refresh_config ends: clients that wait for each other's executions and
\* start between each other's poll and start all come through.
RefreshEnds ==
    \A c \in Clients :
        client[c].stage = "refreshing" ~> client[c].stage # "refreshing"
=============================================================================
