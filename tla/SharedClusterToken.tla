-------------------------- MODULE SharedClusterToken --------------------------
(***************************************************************************)
(* The token of a SharedCluster node: a cluster role binding, a service    *)
(* account and its secret, made and deleted by one operation each, and the *)
(* runtime properties other nodes take their connection from.              *)
(*                                                                         *)
(* The names are made of the node instance's id, so nobody else uses them. *)
(* Reads whose answer the code throws away are left out: the one after a   *)
(* POST that failed, and the one before every DELETE of these nodes, which *)
(* have no use_external_resource.                                          *)
(***************************************************************************)
EXTENDS Naturals, Sequences

CONSTANTS
    CanExhaust,    \* may the engine run out of retries?
    MaxFaults,     \* failed exchanges with the API server
    MaxCrashes     \* crashes of the worker

ASSUME BoundsAssumption ==
    CanExhaust \in BOOLEAN /\ MaxFaults \in Nat /\ MaxCrashes \in Nat

Kinds == {"cluster_role_binding", "service_account", "secret"}
Ops == {"create", "read", "status", "delete"}

Do(verb, kind) == [verb |-> verb, kind |-> kind]

\* The exchanges of each operation: the nested ones of the decorator before or
\* after those of the task.  The last of create is made if the one before it,
\* or the POST, failed.
Plan(op) ==
    CASE op = "create" ->
             << Do("post", "cluster_role_binding"),
                Do("get", "cluster_role_binding"),
                Do("post", "service_account"), Do("get", "service_account"),
                Do("post", "secret"), Do("get", "secret"),
                Do("get", "secret") >>
      [] op \in {"read", "status"} ->
             << Do("get", "service_account"), Do("get", "cluster_role_binding"),
                Do("get", "secret") >>
      [] op = "delete" ->
             << Do("delete", "secret"), Do("delete", "service_account"),
                Do("delete", "cluster_role_binding") >>

VARIABLES
    objects,    \* the three resources in the cluster
    filled,     \* has the token controller filled the secret?
    stage,      \* of the node instance
    op, step,   \* operation under way, and where in its plan; 0 before a retry
    props,      \* runtime properties in the worker
    saved,      \* and in the manager: written when an attempt ends
    overlap,    \* history: the last create began before a deletion was over
    budget

vars == <<objects, filled, stage, op, step, props, saved, overlap, budget>>

\* service_account: what service_account_response holds, "object" when that is
\* the service account, "other" when it is the Status or None that a delete has
\* answered.  token: k8s-service-account-token and k8s-cacert are there.
NoProps == [service_account |-> "unset", token |-> FALSE]

Init ==
    /\ objects = [k \in Kinds |-> "absent"] /\ filled = FALSE
    /\ stage = "uninitialized"
    /\ op = "none" /\ step = 0
    /\ props = NoProps /\ saved = NoProps
    /\ overlap = FALSE
    /\ budget = [faults |-> MaxFaults, crashes |-> MaxCrashes]

-----------------------------------------------------------------------------
(* How an attempt goes on and ends.                                        *)

Exchange(verb) == op # "none" /\ step > 0 /\ Plan(op)[step].verb = verb
Kind == Plan(op)[step].kind

Goto(i, p) ==
    /\ step' = i /\ props' = p
    /\ UNCHANGED <<stage, op, saved, overlap>>

\* Whatever ends an attempt, the dispatcher saves the runtime properties.  No
\* exception of these operations is a NonRecoverableError.
Fails ==
    /\ step' = 0 /\ saved' = props
    /\ UNCHANGED <<stage, op, props, overlap>>

Leaves(result, p) ==
    /\ op' = "none" /\ step' = 0 /\ props' = p /\ saved' = p
    /\ stage' = CASE op = "create" -> IF result = "success" THEN "started"
                                      ELSE "broken"
                  [] op = "delete" -> IF result = "success" THEN "stopped"
                                      ELSE "broken"
                  [] OTHER -> stage
    /\ UNCHANGED overlap

Answers == {"ok"} \cup (IF budget.faults > 0 THEN {"dropped", "lost"} ELSE {})

Charge(answer) ==
    IF answer = "ok" THEN UNCHANGED budget
    ELSE budget' = [budget EXCEPT !.faults = @ - 1]

-----------------------------------------------------------------------------
(* The exchanges.                                                          *)

\* A bug for AfterPost: the 409 of an object that exists is a failure.
ConflictFails(answer) ==
    IF answer = "ok" /\ objects[Kind] = "absent" THEN Goto(step + 1, props)
    ELSE Fails

\* resource_create_from_payload goes on to its read after a 409 too, and
\* create_token reads the secret when its POST fails.
AfterPost(answer) ==
    CASE answer = "ok"   -> Goto(step + 1, props)
      [] answer # "ok" /\ Kind = "secret" -> Goto(step + 2, props)
      [] OTHER           -> Fails

Post == \E answer \in Answers :
    /\ Exchange("post")
    /\ IF objects[Kind] = "absent" /\ answer # "dropped"
       THEN /\ objects' = [objects EXCEPT ![Kind] = "present"]
            /\ filled' = (filled /\ Kind # "secret")
       ELSE UNCHANGED <<objects, filled>>
    /\ AfterPost(answer)
    /\ Charge(answer)

\* A bug for TokenRead: a secret without data will do.
TokenReadAnyway == TRUE

\* secret_response['data']['token'] raises when there is no data.
TokenRead == filled

\* A bug for AfterGet: a secret ends the operation, the token is not stored.
SecretIsEnough ==
    IF Kind = "secret" THEN Leaves("success", props)
    ELSE Goto(step + 1, [props EXCEPT !.service_account = "object"])

\* The answer of the nested reads is stored, and the secret ends the operation.
AfterGet ==
    CASE Kind = "service_account" ->
             Goto(step + 1, [props EXCEPT !.service_account = "object"])
      [] Kind = "cluster_role_binding" -> Goto(step + 1, props)
      [] Kind = "secret" /\ op = "status" -> Leaves("success", props)
      [] Kind = "secret" /\ op # "status" /\ TokenRead ->
             Leaves("success", [props EXCEPT !.token = TRUE])
      [] OTHER -> Fails

Get == \E answer \in Answers :
    /\ Exchange("get")
    /\ IF answer = "ok" /\ objects[Kind] # "absent" THEN AfterGet
       ELSE IF op = "create" /\ step = Len(Plan(op)) - 1
       THEN Goto(step + 1, props)
       ELSE Fails
    /\ Charge(answer)
    /\ UNCHANGED <<objects, filled>>

\* delete_token looks for the name of the secret in service_account_response.
NoServiceAccount ==
    /\ Exchange("delete") /\ step = 1
    /\ props.service_account # "object"
    /\ Fails
    /\ UNCHANGED <<objects, filled, budget>>

\* Bugs for AfterDelete: one nested resource too few, and no end of them.
ForgetsBinding(found) ==
    IF Kind = "secret" THEN Goto(step + 1, props) ELSE Leaves("success", props)
NeverDone(found) == Goto(step + 1, props)

\* resource_delete_from_payload ignores a 404.  The decorator stores the answer
\* of the nested ones; it is the object only while that is being deleted.
AfterDelete(found) ==
    CASE Kind = "secret" -> Goto(step + 1, [props EXCEPT !.token = FALSE])
      [] Kind = "service_account" ->
             Goto(step + 1, [props EXCEPT !.service_account =
                  IF found /\ objects'[Kind] = "terminating" THEN "object"
                  ELSE "other"])
      [] OTHER -> Leaves("success", props)

Delete == \E answer \in Answers :
    /\ Exchange("delete")
    /\ step = 1 => props.service_account = "object"
    /\ IF objects[Kind] # "absent" /\ answer # "dropped"
       THEN \E left \in {"absent", "terminating"} :
                objects' = [objects EXCEPT ![Kind] = left]
       ELSE UNCHANGED objects
    /\ IF answer = "ok" THEN AfterDelete(objects[Kind] # "absent") ELSE Fails
    /\ Charge(answer)
    /\ UNCHANGED filled

-----------------------------------------------------------------------------
(* The engine and the cluster.                                             *)

MayStart(o) ==
    CASE o = "create" -> stage \in {"uninitialized", "stopped"}
      [] o = "delete" -> stage \in {"started", "broken"}
      [] OTHER        -> stage = "started"

Start(o) ==
    /\ op = "none" /\ MayStart(o)
    /\ op' = o /\ step' = 1
    /\ stage' = CASE o = "create" -> "starting"
                  [] o = "delete" -> "stopping"
                  [] OTHER        -> stage
    /\ overlap' = IF o = "create"
                  THEN \E k \in Kinds : objects[k] = "terminating" ELSE overlap
    /\ UNCHANGED <<objects, filled, props, saved, budget>>

Retry ==
    /\ op # "none" /\ step = 0
    /\ Goto(1, saved)
    /\ UNCHANGED <<objects, filled, budget>>

Exhaust ==
    /\ op # "none" /\ step = 0 /\ CanExhaust
    /\ Leaves("exhausted", props)
    /\ UNCHANGED <<objects, filled, budget>>

\* These operations are not resumable: the engine gives the operation up, and
\* what the attempt had not saved is gone.
Crash ==
    /\ op # "none" /\ step > 0
    /\ budget.crashes > 0
    /\ Leaves("crashed", saved)
    /\ budget' = [budget EXCEPT !.crashes = @ - 1]
    /\ UNCHANGED <<objects, filled>>

\* The token controller fills the secret of a service account, and deletes it
\* with the service account.
FillSecret ==
    /\ objects["secret"] = "present" /\ objects["service_account"] # "absent"
    /\ ~filled /\ filled' = TRUE
    /\ UNCHANGED <<objects, stage, op, step, props, saved, overlap, budget>>

CollectSecret ==
    /\ objects["secret"] = "present" /\ objects["service_account"] = "absent"
    /\ objects' = [objects EXCEPT !["secret"] = "absent"]
    /\ UNCHANGED <<filled, stage, op, step, props, saved, overlap, budget>>

Finalize(k) ==
    /\ objects[k] = "terminating"
    /\ objects' = [objects EXCEPT ![k] = "absent"]
    /\ UNCHANGED <<filled, stage, op, step, props, saved, overlap, budget>>

Worker == Post \/ Get \/ NoServiceAccount \/ Delete
Cluster == FillSecret \/ CollectSecret \/ \E k \in Kinds : Finalize(k)

Next ==
    \/ Worker \/ Retry \/ Exhaust \/ Crash \/ Cluster
    \/ \E o \in Ops : Start(o)

Spec == Init /\ [][Next]_vars

\* The worker runs, the engine retries, the cluster's controllers do their work.
Fairness ==
    /\ WF_vars(Worker) /\ WF_vars(Retry)
    /\ WF_vars(FillSecret) /\ WF_vars(CollectSecret)
    /\ \A k \in Kinds : WF_vars(Finalize(k))

FairSpec == Spec /\ Fairness

-----------------------------------------------------------------------------
(* Properties.                                                             *)

Stages == {"uninitialized", "starting", "started", "stopping", "stopped",
           "broken"}
PropsType == [service_account : {"unset", "object", "other"}, token : BOOLEAN]

\* Every variable has the type its declaration says, and the worker is within
\* the plan of its operation.
TypeOK ==
    /\ objects \in [Kinds -> {"absent", "present", "terminating"}]
    /\ filled \in BOOLEAN /\ overlap \in BOOLEAN
    /\ stage \in Stages
    /\ op \in Ops \cup {"none"}
    /\ step \in 0 .. 7 /\ (op = "none" => step = 0)
    /\ op # "none" => step <= Len(Plan(op))
    /\ props \in PropsType /\ saved \in PropsType
    /\ budget \in [faults : Nat, crashes : Nat]

\* A node that connects to a started shared cluster finds its token
\* (get_client_config takes it without asking), whatever exchanges of poststart,
\* pull and check_status failed and whenever their worker crashed.
ConnectedWhenStarted == stage = "started" => saved.token

\* The token of a started shared cluster works: the three resources are there,
\* unless the create met what a delete had not finished with.
UsableWhenStarted ==
    stage = "started" /\ ~overlap =>
        filled /\ \A k \in Kinds : objects[k] = "present"

\* A stop that succeeds leaves no resource behind, however often its exchanges
\* failed and whatever an earlier operation left.
NothingLeftBehind ==
    stage = "stopped" => \A k \in Kinds : objects[k] # "present"

\* A create ends, with a token or broken.
CreateEnds == op = "create" ~> op # "create"

\* A delete ends: it "ignores" the 404 of what an earlier attempt has deleted
\* (log message of resource_delete_from_payload).
DeleteEnds == op = "delete" ~> op # "delete"
=============================================================================
