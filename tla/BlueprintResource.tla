-------------------------- MODULE BlueprintResource --------------------------
(***************************************************************************)
(* One node instance of a type that defines a single resource in the       *)
(* blueprint (BlueprintDefinedResource and CustomBlueprintDefinedResource) *)
(* and the worker that runs its operations.                                *)
(*                                                                         *)
(* A step of the worker is one exchange with the API server, followed by   *)
(* what the code computes and saves before the next one, so that other     *)
(* clients of the cluster, the controllers, lost answers and crashes come  *)
(* between any two exchanges.                                              *)
(***************************************************************************)
EXTENDS Sequences, Integers, FiniteSets, ResourcePolicy, KubernetesApi

CONSTANTS
    Names,            \* names a definition may give the resource
    Policies,         \* node properties to consider
    Ops,              \* operations the workflows run
    CanExhaust,       \* may the engine run out of retries?
    MaxFaults,        \* failed exchanges with the API server
    MaxOthers,        \* changes by other clients of the cluster
    MaxCrashes,       \* crashes of the worker
    MaxRedefinitions  \* deployment updates that change the definition

ASSUME NamesAssumption == Names # {}
ASSUME PoliciesAssumption == Policies \subseteq Policy
AllOps == {"create", "read", "update", "check_status", "heal",
           "check_drift", "delete"}
ASSUME OpsAssumption == Ops \subseteq AllOps
ASSUME BoundsAssumption ==
    /\ CanExhaust \in BOOLEAN
    /\ MaxFaults \in Nat /\ MaxOthers \in Nat
    /\ MaxCrashes \in Nat /\ MaxRedefinitions \in Nat

VARIABLES
    objects,     \* the cluster
    policy,      \* properties of the node, fixed
    definition,  \* name in the node's definition, changed by Redefine
    stage,       \* of the node instance
    outcome,     \* how the last operation ended, "none" while one runs
    op,          \* operation under way, or "none"
    pc,          \* next exchange of the operation
    retried,     \* ctx.operation.retry_number > 0
    props,       \* runtime properties: the code saves them whenever it has
                 \* changed them and before the next exchange
    local,       \* what the attempt under way remembers
    disturbed,   \* history: a fault or another client hit this attempt
    budget       \* what is left of the bounds

node == <<policy, definition, stage, outcome>>
task == <<op, pc, retried>>
vars == <<objects, node, task, props, local, disturbed, budget>>

NoRecord == [name |-> "none", phase |-> "absent", content |-> "none"]

\* A response as it is stored: what the object was when it was read.
Seen(n, o) == [name |-> n, phase |-> o.phase, content |-> o.content]

\* current: current_state is truthy; perform: __perform_task; target: the
\* resource_definition after retrieve_stored_resource; response: read_result,
\* or the result to store.
NoLocal == [current |-> FALSE, perform |-> FALSE, target |-> "none",
            response |-> NoRecord]

Init ==
    /\ policy \in Policies
    /\ definition \in Names
    /\ objects \in [Names -> {Missing, [phase |-> "ready", owner |-> "foreign",
                                        content |-> "foreign"]}]
    /\ stage = "uninitialized" /\ outcome = "none"
    /\ op = "none" /\ pc = "idle" /\ retried = FALSE
    /\ props = [record |-> NoRecord, defs |-> <<>>]
    /\ local = NoLocal
    /\ disturbed = FALSE
    /\ budget = [faults |-> MaxFaults, others |-> MaxOthers,
                 crashes |-> MaxCrashes, redefinitions |-> MaxRedefinitions]

-----------------------------------------------------------------------------
(* The runtime properties: the last response, kubernetes, and the stored   *)
(* definitions, __resource_definitions, of which the model keeps names.    *)

\* A bug for StoreDefinition: no look for the definition in the list.
AppendsDefinition(defs, n) == Append(defs, n)

\* store_resource_definition: a definition with the name is replaced in its
\* place, a new one goes to the end.
StoreDefinition(defs, n) ==
    IF \E i \in DOMAIN defs : defs[i] = n THEN defs ELSE Append(defs, n)

StoreResult(r) ==
    [record |-> r, defs |-> StoreDefinition(props.defs, r.name)]

\* remove_resource_definition, on a list where a name occurs once.
RemoveDefinition(defs, n) ==
    IF \E i \in DOMAIN defs : defs[i] = n
    THEN LET i == CHOOSE j \in DOMAIN defs : defs[j] = n
         IN SubSeq(defs, 1, i - 1) \o SubSeq(defs, i + 1, Len(defs))
    ELSE defs

\* The list without the entry that pop() takes.
Popped(defs) == IF defs = <<>> THEN defs ELSE SubSeq(defs, 1, Len(defs) - 1)

\* A stored definition carries the metadata the server answered, so it differs
\* from the provided one whenever there is one.
UsesStored == policy.allow_node_redefinition /\ props.defs # <<>>

\* A bug for StoredTarget: nothing takes the place of a missing stored one.
StoredOnly == IF props.defs # <<>> THEN props.defs[Len(props.defs)] ELSE "none"

StoredTarget == IF UsesStored THEN props.defs[Len(props.defs)] ELSE definition
RemapFails == UsesStored /\ ~policy.mapped

-----------------------------------------------------------------------------
(* How an attempt begins, goes on and ends.                                *)

\* custom_check_status and custom_check_drift look at the live state first,
\* as every other operation does; the ordinary ones do not.
FirstStep(o) ==
    IF o \in {"check_status", "heal", "check_drift"} /\ ~policy.custom
    THEN "call" ELSE "check"

Begin(o) ==
    /\ op' = o /\ pc' = FirstStep(o)
    /\ local' = NoLocal /\ disturbed' = FALSE
    /\ UNCHANGED <<objects, policy, definition, props>>

\* On to the next exchange.
Goto(answer, step, l, p) ==
    /\ pc' = step
    /\ local' = l /\ props' = p
    /\ disturbed' = (disturbed \/ answer # "ok")
    /\ UNCHANGED <<node, op, retried>>

\* A RecoverableError or an OperationRetry.  However an attempt ends, the
\* dispatcher saves the runtime properties p it leaves.
Recoverable(p) ==
    /\ pc' = "retry"
    /\ local' = NoLocal /\ props' = p /\ disturbed' = FALSE
    /\ UNCHANGED <<node, op, retried>>

\* The state of the node instance after an operation.
StageAfter(result) ==
    CASE op = "create" /\ result = "success" -> "created"
      [] op = "delete" /\ result = "success" -> "deleted"
      [] op \in {"create", "delete"} /\ result # "success" -> "broken"
      [] OTHER                               -> stage

\* The operation returns, or fails for good.
End(result, p) ==
    /\ op' = "none" /\ pc' = "idle" /\ retried' = FALSE
    /\ outcome' = result /\ stage' = StageAfter(result)
    /\ local' = NoLocal /\ props' = p /\ disturbed' = FALSE
    /\ UNCHANGED <<policy, definition>>

-----------------------------------------------------------------------------
(* One exchange with the API server: it is answered, the request never     *)
(* arrives, or it takes effect and the answer is lost.  The client turns   *)
(* the last two, and every error status, into KuberentesApiOperationError. *)

Answers == {"ok"} \cup (IF budget.faults > 0 THEN {"dropped", "lost"} ELSE {})

Charge(answer) ==
    IF answer = "ok" THEN UNCHANGED budget
    ELSE budget' = [budget EXCEPT !.faults = @ - 1]

\* A read: it finds nothing when it is not answered.
Found(answer, n) == answer = "ok" /\ Exists(objects[n])

\* A write whose effect on the object named n is one of the outcomes.
Write(answer, n, outcomes) ==
    IF answer = "dropped" THEN UNCHANGED objects
    ELSE \E o \in outcomes : objects' = [objects EXCEPT ![n] = o]

-----------------------------------------------------------------------------
(* The engine.                                                             *)

MayStart(o) ==
    CASE o = "create" -> stage \in {"uninitialized", "deleted"}
      [] o = "delete" -> stage \in {"created", "broken"}
      [] OTHER        -> stage = "created"

Start(o) ==
    /\ op = "none" /\ MayStart(o)
    /\ Begin(o)
    /\ stage' = CASE o = "create" -> "creating"
                  [] o = "delete" -> "deleting"
                  [] OTHER        -> stage
    /\ outcome' = "none"
    /\ UNCHANGED <<retried, budget>>

Retry ==
    /\ pc = "retry"
    /\ Begin(op)
    /\ retried' = TRUE
    /\ UNCHANGED <<stage, outcome, budget>>

Exhaust ==
    /\ pc = "retry" /\ CanExhaust
    /\ End("exhausted", props)
    /\ UNCHANGED <<objects, budget>>

\* The operation is resumable: the engine runs it again from the start, with
\* the runtime properties the manager holds.
CrashAndResume ==
    /\ pc \notin {"idle", "retry"}
    /\ budget.crashes > 0
    /\ Begin(op)
    /\ budget' = [budget EXCEPT !.crashes = @ - 1]
    /\ UNCHANGED <<stage, outcome, retried>>

\* A deployment update gives the node another definition.
Redefine(n) ==
    /\ op = "none" /\ n # definition
    /\ budget.redefinitions > 0
    /\ definition' = n
    /\ budget' = [budget EXCEPT !.redefinitions = @ - 1]
    /\ UNCHANGED <<objects, policy, stage, outcome, task, props, local,
                   disturbed>>

-----------------------------------------------------------------------------
(* The shell of every operation, and the operations that do not delete.    *)

\* resource_task turns a missing mapping into a NonRecoverableError.
MappingFails ==
    /\ pc = FirstStep(op) /\ ~policy.mapped /\ MappedByKind(policy, op)
    /\ End("no_mapping", props)
    /\ UNCHANGED <<objects, budget>>

Mapped == policy.mapped \/ ~MappedByKind(policy, op)

\* resource_state_function and handle_existing_resource.
CheckState == \E answer \in Answers :
    /\ pc = "check" /\ Mapped
    /\ LET exists == Found(answer, definition)
       IN Goto(answer, "call",
               [local EXCEPT !.current = exists,
                             !.perform = PerformOnExisting(policy, exists)],
               props)
    /\ Charge(answer)
    /\ UNCHANGED objects

CreateCall == \E answer \in Answers :
    /\ pc = "call" /\ op = "create" /\ local.perform
    /\ Write(answer, definition, {Posted(objects[definition])})
    /\ Charge(answer)
    /\ IF answer = "ok" /\ ~Exists(objects[definition])
       THEN Goto(answer, "store",
                 [local EXCEPT !.response =
                      Seen(definition, Posted(objects[definition]))], props)
       ELSE IF answer = "ok" /\ ~policy.custom
       THEN End("conflict", props)
       ELSE Recoverable(props)

\* The read of resource_read, and the one create makes instead of the POST.
ReadCall == \E answer \in Answers :
    /\ pc = "call"
    /\ op = "read" \/ (op = "create" /\ ~local.perform)
    /\ Mapped
    /\ Charge(answer)
    /\ IF Found(answer, definition)
       THEN Goto(answer, "store",
                 [local EXCEPT !.response =
                      Seen(definition, objects[definition])], props)
       ELSE Recoverable(props)
    /\ UNCHANGED objects

\* The update ignores __perform_task.
UpdateCall == \E answer \in Answers :
    /\ pc = "call" /\ op = "update"
    /\ Write(answer, definition, {Patched(objects[definition])})
    /\ Charge(answer)
    /\ IF Found(answer, definition)
       THEN Goto(answer, "store",
                 [local EXCEPT !.response =
                      Seen(definition, Patched(objects[definition]))], props)
       ELSE Recoverable(props)

\* store_result_for_retrieve_id, and what the operation does after it: a read
\* checks the status but ignores a falsy answer, a delete asks for a retry.
Store ==
    /\ pc = "store"
    /\ LET stored == StoreResult(local.response)
           ready  == Ready(policy, local.response.phase)
       IN CASE op = "delete"                    -> Recoverable(stored)
            [] op = "read" /\ ready = "retry"   -> Recoverable(stored)
            [] op = "read" /\ ready = "fatal"   -> End("bad_status", stored)
            [] OTHER                            -> End("success", stored)
    /\ UNCHANGED <<objects, budget>>

\* _resource_check_status.  Only the first attempt of a heal recreates.
CheckStatusCall == \E answer \in Answers :
    /\ pc = "call" /\ op \in {"check_status", "heal"} /\ Mapped
    /\ Charge(answer)
    /\ LET ready == Ready(policy, objects[definition].phase)
       IN CASE Found(answer, definition) /\ ready = "yes" ->
                   End("success", props)
            [] Found(answer, definition) /\ ready = "fatal" ->
                   End("bad_status", props)
            [] ~Found(answer, definition) /\ op = "heal" /\ ~retried ->
                   Goto(answer, "recreate", [local EXCEPT !.perform = TRUE],
                        props)
            [] OTHER -> Recoverable(props)
    /\ UNCHANGED objects

\* The heal forces __perform_task, so that use_external_resource does not
\* matter, and it does not store the result.
RecreateCall == \E answer \in Answers :
    /\ pc = "recreate"
    /\ Write(answer, definition, {Posted(objects[definition])})
    /\ Charge(answer)
    /\ IF answer = "ok" /\ Exists(objects[definition])
       THEN End("conflict", props)
       ELSE Recoverable(props)

CheckDriftCall == \E answer \in Answers :
    /\ pc = "call" /\ op = "check_drift" /\ Mapped
    /\ Charge(answer)
    /\ IF /\ Found(answer, definition)
          /\ props.record.content = objects[definition].content
       THEN End("success", props)
       ELSE Recoverable(props)
    /\ UNCHANGED objects

-----------------------------------------------------------------------------
(* resource_delete and custom_resource_delete.                             *)

\* The operation returns; the decorator clears the stored response when the
\* live check at the start of this attempt had found the object.
FinishDelete ==
    End("success",
        IF local.current THEN [props EXCEPT !.record = NoRecord] ELSE props)

\* The read of the provided definition: 404 ends the operation; an answer
\* takes the last stored definition out of the runtime properties, saves them
\* and makes it the target.
ReadForDelete == \E answer \in Answers :
    /\ pc = "call" /\ op = "delete"
    /\ Charge(answer)
    /\ CASE answer # "ok" -> Recoverable(props)
         [] answer = "ok" /\ ~Exists(objects[definition]) -> FinishDelete
         [] Found(answer, definition) /\ RemapFails ->
                End("no_mapping", [props EXCEPT !.defs = Popped(@)])
         [] OTHER ->
                Goto(answer, "exists",
                     [local EXCEPT !.target = StoredTarget,
                                   !.response = Seen(definition,
                                                     objects[definition])],
                     [props EXCEPT !.defs = RemoveDefinition(Popped(@),
                                                             StoredTarget)])
    /\ UNCHANGED objects

\* Bugs for AfterDelete: the DELETE is taken for the end of the object, and the
\* delete always asks for a retry.
ReturnsAtOnce(answer, mayWrite) == FinishDelete
RetriesAlways(answer, mayWrite) == Goto(answer, "store", local, props)

\* The end of both deletes: it returns, or stores the read result and asks for
\* a retry.
AfterDelete(answer, mayWrite) ==
    IF mayWrite
    THEN Goto(answer, "store", [local EXCEPT !.perform = TRUE], props)
    ELSE FinishDelete

\* The custom delete looks at the target again before it decides; the ordinary
\* one decides by its read result, which was an object.
AfterCall(answer) ==
    IF policy.custom THEN Goto(answer, "recheck", local, props)
    ELSE AfterDelete(answer, PerformOnDelete(policy, TRUE))

\* _do_resource_delete looks at the target itself, and takes any error for "no
\* object".  An object it may not delete is its answer.
CheckExists == \E answer \in Answers :
    /\ pc = "exists"
    /\ Charge(answer)
    /\ IF PerformOnDelete(policy, Found(answer, local.target))
       THEN Goto(answer, "delete", [local EXCEPT !.perform = TRUE], props)
       ELSE AfterCall(answer)
    /\ UNCHANGED objects

DeleteCall == \E answer \in Answers :
    /\ pc = "delete"
    /\ Write(answer, local.target, Deleted(objects[local.target]))
    /\ Charge(answer)
    /\ IF Found(answer, local.target) THEN AfterCall(answer)
       ELSE Recoverable(props)

Recheck == \E answer \in Answers :
    /\ pc = "recheck"
    /\ Charge(answer)
    /\ AfterDelete(answer, PerformOnDelete(policy, Found(answer, local.target)))
    /\ UNCHANGED objects

-----------------------------------------------------------------------------
(* The rest of the world.                                                  *)

\* A controller finishes starting the object, or deleting it.
Controller(n) ==
    /\ \E o \in Settled(objects[n]) \cup Finalized(objects[n]) :
           objects' = [objects EXCEPT ![n] = o]
    /\ UNCHANGED <<node, task, props, local, disturbed, budget>>

\* Another client of the cluster creates, edits or deletes the object.
OtherClient(n) ==
    /\ budget.others > 0
    /\ \E o \in ChangedByOthers(objects[n]) :
           objects' = [objects EXCEPT ![n] = o]
    /\ disturbed' = (pc \notin {"idle", "retry"})
    /\ budget' = [budget EXCEPT !.others = @ - 1]
    /\ UNCHANGED <<node, task, props, local>>

Worker ==
    \/ MappingFails \/ CheckState \/ CreateCall \/ ReadCall \/ UpdateCall
    \/ Store \/ CheckStatusCall \/ RecreateCall \/ CheckDriftCall
    \/ ReadForDelete \/ CheckExists \/ DeleteCall \/ Recheck

Engine == Retry \/ Exhaust \/ \E o \in Ops : Start(o)

World == \E n \in Names : Redefine(n) \/ Controller(n) \/ OtherClient(n)

Next == Worker \/ Engine \/ CrashAndResume \/ World

Spec == Init /\ [][Next]_vars

\* The worker runs, the engine retries what asks for a retry, and controllers
\* do their work.  Nothing is assumed of faults and crashes, which the bounds
\* make finite, nor of the workflows a user starts.
Fairness ==
    /\ WF_vars(Worker)
    /\ WF_vars(Retry)
    /\ \A n \in Names : WF_vars(Controller(n))

FairSpec == Spec /\ Fairness

-----------------------------------------------------------------------------
(* Properties.                                                             *)

Records == {NoRecord} \cup
           [name : Names, phase : Phases, content : Contents]

Stages == {"uninitialized", "creating", "created", "deleting", "deleted",
           "broken"}
Outcomes == {"none", "success", "no_mapping", "conflict", "bad_status",
             "exhausted"}
Steps == {"idle", "retry", "check", "call", "store", "recreate", "exists",
          "delete", "recheck"}

PropsType == [record : Records, defs : Seq(Names)]

LocalType == [current : BOOLEAN, perform : BOOLEAN,
              target : Names \cup {"none"}, response : Records]

WorldTypeOK ==
    /\ objects \in [Names -> Objects]
    /\ budget \in [faults : Nat, others : Nat, crashes : Nat,
                   redefinitions : Nat]

InstanceTypeOK ==
    /\ policy \in Policies /\ definition \in Names
    /\ stage \in Stages /\ outcome \in Outcomes
    /\ op \in AllOps \cup {"none"} /\ pc \in Steps /\ retried \in BOOLEAN
    /\ props \in PropsType /\ local \in LocalType
    /\ disturbed \in BOOLEAN

\* Each exchange belongs to certain operations, and what it uses is there.
StepOK ==
    /\ op = "none" <=> pc = "idle"
    /\ pc = "store" => /\ op \in {"create", "read", "update", "delete"}
                       /\ local.response # NoRecord
    /\ pc = "recreate" => op = "heal"
    /\ pc \in {"exists", "delete", "recheck"} =>
          op = "delete" /\ local.target \in Names /\ local.response # NoRecord
    /\ op = "create" <=> stage = "creating"
    /\ op = "delete" <=> stage = "deleting"
    /\ op \notin {"none", "create", "delete"} => stage = "created"

\* Every variable has the type its declaration says, and a step of the worker
\* finds what it uses.
TypeOK == WorldTypeOK /\ InstanceTypeOK /\ StepOK

\* A node that does not use an external resource and was uninstalled has left
\* nothing it created in the cluster, whatever answers were lost and whenever
\* the worker crashed (resource_delete asks for retries until a read of the
\* resource answers 404).
NothingLeftBehind ==
    stage = "deleted" /\ ~policy.use_external_resource =>
        \A n \in Names : objects[n].owner # "plugin"

\* The objects in the cluster that the plugin created.
Owned == {n \in Names : objects[n].owner = "plugin"}

\* With deployment updates that change the definition an uninstall leaves behind
\* what was made under the earlier ones: the read of the present name decides
\* before the stored definition is looked at.  It leaves no more than that, one
\* object for each update at most, also if the node was created again in between,
\* an answer was lost or the worker crashed.
RedefinitionsLeaveOneEach ==
    stage = "deleted" /\ ~policy.use_external_resource =>
        Cardinality(Owned) <= MaxRedefinitions - budget.redefinitions

\* In an attempt nothing disturbed, a worker about to POST knows there is no
\* such object, and so does one about to DELETE for a node that uses an external
\* resource: what it saw one or more exchanges ago still holds.
SureOfAbsence ==
    /\ pc = "call" /\ op = "create" /\ local.perform =>
          /\ disturbed \/ ~Exists(objects[definition])
          /\ policy.use_external_resource => policy.create_if_missing
    /\ pc = "recreate" => disturbed \/ ~Exists(objects[definition])
    /\ pc = "delete" /\ policy.use_external_resource =>
          disturbed \/ ~Exists(objects[local.target])

\* With use_external_resource no operation but update changes or deletes an
\* object, and one that is absent is created only with create_if_missing or by
\* a heal, in every attempt that no failed exchange and no other client
\* disturbed.
ExternalUntouched ==
    [][\A n \in Names :
          /\ policy.use_external_resource /\ ~disturbed
          /\ op \notin {"none", "update"} /\ pc' # pc
          /\ objects'[n] # objects[n]
          => /\ ~Exists(objects[n])
             /\ policy.create_if_missing \/ op = "heal"]_vars

\* A create that may use what exists, or a heal, fails because "the resource
\* already exists" only when another client or a failed exchange came between its
\* check and its POST.  With use_if_exists off the documentation wants the failure.
ConflictOnlyWhenDisturbed ==
    [][/\ outcome' = "conflict" /\ outcome # "conflict"
       /\ policy.use_if_exists \/ op = "heal"
       => disturbed]_vars

\* Between operations the stored response and the stored definitions of an
\* installed node speak of the same resource, and no definition is stored
\* twice.
LedgerAgrees ==
    /\ op = "none" /\ stage = "created" =>
          /\ props.record # NoRecord
          /\ \E i \in DOMAIN props.defs : props.defs[i] = props.record.name
    /\ \A i, j \in DOMAIN props.defs : props.defs[i] = props.defs[j] => i = j

Promise == INSTANCE ManagedNode WITH
    Keys <- Names, keeps <- policy.use_external_resource,
    made <- Owned

\* A node whose definition stays the same keeps the promise of ManagedNode:
\* whatever is repeated, lost or taken over, it makes objects only while it is
\* being created or installed, and an uninstall succeeds only when all are gone.
ImplementsManagedNode == Promise!Spec

\* A create ends, with success or for good.
CreateEnds == op = "create" ~> op # "create"

\* An uninstall ends, however often its DELETE has to be repeated.
DeleteEnds == op = "delete" ~> op # "delete"

-----------------------------------------------------------------------------
(* What the documentation and comments say, and the code does not do.      *)

\* use_external_resource "performs read operations on create and delete instead
\* of performing create and delete" (CHANGELOG.txt, 2.3.0).
ReadOnlyWhenExternal ==
    [][policy.use_external_resource /\ op \in {"create", "delete"} /\ pc' # pc
       => objects' = objects]_vars
=============================================================================
