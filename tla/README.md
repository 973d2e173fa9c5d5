# Verification of the Cloudify Kubernetes plugin

TLA+ modules, TLC runs and TLAPS proofs for the plugin in `src/`. The plugin
turns the lifecycle operations of Cloudify node instances into requests to a
Kubernetes API server. It has no threads; what makes it hard is that an
operation is several exchanges with a server other clients use too, that any
exchange may fail with or without effect, that the engine runs a failed
operation again from the start, and that all it remembers between attempts are
the runtime properties of the node instance. Shared clusters add executions of
several deployments that wait for each other.

Contents: 1 inventory, 2 modules and code, 3 runs, 4 bounds, fairness and
abstractions, 5 theorems, 6 disagreements found, 7 what is left out, 8 what could
come next.

## 1. Inventory

| Component | Source | State | Operations | Hard behaviour |
|---|---|---|---|---|
| Blueprint-defined resource | `tasks/operations.py`, `tasks/api_calls.py`, `decorators.py`, `utils.py` | runtime properties `kubernetes` (last response), `__resource_definitions` (stored definitions), `__perform_task` | create, poststart, pull, update, check_status, heal, check_drift, delete; ordinary and custom | check-then-act over several exchanges, lost answers, crash between write and save, delete by repetition |
| File-defined resources | same | the same properties, with a response per path `file#i` | `file_resource_*`, `multiple_file_resource_*` | several definitions, failure half way, a delete that calls itself for adjacent resources, claims with finalizers |
| Client and request options | `k8s/client.py`, `k8s/operations.py`, `k8s/mapping.py` | the options dictionary of the node, shared by the calls of an operation | create, read, update, delete, alternates | what one call leaves in the dictionary is in the next request |
| Shared cluster token | `tasks/operations.py` (`*_token`), `decorators.py` (`nested_resource_task`), `tasks/nested_resources/tokens.py` | `service_account_response`, `secret_response`, `k8s-service-account-token`, ... | create, read, status, delete | nested resources, token controller, no resume after a crash |
| `refresh_config` | `tasks/shared_cluster.py`, `utils.py` | the execution it has started in another deployment | look up, poll, start, wait | races between the poll and the start, lost starts, timeouts, no resume |
| Workflows | `workflows.py` | none of their own | `update_resource_definition`, `refresh_and_store_token` | failure between two operations, late lookups |
| Status mapping | `k8s/status_mapping.py` | none | verdict on a response, repeated by the engine | fields left out, out of date, or never to come |
| Mapping table | `k8s/mapping.py`, `mapping_by_kind` | none | kind to API | kinds without a row |
| Connection configuration | `k8s/config.py`, `k8s/authentication.py` | none | choice of a variant | called by nothing in the plugin but unit tests |

How they interact. The engine calls an operation through its decorators:
`with_kubernetes_client` makes a client, `resource_task` fetches the definitions
and their mapping, looks at the live object or the stored entry, lets
`handle_existing_resource` decide `__perform_task` and runs the task for one
definition after the other. The task asks the client for requests; the client
writes name, namespace, body and coordinates into the options dictionary of the
node and sends what the library's method accepts. Responses that are stored carry
a status, which `status_mapping` judges. The token operations run the same payload
functions for their nested resources. A node connected to a shared cluster of
another deployment starts that cluster's poststart there with `refresh_config`,
between the executions that its users and other such nodes start.

What makes each correct:

- resource: it never destroys what it was told not to own, an uninstall leaves
  nothing of its own, operations end, the stored definitions agree with the
  stored response;
- files: the same for every object of every definition; what an attempt takes out
  of the runtime properties is not lost, and an installed node has an entry for
  each definition;
- client: a request is about the call it was made for;
- token: a started cluster has a usable token, a stopped one has left nothing;
- refresh: a success means fresh connection details; nobody fails or waits for
  ever because of what others do;
- workflows: the token that is stored is the one in the cluster, unless a
  renewal failed;
- status: "ready", which is told late, is still true of the pods, and whoever waits
  is told so.

`PROJECT.json` lists the hazards at their lines with the properties about them.

## 2. Modules and the code they model

**ManagedNode** is the abstract specification: what a node that manages objects
promises, without exchanges, retries or runtime properties. It makes objects one
by one while it is being created or is installed, and an uninstall succeeds only
when all it made are gone (`Uninstalled`). `keeps` excuses a node whose objects
are not its own (external, redefined, taken by others). `BlueprintResource` and
`FileResource` instantiate it with a refinement mapping, `Promise`, in which
`made` is the set of objects whose owner is the plugin (`Owned`, `Made`).

**ResourcePolicy** holds the decisions that are functions of the node properties
and one observation: `PerformOnExisting` (`handle_existing_resource`),
`PerformOnDelete` (`handle_delete_resource`), `MappedByKind` (which operations
look in the mapping table) and `Ready` (what `ready()` answers). `checked` says
that `status_mapping` has a class for the kind.

**KubernetesApi** is the API server as the plugin uses it (external): an object
has a phase, an owner (who created it, a fact the plugin cannot see) and a
content. A DELETE removes it at once or marks it for foreground deletion.

**BlueprintResource** composes both with one node instance and its worker.

| Model | Code |
|---|---|
| `Start`, `Retry`, `Exhaust`, `CrashAndResume` | the engine; every operation here is `resumable` |
| `Begin`, `CheckState` | `resource_task`, `_multidefinition_resource_task`: the live check and `__perform_task` |
| `CreateCall`, `ReadCall`, `UpdateCall`, `Store` | `resource_create`, `resource_read`, `resource_update` and `custom_*`; `store_result_for_retrieve_id` |
| `CheckStatusCall`, `RecreateCall` | `_resource_check_status`, which recreates on the first attempt of a heal |
| `CheckDriftCall` | `_resource_check_drift` |
| `ReadForDelete`, `CheckExists`, `DeleteCall`, `Recheck`, `Store` | `resource_delete`, `custom_resource_delete`, `_do_resource_delete`, `retrieve_stored_resource` |
| `props.record`, `props.defs` | `kubernetes`, `__resource_definitions` |
| `local` | variables of an attempt, and `__perform_task`, which each attempt sets anew |
| `Redefine` | a deployment update that changes the name |

A step of the worker is one exchange with the API server plus what the code
computes before the next. The code saves the runtime properties with `update()`
where it changes them, or the dispatcher does when the attempt ends; no exchange
lies between the change and the save, so a crash in the model loses the attempt
and keeps `props`. Here a stored definition carries the metadata of the server's
answer and the provided one that of the blueprint, so they always differ; this is
why `UsesStored` does not compare them.

**FileResource** is the same for a list of definitions (`layout`).

| Model | Code |
|---|---|
| `turn`, `Proceed`, `Path` | the loop of `_multidefinition_resource_task` and the path `file#i`; what fails begins again with the first definition |
| `props.stored`, `props.defs`, `StoreResult`, `StoreAll` | entries by path, the stored definitions, `store_result_for_retrieve_id` |
| `Candidates`, `AdjacentTo`, `ResolveByEntry`, `DefsAfterLookup` | `retrieve_last_create_path`: the entry at the path, or one that matches the last stored definition, or the last; and those of the same file |
| `ResolveByDefinition`, `RemoveDefinition` | `retrieve_stored_resource` |
| `StoredOrProvided` | its comparison (`utils.py:455`): a stored definition that equals the provided one leaves the mapping of the caller. A call for an adjacent entry provides a definition made of a stored response, which can equal a stored one or differ in metadata that is not modelled; the model allows both |
| `frames`, `Calling`, `CallAdjacent`, `Return` | calls of `_file_resource_delete`; `kind` is that of the mapping a call was given, which can differ from its definition's |
| `ReadForDelete`, `PutAdjacentBack`, `CheckExists`, `DeleteCall`, `AfterResponse`, `PutBack` | `_read_while_adjacent_resources`, `_delete_while_adjacent_resources` and the rest of `_file_resource_delete` |
| `PatchClaim`, `Unprotect`, `finalizers` | `prepare_pvc_delete`; pvc-protection of the cluster |
| `CreateCheck`, `CreateCall`, `UpdateCall`, `ReadCall`, `HealCall`, `RecreateCall` | `_file_resource_create` and the others; the file and the multiple-file types run the same code on another list |
| `Typed` | kinds whose stored responses have `api_version`; a definition put back has `apiVersion`, and the inner loop skips it |

**ClientRequests** is `CloudifyKubernetesClient`: `options` is the dictionary
all calls of an operation share, `LeftBy` what a call leaves in it, `RequestOf`
what reaches the server, `TriesNext` and `Mismatch` the loop over alternates. The
keys a call sets are `Named` and `WithBody`; `MatchNamespace`, `WithCoordinates`,
`DeleteOptions` and `Trimmed` are `match_namespace`, `set_custom_resource`,
`_prepare_delete_options_resource` and the loop in `_execute` that drops false
values. `TakesBody` says whether the library's delete method names a body
argument, which decides whether the delete options are sent at all. The library
that `requirements.txt` pins does not name it, older ones do; the runs take TRUE
and the theorems cover both.

**SharedClusterToken** is `create_token`, `read_token`, `get_token_status` and
`delete_token`. `Plan` is the order of exchanges the nested decorator and the
task make, `props.service_account` says what `service_account_response` holds
(the object, or the answer of a delete that replaced it), `saved` is what the
manager holds. These operations are not resumable: `Crash` ends the operation
with what was saved. `FillSecret` and `CollectSecret` are the token controller.

**SharedClusterRefresh** is the shared deployment with everybody who starts
executions in it.

| Model | Code |
|---|---|
| `Begin`, `Lookup`, `Poll`, `StartExecution`, `Verify` | `refresh_config` step by step: `get_kubernetes_cluster_node_instance_id`, `poll_with_timeout`, `execute_workflow`, `verify_execution_state` |
| `Refused`, `StartLost`, `VerifyTimeout`, `CallFails`, `Crash`, `Retry` | what can go wrong in it; the manager runs one execution per deployment and refuses a second |
| `Plan`, `RefreshAndStore` | the operations of `refresh_and_store_token`, `update_resource_definition` and `execute_operation` in their order |
| `NodeFound`, `Accepted`, `Rejected` | `lookup_node_instance`; an UPDATE that is given changes which are no dictionary |
| `Operate`, `OperationFails`, `SecretNotCreated`, `Effect` | one operation with its retries, and what it leaves in the deployment, the manager and the cluster |

Versions stand for connection details and tokens: `shared.capability`,
`shared.token`, `shared.kept`. An operation of an execution is one step here;
what happens inside is the subject of the modules above.

**StatusMapping** is the classes of `status_mapping.py` on the fields they read
(`PodReady`, `ClaimReady`, `ReplicaSetReady`, ... in `IsResourceReady`), with the
operation that is repeated until it is answered (`Poll`) and the cluster: pods are
created and started, controllers `Publish` what they see, pods and claims are
lost, and an update changes the number of pods. `shown` remembers the pods at the
last publication. `None` is a field the server leaves out because it is zero.

The `MC*` modules hold the finite instances, the `*Proofs` modules the theorems
of the module they extend; `FileDeleteProofs` continues `FileResourceProofs`, and
`FileRedefinitionProofs` continues both.

## 3. Runs

| Run | Question | Result |
|---|---|---|
| `Ownership` | Every operation, ordinary and custom nodes, all ownership properties, two faults, one other client, one crash | what is created and deleted is right, an uninstall leaves nothing, `ManagedNode` is implemented |
| `Kinds` | Deployment updates between two names and a crash; kinds with and without mapping and status class | stored response and definitions agree, an uninstall leaves at most one object per update |
| `Termination` | Fair engine, controllers and worker | create and delete end |
| `Files` | Every operation of a file with a pod and a claim; a fault, a crash, an update that renames the file and takes the claim out of it; fair engine | entries cover the file, nothing is left, with a redefinition allowed or not, creates and deletes end, `ManagedNode` is implemented |
| `ThreeInFile` | Three definitions of two kinds with a name in common; redefinition allowed or not; two faults, a crash, another client | nothing is lost between the calls of the delete where no redefinition is allowed, nor, if nothing fails, where one is |
| `Requests` | Six definitions of all kinds, two alternates, every order of calls | requests are about their own call; alternates are all tried |
| `Token` | Start, poststart, check_status, stop with three faults, two crashes, under fairness | a started cluster has a working token, a stopped one is clean, a start ends |
| `Refresh` | Two clients and two users' workflows, three inventories; a fault, a crash, a change of the connection details; fair executions and workers | refreshes are fresh, fail only for faults, and end; the stored token is the cluster's |
| `Status` | Ten kinds, two replicas, two updates, two losses; both callers | "ready" is true of the pods when it is told; the wait ends where it can |

Three more runs end with a counterexample (section 6). The properties, and what
would break each, are stated next to their definitions. The most telling ones:

- `NothingLeftBehind` (resource): whatever answers were lost and whenever the
  worker crashed, after a successful uninstall no object the plugin made is
  there. It rests on deletes being repeated until a read answers 404.
- `NothingLeftBehind` (files): the same although an attempt takes an entry and all
  adjacent ones out of the runtime properties and saves that before its first
  exchange. What a crash loses is found again by the definitions of the file,
  each of which gets its turn. It is about nodes of one file (`OneFile`) that allow no
  redefinition; where one is allowed, `FewLeaveNothingBehind` is about one or two
  definitions, `UnfailedLeaveNothingBehind` about any number as long as nothing fails,
  and section 6 says what happens beyond.
- `RedefinitionsLeaveOneEach`: a deployment update that changes the name makes the
  uninstall forget the object of the old one, and nothing else.
- `ImplementsManagedNode`: every step, of a delete that has called itself too, is
  one the abstract node may take. `keeps` excuses a file node only outside what
  `NothingLeftBehind` and `FewLeaveNothingBehind` are about (`Committed`).
- `EntriesCoverLayout`, `DefsUnique`: what is stored after a create that failed
  half way and began again.
- `SureOfAbsence`: the check an attempt made one or more exchanges ago still
  holds when it POSTs or DELETEs, unless a fault or another client came between.
- `ExternalUntouched`: in an attempt that nothing disturbed, no operation but update
  changes or deletes an external object. `ExternalSurvives` is its form for files.
- `ConflictOnlyWhenDisturbed`: a create that may use what exists, or a heal, is not
  refused as "already exists" by the plugin's own doing.
- `LedgerAgrees`: no definition is stored twice, and the response belongs to one.
- `RequestIsOwn`, `MetadataWins`: leftovers in the dictionary never win.
- `UsableWhenStarted`: a started cluster's three resources are there, unless its
  create met an unfinished deletion (`overlap`).
- `FreshWhenRefreshed`: a success is never about an older poststart, not even when
  the answer to the start was lost and another one's execution ran meanwhile.
- `BrokenOnlyByFaults`, `RefreshEnds`: a refused start sends the client back to its
  poll, and that is enough for all clients to come through.
- `KeptIsToken`: a renewal that failed is the only reason for a stored token that
  is not the cluster's.
- `ReadyMeansRunning`: the classes read what was published earlier; what they tell is
  still true of the pods, unless one was lost or others were asked for since. It
  leaves out a Deployment or DaemonSet that was never looked at (section 6).
- `WaitEnds`: the wait ends, except in the `Hopeless` states.

Each has a mutant: a changed definition under which TLC reports it violated.

## 4. Bounds, fairness, abstractions

Bounds. `MaxFaults`, `MaxOthers`, `MaxCrashes`, `MaxRedefinitions`, `MaxRefreshes`,
`MaxStarts`, `MaxRotations`, `MaxUpdates` and `MaxSetbacks` count what the
environment may still do; `Alternates` is the length of a row. One name is enough
where the definition never changes, because nothing then refers to another; two
where it does. Two faults reach a lost POST followed by a failed existence check,
and three in the token run reach a failure in each of two operations and one more.
One change by another client between a check and the act is what invalidates the
check. Two definitions in a file give a delete one adjacent entry, three let it
call itself twice and return to the same call, and the two kinds with one name are
what tells the kind of a mapping from that of a definition. The theorems of section 5
have no such bound. Six definitions contain
one of each kind that the client treats differently, and two namespaces and two
coordinates let a leftover differ from the wanted value. Two clients are enough for
one to start between the other's poll and start, and two refreshes each for a
client to meet what it left behind itself. Two replicas tell "any" from "all", and
two updates a growth from a reduction. The violation runs use the smallest bounds
that show what they show.

`disturbed` and `overlap` are history variables: they guard no action.
`disturbed` is set by a fault or another client during an attempt, `overlap` when
a create of the token begins while an object of an earlier stop is terminating;
`renewal`, `client.since` and `shown` only remember, too.

Fairness (liveness runs only): weak fairness of the worker (a running process
goes on), of `Retry` (the engine repeats a recoverable failure), of the
controllers (in `FileResource` of all of them together), and of the executions of
the shared deployment. Nothing is assumed of faults and crashes, which are finite,
nor of the operations a user starts. In
`Refresh` the fairness of a client is weak and on its steps as a whole: that its
poll is not starved is a consequence of the bounded number of executions others
start, as each of them ends. Exhausting the retries would end an operation
trivially: `Termination` forbids it (`CanExhaust = FALSE`), `FileResource` has no
such action; in `Token` it may happen but nothing makes it, so that a behaviour
that retries for ever would count against `CreateEnds`. `Termination` and `Files`
take policies under which an absent object is the node's to create; a node that
expects an external object waits for it for as long as it is missing. `Refresh` and
`Status` stop when their bounds are used up and nothing is asked any more; the
deadlock check is off there, and `RefreshEnds` and `WaitEnds` exclude that anybody
still waits.

Abstractions. Names, namespaces, paths and contents are values from small sets.
Payload text and the fields of responses are left out, except what decides
something. Drift is a difference of content. Exceptions are what the decorators
make of them: `RecoverableError` and everything unknown is a retry,
`NonRecoverableError` ends the operation. A read whose answer the code throws away
is left out of the token module and said so there. Where several entries are put
back in the order of a dictionary, every order is taken (`Orders`). `budget` is the
only variable that has no counterpart in the system at all.

## 5. Theorems

All are checked by TLAPS for every value of the constants under the assumptions
the modules name: any number of names, clients, replicas, alternates, any policies,
and any bounds on faults, crashes and other clients.

BlueprintResourceProofs:

- `TypeCorrect`: `TypeOK` is inductive by itself. Its part `StepOK` says that an
  exchange finds what it uses; the helpers on stored definitions have lemmas.
- `AbsenceHolds`: `SureOfAbsence`, inductive with `TypeOK`: controllers never make
  an absent object present, and everything else that could sets `disturbed`.
- `ExternalIsUntouched`, `ConflictNeedsDisturbance`: action properties, from the
  same invariant: a step that changes an object is a POST, PATCH or DELETE, and
  `SureOfAbsence` says what the worker knows then.
- `UninstallIsClean`: `NothingLeftBehind`, if `MaxRedefinitions = 0`. It is not
  inductive; `OwnershipInv` adds that everything the plugin owns bears the name in
  the definition, so that the 404 that ends a delete is about that object. The
  assumption cannot be dropped: section 6, "renamed".
- `RedefinitionsLeaveFew`: `RedefinitionsLeaveOneEach`, with redefinitions.
  `LeftInv` counts, at any stage, the objects that bear another name than the
  present one: a redefinition adds one at most (`LeftByRedefine`), any other step
  none (`LeftByOthers`).
- `LedgerIsRight`: `LedgerAgrees`, with redefinitions. `LedgerInv` follows the list
  through an attempt: it stays distinct (`Distinct`) under append, replacement and
  `RemoveDefinition`, and an installed node between operations has stored its
  response with its definition (`Stored`).
- `UseIfExistsDecidesNothing`: the property `use_if_exists` has no effect on
  `handle_existing_resource`.
- `BlueprintImplementsManagedNode`, the refinement, if `MaxRedefinitions = 0`.
  Initial states map to initial states; with `TypeOK` and `OwnershipInv`, each step
  maps to one of `ManagedNode` or to a stutter: a step of the cluster or a write
  changes one object (`QuietStep`), an end of an operation changes the stage
  (`EndStep`), and a delete ends well only with nothing left.

ClientRequestsProofs: `TypeCorrect`, `RequestsAreOwn`, `MetadataAlwaysWins`,
`AllAreTried`. `RequestIsOwn` is not inductive: the delete of a
ReplicationController sets no name and takes the one it finds. The invariant adds
that after a read the dictionary holds the name of the resource that was read, and
for `AllAreTried` that no method that would be served has been passed over.

SharedClusterTokenProofs: `TypeCorrect`, `StartedIsConnected`, `StartedIsUsable`,
`StopIsClean`, from one inductive invariant: operations run in their stage
(`StageOK`), a delete has removed what lies behind it in its plan
(`DeletedSoFar`), a create that met no deletion has seen what lies behind it and
nothing takes it away (`CreatedSoFar`), and the worker of a started node has the
token, so that a failed attempt cannot save its loss (`WorkerConnected`).

SharedClusterRefreshProofs: `TypeCorrect`, `RefreshIsFresh`, `TokenIsKept`,
`OnlyFaultsBreak`. The invariant adds that an execution with an owner is a poststart
(`OwnerOK`), that a client whose execution ended well already has its fresh details
(`FreshSoFar`), that `renewal` follows the execution (`RenewalOK`), and that an
execution of a client fails only by a fault (`FailedOnlyByFaults`).

StatusMappingProofs: `TypeCorrect`, `ReadyIsRunning`. The verdicts read fields that
`StatusOK` ties to `shown`, the pods at the last publication, and the property is
about `pods`; the invariant adds how the two differ while no pod is lost and no
update comes (`LateOK`).

FileResourceProofs, with deployment updates except where said:

- `TypeCorrect`: `TypeOK` is inductive. Its part `StepOK` ties the step under way to
  `frames`, and says that each waiting call still to call itself for an entry has
  that entry (`Calls` in the proof).
- `DefinitionsAreUnique`: `DefsUnique`, inductive with `TypeOK`, from one lemma per
  helper that changes the list; the one on `StoreAll` covers every order in which
  entries may be put back. That a list is finite needs finitely many objects
  (`ObjectsAssumption`).
- `InstalledIsCovered`: `EntriesCoverLayout`. `CoverInv` adds that a create has
  covered the definitions before the one it is at, and that storing a response
  overwrites the entry of no other definition: paths differ (`LayoutsAssumption`).
- `ExternalIsKept`: the action property `ExternalSurvives`, from `SureInv`: a
  worker about to DELETE for a node that uses external resources has seen, in the
  existence check of the same target, that there is nothing to delete.

FileDeleteProofs, for files of any number of definitions, any faults, crashes and
changes by other clients:

- `FileLeavesNothing`: `NothingLeftBehind`. What failures lose cannot be followed,
  so the argument is about turns: an attempt passes a turn only when it has seen
  the object of its call gone and begins again with the first otherwise. So it is
  enough that the outer call of a turn is for the turn's own definition while the
  node still has that object. `LeftInv` says that
  (`CallsInv`), that the turns behind are done with (`TurnInv`), that after the first
  one no entries are left which could lead a later turn to another definition,
  and that what the first one begins with has its own entry or none
  (`FirstFound`); `EntriesInv` keeps the entries those of the file, and `MadeInv` says
  that everything made has a definition. Inside a call for an adjacent entry no
  object is made, and it never returns to the decorator without its caller, which
  then ends the attempt.

FileRedefinitionProofs, for any number of failed exchanges and crashes:

- `FewDefinitionsLeaveNothing`: `FewLeaveNothingBehind`, one or two definitions
  where a redefinition is allowed and no other client interferes. The turns are no
  argument here, since a call may be for a stored definition instead of the one
  under way and pass its turn, and may have the mapping of the calling one. `FewInv`
  follows what is stored instead. Before a delete the stored definitions are the
  first ones of the file, in its order (`First`), so that it is known which one takes
  the place of the one under way. `BeginsWith` lists what an attempt may begin with:
  both entries (`Whole`), the second one's only (`Rest`, and `Second`, where it is at
  the first one's path), that of the last object deleted (`Single`), or none (`Lost`),
  each with the object that is gone by then. `FirstTurnCalls` and `SecondTurnCall`
  (`CallInv`) say which calls these lead to, `Passed` what the first turn leaves: the
  object still there is the one the second turn is for. The end of that turn then
  finds both gone. With three definitions a failure can leave an attempt that fits no
  such list (section 6).
- `FileImplementsManagedNode`: the refinement, from both results, `TypeOK`, `CoverInv`
  and `SureInv`: a create or a heal makes one object (`Make`), DELETEs, controllers
  and other clients unmake one, ends of operations change the stage, a delete that
  succeeds has nothing left, and a node once excused stays so.

`NothingLeftBehind` and its part of the refinement need no assumption on the number
of definitions, and none on `MaxRedefinitions`: the properties themselves are
about nodes of one file, until it changes. Where a redefinition is allowed, both
theorems here are about one or two definitions, for the reason section 6 gives,
and until another client interferes. "Every value of the constants" includes
files of any length, about which the refinement then claims nothing.

Only model-checked: liveness, and `UnfailedLeaveNothingBehind`. Liveness under
fairness, ENABLED and induction over data are beyond the prover; no module here
needs recursion. Every other invariant and every action property of the runs that
pass is a theorem.

## 6. Where the code does something else than it says

Three have a run that TLC ends with a counterexample, and an entry under
"findings".

| Run | What happens |
|---|---|
| `ExternalDeleted` | a failed existence check counts as absence, and an external object is deleted |
| `TokenDeleteStuck` | a token delete that failed half way can never be repeated |
| `WrongKindDeleted` | the delete of a file removes an object with the name of one definition and the kind of another |

The models contain more that no run is spent on:

- Ownership. `use_if_exists: false` does not make a create fail on an existing
  object (`PerformOnExisting`), although `plugin.yaml:388` says that the property is
  to use one "instead of failing"; `ConflictOnlyWhenDisturbed` says nothing of it. A heal creates a missing external object without
  `create_if_missing` (`RecreateCall`). `prepare_pvc_delete` takes the finalizer
  off a claim that is external (`PatchClaim`).
- Runtime properties. The stored response survives a successful delete, because
  the attempt that ends it saw no live object (`FinishDelete`).
- Renamed. After a deployment update that changes the name, the delete of a
  blueprint-defined resource reads the new name, gets a 404 and succeeds; the
  object of the old name stays (`ReadForDelete`). A renamed file falls back on the
  last stored definition in the place of its first one, and when that is gone the
  cleanup (`decorators.py:150`) clears the entries of all others (`Return`).
- Files. A failed DELETE raises TypeError where a 404 was to be ignored
  (`DeleteCall`). A path that does not have exactly one `.yaml`, a `.yml` file for
  one, makes each attempt of a delete fail (`ResolveByEntry`). A node with several
  files whose entries a failed read or a crash has lost falls back on stored
  definitions of another file, and an object can stay.
- Files of nodes that allow a redefinition. The two file types do not by default
  (`plugin.yaml:699-703` and `733-737`), but it may be set. `retrieve_stored_resource`
  replaces the definition it is given by the last stored one, so that a turn need not
  be about its own definition. In a call for an adjacent entry the two can be equal;
  then nothing is replaced, the mapping stays that of the calling definition, the
  read is of the wrong kind, and a 404 there ends the call with the definition taken
  off the list (`StoredOrProvided`). The definition's own turn makes up for that as
  long as nothing fails (`UnfailedLeaveNothingBehind`; four definitions were
  checked, too). Where a failure has lost the entries, each turn without an entry
  takes two stored definitions off the list and uses one, and the turns can go to
  others: one crash right after the entries were taken out (`utils.py:188`), or one
  failed exchange, is enough for an object to stay after a delete that succeeds, with
  four definitions, and with three if one is of a kind whose responses have no
  `api_version`. Another client that deletes an object can have the same effect.
- Requests. A definition without a namespace inherits that of the one before it
  (`MatchNamespace`). The default propagation policy is never sent
  (`DeleteOptions`). A grace period of zero is lost in the read before the DELETE
  (`Trimmed`). A custom kind without a row in the table fails for good in the
  operations it inherits and in its delete (`MappedByKind`, `RemapFails`).
- Status. A Deployment or DaemonSet is ready before its controller has looked at
  it, or at its last update or loss (`Publish`); `ReadyMeansRunning` leaves these out. A ReplicaSet is compared with the pods it
  has, not with those it wants. One without replicas, a StatefulSet without any and
  a Service without a load balancer are never ready; with validation off,
  check_status never succeeds (`Hopeless`).
- Workflows. The secret `kubernetes_config` is created once and never updated
  (`Effect`); nothing in the plugin reads it. The changes in the docstring of
  `update_resource_definition` are not JSON, and the parser's messages the code
  looks for are those of Python 2: they stay text, and the update fails
  (`StartUpdate`, `Accepted`). `refresh_and_store_token` looks up the node that is
  to store the token only after it replaced the secret (`NodeFound`).
- `multiple_file_resource_update` is named in `plugin.yaml` and not exported by
  `tasks/__init__.py`; the models take it as its code says.

## 7. Not modelled, and why

- `k8s/config.py`, `k8s/authentication.py` and the helpers in `utils.py` and
  `decorators.py` that only they use: nothing but unit tests calls them, the
  connection is made by the external package `cloudify_kubernetes_sdk`.
- The rows of the mapping table and the building of payload classes: data, tested
  by their unit tests.
- Cloud connections (AKS, EKS, GKE) and the comparison that finds drift: external
  packages.
- YAML parsing, templates, logging.

## 8. What could come next

1. The inside of an operation in `SharedClusterRefresh`, by composing it with
   `SharedClusterToken`.
2. Several files in one node, with a property that says which of them a failed
   delete may mix up.
3. A proof of `UnfailedLeaveNothingBehind` for any number of definitions.
