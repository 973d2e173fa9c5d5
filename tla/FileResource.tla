----------------------------- MODULE FileResource -----------------------------
(***************************************************************************)
(* One node instance of a type that defines resources in files             *)
(* (FileDefinedResource and MultipleFileDefinedResources) and the worker   *)
(* that runs its operations.  An operation goes through the definitions of *)
(* the files in order; what fails starts again with the first.             *)
(*                                                                         *)
(* The runtime properties hold one response per path of a definition and a *)
(* list of stored definitions.  The delete does not trust the file it is   *)
(* given, which a deployment update may have changed: it looks for what was *)
(* stored, takes it out together with the adjacent entries of the same     *)
(* file, and puts back what is not gone yet.                               *)
(***************************************************************************)
EXTENDS Sequences, Naturals, FiniteSets, Functions, ResourcePolicy,
        KubernetesApi

CONSTANTS
    Kinds, Names,     \* an object of the cluster is a kind and a name
    Paths,            \* of definitions: the file, with its index in the file
    Layouts,          \* what the node's files may say: lists of definitions
    Near,             \* <<p, q>>: the path q contains the name of p's file
    Yaml,             \* paths with one ".yaml" in them
    Protected,        \* objects that carry the pvc-protection finalizer
    Typed,            \* kinds whose responses say api_version, not apiVersion
    Preexisting,      \* objects that may be there before the node is
    Policies,         \* node properties to consider
    Ops,              \* operations the workflows run
    MaxFaults,        \* failed exchanges with the API server
    MaxOthers,        \* changes by other clients of the cluster
    MaxCrashes,       \* crashes of the worker
    MaxRedefinitions  \* deployment updates that change the files

Keys == [kind : Kinds, name : Names]

\* A definition with its path, as an operation comes to it.
Definition == [path : Paths, key : Keys]

ASSUME LayoutsAssumption ==
    /\ Layouts \subseteq Seq(Definition) \ {<<>>}
    /\ \A l \in Layouts : \A i, j \in DOMAIN l : l[i].path = l[j].path => i = j
ASSUME PathsAssumption == Near \subseteq Paths \X Paths /\ Yaml \subseteq Paths
ASSUME ObjectsAssumption ==
    /\ IsFiniteSet(Keys)
    /\ Protected \subseteq Keys /\ Preexisting \subseteq Keys
    /\ Typed \subseteq Kinds
ASSUME PoliciesAssumption == Policies \subseteq Policy
AllOps == {"create", "read", "update", "heal", "delete"}
ASSUME OpsAssumption == Ops \subseteq AllOps
ASSUME BoundsAssumption ==
    /\ MaxFaults \in Nat /\ MaxOthers \in Nat
    /\ MaxCrashes \in Nat /\ MaxRedefinitions \in Nat

VARIABLES
    objects,     \* the cluster
    finalizers,  \* objects with the pvc-protection finalizer
    policy,      \* properties of the node, fixed
    layout,      \* definitions of the node's files, changed by Redefine
    stage,       \* of the node instance
    outcome,     \* how the last operation ended, "none" while one runs
    op,          \* operation under way, or "none"
    pc,          \* next step of the operation
    turn,        \* place in the layout
    retried,     \* ctx.operation.retry_number > 0
    props,       \* runtime properties
    local,       \* what the task on this definition remembers
    frames,      \* calls of _file_resource_delete, the innermost first
    budget       \* what is left of the bounds

cluster == <<objects, finalizers>>
node == <<policy, layout>>
vars == <<cluster, node, stage, outcome, op, pc, turn, retried, props, local,
          frames, budget>>

\* current: current_state is truthy; response: the entry to store, its phase
\* for the status check.
NoKey == [kind |-> "none", name |-> "none"]
NoEntry == [key |-> NoKey, typed |-> FALSE]
NoLocal == [current |-> FALSE, response |-> NoEntry, phase |-> "absent"]

Foreign == [phase |-> "ready", owner |-> "foreign", content |-> "foreign"]

Init ==
    /\ policy \in Policies /\ layout \in Layouts
    /\ objects \in {o \in [Keys -> {Missing, Foreign}] :
                       \A k \in Keys : Exists(o[k]) => k \in Preexisting}
    /\ finalizers = {k \in Protected : Exists(objects[k])}
    /\ stage = "uninitialized" /\ outcome = "none"
    /\ op = "none" /\ pc = "idle" /\ turn = 1 /\ retried = FALSE
    /\ props = [stored |-> <<>>, defs |-> <<>>]
    /\ local = NoLocal /\ frames = <<>>
    /\ budget = [faults |-> MaxFaults, others |-> MaxOthers,
                 crashes |-> MaxCrashes, redefinitions |-> MaxRedefinitions]

Path == layout[turn].path
Key == layout[turn].key

-----------------------------------------------------------------------------
(* The runtime properties.  stored, kubernetes: an entry per path; defs,   *)
(* __resource_definitions: stored definitions, of which the model keeps    *)
(* kind and name.                                                          *)

Occurs(k, defs) == \E i \in DOMAIN defs : defs[i] = k

\* A bug for StoreDefinition: no look for the definition in the list.
AppendsDefinition(defs, k) == Append(defs, k)

\* store_resource_definition
StoreDefinition(defs, k) == IF Occurs(k, defs) THEN defs ELSE Append(defs, k)

With(stored, p, e) == [q \in DOMAIN stored \cup {p} |->
                          IF q = p THEN e ELSE stored[q]]

\* A bug for StoreResult: the index in the file is left out of the path.
StoreUnderFirst(ps, p, e) ==
    [stored |-> With(ps.stored, layout[1].path, e),
     defs |-> StoreDefinition(ps.defs, e.key)]

\* store_result_for_retrieve_id
StoreResult(ps, p, e) ==
    [stored |-> With(ps.stored, p, e), defs |-> StoreDefinition(ps.defs, e.key)]

\* The orders in which the members of a set may come.
Orders(S) == {s \in [1 .. Cardinality(S) -> S] :
                  \A i, j \in DOMAIN s : s[i] = s[j] => i = j}

\* It is called for each of the adjacent entries, in the order of a dictionary.
StoreAll(ps, entries) ==
    LET new == {entries[p].key : p \in DOMAIN entries} \ Range(ps.defs)
    IN {[stored |-> [q \in DOMAIN ps.stored \cup DOMAIN entries |->
                         IF q \in DOMAIN entries THEN entries[q]
                         ELSE ps.stored[q]],
         defs |-> ps.defs \o order] : order \in Orders(new)}

\* remove_resource_definition, on a list where a definition occurs once.
RemoveDefinition(defs, k) ==
    IF Occurs(k, defs)
    THEN LET i == CHOOSE j \in DOMAIN defs : defs[j] = k
         IN SubSeq(defs, 1, i - 1) \o SubSeq(defs, i + 1, Len(defs))
    ELSE defs

\* The list without the entry that pop() takes.
Popped(defs) == IF defs = <<>> THEN defs ELSE SubSeq(defs, 1, Len(defs) - 1)

\* retrieve_last_create_path: the entry at the path, or else one that matches
\* the last stored definition, or else whichever comes last.
Candidates ==
    LET matching == {q \in DOMAIN props.stored :
                        props.stored[q].key = props.defs[Len(props.defs)]}
    IN IF Path \in DOMAIN props.stored THEN {Path}
       ELSE IF props.defs = <<>> THEN {}
       ELSE IF matching # {} THEN matching
       ELSE DOMAIN props.stored

-----------------------------------------------------------------------------
(* How an attempt begins, goes on and ends.                                *)

FirstStep(o) == IF o \in {"create", "delete"} THEN "check" ELSE "call"

Begin(o) ==
    /\ op' = o /\ pc' = FirstStep(o) /\ turn' = 1
    /\ local' = NoLocal /\ frames' = <<>>
    /\ UNCHANGED <<cluster, node, props>>

Goto(step, l) ==
    /\ pc' = step /\ local' = l
    /\ UNCHANGED <<node, stage, outcome, op, turn, retried, props, frames>>

\* A RecoverableError or an OperationRetry, from however deep it is raised.
Recoverable(p) ==
    /\ pc' = "retry" /\ props' = p
    /\ local' = NoLocal /\ frames' = <<>> /\ turn' = 1
    /\ UNCHANGED <<node, stage, outcome, op, retried>>

StageAfter(result) ==
    CASE op = "create" /\ result = "success" -> "created"
      [] op = "delete" /\ result = "success" -> "deleted"
      [] op = "create" /\ result # "success" -> "broken"
      [] OTHER                               -> stage

End(result, p) ==
    /\ op' = "none" /\ pc' = "idle" /\ turn' = 1 /\ retried' = FALSE
    /\ outcome' = result /\ stage' = StageAfter(result) /\ props' = p
    /\ local' = NoLocal /\ frames' = <<>>
    /\ UNCHANGED node

\* The task is done with this definition: the next one, or the end.
Proceed(p) ==
    IF turn < Len(layout)
    THEN /\ turn' = turn + 1 /\ pc' = FirstStep(op) /\ props' = p
         /\ local' = NoLocal /\ frames' = <<>>
         /\ UNCHANGED <<node, stage, outcome, op, retried>>
    ELSE End("success", p)

-----------------------------------------------------------------------------
(* One exchange with the API server, as in BlueprintResource.              *)

Answers == {"ok"} \cup (IF budget.faults > 0 THEN {"dropped", "lost"} ELSE {})

Charge(answer) ==
    IF answer = "ok" THEN UNCHANGED budget
    ELSE budget' = [budget EXCEPT !.faults = @ - 1]

Found(answer, k) == answer = "ok" /\ Exists(objects[k])

\* A claim gets its finalizer when it is created.
Becomes(k, o) ==
    /\ objects' = [objects EXCEPT ![k] = o]
    /\ finalizers' = IF ~Exists(o) THEN finalizers \ {k}
                     ELSE IF Exists(objects[k]) THEN finalizers
                     ELSE finalizers \cup ({k} \cap Protected)

Write(answer, k, outcomes) ==
    IF answer = "dropped" THEN UNCHANGED cluster
    ELSE \E o \in outcomes : Becomes(k, o)

\* A DELETE of an object with a finalizer only marks it.
DeletedHere(k) == {o \in Deleted(objects[k]) : k \in finalizers => o # Missing}

Answered(k, o) == [key |-> k, typed |-> k.kind \in Typed]

-----------------------------------------------------------------------------
(* The engine.                                                             *)

MayStart(o) ==
    CASE o = "create" -> stage \in {"uninitialized", "deleted"}
      [] o = "delete" -> stage \in {"created", "broken"}
      [] OTHER        -> stage = "created"

Start(o) ==
    /\ op = "none" /\ MayStart(o)
    /\ Begin(o)
    /\ stage' = CASE o = "create" -> "creating"
                  [] o = "delete" -> "deleting"
                  [] OTHER        -> stage
    /\ outcome' = "none"
    /\ UNCHANGED <<retried, budget>>

Retry ==
    /\ pc = "retry"
    /\ Begin(op)
    /\ retried' = TRUE
    /\ UNCHANGED <<stage, outcome, budget>>

CrashAndResume ==
    /\ pc \notin {"idle", "retry"}
    /\ budget.crashes > 0
    /\ Begin(op)
    /\ budget' = [budget EXCEPT !.crashes = @ - 1]
    /\ UNCHANGED <<stage, outcome, retried>>

\* A deployment update gives the node other files.
Redefine(l) ==
    /\ op = "none" /\ l # layout
    /\ budget.redefinitions > 0
    /\ layout' = l
    /\ budget' = [budget EXCEPT !.redefinitions = @ - 1]
    /\ UNCHANGED <<cluster, policy, stage, outcome, op, pc, turn, retried,
                   props, local, frames>>

-----------------------------------------------------------------------------
(* Create, read, update and the heal.                                      *)

\* Their decorator looks at the stored entry and what it decides is not used:
\* the create looks at the live object and decides again.  An object that is
\* not to be created is stored as the check saw it, and None cannot be stored.
CreateCheck == \E answer \in Answers :
    /\ pc = "check" /\ op = "create"
    /\ Charge(answer)
    /\ LET exists == Found(answer, Key)
       IN IF PerformOnExisting(policy, exists) THEN Goto("post", local)
          ELSE IF exists
          THEN Goto("store", [local EXCEPT !.response =
                                  Answered(Key, objects[Key])])
          ELSE Recoverable(props)
    /\ UNCHANGED cluster

\* A conflict is an error like any other here.
CreateCall == \E answer \in Answers :
    /\ pc = "post"
    /\ Write(answer, Key, {Posted(objects[Key])})
    /\ Charge(answer)
    /\ IF answer = "ok" /\ ~Exists(objects[Key])
       THEN Goto("store", [local EXCEPT !.response =
                               Answered(Key, Posted(objects[Key]))])
       ELSE Recoverable(props)

UpdateCall == \E answer \in Answers :
    /\ pc = "call" /\ op = "update"
    /\ Write(answer, Key, {Patched(objects[Key])})
    /\ Charge(answer)
    /\ IF Found(answer, Key)
       THEN Goto("store", [local EXCEPT !.response =
                               Answered(Key, Patched(objects[Key]))])
       ELSE Recoverable(props)

\* The read looks for the stored entry first, by retrieve_last_create_path, and
\* gives up when there is neither an entry at its path nor a stored definition.
ReadCall == \E answer \in Answers :
    /\ pc = "call" /\ op = "read"
    /\ IF Path \notin DOMAIN props.stored /\ props.defs = <<>>
       THEN End("unresolved", props) /\ UNCHANGED budget
       ELSE IF Path \notin DOMAIN props.stored /\ ~(Candidates \subseteq Yaml)
       THEN Recoverable(props) /\ UNCHANGED budget
       ELSE /\ Charge(answer)
            /\ IF Found(answer, Key)
               THEN Goto("store",
                         [local EXCEPT !.response = Answered(Key, objects[Key]),
                                       !.phase = objects[Key].phase])
               ELSE Recoverable(props)
    /\ UNCHANGED cluster

\* store_result_for_retrieve_id, and the status check of a read, which ignores
\* a falsy answer.
Store ==
    /\ pc = "store"
    /\ LET kept  == StoreResult(props, Path, local.response)
           ready == Ready(policy, local.phase)
       IN CASE op = "read" /\ ready = "retry" -> Recoverable(kept)
            [] op = "read" /\ ready = "fatal" -> End("bad_status", kept)
            [] OTHER                          -> Proceed(kept)
    /\ UNCHANGED <<cluster, budget>>

\* The check_status of a heal, which recreates on its first attempt.
HealCall == \E answer \in Answers :
    /\ pc = "call" /\ op = "heal"
    /\ Charge(answer)
    /\ LET ready == Ready(policy, objects[Key].phase)
       IN CASE Found(answer, Key) /\ ready = "yes"   -> Proceed(props)
            [] Found(answer, Key) /\ ready = "fatal" -> End("bad_status", props)
            [] ~Found(answer, Key) /\ ~retried       -> Goto("recreate", local)
            [] OTHER                                 -> Recoverable(props)
    /\ UNCHANGED cluster

RecreateCall == \E answer \in Answers :
    /\ pc = "recreate"
    /\ Write(answer, Key, {Posted(objects[Key])})
    /\ Charge(answer)
    /\ IF answer = "ok" /\ Exists(objects[Key]) THEN End("conflict", props)
       ELSE Recoverable(props)

-----------------------------------------------------------------------------
(* file_resource_delete.  frames[1] is the call of _file_resource_delete   *)
(* under way: key is its definition, kind that of its mapping, adjacent    *)
(* the entries it took out, todo those it still has to call itself for.    *)

NoEntries == <<>>
Frame == Head(frames)
Target == [kind |-> Frame.kind, name |-> Frame.key.name]

DeleteCheck == \E answer \in Answers :
    /\ pc = "check" /\ op = "delete"
    /\ Charge(answer)
    /\ Goto("resolve", [local EXCEPT !.current = Found(answer, Key)])
    /\ UNCHANGED cluster

\* A call for the definition of k with the mapping of m, which is of the kind
\* of k except in the calls made for adjacent entries.
Calling(k, m) == [key |-> k, kind |-> m, adjacent |-> NoEntries, todo |-> {}]

Enter(callers, frame, ps) ==
    /\ frames' = <<frame>> \o callers
    /\ pc' = "read" /\ props' = ps
    /\ UNCHANGED <<cluster, node, stage, outcome, op, turn, retried, local,
                   budget>>

\* The entries that go with the one at q: same file, another object.
AdjacentTo(q) == {a \in DOMAIN props.stored \ {q} :
                     /\ <<q, a>> \in Near
                     /\ props.stored[a].key # props.stored[q].key}

\* What it leaves of the list: the last one is taken to look for an entry.
DefsAfterLookup ==
    IF Path \in DOMAIN props.stored THEN props.defs ELSE Popped(props.defs)

\* The entry at q and its adjacent ones are taken out and saved, before
\* anything is asked of the API server.  A path that is not of one ".yaml"
\* cannot be unpacked.
ResolveByEntry(callers, q) ==
    LET gone == {q} \cup AdjacentTo(q)
    IN IF q \notin Yaml
       THEN Recoverable([props EXCEPT !.defs = DefsAfterLookup])
            /\ UNCHANGED <<cluster, budget>>
       ELSE Enter(callers,
                  [Calling(props.stored[q].key, props.stored[q].key.kind)
                       EXCEPT !.adjacent = Restrict(props.stored,
                                                    AdjacentTo(q))],
                  [stored |-> Restrict(props.stored,
                                       DOMAIN props.stored \ gone),
                   defs |-> DefsAfterLookup])

\* A bug for StoredOrProvided: nothing takes the place of a missing stored one.
StoredOnly(defs, k, m) ==
    {IF defs # <<>> THEN Calling(defs[Len(defs)], defs[Len(defs)].kind)
     ELSE Calling(NoKey, m)}

\* retrieve_stored_resource: the last of the stored definitions left, with its own
\* mapping, if it may replace the provided one and differs from it.  Two of the
\* same object can be equal or differ in their metadata, which is not modelled:
\* either may be.
StoredOrProvided(defs, k, m) ==
    LET last == defs[Len(defs)]
    IN IF policy.allow_node_redefinition /\ defs # <<>>
       THEN {Calling(last, last.kind)} \cup
            (IF last = k THEN {Calling(k, m)} ELSE {})
       ELSE {Calling(k, m)}

ResolveByDefinition(callers, k, m) ==
    \E frame \in StoredOrProvided(DefsAfterLookup, k, m) :
        Enter(callers, frame,
              [props EXCEPT !.defs = RemoveDefinition(Popped(DefsAfterLookup),
                                                      frame.key)])

Resolve(callers, k, m) ==
    \/ \E q \in Candidates : ResolveByEntry(callers, q)
    \/ Candidates = {} /\ ResolveByDefinition(callers, k, m)

ResolveProvided == pc = "resolve" /\ Resolve(<<>>, Key, Key.kind)

\* A call returns: to the one that made it, or to the decorator, which removes
\* the entry of the path, or all of them if that one is not there.
Return ==
    IF Len(frames) > 1
    THEN /\ frames' = Tail(frames) /\ pc' = "adjacent"
         /\ UNCHANGED <<node, stage, outcome, op, turn, retried, props, local>>
    ELSE Proceed(
        IF ~local.current THEN props
        ELSE IF Path \in DOMAIN props.stored
        THEN [props EXCEPT !.stored = Restrict(@, DOMAIN @ \ {Path})]
        ELSE [props EXCEPT !.stored = NoEntries])

\* 404 is good news, unless there are adjacent entries to deal with: those that
\* say api_version get calls of their own.
ReadForDelete == \E answer \in Answers :
    /\ pc = "read"
    /\ Charge(answer)
    /\ CASE answer # "ok"         -> Recoverable(props)
         [] Found(answer, Target) -> Goto("exists", local)
         [] OTHER ->
            IF Frame.adjacent = NoEntries THEN Return
            ELSE /\ frames' = [frames EXCEPT ![1].todo =
                        {a \in DOMAIN Frame.adjacent : Frame.adjacent[a].typed}]
                 /\ pc' = "adjacent"
                 /\ UNCHANGED <<node, stage, outcome, op, turn, retried, props,
                                local>>
    /\ UNCHANGED cluster

\* _file_resource_delete calls itself for an adjacent entry, with the mapping of
\* its own definition and not of the entry's.
CallAdjacent(a) ==
    /\ pc = "adjacent" /\ a \in Frame.todo
    /\ Resolve([frames EXCEPT ![1].todo = @ \ {a}],
               Frame.adjacent[a].key, Frame.key.kind)

\* Only when all its calls have returned are the adjacent entries put back.
PutAdjacentBack ==
    /\ pc = "adjacent" /\ Frame.todo = {}
    /\ \E ps \in StoreAll(props, Frame.adjacent) : Recoverable(ps)
    /\ UNCHANGED <<cluster, budget>>

\* A bug for AfterResponse: claims are deleted like anything else.
IgnoresFinalizers == Goto("putback", local)

\* The response says whether the object has the finalizer; an object that may
\* not be deleted is its own response.
AfterResponse == Goto(IF Target \in finalizers THEN "patch" ELSE "putback",
                      local)

\* _do_resource_delete, as in BlueprintResource.
CheckExists == \E answer \in Answers :
    /\ pc = "exists"
    /\ Charge(answer)
    /\ IF PerformOnDelete(policy, Found(answer, Target))
       THEN Goto("delete", local) ELSE AfterResponse
    /\ UNCHANGED cluster

\* The handler of its errors looks for "(404)" in an exception, which is a
\* TypeError, so that a missing object is an error too.
DeleteCall == \E answer \in Answers :
    /\ pc = "delete"
    /\ Write(answer, Target, DeletedHere(Target))
    /\ Charge(answer)
    /\ IF Found(answer, Target) THEN AfterResponse ELSE Recoverable(props)

\* prepare_pvc_delete, which ignores its errors, whatever __perform_task says.
PatchClaim == \E answer \in Answers :
    /\ pc = "patch"
    /\ Charge(answer)
    /\ IF answer = "dropped" THEN UNCHANGED cluster
       ELSE /\ objects' = [objects EXCEPT ![Target] = Patched(@)]
            /\ finalizers' = finalizers \ {Target}
    /\ Goto("putback", local)

\* A bug for PutsBack: the DELETE is taken for the end of the object.
TakesDeleteForEnd == FALSE

\* __perform_task after the DELETE: handle_delete_resource gets the definition.
PutsBack == PerformOnDelete(policy, TRUE)

\* What was deleted is put back with its adjacent entries, at the path of the
\* definition under way, for the next attempt to find it gone.
PutBack ==
    /\ pc = "putback"
    /\ LET kept == StoreResult(props, Path, [key |-> Frame.key, typed |-> FALSE])
       IN IF PutsBack
          THEN \E ps \in StoreAll(kept, Frame.adjacent) : Recoverable(ps)
          ELSE IF Frame.adjacent # NoEntries
          THEN \E ps \in StoreAll(props, Frame.adjacent) : Recoverable(ps)
          ELSE Return
    /\ UNCHANGED <<cluster, budget>>

-----------------------------------------------------------------------------
(* The rest of the world.                                                  *)

\* A controller finishes starting the object, or deleting it.
Controller(k) ==
    /\ \/ \E o \in Settled(objects[k]) : Becomes(k, o)
       \/ k \notin finalizers /\ \E o \in Finalized(objects[k]) : Becomes(k, o)
    /\ UNCHANGED <<node, stage, outcome, op, pc, turn, retried, props, local,
                   frames, budget>>

\* No pod uses the claim any more.
Unprotect(k) ==
    /\ k \in finalizers /\ objects[k].phase = "terminating"
    /\ finalizers' = finalizers \ {k}
    /\ UNCHANGED <<objects, node, stage, outcome, op, pc, turn, retried, props,
                   local, frames, budget>>

\* Another client of the cluster creates, edits or deletes the object.
OtherClient(k) ==
    /\ budget.others > 0
    /\ \E o \in ChangedByOthers(objects[k]) :
           (k \in finalizers => Exists(o)) /\ Becomes(k, o)
    /\ budget' = [budget EXCEPT !.others = @ - 1]
    /\ UNCHANGED <<node, stage, outcome, op, pc, turn, retried, props, local,
                   frames>>

Worker ==
    \/ CreateCheck \/ CreateCall \/ UpdateCall \/ ReadCall \/ Store
    \/ HealCall \/ RecreateCall
    \/ DeleteCheck \/ ResolveProvided \/ ReadForDelete
    \/ \E a \in Paths : CallAdjacent(a)
    \/ PutAdjacentBack \/ CheckExists \/ DeleteCall \/ PatchClaim \/ PutBack

Engine == Retry \/ \E o \in Ops : Start(o)

World ==
    \/ \E k \in Keys : Controller(k) \/ Unprotect(k) \/ OtherClient(k)
    \/ \E l \in Layouts : Redefine(l)

Next == Worker \/ Engine \/ CrashAndResume \/ World

Spec == Init /\ [][Next]_vars

\* The worker runs, the engine retries what asks for a retry, and as long as
\* controllers have something to do one of them does it.
Fairness ==
    /\ WF_vars(Worker)
    /\ WF_vars(Retry)
    /\ WF_vars(\E k \in Keys : Controller(k))

FairSpec == Spec /\ Fairness

-----------------------------------------------------------------------------
(* Properties.                                                             *)

Entry == [key : Keys, typed : BOOLEAN]
Entries == UNION {[S -> Entry] : S \in SUBSET Paths}

PropsType == [stored : Entries, defs : Seq(Keys)]
LocalType == [current : BOOLEAN, response : Entry \cup {NoEntry},
              phase : Phases \cup {"absent"}]
FrameType == [key : Keys, kind : Kinds, adjacent : Entries,
              todo : SUBSET Paths]

Stages == {"uninitialized", "creating", "created", "deleting", "deleted",
           "broken"}
Outcomes == {"none", "success", "conflict", "bad_status", "unresolved"}
DeleteSteps == {"read", "exists", "delete", "patch", "putback", "adjacent"}
Steps == {"idle", "retry", "check", "call", "post", "store", "recreate",
          "resolve"} \cup DeleteSteps

WorldTypeOK ==
    /\ objects \in [Keys -> Objects] /\ finalizers \in SUBSET Keys
    /\ policy \in Policies /\ layout \in Layouts
    /\ budget \in [faults : Nat, others : Nat, crashes : Nat,
                   redefinitions : Nat]

InstanceTypeOK ==
    /\ stage \in Stages /\ outcome \in Outcomes
    /\ op \in AllOps \cup {"none"} /\ pc \in Steps
    /\ turn \in DOMAIN layout /\ retried \in BOOLEAN
    /\ props \in PropsType /\ local \in LocalType /\ frames \in Seq(FrameType)

\* Each step belongs to certain operations, and what it uses is there.
StepOK ==
    /\ op = "none" <=> pc = "idle"
    /\ pc \in {"check", "post", "store", "recreate", "call", "resolve"} =>
          op \in (CASE pc = "check"    -> {"create", "delete"}
                    [] pc = "post"     -> {"create"}
                    [] pc = "store"    -> {"create", "read", "update"}
                    [] pc = "recreate" -> {"heal"}
                    [] pc = "call"     -> {"read", "update", "heal"}
                    [] OTHER           -> {"delete"})
    /\ pc = "store" => local.response \in Entry /\ local.response.key = Key
    /\ pc \in DeleteSteps <=> frames # <<>>
    /\ pc \in DeleteSteps => op = "delete"
    /\ \A i \in DOMAIN frames : frames[i].todo \subseteq DOMAIN frames[i].adjacent
    /\ pc \in {"idle", "retry"} => turn = 1
    /\ op = "create" <=> stage = "creating"
    /\ op = "delete" <=> stage = "deleting"
    /\ op \notin {"none", "create", "delete"} => stage = "created"

\* Every variable has the type its declaration says, and a step of the worker,
\* however deep the delete has called itself, finds what it uses.
TypeOK == WorldTypeOK /\ InstanceTypeOK /\ StepOK

NeverRedefined == budget.redefinitions = MaxRedefinitions

NoOtherClient == budget.others = MaxOthers

\* All definitions are of one file, which is what their paths have in common, and
\* of different objects.
OneFile ==
    \A i, j \in DOMAIN layout : i # j =>
        /\ <<layout[i].path, layout[j].path>> \in Near
        /\ layout[i].path \in Yaml <=> layout[j].path \in Yaml
        /\ layout[i].key # layout[j].key

\* The node is to unmake what it makes.
Answerable == ~policy.use_external_resource /\ OneFile /\ NeverRedefined

Made == {k \in Keys : objects[k].owner = "plugin"}

\* With one file whose definitions never changed, an uninstall of a node that
\* neither uses external resources nor allows a redefinition has left nothing the
\* plugin created: not what a failed attempt had taken out of the runtime
\* properties and lost, and not what several calls of _file_resource_delete
\* passed on to each other.
NothingLeftBehind ==
    stage = "deleted" /\ Answerable /\ ~policy.allow_node_redefinition =>
        Made = {}

\* Where a redefinition is allowed, a delete replaces the definition it is given by
\* the last stored one (retrieve_stored_resource), so that a turn can pass with the
\* object of another definition gone.  One or two definitions are all dealt with
\* however the attempts fail.  (With three, a failure that loses the entries can
\* leave an object behind: the turn of its own definition goes to another's.  And
\* an object that another client deletes can hide one that was lost.)
FewLeaveNothingBehind ==
    stage = "deleted" /\ Answerable /\ policy.allow_node_redefinition
    /\ Len(layout) <= 2 /\ NoOtherClient =>
        Made = {}

\* As long as nothing fails, so are any number of definitions, although an inner
\* call can be given the kind of the outer definition and find nothing.
UnfailedLeaveNothingBehind ==
    stage = "deleted" /\ Answerable /\ policy.allow_node_redefinition
    /\ NoOtherClient /\ budget.faults = MaxFaults /\ budget.crashes = MaxCrashes =>
        Made = {}

\* The nodes of which the first or the second is said.
Committed ==
    Answerable
    /\ (policy.allow_node_redefinition => Len(layout) <= 2 /\ NoOtherClient)

\* An installed node has stored an entry for every definition, at the path the
\* next operation will look under, and its definition, although a create that
\* failed half way began again with the first definition.
EntriesCoverLayout ==
    op = "none" /\ stage = "created" /\ NeverRedefined =>
        \A i \in DOMAIN layout :
            /\ layout[i].path \in DOMAIN props.stored
            /\ props.stored[layout[i].path].key = layout[i].key
            /\ Occurs(layout[i].key, props.defs)

\* No definition is stored twice, however often the delete puts one back.
DefsUnique ==
    \A i, j \in DOMAIN props.defs : props.defs[i] = props.defs[j] => i = j

Promise == INSTANCE ManagedNode WITH keeps <- ~Committed, made <- Made

\* A node with one file keeps the promise of ManagedNode, until a deployment
\* update changes the file, or another client interferes with a node that allows
\* a redefinition: no step of a delete, however deep in its calls and whatever
\* mapping it was given, makes an object, and a success leaves none.
ImplementsManagedNode == Promise!Spec

Undisturbed ==
    budget.faults = MaxFaults /\ budget.others = MaxOthers

\* As long as no exchange failed and nobody else interfered, no step of the
\* worker removes an object, or marks it for removal, for a node that uses
\* external resources.
ExternalSurvives ==
    [][\A k \in Keys :
          policy.use_external_resource /\ Undisturbed /\ pc' # pc
          /\ Exists(objects[k])
          => objects'[k].phase = objects[k].phase]_vars

\* A create ends, with success or for good.
CreateEnds == op = "create" ~> op # "create"

\* An uninstall ends, whatever it has to put back and do again, claims in use
\* included.
DeleteEnds == op = "delete" ~> op # "delete"

-----------------------------------------------------------------------------
(* What the documentation and comments say, and the code does not do.      *)

\* "We want to delete the resources from the file that was created last with
\* this node template." (operations.py, _file_resource_delete): what a delete
\* removes is an object of the node's files.
OnlyFileDeleted ==
    [][\A k \in Keys :
          op = "delete" /\ pc' # pc /\ objects'[k].phase # objects[k].phase
          => \E i \in DOMAIN layout : layout[i].key = k]_vars
=============================================================================
