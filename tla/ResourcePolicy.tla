--------------------------- MODULE ResourcePolicy ---------------------------
(***************************************************************************)
(* What the node properties make an operation decide: whether a task may   *)
(* write to the cluster, whether a kind is known to the mapping table, and *)
(* what the status of a response means.  Everything here is a function of  *)
(* the properties of the node and of one observation of the cluster.       *)
(***************************************************************************)

\* The properties of a node.  custom and mapped describe the node type and
\* the kind: custom is a CustomBlueprintDefinedResource, mapped says that the
\* kind has a row in the mapping table, checked that status_mapping has a
\* class for it.
Policy == [use_external_resource    : BOOLEAN,
           create_if_missing        : BOOLEAN,
           use_if_exists            : BOOLEAN,
           allow_node_redefinition  : BOOLEAN,
           validate_resource_status : BOOLEAN,
           checked                  : BOOLEAN,
           mapped                   : BOOLEAN,
           custom                   : BOOLEAN]

\* Bugs for PerformOnExisting: no check for the object, and an object that may
\* not be used is created again.
CreatesAnyway(p, exists) == ~p.use_external_resource \/ p.create_if_missing
CreatesWhenUnusable(p, exists) ==
    /\ ~exists \/ ~p.use_if_exists
    /\ ~p.use_external_resource \/ p.create_if_missing

\* __perform_task as handle_existing_resource leaves it: may the task write?
PerformOnExisting(p, exists) ==
    LET expected  == p.use_external_resource
        no_create == \/ exists /\ expected
                     \/ exists /\ ~expected /\ p.use_if_exists
        create    == \/ ~exists /\ ~expected
                     \/ ~exists /\ expected /\ p.create_if_missing
    IN ~no_create /\ create

\* A bug for PerformOnDelete: use_external_resource is forgotten.
DeletesAnyway(p, exists) == TRUE

\* __perform_task as handle_delete_resource leaves it.
PerformOnDelete(p, exists) == ~(exists /\ p.use_external_resource)

\* Operations whose mapping comes from the kind and not from api_mapping: all
\* of an ordinary node, and the inherited poststart, pull and update of a
\* custom one.
MappedByKind(p, op) == ~p.custom \/ op \in {"read", "update"}

\* What ready() answers for a live object in the given phase: "yes", "no"
\* (the value is falsy), "retry" (OperationRetry) or "fatal"
\* (NonRecoverableError).  With validate_resource_status off, ready() falls
\* off its end and returns None.
Ready(p, phase) ==
    IF ~p.checked THEN "yes"
    ELSE IF ~p.validate_resource_status THEN "no"
    ELSE CASE phase = "pending" -> "retry"
           [] phase = "failed"  -> "fatal"
           [] OTHER             -> "yes"
=============================================================================
