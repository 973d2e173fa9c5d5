------------------------- MODULE MCBlueprintResource -------------------------
(* Finite instances of BlueprintResource for TLC.                           *)
EXTENDS BlueprintResource

\* A node of a kind with neither a status class nor a mapping problem.
Plain == [use_external_resource |-> FALSE, create_if_missing |-> FALSE,
          use_if_exists |-> TRUE, allow_node_redefinition |-> TRUE,
          validate_resource_status |-> FALSE, checked |-> FALSE,
          mapped |-> TRUE, custom |-> FALSE]

\* Whose resource it is, for ordinary and custom nodes.
OwnershipPolicies ==
    {[Plain EXCEPT !.use_external_resource = e, !.create_if_missing = c,
                   !.use_if_exists = u, !.custom = x] :
        e, c, u, x \in BOOLEAN}

\* What the kind and the redefinition property change.
KindPolicies ==
    {p \in {[Plain EXCEPT !.allow_node_redefinition = r, !.mapped = m,
                          !.validate_resource_status = v, !.checked = v,
                          !.custom = x] : r, v, m, x \in BOOLEAN} :
        p.mapped \/ p.custom}

\* Nodes whose operations need no help from outside to end: an absent object is
\* always theirs to create.
TerminationPolicies ==
    {p \in OwnershipPolicies : p.use_external_resource => p.create_if_missing}

LifecycleOps == {"create", "delete"}

\* For what the documentation says of an external resource.
ExternalPolicies == {[Plain EXCEPT !.use_external_resource = TRUE]}
=============================================================================
