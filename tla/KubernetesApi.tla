---------------------------- MODULE KubernetesApi ----------------------------
(***************************************************************************)
(* The part of the Kubernetes API server the plugin relies on: named       *)
(* objects of one kind and namespace, and what one accepted request does   *)
(* to an object.  The plugin only ever sees an answer or an exception.     *)
(***************************************************************************)

\* Who created the object that bears a name.
Owners == {"none", "plugin", "foreign"}
Phases == {"pending", "ready", "failed", "terminating"}
\* What the object says: as the blueprint defines it, as the update operation
\* patched it, or as somebody else wrote it.
Contents == {"blueprint", "updated", "foreign"}

Missing == [phase |-> "absent", owner |-> "none", content |-> "none"]

Objects == {Missing} \cup
           [phase : Phases, owner : Owners \ {"none"}, content : Contents]

Exists(o) == o.phase # "absent"

\* POST: a new object, or 409 and no change.
Posted(o) ==
    IF Exists(o) THEN o
    ELSE [phase |-> "pending", owner |-> "plugin", content |-> "blueprint"]

\* PATCH: the merged definition, or 404 and no change.
Patched(o) == IF Exists(o) THEN [o EXCEPT !.content = "updated"] ELSE o

\* DELETE: the object is marked for foreground deletion or is gone at once;
\* 404 and no change when there is none.
Deleted(o) ==
    IF Exists(o) THEN {Missing, [o EXCEPT !.phase = "terminating"]} ELSE {o}

\* What other clients and the controllers of the cluster do to an object.
Settled(o) ==
    IF o.phase = "pending"
    THEN {[o EXCEPT !.phase = "ready"], [o EXCEPT !.phase = "failed"]}
    ELSE {}

Finalized(o) == IF o.phase = "terminating" THEN {Missing} ELSE {}

ChangedByOthers(o) ==
    IF Exists(o)
    THEN Deleted(o) \cup {[o EXCEPT !.content = "foreign"]}
    ELSE {[phase |-> "ready", owner |-> "foreign", content |-> "foreign"]}
==============================================================================
