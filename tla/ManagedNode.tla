----------------------------- MODULE ManagedNode -----------------------------
(***************************************************************************)
(* What a node that manages objects of a cluster promises, without the     *)
(* exchanges, the retries and the runtime properties that make it so: when *)
(* it makes objects, and that an uninstall that succeeds has unmade them   *)
(* all.  BlueprintResource and FileResource implement it.                  *)
(***************************************************************************)
CONSTANT Keys   \* names of the objects

VARIABLES
    stage,   \* of the node instance
    keeps,   \* the node is excused from unmaking what it made
    made     \* objects in the cluster that the node created

vars == <<stage, keeps, made>>

Init == stage = "uninitialized" /\ keeps \in BOOLEAN /\ made = {}

\* The install workflow and its end.
Install == stage \in {"uninitialized", "deleted"} /\ stage' = "creating"
Installed == stage = "creating" /\ stage' \in {"created", "broken"}

\* Only a success ends an uninstall; what fails for good leaves it broken.
Uninstall == stage \in {"created", "broken"} /\ stage' = "deleting"
UninstallFailed == stage = "deleting" /\ stage' = "broken"

Uninstalled ==
    /\ stage = "deleting" /\ stage' = "deleted"
    /\ keeps \/ made = {}
    /\ made' \subseteq made /\ UNCHANGED keeps

\* Objects are made one by one, by a create or by the heal of an installed
\* node, and never once a removal has begun.
Make(k) ==
    /\ stage \in {"creating", "created"}
    /\ made' = made \cup {k}
    /\ UNCHANGED <<stage, keeps>>

\* Objects go, by the node's doing or anybody else's.
Unmake(k) == made' = made \ {k} /\ UNCHANGED <<stage, keeps>>

\* The node gets another definition, or its objects are no longer its own.
Excuse == keeps' = TRUE /\ made' \subseteq made /\ UNCHANGED stage

Next ==
    \/ /\ Install \/ Installed \/ Uninstall \/ UninstallFailed
       /\ UNCHANGED <<keeps, made>>
    \/ Uninstalled \/ Excuse
    \/ \E k \in Keys : Make(k) \/ Unmake(k)

Spec == Init /\ [][Next]_vars
=============================================================================
