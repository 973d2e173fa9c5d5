---------------------------- MODULE MCFileResource ----------------------------
(* Finite instances of FileResource for TLC.                                *)
EXTENDS FileResource

Plain == [use_external_resource |-> FALSE, create_if_missing |-> FALSE,
          use_if_exists |-> TRUE, allow_node_redefinition |-> FALSE,
          validate_resource_status |-> FALSE, checked |-> FALSE,
          mapped |-> TRUE, custom |-> FALSE]

\* Nodes whose operations need no help from outside to end.
FilePolicies ==
    {Plain,
     [Plain EXCEPT !.allow_node_redefinition = TRUE,
                   !.checked = TRUE, !.validate_resource_status = TRUE],
     [Plain EXCEPT !.use_external_resource = TRUE, !.create_if_missing = TRUE]}

RedefinablePolicies ==
    {[Plain EXCEPT !.allow_node_redefinition = r] : r \in BOOLEAN}
PlainPolicies == {Plain}

At(p, k, n) == [path |-> p, key |-> [kind |-> k, name |-> n]]

\* Two definitions of one file, one of them a claim.
Claims == <<At("f#0", "Pod", "a"), At("f#1", "Claim", "b")>>
\* After a deployment update that gave the file another name and took out the claim.
Renamed == <<At("n#0", "Pod", "a")>>
\* Three definitions of one file.
Three == <<At("f#0", "Pod", "a"), At("f#1", "Claim", "a"),
           At("f#2", "Pod", "b")>>
LifecycleOps == {"create", "delete"}

RenamedLayouts == {Claims, Renamed}
ThreeLayouts == {Three}
ClaimsLayouts == {Claims}

PathsOfF == {"f#0", "f#1", "f#2"}
PathsOfN == {"n#0"}
AllPaths == PathsOfF \cup PathsOfN
SameFile == (PathsOfF \X PathsOfF) \cup (PathsOfN \X PathsOfN)
FirstPod == {[kind |-> "Pod", name |-> "a"]}
Pods == {[kind |-> "Pod", name |-> n] : n \in {"a", "b"}}
Claim == {[kind |-> "Claim", name |-> n] : n \in {"a", "b"}}
=============================================================================
