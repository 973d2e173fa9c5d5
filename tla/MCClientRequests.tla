--------------------------- MODULE MCClientRequests ---------------------------
(* Finite instances of ClientRequests for TLC.                              *)
EXTENDS ClientRequests

Plain == [name |-> "web", namespace |-> None, coordinates |-> None,
          kind |-> "known"]

\* Resources of one file: with and without a namespace of their own, custom
\* ones, a kind that nothing maps, and a ReplicationController.
MixedDefinitions ==
    {Plain,
     [Plain EXCEPT !.name = "db", !.namespace = "prod"],
     [Plain EXCEPT !.name = "crontab", !.kind = "unknown",
                   !.coordinates = "crontabs"],
     [Plain EXCEPT !.name = "widget", !.kind = "unknown",
                   !.namespace = "prod", !.coordinates = "widgets"],
     [Plain EXCEPT !.name = "other", !.kind = "unknown"],
     [Plain EXCEPT !.name = "old", !.kind = "ReplicationController"]}

MixedNames == {d.name : d \in MixedDefinitions}
MixedNamespaces == {"default", "prod"}
MixedCoordinates == {"crontabs", "widgets"}
=============================================================================
