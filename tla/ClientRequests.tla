---------------------------- MODULE ClientRequests ----------------------------
(***************************************************************************)
(* CloudifyKubernetesClient and the requests it makes of an operation's    *)
(* calls.  All calls of one operation share one dictionary, the options of *)
(* the node: each call writes into it and leaves there what it wrote, so a *)
(* request depends on the calls made before it.                            *)
(***************************************************************************)
EXTENDS Naturals

CONSTANTS
    Names,         \* names of resources
    Namespaces,
    Coordinates,   \* group, plural and version of a custom resource
    Definitions,   \* definitions the operation has to do with
    TakesBody,     \* does the library's delete method name a body argument?
    Alternates     \* alternates a row of the mapping table has

None == "none"
Verbs == {"create", "read", "update", "delete"}
Kinds == {"known", "unknown", "ReplicationController"}

\* known: the kind has a row in the mapping table.  coordinates: the
\* annotations cloudify-crd-group, -plural and -version.
Definition == [name : Names, namespace : Namespaces \cup {None},
               coordinates : Coordinates \cup {None}, kind : Kinds]

ASSUME NoneAssumption == /\ None \notin Names \cup Namespaces \cup Coordinates
                         /\ "delete_options" \notin Names
ASSUME DefinitionsAssumption == Definitions \subseteq Definition
ASSUME TakesBodyAssumption == TakesBody \in BOOLEAN
ASSUME AlternatesAssumption == Alternates \in Nat

Grace == {None, "zero", "some"}
Policies == {None, "asked", "Foreground"}

\* The dictionary; None for a key it does not have.  body is the name of the
\* resource the payload is made of, or a V1DeleteOptions.
Options == [namespace : Namespaces,
            name : Names \cup {None},
            body : Names \cup {None, "delete_options"},
            coordinates : Coordinates \cup {None},
            grace : Grace, policy : Policies]

\* What a node may say: the namespace has a default.
NodeOptions == {o \in Options : o.name = None /\ o.body = None
                                /\ o.policy # "Foreground"}

\* What reaches the API server; None for what is not sent.
Request == [verb : Verbs, namespace : Namespaces,
            name : Names \cup {None},
            body : Names \cup {None, "delete_options"},
            coordinates : Coordinates \cup {None},
            grace : Grace, policy : Policies]

VARIABLES
    given,      \* options of the node
    options,    \* the dictionary, as the calls made so far have left it
    call,       \* the call under way: [about, request]
    attempt,    \* 0 for the method of the mapping, i for its i-th alternate
    served,     \* which of them the API server accepts the payload for
    outcome     \* "sending", or how the last call ended

vars == <<given, options, call, attempt, served, outcome>>

NoCall == [about |-> [name |-> None, namespace |-> None,
                      coordinates |-> None, kind |-> None],
           request |-> [verb |-> None, namespace |-> None, name |-> None,
                        body |-> None, coordinates |-> None,
                        grace |-> None, policy |-> None]]

Init ==
    /\ given \in NodeOptions
    /\ options = given
    /\ call = NoCall
    /\ attempt = 0 /\ served = 0
    /\ outcome = "none"

-----------------------------------------------------------------------------
(* From a definition and the dictionary to a request.                      *)

\* mapping_by_kind, as resource_task calls it with the keys of the dictionary.
MappedToCustomObjects(d) ==
    d.coordinates # None \/ (d.kind = "unknown" /\ options.coordinates # None)
Mapped(d) == d.kind # "unknown" \/ MappedToCustomObjects(d)

\* set_custom_resource
WithCoordinates(o, d) ==
    IF d.coordinates # None THEN [o EXCEPT !.coordinates = d.coordinates] ELSE o

\* A bug for MatchNamespace: the namespace of the request wins.
KeepsNamespace(o, d) == o

\* match_namespace
MatchNamespace(o, d) ==
    IF d.namespace # None THEN [o EXCEPT !.namespace = d.namespace] ELSE o

\* A bug for Named: an update takes the name it finds.
NamedForReads(o, verb, d) ==
    IF verb \in {"read", "delete"} THEN [o EXCEPT !.name = d.name] ELSE o

\* The keys a method of the client sets: the delete of a ReplicationController
\* sets none, a create sets no name.
Named(o, verb, d) ==
    IF \/ verb \in {"read", "update"}
       \/ verb = "delete" /\ d.kind # "ReplicationController"
    THEN [o EXCEPT !.name = d.name] ELSE o

WithBody(o, verb, d) ==
    CASE verb \in {"create", "update"} -> [o EXCEPT !.body = d.name]
      [] verb = "delete" /\ d.kind # "ReplicationController" ->
             [o EXCEPT !.body = "delete_options"]
      [] OTHER -> o

\* _prepare_delete_options_resource
DeleteOptions(o) ==
    IF \E k \in DOMAIN o : o[k] # None
    THEN [grace |-> o.grace, policy |-> o.policy]
    ELSE [grace |-> None, policy |-> "Foreground"]

\* _execute deletes every key with a false value from what it is given.
Trimmed(o) == IF o.grace = "zero" THEN [o EXCEPT !.grace = None] ELSE o

\* The dictionary as the call leaves it.  A delete, except of a
\* ReplicationController, goes on with a copy before it looks at the namespace.
Prepared(verb, d) == Named(WithCoordinates(options, d), verb, d)

LeftBy(verb, d) ==
    IF verb = "delete" /\ d.kind # "ReplicationController"
    THEN WithBody(Prepared(verb, d), verb, d)
    ELSE Trimmed(MatchNamespace(WithBody(Prepared(verb, d), verb, d), d))

\* _prepare_arguments: the method's arguments, from the dictionary, and for a
\* delete those it accepts.  The delete options go with the body, or nowhere.
RequestOf(verb, d) ==
    LET o == MatchNamespace(WithBody(Prepared(verb, d), verb, d), d)
        inBody == DeleteOptions(Prepared(verb, d))
        sent == CASE verb # "delete" -> [grace |-> None, policy |-> None]
                  [] verb = "delete" /\ d.kind = "ReplicationController" ->
                         [grace |-> Trimmed(o).grace, policy |-> o.policy]
                  [] OTHER -> IF TakesBody THEN inBody
                              ELSE [grace |-> None, policy |-> None]
    IN [verb |-> verb, namespace |-> o.namespace,
        name |-> IF verb = "create" THEN None ELSE o.name,
        body |-> IF \/ verb \in {"create", "update"}
                    \/ verb = "delete" /\ TakesBody
                       /\ d.kind # "ReplicationController"
                 THEN o.body ELSE None,
        coordinates |-> IF MappedToCustomObjects(d) THEN o.coordinates
                        ELSE None,
        grace |-> sent.grace, policy |-> sent.policy]

-----------------------------------------------------------------------------
(* The steps.                                                              *)

\* Another operation of the node: the engine hands it the options anew.
Dispatch ==
    /\ outcome # "sending"
    /\ options' = given /\ call' = NoCall /\ outcome' = "none"
    /\ UNCHANGED <<given, attempt, served>>

\* _do_resource_delete reads the resource before it deletes it.
AfterItsRead(d) ==
    call # NoCall /\ call.about = d /\ call.request.verb = "read"

Call(verb, d) ==
    /\ outcome \notin {"sending", "unmapped"}
    /\ verb = "delete" => AfterItsRead(d)
    /\ IF Mapped(d)
       THEN /\ options' = LeftBy(verb, d)
            /\ call' = [about |-> d, request |-> RequestOf(verb, d)]
            /\ outcome' = "sending" /\ attempt' = 0
            /\ served' \in 0 .. Alternates + 1
       ELSE /\ outcome' = "unmapped" /\ call' = NoCall
            /\ UNCHANGED <<options, attempt, served>>
    /\ UNCHANGED given

\* The API server answers the request, or the exchange fails.
Answered ==
    /\ outcome = "sending"
    /\ \/ attempt = served /\ outcome' = "ok"
       \/ outcome' = "error"
    /\ UNCHANGED <<given, options, call, attempt, served>>

\* Bugs for TriesNext: the last alternate is not tried, and one too many is.
TriesAllButLast(i) == i + 1 < Alternates
TriesOneMore(i) == i <= Alternates

TriesNext(i) == i < Alternates

\* It "does not match the expected API version": the next alternate is tried.
Mismatch ==
    /\ outcome = "sending" /\ attempt # served
    /\ IF TriesNext(attempt)
       THEN attempt' = attempt + 1 /\ UNCHANGED outcome
       ELSE outcome' = "mismatch" /\ UNCHANGED attempt
    /\ UNCHANGED <<given, options, call, served>>

Next ==
    \/ Dispatch \/ Answered \/ Mismatch
    \/ \E verb \in Verbs, d \in Definitions : Call(verb, d)

Spec == Init /\ [][Next]_vars

-----------------------------------------------------------------------------
(* Properties.                                                             *)

Called == call # NoCall

Outcomes == {"none", "unmapped", "sending", "ok", "error", "mismatch"}

\* Every variable has the type its declaration says.
TypeOK ==
    /\ given \in NodeOptions /\ options \in Options
    /\ call \in [about : Definitions, request : Request] \cup {NoCall}
    /\ attempt \in 0 .. Alternates /\ served \in 0 .. Alternates + 1
    /\ outcome \in Outcomes

\* Whatever earlier calls left in the dictionary, a request names the resource
\* of its own call and carries the payload of its own definition.
RequestIsOwn ==
    Called =>
        /\ call.request.verb # "create" => call.request.name = call.about.name
        /\ call.request.verb \in {"create", "update"} =>
               call.request.body = call.about.name

\* A definition that says its namespace, or the coordinates of its custom
\* resource, has them in every request made for it.
MetadataWins ==
    Called =>
        /\ call.about.namespace # None =>
               call.request.namespace = call.about.namespace
        /\ call.about.coordinates # None =>
               call.request.coordinates = call.about.coordinates

\* A call fails for the API version only when neither the method of the mapping
\* nor any of its alternates is what the server expects.
MismatchOnlyIfNoneServed == outcome = "mismatch" => served > Alternates
=============================================================================
