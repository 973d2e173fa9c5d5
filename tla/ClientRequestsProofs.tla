------------------------- MODULE ClientRequestsProofs -------------------------
(* Theorems about ClientRequests, for any definitions and dictionary.       *)
EXTENDS ClientRequests, TLAPS

\* What the delete of a ReplicationController relies on: it sets no name, and
\* finds the one its read has left.
ReadLeavesName ==
    Called /\ call.request.verb = "read" => options.name = call.about.name

\* The methods are tried in their order, and none before the one that is
\* served has been passed over.
NonePassedOver ==
    /\ outcome = "sending" => attempt <= served
    /\ MismatchOnlyIfNoneServed

IInv == TypeOK /\ RequestIsOwn /\ MetadataWins /\ ReadLeavesName
        /\ NonePassedOver

\* A dictionary stays one through everything a call does to it, and a read
\* leaves its name there.
LEMMA LeftByType ==
    ASSUME NEW verb \in Verbs, NEW d \in Definitions, options \in Options
    PROVE  /\ LeftBy(verb, d) \in Options
           /\ verb = "read" => LeftBy(verb, d).name = d.name
<1>1. d \in Definition BY DefinitionsAssumption
<1>2. Prepared(verb, d) \in Options
  BY <1>1 DEF Prepared, Named, WithCoordinates, Options, Definition
<1>3. verb = "read" => Prepared(verb, d).name = d.name
  BY <1>1 DEF Prepared, Named, WithCoordinates, Options, Definition
<1>4. WithBody(Prepared(verb, d), verb, d) \in Options
  BY <1>1, <1>2 DEF WithBody, Options, Definition
<1>5. MatchNamespace(WithBody(Prepared(verb, d), verb, d), d) \in Options
  BY <1>1, <1>4 DEF MatchNamespace, Options, Definition
<1>6. \A o \in Options : Trimmed(o) \in Options /\ Trimmed(o).name = o.name
  BY DEF Trimmed, Options, Grace
<1>7. LeftBy(verb, d) \in Options
  BY <1>4, <1>5, <1>6 DEF LeftBy
<1>8. ASSUME verb = "read" PROVE LeftBy(verb, d).name = d.name
  <2>1. WithBody(Prepared(verb, d), verb, d) = Prepared(verb, d)
    BY <1>8 DEF WithBody
  <2>2. MatchNamespace(Prepared(verb, d), d).name = Prepared(verb, d).name
    BY <1>2 DEF MatchNamespace, Options
  <2> QED BY <1>3, <1>5, <1>6, <1>8, <2>1, <2>2 DEF LeftBy
<1> QED BY <1>7, <1>8

\* The request of a call, field by field.
LEMMA RequestFields ==
    ASSUME NEW verb \in Verbs, NEW d \in Definitions, options \in Options
    PROVE  /\ RequestOf(verb, d) \in Request
           /\ RequestOf(verb, d).verb = verb
           /\ verb # "create" /\ (d.kind = "ReplicationController" /\
                  verb = "delete" => options.name = d.name) =>
                  RequestOf(verb, d).name = d.name
           /\ verb \in {"create", "update"} => RequestOf(verb, d).body = d.name
           /\ d.namespace # None => RequestOf(verb, d).namespace = d.namespace
           /\ d.coordinates # None =>
                  RequestOf(verb, d).coordinates = d.coordinates
<1>1. d \in Definition BY DefinitionsAssumption
<1> DEFINE p == Prepared(verb, d)
           b == WithBody(p, verb, d)
           o == MatchNamespace(b, d)
<1>2. /\ p \in Options
      /\ d.coordinates # None => p.coordinates = d.coordinates
      /\ verb # "create" /\ (d.kind = "ReplicationController" /\
                  verb = "delete" => options.name = d.name) => p.name = d.name
  BY <1>1 DEF Prepared, Named, WithCoordinates, Options, Definition, Verbs
<1>3. /\ b \in Options /\ b.name = p.name /\ b.coordinates = p.coordinates
      /\ verb \in {"create", "update"} => b.body = d.name
  BY <1>1, <1>2 DEF WithBody, Options, Definition
<1>4. /\ o \in Options /\ o.name = b.name /\ o.body = b.body
      /\ o.coordinates = b.coordinates
      /\ d.namespace # None => o.namespace = d.namespace
  BY <1>1, <1>3 DEF MatchNamespace, Options, Definition
<1>5. Trimmed(o).grace \in Grace
  BY <1>4 DEF Trimmed, Options, Grace
<1>6. DeleteOptions(p) \in [grace : Grace, policy : Policies]
  BY <1>2 DEF DeleteOptions, Options, Grace, Policies
<1> DEFINE sent == CASE verb # "delete" -> [grace |-> None, policy |-> None]
                  [] d.kind = "ReplicationController" ->
                         [grace |-> Trimmed(o).grace, policy |-> o.policy]
                  [] OTHER -> IF TakesBody THEN DeleteOptions(p)
                              ELSE [grace |-> None, policy |-> None]
<1>7. sent \in [grace : Grace, policy : Policies]
  BY <1>4, <1>5, <1>6 DEF Options, Grace, Policies
<1> DEFINE r == [verb |-> verb, namespace |-> o.namespace,
        name |-> IF verb = "create" THEN None ELSE o.name,
        body |-> IF \/ verb \in {"create", "update"}
                    \/ verb = "delete" /\ TakesBody
                       /\ d.kind # "ReplicationController"
                 THEN o.body ELSE None,
        coordinates |-> IF MappedToCustomObjects(d) THEN o.coordinates
                        ELSE None,
        grace |-> sent.grace, policy |-> sent.policy]
<1>8. RequestOf(verb, d) = r
  BY DEF RequestOf
<1>9. d.coordinates # None => MappedToCustomObjects(d)
  BY DEF MappedToCustomObjects
<1> HIDE DEF sent, o, b, p
<1>10. r \in Request
  BY <1>4, <1>7 DEF Request, Options
<1>11. /\ r.verb = verb
       /\ r.namespace = o.namespace
       /\ verb # "create" => r.name = o.name
       /\ verb \in {"create", "update"} => r.body = o.body
       /\ MappedToCustomObjects(d) => r.coordinates = o.coordinates
  OBVIOUS
<1> HIDE DEF r
<1> QED BY <1>2, <1>3, <1>4, <1>8, <1>9, <1>10, <1>11

\* The dictionary starts as the options of the node, and no call is made.
LEMMA InitInv == Init => IInv
BY AlternatesAssumption
   DEF Init, IInv, TypeOK, RequestIsOwn, MetadataWins, ReadLeavesName, Called,
       NodeOptions, Outcomes, NonePassedOver, MismatchOnlyIfNoneServed

\* Each step keeps the invariant; only a call has work to do.
LEMMA NextInv == IInv /\ [Next]_vars => IInv'
<1> SUFFICES ASSUME IInv, [Next]_vars PROVE IInv'
  OBVIOUS
<1> USE DEF IInv
<1>1. CASE Dispatch
  <2>1. given \in Options
    BY DEF TypeOK, NodeOptions
  <2> QED BY <1>1, <2>1 DEF Dispatch, TypeOK, RequestIsOwn, MetadataWins,
                       ReadLeavesName, Called, Outcomes, NonePassedOver,
                       MismatchOnlyIfNoneServed
<1>2. CASE Answered
  BY <1>2 DEF Answered, TypeOK, RequestIsOwn, MetadataWins, ReadLeavesName,
              Called, Outcomes, NonePassedOver, MismatchOnlyIfNoneServed
<1>3. CASE Mismatch
  <2>1. attempt' \in 0 .. Alternates
    BY <1>3, AlternatesAssumption DEF Mismatch, TriesNext, TypeOK
  <2>2. (TypeOK /\ RequestIsOwn /\ MetadataWins /\ ReadLeavesName)'
    BY <1>3, <2>1 DEF Mismatch, TypeOK, RequestIsOwn, MetadataWins,
                           ReadLeavesName, Called, Outcomes
  <2>3. attempt < served
    BY <1>3 DEF Mismatch, TypeOK, NonePassedOver
  <2>4. NonePassedOver'
    BY <1>3, <2>3, AlternatesAssumption
       DEF Mismatch, TriesNext, TypeOK, NonePassedOver, MismatchOnlyIfNoneServed
  <2> QED BY <2>2, <2>4
<1>4. ASSUME NEW verb \in Verbs, NEW d \in Definitions, Call(verb, d)
      PROVE  IInv'
  <2>1. CASE ~Mapped(d)
    BY <1>4, <2>1 DEF Call, TypeOK, RequestIsOwn, MetadataWins, ReadLeavesName,
                      Called, Outcomes, NonePassedOver, MismatchOnlyIfNoneServed
  <2>2. CASE Mapped(d)
    <3>1. options \in Options BY DEF TypeOK
    <3>2. /\ options' = LeftBy(verb, d)
          /\ call' = [about |-> d, request |-> RequestOf(verb, d)]
          /\ outcome' = "sending" /\ attempt' = 0
          /\ served' \in 0 .. Alternates + 1 /\ given' = given
      BY <1>4, <2>2 DEF Call
    <3>3. RequestOf(verb, d) \in Request /\ RequestOf(verb, d).verb = verb
      BY <3>1, RequestFields
    <3>4. TypeOK'
      BY <3>1, <3>2, <3>3, LeftByType, AlternatesAssumption
         DEF TypeOK, Outcomes
    <3>5. verb = "delete" => options.name = d.name
      BY <1>4 DEF Call, AfterItsRead, ReadLeavesName, Called
    <3>6. ReadLeavesName'
      BY <3>1, <3>2, <3>3, LeftByType DEF ReadLeavesName, Called
    <3>7. RequestIsOwn'
      BY <3>1, <3>2, <3>5, RequestFields DEF RequestIsOwn, Called
    <3>8. MetadataWins'
      BY <3>1, <3>2, RequestFields DEF MetadataWins, Called
    <3>9. NonePassedOver'
      BY <3>2 DEF NonePassedOver, MismatchOnlyIfNoneServed
    <3> QED BY <3>4, <3>6, <3>7, <3>8, <3>9
  <2> QED BY <2>1, <2>2
<1>5. CASE UNCHANGED vars
  BY <1>5 DEF vars, TypeOK, RequestIsOwn, MetadataWins, ReadLeavesName, Called,
              NonePassedOver, MismatchOnlyIfNoneServed
<1> QED BY <1>1, <1>2, <1>3, <1>4, <1>5 DEF Next

\* The strengthened invariant always holds.
LEMMA Inductive == Spec => []IInv
BY InitInv, NextInv, PTL DEF Spec

\* Every variable of the client keeps its type.
THEOREM TypeCorrect == Spec => []TypeOK
<1>1. IInv => TypeOK BY DEF IInv
<1> QED BY Inductive, <1>1, PTL

\* Whatever calls an operation makes and in whatever order, each request names
\* its own resource and carries its own payload.
THEOREM RequestsAreOwn == Spec => []RequestIsOwn
<1>1. IInv => RequestIsOwn BY DEF IInv
<1> QED BY Inductive, <1>1, PTL

\* What a definition says of its namespace and coordinates is what every
\* request made for it says.
THEOREM MetadataAlwaysWins == Spec => []MetadataWins
<1>1. IInv => MetadataWins BY DEF IInv
<1> QED BY Inductive, <1>1, PTL

\* A call that fails for the API version has been tried with every method the
\* mapping table gives its kind, and the server takes none of them.
THEOREM AllAreTried == Spec => []MismatchOnlyIfNoneServed
<1>1. IInv => MismatchOnlyIfNoneServed BY DEF IInv, NonePassedOver
<1> QED BY Inductive, <1>1, PTL
=============================================================================
