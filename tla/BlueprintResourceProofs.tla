----------------------- MODULE BlueprintResourceProofs -----------------------
(***************************************************************************)
(* Theorems about BlueprintResource, for all names, policies and bounds.   *)
(***************************************************************************)
EXTENDS BlueprintResource, FiniteSetTheorems, TLAPS

-----------------------------------------------------------------------------
(* The helpers on runtime properties keep their type.                      *)

\* pop() leaves a list of names.
LEMMA PoppedType ==
    ASSUME NEW d \in Seq(Names) PROVE Popped(d) \in Seq(Names)
  BY DEF Popped

\* remove_resource_definition leaves a list of names.
LEMMA RemoveType ==
    ASSUME NEW d \in Seq(Names), NEW n PROVE RemoveDefinition(d, n) \in Seq(Names)
  BY DEF RemoveDefinition

\* store_resource_definition leaves a list of names.
LEMMA StoreType ==
    ASSUME NEW d \in Seq(Names), NEW n \in Names
    PROVE  StoreDefinition(d, n) \in Seq(Names)
  BY DEF StoreDefinition

\* store_result_for_retrieve_id leaves runtime properties.
LEMMA StoreResultType ==
    ASSUME TypeOK, NEW r \in Records, r # NoRecord
    PROVE  StoreResult(r) \in PropsType
  <1>1. r.name \in Names
    BY DEF Records, NoRecord
  <1>2. StoreDefinition(props.defs, r.name) \in Seq(Names)
    BY <1>1, StoreType DEF TypeOK, InstanceTypeOK, PropsType
  <1> QED
    BY <1>2 DEF StoreResult, PropsType

\* What is read from an object that exists can be stored.
LEMMA SeenType ==
    ASSUME NEW n \in Names, NEW o \in Objects, Exists(o)
    PROVE  Seen(n, o) \in Records /\ Seen(n, o) # NoRecord
  BY DEF Seen, Records, NoRecord, Objects, Exists, Missing, Phases, Contents

\* Whatever a request, a controller or another client does to an object, it is
\* an object again.
LEMMA ObjectType ==
    ASSUME NEW o \in Objects
    PROVE  /\ Posted(o) \in Objects /\ Exists(Posted(o))
           /\ Patched(o) \in Objects /\ (Exists(o) => Exists(Patched(o)))
           /\ Deleted(o) \subseteq Objects
           /\ Settled(o) \subseteq Objects
           /\ Finalized(o) \subseteq Objects
           /\ ChangedByOthers(o) \subseteq Objects
  <1> USE DEF Objects, Exists, Missing, Phases, Owners, Contents
  <1>1. Posted(o) \in Objects /\ Exists(Posted(o))
    BY DEF Posted
  <1>2. Patched(o) \in Objects /\ (Exists(o) => Exists(Patched(o)))
    BY DEF Patched
  <1>3. Deleted(o) \subseteq Objects
    BY DEF Deleted
  <1>4. Settled(o) \subseteq Objects
    BY DEF Settled
  <1>5. Finalized(o) \subseteq Objects
    BY DEF Finalized
  <1>6. ChangedByOthers(o) \subseteq Objects
    BY <1>3 DEF ChangedByOthers
  <1> QED
    BY <1>1, <1>2, <1>3, <1>4, <1>5, <1>6

-----------------------------------------------------------------------------
(* How an attempt begins, goes on and ends keeps the types.                *)

\* The local state every attempt begins with has its type.
LEMMA NoLocalType == NoLocal \in LocalType /\ NoRecord \in Records
  BY DEF NoLocal, LocalType, Records

\* Begin keeps the types, for the engine's three uses of it.
LEMMA BeginType ==
    ASSUME TypeOK, NEW o \in AllOps, Begin(o),
           stage' \in Stages, outcome' \in Outcomes, retried' \in BOOLEAN,
           (o = "create") <=> (stage' = "creating"),
           (o = "delete") <=> (stage' = "deleting"),
           o \notin {"create", "delete"} => stage' = "created",
           budget' \in [faults : Nat, others : Nat, crashes : Nat,
                        redefinitions : Nat]
    PROVE  TypeOK'
  <1>1. pc' \in {"check", "call"}
    BY DEF Begin, FirstStep
  <1> QED
    BY <1>1, NoLocalType
    DEF TypeOK, WorldTypeOK, InstanceTypeOK, StepOK, Begin, Steps, AllOps

\* Goto keeps the types when what the next exchange needs is there.
LEMMA GotoType ==
    ASSUME TypeOK, NEW answer, NEW step \in Steps, NEW l \in LocalType,
           NEW p \in PropsType, Goto(answer, step, l, p),
           op # "none", step # "idle",
           step = "store" => /\ op \in {"create", "read", "update", "delete"}
                             /\ l.response # NoRecord,
           step = "recreate" => op = "heal",
           step \in {"exists", "delete", "recheck"} =>
             op = "delete" /\ l.target \in Names /\ l.response # NoRecord
    PROVE  InstanceTypeOK' /\ StepOK'
  BY DEF TypeOK, InstanceTypeOK, StepOK, Goto, node

\* A failed attempt keeps the types.
LEMMA RecoverableType ==
    ASSUME TypeOK, NEW p \in PropsType, op # "none", Recoverable(p)
    PROVE  InstanceTypeOK' /\ StepOK'
  BY NoLocalType
  DEF TypeOK, InstanceTypeOK, StepOK, Recoverable, node, Steps

\* The end of an operation keeps the types.
LEMMA EndType ==
    ASSUME TypeOK, NEW result \in Outcomes, NEW p \in PropsType, End(result, p)
    PROVE  InstanceTypeOK' /\ StepOK'
  <1>1. /\ StageAfter(result) \in Stages
        /\ StageAfter(result) \notin {"creating", "deleting"}
    BY DEF StageAfter, Stages, TypeOK, InstanceTypeOK, StepOK
  <1> QED
    BY <1>1, NoLocalType
    DEF TypeOK, InstanceTypeOK, StepOK, End, Steps

\* An answer is paid for within the bounds.
LEMMA ChargeType ==
    ASSUME TypeOK, NEW answer \in Answers, Charge(answer)
    PROVE  budget' \in [faults : Nat, others : Nat, crashes : Nat,
                        redefinitions : Nat]
  BY DEF TypeOK, WorldTypeOK, Charge, Answers

\* A write leaves a cluster.
LEMMA WriteType ==
    ASSUME TypeOK, NEW answer, NEW n \in Names, NEW S \in SUBSET Objects,
           Write(answer, n, S)
    PROVE  objects' \in [Names -> Objects]
  BY DEF TypeOK, WorldTypeOK, Write

\* The two ends of a delete, and the way to them, keep the types.
LEMMA AfterCallType ==
    ASSUME TypeOK, NEW answer, op = "delete",
           local.response # NoRecord, local.target \in Names,
           \/ AfterCall(answer)
           \/ \E b \in BOOLEAN : AfterDelete(answer, b)
    PROVE  InstanceTypeOK' /\ StepOK'
  <1>1. ASSUME FinishDelete PROVE InstanceTypeOK' /\ StepOK'
    <2>1. [props EXCEPT !.record = NoRecord] \in PropsType
      BY NoLocalType DEF TypeOK, InstanceTypeOK, PropsType
    <2> QED
      BY <1>1, <2>1, EndType DEF FinishDelete, TypeOK, InstanceTypeOK, Outcomes
  <1>2. ASSUME NEW b, AfterDelete(answer, b) PROVE InstanceTypeOK' /\ StepOK'
    <2>1. [local EXCEPT !.perform = TRUE] \in LocalType
      BY DEF TypeOK, InstanceTypeOK, LocalType
    <2>2. [local EXCEPT !.perform = TRUE].response # NoRecord
      BY DEF TypeOK, InstanceTypeOK, LocalType
    <2> QED
      BY <1>1, <1>2, <2>1, <2>2, GotoType
      DEF AfterDelete, TypeOK, InstanceTypeOK, Steps
  <1>3. CASE AfterCall(answer)
    BY <1>2, <1>3, GotoType DEF AfterCall, TypeOK, InstanceTypeOK, Steps
  <1> QED
    BY <1>2, <1>3

-----------------------------------------------------------------------------
(* Type correctness.                                                       *)

\* The initial states have their types.
LEMMA TypeInit == Init => TypeOK
  <1> SUFFICES ASSUME Init PROVE TypeOK
    OBVIOUS
  <1>1. WorldTypeOK
    BY BoundsAssumption
    DEF Init, WorldTypeOK, Objects, Missing, Phases, Owners, Contents
  <1>2. props \in PropsType
    BY NoLocalType DEF Init, PropsType
  <1> QED
    BY <1>1, <1>2, NoLocalType
    DEF Init, TypeOK, InstanceTypeOK, StepOK, Stages, Outcomes, Steps

\* The engine's steps keep the types.
LEMMA TypeEngine ==
    ASSUME TypeOK, Engine \/ CrashAndResume PROVE TypeOK'
  <1>2. CASE Retry
    BY <1>2, BeginType DEF Retry, TypeOK, InstanceTypeOK, WorldTypeOK, StepOK
  <1>3. CASE Exhaust
    BY <1>3, EndType
    DEF Exhaust, TypeOK, InstanceTypeOK, WorldTypeOK, Outcomes
  <1>4. ASSUME NEW o \in Ops, Start(o) PROVE TypeOK'
    BY <1>4, OpsAssumption, BeginType
    DEF Start, MayStart, TypeOK, InstanceTypeOK, WorldTypeOK, StepOK, Stages,
        Outcomes, AllOps
  <1>5. CASE CrashAndResume
    BY <1>5, BeginType
    DEF CrashAndResume, TypeOK, InstanceTypeOK, WorldTypeOK, StepOK
  <1> QED
    BY <1>2, <1>3, <1>4, <1>5 DEF Engine

\* The worker's steps keep the types.
LEMMA TypeWorker ==
    ASSUME TypeOK, Worker PROVE TypeOK'
  <1> USE DEF WorldTypeOK, InstanceTypeOK
  <1>0. /\ definition \in Names /\ objects[definition] \in Objects
        /\ props \in PropsType /\ local \in LocalType
        /\ op = "none" <=> pc = "idle"
        /\ \A r \in {"success", "no_mapping", "conflict", "bad_status"} :
               r \in Outcomes
        /\ {"check", "call", "store", "recreate", "exists", "delete", "recheck"}
               \subseteq Steps
    BY DEF TypeOK, StepOK, Outcomes, Steps
  <1>1. CASE MappingFails
    BY <1>0, <1>1, EndType DEF MappingFails, TypeOK
  <1>2. CASE CheckState
    <2> PICK answer \in Answers : CheckState!(answer)
      BY <1>2 DEF CheckState
    <2> DEFINE exists == Found(answer, definition)
               l == [local EXCEPT !.current = exists,
                                  !.perform = PerformOnExisting(policy, exists)]
    <2>1. exists \in BOOLEAN /\ PerformOnExisting(policy, exists) \in BOOLEAN
      BY DEF Found, Exists, PerformOnExisting
    <2>2. l \in LocalType
      BY <2>1, <1>0 DEF LocalType
    <2>3. Goto(answer, "call", l, props) /\ pc # "idle" /\ UNCHANGED objects
      OBVIOUS
    <2> HIDE DEF l
    <2> QED
      BY <2>2, <2>3, <1>0, GotoType, ChargeType DEF TypeOK
  <1>3. CASE CreateCall
    <2> PICK answer \in Answers : CreateCall!(answer)
      BY <1>3 DEF CreateCall
    <2> DEFINE l == [local EXCEPT !.response =
                        Seen(definition, Posted(objects[definition]))]
    <2>1. objects' \in [Names -> Objects]
      BY <1>0, ObjectType, WriteType
    <2>2. Seen(definition, Posted(objects[definition])) \in Records \ {NoRecord}
      BY <1>0, ObjectType, SeenType
    <2>3. l \in LocalType /\ l.response # NoRecord
      BY <2>2, <1>0 DEF LocalType
    <2>4. /\ \/ Goto(answer, "store", l, props) \/ End("conflict", props)
             \/ Recoverable(props)
          /\ pc # "idle" /\ op = "create" /\ Charge(answer)
      OBVIOUS
    <2> HIDE DEF l
    <2> QED
      BY <2>1, <2>3, <2>4, <1>0, GotoType, EndType, RecoverableType, ChargeType
      DEF TypeOK
  <1>4. CASE ReadCall
    <2> PICK answer \in Answers : ReadCall!(answer)
      BY <1>4 DEF ReadCall
    <2> DEFINE l == [local EXCEPT !.response =
                        Seen(definition, objects[definition])]
    <2>1. ASSUME Found(answer, definition)
          PROVE  l \in LocalType /\ l.response # NoRecord
      <3>1. Seen(definition, objects[definition]) \in Records \ {NoRecord}
        BY <2>1, <1>0, SeenType DEF Found
      <3> QED
        BY <3>1, <1>0 DEF LocalType
    <2>2. /\ \/ Found(answer, definition) /\ Goto(answer, "store", l, props)
             \/ Recoverable(props)
          /\ pc # "idle" /\ op \in {"create", "read"} /\ Charge(answer)
          /\ UNCHANGED objects
      OBVIOUS
    <2> HIDE DEF l
    <2> QED
      BY <2>1, <2>2, <1>0, GotoType, RecoverableType, ChargeType DEF TypeOK
  <1>5. CASE UpdateCall
    <2> PICK answer \in Answers : UpdateCall!(answer)
      BY <1>5 DEF UpdateCall
    <2> DEFINE l == [local EXCEPT !.response =
                        Seen(definition, Patched(objects[definition]))]
    <2>1. objects' \in [Names -> Objects]
      BY <1>0, ObjectType, WriteType
    <2>2. ASSUME Found(answer, definition)
          PROVE  l \in LocalType /\ l.response # NoRecord
      <3>1. Seen(definition, Patched(objects[definition])) \in Records \ {NoRecord}
        BY <2>2, <1>0, ObjectType, SeenType DEF Found
      <3> QED
        BY <3>1, <1>0 DEF LocalType
    <2>3. /\ \/ Found(answer, definition) /\ Goto(answer, "store", l, props)
             \/ Recoverable(props)
          /\ pc # "idle" /\ op = "update" /\ Charge(answer)
      OBVIOUS
    <2> HIDE DEF l
    <2> QED
      BY <2>1, <2>2, <2>3, <1>0, GotoType, RecoverableType, ChargeType DEF TypeOK
  <1>6. CASE Store
    <2>1. StoreResult(local.response) \in PropsType
      BY <1>6, StoreResultType DEF Store, TypeOK, StepOK, LocalType
    <2>2. /\ \/ Recoverable(StoreResult(local.response))
             \/ End("success", StoreResult(local.response))
             \/ End("bad_status", StoreResult(local.response))
          /\ pc # "idle" /\ UNCHANGED <<objects, budget>>
      BY <1>6 DEF Store
    <2> QED
      BY <2>1, <2>2, <1>0, EndType, RecoverableType DEF TypeOK
  <1>7. CASE CheckStatusCall
    <2> PICK answer \in Answers : CheckStatusCall!(answer)
      BY <1>7 DEF CheckStatusCall
    <2> DEFINE l == [local EXCEPT !.perform = TRUE]
    <2>1. l \in LocalType
      BY <1>0 DEF LocalType
    <2>2. /\ \/ End("success", props) \/ End("bad_status", props)
             \/ op = "heal" /\ Goto(answer, "recreate", l, props)
             \/ Recoverable(props)
          /\ pc # "idle" /\ Charge(answer) /\ UNCHANGED objects
      OBVIOUS
    <2> HIDE DEF l
    <2> QED
      BY <2>1, <2>2, <1>0, GotoType, EndType, RecoverableType, ChargeType
      DEF TypeOK
  <1>8. CASE RecreateCall
    <2> PICK answer \in Answers : RecreateCall!(answer)
      BY <1>8 DEF RecreateCall
    <2>1. objects' \in [Names -> Objects]
      BY <1>0, ObjectType, WriteType
    <2> QED
      BY <2>1, <1>0, EndType, RecoverableType, ChargeType DEF TypeOK
  <1>9. CASE CheckDriftCall
    BY <1>0, <1>9, EndType, RecoverableType, ChargeType
    DEF CheckDriftCall, TypeOK
  <1>10. CASE ReadForDelete
    <2> PICK answer \in Answers : ReadForDelete!(answer)
      BY <1>10 DEF ReadForDelete
    <2> DEFINE l == [local EXCEPT !.target = StoredTarget,
                        !.response = Seen(definition, objects[definition])]
               p == [props EXCEPT !.defs = Popped(@)]
               q == [props EXCEPT !.defs = RemoveDefinition(Popped(@),
                                                            StoredTarget)]
               c == [props EXCEPT !.record = NoRecord]
    <2>1. StoredTarget \in Names
      BY <1>0 DEF StoredTarget, UsesStored, PropsType
    <2>2. p \in PropsType /\ q \in PropsType
      BY <1>0, PoppedType, RemoveType DEF PropsType
    <2>3. c \in PropsType
      BY <1>0, NoLocalType DEF PropsType
    <2>4. ASSUME Exists(objects[definition])
          PROVE  /\ l \in LocalType /\ l.target \in Names
                 /\ l.response # NoRecord
      <3>1. Seen(definition, objects[definition]) \in Records \ {NoRecord}
        BY <2>4, <1>0, SeenType
      <3> QED
        BY <2>1, <3>1, <1>0 DEF LocalType
    <2>5. /\ \/ Recoverable(props) \/ End("no_mapping", p)
             \/ End("success", c) \/ End("success", props)
             \/ /\ Exists(objects[definition])
                /\ Goto(answer, "exists", l, q)
          /\ pc # "idle" /\ op = "delete" /\ Charge(answer)
          /\ UNCHANGED objects
      BY DEF FinishDelete, Found
    <2> HIDE DEF l, p, q, c
    <2> QED
      BY <2>2, <2>3, <2>4, <2>5, <1>0, GotoType, EndType, RecoverableType,
         ChargeType DEF TypeOK
  <1>11. CASE CheckExists
    <2> PICK answer \in Answers : CheckExists!(answer)
      BY <1>11 DEF CheckExists
    <2> DEFINE l == [local EXCEPT !.perform = TRUE]
    <2>1. op = "delete" /\ local.target \in Names /\ local.response # NoRecord
      BY DEF TypeOK, StepOK
    <2>2. /\ l \in LocalType /\ l.target \in Names /\ l.response # NoRecord
      BY <2>1, <1>0 DEF LocalType
    <2>3. /\ \/ Goto(answer, "delete", l, props) \/ AfterCall(answer)
          /\ pc # "idle" /\ Charge(answer) /\ UNCHANGED objects
      OBVIOUS
    <2> HIDE DEF l
    <2> QED
      BY <2>1, <2>2, <2>3, <1>0, GotoType, AfterCallType, ChargeType DEF TypeOK
  <1>12. CASE DeleteCall
    <2> PICK answer \in Answers : DeleteCall!(answer)
      BY <1>12 DEF DeleteCall
    <2>1. op = "delete" /\ local.target \in Names /\ local.response # NoRecord
      BY DEF TypeOK, StepOK
    <2>2. objects' \in [Names -> Objects]
      BY <2>1, ObjectType, WriteType DEF TypeOK
    <2>3. /\ AfterCall(answer) \/ Recoverable(props)
          /\ pc # "idle" /\ Charge(answer)
      OBVIOUS
    <2> QED
      BY <2>1, <2>2, <2>3, <1>0, AfterCallType, RecoverableType, ChargeType
      DEF TypeOK
  <1>13. CASE Recheck
    <2> PICK answer \in Answers : Recheck!(answer)
      BY <1>13 DEF Recheck
    <2>1. op = "delete" /\ local.target \in Names /\ local.response # NoRecord
      BY DEF TypeOK, StepOK
    <2>2. PerformOnDelete(policy, Found(answer, local.target)) \in BOOLEAN
      BY DEF PerformOnDelete
    <2> QED
      BY <2>1, <2>2, <1>0, AfterCallType, ChargeType DEF TypeOK
  <1> QED
    BY <1>1, <1>2, <1>3, <1>4, <1>5, <1>6, <1>7, <1>8, <1>9, <1>10, <1>11,
       <1>12, <1>13 DEF Worker

\* The steps of the rest of the world keep the types.
LEMMA TypeWorld ==
    ASSUME TypeOK, World PROVE TypeOK'
  <1> USE DEF TypeOK, WorldTypeOK, InstanceTypeOK, StepOK
  <1> PICK n \in Names : Redefine(n) \/ Controller(n) \/ OtherClient(n)
    BY DEF World
  <1>1. CASE Redefine(n)
    BY <1>1 DEF Redefine, task
  <1>2. CASE Controller(n)
    <2>1. objects' \in [Names -> Objects]
      BY <1>2, ObjectType DEF Controller
    <2> QED
      BY <1>2, <2>1 DEF Controller, node, task
  <1>3. CASE OtherClient(n)
    <2>1. objects' \in [Names -> Objects]
      BY <1>3, ObjectType DEF OtherClient
    <2> QED
      BY <1>3, <2>1 DEF OtherClient, node, task
  <1> QED
    BY <1>1, <1>2, <1>3

\* Every state has the types its declarations say: objects stay objects, the
\* runtime properties keep their shape through every failed attempt and crash,
\* and each step of the worker finds what it uses.
THEOREM TypeCorrect == Spec => []TypeOK
  <1>1. TypeOK /\ UNCHANGED vars => TypeOK'
    BY DEF TypeOK, WorldTypeOK, InstanceTypeOK, StepOK, vars, node, task
  <1>2. TypeOK /\ [Next]_vars => TypeOK'
    BY <1>1, TypeEngine, TypeWorker, TypeWorld DEF Next
  <1> QED
    BY TypeInit, <1>2, PTL DEF Spec

-----------------------------------------------------------------------------
(* What the worker knows when it writes.                                   *)

\* Controllers bring no object into being.
LEMMA ControllersCreateNothing ==
    ASSUME TypeOK, NEW n \in Names, Controller(n)
    PROVE  \A m \in Names : /\ Exists(objects'[m]) => Exists(objects[m])
                            /\ objects'[m].owner = "plugin" =>
                                  objects[m].owner = "plugin"
  <1>1. PICK o \in Settled(objects[n]) \cup Finalized(objects[n]) :
           objects' = [objects EXCEPT ![n] = o]
    BY DEF Controller
  <1>2. /\ Exists(o) => Exists(objects[n])
        /\ o.owner = "plugin" => objects[n].owner = "plugin"
    BY DEF Settled, Finalized, Exists, Missing, TypeOK, WorldTypeOK, Objects
  <1> QED
    BY <1>1, <1>2 DEF TypeOK, WorldTypeOK

\* handle_existing_resource and handle_delete_resource let a task write only
\* when the check found no object, or the object is the node's own.
LEMMA DecisionsNeedAbsence ==
    ASSUME NEW p \in Policy, NEW exists \in BOOLEAN
    PROVE  /\ PerformOnExisting(p, exists) =>
                 ~exists /\ (p.use_external_resource => p.create_if_missing)
           /\ PerformOnDelete(p, exists) /\ p.use_external_resource => ~exists
  BY DEF Policy, PerformOnExisting, PerformOnDelete

\* use_if_exists changes no decision: an object that may not be used is read
\* like one that may.
THEOREM UseIfExistsDecidesNothing ==
    ASSUME NEW p \in Policy, NEW exists \in BOOLEAN, NEW b \in BOOLEAN
    PROVE  PerformOnExisting([p EXCEPT !.use_if_exists = b], exists)
             = PerformOnExisting(p, exists)
  BY DEF Policy, PerformOnExisting

\* The steps after which the worker is not about to write.
LEMMA HarmlessSteps ==
    ASSUME pc' \notin {"call", "recreate", "delete"}
    PROVE  SureOfAbsence'
  BY DEF SureOfAbsence

\* Neither end of an attempt leaves the worker about to write, and neither does
\* a delete after its call.
LEMMA EndsAreHarmless ==
    ASSUME NEW answer,
           \/ \E p : Recoverable(p)
           \/ \E result, p : End(result, p)
           \/ AfterCall(answer)
           \/ \E b \in BOOLEAN : AfterDelete(answer, b)
    PROVE  pc' \notin {"call", "recreate", "delete"}
  BY DEF Recoverable, End, AfterCall, AfterDelete, FinishDelete, Goto

\* SureOfAbsence survives the worker's steps.
LEMMA SureWorker ==
    ASSUME TypeOK, SureOfAbsence, Worker PROVE SureOfAbsence'
  <1>0. policy \in Policy
    BY PoliciesAssumption DEF TypeOK, InstanceTypeOK
  <1>1. CASE MappingFails
    BY <1>1, EndsAreHarmless, HarmlessSteps DEF MappingFails
  <1>2. CASE CheckState
    <2> PICK answer \in Answers : CheckState!(answer)
      BY <1>2 DEF CheckState
    <2> DEFINE exists == Found(answer, definition)
    <2>1. exists \in BOOLEAN
      BY DEF Found, Exists
    <2>2. /\ pc' = "call" /\ op' = op
          /\ local'.perform = PerformOnExisting(policy, exists)
          /\ disturbed' = (disturbed \/ answer # "ok")
          /\ UNCHANGED <<objects, policy, definition>>
      BY DEF Goto, node, TypeOK, InstanceTypeOK, LocalType
    <2>3. exists \/ answer # "ok" \/ ~Exists(objects[definition])
      BY DEF Found
    <2> HIDE DEF exists
    <2> QED
      BY <1>0, <2>1, <2>2, <2>3, DecisionsNeedAbsence DEF SureOfAbsence
  <1>3. CASE CreateCall
    BY <1>3, EndsAreHarmless, HarmlessSteps DEF CreateCall, Goto
  <1>4. CASE ReadCall
    BY <1>4, EndsAreHarmless, HarmlessSteps DEF ReadCall, Goto
  <1>5. CASE UpdateCall
    BY <1>5, EndsAreHarmless, HarmlessSteps DEF UpdateCall, Goto
  <1>6. CASE Store
    BY <1>6, EndsAreHarmless, HarmlessSteps DEF Store
  <1>7. CASE CheckStatusCall
    <2> PICK answer \in Answers : CheckStatusCall!(answer)
      BY <1>7 DEF CheckStatusCall
    <2>1. CASE pc' # "recreate"
      BY <2>1, EndsAreHarmless, HarmlessSteps DEF Goto
    <2>2. CASE pc' = "recreate"
      <3>1. /\ ~Found(answer, definition)
            /\ disturbed' = (disturbed \/ answer # "ok")
            /\ UNCHANGED <<objects, definition>>
        BY <2>2 DEF Goto, Recoverable, End, node
      <3> QED
        BY <2>2, <3>1 DEF SureOfAbsence, Found
    <2> QED
      BY <2>1, <2>2
  <1>8. CASE RecreateCall
    BY <1>8, EndsAreHarmless, HarmlessSteps DEF RecreateCall
  <1>9. CASE CheckDriftCall
    BY <1>9, EndsAreHarmless, HarmlessSteps DEF CheckDriftCall
  <1>10. CASE ReadForDelete
    BY <1>10, EndsAreHarmless, HarmlessSteps
    DEF ReadForDelete, FinishDelete, Goto
  <1>11. CASE CheckExists
    <2> PICK answer \in Answers : CheckExists!(answer)
      BY <1>11 DEF CheckExists
    <2>1. CASE ~PerformOnDelete(policy, Found(answer, local.target))
      BY <2>1, EndsAreHarmless, HarmlessSteps
    <2>2. CASE PerformOnDelete(policy, Found(answer, local.target))
      <3>1. /\ pc' = "delete" /\ local'.target = local.target
            /\ disturbed' = (disturbed \/ answer # "ok")
            /\ UNCHANGED <<objects, policy>>
        BY <2>2 DEF Goto, node, TypeOK, InstanceTypeOK, LocalType
      <3>2. policy.use_external_resource => ~Found(answer, local.target)
        BY <1>0, <2>2, DecisionsNeedAbsence DEF Found, Exists
      <3> QED
        BY <3>1, <3>2 DEF SureOfAbsence, Found
    <2> QED
      BY <2>1, <2>2
  <1>12. CASE DeleteCall
    BY <1>12, EndsAreHarmless, HarmlessSteps DEF DeleteCall
  <1>13. CASE Recheck
    <2> PICK answer \in Answers : Recheck!(answer)
      BY <1>13 DEF Recheck
    <2>1. PerformOnDelete(policy, Found(answer, local.target)) \in BOOLEAN
      BY DEF PerformOnDelete
    <2> QED
      BY <2>1, EndsAreHarmless, HarmlessSteps
  <1> QED
    BY <1>1, <1>2, <1>3, <1>4, <1>5, <1>6, <1>7, <1>8, <1>9, <1>10, <1>11,
       <1>12, <1>13 DEF Worker

\* SureOfAbsence survives the engine, crashes and the rest of the world.
LEMMA SureOthers ==
    ASSUME TypeOK, SureOfAbsence, Engine \/ CrashAndResume \/ World
    PROVE  SureOfAbsence'
  <1>1. ASSUME NEW o, Begin(o) PROVE SureOfAbsence'
    <2>1. /\ pc' = "check" \/ pc' = "call"
          /\ ~local'.perform
      BY <1>1 DEF Begin, FirstStep, NoLocal
    <2> QED
      BY <2>1 DEF SureOfAbsence
  <1>2. CASE Engine \/ CrashAndResume
    BY <1>1, <1>2, EndsAreHarmless, HarmlessSteps
    DEF Engine, Retry, Exhaust, Start, CrashAndResume
  <1>3. CASE World
    <2> PICK n \in Names : Redefine(n) \/ Controller(n) \/ OtherClient(n)
      BY <1>3 DEF World
    <2>1. CASE Redefine(n)
      BY <2>1, HarmlessSteps DEF Redefine, task, TypeOK, StepOK
    <2>2. CASE Controller(n)
      BY <2>2, ControllersCreateNothing
      DEF Controller, node, task, SureOfAbsence, TypeOK, InstanceTypeOK, StepOK
    <2>3. CASE OtherClient(n)
      BY <2>3 DEF OtherClient, node, task, SureOfAbsence
    <2> QED
      BY <2>1, <2>2, <2>3
  <1> QED
    BY <1>2, <1>3

\* What a worker saw in its checks still holds when it acts on it, in every
\* attempt without a fault or another client.
THEOREM AbsenceHolds == Spec => []SureOfAbsence
  <1>1. Init => SureOfAbsence
    BY HarmlessSteps DEF Init, SureOfAbsence
  <1>2. TypeOK /\ SureOfAbsence /\ [Next]_vars => SureOfAbsence'
    <2>1. SureOfAbsence /\ UNCHANGED vars => SureOfAbsence'
      BY DEF SureOfAbsence, vars, node, task
    <2> QED
      BY <2>1, SureWorker, SureOthers DEF Next
  <1> QED
    BY <1>1, <1>2, TypeCorrect, PTL DEF Spec

-----------------------------------------------------------------------------
(* The safety properties.                                                  *)

\* One step changes no object of a node that only expects it.
LEMMA ExternalStep ==
    ASSUME TypeOK, SureOfAbsence, [Next]_vars, NEW n \in Names,
           policy.use_external_resource, ~disturbed,
           op \notin {"none", "update"}, pc' # pc, objects'[n] # objects[n]
    PROVE  ~Exists(objects[n]) /\ (policy.create_if_missing \/ op = "heal")
  <1>1. CASE CreateCall
    <2> PICK answer \in Answers : CreateCall!(answer)
      BY <1>1 DEF CreateCall
    <2>1. n = definition
      BY DEF Write, TypeOK, WorldTypeOK
    <2> QED
      BY <2>1 DEF SureOfAbsence
  <1>2. CASE RecreateCall
    <2> PICK answer \in Answers : RecreateCall!(answer)
      BY <1>2 DEF RecreateCall
    <2>1. n = definition
      BY DEF Write, TypeOK, WorldTypeOK
    <2> QED
      BY <2>1 DEF SureOfAbsence, TypeOK, StepOK
  <1>3. CASE DeleteCall
    <2> PICK answer \in Answers : DeleteCall!(answer)
      BY <1>3 DEF DeleteCall
    <2>1. ~Exists(objects[local.target])
      BY DEF SureOfAbsence
    <2>2. UNCHANGED objects
      BY <2>1 DEF Write, Deleted, TypeOK, WorldTypeOK, StepOK
    <2> QED
      BY <2>2
  <1>4. CASE \/ MappingFails \/ CheckState \/ ReadCall \/ Store
             \/ CheckStatusCall \/ CheckDriftCall \/ ReadForDelete
             \/ CheckExists \/ Recheck
    BY <1>4 DEF MappingFails, CheckState, ReadCall, Store, CheckStatusCall,
                CheckDriftCall, ReadForDelete, CheckExists, Recheck
  <1>5. CASE UpdateCall
    BY <1>5 DEF UpdateCall
  <1>6. CASE Engine \/ CrashAndResume
    BY <1>6 DEF Engine, Retry, Exhaust, Start, Begin, CrashAndResume
  <1>7. CASE World
    BY <1>7 DEF World, Redefine, Controller, OtherClient, task
  <1>8. CASE UNCHANGED vars
    BY <1>8 DEF vars
  <1> QED
    BY <1>1, <1>2, <1>3, <1>4, <1>5, <1>6, <1>7, <1>8 DEF Next, Worker

\* With use_external_resource nothing but an update changes an object of the
\* cluster in an undisturbed attempt, and an absent one is created only with
\* create_if_missing or by a heal.
THEOREM ExternalIsUntouched == Spec => ExternalUntouched
  <1>1. TypeOK /\ SureOfAbsence /\ [Next]_vars =>
          [\A n \in Names :
             /\ policy.use_external_resource /\ ~disturbed
             /\ op \notin {"none", "update"} /\ pc' # pc
             /\ objects'[n] # objects[n]
             => /\ ~Exists(objects[n])
                /\ policy.create_if_missing \/ op = "heal"]_vars
    BY ExternalStep
  <1> QED
    BY <1>1, TypeCorrect, AbsenceHolds, PTL DEF Spec, ExternalUntouched

\* "The resource already exists" is said only when something came between the
\* check and the POST.
THEOREM ConflictNeedsDisturbance == Spec => ConflictOnlyWhenDisturbed
  <1>1. ASSUME TypeOK, SureOfAbsence, [Next]_vars, outcome' = "conflict",
               outcome # "conflict"
        PROVE  disturbed
    <2>1. CASE CreateCall
      BY <1>1, <2>1 DEF CreateCall, SureOfAbsence, Goto, Recoverable, node
    <2>2. CASE RecreateCall
      BY <1>1, <2>2 DEF RecreateCall, SureOfAbsence, Recoverable, node
    <2>3. CASE \/ MappingFails \/ CheckState \/ ReadCall \/ UpdateCall \/ Store
               \/ CheckStatusCall \/ CheckDriftCall
      BY <1>1, <2>3
      DEF MappingFails, CheckState, ReadCall, UpdateCall, Store,
          CheckStatusCall, CheckDriftCall, Goto, Recoverable, End, node
    <2>4. CASE ReadForDelete \/ CheckExists \/ DeleteCall \/ Recheck
      BY <1>1, <2>4
      DEF ReadForDelete, CheckExists, DeleteCall, Recheck, AfterCall,
          AfterDelete, FinishDelete, Goto, Recoverable, End, node
    <2>5. CASE Engine \/ CrashAndResume
      BY <1>1, <2>5
      DEF Engine, Retry, Exhaust, Start, Begin, End, CrashAndResume
    <2>6. CASE World
      BY <1>1, <2>6 DEF World, Redefine, Controller, OtherClient, node
    <2>7. CASE UNCHANGED vars
      BY <1>1, <2>7 DEF vars, node
    <2> QED
      BY <1>1, <2>1, <2>2, <2>3, <2>4, <2>5, <2>6, <2>7 DEF Next, Worker
  <1>2. TypeOK /\ SureOfAbsence /\ [Next]_vars =>
          [/\ outcome' = "conflict" /\ outcome # "conflict"
           /\ policy.use_if_exists \/ op = "heal"
           => disturbed]_vars
    BY <1>1
  <1> QED
    BY <1>2, TypeCorrect, AbsenceHolds, PTL DEF Spec, ConflictOnlyWhenDisturbed

\* A write of the plugin makes it the owner of no object but the one its
\* definition names.
LEMMA OwnsOnlyItsName ==
    ASSUME TypeOK, [Next]_vars, NEW n \in Names, n # definition,
           objects[n].owner # "plugin"
    PROVE  objects'[n].owner # "plugin"
  <1> USE DEF TypeOK, WorldTypeOK
  <1>1. CASE CreateCall \/ RecreateCall \/ UpdateCall
    BY <1>1 DEF CreateCall, RecreateCall, UpdateCall, Write
  <1>2. CASE DeleteCall
    <2> PICK answer \in Answers : DeleteCall!(answer)
      BY <1>2 DEF DeleteCall
    <2>1. CASE UNCHANGED objects
      BY <2>1
    <2>2. ASSUME NEW o \in Deleted(objects[local.target]),
                 objects' = [objects EXCEPT ![local.target] = o]
          PROVE  objects'[n].owner # "plugin"
      <3>1. o.owner = "plugin" => objects[local.target].owner = "plugin"
        BY DEF Deleted, Missing, Objects, StepOK, Exists
      <3> QED
        BY <2>2, <3>1 DEF StepOK
    <2> QED
      BY <2>1, <2>2 DEF Write
  <1>3. CASE \/ MappingFails \/ CheckState \/ ReadCall \/ Store
             \/ CheckStatusCall \/ CheckDriftCall \/ ReadForDelete
             \/ CheckExists \/ Recheck
    BY <1>3 DEF MappingFails, CheckState, ReadCall, Store, CheckStatusCall,
                CheckDriftCall, ReadForDelete, CheckExists, Recheck
  <1>4. CASE Engine \/ CrashAndResume
    BY <1>4 DEF Engine, Retry, Exhaust, Start, Begin, CrashAndResume
  <1>5. CASE World
    <2> PICK m \in Names : Redefine(m) \/ Controller(m) \/ OtherClient(m)
      BY <1>5 DEF World
    <2>1. CASE Redefine(m)
      BY <2>1 DEF Redefine
    <2>2. CASE Controller(m)
      BY <2>2, ControllersCreateNothing
    <2>3. CASE OtherClient(m)
      <3>1. PICK o \in ChangedByOthers(objects[m]) :
               objects' = [objects EXCEPT ![m] = o]
        BY <2>3 DEF OtherClient
      <3>2. o.owner = "plugin" => objects[m].owner = "plugin"
        BY DEF ChangedByOthers, Deleted, Missing, Objects, Exists
      <3> QED
        BY <3>1, <3>2
    <2> QED
      BY <2>1, <2>2, <2>3
  <1>6. CASE UNCHANGED vars
    BY <1>6 DEF vars
  <1> QED
    BY <1>1, <1>2, <1>3, <1>4, <1>5, <1>6 DEF Next, Worker

\* An operation reaches the stage "deleted" only from a read that answered 404,
\* or for a node that uses an external resource.
LEMMA DeletedAfterAbsence ==
    ASSUME TypeOK, [Next]_vars, stage' = "deleted", stage # "deleted"
    PROVE  /\ ~Exists(objects[definition]) \/ policy.use_external_resource
           /\ UNCHANGED <<policy, definition>>
           /\ UNCHANGED objects \/ policy.use_external_resource
  <1>1. ASSUME NEW result, NEW p, End(result, p), stage' = "deleted"
        PROVE  op = "delete" /\ result = "success" /\ UNCHANGED <<policy, definition>>
    BY <1>1 DEF End, StageAfter
  <1>2. ASSUME NEW answer,
               \/ AfterCall(answer)
               \/ AfterDelete(answer, PerformOnDelete(policy, FALSE))
               \/ AfterDelete(answer, PerformOnDelete(policy, TRUE))
        PROVE  policy.use_external_resource /\ UNCHANGED <<policy, definition>>
    BY <1>1, <1>2
    DEF AfterCall, AfterDelete, FinishDelete, PerformOnDelete, Goto, node
  <1>3. CASE MappingFails \/ CheckState \/ ReadCall \/ UpdateCall \/ CreateCall
    BY <1>1, <1>3
    DEF MappingFails, CheckState, ReadCall, UpdateCall, CreateCall, Goto,
        Recoverable, node
  <1>4. CASE Store \/ CheckStatusCall \/ RecreateCall \/ CheckDriftCall
    BY <1>1, <1>4
    DEF Store, CheckStatusCall, RecreateCall, CheckDriftCall, Goto,
        Recoverable, node, TypeOK, StepOK
  <1>5. CASE ReadForDelete
    BY <1>1, <1>5 DEF ReadForDelete, FinishDelete, Found, Goto, Recoverable, node
  <1>6. CASE CheckExists
    BY <1>2, <1>6 DEF CheckExists, Goto, node
  <1>7. CASE DeleteCall
    BY <1>2, <1>7 DEF DeleteCall, Recoverable, node
  <1>8. CASE Recheck
    <2> PICK answer \in Answers : Recheck!(answer)
      BY <1>8 DEF Recheck
    <2>1. Found(answer, local.target) \in BOOLEAN
      BY DEF Found, Exists
    <2> QED
      BY <1>2, <2>1
  <1>9. CASE Engine \/ CrashAndResume
    BY <1>1, <1>9 DEF Engine, Retry, Exhaust, Start, Begin, CrashAndResume
  <1>10. CASE World
    BY <1>10 DEF World, Redefine, Controller, OtherClient, node
  <1>11. CASE UNCHANGED vars
    BY <1>11 DEF vars, node
  <1> QED
    BY <1>3, <1>4, <1>5, <1>6, <1>7, <1>8, <1>9, <1>10, <1>11 DEF Next, Worker

\* Nothing is created, and nothing is redefined, once the node is uninstalled.
LEMMA DeletedIsQuiet ==
    ASSUME TypeOK, [Next]_vars, stage = "deleted", stage' = "deleted"
    PROVE  /\ UNCHANGED policy
           /\ \A n \in Names : objects'[n].owner = "plugin" =>
                                 objects[n].owner = "plugin"
  <1>1. pc = "idle" \/ pc = "retry" \/ op \notin {"create", "heal", "update", "delete"}
    BY DEF TypeOK, StepOK
  <1>2. op = "none" /\ pc = "idle"
    BY DEF TypeOK, StepOK
  <1>3. CASE Worker
    <2>1. FirstStep(op) # "idle"
      BY DEF FirstStep
    <2> QED
      BY <1>2, <1>3, <2>1
      DEF Worker, MappingFails, CheckState, CreateCall, ReadCall, UpdateCall,
          Store, CheckStatusCall, RecreateCall, CheckDriftCall, ReadForDelete,
          CheckExists, DeleteCall, Recheck
  <1>4. CASE Engine \/ CrashAndResume
    BY <1>2, <1>4 DEF Engine, Retry, Exhaust, Start, Begin, CrashAndResume
  <1>5. CASE World
    <2> PICK n \in Names : Redefine(n) \/ Controller(n) \/ OtherClient(n)
      BY <1>5 DEF World
    <2>1. CASE Redefine(n)
      BY <2>1 DEF Redefine
    <2>2. CASE Controller(n)
      BY <2>2, ControllersCreateNothing DEF Controller, node
    <2>3. CASE OtherClient(n)
      <3>1. PICK o \in ChangedByOthers(objects[n]) :
               objects' = [objects EXCEPT ![n] = o]
        BY <2>3 DEF OtherClient
      <3>2. o.owner = "plugin" => objects[n].owner = "plugin"
        BY DEF ChangedByOthers, Deleted, Missing, Objects, Exists, TypeOK,
               WorldTypeOK
      <3> QED
        BY <2>3, <3>1, <3>2 DEF OtherClient, node, TypeOK, WorldTypeOK
    <2> QED
      BY <2>1, <2>2, <2>3
  <1>6. CASE UNCHANGED vars
    BY <1>6 DEF vars, node
  <1> QED
    BY <1>3, <1>4, <1>5, <1>6 DEF Next

\* Only a deployment update changes the definition or uses up a redefinition.
LEMMA DefinitionStays ==
    ASSUME TypeOK, [Next]_vars, ~ \E n \in Names : Redefine(n)
    PROVE  UNCHANGED definition /\ budget'.redefinitions = budget.redefinitions
  <1> DEFINE Same == budget'.redefinitions = budget.redefinitions
  <1>1. ASSUME NEW answer, Charge(answer) PROVE Same
    BY <1>1 DEF Charge, TypeOK, WorldTypeOK
  <1>2. CASE MappingFails \/ Store
    BY <1>2 DEF MappingFails, Store, End, Recoverable, node
  <1>3. CASE CheckState \/ CreateCall \/ ReadCall \/ UpdateCall
    BY <1>1, <1>3
    DEF CheckState, CreateCall, ReadCall, UpdateCall, End, Recoverable, Goto, node
  <1>4. CASE CheckStatusCall \/ RecreateCall \/ CheckDriftCall
    BY <1>1, <1>4
    DEF CheckStatusCall, RecreateCall, CheckDriftCall, End, Recoverable, Goto, node
  <1>5. CASE ReadForDelete \/ CheckExists \/ DeleteCall \/ Recheck
    BY <1>1, <1>5
    DEF ReadForDelete, CheckExists, DeleteCall, Recheck, AfterCall, AfterDelete,
        FinishDelete, End, Recoverable, Goto, node
  <1>6. CASE Engine \/ CrashAndResume
    BY <1>6 DEF Engine, Retry, Exhaust, Start, Begin, End, CrashAndResume,
                TypeOK, WorldTypeOK
  <1>7. CASE World
    BY <1>7 DEF World, Controller, OtherClient, node, TypeOK, WorldTypeOK
  <1>8. CASE UNCHANGED vars
    BY <1>8 DEF vars, node
  <1> QED
    BY <1>2, <1>3, <1>4, <1>5, <1>6, <1>7, <1>8 DEF Next, Worker

\* Without redefinitions there are none, and the definition stays.
LEMMA NoRedefinition ==
    ASSUME TypeOK, budget.redefinitions = 0, [Next]_vars
    PROVE  budget'.redefinitions = 0 /\ UNCHANGED definition
  <1>1. ~ \E n \in Names : Redefine(n)
    BY DEF Redefine
  <1> QED
    BY <1>1, DefinitionStays

\* What makes NothingLeftBehind inductive while the definition stays the same:
\* the plugin creates nothing under another name.
OwnershipInv ==
    /\ budget.redefinitions = 0
    /\ \A n \in Names : objects[n].owner = "plugin" => n = definition
    /\ NothingLeftBehind

\* While the definition of the node stays the same, the plugin owns nothing but
\* the object of that name.
LEMMA OwnershipHolds ==
    ASSUME MaxRedefinitions = 0 PROVE Spec => []OwnershipInv
  <1>1. Init => OwnershipInv
    BY DEF Init, OwnershipInv, NothingLeftBehind, Missing
  <1>2. ASSUME TypeOK, OwnershipInv, [Next]_vars PROVE OwnershipInv'
    <2>1. budget'.redefinitions = 0 /\ UNCHANGED definition
      BY <1>2, NoRedefinition DEF OwnershipInv
    <2>2. \A n \in Names : objects'[n].owner = "plugin" => n = definition'
      BY <1>2, <2>1, OwnsOnlyItsName DEF OwnershipInv
    <2>3. NothingLeftBehind'
      <3>1. CASE stage' # "deleted"
        BY <3>1 DEF NothingLeftBehind
      <3>2. CASE stage = "deleted" /\ stage' = "deleted"
        BY <1>2, <3>2, DeletedIsQuiet DEF OwnershipInv, NothingLeftBehind
      <3>3. CASE stage # "deleted" /\ stage' = "deleted"
        <4>1. ~Exists(objects[definition]) => objects[definition].owner = "none"
          BY <1>2 DEF TypeOK, WorldTypeOK, InstanceTypeOK, Objects, Missing,
                      Exists, Phases
        <4> QED
          BY <1>2, <2>2, <3>3, <4>1, DeletedAfterAbsence DEF NothingLeftBehind
      <3> QED
        BY <3>1, <3>2, <3>3
    <2> QED
      BY <2>1, <2>2, <2>3 DEF OwnershipInv
  <1> QED
    BY <1>1, <1>2, TypeCorrect, PTL DEF Spec

\* While the definition of the node stays the same, an uninstalled node that
\* does not use an external resource has left nothing it created.
THEOREM UninstallIsClean ==
    ASSUME MaxRedefinitions = 0 PROVE Spec => []NothingLeftBehind
  <1>1. OwnershipInv => NothingLeftBehind
    BY DEF OwnershipInv
  <1> QED
    BY <1>1, OwnershipHolds, PTL

\* What makes RedefinitionsLeaveOneEach inductive: at any stage, there is no more
\* than one object of the plugin for each redefinition, and the one that bears
\* the present name.
LeftInv ==
    /\ IsFiniteSet(Owned)
    /\ Cardinality(Owned \ {definition}) <= MaxRedefinitions - budget.redefinitions
    /\ RedefinitionsLeaveOneEach

\* Parts of a finite set are finite and no larger.
LEMMA PartsAreSmall ==
    ASSUME NEW S, NEW T, T \subseteq S, IsFiniteSet(S)
    PROVE  /\ IsFiniteSet(T) /\ Cardinality(T) <= Cardinality(S)
           /\ Cardinality(T) \in Nat /\ Cardinality(S) \in Nat
  BY FS_Subset, FS_CardinalityType

\* A deployment update changes nothing in the cluster; what bore the old name now
\* bears one of the earlier ones.
LEMMA LeftByRedefine ==
    ASSUME TypeOK, LeftInv, NEW n \in Names, Redefine(n)
    PROVE  LeftInv'
  <1> DEFINE before == Owned \ {definition}
  <1>1. /\ UNCHANGED <<Owned, stage, policy>> /\ definition' = n
        /\ budget'.redefinitions = budget.redefinitions - 1
    BY DEF Redefine, Owned, TypeOK, WorldTypeOK
  <1>2. IsFiniteSet(before) /\ Cardinality(before) \in Nat
    BY PartsAreSmall DEF LeftInv
  <1>3. /\ IsFiniteSet(before \cup {definition})
        /\ Cardinality(before \cup {definition}) <= Cardinality(before) + 1
        /\ Cardinality(before \cup {definition}) \in Nat
    <2>1. definition \notin before
      OBVIOUS
    <2>2. /\ IsFiniteSet(before \cup {definition})
          /\ Cardinality(before \cup {definition}) = Cardinality(before) + 1
      BY <1>2, <2>1, FS_AddElement
    <2> HIDE DEF before
    <2> QED
      BY <1>2, <2>2
  <1>4. Owned \ {n} \subseteq before \cup {definition}
    OBVIOUS
  <1>5. /\ Cardinality(Owned \ {n}) <= Cardinality(before \cup {definition})
        /\ Cardinality(Owned \ {n}) \in Nat
    BY <1>3, <1>4, PartsAreSmall
  <1>6. MaxRedefinitions \in Int /\ budget.redefinitions \in Int
    BY BoundsAssumption DEF TypeOK, WorldTypeOK
  <1>7. Cardinality(Owned \ {n})
          <= MaxRedefinitions - (budget.redefinitions - 1)
    BY <1>2, <1>3, <1>5, <1>6 DEF LeftInv
  <1>8. RedefinitionsLeaveOneEach'
    <2>1. Cardinality(Owned) \in Nat
      BY FS_CardinalityType DEF LeftInv
    <2> QED
      BY <1>1, <1>6, <2>1 DEF LeftInv, RedefinitionsLeaveOneEach
  <1> QED
    BY <1>1, <1>7, <1>8 DEF LeftInv

\* Any other step makes at most the object of the present name, and a delete
\* succeeds only when that one is not there.
LEMMA LeftByOthers ==
    ASSUME TypeOK, LeftInv, [Next]_vars, ~ \E n \in Names : Redefine(n)
    PROVE  LeftInv'
  <1>1. UNCHANGED definition /\ budget'.redefinitions = budget.redefinitions
    BY DefinitionStays
  <1>2. Owned' \ {definition} \subseteq Owned \ {definition}
    BY OwnsOnlyItsName DEF Owned
  <1>3. IsFiniteSet(Owned')
    <2>1. IsFiniteSet(Owned \cup {definition})
      BY FS_AddElement DEF LeftInv
    <2> QED
      BY <1>2, <2>1, FS_Subset
  <1>4. IsFiniteSet(Owned \ {definition})
    BY PartsAreSmall DEF LeftInv
  <1>5. /\ Cardinality(Owned' \ {definition}) <= Cardinality(Owned \ {definition})
        /\ Cardinality(Owned' \ {definition}) \in Nat
        /\ Cardinality(Owned \ {definition}) \in Nat
    BY <1>2, <1>4, PartsAreSmall
  <1>6. MaxRedefinitions \in Int /\ budget.redefinitions \in Int
    BY BoundsAssumption DEF TypeOK, WorldTypeOK
  <1>7. Cardinality(Owned' \ {definition})
          <= MaxRedefinitions - budget.redefinitions
    BY <1>5, <1>6 DEF LeftInv
  <1>8. RedefinitionsLeaveOneEach'
    <2>1. CASE stage' # "deleted"
      BY <2>1 DEF RedefinitionsLeaveOneEach
    <2>2. CASE stage = "deleted" /\ stage' = "deleted"
      <3>1. UNCHANGED policy /\ Owned' \subseteq Owned
        BY <2>2, DeletedIsQuiet DEF Owned
      <3>2. /\ Cardinality(Owned') <= Cardinality(Owned)
            /\ Cardinality(Owned') \in Nat /\ Cardinality(Owned) \in Nat
        BY <3>1, PartsAreSmall DEF LeftInv
      <3> QED
        BY <1>1, <1>6, <2>2, <3>1, <3>2
        DEF LeftInv, RedefinitionsLeaveOneEach
    <2>3. CASE stage # "deleted" /\ stage' = "deleted"
      <3>1. CASE policy.use_external_resource
        BY <2>3, <3>1, DeletedAfterAbsence DEF RedefinitionsLeaveOneEach
      <3>2. CASE ~policy.use_external_resource
        <4>1. ~Exists(objects[definition]) /\ UNCHANGED objects
          BY <2>3, <3>2, DeletedAfterAbsence
        <4>2. objects[definition].owner = "none"
          BY <4>1 DEF TypeOK, WorldTypeOK, InstanceTypeOK, Objects, Missing,
                      Exists, Phases
        <4>3. Owned' = Owned' \ {definition}
          BY <4>1, <4>2 DEF Owned
        <4> QED
          BY <1>1, <1>7, <4>3 DEF RedefinitionsLeaveOneEach
      <3> QED
        BY <3>1, <3>2
    <2> QED
      BY <2>1, <2>2, <2>3
  <1> QED
    BY <1>1, <1>3, <1>7, <1>8 DEF LeftInv

\* An uninstalled node that does not use an external resource has left no more
\* than one object for each deployment update that changed its definition,
\* whatever failed and crashed, and however often it was created again.
THEOREM RedefinitionsLeaveFew == Spec => []RedefinitionsLeaveOneEach
  <1>1. Init => LeftInv
    <2> SUFFICES ASSUME Init PROVE LeftInv
      OBVIOUS
    <2>1. Owned = {}
      BY DEF Init, Owned, Missing
    <2>2. Owned \ {definition} = {}
      BY <2>1
    <2>3. budget.redefinitions = MaxRedefinitions /\ MaxRedefinitions \in Int
      BY BoundsAssumption DEF Init
    <2> QED
      BY <2>1, <2>2, <2>3, FS_EmptySet DEF LeftInv, RedefinitionsLeaveOneEach
  <1>2. TypeOK /\ LeftInv /\ [Next]_vars => LeftInv'
    BY LeftByRedefine, LeftByOthers
  <1>3. LeftInv => RedefinitionsLeaveOneEach
    BY DEF LeftInv
  <1> QED
    BY <1>1, <1>2, <1>3, TypeCorrect, PTL DEF Spec

-----------------------------------------------------------------------------
(* The stored response and the stored definitions.                         *)

Distinct(defs) == \A i, j \in DOMAIN defs : defs[i] = defs[j] => i = j
Stored(defs, n) == \E i \in DOMAIN defs : defs[i] = n

\* pop() and remove_resource_definition leave no definition twice.
LEMMA PoppedDistinct ==
    ASSUME NEW d \in Seq(Names), Distinct(d) PROVE Distinct(Popped(d))
  BY DEF Popped, Distinct

\* A list without a definition is distinct if the list is.
LEMMA RemoveDistinct ==
    ASSUME NEW d \in Seq(Names), Distinct(d), NEW n
    PROVE  Distinct(RemoveDefinition(d, n))
  <1>1. CASE ~Stored(d, n)
    BY <1>1 DEF RemoveDefinition, Stored
  <1>2. CASE Stored(d, n)
    <2> DEFINE i == CHOOSE j \in DOMAIN d : d[j] = n
               left == SubSeq(d, 1, i - 1)
               right == SubSeq(d, i + 1, Len(d))
    <2>1. i \in 1 .. Len(d)
      BY <1>2 DEF Stored
    <2>2. RemoveDefinition(d, n) = left \o right
      BY <1>2 DEF RemoveDefinition, Stored
    <2> HIDE DEF i
    <2>3. /\ left \in Seq(Names) /\ Len(left) = i - 1
          /\ \A j \in 1 .. i - 1 : left[j] = d[j]
      BY <2>1
    <2>4. /\ right \in Seq(Names) /\ Len(right) = Len(d) - i
          /\ \A j \in 1 .. Len(d) - i : right[j] = d[i + j]
      BY <2>1
    <2> HIDE DEF left, right
    <2> DEFINE rest == left \o right
    <2>a. Len(d) \in Nat
      OBVIOUS
    <2>b. /\ rest \in Seq(Names) /\ Len(rest) = Len(left) + Len(right)
          /\ \A j \in 1 .. Len(left) : rest[j] = left[j]
          /\ \A j \in Len(left) + 1 .. Len(left) + Len(right) :
                rest[j] = right[j - Len(left)]
      BY <2>3, <2>4
    <2> HIDE DEF rest
    <2>5. /\ rest \in Seq(Names) /\ Len(rest) = Len(d) - 1
          /\ \A j \in 1 .. Len(d) - 1 :
                rest[j] = IF j < i THEN d[j] ELSE d[j + 1]
      <3>1. Len(rest) = Len(d) - 1
        BY <2>1, <2>a, <2>3, <2>4, <2>b
      <3>2. ASSUME NEW j \in 1 .. Len(d) - 1, j < i PROVE rest[j] = d[j]
        BY <2>1, <2>a, <2>3, <2>b, <3>2
      <3>3. ASSUME NEW j \in 1 .. Len(d) - 1, ~(j < i) PROVE rest[j] = d[j + 1]
        <4>1. j - (i - 1) \in 1 .. Len(d) - i
          BY <2>1, <2>a, <3>3
        <4>2. rest[j] = right[j - (i - 1)]
          BY <2>1, <2>a, <2>3, <2>4, <2>b, <3>3
        <4>3. i + (j - (i - 1)) = j + 1
          BY <2>1, <2>a
        <4> QED
          BY <2>4, <4>1, <4>2, <4>3
      <3> QED
        BY <2>b, <3>1, <3>2, <3>3
    <2>6. ASSUME NEW j \in 1 .. Len(d) - 1, NEW k \in 1 .. Len(d) - 1,
                 rest[j] = rest[k]
          PROVE  j = k
      <3> DEFINE jj == IF j < i THEN j ELSE j + 1
                 kk == IF k < i THEN k ELSE k + 1
      <3>1. rest[j] = d[jj] /\ rest[k] = d[kk]
        BY <2>5
      <3>2. jj \in DOMAIN d /\ kk \in DOMAIN d
        BY <2>1
      <3>3. jj = kk
        BY <2>6, <3>1, <3>2 DEF Distinct
      <3> QED
        BY <2>1, <3>3
    <2> QED
      <3>1. DOMAIN rest = 1 .. Len(d) - 1
        BY <2>5
      <3>2. Distinct(rest)
        BY <2>6, <3>1 DEF Distinct
      <3> QED
        BY <2>2, <3>2 DEF rest
  <1> QED
    BY <1>1, <1>2

\* store_resource_definition stores what it is given, once, and forgets nothing.
LEMMA StoreKeeps ==
    ASSUME NEW d \in Seq(Names), Distinct(d), NEW n \in Names
    PROVE  Distinct(StoreDefinition(d, n)) /\ Stored(StoreDefinition(d, n), n)
  <1>1. CASE Stored(d, n)
    BY <1>1 DEF StoreDefinition, Stored
  <1>2. CASE ~Stored(d, n)
    <2>1. StoreDefinition(d, n) = Append(d, n)
      BY <1>2 DEF StoreDefinition, Stored
    <2> QED
      BY <1>2, <2>1 DEF Distinct, Stored
  <1> QED
    BY <1>1, <1>2

LedgerOK(ps, st) ==
    /\ Distinct(ps.defs)
    /\ st = "created" => ps.record # NoRecord /\ Stored(ps.defs, ps.record.name)

LedgerInv == LedgerOK(props, stage)

\* A response that is stored makes a ledger for any stage.
LEMMA StoreResultLedger ==
    ASSUME TypeOK, LedgerInv, NEW r \in Records, r # NoRecord, NEW st
    PROVE  LedgerOK(StoreResult(r), st)
  <1>1. r.name \in Names
    BY DEF Records, NoRecord
  <1> QED
    BY <1>1, StoreKeeps
    DEF TypeOK, InstanceTypeOK, PropsType, LedgerInv, LedgerOK, StoreResult

\* Outside a delete a node that is installed has been all along, or is now.
LEMMA LedgerWorker ==
    ASSUME TypeOK, LedgerInv, Worker PROVE LedgerInv'
  <1>1. UNCHANGED <<props, stage>> => LedgerInv'
    BY DEF LedgerInv
  <1>2. ASSUME NEW result, End(result, props), op = "create" => result # "success"
        PROVE  LedgerInv'
    BY <1>2 DEF End, StageAfter, LedgerInv, LedgerOK
  <1>3. CASE MappingFails
    BY <1>2, <1>3 DEF MappingFails
  <1>4. CASE CheckState \/ UpdateCall
    BY <1>1, <1>4 DEF CheckState, UpdateCall, Goto, Recoverable, node
  <1>5. CASE CreateCall
    <2>1. UNCHANGED <<props, stage>> \/ End("conflict", props)
      BY <1>5 DEF CreateCall, Goto, Recoverable, node
    <2> QED
      BY <1>1, <1>2, <2>1
  <1>6. CASE ReadCall
    BY <1>1, <1>6 DEF ReadCall, Goto, Recoverable, node
  <1>7. CASE Store
    <2>1. local.response \in Records /\ local.response # NoRecord
      BY <1>7 DEF Store, TypeOK, InstanceTypeOK, StepOK, LocalType
    <2>2. props' = StoreResult(local.response)
      BY <1>7 DEF Store, Recoverable, End
    <2> QED
      BY <2>1, <2>2, StoreResultLedger DEF LedgerInv
  <1>8. CASE CheckStatusCall
    <2>1. \/ UNCHANGED <<props, stage>>
          \/ \E result : End(result, props) /\ op # "create"
      BY <1>8 DEF CheckStatusCall, Goto, Recoverable, node
    <2> QED
      BY <1>1, <1>2, <2>1
  <1>9. CASE RecreateCall
    <2>1. UNCHANGED <<props, stage>> \/ End("conflict", props)
      BY <1>9 DEF RecreateCall, Recoverable, node
    <2> QED
      BY <1>1, <1>2, <2>1
  <1>10. CASE CheckDriftCall
    <2>1. \/ UNCHANGED <<props, stage>>
          \/ End("success", props) /\ op # "create"
      BY <1>10 DEF CheckDriftCall, Recoverable, node
    <2> QED
      BY <1>1, <1>2, <2>1
  <1>11. CASE ReadForDelete \/ CheckExists \/ DeleteCall \/ Recheck
    <2>1. op = "delete" /\ stage = "deleting"
      BY <1>11 DEF ReadForDelete, CheckExists, DeleteCall, Recheck, TypeOK, StepOK
    <2>2. stage' # "created"
      BY <1>11, <2>1
      DEF ReadForDelete, CheckExists, DeleteCall, Recheck, AfterCall,
          AfterDelete, FinishDelete, End, StageAfter, Goto, Recoverable, node
    <2>3. props'.defs \in {props.defs, Popped(props.defs),
                           RemoveDefinition(Popped(props.defs), StoredTarget)}
      <3>1. props \in PropsType
        BY DEF TypeOK, InstanceTypeOK
      <3>2. CASE ReadForDelete
        BY <3>1, <3>2
        DEF ReadForDelete, FinishDelete, End, Goto, Recoverable, PropsType
      <3>3. CASE CheckExists \/ DeleteCall \/ Recheck
        BY <3>1, <3>3
        DEF CheckExists, DeleteCall, Recheck, AfterCall, AfterDelete,
            FinishDelete, End, Goto, Recoverable, PropsType
      <3> QED
        BY <1>11, <3>2, <3>3
    <2>4. props.defs \in Seq(Names) /\ Distinct(props.defs)
      BY DEF TypeOK, InstanceTypeOK, PropsType, LedgerInv, LedgerOK
    <2>5. Distinct(props'.defs)
      BY <2>3, <2>4, PoppedType, PoppedDistinct, RemoveDistinct
    <2> QED
      BY <2>2, <2>5 DEF LedgerInv, LedgerOK
  <1> QED
    BY <1>3, <1>4, <1>5, <1>6, <1>7, <1>8, <1>9, <1>10, <1>11 DEF Worker

\* Between operations the stored response and the stored definitions of an
\* installed node speak of the same resource, whatever redefinitions, crashes
\* and failed deletes came before.
THEOREM LedgerIsRight == Spec => []LedgerAgrees
  <1>1. Init => LedgerInv
    BY DEF Init, LedgerInv, LedgerOK, Distinct
  <1>2. ASSUME TypeOK, LedgerInv, [Next]_vars PROVE LedgerInv'
    <2>1. CASE Engine \/ CrashAndResume
      <3>1. stage' = "created" => stage = "created"
        BY <2>1 DEF Engine, Retry, Exhaust, Start, CrashAndResume, End, StageAfter
      <3>2. UNCHANGED props
        BY <2>1 DEF Engine, Retry, Exhaust, Start, CrashAndResume, Begin, End
      <3> QED
        BY <1>2, <3>1, <3>2 DEF LedgerInv, LedgerOK
    <2>2. CASE World \/ UNCHANGED vars
      BY <1>2, <2>2
      DEF World, Redefine, Controller, OtherClient, node, vars, LedgerInv
    <2> QED
      BY <1>2, <2>1, <2>2, LedgerWorker DEF Next
  <1>3. LedgerInv => LedgerAgrees
    BY DEF LedgerInv, LedgerOK, LedgerAgrees, Distinct, Stored
  <1> QED
    BY <1>1, <1>2, <1>3, TypeCorrect, PTL DEF Spec

-----------------------------------------------------------------------------
(* BlueprintResource implements ManagedNode, for all names, policies and   *)
(* bounds, as long as the definition stays the same.                       *)

Keeps == policy.use_external_resource

PromisedStep == [Promise!Next]_(Promise!vars)

\* The stage stays, and one object changes: a new one of the plugin only while
\* the node is created or installed.
LEMMA QuietStep ==
    ASSUME TypeOK, NEW n \in Names, NEW o \in Objects,
           UNCHANGED <<stage, policy>>,
           objects' = [objects EXCEPT ![n] = o] \/ UNCHANGED objects,
           o.owner = "plugin" =>
               objects[n].owner = "plugin" \/ stage \in {"creating", "created"}
    PROVE  PromisedStep
  <1>1. UNCHANGED Keeps
    BY DEF Keeps
  <1>2. CASE UNCHANGED objects
    BY <1>1, <1>2 DEF PromisedStep, Promise!vars, Keeps, Owned
  <1>3. CASE objects' = [objects EXCEPT ![n] = o] /\ o.owner # "plugin"
    <2>1. Owned' = Owned \ {n}
      BY <1>3 DEF Owned, TypeOK, WorldTypeOK
    <2>2. Promise!Unmake(n)
      BY <1>1, <2>1 DEF Promise!Unmake, Owned, Keeps
    <2> QED
      BY <2>2 DEF PromisedStep, Promise!Next
  <1>4. CASE objects' = [objects EXCEPT ![n] = o] /\ o.owner = "plugin"
    <2>1. Owned' = Owned \cup {n}
      BY <1>4 DEF Owned, TypeOK, WorldTypeOK
    <2>2. CASE objects[n].owner = "plugin"
      <3>1. Owned' = Owned
        BY <2>1, <2>2 DEF Owned
      <3> QED
        BY <1>1, <3>1 DEF PromisedStep, Promise!vars, Owned, Keeps
    <2>3. CASE stage \in {"creating", "created"}
      <3>1. Promise!Make(n)
        BY <1>1, <2>1, <2>3 DEF Promise!Make, Owned, Keeps
      <3> QED
        BY <3>1 DEF PromisedStep, Promise!Next
    <2> QED
      BY <1>4, <2>2, <2>3
  <1> QED
    BY <1>2, <1>3, <1>4

\* How the stage tells a delete that succeeded.
LEMMA DeleteEndsAs ==
    ASSUME op = "delete"
    PROVE  /\ StageAfter("success") = "deleted"
           /\ \A result : result # "success" => StageAfter(result) = "broken"
  BY DEF StageAfter

\* An operation ends: with an uninstall that succeeds only if nothing is left.
LEMMA EndStep ==
    ASSUME TypeOK, OwnershipInv, NEW result \in Outcomes, NEW p,
           End(result, p), UNCHANGED objects,
           op = "delete" /\ result = "success" =>
               ~Exists(objects[definition]) \/ policy.use_external_resource
    PROVE  PromisedStep
  <1>1. UNCHANGED <<Keeps, Owned>> /\ stage' = StageAfter(result)
    BY DEF Keeps, Owned, End
  <1>2. CASE op = "create"
    <2>1. stage = "creating" /\ stage' \in {"created", "broken"}
      BY <1>1, <1>2 DEF TypeOK, StepOK, StageAfter
    <2> QED
      BY <1>1, <2>1 DEF PromisedStep, Promise!Next, Promise!Installed, Keeps, Owned
  <1>3. CASE op = "delete" /\ result # "success"
    <2>1. stage = "deleting" /\ stage' = "broken"
      BY <1>1, <1>3 DEF TypeOK, StepOK, StageAfter
    <2> QED
      BY <1>1, <2>1
      DEF PromisedStep, Promise!Next, Promise!UninstallFailed, Keeps, Owned
  <1>4. CASE op = "delete" /\ result = "success"
    <2>1. stage = "deleting" /\ stage' = "deleted"
      BY <1>1, <1>4, DeleteEndsAs DEF TypeOK, StepOK
    <2>2. Keeps \/ Owned = {}
      <3>1. ~Exists(objects[definition]) => objects[definition].owner # "plugin"
        BY DEF TypeOK, WorldTypeOK, InstanceTypeOK, Objects, Missing, Exists,
               Phases
      <3> QED
        BY <1>4, <3>1 DEF Keeps, Owned, OwnershipInv
    <2> QED
      BY <1>1, <2>1, <2>2
      DEF PromisedStep, Promise!Next, Promise!Uninstalled, Keeps, Owned
  <1>5. CASE op \notin {"create", "delete"}
    <2>1. UNCHANGED stage
      BY <1>1, <1>5 DEF StageAfter
    <2> QED
      BY <1>1, <2>1 DEF PromisedStep, Promise!vars, Keeps, Owned
  <1> QED
    BY <1>2, <1>3, <1>4, <1>5

\* Nothing of the node or the cluster changes.
LEMMA IdleStep ==
    ASSUME UNCHANGED <<stage, policy, objects>> PROVE PromisedStep
  BY DEF PromisedStep, Promise!vars, Owned

\* Worker steps that write nothing.
LEMMA PromiseReads ==
    ASSUME TypeOK, OwnershipInv,
           \/ MappingFails \/ CheckState \/ ReadCall \/ Store
           \/ CheckStatusCall \/ CheckDriftCall
    PROVE  PromisedStep
  <1>1. UNCHANGED objects
    BY DEF MappingFails, CheckState, ReadCall, Store, CheckStatusCall,
           CheckDriftCall
  <1>2. \/ UNCHANGED <<stage, policy>>
        \/ \E result \in Outcomes : \E p :
               End(result, p) /\ (op = "delete" => result # "success")
    <2>1. CASE MappingFails
      BY <2>1 DEF MappingFails, Outcomes
    <2>2. CASE CheckState
      BY <2>2 DEF CheckState, Goto, node
    <2>3. CASE ReadCall
      BY <2>3 DEF ReadCall, Goto, Recoverable, node
    <2>4. CASE Store
      BY <2>4 DEF Store, Recoverable, node, Outcomes
    <2>5. CASE CheckStatusCall
      BY <2>5 DEF CheckStatusCall, Goto, Recoverable, node, Outcomes
    <2>6. CASE CheckDriftCall
      BY <2>6 DEF CheckDriftCall, Recoverable, node, Outcomes
    <2> QED
      BY <2>1, <2>2, <2>3, <2>4, <2>5, <2>6
  <1> QED
    BY <1>1, <1>2, EndStep, IdleStep

\* Worker steps that may write, of operations that do not delete.
LEMMA PromiseWrites ==
    ASSUME TypeOK, OwnershipInv, CreateCall \/ UpdateCall \/ RecreateCall
    PROVE  PromisedStep
  <1>1. definition \in Names /\ objects[definition] \in Objects
        /\ objects \in [Names -> Objects]
    BY DEF TypeOK, WorldTypeOK, InstanceTypeOK
  <1>2. CASE CreateCall
    <2>1. stage = "creating"
      BY <1>2 DEF CreateCall, TypeOK, StepOK
    <2>2. CASE UNCHANGED <<stage, policy>>
      BY <1>1, <1>2, <2>1, <2>2, QuietStep, ObjectType DEF CreateCall, Write
    <2>3. CASE ~UNCHANGED <<stage, policy>>
      <3>1. End("conflict", props) /\ UNCHANGED objects
        BY <1>1, <1>2, <2>3
        DEF CreateCall, Goto, Recoverable, node, Write, Posted
      <3> QED
        BY <3>1, EndStep DEF Outcomes
    <2> QED
      BY <2>2, <2>3
  <1>3. CASE UpdateCall
    <2>1. UNCHANGED <<stage, policy>>
      BY <1>3 DEF UpdateCall, Goto, Recoverable, node
    <2>2. Patched(objects[definition]).owner = objects[definition].owner
      BY <1>1 DEF Patched, Objects, Missing, Exists
    <2> QED
      BY <1>1, <1>3, <2>1, <2>2, QuietStep, ObjectType DEF UpdateCall, Write
  <1>4. CASE RecreateCall
    <2>1. stage = "created"
      BY <1>4 DEF RecreateCall, TypeOK, StepOK
    <2>2. CASE UNCHANGED <<stage, policy>>
      BY <1>1, <1>4, <2>1, <2>2, QuietStep, ObjectType DEF RecreateCall, Write
    <2>3. CASE ~UNCHANGED <<stage, policy>>
      <3>1. End("conflict", props) /\ UNCHANGED objects
        BY <1>1, <1>4, <2>3 DEF RecreateCall, Recoverable, node, Write, Posted
      <3> QED
        BY <3>1, EndStep DEF Outcomes
    <2> QED
      BY <2>2, <2>3
  <1> QED
    BY <1>2, <1>3, <1>4

\* The end of a delete: it returns, or goes on.
LEMMA AfterCallEnds ==
    ASSUME NEW answer, NEW b \in BOOLEAN,
           AfterCall(answer) \/ AfterDelete(answer, b)
    PROVE  \/ UNCHANGED <<stage, policy>>
           \/ \E p : End("success", p)
  BY DEF AfterCall, AfterDelete, FinishDelete, Goto, node

\* The exchanges of a delete.
LEMMA PromiseDeletes ==
    ASSUME TypeOK, OwnershipInv, [Next]_vars,
           ReadForDelete \/ CheckExists \/ DeleteCall \/ Recheck
    PROVE  PromisedStep
  <1>1. op = "delete" /\ stage = "deleting"
    BY DEF ReadForDelete, CheckExists, DeleteCall, Recheck, TypeOK, StepOK
  <1>2. UNCHANGED policy
    BY DEF ReadForDelete, CheckExists, DeleteCall, Recheck, AfterCall,
           AfterDelete, FinishDelete, End, Goto, Recoverable, node
  <1>3. stage' \in {stage, "deleted", "broken"}
    BY <1>1
    DEF ReadForDelete, CheckExists, DeleteCall, Recheck, AfterCall,
        AfterDelete, FinishDelete, End, StageAfter, Goto, Recoverable, node
  <1>4. CASE stage' = stage
    <2>1. CASE UNCHANGED objects
      BY <1>2, <1>4, <2>1, IdleStep
    <2>2. CASE ~UNCHANGED objects
      <3>1. DeleteCall /\ local.target \in Names
        BY <2>2 DEF ReadForDelete, CheckExists, DeleteCall, Recheck, TypeOK,
                    StepOK
      <3>2. PICK o \in Deleted(objects[local.target]) :
                objects' = [objects EXCEPT ![local.target] = o]
        BY <2>2, <3>1 DEF DeleteCall, Write
      <3>3. /\ o \in Objects
            /\ o.owner = "plugin" => objects[local.target].owner = "plugin"
        <4>1. objects[local.target] \in Objects
          BY <3>1 DEF TypeOK, WorldTypeOK
        <4> QED
          BY <4>1, ObjectType DEF Deleted, Missing, Objects, Exists
      <3> QED
        BY <1>2, <1>4, <3>1, <3>2, <3>3, QuietStep
    <2> QED
      BY <2>1, <2>2
  <1>5. CASE stage' = "broken"
    <2>1. CASE DeleteCall
      <3>1. stage' \in {stage, "deleted"}
        BY <1>1, <2>1, DeleteEndsAs
        DEF DeleteCall, AfterCall, AfterDelete, FinishDelete, End, Goto,
            Recoverable, node
      <3> QED
        BY <1>1, <1>5, <3>1
    <2>2. CASE UNCHANGED objects
      BY <1>1, <1>2, <1>5, <2>2
      DEF PromisedStep, Promise!Next, Promise!UninstallFailed, Owned
    <2> QED
      BY <2>1, <2>2 DEF ReadForDelete, CheckExists, Recheck
  <1>6. CASE stage' = "deleted"
    <2>1. /\ ~Exists(objects[definition]) \/ policy.use_external_resource
          /\ UNCHANGED objects \/ policy.use_external_resource
      BY <1>1, <1>6, DeletedAfterAbsence
    <2>2. Keeps \/ Owned = {}
      <3>1. ~Exists(objects[definition]) => objects[definition].owner # "plugin"
        BY DEF TypeOK, WorldTypeOK, InstanceTypeOK, Objects, Missing, Exists,
               Phases
      <3> QED
        BY <2>1, <3>1 DEF Keeps, Owned, OwnershipInv
    <2>3. Owned' \subseteq Owned
      <3>1. ASSUME NEW n \in Names, objects'[n].owner = "plugin"
            PROVE  objects[n].owner = "plugin"
        <4>1. CASE UNCHANGED objects
          BY <3>1, <4>1
        <4>2. CASE ~UNCHANGED objects
          <5>1. DeleteCall /\ local.target \in Names
            BY <4>2 DEF ReadForDelete, CheckExists, DeleteCall, Recheck, TypeOK,
                        StepOK
          <5>2. PICK o \in Deleted(objects[local.target]) :
                    objects' = [objects EXCEPT ![local.target] = o]
            BY <4>2, <5>1 DEF DeleteCall, Write
          <5>3. o.owner = "plugin" => objects[local.target].owner = "plugin"
            BY <5>1 DEF Deleted, Missing, Objects, Exists, TypeOK, WorldTypeOK
          <5> QED
            BY <3>1, <5>1, <5>2, <5>3 DEF TypeOK, WorldTypeOK
        <4> QED
          BY <4>1, <4>2
      <3> QED
        BY <3>1 DEF Owned
    <2> QED
      BY <1>1, <1>2, <1>6, <2>2, <2>3
      DEF PromisedStep, Promise!Next, Promise!Uninstalled, Keeps, Owned
  <1> QED
    BY <1>3, <1>4, <1>5, <1>6

\* The engine, crashes and the rest of the world.
LEMMA PromiseOthers ==
    ASSUME TypeOK, OwnershipInv, Engine \/ CrashAndResume \/ World
    PROVE  PromisedStep
  <1>1. CASE Retry \/ CrashAndResume
    BY <1>1, IdleStep DEF Retry, CrashAndResume, Begin
  <1>2. CASE Exhaust
    BY <1>2, EndStep DEF Exhaust, Outcomes
  <1>3. ASSUME NEW o \in Ops, Start(o) PROVE PromisedStep
    <2>1. UNCHANGED <<Keeps, Owned>>
      BY <1>3 DEF Start, Begin, Keeps, Owned
    <2>2. \/ o = "create" /\ stage \in {"uninitialized", "deleted"}
             /\ stage' = "creating"
          \/ o = "delete" /\ stage \in {"created", "broken"}
             /\ stage' = "deleting"
          \/ stage' = stage
      BY <1>3 DEF Start, MayStart
    <2> QED
      BY <2>1, <2>2
      DEF PromisedStep, Promise!Next, Promise!Install, Promise!Uninstall,
          Promise!vars, Keeps, Owned
  <1>4. ASSUME NEW n \in Names, Redefine(n) PROVE PromisedStep
    BY <1>4, IdleStep DEF Redefine
  <1>5. ASSUME NEW n \in Names, Controller(n) PROVE PromisedStep
    <2>1. PICK o \in Settled(objects[n]) \cup Finalized(objects[n]) :
              objects' = [objects EXCEPT ![n] = o]
      BY <1>5 DEF Controller
    <2>2. objects[n] \in Objects
      BY DEF TypeOK, WorldTypeOK
    <2>3. o \in Objects /\ (o.owner = "plugin" => objects[n].owner = "plugin")
      BY <2>2, ObjectType DEF Settled, Finalized, Missing, Objects
    <2> QED
      BY <1>5, <2>1, <2>3, QuietStep DEF Controller, node
  <1>6. ASSUME NEW n \in Names, OtherClient(n) PROVE PromisedStep
    <2>1. PICK o \in ChangedByOthers(objects[n]) :
              objects' = [objects EXCEPT ![n] = o]
      BY <1>6 DEF OtherClient
    <2>2. objects[n] \in Objects
      BY DEF TypeOK, WorldTypeOK
    <2>3. o \in Objects /\ (o.owner = "plugin" => objects[n].owner = "plugin")
      <3>1. CASE Exists(objects[n])
        <4>1. o \in {Missing, [objects[n] EXCEPT !.phase = "terminating"],
                     [objects[n] EXCEPT !.content = "foreign"]}
          BY <3>1 DEF ChangedByOthers, Deleted
        <4>2. o \in Objects
          BY <2>2, ObjectType
        <4>3. o.owner = objects[n].owner \/ o = Missing
          BY <2>2, <4>1 DEF Objects, Missing
        <4> QED
          BY <4>2, <4>3 DEF Missing
      <3>2. CASE ~Exists(objects[n])
        BY <2>2, <3>2, ObjectType DEF ChangedByOthers
      <3> QED
        BY <3>1, <3>2
    <2> QED
      BY <1>6, <2>1, <2>3, QuietStep DEF OtherClient, node
  <1> QED
    BY <1>1, <1>2, <1>3, <1>4, <1>5, <1>6 DEF Engine, World

\* A node whose definition stays the same keeps the promise of ManagedNode: its
\* initial states are initial there, and every step is one of ManagedNode or
\* leaves it unchanged.
THEOREM BlueprintImplementsManagedNode ==
    ASSUME MaxRedefinitions = 0 PROVE Spec => ImplementsManagedNode
  <1>1. Init => Promise!Init
    BY PoliciesAssumption DEF Init, Promise!Init, Missing, Policy, Owned
  <1>2. TypeOK /\ OwnershipInv /\ [Next]_vars => [Promise!Next]_(Promise!vars)
    <2> SUFFICES ASSUME TypeOK, OwnershipInv, [Next]_vars PROVE PromisedStep
      BY DEF PromisedStep
    <2>1. CASE UNCHANGED vars
      BY <2>1, IdleStep DEF vars, node
    <2> QED
      BY <2>1, PromiseReads, PromiseWrites, PromiseDeletes, PromiseOthers
      DEF Next, Worker
  <1> QED
    BY <1>1, <1>2, TypeCorrect, OwnershipHolds, PTL
    DEF Spec, ImplementsManagedNode, Promise!Spec
=============================================================================
