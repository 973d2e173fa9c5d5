--------------------------- MODULE FileResourceProofs ---------------------------
(***************************************************************************)
(* Theorems about FileResource, for all layouts, policies and bounds.      *)
(***************************************************************************)
EXTENDS FileResource, FiniteSetTheorems, SequenceTheorems, TLAPS

Budget == [faults : Nat, others : Nat, crashes : Nat, redefinitions : Nat]

\* The frames of a delete, each of which calls itself for entries it took out.
Calls == {f \in FrameType : f.todo \subseteq DOMAIN f.adjacent}

-----------------------------------------------------------------------------
(* The helpers on runtime properties keep their type.                      *)

\* pop() leaves a list of definitions.
LEMMA PoppedType ==
    ASSUME NEW d \in Seq(Keys) PROVE Popped(d) \in Seq(Keys)
  BY DEF Popped

\* remove_resource_definition leaves a list of definitions.
LEMMA RemoveType ==
    ASSUME NEW d \in Seq(Keys), NEW k PROVE RemoveDefinition(d, k) \in Seq(Keys)
  <1>1. CASE Occurs(k, d)
    <2> DEFINE i == CHOOSE j \in DOMAIN d : d[j] = k
    <2>1. i \in 1 .. Len(d)
      BY <1>1 DEF Occurs
    <2> HIDE DEF i
    <2>2. SubSeq(d, 1, i - 1) \in Seq(Keys) /\ SubSeq(d, i + 1, Len(d)) \in Seq(Keys)
      BY <2>1
    <2> QED
      BY <1>1, <2>2 DEF RemoveDefinition, i
  <1> QED
    BY <1>1 DEF RemoveDefinition

\* store_resource_definition leaves a list of definitions.
LEMMA StoreType ==
    ASSUME NEW d \in Seq(Keys), NEW k \in Keys
    PROVE  StoreDefinition(d, k) \in Seq(Keys)
  BY DEF StoreDefinition

\* Entries may be left out.
LEMMA RestrictType ==
    ASSUME NEW e \in Entries, NEW S \in SUBSET DOMAIN e
    PROVE  Restrict(e, S) \in Entries /\ DOMAIN Restrict(e, S) = S
  <1>1. DOMAIN e \in SUBSET Paths /\ e \in [DOMAIN e -> Entry]
    BY DEF Entries
  <1>2. Restrict(e, S) \in [S -> Entry] /\ S \in SUBSET Paths
    BY <1>1 DEF Restrict
  <1> QED
    BY <1>2 DEF Entries

\* An entry may be stored at a path.
LEMMA WithType ==
    ASSUME NEW stored \in Entries, NEW p \in Paths, NEW e \in Entry
    PROVE  With(stored, p, e) \in Entries
  <1>1. DOMAIN stored \in SUBSET Paths /\ stored \in [DOMAIN stored -> Entry]
    BY DEF Entries
  <1>2. With(stored, p, e) \in [DOMAIN stored \cup {p} -> Entry]
    BY <1>1 DEF With
  <1> QED
    BY <1>1, <1>2 DEF Entries

\* store_result_for_retrieve_id leaves runtime properties.
LEMMA StoreResultType ==
    ASSUME NEW ps \in PropsType, NEW p \in Paths, NEW e \in Entry
    PROVE  StoreResult(ps, p, e) \in PropsType
  BY WithType, StoreType DEF StoreResult, PropsType, Entry

\* The order of a set of definitions is a list of them.
LEMMA OrderType ==
    ASSUME NEW S \in SUBSET Keys, NEW s \in Orders(S)
    PROVE  /\ s \in Seq(Keys) /\ \A i \in DOMAIN s : s[i] \in S
           /\ \A i, j \in DOMAIN s : s[i] = s[j] => i = j
  <1>1. Cardinality(S) \in Nat
    BY ObjectsAssumption, FS_Subset, FS_CardinalityType
  <1> QED
    BY <1>1 DEF Orders

\* So does the loop that puts the adjacent entries back.
LEMMA StoreAllType ==
    ASSUME NEW ps \in PropsType, NEW entries \in Entries
    PROVE  StoreAll(ps, entries) \subseteq PropsType
  <1> DEFINE new == {entries[p].key : p \in DOMAIN entries} \ Range(ps.defs)
             merged == [q \in DOMAIN ps.stored \cup DOMAIN entries |->
                           IF q \in DOMAIN entries THEN entries[q]
                           ELSE ps.stored[q]]
  <1>1. /\ DOMAIN entries \in SUBSET Paths /\ entries \in [DOMAIN entries -> Entry]
        /\ DOMAIN ps.stored \in SUBSET Paths
        /\ ps.stored \in [DOMAIN ps.stored -> Entry]
    BY DEF PropsType, Entries
  <1>2. new \in SUBSET Keys
    BY <1>1 DEF Entry
  <1>3. merged \in Entries
    <2>1. merged \in [DOMAIN ps.stored \cup DOMAIN entries -> Entry]
      BY <1>1
    <2> QED
      BY <1>1, <2>1 DEF Entries
  <1>4. ASSUME NEW order \in Orders(new)
        PROVE  [stored |-> merged, defs |-> ps.defs \o order] \in PropsType
    <2>1. order \in Seq(Keys)
      BY <1>2, OrderType
    <2>2. ps.defs \o order \in Seq(Keys)
      BY <2>1 DEF PropsType
    <2> QED
      BY <1>3, <2>2 DEF PropsType
  <1> QED
    BY <1>4 DEF StoreAll

\* Whatever a request, a controller or another client does to an object, it is
\* an object again.
LEMMA ObjectType ==
    ASSUME NEW o \in Objects
    PROVE  /\ Posted(o) \in Objects /\ Patched(o) \in Objects
           /\ Deleted(o) \subseteq Objects
           /\ Settled(o) \subseteq Objects
           /\ Finalized(o) \subseteq Objects
           /\ ChangedByOthers(o) \subseteq Objects
  <1> USE DEF Objects, Exists, Missing, Phases, Owners, Contents
  <1>1. Posted(o) \in Objects /\ Patched(o) \in Objects
    BY DEF Posted, Patched
  <1>2. Deleted(o) \subseteq Objects
    BY DEF Deleted
  <1>3. Settled(o) \subseteq Objects /\ Finalized(o) \subseteq Objects
    BY DEF Settled, Finalized
  <1>4. ChangedByOthers(o) \subseteq Objects
    BY <1>2 DEF ChangedByOthers
  <1> QED
    BY <1>1, <1>2, <1>3, <1>4

-----------------------------------------------------------------------------
(* How an attempt begins, goes on and ends keeps the types.                *)

\* The local state every attempt begins with has its type.
LEMMA NoLocalType == NoLocal \in LocalType
  BY DEF NoLocal, LocalType

\* An operation finds a definition at its place in the layout.
LEMMA PathType ==
    ASSUME TypeOK
    PROVE  /\ layout \in Seq(Definition) /\ Len(layout) \in Nat /\ 1 \in DOMAIN layout
           /\ turn \in Nat /\ turn <= Len(layout)
           /\ Path \in Paths /\ Key \in Keys
           /\ objects[Key] \in Objects /\ policy \in Policy
  <1>1. layout \in Seq(Definition) /\ layout # <<>> /\ turn \in DOMAIN layout
    BY LayoutsAssumption DEF TypeOK, WorldTypeOK, InstanceTypeOK
  <1>2. /\ Len(layout) \in Nat /\ DOMAIN layout = 1 .. Len(layout)
        /\ Len(layout) # 0
    BY <1>1
  <1>3. layout[turn] \in Definition
    BY <1>1
  <1>4. Path \in Paths /\ Key \in Keys
    BY <1>3 DEF Path, Key, Definition
  <1> QED
    BY <1>1, <1>2, <1>4, PoliciesAssumption DEF TypeOK, WorldTypeOK

\* Begin keeps the types, for the engine's three uses of it.
LEMMA BeginType ==
    ASSUME TypeOK, NEW o \in AllOps, Begin(o),
           stage' \in Stages, outcome' \in Outcomes, retried' \in BOOLEAN,
           (o = "create") <=> (stage' = "creating"),
           (o = "delete") <=> (stage' = "deleting"),
           o \notin {"create", "delete"} => stage' = "created",
           budget' \in Budget
    PROVE  TypeOK'
  <1>1. pc' \in {"check", "call"} /\ frames' = <<>> /\ frames' \in Seq(FrameType)
    BY DEF Begin, FirstStep
  <1>2. WorldTypeOK'
    BY DEF TypeOK, WorldTypeOK, Begin, cluster, node, Budget
  <1>3. InstanceTypeOK'
    BY <1>1, NoLocalType, PathType
    DEF TypeOK, InstanceTypeOK, Begin, Steps, AllOps, node
  <1>4. StepOK'
    BY <1>1 DEF StepOK, Begin, DeleteSteps, FirstStep, AllOps
  <1> QED
    BY <1>2, <1>3, <1>4 DEF TypeOK

\* Goto keeps the types when what the next exchange needs is there.
LEMMA GotoType ==
    ASSUME TypeOK, NEW step \in Steps, NEW l \in LocalType, Goto(step, l),
           op # "none", step \notin {"idle", "retry", "check", "call"},
           step \in DeleteSteps <=> pc \in DeleteSteps,
           step = "post" => op = "create",
           step = "store" => /\ op \in {"create", "read", "update"}
                             /\ l.response \in Entry /\ l.response.key = Key,
           step = "recreate" => op = "heal",
           step = "resolve" => op = "delete"
    PROVE  InstanceTypeOK' /\ StepOK'
  <1>1. InstanceTypeOK'
    BY DEF TypeOK, InstanceTypeOK, Goto, node
  <1>2. Key' = Key
    BY DEF Goto, node, Key
  <1> QED
    BY <1>1, <1>2 DEF TypeOK, StepOK, Goto, DeleteSteps

\* A failed attempt keeps the types.
LEMMA RecoverableType ==
    ASSUME TypeOK, NEW p \in PropsType, op # "none", Recoverable(p)
    PROVE  InstanceTypeOK' /\ StepOK'
  <1>1. InstanceTypeOK'
    BY NoLocalType, PathType
    DEF TypeOK, InstanceTypeOK, Recoverable, node, Steps
  <1> QED
    BY <1>1 DEF TypeOK, StepOK, Recoverable, DeleteSteps

\* The end of an operation keeps the types.
LEMMA EndType ==
    ASSUME TypeOK, NEW result \in Outcomes, NEW p \in PropsType, End(result, p),
           op = "delete" => result = "success"
    PROVE  InstanceTypeOK' /\ StepOK'
  <1>1. /\ StageAfter(result) \in Stages
        /\ StageAfter(result) \notin {"creating", "deleting"}
    BY DEF StageAfter, Stages, TypeOK, InstanceTypeOK, StepOK
  <1>2. frames' = <<>> /\ frames' \in Seq(FrameType)
    BY DEF End
  <1>3. turn' \in DOMAIN layout' /\ pc' \in Steps
    BY PathType DEF End, node, Steps
  <1>4. InstanceTypeOK'
    BY <1>1, <1>2, <1>3, NoLocalType
    DEF TypeOK, InstanceTypeOK, End, node
  <1> QED
    BY <1>1, <1>2, <1>4 DEF TypeOK, StepOK, End, DeleteSteps

\* So does going on to the next definition.
LEMMA ProceedType ==
    ASSUME TypeOK, NEW p \in PropsType, op # "none", Proceed(p)
    PROVE  InstanceTypeOK' /\ StepOK'
  <1>1. CASE turn < Len(layout)
    <2>1. turn' \in DOMAIN layout /\ UNCHANGED layout
      BY <1>1, PathType DEF Proceed, node
    <2>2. pc' = FirstStep(op) /\ pc' \in {"check", "call"}
      BY <1>1 DEF Proceed, FirstStep
    <2>3. InstanceTypeOK'
      BY <1>1, <2>1, <2>2, NoLocalType
      DEF TypeOK, InstanceTypeOK, Proceed, node, Steps
    <2> QED
      BY <1>1, <2>2, <2>3
      DEF TypeOK, InstanceTypeOK, StepOK, Proceed, DeleteSteps, FirstStep, AllOps
  <1>2. CASE ~(turn < Len(layout))
    BY <1>2, EndType DEF Proceed, Outcomes
  <1> QED
    BY <1>1, <1>2

\* An answer is paid for within the bounds.
LEMMA ChargeType ==
    ASSUME TypeOK, NEW answer \in Answers, Charge(answer)
    PROVE  budget' \in Budget
  BY DEF TypeOK, WorldTypeOK, Charge, Answers, Budget

\* A write leaves a cluster.
LEMMA BecomesType ==
    ASSUME TypeOK, NEW k \in Keys, NEW o \in Objects, Becomes(k, o)
    PROVE  objects' \in [Keys -> Objects] /\ finalizers' \in SUBSET Keys
  BY DEF TypeOK, WorldTypeOK, Becomes

\* An exchange that writes keeps the type of the objects and their finalizers.
LEMMA WriteType ==
    ASSUME TypeOK, NEW answer, NEW k \in Keys, NEW S \in SUBSET Objects,
           Write(answer, k, S)
    PROVE  objects' \in [Keys -> Objects] /\ finalizers' \in SUBSET Keys
  BY BecomesType DEF TypeOK, WorldTypeOK, Write, cluster

-----------------------------------------------------------------------------
(* The calls of a delete keep the types.                                   *)

\* Pushing a call on those that wait keeps the types.
LEMMA EnterType ==
    ASSUME TypeOK, op = "delete", NEW callers \in Seq(Calls), NEW f \in Calls,
           NEW ps \in PropsType, Enter(callers, f, ps)
    PROVE  TypeOK'
  <1>1. /\ frames' \in Seq(Calls) /\ frames' # <<>>
        /\ frames' \in Seq(FrameType)
    <2>1. frames' = <<f>> \o callers
      BY DEF Enter
    <2>2. <<f>> \in Seq(Calls) /\ Len(<<f>>) = 1
      OBVIOUS
    <2>3. frames' \in Seq(Calls) /\ Len(frames') = 1 + Len(callers)
      BY <2>1, <2>2
    <2>4. frames' # <<>>
      BY <2>3
    <2> QED
      BY <2>3, <2>4 DEF Calls
  <1>2. \A i \in DOMAIN frames' : frames'[i].todo \subseteq DOMAIN frames'[i].adjacent
    BY <1>1 DEF Calls
  <1>3. pc' = "read"
    BY DEF Enter
  <1>4. WorldTypeOK'
    BY DEF TypeOK, WorldTypeOK, Enter, cluster, node
  <1>5. InstanceTypeOK'
    BY <1>1, <1>3 DEF TypeOK, InstanceTypeOK, Enter, node, Steps, DeleteSteps
  <1> QED
    BY <1>1, <1>2, <1>3, <1>4, <1>5
    DEF TypeOK, StepOK, Enter, node, DeleteSteps

\* The calls that wait are calls.
LEMMA FramesType ==
    ASSUME TypeOK
    PROVE  /\ frames \in Seq(Calls)
           /\ frames # <<>> => Frame \in Calls /\ Target \in Keys
  <1>1. frames \in Seq(Calls)
    <2>1. frames \in Seq(FrameType) /\ DOMAIN frames = 1 .. Len(frames)
      BY DEF TypeOK, InstanceTypeOK
    <2>2. \A i \in DOMAIN frames : frames[i] \in Calls
      BY <2>1 DEF TypeOK, StepOK, Calls
    <2> QED
      BY <2>1, <2>2
  <1>2. ASSUME frames # <<>> PROVE Frame \in Calls
    BY <1>1, <1>2 DEF Frame
  <1> QED
    BY <1>1, <1>2 DEF Target, Calls, FrameType, Keys

\* A call for a definition, of whatever kind its mapping is.
LEMMA CallingType ==
    ASSUME NEW k \in Keys, NEW m \in Kinds PROVE Calling(k, m) \in Calls
  <1>1. NoEntries \in Entries
    <2>1. NoEntries \in [{} -> Entry]
      BY DEF NoEntries
    <2> QED
      BY <2>1 DEF Entries
  <1> QED
    BY <1>1 DEF Calling, Calls, FrameType

\* Looking for the definition to delete keeps the types.
LEMMA ResolveType ==
    ASSUME TypeOK, op = "delete", NEW callers \in Seq(Calls), NEW k \in Keys,
           NEW m \in Kinds, Resolve(callers, k, m)
    PROVE  TypeOK'
  <1>1. /\ props \in PropsType /\ props.defs \in Seq(Keys)
        /\ props.stored \in Entries /\ DefsAfterLookup \in Seq(Keys)
        /\ props.stored \in [DOMAIN props.stored -> Entry]
    BY PoppedType
    DEF TypeOK, InstanceTypeOK, PropsType, DefsAfterLookup, Entries
  <1>2. ASSUME NEW q \in Candidates, ResolveByEntry(callers, q) PROVE TypeOK'
    <2>1. q \in DOMAIN props.stored
      BY DEF Candidates
    <2>2. CASE q \notin Yaml
      <3>1. [props EXCEPT !.defs = DefsAfterLookup] \in PropsType
        BY <1>1 DEF PropsType
      <3>2. Recoverable([props EXCEPT !.defs = DefsAfterLookup])
            /\ UNCHANGED <<cluster, budget>>
        BY <1>2, <2>2 DEF ResolveByEntry
      <3>3. WorldTypeOK'
        BY <3>2 DEF TypeOK, WorldTypeOK, Recoverable, cluster, node
      <3> QED
        BY <3>1, <3>2, <3>3, RecoverableType DEF TypeOK
    <2>3. CASE q \in Yaml
      <3> DEFINE entry == props.stored[q]
                 taken == Restrict(props.stored, AdjacentTo(q))
                 left == Restrict(props.stored,
                             DOMAIN props.stored \ ({q} \cup AdjacentTo(q)))
                 f == [Calling(entry.key, entry.key.kind) EXCEPT !.adjacent = taken]
                 ps == [stored |-> left, defs |-> DefsAfterLookup]
      <3>1. entry.key \in Keys /\ entry.key.kind \in Kinds
        BY <1>1, <2>1 DEF Entry, Keys
      <3>2. taken \in Entries /\ left \in Entries
        BY <1>1, RestrictType DEF AdjacentTo
      <3>3. f \in Calls
        BY <3>1, <3>2, CallingType DEF Calls, FrameType, Calling
      <3>4. ps \in PropsType
        BY <1>1, <3>2 DEF PropsType
      <3>5. Enter(callers, f, ps)
        BY <1>2, <2>3 DEF ResolveByEntry
      <3> HIDE DEF f, ps
      <3> QED
        BY <3>3, <3>4, <3>5, EnterType
    <2> QED
      BY <2>2, <2>3
  <1>3. CASE ResolveByDefinition(callers, k, m)
    <2> PICK f \in StoredOrProvided(DefsAfterLookup, k, m) :
            Enter(callers, f,
                  [props EXCEPT !.defs =
                      RemoveDefinition(Popped(DefsAfterLookup), f.key)])
      BY <1>3 DEF ResolveByDefinition
    <2> DEFINE ps == [props EXCEPT !.defs =
                         RemoveDefinition(Popped(DefsAfterLookup), f.key)]
    <2>1. f \in Calls
      <3>1. CASE DefsAfterLookup # <<>>
        <4>1. DefsAfterLookup[Len(DefsAfterLookup)] \in Keys
          BY <1>1, <3>1
        <4> QED
          BY <4>1, CallingType DEF StoredOrProvided, Keys
      <3>2. CASE DefsAfterLookup = <<>>
        BY <3>2, CallingType DEF StoredOrProvided
      <3> QED
        BY <3>1, <3>2
    <2>2. ps \in PropsType
      BY <1>1, PoppedType, RemoveType DEF PropsType
    <2>3. Enter(callers, f, ps)
      OBVIOUS
    <2> HIDE DEF ps
    <2> QED
      BY <2>1, <2>2, <2>3, EnterType
  <1> QED
    BY <1>2, <1>3 DEF Resolve

\* The return of a call keeps the types.
LEMMA ReturnType ==
    ASSUME TypeOK, op = "delete", frames # <<>>, Return
    PROVE  InstanceTypeOK' /\ StepOK'
  <1>1. CASE Len(frames) > 1
    <2>1. Tail(frames) \in Seq(Calls) /\ Tail(frames) # <<>>
      BY <1>1, FramesType
    <2>2. /\ frames' = Tail(frames) /\ pc' = "adjacent"
          /\ UNCHANGED <<node, stage, outcome, op, turn, retried, props, local>>
      BY <1>1 DEF Return
    <2>3. frames' \in Seq(FrameType)
      BY <2>1, <2>2 DEF Calls
    <2>4. \A i \in DOMAIN frames' : frames'[i].todo \subseteq DOMAIN frames'[i].adjacent
      BY <2>1, <2>2 DEF Calls
    <2>5. InstanceTypeOK'
      BY <2>2, <2>3 DEF TypeOK, InstanceTypeOK, node, Steps, DeleteSteps
    <2> QED
      BY <2>1, <2>2, <2>4, <2>5 DEF TypeOK, StepOK, DeleteSteps
  <1>2. CASE ~(Len(frames) > 1)
    <2>1. props \in PropsType /\ DOMAIN props.stored \ {Path} \subseteq DOMAIN props.stored
      BY DEF TypeOK, InstanceTypeOK
    <2>2. [props EXCEPT !.stored = Restrict(@, DOMAIN @ \ {Path})] \in PropsType
      BY <2>1, RestrictType DEF PropsType
    <2>3. [props EXCEPT !.stored = NoEntries] \in PropsType
      <3>1. NoEntries \in [{} -> Entry]
        BY DEF NoEntries
      <3>2. NoEntries \in Entries
        BY <3>1 DEF Entries
      <3> QED
        BY <2>1, <3>2 DEF PropsType
    <2>4. PICK p \in PropsType : Proceed(p)
      BY <1>2, <2>1, <2>2, <2>3 DEF Return
    <2> QED
      BY <2>4, ProceedType
  <1> QED
    BY <1>1, <1>2

-----------------------------------------------------------------------------
(* Type correctness.                                                       *)

\* The initial states have their types.
LEMMA TypeInit == Init => TypeOK
  <1> SUFFICES ASSUME Init PROVE TypeOK
    OBVIOUS
  <1>1. layout \in Seq(Definition) /\ layout # <<>>
    BY LayoutsAssumption DEF Init
  <1>2. turn \in DOMAIN layout
    BY <1>1 DEF Init
  <1>3. WorldTypeOK
    <2>1. objects \in [Keys -> Objects]
      BY DEF Init, Objects, Missing, Foreign, Phases, Owners, Contents
    <2> QED
      BY <2>1, BoundsAssumption, ObjectsAssumption DEF Init, WorldTypeOK
  <1>4. props \in PropsType
    <2>1. <<>> \in [{} -> Entry]
      OBVIOUS
    <2> QED
      BY <2>1 DEF Init, PropsType, Entries
  <1>5. frames \in Seq(FrameType)
    BY DEF Init
  <1>6. InstanceTypeOK
    BY <1>2, <1>4, <1>5, NoLocalType
    DEF Init, InstanceTypeOK, Stages, Outcomes, Steps
  <1> QED
    BY <1>3, <1>6 DEF Init, TypeOK, StepOK, DeleteSteps

\* The engine's steps keep the types.
LEMMA TypeEngine ==
    ASSUME TypeOK, Engine \/ CrashAndResume PROVE TypeOK'
  <1> USE DEF Budget
  <1>1. CASE Retry
    <2>1. op \in AllOps
      BY <1>1 DEF Retry, TypeOK, InstanceTypeOK, StepOK
    <2> QED
      BY <1>1, <2>1, BeginType
      DEF Retry, TypeOK, InstanceTypeOK, WorldTypeOK, StepOK
  <1>2. ASSUME NEW o \in Ops, Start(o) PROVE TypeOK'
    BY <1>2, OpsAssumption, BeginType
    DEF Start, MayStart, TypeOK, InstanceTypeOK, WorldTypeOK, StepOK, Stages,
        Outcomes, AllOps
  <1>3. CASE CrashAndResume
    <2>1. op \in AllOps
      BY <1>3 DEF CrashAndResume, TypeOK, InstanceTypeOK, StepOK
    <2> QED
      BY <1>3, <2>1, BeginType
      DEF CrashAndResume, TypeOK, InstanceTypeOK, WorldTypeOK, StepOK
  <1> QED
    BY <1>1, <1>2, <1>3 DEF Engine

\* What an answer tells about an object that exists can be stored.
LEMMA AnsweredType ==
    ASSUME NEW k \in Keys, NEW o PROVE Answered(k, o) \in Entry
  BY DEF Answered, Entry

\* The parts of a step that make up the types of the next state.
LEMMA TypeFromParts ==
    ASSUME TypeOK, InstanceTypeOK' /\ StepOK', UNCHANGED node,
           budget' \in Budget, objects' \in [Keys -> Objects],
           finalizers' \in SUBSET Keys
    PROVE  TypeOK'
  BY DEF TypeOK, WorldTypeOK, node, Budget

\* The steps of a task keep the files and the properties of the node.
LEMMA NodeStays ==
    ASSUME \/ \E step, l : Goto(step, l)
           \/ \E p : Recoverable(p)
           \/ \E p : Proceed(p)
           \/ \E result, p : End(result, p)
           \/ Return
    PROVE  UNCHANGED node
  <1>1. ASSUME NEW p, Proceed(p) PROVE UNCHANGED node
    BY <1>1 DEF Proceed, End, node
  <1>2. CASE Return
    BY <1>1, <1>2 DEF Return, node
  <1> QED
    BY <1>1, <1>2 DEF Goto, Recoverable, End, node

\* The worker's steps of a create, read, update or heal keep the types.
LEMMA TypeApply ==
    ASSUME TypeOK,
           \/ CreateCheck \/ CreateCall \/ UpdateCall \/ ReadCall \/ Store
           \/ HealCall \/ RecreateCall
    PROVE  TypeOK'
  <1>0. /\ Path \in Paths /\ Key \in Keys /\ objects[Key] \in Objects
        /\ props \in PropsType /\ local \in LocalType
        /\ op = "none" <=> pc = "idle"
        /\ objects \in [Keys -> Objects] /\ finalizers \in SUBSET Keys
        /\ budget \in Budget
        /\ \A r \in {"success", "conflict", "bad_status", "unresolved"} :
               r \in Outcomes
        /\ {"post", "store", "recreate"} \subseteq Steps \ DeleteSteps
    BY PathType
    DEF TypeOK, WorldTypeOK, InstanceTypeOK, StepOK, Outcomes, Steps,
        DeleteSteps, Budget
  <1>1. CASE CreateCheck
    <2> PICK answer \in Answers : CreateCheck!(answer)
      BY <1>1 DEF CreateCheck
    <2> DEFINE l == [local EXCEPT !.response = Answered(Key, objects[Key])]
    <2>1. l \in LocalType /\ l.response \in Entry /\ l.response.key = Key
      BY <1>0, AnsweredType DEF LocalType, Answered
    <2>2. \/ Goto("post", local) \/ Goto("store", l) \/ Recoverable(props)
      OBVIOUS
    <2>3. /\ pc = "check" /\ op = "create" /\ pc \notin DeleteSteps
          /\ UNCHANGED <<objects, finalizers>>
      BY DEF cluster, DeleteSteps
    <2>4. budget' \in Budget
      BY ChargeType
    <2> HIDE DEF l
    <2>5. InstanceTypeOK' /\ StepOK'
      BY <1>0, <2>1, <2>2, <2>3, GotoType, RecoverableType
    <2> QED
      BY <1>0, <2>2, <2>3, <2>4, <2>5, NodeStays, TypeFromParts
  <1>2. CASE CreateCall
    <2> PICK answer \in Answers : CreateCall!(answer)
      BY <1>2 DEF CreateCall
    <2> DEFINE l == [local EXCEPT !.response = Answered(Key, Posted(objects[Key]))]
    <2>1. l \in LocalType /\ l.response \in Entry /\ l.response.key = Key
      BY <1>0, AnsweredType DEF LocalType, Answered
    <2>2. Goto("store", l) \/ Recoverable(props)
      OBVIOUS
    <2>3. pc = "post" /\ op = "create" /\ pc \notin DeleteSteps
      BY DEF DeleteSteps, TypeOK, StepOK
    <2>4. budget' \in Budget
      BY ChargeType
    <2>5. objects' \in [Keys -> Objects] /\ finalizers' \in SUBSET Keys
      BY <1>0, ObjectType, WriteType
    <2> HIDE DEF l
    <2>6. InstanceTypeOK' /\ StepOK'
      BY <1>0, <2>1, <2>2, <2>3, GotoType, RecoverableType
    <2> QED
      BY <2>2, <2>4, <2>5, <2>6, NodeStays, TypeFromParts
  <1>3. CASE UpdateCall
    <2> PICK answer \in Answers : UpdateCall!(answer)
      BY <1>3 DEF UpdateCall
    <2> DEFINE l == [local EXCEPT !.response = Answered(Key, Patched(objects[Key]))]
    <2>1. l \in LocalType /\ l.response \in Entry /\ l.response.key = Key
      BY <1>0, AnsweredType DEF LocalType, Answered
    <2>2. Goto("store", l) \/ Recoverable(props)
      OBVIOUS
    <2>3. pc = "call" /\ op = "update" /\ pc \notin DeleteSteps
      BY DEF DeleteSteps
    <2>4. budget' \in Budget
      BY ChargeType
    <2>5. objects' \in [Keys -> Objects] /\ finalizers' \in SUBSET Keys
      BY <1>0, ObjectType, WriteType
    <2> HIDE DEF l
    <2>6. InstanceTypeOK' /\ StepOK'
      BY <1>0, <2>1, <2>2, <2>3, GotoType, RecoverableType
    <2> QED
      BY <2>2, <2>4, <2>5, <2>6, NodeStays, TypeFromParts
  <1>4. CASE ReadCall
    <2> PICK answer \in Answers : ReadCall!(answer)
      BY <1>4 DEF ReadCall
    <2> DEFINE l == [local EXCEPT !.response = Answered(Key, objects[Key]),
                                  !.phase = objects[Key].phase]
    <2>1. l \in LocalType /\ l.response \in Entry /\ l.response.key = Key
      <3>1. objects[Key].phase \in Phases \cup {"absent"}
        BY <1>0 DEF Objects, Missing
      <3>2. /\ Answered(Key, objects[Key]) \in Entry
            /\ Answered(Key, objects[Key]).key = Key
        BY <1>0, AnsweredType DEF Answered
      <3> QED
        BY <1>0, <3>1, <3>2 DEF LocalType
    <2>2. /\ \/ Goto("store", l) \/ Recoverable(props) \/ End("unresolved", props)
          /\ Charge(answer) \/ UNCHANGED budget
      OBVIOUS
    <2>3. /\ pc = "call" /\ op = "read" /\ pc \notin DeleteSteps
          /\ UNCHANGED <<objects, finalizers>>
      BY DEF cluster, DeleteSteps
    <2>4. budget' \in Budget
      BY <1>0, <2>2, ChargeType
    <2> HIDE DEF l
    <2>5. InstanceTypeOK' /\ StepOK'
      BY <1>0, <2>1, <2>2, <2>3, GotoType, RecoverableType, EndType
    <2> QED
      BY <1>0, <2>2, <2>3, <2>4, <2>5, NodeStays, TypeFromParts
  <1>5. CASE Store
    <2> DEFINE kept == StoreResult(props, Path, local.response)
    <2>1. /\ pc = "store" /\ op \in {"create", "read", "update"}
          /\ local.response \in Entry /\ op # "delete" /\ op # "none"
          /\ UNCHANGED <<objects, finalizers, budget>>
      BY <1>5 DEF Store, TypeOK, StepOK, cluster
    <2>2. kept \in PropsType
      BY <1>0, <2>1, StoreResultType
    <2>3. Recoverable(kept) \/ End("bad_status", kept) \/ Proceed(kept)
      BY <1>5 DEF Store
    <2> HIDE DEF kept
    <2>4. InstanceTypeOK' /\ StepOK'
      BY <1>0, <2>1, <2>2, <2>3, RecoverableType, EndType, ProceedType
    <2> QED
      BY <1>0, <2>1, <2>3, <2>4, NodeStays, TypeFromParts
  <1>6. CASE HealCall
    <2> PICK answer \in Answers : HealCall!(answer)
      BY <1>6 DEF HealCall
    <2>1. \/ Proceed(props) \/ End("bad_status", props)
          \/ Goto("recreate", local) \/ Recoverable(props)
      OBVIOUS
    <2>2. /\ pc = "call" /\ op = "heal" /\ pc \notin DeleteSteps
          /\ UNCHANGED <<objects, finalizers>>
      BY DEF cluster, DeleteSteps
    <2>3. budget' \in Budget
      BY ChargeType
    <2>4. InstanceTypeOK' /\ StepOK'
      BY <1>0, <2>1, <2>2, GotoType, RecoverableType, EndType, ProceedType
    <2> QED
      BY <1>0, <2>1, <2>2, <2>3, <2>4, NodeStays, TypeFromParts
  <1>7. CASE RecreateCall
    <2> PICK answer \in Answers : RecreateCall!(answer)
      BY <1>7 DEF RecreateCall
    <2>1. End("conflict", props) \/ Recoverable(props)
      OBVIOUS
    <2>2. op = "heal"
      BY DEF TypeOK, StepOK
    <2>3. budget' \in Budget
      BY ChargeType
    <2>4. objects' \in [Keys -> Objects] /\ finalizers' \in SUBSET Keys
      BY <1>0, ObjectType, WriteType
    <2>5. InstanceTypeOK' /\ StepOK'
      BY <1>0, <2>1, <2>2, RecoverableType, EndType
    <2> QED
      BY <2>1, <2>3, <2>4, <2>5, NodeStays, TypeFromParts
  <1> QED
    BY <1>1, <1>2, <1>3, <1>4, <1>5, <1>6, <1>7

\* The worker's steps of a delete, and its calls, keep the types.
LEMMA TypeDelete ==
    ASSUME TypeOK,
           \/ DeleteCheck \/ ResolveProvided \/ ReadForDelete
           \/ \E a \in Paths : CallAdjacent(a)
           \/ PutAdjacentBack \/ CheckExists \/ DeleteCall \/ PatchClaim \/ PutBack
    PROVE  TypeOK'
  <1>0. /\ Path \in Paths /\ Key \in Keys
        /\ props \in PropsType /\ local \in LocalType
        /\ objects \in [Keys -> Objects] /\ finalizers \in SUBSET Keys
        /\ budget \in Budget
        /\ pc \in {"check", "resolve"} => frames = <<>>
        /\ pc \in DeleteSteps => /\ op = "delete" /\ frames # <<>>
                                 /\ Frame \in Calls /\ Target \in Keys
                                 /\ objects[Target] \in Objects
        /\ frames \in Seq(Calls)
    BY PathType, FramesType
    DEF TypeOK, WorldTypeOK, InstanceTypeOK, StepOK, DeleteSteps, Budget
  <1>1. CASE DeleteCheck
    <2> PICK answer \in Answers : DeleteCheck!(answer)
      BY <1>1 DEF DeleteCheck
    <2> DEFINE l == [local EXCEPT !.current = Found(answer, Key)]
    <2>1. l \in LocalType
      BY <1>0 DEF LocalType, Found, Exists
    <2>2. Goto("resolve", l) /\ pc = "check" /\ op = "delete"
          /\ UNCHANGED <<objects, finalizers>>
      BY DEF cluster
    <2>3. budget' \in Budget
      BY ChargeType
    <2> HIDE DEF l
    <2>4. InstanceTypeOK' /\ StepOK'
      BY <2>1, <2>2, GotoType DEF Steps, DeleteSteps
    <2> QED
      BY <1>0, <2>2, <2>3, <2>4, NodeStays, TypeFromParts
  <1>2. CASE ResolveProvided
    <2>1. op = "delete" /\ Key.kind \in Kinds /\ <<>> \in Seq(Calls)
      BY <1>0, <1>2 DEF ResolveProvided, TypeOK, StepOK, Keys
    <2> QED
      BY <1>0, <1>2, <2>1, ResolveType DEF ResolveProvided
  <1>3. CASE ReadForDelete
    <2> PICK answer \in Answers : ReadForDelete!(answer)
      BY <1>3 DEF ReadForDelete
    <2>1. pc = "read" /\ pc \in DeleteSteps /\ UNCHANGED <<objects, finalizers>>
      BY DEF DeleteSteps, cluster
    <2>2. budget' \in Budget
      BY ChargeType
    <2>3. CASE \/ Recoverable(props) \/ Goto("exists", local) \/ Return
      <3>1. InstanceTypeOK' /\ StepOK'
        BY <1>0, <2>1, <2>3, GotoType, RecoverableType, ReturnType
        DEF Steps, DeleteSteps
      <3> QED
        BY <1>0, <2>1, <2>2, <2>3, <3>1, NodeStays, TypeFromParts
    <2>4. CASE /\ frames' = [frames EXCEPT ![1].todo =
                    {a \in DOMAIN Frame.adjacent : Frame.adjacent[a].typed}]
               /\ pc' = "adjacent"
               /\ UNCHANGED <<node, stage, outcome, op, turn, retried, props,
                              local>>
      <3> DEFINE todo == {a \in DOMAIN Frame.adjacent : Frame.adjacent[a].typed}
      <3>1. /\ Frame = frames[1] /\ 1 \in DOMAIN frames
            /\ todo \subseteq DOMAIN frames[1].adjacent
        BY <1>0, <2>1 DEF Frame
      <3>2. todo \in SUBSET Paths
        BY <1>0, <2>1 DEF Calls, FrameType, Entries
      <3> HIDE DEF todo
      <3>3. [frames[1] EXCEPT !.todo = todo] \in Calls
        BY <1>0, <2>1, <3>1, <3>2 DEF Calls, FrameType
      <3>4. frames' = [frames EXCEPT ![1] = [frames[1] EXCEPT !.todo = todo]]
        BY <2>4 DEF todo
      <3>5. frames' \in Seq(Calls) /\ frames' # <<>>
        BY <1>0, <3>1, <3>3, <3>4
      <3>6. frames' \in Seq(FrameType)
        BY <3>5 DEF Calls
      <3>7. \A i \in DOMAIN frames' :
               frames'[i].todo \subseteq DOMAIN frames'[i].adjacent
        BY <3>5 DEF Calls
      <3>8. InstanceTypeOK'
        BY <2>4, <3>6 DEF TypeOK, InstanceTypeOK, node, Steps, DeleteSteps
      <3>9. StepOK'
        BY <1>0, <2>1, <2>4, <3>5, <3>7 DEF TypeOK, StepOK, DeleteSteps
      <3> QED
        BY <1>0, <2>1, <2>2, <2>4, <3>8, <3>9, TypeFromParts
    <2> QED
      BY <2>3, <2>4
  <1>4. ASSUME NEW a \in Paths, CallAdjacent(a) PROVE TypeOK'
    <2> DEFINE callers == [frames EXCEPT ![1].todo = @ \ {a}]
    <2>1. pc \in DeleteSteps /\ a \in Frame.todo
      BY <1>4 DEF CallAdjacent, DeleteSteps
    <2>2. Frame = frames[1] /\ 1 \in DOMAIN frames
      BY <1>0, <2>1 DEF Frame
    <2>3. [frames[1] EXCEPT !.todo = @ \ {a}] \in Calls
      BY <1>0, <2>1, <2>2 DEF Calls, FrameType
    <2>4. callers \in Seq(Calls)
      <3>1. callers = [frames EXCEPT ![1] = [frames[1] EXCEPT !.todo = @ \ {a}]]
        OBVIOUS
      <3> QED
        BY <1>0, <2>2, <2>3, <3>1
    <2>5. /\ Frame.adjacent[a].key \in Keys /\ Frame.key.kind \in Kinds
      <3>1. /\ a \in DOMAIN Frame.adjacent /\ Frame.key \in Keys
            /\ Frame.adjacent \in [DOMAIN Frame.adjacent -> Entry]
        BY <1>0, <2>1 DEF Calls, FrameType, Entries
      <3> QED
        BY <3>1 DEF Entry, Keys
    <2>6. Resolve(callers, Frame.adjacent[a].key, Frame.key.kind)
      BY <1>4 DEF CallAdjacent
    <2> HIDE DEF callers
    <2> QED
      BY <1>0, <2>1, <2>4, <2>5, <2>6, ResolveType
  <1>5. CASE PutAdjacentBack
    <2>1. Frame.adjacent \in Entries /\ op = "delete"
          /\ UNCHANGED <<objects, finalizers, budget>>
      BY <1>0, <1>5 DEF PutAdjacentBack, DeleteSteps, Calls, FrameType, cluster
    <2>2. PICK ps \in StoreAll(props, Frame.adjacent) : Recoverable(ps)
      BY <1>5 DEF PutAdjacentBack
    <2>3. ps \in PropsType
      BY <1>0, <2>1, StoreAllType
    <2> QED
      BY <1>0, <2>1, <2>2, <2>3, RecoverableType, NodeStays, TypeFromParts
  <1>6. CASE CheckExists
    <2> PICK answer \in Answers : CheckExists!(answer)
      BY <1>6 DEF CheckExists
    <2>1. /\ \/ Goto("delete", local) \/ Goto("patch", local)
             \/ Goto("putback", local)
          /\ pc \in DeleteSteps /\ UNCHANGED <<objects, finalizers>>
      BY DEF AfterResponse, DeleteSteps, cluster
    <2>2. InstanceTypeOK' /\ StepOK'
      BY <1>0, <2>1, GotoType DEF Steps, DeleteSteps
    <2> QED
      BY <1>0, <2>1, <2>2, ChargeType, NodeStays, TypeFromParts
  <1>7. CASE DeleteCall
    <2> PICK answer \in Answers : DeleteCall!(answer)
      BY <1>7 DEF DeleteCall
    <2>1. /\ \/ Goto("patch", local) \/ Goto("putback", local)
             \/ Recoverable(props)
          /\ pc \in DeleteSteps
      BY DEF AfterResponse, DeleteSteps
    <2>2. DeletedHere(Target) \in SUBSET Objects
      BY <1>0, <2>1, ObjectType DEF DeletedHere
    <2>3. objects' \in [Keys -> Objects] /\ finalizers' \in SUBSET Keys
      BY <1>0, <2>1, <2>2, WriteType
    <2>4. InstanceTypeOK' /\ StepOK'
      BY <1>0, <2>1, GotoType, RecoverableType DEF Steps, DeleteSteps
    <2> QED
      BY <2>1, <2>3, <2>4, ChargeType, NodeStays, TypeFromParts
  <1>8. CASE PatchClaim
    <2> PICK answer \in Answers : PatchClaim!(answer)
      BY <1>8 DEF PatchClaim
    <2>1. Goto("putback", local) /\ pc \in DeleteSteps
      BY DEF DeleteSteps
    <2>2. objects' \in [Keys -> Objects] /\ finalizers' \in SUBSET Keys
      BY <1>0, <2>1, ObjectType DEF cluster
    <2>3. InstanceTypeOK' /\ StepOK'
      BY <1>0, <2>1, GotoType DEF Steps, DeleteSteps
    <2> QED
      BY <2>1, <2>2, <2>3, ChargeType, NodeStays, TypeFromParts
  <1>9. CASE PutBack
    <2> DEFINE kept == StoreResult(props, Path, [key |-> Frame.key, typed |-> FALSE])
    <2>1. /\ Frame.adjacent \in Entries /\ op = "delete" /\ frames # <<>>
          /\ [key |-> Frame.key, typed |-> FALSE] \in Entry
          /\ UNCHANGED <<objects, finalizers, budget>>
      BY <1>0, <1>9 DEF PutBack, DeleteSteps, Calls, FrameType, Entry, cluster
    <2>2. kept \in PropsType
      BY <1>0, <2>1, StoreResultType
    <2>3. \/ \E ps \in StoreAll(kept, Frame.adjacent) : Recoverable(ps)
          \/ \E ps \in StoreAll(props, Frame.adjacent) : Recoverable(ps)
          \/ Return
      BY <1>9 DEF PutBack
    <2> HIDE DEF kept
    <2>4. (\E ps \in PropsType : Recoverable(ps)) \/ Return
      BY <1>0, <2>1, <2>2, <2>3, StoreAllType
    <2>5. InstanceTypeOK' /\ StepOK'
      BY <2>1, <2>4, RecoverableType, ReturnType
    <2> QED
      BY <1>0, <2>1, <2>4, <2>5, NodeStays, TypeFromParts
  <1> QED
    BY <1>1, <1>2, <1>3, <1>4, <1>5, <1>6, <1>7, <1>8, <1>9

\* The steps of the rest of the world keep the types.
LEMMA TypeWorld ==
    ASSUME TypeOK, World PROVE TypeOK'
  <1> USE DEF TypeOK, WorldTypeOK, InstanceTypeOK, StepOK
  <1>1. ASSUME NEW l \in Layouts, Redefine(l) PROVE TypeOK'
    <2>1. l \in Seq(Definition) /\ l # <<>>
      BY LayoutsAssumption
    <2>2. turn' \in DOMAIN layout'
      BY <1>1, <2>1 DEF Redefine
    <2>3. pc = "idle"
      BY <1>1 DEF Redefine
    <2> QED
      BY <1>1, <2>2, <2>3 DEF Redefine, cluster, DeleteSteps
  <1>2. ASSUME NEW k \in Keys, Controller(k) \/ Unprotect(k) \/ OtherClient(k)
        PROVE  TypeOK'
    <2>1. objects' \in [Keys -> Objects] /\ finalizers' \in SUBSET Keys
      BY <1>2, ObjectType, BecomesType DEF Controller, Unprotect, OtherClient
    <2>2. /\ UNCHANGED <<node, stage, outcome, op, pc, turn, retried, props,
                         local, frames>>
          /\ budget' \in Budget
      BY <1>2 DEF Controller, Unprotect, OtherClient, Budget
    <2>3. InstanceTypeOK' /\ StepOK'
      BY <2>2 DEF node, Key
    <2> QED
      BY <2>1, <2>2, <2>3, TypeFromParts
  <1> QED
    BY <1>1, <1>2 DEF World

\* Every state has the types its declarations say: however often a delete has
\* called itself, each of the calls that wait has a definition and entries of
\* its own to go on with, and each step of the worker finds what it uses.
THEOREM TypeCorrect == Spec => []TypeOK
  <1>1. TypeOK /\ UNCHANGED vars => TypeOK'
    BY DEF TypeOK, WorldTypeOK, InstanceTypeOK, StepOK, vars, cluster, node, Key
  <1>2. TypeOK /\ Worker => TypeOK'
    BY TypeApply, TypeDelete DEF Worker
  <1>3. TypeOK /\ [Next]_vars => TypeOK'
    BY <1>1, <1>2, TypeEngine, TypeWorld DEF Next
  <1> QED
    BY TypeInit, <1>3, PTL DEF Spec

-----------------------------------------------------------------------------
(* The stored definitions.                                                 *)

Distinct(defs) == \A i, j \in DOMAIN defs : defs[i] = defs[j] => i = j

\* pop() and remove_resource_definition leave no definition twice.
LEMMA PoppedDistinct ==
    ASSUME NEW d \in Seq(Keys), Distinct(d) PROVE Distinct(Popped(d))
  BY DEF Popped, Distinct

\* A list without a definition is distinct if the list is.
LEMMA RemoveDistinct ==
    ASSUME NEW d \in Seq(Keys), Distinct(d), NEW k
    PROVE  Distinct(RemoveDefinition(d, k))
  <1>1. CASE ~Occurs(k, d)
    BY <1>1 DEF RemoveDefinition
  <1>2. CASE Occurs(k, d)
    <2> DEFINE i == CHOOSE j \in DOMAIN d : d[j] = k
               left == SubSeq(d, 1, i - 1)
               right == SubSeq(d, i + 1, Len(d))
               rest == left \o right
    <2>1. i \in 1 .. Len(d) /\ Len(d) \in Nat
      BY <1>2 DEF Occurs
    <2>2. RemoveDefinition(d, k) = rest
      BY <1>2 DEF RemoveDefinition
    <2> HIDE DEF i
    <2>3. /\ left \in Seq(Keys) /\ Len(left) = i - 1
          /\ \A j \in 1 .. i - 1 : left[j] = d[j]
      BY <2>1
    <2>4. /\ right \in Seq(Keys) /\ Len(right) = Len(d) - i
          /\ \A j \in 1 .. Len(d) - i : right[j] = d[i + j]
      BY <2>1
    <2> HIDE DEF left, right
    <2>5. /\ rest \in Seq(Keys) /\ Len(rest) = Len(left) + Len(right)
          /\ \A j \in 1 .. Len(left) + Len(right) :
                rest[j] = IF j <= Len(left) THEN left[j] ELSE right[j - Len(left)]
      BY <2>3, <2>4, ConcatProperties
    <2> DEFINE n == Len(d)
    <2> HIDE DEF rest
    <2>6. /\ i \in 1 .. n /\ n \in Nat
          /\ Len(left) = i - 1 /\ Len(right) = n - i /\ Len(rest) = n - 1
          /\ DOMAIN rest = 1 .. n - 1
      BY <2>1, <2>3, <2>4, <2>5
    <2> HIDE DEF n
    <2>7. ASSUME NEW j \in 1 .. n - 1, j < i PROVE rest[j] = d[j]
      <3>1. j \in 1 .. i - 1 /\ j \in 1 .. (i - 1) + (n - i) /\ j <= i - 1
        BY <2>6, <2>7
      <3>2. rest[j] = left[j]
        BY <2>5, <2>6, <3>1
      <3> QED
        BY <2>3, <3>1, <3>2
    <2>8. ASSUME NEW j \in 1 .. n - 1, ~(j < i) PROVE rest[j] = d[j + 1]
      <3>1. /\ j \in 1 .. (i - 1) + (n - i) /\ ~(j <= i - 1)
            /\ j - (i - 1) \in 1 .. n - i /\ i + (j - (i - 1)) = j + 1
        BY <2>6, <2>8
      <3>2. rest[j] = right[j - (i - 1)]
        BY <2>5, <2>6, <3>1
      <3> QED
        BY <2>4, <3>1, <3>2 DEF n
    <2>9. ASSUME NEW j \in 1 .. n - 1, NEW m \in 1 .. n - 1,
                 rest[j] = rest[m]
          PROVE  j = m
      <3> DEFINE jj == IF j < i THEN j ELSE j + 1
                 mm == IF m < i THEN m ELSE m + 1
      <3>1. rest[j] = d[jj] /\ rest[m] = d[mm]
        BY <2>7, <2>8
      <3>2. jj \in DOMAIN d /\ mm \in DOMAIN d
        BY <2>6 DEF n
      <3>3. jj = mm
        BY <2>9, <3>1, <3>2 DEF Distinct
      <3> QED
        BY <2>6, <3>3
    <2> QED
      BY <2>2, <2>6, <2>9 DEF Distinct
  <1> QED
    BY <1>1, <1>2

\* store_resource_definition stores what it is given, once, and forgets nothing.
LEMMA StoreKeeps ==
    ASSUME NEW d \in Seq(Keys), NEW k \in Keys
    PROVE  /\ Distinct(d) => Distinct(StoreDefinition(d, k))
           /\ Occurs(k, StoreDefinition(d, k))
           /\ \A m : Occurs(m, d) => Occurs(m, StoreDefinition(d, k))
  <1>1. CASE Occurs(k, d)
    BY <1>1 DEF StoreDefinition
  <1>2. CASE ~Occurs(k, d)
    <2>1. StoreDefinition(d, k) = Append(d, k)
      BY <1>2 DEF StoreDefinition
    <2>2. Occurs(k, Append(d, k))
      BY DEF Occurs
    <2>3. ASSUME NEW m, Occurs(m, d) PROVE Occurs(m, Append(d, k))
      BY <2>3 DEF Occurs
    <2>4. Distinct(d) => Distinct(Append(d, k))
      BY <1>2 DEF Distinct, Occurs
    <2> QED
      BY <2>1, <2>2, <2>3, <2>4
  <1> QED
    BY <1>1, <1>2

\* The loop that puts adjacent entries back stores no definition again.
LEMMA StoreAllDistinct ==
    ASSUME NEW ps \in PropsType, Distinct(ps.defs), NEW entries \in Entries,
           NEW qs \in StoreAll(ps, entries)
    PROVE  Distinct(qs.defs)
  <1> DEFINE new == {entries[p].key : p \in DOMAIN entries} \ Range(ps.defs)
  <1> DEFINE merged == [q \in DOMAIN ps.stored \cup DOMAIN entries |->
                           IF q \in DOMAIN entries THEN entries[q]
                           ELSE ps.stored[q]]
  <1>0. qs \in {[stored |-> merged, defs |-> ps.defs \o order] :
                   order \in Orders(new)}
    BY Zenon DEF StoreAll
  <1> HIDE DEF merged, new
  <1>1. PICK order \in Orders(new) : qs.defs = ps.defs \o order
    BY <1>0
  <1> USE DEF new
  <1>2. new \in SUBSET Keys
    BY DEF Entries, Entry
  <1>3. /\ order \in Seq(Keys) /\ \A i \in DOMAIN order : order[i] \in new
        /\ Distinct(order)
    BY <1>2, OrderType DEF Distinct
  <1>4. \A i \in DOMAIN order, j \in DOMAIN ps.defs : order[i] # ps.defs[j]
    BY <1>3 DEF Range
  <1> HIDE DEF new
  <1>5. ps.defs \in Seq(Keys)
    BY DEF PropsType
  <1> DEFINE d == ps.defs \o order
             m == Len(ps.defs)
             n == Len(order)
  <1>6. /\ d \in Seq(Keys) /\ Len(d) = m + n
        /\ \A i \in 1 .. m + n :
              d[i] = IF i <= m THEN ps.defs[i] ELSE order[i - m]
    BY <1>3, <1>5, ConcatProperties
  <1>7. /\ m \in Nat /\ n \in Nat
        /\ DOMAIN ps.defs = 1 .. m /\ DOMAIN order = 1 .. n /\ DOMAIN d = 1 .. m + n
    BY <1>3, <1>5, <1>6
  <1> HIDE DEF d, m, n
  <1>8. ASSUME NEW i \in 1 .. m + n, NEW j \in 1 .. m + n, d[i] = d[j] PROVE i = j
    <2>0. /\ i <= m => i \in 1 .. m /\ d[i] = ps.defs[i]
          /\ i > m => i - m \in 1 .. n /\ d[i] = order[i - m]
          /\ j <= m => j \in 1 .. m /\ d[j] = ps.defs[j]
          /\ j > m => j - m \in 1 .. n /\ d[j] = order[j - m]
      BY <1>6, <1>7
    <2>1. CASE i <= m /\ j <= m
      BY <1>7, <1>8, <2>0, <2>1 DEF Distinct
    <2>2. CASE i > m /\ j > m
      <3>1. i - m = j - m
        BY <1>3, <1>7, <1>8, <2>0, <2>2 DEF Distinct
      <3> QED
        BY <1>7, <3>1
    <2>3. CASE i <= m /\ j > m
      BY <1>4, <1>7, <1>8, <2>0, <2>3
    <2>4. CASE i > m /\ j <= m
      BY <1>4, <1>7, <1>8, <2>0, <2>4
    <2> QED
      BY <1>7, <2>1, <2>2, <2>3, <2>4
  <1> QED
    BY <1>1, <1>7, <1>8 DEF Distinct, d

\* The steps of a create, read, update or heal store a response or nothing.
LEMMA ApplyKeeps ==
    ASSUME TypeOK,
           \/ CreateCheck \/ CreateCall \/ UpdateCall \/ ReadCall \/ Store
           \/ HealCall \/ RecreateCall
    PROVE  \/ props' = props
           \/ Store /\ props' = StoreResult(props, Path, local.response)
  <1>1. ASSUME NEW p, Proceed(p) PROVE props' = p
    BY <1>1 DEF Proceed, End
  <1>2. CASE CreateCheck \/ CreateCall \/ UpdateCall
    BY <1>2 DEF CreateCheck, CreateCall, UpdateCall, Goto, Recoverable
  <1>3. CASE ReadCall \/ RecreateCall
    BY <1>3 DEF ReadCall, RecreateCall, Goto, Recoverable, End
  <1>4. CASE HealCall
    BY <1>1, <1>4 DEF HealCall, Goto, Recoverable, End
  <1>5. CASE Store
    BY <1>1, <1>5 DEF Store, Recoverable, End
  <1> QED
    BY <1>2, <1>3, <1>4, <1>5

\* Looking for the definition to delete leaves no definition twice.
LEMMA ResolveDistinct ==
    ASSUME TypeOK, Distinct(props.defs), NEW callers, NEW k, NEW m,
           Resolve(callers, k, m)
    PROVE  Distinct(props'.defs)
  <1>1. /\ props \in PropsType /\ props.defs \in Seq(Keys)
        /\ DefsAfterLookup \in Seq(Keys) /\ Distinct(DefsAfterLookup)
    BY PoppedType, PoppedDistinct
    DEF TypeOK, InstanceTypeOK, PropsType, DefsAfterLookup
  <1>2. ASSUME NEW q, ResolveByEntry(callers, q) PROVE Distinct(props'.defs)
    <2>1. props'.defs = DefsAfterLookup
      BY <1>1, <1>2 DEF ResolveByEntry, Recoverable, Enter, PropsType
    <2> QED
      BY <1>1, <2>1
  <1>3. CASE ResolveByDefinition(callers, k, m)
    <2>1. PICK f \in StoredOrProvided(DefsAfterLookup, k, m) :
              props' = [props EXCEPT !.defs =
                           RemoveDefinition(Popped(DefsAfterLookup), f.key)]
      BY <1>3 DEF ResolveByDefinition, Enter
    <2>2. props'.defs = RemoveDefinition(Popped(DefsAfterLookup), f.key)
      BY <1>1, <2>1 DEF PropsType
    <2> QED
      BY <1>1, <2>2, PoppedType, PoppedDistinct, RemoveDistinct
  <1> QED
    BY <1>2, <1>3 DEF Resolve

\* The return of a call changes no stored definition.
LEMMA ReturnDistinct ==
    ASSUME TypeOK, Distinct(props.defs), Return
    PROVE  Distinct(props'.defs)
  <1>1. ASSUME NEW p, Proceed(p) PROVE props' = p
    BY <1>1 DEF Proceed, End
  <1>2. props \in PropsType
    BY DEF TypeOK, InstanceTypeOK
  <1>3. props'.defs = props.defs
    BY <1>1, <1>2 DEF Return, PropsType
  <1> QED
    BY <1>3

\* No step of a delete leaves a definition twice.
LEMMA DeleteDistinct ==
    ASSUME TypeOK, Distinct(props.defs),
           \/ DeleteCheck \/ ResolveProvided \/ ReadForDelete
           \/ \E a \in Paths : CallAdjacent(a)
           \/ PutAdjacentBack \/ CheckExists \/ DeleteCall \/ PatchClaim \/ PutBack
    PROVE  Distinct(props'.defs)
  <1>0. /\ props \in PropsType /\ props.defs \in Seq(Keys) /\ Path \in Paths
        /\ pc \in DeleteSteps => Frame.adjacent \in Entries /\ Frame.key \in Keys
    BY PathType, FramesType
    DEF TypeOK, InstanceTypeOK, StepOK, PropsType, Calls, FrameType
  <1>1. CASE DeleteCheck \/ CheckExists \/ DeleteCall \/ PatchClaim
    BY <1>1
    DEF DeleteCheck, CheckExists, DeleteCall, PatchClaim, AfterResponse, Goto,
        Recoverable
  <1>2. CASE ResolveProvided \/ \E a \in Paths : CallAdjacent(a)
    BY <1>2, ResolveDistinct DEF ResolveProvided, CallAdjacent
  <1>3. CASE ReadForDelete
    BY <1>3, ReturnDistinct DEF ReadForDelete, Goto, Recoverable
  <1>4. CASE PutAdjacentBack
    <2>1. PICK ps \in StoreAll(props, Frame.adjacent) : Recoverable(ps)
      BY <1>4 DEF PutAdjacentBack
    <2>2. Frame.adjacent \in Entries
      BY <1>0, <1>4 DEF PutAdjacentBack, DeleteSteps
    <2> QED
      BY <1>0, <2>1, <2>2, StoreAllDistinct DEF Recoverable
  <1>5. CASE PutBack
    <2> DEFINE e == [key |-> Frame.key, typed |-> FALSE]
               kept == StoreResult(props, Path, e)
    <2>1. Frame.adjacent \in Entries /\ Frame.key \in Keys /\ e \in Entry
      BY <1>0, <1>5 DEF PutBack, DeleteSteps, Entry
    <2>2. kept \in PropsType
      BY <1>0, <2>1, StoreResultType
    <2>3. Distinct(kept.defs)
      BY <1>0, <2>1, StoreKeeps DEF StoreResult
    <2>4. \/ \E ps \in StoreAll(kept, Frame.adjacent) : Recoverable(ps)
          \/ \E ps \in StoreAll(props, Frame.adjacent) : Recoverable(ps)
          \/ Return
      BY <1>5 DEF PutBack
    <2> HIDE DEF kept
    <2>5. ASSUME NEW qs \in {kept, props}, NEW ps \in StoreAll(qs, Frame.adjacent),
                 Recoverable(ps)
          PROVE  Distinct(props'.defs)
      BY <1>0, <2>1, <2>2, <2>3, <2>5, StoreAllDistinct DEF Recoverable
    <2> QED
      BY <2>4, <2>5, ReturnDistinct
  <1> QED
    BY <1>1, <1>2, <1>3, <1>4, <1>5

\* The engine and the rest of the world leave the runtime properties alone.
LEMMA OthersKeep ==
    ASSUME Engine \/ CrashAndResume \/ World \/ UNCHANGED vars
    PROVE  props' = props
  BY DEF Engine, Retry, Start, Begin, CrashAndResume, World, Controller,
         Unprotect, OtherClient, Redefine, vars

\* No definition is ever stored twice, however often a delete takes definitions
\* out and puts them back.
THEOREM DefinitionsAreUnique == Spec => []DefsUnique
  <1>1. Init => DefsUnique
    BY DEF Init, DefsUnique
  <1>2. ASSUME TypeOK, DefsUnique, [Next]_vars PROVE DefsUnique'
    <2>1. Distinct(props.defs)
      BY <1>2 DEF DefsUnique, Distinct
    <2>2. CASE props' = props
      BY <2>1, <2>2 DEF DefsUnique, Distinct
    <2>3. CASE Store /\ props' = StoreResult(props, Path, local.response)
      <3>1. local.response.key \in Keys /\ props.defs \in Seq(Keys)
        BY <1>2, <2>3
        DEF Store, TypeOK, InstanceTypeOK, StepOK, PropsType, Entry
      <3>2. props'.defs = StoreDefinition(props.defs, local.response.key)
        BY <2>3 DEF StoreResult
      <3>3. Distinct(props'.defs)
        BY <2>1, <3>1, <3>2, StoreKeeps
      <3> QED
        BY <3>3 DEF DefsUnique, Distinct
    <2>4. Distinct(props'.defs) => DefsUnique'
      BY DEF DefsUnique, Distinct
    <2> QED
      BY <1>2, <2>1, <2>2, <2>3, <2>4, ApplyKeeps, DeleteDistinct, OthersKeep
      DEF Next, Worker
  <1> QED
    BY <1>1, <1>2, TypeCorrect, PTL DEF Spec

-----------------------------------------------------------------------------
(* The stored entries.                                                     *)

\* The runtime properties have what a later operation on the definition needs.
Covers(ps, d) ==
    /\ d.path \in DOMAIN ps.stored /\ ps.stored[d.path].key = d.key
    /\ Occurs(d.key, ps.defs)

\* A create has covered the definitions before the one it is at.
CoverInv ==
    /\ budget.redefinitions <= MaxRedefinitions
    /\ NeverRedefined =>
          /\ op = "create" => \A i \in 1 .. turn - 1 : Covers(props, layout[i])
          /\ stage = "created" => \A i \in DOMAIN layout : Covers(props, layout[i])

\* Storing the response covers the definition under way, and the path of no
\* other one is overwritten.
LEMMA StoreCovers ==
    ASSUME TypeOK, Store
    PROVE  LET kept == StoreResult(props, Path, local.response)
           IN  /\ Covers(kept, layout[turn])
               /\ \A i \in DOMAIN layout :
                     Covers(props, layout[i]) => Covers(kept, layout[i])
  <1> DEFINE kept == StoreResult(props, Path, local.response)
  <1>1. /\ local.response.key = Key /\ Key \in Keys /\ Path \in Paths
        /\ props.defs \in Seq(Keys)
    BY PathType DEF Store, TypeOK, InstanceTypeOK, StepOK, PropsType
  <1>2. /\ kept.stored = With(props.stored, Path, local.response)
        /\ kept.defs = StoreDefinition(props.defs, Key)
    BY <1>1 DEF StoreResult
  <1> HIDE DEF kept
  <1>3. /\ Path \in DOMAIN kept.stored /\ kept.stored[Path].key = Key
        /\ \A q \in DOMAIN props.stored :
              q # Path => q \in DOMAIN kept.stored /\ kept.stored[q] = props.stored[q]
    BY <1>1, <1>2 DEF With
  <1>4. /\ Occurs(Key, kept.defs)
        /\ \A m : Occurs(m, props.defs) => Occurs(m, kept.defs)
    BY <1>1, <1>2, StoreKeeps
  <1>5. Covers(kept, layout[turn])
    BY <1>3, <1>4 DEF Covers, Path, Key
  <1>6. ASSUME NEW i \in DOMAIN layout, Covers(props, layout[i])
        PROVE  Covers(kept, layout[i])
    <2>1. CASE layout[i].path = Path
      <3>1. turn = i
        BY <2>1, LayoutsAssumption
        DEF Path, TypeOK, WorldTypeOK, InstanceTypeOK
      <3> QED
        BY <1>5, <3>1
    <2>2. CASE layout[i].path # Path
      BY <1>3, <1>4, <1>6, <2>2 DEF Covers
    <2> QED
      BY <2>1, <2>2
  <1> QED
    BY <1>5, <1>6 DEF kept

\* An exchange leaves the number of redefinitions alone.
LEMMA ChargeRedefinesNothing ==
    ASSUME TypeOK, NEW answer, Charge(answer)
    PROVE  budget'.redefinitions = budget.redefinitions
  BY DEF Charge, TypeOK, WorldTypeOK

\* So does every step of the worker, and it changes no file.
LEMMA WorkerRedefinesNothing ==
    ASSUME TypeOK, Worker
    PROVE  budget'.redefinitions = budget.redefinitions /\ UNCHANGED node
  <1>1. ASSUME NEW callers, NEW k, NEW m, Resolve(callers, k, m)
        PROVE  UNCHANGED budget /\ UNCHANGED node
    BY <1>1 DEF Resolve, ResolveByEntry, ResolveByDefinition, Enter,
                Recoverable, node
  <1>2. CASE \/ CreateCheck \/ CreateCall \/ UpdateCall \/ Store
             \/ RecreateCall \/ DeleteCheck \/ DeleteCall
             \/ CheckExists \/ PatchClaim
    BY <1>2, ChargeRedefinesNothing, NodeStays
    DEF CreateCheck, CreateCall, UpdateCall, Store, RecreateCall,
        DeleteCheck, DeleteCall, CheckExists, PatchClaim, AfterResponse
  <1>3. CASE ReadCall \/ HealCall
    BY <1>3, ChargeRedefinesNothing, NodeStays DEF ReadCall, HealCall
  <1>4. CASE ReadForDelete
    BY <1>4, ChargeRedefinesNothing, NodeStays DEF ReadForDelete
  <1>5. CASE PutAdjacentBack \/ PutBack
    BY <1>5, NodeStays DEF PutAdjacentBack, PutBack
  <1>6. CASE ResolveProvided \/ \E a \in Paths : CallAdjacent(a)
    BY <1>1, <1>6 DEF ResolveProvided, CallAdjacent
  <1> QED
    BY <1>2, <1>3, <1>4, <1>5, <1>6 DEF Worker

\* Only the end of a create with its last definition installs the node.
LEMMA ApplyEnds ==
    ASSUME TypeOK,
           \/ CreateCheck \/ CreateCall \/ UpdateCall \/ ReadCall \/ Store
           \/ HealCall \/ RecreateCall
    PROVE  /\ op' = "create" => /\ op = "create"
                               /\ \/ turn' = 1 \/ turn' = turn
                                  \/ Store /\ turn' = turn + 1
           /\ stage' = "created" => \/ stage = "created"
                                    \/ Store /\ op = "create" /\ turn = Len(layout)
  <1>1. ASSUME NEW p, Proceed(p)
        PROVE  /\ op' = "create" => op = "create" /\ turn' = turn + 1
               /\ op # "create" /\ stage' = "created" => stage = "created"
               /\ stage' = "created" => stage = "created" \/ turn = Len(layout)
    BY <1>1, PathType DEF Proceed, End, StageAfter
  <1>2. ASSUME NEW result, NEW p, End(result, p), result # "success"
        PROVE  op' # "create" /\ (stage' = "created" => stage = "created")
    BY <1>2 DEF End, StageAfter
  <1>3. CASE CreateCheck \/ CreateCall \/ UpdateCall
    BY <1>3 DEF CreateCheck, CreateCall, UpdateCall, Goto, Recoverable
  <1>4. CASE ReadCall \/ RecreateCall
    BY <1>2, <1>4 DEF ReadCall, RecreateCall, Goto, Recoverable
  <1>5. CASE HealCall
    BY <1>1, <1>2, <1>5 DEF HealCall, Goto, Recoverable
  <1>6. CASE Store
    <2>1. op = "create" \/ stage = "created"
      BY <1>6 DEF Store, TypeOK, StepOK
    <2> QED
      BY <1>1, <1>2, <1>6, <2>1 DEF Store, Recoverable
  <1> QED
    BY <1>3, <1>4, <1>5, <1>6

\* The worker's steps keep the coverage.
LEMMA CoverWorker ==
    ASSUME TypeOK, CoverInv, Worker PROVE CoverInv'
  <1>1. /\ budget'.redefinitions = budget.redefinitions
        /\ layout' = layout
        /\ NeverRedefined' => NeverRedefined
    BY WorkerRedefinesNothing DEF node, NeverRedefined
  <1>2. /\ layout \in Seq(Definition) /\ DOMAIN layout = 1 .. Len(layout)
        /\ turn \in 1 .. Len(layout) /\ Len(layout) \in Nat
    BY PathType DEF TypeOK, InstanceTypeOK
  <1>3. CASE \/ CreateCheck \/ CreateCall \/ UpdateCall \/ ReadCall \/ Store
             \/ HealCall \/ RecreateCall
    <2>1. \A i \in DOMAIN layout : Covers(props, layout[i]) => Covers(props', layout[i])
      BY <1>3, ApplyKeeps, StoreCovers
    <2>2. Store => Covers(props', layout[turn])
      BY <1>3, ApplyKeeps, StoreCovers DEF Store, Proceed, Recoverable, End
    <2>a. /\ op' = "create" => /\ op = "create"
                              /\ \/ turn' = 1 \/ turn' = turn
                                 \/ Store /\ turn' = turn + 1
          /\ stage' = "created" => \/ stage = "created"
                                   \/ Store /\ op = "create" /\ turn = Len(layout)
      BY <1>3, ApplyEnds, Zenon
    <2>3. ASSUME NeverRedefined, op' = "create", NEW i \in 1 .. turn' - 1
          PROVE  Covers(props', layout[i])
      <3>1. op = "create" /\ (turn' = 1 \/ turn' = turn \/ (Store /\ turn' = turn + 1))
        BY <2>a, <2>3, Zenon
      <3>2. i \in 1 .. turn - 1 \/ (Store /\ i = turn)
        <4>1. CASE turn' = 1 \/ turn' = turn
          BY <1>2, <2>3, <4>1
        <4>2. CASE Store /\ turn' = turn + 1
          BY <1>2, <2>3, <4>2
        <4> QED
          BY <3>1, <4>1, <4>2
      <3>3. i \in DOMAIN layout
        BY <1>2, <3>2
      <3> QED
        BY <2>1, <2>2, <2>3, <3>1, <3>2, <3>3 DEF CoverInv
    <2>4. ASSUME NeverRedefined, stage' = "created", NEW i \in DOMAIN layout
          PROVE  Covers(props', layout[i])
      <3>1. CASE stage = "created"
        BY <2>1, <2>4, <3>1 DEF CoverInv
      <3>2. CASE Store /\ op = "create" /\ turn = Len(layout)
        <4>1. i \in 1 .. turn - 1 \/ i = turn
          BY <1>2, <2>4, <3>2
        <4> QED
          BY <2>1, <2>2, <2>4, <3>2, <4>1 DEF CoverInv
      <3> QED
        BY <2>a, <2>4, <3>1, <3>2, Zenon
    <2> QED
      BY <1>1, <2>3, <2>4 DEF CoverInv
  <1>4. CASE \/ DeleteCheck \/ ResolveProvided \/ ReadForDelete
             \/ \E a \in Paths : CallAdjacent(a)
             \/ PutAdjacentBack \/ CheckExists \/ DeleteCall \/ PatchClaim \/ PutBack
    <2>1. op = "delete"
      BY <1>4
      DEF DeleteCheck, ResolveProvided, ReadForDelete, CallAdjacent,
          PutAdjacentBack, CheckExists, DeleteCall, PatchClaim, PutBack,
          TypeOK, StepOK, DeleteSteps
    <2>2. stage = "deleting"
      BY <2>1 DEF TypeOK, StepOK
    <2>3. TypeOK'
      BY <1>4, TypeDelete
    <2>4. op' \in {"delete", "none"} /\ stage' \in {"deleting", "deleted"}
      <3>1. ASSUME NEW p, Proceed(p)
            PROVE  op' \in {"delete", "none"} /\ stage' \in {"deleting", "deleted"}
        BY <2>1, <2>2, <3>1 DEF Proceed, End, StageAfter
      <3>2. ASSUME Return
            PROVE  op' \in {"delete", "none"} /\ stage' \in {"deleting", "deleted"}
        BY <2>1, <2>2, <3>1, <3>2 DEF Return
      <3>3. ASSUME NEW callers, NEW k, NEW m, Resolve(callers, k, m)
            PROVE  op' = op /\ stage' = stage
        BY <3>3 DEF Resolve, ResolveByEntry, ResolveByDefinition, Enter, Recoverable
      <3> QED
        BY <1>4, <2>1, <2>2, <3>2, <3>3
        DEF DeleteCheck, ResolveProvided, ReadForDelete, CallAdjacent,
            PutAdjacentBack, CheckExists, DeleteCall, PatchClaim, PutBack,
            AfterResponse, Goto, Recoverable
    <2> QED
      BY <1>1, <2>4 DEF CoverInv
  <1> QED
    BY <1>3, <1>4 DEF Worker

\* So do the engine and the rest of the world.
LEMMA CoverOthers ==
    ASSUME TypeOK, CoverInv, Engine \/ CrashAndResume \/ World \/ UNCHANGED vars
    PROVE  CoverInv'
  <1>1. props' = props
    BY OthersKeep
  <1>2. CASE Engine \/ CrashAndResume
    <2>1. /\ budget'.redefinitions = budget.redefinitions
          /\ layout' = layout /\ turn' = 1
          /\ stage' = "created" => stage = "created"
      BY <1>2
      DEF Engine, Retry, Start, Begin, CrashAndResume, node, TypeOK, WorldTypeOK
    <2> QED
      BY <1>1, <2>1 DEF CoverInv, NeverRedefined
  <1>3. ASSUME NEW l \in Layouts, Redefine(l) PROVE CoverInv'
    <2>1. /\ budget'.redefinitions = budget.redefinitions - 1
          /\ budget.redefinitions \in Nat
      BY <1>3 DEF Redefine, TypeOK, WorldTypeOK
    <2> QED
      BY <2>1, BoundsAssumption DEF CoverInv, NeverRedefined
  <1>4. ASSUME NEW k \in Keys, Controller(k) \/ Unprotect(k) \/ OtherClient(k)
        PROVE  CoverInv'
    <2>1. /\ budget'.redefinitions = budget.redefinitions
          /\ layout' = layout /\ turn' = turn /\ op' = op /\ stage' = stage
      BY <1>4
      DEF Controller, Unprotect, OtherClient, node, TypeOK, WorldTypeOK
    <2> QED
      BY <1>1, <2>1 DEF CoverInv, NeverRedefined
  <1>5. CASE UNCHANGED vars
    BY <1>5 DEF vars, node, CoverInv, NeverRedefined
  <1> QED
    BY <1>2, <1>3, <1>4, <1>5 DEF World

\* The coverage holds.
LEMMA CoverHolds == Spec => []CoverInv
  <1>1. Init => CoverInv
    BY BoundsAssumption DEF Init, CoverInv
  <1>2. TypeOK /\ CoverInv /\ [Next]_vars => CoverInv'
    BY CoverWorker, CoverOthers DEF Next
  <1> QED
    BY <1>1, <1>2, TypeCorrect, PTL DEF Spec

\* An installed node has an entry and a stored definition for each definition of
\* its files, as long as these stay the same.
THEOREM InstalledIsCovered == Spec => []EntriesCoverLayout
  <1>1. CoverInv => EntriesCoverLayout
    BY DEF CoverInv, EntriesCoverLayout, Covers
  <1> QED
    BY <1>1, CoverHolds, PTL

-----------------------------------------------------------------------------
(* Objects the node only expects.                                          *)

\* About to send a DELETE for a node that uses external resources, the worker
\* has seen that there is nothing to delete.
SureInv ==
    /\ budget.faults <= MaxFaults /\ budget.others <= MaxOthers
    /\ policy.use_external_resource /\ Undisturbed /\ pc = "delete" =>
          ~Exists(objects[Target])

\* An answer other than "ok" is on record.
LEMMA ChargeDisturbs ==
    ASSUME TypeOK, SureInv, NEW answer \in Answers, Charge(answer)
    PROVE  /\ budget'.faults <= MaxFaults /\ budget'.others <= MaxOthers
           /\ Undisturbed' => Undisturbed /\ answer = "ok"
  BY BoundsAssumption
  DEF TypeOK, WorldTypeOK, SureInv, Charge, Answers, Undisturbed

\* The worker's steps keep what it is sure of.
LEMMA SureWorker ==
    ASSUME TypeOK, SureInv, Worker PROVE SureInv'
  <1>1. ASSUME UNCHANGED budget PROVE budget'.faults <= MaxFaults /\ budget'.others <= MaxOthers
    BY <1>1 DEF SureInv
  <1>2. ASSUME NEW p, Proceed(p) PROVE pc' # "delete"
    BY <1>2 DEF Proceed, End, FirstStep
  <1>3. ASSUME NEW callers, NEW k, NEW m, Resolve(callers, k, m)
        PROVE  pc' # "delete" /\ UNCHANGED budget
    BY <1>3 DEF Resolve, ResolveByEntry, ResolveByDefinition, Enter, Recoverable
  <1>4. ASSUME Return PROVE pc' # "delete"
    BY <1>2, <1>4 DEF Return
  <1>5. CASE \/ CreateCheck \/ CreateCall \/ UpdateCall \/ RecreateCall
             \/ DeleteCheck \/ DeleteCall \/ PatchClaim
    BY <1>5, ChargeDisturbs
    DEF CreateCheck, CreateCall, UpdateCall, RecreateCall, DeleteCheck,
        DeleteCall, PatchClaim, AfterResponse, Goto, Recoverable, End, SureInv
  <1>6. CASE ReadCall \/ HealCall
    <2>1. pc' # "delete"
      BY <1>2, <1>6 DEF ReadCall, HealCall, Goto, Recoverable, End
    <2>2. budget'.faults <= MaxFaults /\ budget'.others <= MaxOthers
      BY <1>1, <1>6, ChargeDisturbs DEF ReadCall, HealCall
    <2> QED
      BY <2>1, <2>2 DEF SureInv
  <1>7. CASE Store
    <2>1. pc' # "delete"
      BY <1>2, <1>7 DEF Store, Recoverable, End
    <2> QED
      BY <1>1, <1>7, <2>1 DEF Store, SureInv
  <1>8. CASE ResolveProvided \/ \E a \in Paths : CallAdjacent(a)
    BY <1>1, <1>3, <1>8 DEF ResolveProvided, CallAdjacent, SureInv
  <1>9. CASE ReadForDelete
    <2>1. pc' # "delete"
      BY <1>4, <1>9 DEF ReadForDelete, Goto, Recoverable
    <2>2. budget'.faults <= MaxFaults /\ budget'.others <= MaxOthers
      BY <1>9, ChargeDisturbs DEF ReadForDelete
    <2> QED
      BY <2>1, <2>2 DEF SureInv
  <1>10. CASE PutAdjacentBack \/ PutBack
    <2>1. pc' # "delete" /\ UNCHANGED budget
      BY <1>4, <1>10 DEF PutAdjacentBack, PutBack, Recoverable
    <2> QED
      BY <1>1, <2>1 DEF SureInv
  <1>11. CASE CheckExists
    <2> PICK answer \in Answers : CheckExists!(answer)
      BY <1>11 DEF CheckExists
    <2>1. /\ budget'.faults <= MaxFaults /\ budget'.others <= MaxOthers
          /\ Undisturbed' => answer = "ok"
      BY ChargeDisturbs
    <2>2. CASE pc' # "delete"
      BY <2>1, <2>2 DEF SureInv
    <2>3. CASE pc' = "delete"
      <3>1. PerformOnDelete(policy, Found(answer, Target))
        BY <2>3 DEF AfterResponse, Goto
      <3>2. UNCHANGED <<objects, policy, frames>>
        BY <2>3 DEF AfterResponse, Goto, cluster, node
      <3>3. Target' = Target
        BY <3>2 DEF Target, Frame
      <3>4. policy.use_external_resource /\ answer = "ok" => ~Exists(objects[Target])
        BY <3>1 DEF PerformOnDelete, Found
      <3> QED
        BY <2>1, <3>2, <3>3, <3>4 DEF SureInv
    <2> QED
      BY <2>2, <2>3
  <1> QED
    BY <1>5, <1>6, <1>7, <1>8, <1>9, <1>10, <1>11 DEF Worker

\* So do the engine, crashes and the rest of the world.
LEMMA SureOthers ==
    ASSUME TypeOK, SureInv, Engine \/ CrashAndResume \/ World \/ UNCHANGED vars
    PROVE  SureInv'
  <1>1. CASE Engine \/ CrashAndResume
    <2>1. pc' # "delete"
      BY <1>1 DEF Engine, Retry, Start, Begin, FirstStep, CrashAndResume
    <2>2. budget'.faults = budget.faults /\ budget'.others = budget.others
      BY <1>1 DEF Engine, Retry, Start, CrashAndResume, TypeOK, WorldTypeOK
    <2> QED
      BY <2>1, <2>2 DEF SureInv
  <1>2. ASSUME NEW l \in Layouts, Redefine(l) PROVE SureInv'
    <2>1. pc' # "delete"
      BY <1>2 DEF Redefine, TypeOK, StepOK
    <2>2. budget'.faults = budget.faults /\ budget'.others = budget.others
      BY <1>2 DEF Redefine, TypeOK, WorldTypeOK
    <2> QED
      BY <2>1, <2>2 DEF SureInv
  <1>3. ASSUME NEW k \in Keys, Controller(k) \/ Unprotect(k) PROVE SureInv'
    <2>1. UNCHANGED <<policy, pc, frames, budget>> /\ Target' = Target
      BY <1>3 DEF Controller, Unprotect, node, Target, Frame
    <2>2. \A j \in Keys : Exists(objects'[j]) => Exists(objects[j])
      BY <1>3
      DEF Controller, Unprotect, Becomes, Settled, Finalized, Exists, TypeOK,
          WorldTypeOK
    <2>3. pc = "delete" => Target \in Keys
      BY FramesType DEF TypeOK, StepOK, DeleteSteps
    <2> QED
      BY <2>1, <2>2, <2>3 DEF SureInv, Undisturbed
  <1>4. ASSUME NEW k \in Keys, OtherClient(k) PROVE SureInv'
    <2>1. /\ budget'.faults = budget.faults
          /\ budget'.others = budget.others - 1 /\ budget.others \in Nat
      BY <1>4 DEF OtherClient, TypeOK, WorldTypeOK
    <2>2. ~Undisturbed' /\ budget'.others <= MaxOthers
      BY <2>1, BoundsAssumption DEF SureInv, Undisturbed
    <2> QED
      BY <2>1, <2>2 DEF SureInv
  <1>5. CASE UNCHANGED vars
    BY <1>5 DEF vars, cluster, node, SureInv, Undisturbed, Target, Frame
  <1> QED
    BY <1>1, <1>2, <1>3, <1>4, <1>5 DEF World

\* One step of an undisturbed worker leaves the objects of such a node in the
\* phase they are in.
LEMMA SurvivingStep ==
    ASSUME TypeOK, SureInv, [Next]_vars, NEW k \in Keys,
           policy.use_external_resource, Undisturbed, pc' # pc, Exists(objects[k])
    PROVE  objects'[k].phase = objects[k].phase
  <1>0. objects \in [Keys -> Objects] /\ Key \in Keys
    BY PathType DEF TypeOK, WorldTypeOK
  <1>1. \A o \in Objects : Exists(o) =>
          Posted(o).phase = o.phase /\ Patched(o).phase = o.phase
    BY DEF Posted, Patched, Objects, Exists, Missing
  <1>2. ASSUME CreateCall \/ UpdateCall \/ RecreateCall
        PROVE  objects'[k].phase = objects[k].phase
    BY <1>0, <1>1, <1>2
    DEF CreateCall, UpdateCall, RecreateCall, Write, Becomes, cluster
  <1>3. CASE DeleteCall
    <2> PICK answer \in Answers : DeleteCall!(answer)
      BY <1>3 DEF DeleteCall
    <2>1. Target \in Keys /\ ~Exists(objects[Target])
      BY FramesType DEF SureInv, TypeOK, StepOK, DeleteSteps
    <2>2. DeletedHere(Target) \subseteq {objects[Target]}
      BY <2>1 DEF DeletedHere, Deleted
    <2> QED
      BY <1>0, <2>1, <2>2 DEF Write, Becomes, cluster
  <1>4. CASE PatchClaim
    <2>1. Target \in Keys
      BY <1>4, FramesType DEF PatchClaim, TypeOK, StepOK, DeleteSteps
    <2> QED
      BY <1>0, <1>1, <1>4, <2>1 DEF PatchClaim, cluster
  <1>5. CASE \/ CreateCheck \/ ReadCall \/ Store \/ HealCall \/ DeleteCheck
             \/ ReadForDelete \/ PutAdjacentBack \/ CheckExists \/ PutBack
    BY <1>5
    DEF CreateCheck, ReadCall, Store, HealCall, DeleteCheck, ReadForDelete,
        PutAdjacentBack, CheckExists, PutBack, cluster
  <1>6. CASE ResolveProvided \/ \E a \in Paths : CallAdjacent(a)
    BY <1>6
    DEF ResolveProvided, CallAdjacent, Resolve, ResolveByEntry,
        ResolveByDefinition, Enter, cluster
  <1>7. CASE Engine \/ CrashAndResume
    BY <1>7 DEF Engine, Retry, Start, Begin, CrashAndResume, cluster
  <1>8. CASE World \/ UNCHANGED vars
    BY <1>8 DEF World, Redefine, Controller, Unprotect, OtherClient, vars
  <1> QED
    BY <1>2, <1>3, <1>4, <1>5, <1>6, <1>7, <1>8 DEF Next, Worker

\* A worker that uses external resources knows what it is about to delete.
LEMMA SureHolds == Spec => []SureInv
  <1>1. Init => SureInv
    BY BoundsAssumption DEF Init, SureInv
  <1>2. TypeOK /\ SureInv /\ [Next]_vars => SureInv'
    BY SureWorker, SureOthers DEF Next
  <1> QED
    BY <1>1, <1>2, TypeCorrect, PTL DEF Spec

\* For a node that uses external resources, a worker that met no failed exchange
\* and no other client removes no object and marks none for removal, in
\* particular not in the calls of a delete, whatever mapping they were given.
THEOREM ExternalIsKept == Spec => ExternalSurvives
  <1>1. TypeOK /\ SureInv /\ [Next]_vars =>
          [\A k \in Keys :
             policy.use_external_resource /\ Undisturbed /\ pc' # pc
             /\ Exists(objects[k])
             => objects'[k].phase = objects[k].phase]_vars
    BY SurvivingStep
  <1> QED
    BY <1>1, SureHolds, TypeCorrect, PTL DEF Spec, ExternalSurvives
=============================================================================
