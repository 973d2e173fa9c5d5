---------------------------- MODULE FileDeleteProofs ----------------------------
(***************************************************************************)
(* What an uninstall of FileResource leaves where no redefinition is       *)
(* allowed, for all files, policies and bounds.                            *)
(*                                                                         *)
(* Entries are taken out of the runtime properties before the API server   *)
(* is asked anything, so that every failure loses some.  The argument does *)
(* not follow them.  It rests on the turns: an attempt passes a turn only  *)
(* when the object of that turn's own definition is gone, and begins again *)
(* with the first otherwise.  For this the delete must address the object  *)
(* of its own definition for as long as the node still has it, which is    *)
(* what the invariant says of the entries, and of the first call.          *)
(***************************************************************************)
EXTENDS FileResourceProofs

\* Entries of the runtime properties as a create stores them.
FromLayout(stored) ==
    \A p \in DOMAIN stored : \E i \in DOMAIN layout :
        layout[i].path = p /\ stored[p].key = layout[i].key

PathsOfLayout == {layout[i].path : i \in DOMAIN layout}

\* Entries of the node's file, for different objects.
Fit(stored) ==
    /\ DOMAIN stored \subseteq PathsOfLayout
    /\ \A p, q \in DOMAIN stored : stored[p].key = stored[q].key => p = q

\* As long as the node has the object of the first definition, what an attempt
\* begins with has its entry at its path, or no entries at all.  Without an entry
\* at its path there is a stored definition to look for another by.
FirstFound(ps) ==
    LET first == layout[1]
    IN DOMAIN ps.stored # {} =>
          \/ /\ first.path \in DOMAIN ps.stored
             /\ first.key \in Made => ps.stored[first.path].key = first.key
          \/ first.key \notin Made /\ ps.defs # <<>>

\* The node makes the objects of its definitions, before it is uninstalled.
MadeInv ==
    /\ stage # "broken"
    /\ Made # {} => stage \in {"creating", "created", "deleting"}
    /\ \A k \in Made : \E i \in DOMAIN layout : layout[i].key = k

EntriesInv ==
    /\ op # "delete" => FromLayout(props.stored)
    /\ Fit(props.stored)

\* A delete has passed the definitions before the one it is at, and taken all
\* entries out with the first, which it cannot if the path is not of a ".yaml".
TurnInv ==
    op = "delete" =>
        /\ \A i \in 1 .. turn - 1 : layout[i].key \notin Made
        /\ pc \in DeleteSteps \/ turn > 1 => DOMAIN props.stored = {}
        /\ pc \notin DeleteSteps => FirstFound(props)
        /\ layout[1].path \notin Yaml => layout[1].path \in DOMAIN props.stored

\* The call the decorator makes, for which the others are made.
Outer(fs) == fs[Len(fs)]

\* It is for the definition under way if the node still has its object, and then
\* it makes no calls; its entries are those of other objects.
CallsInv ==
    pc \in DeleteSteps =>
        /\ Key \in Made => /\ Outer(frames).key = Key
                           /\ Outer(frames).kind = Key.kind
                           /\ Len(frames) = 1 /\ pc # "adjacent"
        /\ Fit(Outer(frames).adjacent)
        /\ \A p \in DOMAIN Outer(frames).adjacent :
              p # Path /\ Outer(frames).adjacent[p].key # Outer(frames).key
        /\ \A i \in 1 .. Len(frames) - 1 : DOMAIN frames[i].adjacent = {}

Bound == Answerable /\ ~policy.allow_node_redefinition

Parts == MadeInv /\ EntriesInv /\ TurnInv /\ CallsInv

\* The inductive invariant.
LeftInv == Bound => Parts

-----------------------------------------------------------------------------
(* Entries and the layout.                                                 *)

\* The entries of a create are for different objects.
LEMMA FromLayoutFits ==
    ASSUME OneFile, NEW stored, FromLayout(stored) PROVE Fit(stored)
  <1>1. DOMAIN stored \subseteq PathsOfLayout
    BY DEF FromLayout, PathsOfLayout
  <1>2. ASSUME NEW p \in DOMAIN stored, NEW q \in DOMAIN stored,
               stored[p].key = stored[q].key
        PROVE  p = q
    <2>1. PICK i \in DOMAIN layout : layout[i].path = p /\ stored[p].key = layout[i].key
      BY DEF FromLayout
    <2>2. PICK j \in DOMAIN layout : layout[j].path = q /\ stored[q].key = layout[j].key
      BY DEF FromLayout
    <2> QED
      BY <1>2, <2>1, <2>2 DEF OneFile
  <1> QED
    BY <1>1, <1>2 DEF Fit

\* What a create, a read or an update stores is an entry of the layout.
LEMMA StoreFromLayout ==
    ASSUME TypeOK, Store, FromLayout(props.stored)
    PROVE  FromLayout(StoreResult(props, Path, local.response).stored)
  <1> DEFINE kept == StoreResult(props, Path, local.response).stored
  <1>1. kept = With(props.stored, Path, local.response)
    BY DEF StoreResult
  <1>2. local.response.key = Key /\ turn \in DOMAIN layout
    BY DEF Store, TypeOK, StepOK, InstanceTypeOK
  <1>3. ASSUME NEW p \in DOMAIN kept
        PROVE  \E i \in DOMAIN layout :
                   layout[i].path = p /\ kept[p].key = layout[i].key
    <2>1. CASE p = Path
      BY <1>1, <1>2, <2>1 DEF With, Path, Key
    <2>2. CASE p # Path
      <3>1. p \in DOMAIN props.stored /\ kept[p] = props.stored[p]
        BY <1>1, <2>2 DEF With
      <3> QED
        BY <3>1 DEF FromLayout
    <2> QED
      BY <2>1, <2>2
  <1> QED
    BY <1>3 DEF FromLayout

\* In one file, all entries but the one found are adjacent to it.
LEMMA AdjacentAreTheOthers ==
    ASSUME OneFile, Fit(props.stored), NEW q \in DOMAIN props.stored
    PROVE  AdjacentTo(q) = DOMAIN props.stored \ {q}
  <1>1. ASSUME NEW a \in DOMAIN props.stored \ {q} PROVE a \in AdjacentTo(q)
    <2>1. PICK i \in DOMAIN layout : layout[i].path = q
      BY DEF Fit, PathsOfLayout
    <2>2. PICK j \in DOMAIN layout : layout[j].path = a
      BY DEF Fit, PathsOfLayout
    <2>3. <<q, a>> \in Near
      BY <2>1, <2>2 DEF OneFile
    <2>4. props.stored[a].key # props.stored[q].key
      BY DEF Fit
    <2> QED
      BY <2>3, <2>4 DEF AdjacentTo
  <1> QED
    BY <1>1 DEF AdjacentTo

\* Adjacent entries are put back as they were.
LEMMA StoreAllEntries ==
    ASSUME NEW ps, NEW entries, NEW qs \in StoreAll(ps, entries)
    PROVE  /\ DOMAIN qs.stored = DOMAIN ps.stored \cup DOMAIN entries
           /\ \A p \in DOMAIN qs.stored :
                 qs.stored[p] = IF p \in DOMAIN entries THEN entries[p]
                                ELSE ps.stored[p]
  <1> DEFINE new == {entries[p].key : p \in DOMAIN entries} \ Range(ps.defs)
             merged == [q \in DOMAIN ps.stored \cup DOMAIN entries |->
                           IF q \in DOMAIN entries THEN entries[q]
                           ELSE ps.stored[q]]
  <1>1. qs \in {[stored |-> merged, defs |-> ps.defs \o order] :
                   order \in Orders(new)}
    BY Zenon DEF StoreAll
  <1>2. \A p \in DOMAIN merged : merged[p] = IF p \in DOMAIN entries THEN entries[p]
                                             ELSE ps.stored[p]
    OBVIOUS
  <1>3. DOMAIN merged = DOMAIN ps.stored \cup DOMAIN entries
    OBVIOUS
  <1> HIDE DEF merged, new
  <1>4. qs.stored = merged
    BY <1>1
  <1> QED
    BY <1>2, <1>3, <1>4

\* They leave a stored definition.
LEMMA StoreAllDefs ==
    ASSUME NEW ps \in PropsType, NEW entries \in Entries,
           NEW qs \in StoreAll(ps, entries),
           ps.defs # <<>> \/ DOMAIN entries # {}
    PROVE  qs.defs # <<>>
  <1> DEFINE new == {entries[p].key : p \in DOMAIN entries} \ Range(ps.defs)
             merged == [q \in DOMAIN ps.stored \cup DOMAIN entries |->
                           IF q \in DOMAIN entries THEN entries[q]
                           ELSE ps.stored[q]]
  <1>0. qs \in {[stored |-> merged, defs |-> ps.defs \o order] :
                   order \in Orders(new)}
    BY Zenon DEF StoreAll
  <1> HIDE DEF merged, new
  <1>1. PICK order \in Orders(new) : qs.defs = ps.defs \o order
    BY <1>0
  <1>2. new \in SUBSET Keys
    BY DEF Entries, Entry, new
  <1>3. IsFiniteSet(new) /\ order \in Seq(Keys) /\ Len(order) = Cardinality(new)
    <2>1. IsFiniteSet(new)
      BY <1>2, ObjectsAssumption, FS_Subset
    <2>2. Cardinality(new) \in Nat
      BY <2>1, FS_CardinalityType
    <2> QED
      BY <1>2, <2>1, <2>2, OrderType DEF Orders
  <1>4. ps.defs \in Seq(Keys)
    BY DEF PropsType
  <1>5. Len(qs.defs) = Len(ps.defs) + Len(order)
    <2>1. Len(ps.defs \o order) = Len(ps.defs) + Len(order)
      BY <1>3, <1>4, ConcatProperties
    <2> QED
      BY <1>1, <2>1
  <1>6. CASE ps.defs # <<>>
    <2>1. Len(ps.defs) \in Nat \ {0} /\ Len(order) \in Nat
      BY <1>3, <1>4, <1>6
    <2>2. Len(qs.defs) # 0
      BY <1>5, <2>1
    <2>3. qs.defs \in Seq(Keys)
      BY StoreAllType DEF PropsType
    <2> QED
      BY <2>2, <2>3
  <1>7. CASE ps.defs = <<>>
    <2>0. Range(ps.defs) = {} /\ DOMAIN entries # {}
      BY <1>7 DEF Range
    <2>1. new # {}
      <3>1. PICK p : p \in DOMAIN entries
        BY <2>0
      <3> QED
        BY <2>0, <3>1 DEF new
    <2>2. Cardinality(new) # 0
      BY <1>3, <2>1, FS_EmptySet
    <2> QED
      BY <1>3, <1>5, <1>7, <2>2
  <1> QED
    BY <1>6, <1>7

-----------------------------------------------------------------------------
(* What a step may do to the objects, and to what binds the node.          *)

\* A node that is to unmake its objects was to do so before the step.
LEMMA BoundStays ==
    ASSUME TypeOK, CoverInv, [Next]_vars, Bound'
    PROVE  Bound /\ UNCHANGED node
  <1>1. UNCHANGED node /\ budget'.redefinitions = budget.redefinitions => Bound
    BY DEF Bound, Answerable, OneFile, NeverRedefined, node
  <1>2. CASE Worker
    BY <1>1, <1>2, WorkerRedefinesNothing
  <1>3. CASE Engine \/ CrashAndResume
    BY <1>1, <1>3
    DEF Engine, Retry, Start, Begin, CrashAndResume, node, TypeOK, WorldTypeOK
  <1>4. ASSUME NEW k \in Keys, Controller(k) \/ Unprotect(k) \/ OtherClient(k)
        PROVE  Bound /\ UNCHANGED node
    BY <1>1, <1>4
    DEF Controller, Unprotect, OtherClient, node, TypeOK, WorldTypeOK
  <1>5. ASSUME NEW l \in Layouts, Redefine(l) PROVE FALSE
    <2>1. /\ budget'.redefinitions = budget.redefinitions - 1
          /\ budget.redefinitions \in Nat
          /\ budget.redefinitions <= MaxRedefinitions
      BY <1>5 DEF Redefine, TypeOK, WorldTypeOK, CoverInv
    <2>2. budget'.redefinitions = MaxRedefinitions
      BY DEF Bound, Answerable, NeverRedefined
    <2> QED
      BY <2>1, <2>2, BoundsAssumption
  <1>6. CASE UNCHANGED vars
    BY <1>1, <1>6 DEF vars
  <1> QED
    BY <1>2, <1>3, <1>4, <1>5, <1>6 DEF Next, World

\* An object that changes to one of another owner, or keeps its owner, is none
\* that the node has made since.
LEMMA ChangedNotMade ==
    ASSUME TypeOK, NEW k \in Keys, NEW o, o.owner = "plugin" => k \in Made,
           objects' = [objects EXCEPT ![k] = o] \/ UNCHANGED objects
    PROVE  Made' \subseteq Made /\ Made \ {k} \subseteq Made'
  BY DEF Made, TypeOK, WorldTypeOK

\* DELETE and PATCH make no object, nor do controllers and other clients.
LEMMA NobodyMakes ==
    ASSUME TypeOK, NEW k \in Keys, NEW o,
           o \in {Patched(objects[k])} \cup Deleted(objects[k])
                 \cup Settled(objects[k]) \cup Finalized(objects[k])
                 \cup ChangedByOthers(objects[k])
    PROVE  o.owner = "plugin" => k \in Made
  <1>1. objects[k] \in Objects
    BY DEF TypeOK, WorldTypeOK
  <1>2. o.owner \in {objects[k].owner, "none", "foreign"}
    <2> USE <1>1 DEF Objects, Missing, Exists
    <2>1. CASE o = Patched(objects[k])
      BY <2>1 DEF Patched
    <2>2. CASE o \in Deleted(objects[k])
      BY <2>2 DEF Deleted
    <2>3. CASE o \in Settled(objects[k]) \cup Finalized(objects[k])
      BY <2>3 DEF Settled, Finalized
    <2>4. CASE o \in ChangedByOthers(objects[k])
      BY <2>4 DEF ChangedByOthers, Deleted
    <2> QED
      BY <2>1, <2>2, <2>3, <2>4
  <1> QED
    BY <1>2 DEF Made

\* The steps of a delete, and of the rest of the world, make no object.
DeleteStep ==
    \/ DeleteCheck \/ ResolveProvided \/ ReadForDelete
    \/ \E a \in Paths : CallAdjacent(a)
    \/ PutAdjacentBack \/ CheckExists \/ DeleteCall \/ PatchClaim \/ PutBack

\* One object of the cluster at most, and not a new one of the plugin.
Loses == \E k \in Keys : Made' \subseteq Made /\ Made \ {k} \subseteq Made'

\* A step of a delete makes no object, and takes one at most.
LEMMA DeleteLoses ==
    ASSUME TypeOK, DeleteStep PROVE Loses /\ (UNCHANGED objects \/ DeleteCall \/ PatchClaim)
  <1>1. Key \in Keys
    BY PathType
  <1>2. UNCHANGED objects => Loses
    BY <1>1 DEF Loses, Made
  <1>3. CASE \/ DeleteCheck \/ ReadForDelete \/ PutAdjacentBack \/ CheckExists
             \/ PutBack
    BY <1>2, <1>3
    DEF DeleteCheck, ReadForDelete, PutAdjacentBack, CheckExists, PutBack, cluster
  <1>4. CASE ResolveProvided \/ \E a \in Paths : CallAdjacent(a)
    BY <1>2, <1>4
    DEF ResolveProvided, CallAdjacent, Resolve, ResolveByEntry,
        ResolveByDefinition, Enter, cluster
  <1>5. CASE DeleteCall
    <2>1. Target \in Keys
      BY <1>5, FramesType DEF DeleteCall, TypeOK, StepOK, DeleteSteps
    <2>2. \/ UNCHANGED objects
          \/ \E o \in Deleted(objects[Target]) :
                 objects' = [objects EXCEPT ![Target] = o]
      BY <1>5 DEF DeleteCall, Write, Becomes, DeletedHere, cluster
    <2> QED
      BY <1>2, <1>5, <2>1, <2>2, NobodyMakes, ChangedNotMade DEF Loses
  <1>6. CASE PatchClaim
    <2>1. Target \in Keys
      BY <1>6, FramesType DEF PatchClaim, TypeOK, StepOK, DeleteSteps
    <2>2. \/ UNCHANGED objects
          \/ objects' = [objects EXCEPT ![Target] = Patched(objects[Target])]
      BY <1>6 DEF PatchClaim, cluster
    <2> QED
      BY <1>2, <1>6, <2>1, <2>2, NobodyMakes, ChangedNotMade DEF Loses
  <1> QED
    BY <1>3, <1>4, <1>5, <1>6 DEF DeleteStep

\* A step of the cluster or of another client makes none for the node either.
LEMMA WorldLoses ==
    ASSUME TypeOK, World \/ UNCHANGED vars PROVE Loses
  <1>1. Key \in Keys
    BY PathType
  <1>2. UNCHANGED objects => Loses
    BY <1>1 DEF Loses, Made
  <1>3. ASSUME NEW k \in Keys, Controller(k) \/ OtherClient(k) PROVE Loses
    <2>1. PICK o \in Settled(objects[k]) \cup Finalized(objects[k])
                     \cup ChangedByOthers(objects[k]) :
              objects' = [objects EXCEPT ![k] = o]
      BY <1>3 DEF Controller, OtherClient, Becomes
    <2> QED
      BY <2>1, NobodyMakes, ChangedNotMade DEF Loses
  <1> QED
    BY <1>2, <1>3 DEF World, Unprotect, Redefine, vars, cluster

-----------------------------------------------------------------------------
(* Create, read, update and the heal.                                      *)

ApplyStep ==
    \/ CreateCheck \/ CreateCall \/ UpdateCall \/ ReadCall \/ Store
    \/ HealCall \/ RecreateCall

\* Their steps are of a node being installed, or installed, and stay with it.
LEMMA ApplyStages ==
    ASSUME TypeOK, ApplyStep
    PROVE  /\ op # "delete" /\ op' # "delete"
           /\ \/ UNCHANGED stage /\ stage \in {"creating", "created"}
              \/ UNCHANGED objects /\ stage = "creating" /\ stage' = "created"
  <1>1. op # "delete" /\ (stage = "creating" <=> op = "create")
        /\ stage \in {"creating", "created"}
    BY DEF ApplyStep, CreateCheck, CreateCall, UpdateCall, ReadCall, Store,
           HealCall, RecreateCall, TypeOK, StepOK
  <1>2. ASSUME NEW result, NEW p, End(result, p), op # "create" \/ result = "success"
        PROVE  /\ op' # "delete"
               /\ \/ UNCHANGED stage
                  \/ stage = "creating" /\ stage' = "created"
    BY <1>1, <1>2 DEF End, StageAfter
  <1>3. ASSUME NEW p, Proceed(p)
        PROVE  /\ op' # "delete"
               /\ \/ UNCHANGED stage
                  \/ stage = "creating" /\ stage' = "created"
    BY <1>1, <1>2, <1>3 DEF Proceed
  <1>4. ASSUME NEW p, Recoverable(p) PROVE op' # "delete" /\ UNCHANGED stage
    BY <1>1, <1>4 DEF Recoverable
  <1>5. ASSUME NEW step, NEW l, Goto(step, l) PROVE op' # "delete" /\ UNCHANGED stage
    BY <1>1, <1>5 DEF Goto
  <1>6. CASE CreateCheck \/ CreateCall \/ UpdateCall
    BY <1>1, <1>4, <1>5, <1>6 DEF CreateCheck, CreateCall, UpdateCall
  <1>7. CASE ReadCall
    BY <1>1, <1>2, <1>4, <1>5, <1>7 DEF ReadCall, cluster
  <1>8. CASE Store
    BY <1>1, <1>2, <1>3, <1>4, <1>8 DEF Store, cluster
  <1>9. CASE HealCall
    BY <1>1, <1>2, <1>3, <1>4, <1>5, <1>9 DEF HealCall, cluster
  <1>10. CASE RecreateCall
    <2>1. op = "heal"
      BY <1>10 DEF RecreateCall, TypeOK, StepOK
    <2>2. \A result, p : End(result, p) => op' # "delete" /\ UNCHANGED stage
      BY <2>1 DEF End, StageAfter
    <2> QED
      BY <1>1, <1>4, <1>10, <2>2 DEF RecreateCall
  <1> QED
    BY <1>1, <1>6, <1>7, <1>8, <1>9, <1>10 DEF ApplyStep

\* What they make is the object of the definition under way.
LEMMA ApplyMakes ==
    ASSUME TypeOK, ApplyStep PROVE Made' = Made \/ Made' = Made \cup {Key}
  <1>1. Key \in Keys /\ objects \in [Keys -> Objects]
    BY PathType DEF TypeOK, WorldTypeOK
  <1>2. UNCHANGED objects => Made' = Made
    BY DEF Made
  <1>3. CASE CreateCheck \/ ReadCall \/ Store \/ HealCall
    BY <1>2, <1>3 DEF CreateCheck, ReadCall, Store, HealCall, cluster
  <1>4. CASE CreateCall \/ RecreateCall \/ UpdateCall
    <2>1. \/ UNCHANGED objects
          \/ \E o \in {Posted(objects[Key]), Patched(objects[Key])} :
                 objects' = [objects EXCEPT ![Key] = o]
      BY <1>4 DEF CreateCall, RecreateCall, UpdateCall, Write, Becomes, cluster
    <2>2. ASSUME NEW o, objects' = [objects EXCEPT ![Key] = o]
          PROVE  Made' = IF o.owner = "plugin" THEN Made \cup {Key} ELSE Made \ {Key}
      BY <1>1, <2>2 DEF Made
    <2>3. ASSUME NEW o \in {Posted(objects[Key]), Patched(objects[Key])}
          PROVE  Key \in Made => o.owner = "plugin"
      BY <1>1 DEF Posted, Patched, Made, Objects, Exists, Missing
    <2> QED
      BY <1>2, <2>1, <2>2, <2>3
  <1> QED
    BY <1>3, <1>4 DEF ApplyStep

\* So they keep the invariant.
LEMMA ApplyLeft ==
    ASSUME TypeOK, TypeOK', Bound, UNCHANGED layout, Parts, ApplyStep
    PROVE  Parts'
  <1>1. /\ op # "delete" /\ op' # "delete"
        /\ stage \in {"creating", "created"} /\ stage' \in {"creating", "created"}
    BY ApplyStages
  <1>2. MadeInv'
    <2>1. turn \in DOMAIN layout /\ layout[turn].key = Key
      BY DEF TypeOK, InstanceTypeOK, Key
    <2> QED
      BY <1>1, <2>1, ApplyMakes DEF Parts, MadeInv
  <1>3. EntriesInv'
    <2>1. FromLayout(props'.stored)
      BY <1>1, ApplyKeeps, StoreFromLayout DEF ApplyStep, Parts, EntriesInv
    <2>2. OneFile
      BY DEF Bound, Answerable
    <2>3. Fit(props'.stored)
      BY <2>1, <2>2, FromLayoutFits
    <2> QED
      BY <2>1, <2>3 DEF EntriesInv, FromLayout, Fit, PathsOfLayout
  <1>4. TurnInv' /\ CallsInv'
    BY <1>1 DEF TurnInv, CallsInv, TypeOK, StepOK
  <1> QED
    BY <1>2, <1>3, <1>4 DEF Parts

-----------------------------------------------------------------------------
(* The engine.                                                             *)

\* An attempt begins with the first definition, and a delete of an installed
\* node with an entry for it.
LEMMA EngineLeft ==
    ASSUME TypeOK, TypeOK', CoverInv, Bound, UNCHANGED node, Parts,
           Engine \/ CrashAndResume
    PROVE  Parts'
  <1>1. /\ UNCHANGED <<objects, layout, props>> /\ turn' = 1
        /\ pc' \in {"check", "call"} /\ pc' \notin DeleteSteps
    BY DEF Engine, Retry, Start, CrashAndResume, Begin, cluster, node,
           FirstStep, DeleteSteps
  <1>2. Made' = Made /\ PathsOfLayout' = PathsOfLayout
    BY <1>1 DEF Made, PathsOfLayout
  <1>3. CallsInv'
    BY <1>1 DEF CallsInv
  <1>4. CASE Retry \/ CrashAndResume
    <2>1. UNCHANGED <<stage, op>>
      BY <1>4 DEF Retry, CrashAndResume, Begin
    <2>2. MadeInv' /\ EntriesInv'
      BY <1>1, <1>2, <2>1 DEF Parts, MadeInv, EntriesInv, FromLayout, Fit
    <2>3. op = "delete" =>
              /\ FirstFound(props)
              /\ layout[1].path \notin Yaml => layout[1].path \in DOMAIN props.stored
      BY DEF Parts, TurnInv, FirstFound
    <2>4. TurnInv'
      BY <1>1, <1>2, <2>1, <2>3 DEF TurnInv, FirstFound
    <2> QED
      BY <1>3, <2>2, <2>4 DEF Parts
  <1>5. ASSUME NEW o \in Ops, Start(o) PROVE Parts'
    <2>1. /\ op = "none" /\ op' = o
          /\ stage' \in {stage, "creating", "deleting"}
          /\ o = "delete" => stage \in {"created", "broken"}
          /\ stage' # stage => stage \in {"uninitialized", "deleted"} \/ o = "delete"
          /\ o = "delete" => stage' = "deleting"
      BY <1>5 DEF Start, MayStart, Begin
    <2>2. MadeInv'
      BY <1>1, <1>2, <2>1 DEF Parts, MadeInv
    <2>3. EntriesInv'
      BY <1>1, <1>2, <2>1 DEF Parts, EntriesInv, FromLayout, Fit
    <2>4. TurnInv'
      <3>1. CASE o = "delete"
        <4>1. stage = "created" /\ NeverRedefined
          BY <2>1, <3>1 DEF Parts, MadeInv, Bound, Answerable
        <4>2. Covers(props, layout[1])
          BY <4>1, PathType DEF CoverInv
        <4>3. FirstFound(props) /\ layout[1].path \in DOMAIN props.stored
          BY <4>2 DEF FirstFound, Covers
        <4> QED
          BY <1>1, <1>2, <4>3 DEF TurnInv, FirstFound
      <3>2. CASE o # "delete"
        BY <2>1, <3>2 DEF TurnInv
      <3> QED
        BY <3>1, <3>2
    <2> QED
      BY <1>3, <2>2, <2>3, <2>4 DEF Parts
  <1> QED
    BY <1>4, <1>5 DEF Engine

\* The rest of the world changes nothing but objects, and makes none.
LEMMA WorldLeft ==
    ASSUME TypeOK, Parts, World \/ UNCHANGED vars, UNCHANGED node PROVE Parts'
  <1>1. Made' \subseteq Made
    BY WorldLoses DEF Loses
  <1>2. UNCHANGED <<layout, stage, op, pc, turn, props, frames>>
    BY DEF World, Controller, Unprotect, OtherClient, Redefine, vars, node
  <1>3. MadeInv' /\ EntriesInv'
    BY <1>1, <1>2
    DEF Parts, MadeInv, EntriesInv, FromLayout, Fit, PathsOfLayout
  <1>4. TurnInv'
    BY <1>1, <1>2 DEF Parts, TurnInv, FirstFound
  <1>5. CallsInv'
    BY <1>1, <1>2 DEF Parts, CallsInv, Outer, Key, Path, Fit, PathsOfLayout
  <1> QED
    BY <1>3, <1>4, <1>5 DEF Parts

-----------------------------------------------------------------------------
(* The steps of a delete.                                                  *)

\* What every step of a delete can rely on.
InDelete ==
    /\ TypeOK /\ Bound /\ Parts /\ op = "delete"
    /\ UNCHANGED node /\ Made' \subseteq Made

\* A failed attempt keeps the invariant if what it leaves lets the next begin.
LEMMA RecoverableLeft ==
    ASSUME InDelete, NEW ps, Recoverable(ps), Fit(ps.stored), FirstFound(ps),
           layout[1].path \in Yaml \/ layout[1].path \in DOMAIN ps.stored
    PROVE  Parts'
  <1>1. /\ UNCHANGED <<layout, stage, op>> /\ Made' \subseteq Made
        /\ props' = ps /\ turn' = 1 /\ pc' \notin DeleteSteps
    BY DEF InDelete, Recoverable, node, DeleteSteps
  <1>2. MadeInv' /\ EntriesInv'
    BY <1>1 DEF InDelete, Parts, MadeInv, EntriesInv, Fit, PathsOfLayout
  <1>3. TurnInv'
    BY <1>1 DEF TurnInv, FirstFound
  <1> QED
    BY <1>1, <1>2, <1>3 DEF Parts, CallsInv

\* So does going on with the same calls.
LEMMA GotoLeft ==
    ASSUME InDelete, NEW step, NEW l, Goto(step, l), step # "adjacent",
           step \in DeleteSteps <=> pc \in DeleteSteps
    PROVE  Parts'
  <1>1. /\ UNCHANGED <<layout, stage, op, turn, props, frames>>
        /\ Made' \subseteq Made /\ pc' = step
    BY DEF InDelete, Goto, node
  <1>2. MadeInv' /\ EntriesInv'
    BY <1>1 DEF InDelete, Parts, MadeInv, EntriesInv, Fit, PathsOfLayout
  <1>3. TurnInv'
    BY <1>1 DEF InDelete, Parts, TurnInv, FirstFound
  <1>4. CallsInv'
    BY <1>1
    DEF InDelete, Parts, CallsInv, Outer, Key, Path, Fit, PathsOfLayout
  <1> QED
    BY <1>2, <1>3, <1>4 DEF Parts

\* In the calls of a delete there is nothing left of the entries.
LEMMA NothingStored ==
    ASSUME InDelete, pc \in DeleteSteps
    PROVE  /\ DOMAIN props.stored = {} /\ layout[1].path \in Yaml
           /\ Fit(props.stored) /\ FirstFound(props)
  BY DEF InDelete, Parts, TurnInv, EntriesInv, FirstFound

\* Then an attempt may fail at any time.
LEMMA FailLeft ==
    ASSUME InDelete, pc \in DeleteSteps, Recoverable(props) PROVE Parts'
  BY NothingStored, RecoverableLeft

\* Without entries, a definition is looked for by itself.
LEMMA ResolveEmpty ==
    ASSUME TypeOK, Bound, DOMAIN props.stored = {}, NEW callers, NEW k, NEW m,
           Resolve(callers, k, m)
    PROVE  /\ frames' = <<Calling(k, m)>> \o callers
           /\ pc' = "read" /\ props'.stored = props.stored
           /\ UNCHANGED <<node, stage, op, turn>>
  <1>1. Candidates = {}
    BY DEF Candidates
  <1>2. StoredOrProvided(DefsAfterLookup, k, m) = {Calling(k, m)}
    BY DEF StoredOrProvided, Bound
  <1>3. props \in PropsType
    BY DEF TypeOK, InstanceTypeOK
  <1>4. ResolveByDefinition(callers, k, m)
    BY <1>1 DEF Resolve
  <1> QED
    BY <1>2, <1>3, <1>4 DEF ResolveByDefinition, Enter, PropsType

\* The first call of an attempt, for the definition under way or for another one
\* whose entry takes its place.
LEMMA FirstCallLeft ==
    ASSUME InDelete, NEW f, frames' = <<f>>, pc' = "read",
           UNCHANGED <<stage, op, turn>>, DOMAIN props'.stored = {},
           layout[1].path \in Yaml,
           Key \in Made => f.key = Key /\ f.kind = Key.kind,
           Fit(f.adjacent),
           \A p \in DOMAIN f.adjacent : p # Path /\ f.adjacent[p].key # f.key
    PROVE  Parts'
  <1>1. UNCHANGED <<layout, stage, op, turn>> /\ Made' \subseteq Made
    BY DEF InDelete, node
  <1>2. pc' \in DeleteSteps /\ pc' # "adjacent"
    BY DEF DeleteSteps
  <1>3. Len(frames') = 1 /\ Outer(frames') = f
    BY DEF Outer
  <1>4. MadeInv'
    BY <1>1 DEF InDelete, Parts, MadeInv
  <1>5. EntriesInv'
    BY <1>1 DEF InDelete, EntriesInv, Fit
  <1>6. TurnInv'
    BY <1>1, <1>2 DEF InDelete, Parts, TurnInv
  <1>7. CallsInv'
    <2>1. UNCHANGED <<Key, Path, PathsOfLayout>>
      BY <1>1 DEF Key, Path, PathsOfLayout
    <2>2. Fit(f.adjacent)'
      BY <2>1, <1>3 DEF Fit, Outer
    <2> QED
      BY <1>1, <1>2, <1>3, <2>1 DEF CallsInv, Fit
  <1> QED
    BY <1>4, <1>5, <1>6, <1>7 DEF Parts

\* The definition under way is looked for among the entries.
LEMMA ResolveLeft ==
    ASSUME InDelete, ResolveProvided PROVE Parts'
  <1>0. /\ pc \notin DeleteSteps /\ Resolve(<<>>, Key, Key.kind)
        /\ EntriesInv /\ TurnInv /\ OneFile
        /\ turn \in DOMAIN layout /\ turn \in Nat /\ 1 \in DOMAIN layout
        /\ DOMAIN layout = 1 .. Len(layout)
    BY PathType
    DEF InDelete, Parts, ResolveProvided, DeleteSteps, Bound, Answerable,
        TypeOK, InstanceTypeOK
  <1>1. /\ Fit(props.stored) /\ FirstFound(props)
        /\ turn > 1 => DOMAIN props.stored = {}
        /\ layout[1].path \notin Yaml => layout[1].path \in DOMAIN props.stored
    BY <1>0 DEF InDelete, EntriesInv, TurnInv
  <1>2. CASE DOMAIN props.stored = {}
    <2>1. /\ frames' = <<Calling(Key, Key.kind)>> \o <<>>
          /\ pc' = "read" /\ props'.stored = props.stored
          /\ UNCHANGED <<stage, op, turn>>
      BY <1>0, <1>2, ResolveEmpty DEF InDelete
    <2>2. frames' = <<Calling(Key, Key.kind)>>
      BY <2>1
    <2>3. Fit(NoEntries) /\ DOMAIN NoEntries = {}
      BY DEF NoEntries, Fit
    <2> QED
      BY <1>1, <1>2, <2>1, <2>2, <2>3, FirstCallLeft DEF Calling
  <1>3. CASE DOMAIN props.stored # {}
    <2>1. turn = 1 /\ Path = layout[1].path /\ Key = layout[1].key
      BY <1>0, <1>1, <1>3 DEF Path, Key
    <2>2. Candidates # {}
      BY <1>1, <1>3, <2>1 DEF Candidates, FirstFound
    <2>3. PICK q \in Candidates : ResolveByEntry(<<>>, q)
      BY <1>0, <2>2 DEF Resolve
    <2>4. q \in DOMAIN props.stored /\ (Path \in DOMAIN props.stored => q = Path)
      BY <2>3 DEF Candidates
    <2>5. q \in Yaml <=> Path \in Yaml
      <3>1. PICK i \in DOMAIN layout : layout[i].path = q
        BY <1>1, <2>4 DEF Fit, PathsOfLayout
      <3> QED
        BY <1>0, <2>1, <3>1 DEF OneFile
    <2>6. CASE q \notin Yaml
      <3> DEFINE ps == [props EXCEPT !.defs = DefsAfterLookup]
      <3>1. props \in PropsType
        BY DEF InDelete, TypeOK, InstanceTypeOK
      <3>2. Recoverable(ps)
        BY <2>3, <2>6 DEF ResolveByEntry
      <3>3. Path \in DOMAIN props.stored /\ ps = props
        BY <1>1, <2>1, <2>5, <2>6, <3>1 DEF DefsAfterLookup, PropsType
      <3> QED
        BY <1>1, <2>1, <3>2, <3>3, RecoverableLeft
    <2>7. CASE q \in Yaml
      <3> DEFINE adj == Restrict(props.stored, AdjacentTo(q))
                 f == [Calling(props.stored[q].key, props.stored[q].key.kind)
                          EXCEPT !.adjacent = adj]
      <3>1. AdjacentTo(q) = DOMAIN props.stored \ {q}
        BY <1>0, <1>1, <2>4, AdjacentAreTheOthers
      <3>2. /\ DOMAIN adj = DOMAIN props.stored \ {q}
            /\ \A p \in DOMAIN adj : adj[p] = props.stored[p]
        BY <3>1 DEF Restrict
      <3>3. f.key = props.stored[q].key /\ f.kind = f.key.kind /\ f.adjacent = adj
        BY DEF Calling
      <3>4. /\ frames' = <<f>> \o <<>> /\ pc' = "read"
            /\ UNCHANGED <<stage, op, turn>>
            /\ props'.stored = Restrict(props.stored,
                                   DOMAIN props.stored \ ({q} \cup AdjacentTo(q)))
        BY <2>3, <2>7 DEF ResolveByEntry, Enter
      <3> HIDE DEF f, adj
      <3>5. frames' = <<f>> /\ DOMAIN props'.stored = {}
        BY <3>1, <3>4 DEF Restrict
      <3>6. Key \in Made => f.key = Key /\ f.kind = Key.kind
        BY <1>1, <1>3, <2>1, <2>4, <3>3 DEF FirstFound
      <3>7. Fit(adj)
        BY <1>1, <3>2 DEF Fit
      <3>8. \A p \in DOMAIN adj : p # Path /\ adj[p].key # f.key
        BY <1>1, <2>4, <3>2, <3>3 DEF Fit
      <3> QED
        BY <2>1, <2>5, <2>7, <3>3, <3>4, <3>5, <3>6, <3>7, <3>8, FirstCallLeft
    <2> QED
      BY <2>6, <2>7
  <1> QED
    BY <1>2, <1>3

\* An object that is not there, asked for in a call of a delete, tells that the
\* object of the definition under way is not there either.
LEMMA AbsentNotMade ==
    ASSUME InDelete, pc \in DeleteSteps, ~Exists(objects[Target]) PROVE Key \notin Made
  <1> SUFFICES ASSUME Key \in Made PROVE FALSE
    OBVIOUS
  <1>1. Outer(frames).key = Key /\ Outer(frames).kind = Key.kind /\ Len(frames) = 1
    BY DEF InDelete, Parts, CallsInv
  <1>2. Frame = Outer(frames)
    BY <1>1, FramesType DEF Frame, Outer, InDelete
  <1>3. Key \in Keys
    BY PathType DEF InDelete
  <1>4. Target = Key
    BY <1>1, <1>2, <1>3 DEF Target, Keys
  <1>5. objects[Key] \in Objects
    BY <1>3 DEF InDelete, TypeOK, WorldTypeOK
  <1> QED
    BY <1>4, <1>5 DEF Made, Objects, Missing, Exists, Phases

\* The turn of a definition passes when its object is gone; the last one ends the
\* delete.
LEMMA PassLeft ==
    ASSUME InDelete, pc \in DeleteSteps, Key \notin Made, NEW p, Proceed(p),
           DOMAIN p.stored = {}
    PROVE  Parts'
  <1>0. /\ turn \in Nat /\ turn <= Len(layout) /\ Len(layout) \in Nat
        /\ DOMAIN layout = 1 .. Len(layout) /\ layout[turn].key = Key
    BY PathType DEF InDelete, Key
  <1>1. UNCHANGED layout /\ Made' \subseteq Made /\ props' = p
    BY DEF InDelete, node, Proceed, End
  <1>2. \A i \in 1 .. turn : layout[i].key \notin Made
    <2>1. \A i \in 1 .. turn : i = turn \/ i \in 1 .. turn - 1
      BY <1>0
    <2> QED
      BY <1>0, <2>1 DEF InDelete, Parts, TurnInv
  <1>3. Fit(p.stored) /\ Fit(p.stored)' /\ FromLayout(p.stored)'
    BY DEF Fit, FromLayout
  <1>4. layout[1].path \in Yaml
    BY NothingStored
  <1>5. CASE turn < Len(layout)
    <2>1. /\ turn' = turn + 1 /\ pc' \notin DeleteSteps
          /\ UNCHANGED <<stage, op>>
      BY <1>5 DEF Proceed, FirstStep, DeleteSteps
    <2>2. MadeInv' /\ EntriesInv'
      BY <1>1, <1>3, <2>1
      DEF InDelete, Parts, MadeInv, EntriesInv, Fit, FromLayout
    <2>3. 1 .. turn' - 1 = 1 .. turn
      BY <1>0, <2>1
    <2>4. TurnInv'
      BY <1>1, <1>2, <1>4, <2>1, <2>3 DEF TurnInv, FirstFound
    <2> QED
      BY <2>1, <2>2, <2>4 DEF Parts, CallsInv
  <1>6. CASE ~(turn < Len(layout))
    <2>1. /\ op' = "none" /\ pc' = "idle" /\ stage' = "deleted"
      BY <1>6 DEF Proceed, End, StageAfter, InDelete
    <2>2. turn = Len(layout)
      <3> DEFINE n == Len(layout)
      <3>1. turn \in Nat /\ n \in Nat /\ turn <= n /\ ~(turn < n)
        BY <1>0, <1>6
      <3> HIDE DEF n
      <3>2. turn = n
        BY <3>1
      <3> QED
        BY <3>2 DEF n
    <2>3. Made = {}
      BY <1>0, <1>2, <2>2 DEF InDelete, Parts, MadeInv
    <2>4. MadeInv' /\ EntriesInv'
      BY <1>1, <2>1, <2>3, <1>3 DEF MadeInv, EntriesInv, Fit, FromLayout
    <2> QED
      BY <2>1, <2>4 DEF Parts, TurnInv, CallsInv, DeleteSteps
  <1> QED
    BY <1>5, <1>6

\* A call returns to the one that made it, or passes the turn.
LEMMA ReturnLeft ==
    ASSUME InDelete, pc \in DeleteSteps, Key \notin Made, Return PROVE Parts'
  <1>0. /\ DOMAIN props.stored = {} /\ layout[1].path \in Yaml
        /\ props \in PropsType /\ UNCHANGED layout /\ Made' \subseteq Made
        /\ frames \in Seq(Calls) /\ Len(frames) \in Nat
    BY NothingStored, FramesType DEF InDelete, TypeOK, InstanceTypeOK, node
  <1>1. CASE Len(frames) > 1
    <2>1. /\ frames' = Tail(frames) /\ pc' = "adjacent"
          /\ UNCHANGED <<stage, op, turn, props>>
      BY <1>1 DEF Return
    <2>2. /\ Len(frames') = Len(frames) - 1
          /\ \A i \in 1 .. Len(frames) - 1 : frames'[i] = frames[i + 1]
      BY <1>0, <1>1, <2>1
    <2>3. Outer(frames') = Outer(frames)
      <3>1. Len(frames) - 1 \in 1 .. Len(frames) - 1 /\ (Len(frames) - 1) + 1 = Len(frames)
        BY <1>0, <1>1
      <3> QED
        BY <2>2, <3>1 DEF Outer
    <2>4. \A i \in 1 .. Len(frames') - 1 : DOMAIN frames'[i].adjacent = {}
      <3>1. ASSUME NEW i \in 1 .. Len(frames') - 1 PROVE DOMAIN frames'[i].adjacent = {}
        <4>1. i \in 1 .. Len(frames) - 1 /\ i + 1 \in 1 .. Len(frames) - 1
          BY <1>0, <1>1, <2>2
        <4> QED
          BY <2>2, <4>1 DEF InDelete, Parts, CallsInv
      <3> QED
        BY <3>1
    <2>5. MadeInv' /\ EntriesInv'
      BY <1>0, <2>1 DEF InDelete, Parts, MadeInv, EntriesInv, Fit, PathsOfLayout
    <2>6. TurnInv'
      BY <1>0, <2>1 DEF InDelete, Parts, TurnInv, DeleteSteps
    <2>7. CallsInv'
      <3>1. UNCHANGED <<Key, Path, PathsOfLayout>>
        BY <1>0, <2>1 DEF Key, Path, PathsOfLayout
      <3>2. Key' \notin Made'
        BY <1>0, <3>1
      <3>3. /\ Fit(Outer(frames).adjacent)
            /\ \A p \in DOMAIN Outer(frames).adjacent :
                  p # Path /\ Outer(frames).adjacent[p].key # Outer(frames).key
        BY DEF InDelete, Parts, CallsInv
      <3> QED
        BY <2>3, <2>4, <3>1, <3>2, <3>3 DEF CallsInv, Fit, Outer
    <2> QED
      BY <2>5, <2>6, <2>7 DEF Parts
  <1>2. CASE ~(Len(frames) > 1)
    <2>1. DOMAIN [props EXCEPT !.stored = Restrict(@, DOMAIN @ \ {Path})].stored = {}
      BY <1>0 DEF PropsType, Restrict
    <2>2. DOMAIN [props EXCEPT !.stored = NoEntries].stored = {}
      BY <1>0 DEF PropsType, NoEntries
    <2>3. PICK p : Proceed(p) /\ DOMAIN p.stored = {}
      BY <1>0, <1>2, <2>1, <2>2 DEF Return
    <2> QED
      BY <2>3, PassLeft
  <1> QED
    BY <1>1, <1>2

\* The read of a call: a failed exchange, an object, or good news.
LEMMA ReadLeft ==
    ASSUME InDelete, ReadForDelete PROVE Parts'
  <1> PICK answer \in Answers : ReadForDelete!(answer)
    BY DEF ReadForDelete
  <1>0. /\ pc = "read" /\ pc \in DeleteSteps /\ frames \in Seq(Calls)
        /\ frames # <<>> /\ Frame = frames[1] /\ 1 \in DOMAIN frames
        /\ DOMAIN frames = 1 .. Len(frames) /\ Len(frames) \in Nat
    BY FramesType DEF DeleteSteps, InDelete, TypeOK, StepOK, Frame
  <1>1. CASE Recoverable(props)
    BY <1>0, <1>1, FailLeft
  <1>2. CASE Goto("exists", local)
    BY <1>0, <1>2, GotoLeft DEF DeleteSteps
  <1>3. CASE answer = "ok" /\ ~Found(answer, Target)
    <2>1. Key \notin Made
      BY <1>0, <1>3, AbsentNotMade DEF Found
    <2>2. CASE Return
      BY <1>0, <2>1, <2>2, ReturnLeft
    <2>3. CASE ~Return
      <3> DEFINE todo == {a \in DOMAIN Frame.adjacent : Frame.adjacent[a].typed}
      <3>1. /\ frames' = [frames EXCEPT ![1].todo = todo] /\ pc' = "adjacent"
            /\ UNCHANGED <<stage, op, turn, props>>
        BY <1>3, <2>3 DEF Recoverable, Goto
      <3> HIDE DEF todo
      <3>2. /\ Len(frames') = Len(frames)
            /\ \A i \in DOMAIN frames :
                  frames'[i].adjacent = frames[i].adjacent /\ frames'[i].key = frames[i].key
        BY <1>0, <3>1 DEF Calls, FrameType
      <3>3. UNCHANGED <<layout, Key, Path, PathsOfLayout>> /\ Made' \subseteq Made
        BY <3>1 DEF InDelete, node, Key, Path, PathsOfLayout
      <3>4. MadeInv' /\ EntriesInv'
        BY <3>1, <3>3 DEF InDelete, Parts, MadeInv, EntriesInv, Fit
      <3>5. TurnInv'
        BY <1>0, <3>1, <3>3, NothingStored
        DEF InDelete, Parts, TurnInv, DeleteSteps
      <3>6. CallsInv'
        <4>1. Len(frames) \in DOMAIN frames /\ 1 .. Len(frames) - 1 \subseteq DOMAIN frames
          BY <1>0
        <4>2. /\ Outer(frames').adjacent = Outer(frames).adjacent
              /\ Outer(frames').key = Outer(frames).key
          BY <3>2, <4>1 DEF Outer
        <4>3. \A i \in 1 .. Len(frames') - 1 : DOMAIN frames'[i].adjacent = {}
          BY <1>0, <3>2, <4>1 DEF InDelete, Parts, CallsInv
        <4>4. /\ Fit(Outer(frames).adjacent)
              /\ \A p \in DOMAIN Outer(frames).adjacent :
                    p # Path /\ Outer(frames).adjacent[p].key # Outer(frames).key
          BY <1>0 DEF InDelete, Parts, CallsInv
        <4> QED
          BY <2>1, <3>3, <4>2, <4>3, <4>4 DEF CallsInv, Fit, Outer
      <3> QED
        BY <3>4, <3>5, <3>6 DEF Parts
    <2> QED
      BY <2>2, <2>3
  <1> QED
    BY <1>1, <1>2, <1>3

\* A call that the first one makes, for another object.
LEMMA CallAdjacentLeft ==
    ASSUME InDelete, NEW a \in Paths, CallAdjacent(a) PROVE Parts'
  <1> DEFINE callers == [frames EXCEPT ![1].todo = @ \ {a}]
             f == Calling(Frame.adjacent[a].key, Frame.key.kind)
  <1>0. /\ pc = "adjacent" /\ pc \in DeleteSteps /\ frames \in Seq(Calls)
        /\ frames # <<>> /\ 1 \in DOMAIN frames
        /\ DOMAIN frames = 1 .. Len(frames) /\ Len(frames) \in Nat
        /\ Resolve(callers, Frame.adjacent[a].key, Frame.key.kind)
    BY FramesType DEF CallAdjacent, DeleteSteps, InDelete, TypeOK, StepOK
  <1>1. Key \notin Made
    BY <1>0 DEF InDelete, Parts, CallsInv
  <1>2. /\ frames' = <<f>> \o callers /\ pc' = "read"
        /\ props'.stored = props.stored /\ UNCHANGED <<stage, op, turn>>
    BY <1>0, NothingStored, ResolveEmpty DEF InDelete
  <1>3. /\ callers \in Seq(Calls) /\ Len(callers) = Len(frames)
        /\ \A i \in DOMAIN frames : callers[i].adjacent = frames[i].adjacent
                                   /\ callers[i].key = frames[i].key
    <2>1. [frames[1] EXCEPT !.todo = @ \ {a}] \in Calls
      BY <1>0 DEF Calls, FrameType
    <2>2. callers = [frames EXCEPT ![1] = [frames[1] EXCEPT !.todo = @ \ {a}]]
      OBVIOUS
    <2> HIDE DEF callers
    <2>3. callers \in Seq(Calls) /\ Len(callers) = Len(frames)
      BY <1>0, <2>1, <2>2
    <2>4. \A i \in DOMAIN frames : callers[i].adjacent = frames[i].adjacent
                                 /\ callers[i].key = frames[i].key
      BY <1>0, <2>2 DEF Calls, FrameType
    <2> QED
      BY <2>3, <2>4
  <1>4. DOMAIN f.adjacent = {}
    BY DEF Calling, NoEntries
  <1> HIDE DEF f, callers
  <1>5. /\ Len(frames') = Len(frames) + 1 /\ frames'[1] = f
        /\ \A i \in 2 .. Len(frames) + 1 : frames'[i] = callers[i - 1]
    <2> DEFINE one == <<f>>
    <2>1. one \in Seq({f}) /\ Len(one) = 1 /\ one[1] = f
      OBVIOUS
    <2> HIDE DEF one
    <2>2. /\ Len(one \o callers) = Len(one) + Len(callers)
          /\ \A i \in 1 .. Len(one) + Len(callers) :
                (one \o callers)[i] = IF i <= Len(one) THEN one[i]
                                     ELSE callers[i - Len(one)]
      <3>1. one \in Seq({f} \cup Calls) /\ callers \in Seq({f} \cup Calls)
        BY <1>3, <2>1
      <3> QED
        BY <3>1, ConcatProperties
    <2>3. frames' = one \o callers
      BY <1>2 DEF one
    <2> QED
      BY <1>0, <1>3, <2>1, <2>2, <2>3
  <1>6. UNCHANGED <<layout, Key, Path, PathsOfLayout>> /\ Made' \subseteq Made
    BY <1>2 DEF InDelete, node, Key, Path, PathsOfLayout
  <1>7. MadeInv' /\ EntriesInv'
    BY <1>2, <1>6 DEF InDelete, Parts, MadeInv, EntriesInv, Fit
  <1>8. TurnInv'
    BY <1>0, <1>2, <1>6, NothingStored DEF InDelete, Parts, TurnInv, DeleteSteps
  <1>9. CallsInv'
    <2>1. frames'[Len(frames')] = callers[Len(frames)]
      <3>1. Len(frames) + 1 \in 2 .. Len(frames) + 1 /\ (Len(frames) + 1) - 1 = Len(frames)
        BY <1>0
      <3> QED
        BY <1>5, <3>1
    <2>2. /\ Outer(frames').adjacent = Outer(frames).adjacent
          /\ Outer(frames').key = Outer(frames).key
      BY <1>0, <1>3, <2>1 DEF Outer
    <2>3. ASSUME NEW i \in 1 .. Len(frames') - 1 PROVE DOMAIN frames'[i].adjacent = {}
      <3>1. CASE i = 1
        BY <1>4, <1>5, <3>1
      <3>2. CASE i # 1
        <4>1. /\ i \in 2 .. Len(frames) + 1 /\ i - 1 \in DOMAIN frames
              /\ i - 1 \in 1 .. Len(frames) - 1
          BY <1>0, <1>5, <3>2
        <4>2. frames'[i].adjacent = frames[i - 1].adjacent
          BY <1>3, <1>5, <4>1
        <4> QED
          BY <1>0, <4>1, <4>2 DEF InDelete, Parts, CallsInv
      <3> QED
        BY <3>1, <3>2
    <2>4. /\ Fit(Outer(frames).adjacent)
          /\ \A p \in DOMAIN Outer(frames).adjacent :
                p # Path /\ Outer(frames).adjacent[p].key # Outer(frames).key
      BY <1>0 DEF InDelete, Parts, CallsInv
    <2> QED
      BY <1>1, <1>6, <2>2, <2>3, <2>4 DEF CallsInv, Fit, Outer
  <1> QED
    BY <1>7, <1>8, <1>9 DEF Parts

\* The entries of the call under way are those of other objects.
LEMMA FrameFits ==
    ASSUME InDelete, pc \in DeleteSteps
    PROVE  /\ Frame \in Calls /\ Frame.adjacent \in Entries
           /\ Fit(Frame.adjacent)
           /\ \A p \in DOMAIN Frame.adjacent :
                 p # Path /\ Frame.adjacent[p].key # Frame.key
           /\ Key \in Made => Frame.key = Key /\ pc # "adjacent"
  <1>0. /\ frames \in Seq(Calls) /\ frames # <<>> /\ Frame = frames[1]
        /\ Frame \in Calls /\ Len(frames) \in Nat \ {0}
    BY FramesType DEF InDelete, TypeOK, StepOK, Frame
  <1>1. CASE Len(frames) = 1
    BY <1>0, <1>1 DEF InDelete, Parts, CallsInv, Outer, Calls, FrameType
  <1>2. CASE Len(frames) # 1
    <2>1. 1 \in 1 .. Len(frames) - 1
      <3> DEFINE n == Len(frames)
      <3>1. n \in Nat \ {0} /\ n # 1
        BY <1>0, <1>2
      <3> HIDE DEF n
      <3>2. 1 \in 1 .. n - 1
        BY <3>1
      <3> QED
        BY <3>2 DEF n
    <2>2. DOMAIN Frame.adjacent = {}
      BY <1>0, <2>1 DEF InDelete, Parts, CallsInv
    <2> QED
      BY <1>0, <1>2, <2>2 DEF InDelete, Parts, CallsInv, Fit, Calls, FrameType
  <1> QED
    BY <1>1, <1>2

\* The first definition is the one under way, or has been passed.
LEMMA FirstTurn ==
    ASSUME InDelete
    PROVE  /\ Path \in PathsOfLayout
           /\ layout[1].key \in Made => Path = layout[1].path /\ Key = layout[1].key
  <1>1. turn \in DOMAIN layout /\ turn \in Nat /\ DOMAIN layout = 1 .. Len(layout)
    BY PathType DEF InDelete, TypeOK, InstanceTypeOK
  <1>2. turn # 1 => 1 \in 1 .. turn - 1
    BY <1>1
  <1>3. layout[1].key \in Made => turn = 1
    BY <1>2 DEF InDelete, Parts, TurnInv
  <1> QED
    BY <1>1, <1>3 DEF Path, Key, PathsOfLayout

\* What a delete puts back lets the next attempt find the first definition.
LEMMA PutAdjacentBackLeft ==
    ASSUME InDelete, PutAdjacentBack PROVE Parts'
  <1>0. /\ pc = "adjacent" /\ pc \in DeleteSteps /\ props \in PropsType
    BY DEF PutAdjacentBack, DeleteSteps, InDelete, TypeOK, InstanceTypeOK
  <1>1. PICK ps \in StoreAll(props, Frame.adjacent) : Recoverable(ps)
    BY DEF PutAdjacentBack
  <1>2. /\ DOMAIN ps.stored = DOMAIN Frame.adjacent
        /\ \A p \in DOMAIN ps.stored : ps.stored[p] = Frame.adjacent[p]
    <2>1. DOMAIN props.stored = {}
      BY <1>0, NothingStored
    <2> QED
      BY <1>1, <2>1, StoreAllEntries
  <1>3. Fit(ps.stored)
    BY <1>0, <1>2, FrameFits DEF Fit
  <1>4. layout[1].key \notin Made
    BY <1>0, FirstTurn, FrameFits
  <1>5. DOMAIN ps.stored # {} => ps.defs # <<>>
    BY <1>0, <1>1, <1>2, FrameFits, StoreAllDefs
  <1>6. FirstFound(ps)
    BY <1>4, <1>5 DEF FirstFound
  <1> QED
    BY <1>0, <1>1, <1>3, <1>6, NothingStored, RecoverableLeft

\* The definition of the call is put back at the path of the one under way.
LEMMA PutBackLeft ==
    ASSUME InDelete, PutBack PROVE Parts'
  <1> DEFINE e == [key |-> Frame.key, typed |-> FALSE]
             kept == StoreResult(props, Path, e)
  <1>0. /\ pc = "putback" /\ pc \in DeleteSteps /\ PutsBack
        /\ props \in PropsType /\ Path \in Paths
    BY PathType
    DEF PutBack, PutsBack, PerformOnDelete, DeleteSteps, InDelete, TypeOK,
        InstanceTypeOK, Bound, Answerable
  <1>1. PICK ps \in StoreAll(kept, Frame.adjacent) : Recoverable(ps)
    BY <1>0 DEF PutBack
  <1>2. e \in Entry /\ e.key = Frame.key
    BY <1>0, FrameFits DEF Calls, FrameType, Entry
  <1>3. kept \in PropsType /\ kept.defs # <<>>
    <2>1. Occurs(e.key, kept.defs)
      BY <1>0, <1>2, StoreKeeps DEF StoreResult, PropsType, Entry
    <2> QED
      BY <1>0, <1>2, <2>1, StoreResultType DEF Occurs
  <1>4. /\ DOMAIN kept.stored = {Path} /\ kept.stored[Path] = e
    BY <1>0, NothingStored DEF StoreResult, With
  <1> HIDE DEF kept, e
  <1>5. /\ DOMAIN ps.stored = {Path} \cup DOMAIN Frame.adjacent
        /\ ps.stored[Path] = e
        /\ \A p \in DOMAIN Frame.adjacent : ps.stored[p] = Frame.adjacent[p]
    BY <1>0, <1>1, <1>4, FrameFits, StoreAllEntries
  <1>6. Fit(ps.stored)
    BY <1>0, <1>2, <1>5, FrameFits, FirstTurn DEF Fit
  <1>7. ps.defs # <<>>
    BY <1>0, <1>1, <1>3, FrameFits, StoreAllDefs
  <1>8. FirstFound(ps)
    <2>1. CASE layout[1].key \in Made
      BY <1>0, <1>2, <1>5, <2>1, FrameFits, FirstTurn DEF FirstFound
    <2>2. CASE layout[1].key \notin Made
      BY <1>7, <2>2 DEF FirstFound
    <2> QED
      BY <2>1, <2>2
  <1> QED
    BY <1>0, <1>1, <1>6, <1>8, NothingStored, RecoverableLeft

\* The steps of a delete keep the invariant.
LEMMA DeleteLeft ==
    ASSUME TypeOK, Bound, UNCHANGED node, Parts, DeleteStep PROVE Parts'
  <1>0. InDelete
    <2>1. op = "delete"
      BY DEF DeleteStep, DeleteCheck, ResolveProvided, ReadForDelete,
             CallAdjacent, PutAdjacentBack, CheckExists, DeleteCall, PatchClaim,
             PutBack, TypeOK, StepOK, DeleteSteps
    <2> QED
      BY <2>1, DeleteLoses DEF InDelete, Loses
  <1>1. CASE DeleteCheck
    <2>1. PICK l : Goto("resolve", l)
      BY <1>1 DEF DeleteCheck
    <2>2. pc \notin DeleteSteps
      BY <1>1 DEF DeleteCheck, DeleteSteps
    <2> QED
      BY <1>0, <2>1, <2>2, GotoLeft DEF DeleteSteps
  <1>2. CASE CheckExists \/ DeleteCall \/ PatchClaim
    <2>1. pc \in DeleteSteps
      BY <1>2 DEF CheckExists, DeleteCall, PatchClaim, DeleteSteps
    <2>2. \/ Recoverable(props)
          \/ \E step \in {"delete", "patch", "putback"} : Goto(step, local)
      BY <1>2 DEF CheckExists, DeleteCall, PatchClaim, AfterResponse
    <2> QED
      BY <1>0, <2>1, <2>2, GotoLeft, FailLeft DEF DeleteSteps
  <1> QED
    BY <1>0, <1>1, <1>2, ResolveLeft, ReadLeft, CallAdjacentLeft,
       PutAdjacentBackLeft, PutBackLeft
    DEF DeleteStep

-----------------------------------------------------------------------------
(* The theorems.                                                           *)

\* The invariant holds.
LEMMA LeftHolds == Spec => []LeftInv
  <1>1. Init => LeftInv
    <2> SUFFICES ASSUME Init PROVE Parts
      BY DEF LeftInv
    <2>1. Made = {} /\ stage = "uninitialized"
      BY DEF Init, Made, Missing, Foreign
    <2>2. DOMAIN props.stored = {} /\ op = "none" /\ pc = "idle"
      BY DEF Init
    <2> QED
      BY <2>1, <2>2
      DEF Parts, MadeInv, EntriesInv, FromLayout, Fit, TurnInv, CallsInv,
          DeleteSteps
  <1>2. TypeOK /\ TypeOK' /\ CoverInv /\ LeftInv /\ [Next]_vars => LeftInv'
    <2> SUFFICES ASSUME TypeOK, TypeOK', CoverInv, LeftInv, [Next]_vars, Bound'
                 PROVE  Parts'
      BY DEF LeftInv
    <2>1. Bound /\ UNCHANGED node /\ UNCHANGED layout
      BY BoundStays DEF node
    <2>2. Parts
      BY <2>1 DEF LeftInv
    <2> QED
      BY <2>1, <2>2, ApplyLeft, DeleteLeft, EngineLeft, WorldLeft
      DEF Next, Worker, ApplyStep, DeleteStep
  <1>3. Spec => []CoverInv
    BY CoverHolds
  <1> QED
    BY <1>1, <1>2, <1>3, TypeCorrect, PTL DEF Spec

\* An uninstall of a node with one file, which stays the same, leaves no object
\* the plugin made, whatever fails in its attempts and whoever else interferes.
THEOREM FileLeavesNothing == Spec => []NothingLeftBehind
  <1>1. LeftInv => NothingLeftBehind
    BY DEF LeftInv, Bound, Parts, MadeInv, NothingLeftBehind
  <1> QED
    BY <1>1, LeftHolds, PTL
=============================================================================
