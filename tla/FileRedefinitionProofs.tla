------------------------- MODULE FileRedefinitionProofs -------------------------
(***************************************************************************)
(* What an uninstall of FileResource leaves where a redefinition is        *)
(* allowed, for all files of one or two definitions, policies, and numbers *)
(* of failed exchanges and crashes.                                        *)
(*                                                                         *)
(* The turns are no argument here: a call may be for a stored definition   *)
(* instead of the one under way, so that a turn passes with the object of  *)
(* the other definition gone.  The invariant follows what is stored: the   *)
(* list says which definition takes the place of the one under way, and    *)
(* which object is gone by then.                                           *)
(*                                                                         *)
(* At the end, from this and from FileDeleteProofs: FileResource           *)
(* implements ManagedNode.                                                 *)
(***************************************************************************)
EXTENDS FileDeleteProofs

Size == Len(layout)
PathOf(i) == layout[i].path
KeyOf(i) == layout[i].key

\* The list of the first m definitions of the file.
First(m) == [i \in 1 .. m |-> KeyOf(i)]

\* There is no object of the definition.
Gone(i) == ~Exists(objects[KeyOf(i)])

Few ==
    /\ Answerable /\ policy.allow_node_redefinition
    /\ Size <= 2 /\ NoOtherClient

-----------------------------------------------------------------------------
(* The first definitions of the file, as a list.                           *)

\* Definitions of the file have keys, each its own, and paths.
LEMMA FileType ==
    ASSUME TypeOK
    PROVE  /\ Size \in Nat \ {0} /\ DOMAIN layout = 1 .. Size
           /\ \A i \in 1 .. Size : KeyOf(i) \in Keys /\ PathOf(i) \in Paths
           /\ \A i, j \in 1 .. Size : PathOf(i) = PathOf(j) => i = j
           /\ OneFile => \A i, j \in 1 .. Size : KeyOf(i) = KeyOf(j) => i = j
  <1>1. layout \in Seq(Definition) /\ layout # <<>> /\ layout \in Layouts
    BY LayoutsAssumption DEF TypeOK, WorldTypeOK
  <1>2. Size \in Nat \ {0} /\ DOMAIN layout = 1 .. Size
    BY <1>1 DEF Size
  <1>3. \A i \in 1 .. Size : layout[i] \in Definition
    BY <1>1, <1>2
  <1>4. \A i, j \in 1 .. Size : PathOf(i) = PathOf(j) => i = j
    BY <1>1, <1>2, LayoutsAssumption DEF PathOf
  <1>5. OneFile => \A i, j \in 1 .. Size : KeyOf(i) = KeyOf(j) => i = j
    BY <1>2 DEF OneFile, KeyOf
  <1> QED
    BY <1>2, <1>3, <1>4, <1>5 DEF KeyOf, PathOf, Definition

\* The first m definitions are a list of m keys.
LEMMA FirstType ==
    ASSUME TypeOK, NEW m \in 0 .. Size
    PROVE  /\ First(m) \in Seq(Keys) /\ Len(First(m)) = m
           /\ DOMAIN First(m) = 1 .. m
           /\ \A i \in 1 .. m : First(m)[i] = KeyOf(i)
  <1>1. m \in Nat /\ \A i \in 1 .. m : KeyOf(i) \in Keys
    BY FileType
  <1>2. First(m) \in [1 .. m -> Keys]
    BY <1>1 DEF First
  <1> QED
    BY <1>1, <1>2 DEF First

\* A list of definitions is known by its length and its members.
LEMMA IsFirst ==
    ASSUME TypeOK, NEW m \in 0 .. Size, NEW d \in Seq(Keys), Len(d) = m,
           \A i \in 1 .. m : d[i] = KeyOf(i)
    PROVE  d = First(m)
  BY FirstType, SeqEqual

\* The empty list and the list of the first definition only.
LEMMA FirstShort ==
    ASSUME TypeOK PROVE First(0) = <<>> /\ First(1) = <<KeyOf(1)>>
  <1>1. 0 \in 0 .. Size /\ 1 \in 0 .. Size /\ KeyOf(1) \in Keys
    BY FileType
  <1>2. First(0) = <<>>
    BY <1>1, FirstType
  <1>3. First(1) = <<KeyOf(1)>>
    <2> DEFINE one == <<KeyOf(1)>>
    <2>1. one \in Seq(Keys) /\ Len(one) = 1 /\ one[1] = KeyOf(1)
      BY <1>1
    <2>2. First(1) \in Seq(Keys) /\ Len(First(1)) = 1 /\ First(1)[1] = KeyOf(1)
      <3>1. 1 \in 1 .. 1
        OBVIOUS
      <3> QED
        BY <1>1, <3>1, FirstType
    <2> HIDE DEF one
    <2>3. one = First(1)
      BY <2>1, <2>2, SeqEqual
    <2> QED
      BY <2>3 DEF one
  <1> QED
    BY <1>2, <1>3

\* pop() takes the last of them.
LEMMA FirstPopped ==
    ASSUME TypeOK, NEW m \in 1 .. Size
    PROVE  /\ Popped(First(m)) = First(m - 1) /\ First(m) # <<>>
           /\ First(m)[Len(First(m))] = KeyOf(m)
  <1> DEFINE d == SubSeq(First(m), 1, m - 1)
  <1>1. m \in 0 .. Size /\ m - 1 \in 0 .. Size /\ m \in Nat \ {0}
    BY FileType
  <1>2. /\ First(m) \in Seq(Keys) /\ Len(First(m)) = m
        /\ \A i \in 1 .. m : First(m)[i] = KeyOf(i)
    BY <1>1, FirstType
  <1>3. First(m) # <<>>
    BY <1>1, <1>2
  <1>4. d \in Seq(Keys) /\ Len(d) = m - 1 /\ \A i \in 1 .. m - 1 : d[i] = First(m)[i]
    BY <1>1, <1>2
  <1>5. \A i \in 1 .. m - 1 : d[i] = KeyOf(i)
    BY <1>1, <1>2, <1>4
  <1> HIDE DEF d
  <1>6. d = First(m - 1)
    BY <1>1, <1>4, <1>5, IsFirst
  <1> QED
    BY <1>1, <1>2, <1>3, <1>6 DEF Popped, d

\* A definition is among the first m if its number is at most m, since no two
\* definitions of the file are of one object.
LEMMA FirstOccurs ==
    ASSUME TypeOK, OneFile, NEW m \in 0 .. Size, NEW i \in 1 .. Size
    PROVE  Occurs(KeyOf(i), First(m)) <=> i <= m
  <1>1. DOMAIN First(m) = 1 .. m /\ \A j \in 1 .. m : First(m)[j] = KeyOf(j)
    BY FirstType
  <1>2. /\ Size \in Nat /\ m \in Nat /\ m <= Size /\ i \in Nat /\ 1 <= i
        /\ \A j \in 1 .. Size : KeyOf(i) = KeyOf(j) => i = j
    BY FileType
  <1>3. 1 .. m \subseteq 1 .. Size /\ (i \in 1 .. m <=> i <= m)
    BY <1>2
  <1> QED
    BY <1>1, <1>2, <1>3 DEF Occurs

\* StoreDefinition adds the next definition, and none that is there already.
LEMMA FirstStored ==
    ASSUME TypeOK, OneFile, NEW m \in 0 .. Size, NEW i \in 1 .. Size, i <= m + 1
    PROVE  /\ i <= m => StoreDefinition(First(m), KeyOf(i)) = First(m)
           /\ i = m + 1 => /\ StoreDefinition(First(m), KeyOf(i)) = First(m + 1)
                           /\ Append(First(m), KeyOf(i)) = First(m + 1)
  <1>1. CASE i <= m
    BY <1>1, FirstOccurs, FileType DEF StoreDefinition
  <1>2. CASE i = m + 1
    <2> DEFINE d == Append(First(m), KeyOf(i))
    <2>0. m \in Nat /\ m + 1 \in 0 .. Size /\ KeyOf(i) \in Keys
      BY <1>2, FileType
    <2>1. d \in Seq(Keys) /\ Len(d) = m + 1 /\ \A j \in 1 .. m + 1 : d[j] = KeyOf(j)
      BY <1>2, <2>0, FirstType, AppendProperties
    <2> HIDE DEF d
    <2>2. d = First(m + 1)
      BY <2>0, <2>1, IsFirst
    <2>3. ~Occurs(KeyOf(i), First(m))
      BY <1>2, <2>0, FirstOccurs
    <2> QED
      BY <1>2, <2>0, <2>2, <2>3 DEF StoreDefinition, d
  <1> QED
    BY <1>1, <1>2, FileType

\* Adjacent entries for definitions that are stored leave the list as it is.
LEMMA StoreAllKnown ==
    ASSUME NEW ps \in PropsType, NEW entries \in Entries,
           NEW qs \in StoreAll(ps, entries),
           \A p \in DOMAIN entries : Occurs(entries[p].key, ps.defs)
    PROVE  qs.defs = ps.defs
  <1> DEFINE new == {entries[p].key : p \in DOMAIN entries} \ Range(ps.defs)
             merged == [q \in DOMAIN ps.stored \cup DOMAIN entries |->
                           IF q \in DOMAIN entries THEN entries[q]
                           ELSE ps.stored[q]]
  <1>0. qs \in {[stored |-> merged, defs |-> ps.defs \o order] :
                   order \in Orders(new)}
    BY Zenon DEF StoreAll
  <1>1. new = {}
    BY DEF Occurs, Range
  <1> HIDE DEF merged, new
  <1>2. PICK order \in Orders(new) : qs.defs = ps.defs \o order
    BY <1>0
  <1>3. Cardinality(new) = 0
    BY <1>1, FS_EmptySet
  <1>4. order = <<>>
    <2>1. order \in [1 .. 0 -> {}]
      BY <1>1, <1>2, <1>3 DEF Orders
    <2> QED
      BY <2>1
  <1> QED
    BY <1>2, <1>4, ConcatEmptySeq DEF PropsType

\* A single one for a definition that is not is appended.
LEMMA StoreAllNew ==
    ASSUME NEW ps \in PropsType, NEW entries \in Entries,
           NEW qs \in StoreAll(ps, entries), NEW p, DOMAIN entries = {p},
           ~Occurs(entries[p].key, ps.defs)
    PROVE  qs.defs = Append(ps.defs, entries[p].key)
  <1> DEFINE k == entries[p].key
             new == {entries[q].key : q \in DOMAIN entries} \ Range(ps.defs)
             merged == [q \in DOMAIN ps.stored \cup DOMAIN entries |->
                           IF q \in DOMAIN entries THEN entries[q]
                           ELSE ps.stored[q]]
  <1>0. qs \in {[stored |-> merged, defs |-> ps.defs \o order] :
                   order \in Orders(new)}
    BY Zenon DEF StoreAll
  <1>1. new = {k}
    BY DEF Occurs, Range
  <1>2. k \in Keys
    BY DEF Entries, Entry
  <1> HIDE DEF merged, new, k
  <1>3. PICK order \in Orders(new) : qs.defs = ps.defs \o order
    BY <1>0
  <1>4. Cardinality(new) = 1
    BY <1>1, FS_Singleton
  <1>5. order = <<k>>
    <2>1. order \in [1 .. 1 -> {k}]
      BY <1>1, <1>3, <1>4 DEF Orders
    <2>2. DOMAIN order = 1 .. 1 /\ order[1] = k
      BY <2>1
    <2>3. order \in Seq({k}) /\ Len(order) = 1
      <3>1. order \in UNION {[1 .. n -> {k}] : n \in Nat}
        BY <2>1, SMT
      <3>2. order \in Seq({k})
        BY <3>1, SeqDef, Zenon
      <3>3. Len(order) \in Nat /\ 1 .. Len(order) = 1 .. 1
        BY <2>2, <3>2, LenProperties
      <3>4. Len(order) = 1
        <4>1. 1 \in 1 .. Len(order)
          BY <3>3
        <4>2. Len(order) \in 1 .. Len(order)
          BY <3>3, <4>1
        <4>3. Len(order) \in 1 .. 1
          BY <3>3, <4>2
        <4> QED
          BY <4>3
      <3> QED
        BY <3>2, <3>4
    <2> DEFINE one == <<k>>
    <2>4. one \in Seq({k}) /\ Len(one) = 1 /\ one[1] = k
      OBVIOUS
    <2> HIDE DEF one
    <2>5. order = one
      BY <2>2, <2>3, <2>4, SeqEqual
    <2> QED
      BY <2>5 DEF one
  <1> QED
    BY <1>2, <1>3, <1>5, AppendIsConcat DEF PropsType, k

-----------------------------------------------------------------------------
(* The inductive invariant.                                                *)

\* The first turn passes when the object of k is gone, and then the object of the
\* first definition is.
Passable(k) == k = KeyOf(1) \/ (Size = 2 /\ Gone(1))

\* There is nothing to take the place of a definition, or the first one does.
Short(d) == Len(d) <= 1 \/ (Size = 2 /\ d = First(2))

OnlySecond(entries) ==
    DOMAIN entries = {PathOf(2)} /\ entries[PathOf(2)].key = KeyOf(2)

\* What an attempt of a delete begins with.  The entries were lost.
Lost(ps) == DOMAIN ps.stored = {} /\ Short(ps.defs)

\* There is an entry for the last object that was deleted.
Single(ps) ==
    \E p \in PathsOfLayout :
        /\ DOMAIN ps.stored = {p} /\ ps.defs = <<ps.stored[p].key>>
        /\ Passable(ps.stored[p].key)

\* It is the object of the second definition, with the first one still to come.
Second(ps) ==
    /\ Size = 2 /\ DOMAIN ps.stored = {PathOf(1)}
    /\ ps.stored[PathOf(1)].key = KeyOf(2) /\ ps.defs = First(2)

\* There is an entry for each of the two definitions.
Whole(ps) ==
    /\ Size = 2 /\ DOMAIN ps.stored = {PathOf(1), PathOf(2)}
    /\ ps.stored[PathOf(1)].key = KeyOf(1) /\ ps.stored[PathOf(2)].key = KeyOf(2)
    /\ ps.defs = First(2)

\* The first object is gone, and there is an entry for the second.
Rest(ps) == Size = 2 /\ Gone(1) /\ OnlySecond(ps.stored) /\ ps.defs = First(2)

BeginsWith(ps) ==
    /\ Lost(ps) \/ Single(ps) \/ Second(ps) \/ Whole(ps) \/ Rest(ps)
    /\ PathOf(1) \notin Yaml => PathOf(1) \in DOMAIN ps.stored

\* What it goes on with, when the first turn has passed.
Passed ==
    /\ DOMAIN props.stored = {} /\ PathOf(1) \in Yaml
    /\ \/ Len(props.defs) <= 1 /\ Gone(1)
       \/ props.defs = First(2) /\ Gone(2)

\* The call f is for the i-th definition, with its own mapping.
For(f, i) == f.key = KeyOf(i) /\ f.kind = f.key.kind

\* A call of the first turn that is at step, with d stored: it took nothing out
\* but its own entry;
Alone(f, d, step) ==
    /\ DOMAIN f.adjacent = {} /\ step # "adjacent" /\ f.kind = f.key.kind
    /\ \/ Passable(f.key) /\ d \in {<<>>, <<f.key>>}
       \/ /\ Size = 2 /\ f.key = KeyOf(2)
          /\ (d = First(1) /\ Gone(1)) \/ d = First(2)

\* it took out the entry of the second definition;
WithSecond(f, d, step) ==
    /\ Size = 2 /\ For(f, 1) /\ d = First(2) /\ OnlySecond(f.adjacent)
    /\ step = "adjacent" => Gone(1)

\* A call f for the adjacent entry of the call o is for the first definition
\* again, and will find its object gone,
Nested(f, o, d, step) ==
    /\ Size = 2 /\ Gone(1) /\ OnlySecond(o.adjacent) /\ o.todo = {}
    /\ For(f, 1) /\ DOMAIN f.adjacent = {} /\ d = <<>> /\ step = "read"

\* and then o has only its entry to put back.
Returned(o, d, step) ==
    /\ Size = 2 /\ Gone(1) /\ OnlySecond(o.adjacent) /\ o.todo = {}
    /\ d = <<>> /\ step = "adjacent"

FirstTurnCalls(fs, d, step) ==
    \/ /\ Len(fs) = 1
       /\ \/ Alone(fs[1], d, step) \/ WithSecond(fs[1], d, step)
          \/ Returned(fs[1], d, step)
    \/ Len(fs) = 2 /\ Nested(fs[1], fs[2], d, step)

\* The second turn is for the one of the two that is not gone.
SecondTurnCall(f, d, step) ==
    /\ DOMAIN f.adjacent = {} /\ d = <<>> /\ step # "adjacent"
    /\ (For(f, 1) /\ Gone(2)) \/ (For(f, 2) /\ Gone(1))

\* The node makes the objects of its definitions.
MakesInv ==
    /\ stage # "broken"
    /\ \A k \in Made : \E i \in DOMAIN layout : layout[i].key = k

\* Before it is uninstalled it has stored the definitions in their order.
InstalledInv ==
    op # "delete" =>
        /\ \E m \in 0 .. Size : props.defs = First(m)
        /\ FromLayout(props.stored)
        /\ stage = "deleted" => \A i \in 1 .. Size : Gone(i)

AttemptInv ==
    op = "delete" /\ pc \notin DeleteSteps =>
        IF turn = 1 THEN BeginsWith(props) ELSE Passed

CallInv ==
    pc \in DeleteSteps =>
        /\ DOMAIN props.stored = {} /\ PathOf(1) \in Yaml
        /\ IF turn = 1 THEN FirstTurnCalls(frames, props.defs, pc)
           ELSE Len(frames) = 1 /\ SecondTurnCall(frames[1], props.defs, pc)

FewParts == MakesInv /\ InstalledInv /\ AttemptInv /\ CallInv

FewInv == Few => FewParts

-----------------------------------------------------------------------------
(* What a step may do to the objects of the file.                          *)

\* The number of definitions is known.
LEMMA FewDefinitions ==
    ASSUME TypeOK, Few
    PROVE  /\ Size \in {1, 2} /\ turn \in {1, 2} /\ turn \in 1 .. Size /\ OneFile
           /\ Path = PathOf(turn) /\ Key = KeyOf(turn)
           /\ PathOf(1) \in PathsOfLayout
           /\ Size = 1 => PathsOfLayout = {PathOf(1)}
           /\ Size = 2 => /\ PathsOfLayout = {PathOf(1), PathOf(2)}
                          /\ PathOf(1) # PathOf(2) /\ KeyOf(1) # KeyOf(2)
  <1>1. /\ Size \in Nat \ {0} /\ Size <= 2 /\ OneFile /\ turn \in 1 .. Size
        /\ DOMAIN layout = 1 .. Size
        /\ \A i, j \in 1 .. Size : PathOf(i) = PathOf(j) => i = j
        /\ \A i, j \in 1 .. Size : KeyOf(i) = KeyOf(j) => i = j
    BY FileType DEF Few, Answerable, TypeOK, InstanceTypeOK
  <1>2. Size \in {1, 2} /\ turn \in {1, 2}
    BY <1>1
  <1>3. PathsOfLayout = {PathOf(i) : i \in 1 .. Size}
    BY <1>1 DEF PathsOfLayout, PathOf
  <1> QED
    BY <1>1, <1>2, <1>3 DEF Path, Key, PathOf, KeyOf

\* What is gone stays away.
Steady == \A i \in 1 .. Size : Gone(i) => Gone(i)'

\* While the file stays the same, so does what is read from it.
LEMMA FileStays ==
    ASSUME UNCHANGED layout
    PROVE  /\ UNCHANGED <<Size, PathsOfLayout>>
           /\ \A i : PathOf(i)' = PathOf(i) /\ KeyOf(i)' = KeyOf(i)
           /\ \A m : First(m)' = First(m)
  BY DEF Size, PathsOfLayout, PathOf, KeyOf, First

\* What is gone stays away for the two definitions there may be.
LEMMA FewSteady ==
    ASSUME TypeOK, Few, Steady
    PROVE  /\ Gone(1) => Gone(1)'
           /\ Size = 2 => (Gone(2) => Gone(2)')
  BY FewDefinitions DEF Steady

\* A step that changes no object is steady.
LEMMA SameObjectsSteady ==
    ASSUME UNCHANGED layout, UNCHANGED objects PROVE Steady
  BY DEF Steady, Gone, KeyOf

\* What an attempt began with, another can begin with.
LEMMA BeginsStays ==
    ASSUME TypeOK, Few, UNCHANGED layout, Steady, NEW ps, BeginsWith(ps)
    PROVE  BeginsWith(ps)'
  <1>1. /\ Size' = Size /\ PathsOfLayout' = PathsOfLayout
        /\ \A i : PathOf(i)' = PathOf(i) /\ KeyOf(i)' = KeyOf(i)
        /\ \A m : First(m)' = First(m)
    BY FileStays
  <1>2. Gone(1) => Gone(1)'
    BY FewSteady
  <1>3. PathOf(1)' \notin Yaml => PathOf(1)' \in DOMAIN ps.stored
    BY <1>1 DEF BeginsWith
  <1>4. /\ Lost(ps) => Lost(ps)'
        /\ Second(ps) => Second(ps)'
        /\ Whole(ps) => Whole(ps)'
    BY <1>1 DEF Lost, Short, Second, Whole
  <1>5. Single(ps) => Single(ps)'
    BY <1>1, <1>2 DEF Single, Passable
  <1>6. Rest(ps) => Rest(ps)'
    BY <1>1, <1>2 DEF Rest, OnlySecond
  <1> QED
    BY <1>3, <1>4, <1>5, <1>6 DEF BeginsWith

\* The worker is no other client.
LEMMA WorkerNoOther ==
    ASSUME TypeOK, Worker PROVE budget'.others = budget.others
  <1>1. UNCHANGED budget \/ \E answer \in Answers : Charge(answer)
    BY DEF Worker, CreateCheck, CreateCall, UpdateCall, ReadCall, Store,
           HealCall, RecreateCall, DeleteCheck, ResolveProvided, ReadForDelete,
           CallAdjacent, PutAdjacentBack, CheckExists, DeleteCall, PatchClaim,
           PutBack, Resolve, ResolveByEntry, ResolveByDefinition, Enter
  <1> QED
    BY <1>1 DEF Charge, TypeOK, WorldTypeOK

\* A node that is bound to unmake its objects was so before the step, and the
\* step is none of another client.
LEMMA FewStays ==
    ASSUME TypeOK, CoverInv, SureInv, [Next]_vars, Few'
    PROVE  Few /\ UNCHANGED node /\ ~(\E k \in Keys : OtherClient(k))
  <1>0. /\ budget.redefinitions \in Nat /\ budget.redefinitions <= MaxRedefinitions
        /\ budget.others \in Nat /\ budget.others <= MaxOthers
        /\ budget'.redefinitions = MaxRedefinitions /\ budget'.others = MaxOthers
    BY DEF TypeOK, WorldTypeOK, CoverInv, SureInv, Few, Answerable,
           NeverRedefined, NoOtherClient
  <1>1. ASSUME NEW k \in Keys, OtherClient(k) PROVE FALSE
    <2>1. budget'.others = budget.others - 1
      BY <1>1 DEF OtherClient, TypeOK, WorldTypeOK
    <2> QED
      BY <1>0, <2>1, BoundsAssumption
  <1>2. ASSUME NEW l \in Layouts, Redefine(l) PROVE FALSE
    <2>1. budget'.redefinitions = budget.redefinitions - 1
      BY <1>2 DEF Redefine, TypeOK, WorldTypeOK
    <2> QED
      BY <1>0, <2>1, BoundsAssumption
  <1>3. UNCHANGED node /\ budget'.redefinitions = budget.redefinitions
    <2>1. CASE Worker
      BY <2>1, WorkerRedefinesNothing
    <2>2. CASE \/ Engine \/ CrashAndResume \/ UNCHANGED vars
               \/ \E k \in Keys : Controller(k) \/ Unprotect(k)
      BY <2>2
      DEF Engine, Retry, Start, Begin, CrashAndResume, Controller, Unprotect,
          node, vars, TypeOK, WorldTypeOK
    <2> QED
      BY <1>1, <1>2, <2>1, <2>2 DEF Next, World
  <1>4. budget'.others = budget.others
    <2>1. CASE Worker
      BY <2>1, WorkerNoOther
    <2>2. CASE \/ Engine \/ CrashAndResume \/ UNCHANGED vars
               \/ \E k \in Keys : Controller(k) \/ Unprotect(k)
      BY <2>2
      DEF Engine, Retry, Start, Begin, CrashAndResume, Controller, Unprotect,
          vars, TypeOK, WorldTypeOK
    <2> QED
      BY <1>1, <1>2, <2>1, <2>2 DEF Next, World
  <1>5. Few
    BY <1>0, <1>3, <1>4
    DEF Few, Answerable, OneFile, NeverRedefined, NoOtherClient, Size, node
  <1> QED
    BY <1>1, <1>3, <1>5

\* Controllers bring nothing back.
LEMMA ControllerSteady ==
    ASSUME TypeOK, UNCHANGED layout, UNCHANGED objects \/ \E k \in Keys : Controller(k)
    PROVE  Steady
  <1>1. ASSUME NEW k \in Keys, Controller(k), NEW i \in 1 .. Size, Gone(i)
        PROVE  Gone(i)'
    <2>1. PICK o \in Settled(objects[k]) \cup Finalized(objects[k]) :
              objects' = [objects EXCEPT ![k] = o]
      BY <1>1 DEF Controller, Becomes
    <2>2. /\ objects[k] \in Objects /\ objects \in [Keys -> Objects]
          /\ KeyOf(i)' = KeyOf(i) /\ KeyOf(i) \in Keys
      BY FileStays, FileType DEF TypeOK, WorldTypeOK
    <2>3. CASE KeyOf(i) = k
      BY <1>1, <2>1, <2>2, <2>3
      DEF Settled, Finalized, Gone, Exists, Objects, Missing, Phases
    <2>4. CASE KeyOf(i) # k
      BY <1>1, <2>1, <2>2, <2>4 DEF Gone
    <2> QED
      BY <2>3, <2>4
  <1> QED
    BY <1>1, SameObjectsSteady DEF Steady

-----------------------------------------------------------------------------
(* Create, read, update and the heal.                                      *)

\* The definitions are stored in their order.
LEMMA StoresInOrder ==
    ASSUME TypeOK, CoverInv, Few, InstalledInv, Store
    PROVE  \E m \in 0 .. Size :
               StoreResult(props, Path, local.response).defs = First(m)
  <1>1. /\ op \in {"create", "read", "update"} /\ local.response.key = Key
        /\ op # "create" => stage = "created"
        /\ turn \in 1 .. Size /\ Key = KeyOf(turn)
    BY FileType DEF Store, TypeOK, StepOK, InstanceTypeOK, Key, KeyOf
  <1>2. PICK m \in 0 .. Size : props.defs = First(m)
    BY <1>1 DEF InstalledInv
  <1>3. OneFile /\ NeverRedefined /\ Size \in Nat \ {0} /\ DOMAIN layout = 1 .. Size
    BY FileType DEF Few, Answerable
  <1>4. ASSUME NEW i \in 1 .. Size, Covers(props, layout[i]) PROVE i <= m
    BY <1>2, <1>3, <1>4, FirstOccurs DEF Covers, KeyOf
  <1>5. turn <= m + 1
    <2>1. CASE stage = "created"
      <3>1. Covers(props, layout[Size]) /\ Size \in 1 .. Size
        BY <1>3, <2>1 DEF CoverInv
      <3>2. Size <= m
        BY <1>4, <3>1
      <3> QED
        BY <1>1, <1>3, <3>2
    <2>2. CASE op = "create" /\ turn # 1
      <3>1. turn - 1 \in 1 .. turn - 1 /\ turn - 1 \in 1 .. Size
        BY <1>1, <1>3, <2>2
      <3>2. Covers(props, layout[turn - 1])
        BY <1>3, <2>2, <3>1 DEF CoverInv
      <3>3. turn - 1 <= m
        BY <1>4, <3>1, <3>2
      <3> QED
        BY <1>1, <3>3
    <2>3. CASE turn = 1
      BY <1>3, <2>3
    <2> QED
      BY <1>1, <2>1, <2>2, <2>3
  <1>6. StoreResult(props, Path, local.response).defs =
            StoreDefinition(First(m), KeyOf(turn))
    BY <1>1, <1>2 DEF StoreResult
  <1>7. CASE turn <= m
    BY <1>1, <1>3, <1>5, <1>6, <1>7, FirstStored
  <1>8. CASE turn = m + 1
    <2>1. m + 1 \in 0 .. Size
      BY <1>1, <1>3, <1>8
    <2> QED
      BY <1>1, <1>3, <1>5, <1>6, <1>8, <2>1, FirstStored
  <1> QED
    BY <1>1, <1>3, <1>5, <1>7, <1>8

\* Steps of create, read, update and the heal keep the invariant.
LEMMA ApplyFew ==
    ASSUME TypeOK, TypeOK', CoverInv, Few, UNCHANGED layout, FewParts, ApplyStep
    PROVE  FewParts'
  <1>1. /\ op # "delete" /\ op' # "delete"
        /\ stage \in {"creating", "created"} /\ stage' \in {"creating", "created"}
    BY ApplyStages
  <1>2. MakesInv'
    <2>1. turn \in DOMAIN layout /\ layout[turn].key = Key
      BY DEF TypeOK, InstanceTypeOK, Key
    <2> QED
      BY <1>1, <2>1, ApplyMakes DEF FewParts, MakesInv
  <1>3. AttemptInv' /\ CallInv'
    BY <1>1 DEF AttemptInv, CallInv, TypeOK, StepOK
  <1>4. InstalledInv'
    <2>1. /\ InstalledInv /\ Size' = Size /\ \A m : First(m)' = First(m)
      BY FileStays DEF FewParts
    <2>2. \E m \in 0 .. Size : props'.defs = First(m)
      BY <1>1, <2>1, ApplyKeeps, StoresInOrder DEF ApplyStep, InstalledInv
    <2>3. FromLayout(props.stored)
      BY <1>1, <2>1 DEF InstalledInv
    <2>4. FromLayout(props'.stored)
      BY <2>3, ApplyKeeps, StoreFromLayout DEF ApplyStep
    <2> QED
      BY <1>1, <2>1, <2>2, <2>4 DEF InstalledInv, FromLayout
  <1> QED
    BY <1>2, <1>3, <1>4 DEF FewParts

-----------------------------------------------------------------------------
(* The engine, and the rest of the world.                                  *)

\* A delete of an installed node finds all entries.
LEMMA InstalledBegins ==
    ASSUME TypeOK, CoverInv, Few, InstalledInv, op = "none", stage = "created"
    PROVE  BeginsWith(props)
  <1>0. /\ OneFile /\ NeverRedefined /\ Size \in {1, 2}
        /\ DOMAIN layout = 1 .. Size
        /\ PathOf(1) \in PathsOfLayout
        /\ Size = 1 => PathsOfLayout = {PathOf(1)}
        /\ Size = 2 => PathsOfLayout = {PathOf(1), PathOf(2)}
    BY FileType, FewDefinitions DEF Few, Answerable
  <1>1. \A i \in 1 .. Size : Covers(props, layout[i])
    BY <1>0 DEF CoverInv
  <1>2. /\ \A i \in 1 .. Size : PathOf(i) \in DOMAIN props.stored
        /\ \A i \in 1 .. Size : props.stored[PathOf(i)].key = KeyOf(i)
    BY <1>1 DEF Covers, PathOf, KeyOf
  <1>3. 1 \in 1 .. Size /\ Size \in 1 .. Size
    BY <1>0
  <1>4. DOMAIN props.stored = PathsOfLayout
    <2>1. DOMAIN props.stored \subseteq PathsOfLayout
      BY DEF InstalledInv, FromLayout, PathsOfLayout
    <2> QED
      BY <1>0, <1>2, <1>3, <2>1
  <1>5. props.defs = First(Size)
    <2>1. PICK m \in 0 .. Size : props.defs = First(m)
      BY DEF InstalledInv
    <2>2. Occurs(KeyOf(Size), First(m))
      BY <1>1, <1>3, <2>1 DEF Covers, KeyOf
    <2>3. Size <= m
      BY <1>0, <1>3, <2>2, FirstOccurs
    <2>4. m = Size
      BY <1>0, <2>3
    <2> QED
      BY <2>1, <2>4
  <1>6. CASE Size = 2
    <2>1. Whole(props)
      BY <1>0, <1>2, <1>3, <1>4, <1>5, <1>6 DEF Whole
    <2> QED
      BY <1>2, <1>3, <2>1 DEF BeginsWith
  <1>7. CASE Size = 1
    <2>1. props.defs = <<KeyOf(1)>>
      BY <1>5, <1>7, FirstShort
    <2>2. Single(props)
      BY <1>0, <1>2, <1>3, <1>4, <1>7, <2>1 DEF Single, Passable
    <2> QED
      BY <1>2, <1>3, <2>2 DEF BeginsWith
  <1> QED
    BY <1>0, <1>6, <1>7

\* Lists of at most one definition are short.
LEMMA ShortLists ==
    ASSUME TypeOK, NEW d, \/ d = <<>> \/ d = First(1) \/ \E k : d = <<k>>
    PROVE  Len(d) <= 1
  <1>1. Len(<<>>) <= 1 /\ \A k : Len(<<k>>) <= 1
    OBVIOUS
  <1> QED
    BY <1>1, FirstShort

\* In the calls of a delete the entries are gone.
LEMMA CallLoses ==
    ASSUME TypeOK, Few, CallInv, pc \in DeleteSteps
    PROVE  DOMAIN props.stored = {} /\ PathOf(1) \in Yaml /\ Short(props.defs)
  <1>1. DOMAIN props.stored = {} /\ PathOf(1) \in Yaml
    BY DEF CallInv
  <1>2. \/ props.defs = <<>> \/ props.defs = First(1) \/ \E k : props.defs = <<k>>
        \/ Size = 2 /\ props.defs = First(2)
    BY DEF CallInv, FirstTurnCalls, Alone, WithSecond, Nested, Returned,
           SecondTurnCall
  <1> QED
    BY <1>1, <1>2, ShortLists DEF Short

\* A delete can begin again wherever it was.
LEMMA DeleteBegins ==
    ASSUME TypeOK, Few, AttemptInv, CallInv, op = "delete"
    PROVE  BeginsWith(props)
  <1>1. CASE pc \in DeleteSteps
    BY <1>1, CallLoses DEF BeginsWith, Lost
  <1>2. CASE pc \notin DeleteSteps /\ turn = 1
    BY <1>2 DEF AttemptInv
  <1>3. CASE pc \notin DeleteSteps /\ turn # 1
    <2>1. Passed /\ Size = 2
      BY <1>3, FewDefinitions DEF AttemptInv
    <2> QED
      BY <2>1 DEF Passed, BeginsWith, Lost, Short
  <1> QED
    BY <1>1, <1>2, <1>3

\* An operation that starts, is tried again or resumes keeps the invariant.
LEMMA EngineFew ==
    ASSUME TypeOK, TypeOK', CoverInv, Few, UNCHANGED node, FewParts,
           Engine \/ CrashAndResume
    PROVE  FewParts'
  <1>1. /\ UNCHANGED <<objects, layout, props>> /\ turn' = 1
        /\ pc' \in {"check", "call"} /\ pc' \notin DeleteSteps
    BY DEF Engine, Retry, Start, CrashAndResume, Begin, cluster, node,
           FirstStep, DeleteSteps
  <1>2. /\ Made' = Made /\ Size' = Size /\ Size \in Nat
        /\ \A i : KeyOf(i)' = KeyOf(i) /\ Gone(i)' = Gone(i)
        /\ \A m : First(m)' = First(m)
    BY <1>1, FileStays, FileType DEF Made, Gone, KeyOf
  <1>3. CallInv'
    BY <1>1 DEF CallInv
  <1>4. op' = "delete" => BeginsWith(props)
    <2>1. CASE Retry \/ CrashAndResume
      BY <2>1, DeleteBegins DEF Retry, CrashAndResume, Begin, FewParts
    <2>2. ASSUME NEW o \in Ops, Start(o), op' = "delete" PROVE BeginsWith(props)
      BY <2>2, InstalledBegins DEF Start, MayStart, Begin, FewParts, MakesInv
    <2> QED
      BY <2>1, <2>2 DEF Engine
  <1>5. AttemptInv'
    <2>1. ASSUME op' = "delete" PROVE BeginsWith(props)'
      BY <1>1, <1>4, <2>1, BeginsStays, SameObjectsSteady
    <2> QED
      BY <1>1, <2>1 DEF AttemptInv
  <1>6. MakesInv' /\ InstalledInv'
    <2>1. CASE Retry \/ CrashAndResume
      <3>1. UNCHANGED <<stage, op>>
        BY <2>1 DEF Retry, CrashAndResume, Begin
      <3>2. MakesInv'
        BY <1>1, <1>2, <3>1 DEF FewParts, MakesInv
      <3>3. InstalledInv'
        BY <1>1, <1>2, <3>1 DEF FewParts, InstalledInv, FromLayout
      <3> QED
        BY <3>2, <3>3
    <2>2. ASSUME NEW o \in Ops, Start(o) PROVE MakesInv' /\ InstalledInv'
      <3>1. /\ op = "none" /\ op' = o
            /\ stage' \in {stage, "creating", "deleting"}
        BY <2>2 DEF Start, Begin
      <3>2. MakesInv'
        BY <1>1, <1>2, <3>1 DEF FewParts, MakesInv
      <3>3. InstalledInv'
        BY <1>1, <1>2, <3>1 DEF FewParts, InstalledInv, FromLayout
      <3> QED
        BY <3>2, <3>3
    <2> QED
      BY <2>1, <2>2 DEF Engine
  <1> QED
    BY <1>3, <1>5, <1>6 DEF FewParts

\* A call for a definition with its own mapping asks for its object.
LEMMA CallAsks ==
    ASSUME TypeOK, pc \in DeleteSteps
    PROVE  /\ frames \in Seq(Calls) /\ Len(frames) \in Nat \ {0}
           /\ DOMAIN frames = 1 .. Len(frames) /\ Frame = frames[1]
           /\ Frame \in Calls /\ Frame.key \in Keys /\ Frame.adjacent \in Entries
           /\ Frame.kind = Frame.key.kind => Target = Frame.key
  <1>1. /\ frames \in Seq(Calls) /\ frames # <<>> /\ Frame \in Calls
    BY FramesType DEF TypeOK, StepOK
  <1>2. Frame.key \in Keys /\ Frame.adjacent \in Entries
    BY <1>1 DEF Calls, FrameType
  <1>3. Frame.kind = Frame.key.kind => Target = Frame.key
    BY <1>2 DEF Target, Keys
  <1> QED
    BY <1>1, <1>2, <1>3 DEF Frame

\* A call that does not find its object gone stays what it was, wherever it goes,
\* and when an object goes away.
LEMMA CallsStay ==
    ASSUME TypeOK, Few, CallInv, pc \in DeleteSteps, UNCHANGED layout, Steady,
           UNCHANGED <<frames, turn, props>>,
           \/ pc' = pc
           \/ /\ pc # "adjacent" /\ pc' # "adjacent"
              /\ ~(pc = "read" /\ For(Frame, 1) /\ Gone(1))
    PROVE  CallInv'
  <1>1. /\ Size' = Size /\ \A i : PathOf(i)' = PathOf(i) /\ KeyOf(i)' = KeyOf(i)
        /\ \A m : First(m)' = First(m)
        /\ Gone(1) => Gone(1)'
        /\ Size = 2 => (Gone(2) => Gone(2)')
        /\ Frame = frames[1]
    BY FileStays, FewSteady, CallAsks
  <1>2. DOMAIN props'.stored = {} /\ PathOf(1)' \in Yaml
    BY <1>1 DEF CallInv
  <1>3. CASE turn = 1
    <2>0. FirstTurnCalls(frames, props.defs, pc)
      BY <1>3 DEF CallInv
    <2>1. Alone(frames[1], props.defs, pc) => Alone(frames[1], props.defs, pc)'
      BY <1>1 DEF Alone, Passable
    <2>2. WithSecond(frames[1], props.defs, pc) =>
              WithSecond(frames[1], props.defs, pc)'
      BY <1>1 DEF WithSecond, For, OnlySecond
    <2>3. Returned(frames[1], props.defs, pc) =>
              Returned(frames[1], props.defs, pc)'
      BY <1>1 DEF Returned, OnlySecond
    <2>4. Nested(frames[1], frames[2], props.defs, pc) =>
              Nested(frames[1], frames[2], props.defs, pc)'
      BY <1>1 DEF Nested, For, OnlySecond
    <2> QED
      BY <1>2, <1>3, <2>0, <2>1, <2>2, <2>3, <2>4 DEF CallInv, FirstTurnCalls
  <1>4. CASE turn # 1
    <2>1. Len(frames) = 1 /\ SecondTurnCall(frames[1], props.defs, pc) /\ Size = 2
      BY <1>4, FewDefinitions DEF CallInv
    <2>2. SecondTurnCall(frames[1], props.defs, pc)'
      BY <1>1, <2>1 DEF SecondTurnCall, For
    <2> QED
      BY <1>2, <1>4, <2>1, <2>2 DEF CallInv
  <1> QED
    BY <1>3, <1>4

\* Steps of the cluster keep the invariant.
LEMMA WorldFew ==
    ASSUME TypeOK, Few, FewParts, UNCHANGED node, World \/ UNCHANGED vars,
           ~(\E k \in Keys : OtherClient(k))
    PROVE  FewParts'
  <1>1. Made' \subseteq Made
    BY WorldLoses DEF Loses
  <1>2. UNCHANGED <<layout, stage, op, pc, turn, props, frames>>
    BY DEF World, Controller, Unprotect, OtherClient, Redefine, vars, node
  <1>3. UNCHANGED objects \/ \E k \in Keys : Controller(k)
    BY DEF World, Unprotect, Redefine, vars, cluster
  <1>4. Steady
    BY <1>2, <1>3, ControllerSteady
  <1>5. /\ Size' = Size /\ \A m : First(m)' = First(m)
        /\ PathOf(1)' = PathOf(1)
    BY <1>2, FileStays
  <1>6. MakesInv'
    BY <1>1, <1>2 DEF FewParts, MakesInv
  <1>7. InstalledInv'
    BY <1>2, <1>4, <1>5 DEF FewParts, InstalledInv, FromLayout, Steady
  <1>8. AttemptInv'
    <2>1. CASE op = "delete" /\ pc \notin DeleteSteps /\ turn = 1
      <3>1. BeginsWith(props)
        BY <2>1 DEF FewParts, AttemptInv
      <3>2. BeginsWith(props)'
        BY <1>2, <1>4, <3>1, BeginsStays
      <3> QED
        BY <1>2, <2>1, <3>2 DEF AttemptInv
    <2>2. CASE op = "delete" /\ pc \notin DeleteSteps /\ turn # 1
      <3>1. Passed /\ Size = 2
        BY <2>2, FewDefinitions DEF FewParts, AttemptInv
      <3>2. Passed'
        BY <1>2, <1>4, <1>5, <3>1, FewSteady DEF Passed
      <3> QED
        BY <1>2, <2>2, <3>2 DEF AttemptInv
    <2> QED
      BY <1>2, <2>1, <2>2 DEF AttemptInv
  <1>9. CallInv'
    <2>1. CASE pc \in DeleteSteps
      BY <1>2, <1>4, <2>1, CallsStay DEF FewParts
    <2>2. CASE pc \notin DeleteSteps
      BY <1>2, <2>2 DEF CallInv
    <2> QED
      BY <2>1, <2>2
  <1> QED
    BY <1>6, <1>7, <1>8, <1>9 DEF FewParts

-----------------------------------------------------------------------------
(* The steps of a delete.                                                  *)

\* What every step of a delete can rely on.
FewDelete ==
    /\ TypeOK /\ Few /\ FewParts /\ op = "delete"
    /\ UNCHANGED node /\ Made' \subseteq Made

\* A step of a delete brings no object back.
LEMMA DeleteSteady ==
    ASSUME TypeOK, UNCHANGED layout, DeleteStep PROVE Steady
  <1>1. CASE DeleteCall \/ PatchClaim
    <2>1. Target \in Keys /\ objects \in [Keys -> Objects]
      BY <1>1, FramesType
      DEF DeleteCall, PatchClaim, TypeOK, WorldTypeOK, StepOK, DeleteSteps
    <2>2. \/ UNCHANGED objects
          \/ \E o \in Deleted(objects[Target]) \cup {Patched(objects[Target])} :
                 objects' = [objects EXCEPT ![Target] = o]
      BY <1>1
      DEF DeleteCall, PatchClaim, Write, Becomes, DeletedHere, cluster
    <2>3. ASSUME NEW o \in Deleted(objects[Target]) \cup {Patched(objects[Target])},
                 ~Exists(objects[Target])
          PROVE  ~Exists(o)
      BY <2>3 DEF Deleted, Patched
    <2>4. ASSUME NEW i \in 1 .. Size, Gone(i), NEW o,
                 objects' = [objects EXCEPT ![Target] = o],
                 ~Exists(objects[Target]) => ~Exists(o)
          PROVE  Gone(i)'
      <3>1. KeyOf(i)' = KeyOf(i) /\ KeyOf(i) \in Keys
        BY FileStays, FileType
      <3>2. /\ KeyOf(i) # Target => objects'[KeyOf(i)] = objects[KeyOf(i)]
            /\ KeyOf(i) = Target => objects'[KeyOf(i)] = o
        BY <2>1, <2>4, <3>1
      <3> QED
        BY <2>4, <3>1, <3>2 DEF Gone
    <2> QED
      BY <2>2, <2>3, <2>4, SameObjectsSteady DEF Steady
  <1> QED
    BY <1>1, DeleteLoses, SameObjectsSteady

\* A failed attempt keeps the invariant if another can begin with what it leaves.
LEMMA RecoverableFew ==
    ASSUME FewDelete, NEW ps, Recoverable(ps), BeginsWith(ps)' PROVE FewParts'
  <1>1. /\ UNCHANGED <<layout, stage, op>> /\ Made' \subseteq Made
        /\ props' = ps /\ turn' = 1 /\ pc' \notin DeleteSteps
    BY DEF FewDelete, Recoverable, node, DeleteSteps
  <1>2. MakesInv'
    BY <1>1 DEF FewDelete, FewParts, MakesInv
  <1>3. InstalledInv' /\ CallInv'
    BY <1>1 DEF FewDelete, InstalledInv, CallInv
  <1>4. AttemptInv'
    BY <1>1 DEF AttemptInv
  <1> QED
    BY <1>2, <1>3, <1>4 DEF FewParts

\* A call may fail at any time.
LEMMA FailFew ==
    ASSUME FewDelete, DeleteStep, Recoverable(props) PROVE FewParts'
  <1>1. /\ TypeOK /\ Few /\ UNCHANGED layout /\ BeginsWith(props) /\ props' = props
    BY DeleteBegins DEF FewDelete, FewParts, node, Recoverable
  <1>2. BeginsWith(props)'
    BY <1>1, BeginsStays, DeleteSteady
  <1> QED
    BY <1>1, <1>2, RecoverableFew

\* A call goes on with its next step, if the object it reads is there.
LEMMA GotoFew ==
    ASSUME FewDelete, DeleteStep, pc \in DeleteSteps, pc # "adjacent",
           NEW step \in {"exists", "delete", "patch", "putback"},
           NEW l, Goto(step, l), pc = "read" => Exists(objects[Target])
    PROVE  FewParts'
  <1>1. /\ TypeOK /\ Few /\ FewParts /\ op = "delete" /\ Made' \subseteq Made
        /\ UNCHANGED <<layout, stage, op, turn, props, frames>>
        /\ pc' = step /\ pc' \in DeleteSteps
    BY DEF FewDelete, node, Goto, DeleteSteps
  <1>2. MakesInv' /\ InstalledInv' /\ AttemptInv'
    BY <1>1 DEF FewParts, MakesInv, InstalledInv, AttemptInv
  <1>3. pc = "read" => ~(For(Frame, 1) /\ Gone(1))
    BY <1>1, CallAsks DEF For, Gone
  <1>4. CallInv'
    BY <1>1, <1>3, CallsStay, DeleteSteady DEF FewParts
  <1> QED
    BY <1>2, <1>4 DEF FewParts

\* The check of the live object, which decides what is cleaned up in the end.
LEMMA DeleteCheckFew ==
    ASSUME FewDelete, DeleteCheck PROVE FewParts'
  <1>0. /\ TypeOK /\ Few /\ FewParts /\ op = "delete" /\ Made' \subseteq Made
        /\ UNCHANGED <<layout, objects, stage, op, turn, props>>
        /\ pc \notin DeleteSteps /\ pc' \notin DeleteSteps
    BY DEF FewDelete, node, cluster, DeleteCheck, Goto, DeleteSteps
  <1>1. MakesInv' /\ InstalledInv' /\ CallInv'
    BY <1>0 DEF FewParts, MakesInv, InstalledInv, CallInv
  <1>2. CASE turn = 1
    <2>1. BeginsWith(props)
      BY <1>0, <1>2 DEF FewParts, AttemptInv
    <2>2. BeginsWith(props)'
      BY <1>0, <2>1, BeginsStays, SameObjectsSteady
    <2> QED
      BY <1>0, <1>1, <1>2, <2>2 DEF FewParts, AttemptInv
  <1>3. CASE turn # 1
    <2>1. Passed
      BY <1>0, <1>3 DEF FewParts, AttemptInv
    <2>2. Passed'
      BY <1>0, <2>1 DEF Passed, Gone, KeyOf, PathOf, First
    <2> QED
      BY <1>0, <1>1, <1>3, <2>2 DEF FewParts, AttemptInv
  <1> QED
    BY <1>2, <1>3

-----------------------------------------------------------------------------
(* Looking for the definition to delete.                                   *)

\* Without entries, the last but one of the stored definitions takes the place of
\* the one under way.
CallsByList(f, callers, k, m) ==
    /\ frames' = <<f>> \o callers /\ pc' = "read"
    /\ DOMAIN props'.stored = {} /\ props'.defs = <<>> /\ DOMAIN f.adjacent = {}
    /\ UNCHANGED <<objects, stage, op, turn>>
    /\ Len(props.defs) <= 1 => f.key = k /\ f.kind = m
    /\ Size = 2 /\ props.defs = First(2) => For(f, 1)

\* Which call retrieve_stored_resource leads to when no entries are left: the
\* list of stored definitions decides.
LEMMA ResolveList ==
    ASSUME TypeOK, Few, DOMAIN props.stored = {}, Short(props.defs), NEW callers,
           NEW k, NEW m, k = KeyOf(1) => m = k.kind, Resolve(callers, k, m)
    PROVE  \E f : CallsByList(f, callers, k, m)
  <1> DEFINE left == DefsAfterLookup
  <1>0. props \in PropsType /\ props.defs \in Seq(Keys)
    BY DEF TypeOK, InstanceTypeOK, PropsType
  <1>1. Candidates = {} /\ left = Popped(props.defs)
    BY DEF Candidates, DefsAfterLookup
  <1>2. ResolveByDefinition(callers, k, m)
    BY <1>1 DEF Resolve
  <1>3. PICK f \in StoredOrProvided(left, k, m) :
            /\ frames' = <<f>> \o callers /\ pc' = "read"
            /\ props'.stored = props.stored
            /\ props'.defs = RemoveDefinition(Popped(left), f.key)
            /\ UNCHANGED <<objects, stage, op, turn>>
    BY <1>0, <1>2 DEF ResolveByDefinition, Enter, PropsType, cluster
  <1>4. \/ f = Calling(k, m) /\ (left # <<>> => left[Len(left)] = k)
        \/ left # <<>> /\ f = Calling(left[Len(left)], left[Len(left)].kind)
    BY <1>3 DEF StoredOrProvided, Few
  <1> HIDE DEF left
  <1>5. RemoveDefinition(Popped(<<>>), f.key) = <<>>
    BY DEF Popped, RemoveDefinition, Occurs
  <1>6. CASE Len(props.defs) <= 1
    <2>1. left = <<>>
      BY <1>0, <1>1, <1>6 DEF Popped
    <2>2. ASSUME Size = 2, props.defs = First(2) PROVE FALSE
      BY <1>6, <2>2, FirstType
    <2>3. f = Calling(k, m)
      BY <1>4, <2>1
    <2>4. f.key = k /\ f.kind = m /\ DOMAIN f.adjacent = {}
      BY <2>3 DEF Calling, NoEntries
    <2>5. props'.defs = <<>>
      BY <1>3, <1>5, <2>1
    <2> QED
      BY <1>3, <2>2, <2>4, <2>5 DEF CallsByList
  <1>7. CASE Size = 2 /\ props.defs = First(2)
    <2>1. 2 \in 1 .. Size /\ 1 \in 1 .. Size /\ 2 - 1 = 1 /\ 1 - 1 = 0
      BY <1>7
    <2>2. left = First(1) /\ left # <<>> /\ left[Len(left)] = KeyOf(1)
      BY <1>1, <1>7, <2>1, FirstPopped
    <2>3. Popped(left) = <<>>
      BY <2>1, <2>2, FirstPopped, FirstShort
    <2>4. For(f, 1) /\ DOMAIN f.adjacent = {}
      BY <1>4, <2>2 DEF Calling, NoEntries, For
    <2>5. props'.defs = <<>>
      BY <1>3, <1>5, <2>3 DEF Popped
    <2>6. ~(Len(props.defs) <= 1)
      BY <1>7, FirstType
    <2> QED
      BY <1>3, <2>4, <2>5, <2>6 DEF CallsByList
  <1> QED
    BY <1>6, <1>7 DEF Short

\* With entries, one of them is found: the one at the path, or else one that
\* matches the last stored definition if there is one.
LEMMA CandidatesAre ==
    ASSUME NEW q \in Candidates
    PROVE  /\ q \in DOMAIN props.stored
           /\ Path \in DOMAIN props.stored => q = Path
           /\ Path \notin DOMAIN props.stored =>
                 \A r \in DOMAIN props.stored :
                    props.stored[r].key = props.defs[Len(props.defs)] =>
                       props.stored[q].key = props.defs[Len(props.defs)]
  BY DEF Candidates

\* An attempt begins with entries for different objects.
LEMMA BeginsFit ==
    ASSUME TypeOK, Few, BeginsWith(props) PROVE Fit(props.stored)
  BY FewDefinitions
  DEF BeginsWith, Lost, Single, Second, Whole, Rest, OnlySecond, Fit

\* The call is for the definition of the entry, with all other entries.
CallsByEntry(f, q) ==
    /\ frames' = <<f>> /\ pc' = "read"
    /\ UNCHANGED <<stage, op, turn>>
    /\ DOMAIN props'.stored = {} /\ props'.defs = DefsAfterLookup
    /\ PathOf(1) \in Yaml
    /\ f.key = props.stored[q].key /\ f.kind = f.key.kind
    /\ DOMAIN f.adjacent = DOMAIN props.stored \ {q}
    /\ \A p \in DOMAIN f.adjacent : f.adjacent[p] = props.stored[p]

\* Which call the first turn begins with when it finds an entry.
LEMMA ResolveEntry ==
    ASSUME TypeOK, Few, BeginsWith(props), turn = 1,
           NEW q \in Candidates, ResolveByEntry(<<>>, q)
    PROVE  /\ UNCHANGED objects
           /\ Recoverable(props) \/ \E f : CallsByEntry(f, q)
  <1>0. /\ props \in PropsType /\ OneFile /\ Path = PathOf(1)
        /\ q \in DOMAIN props.stored
        /\ Path \in DOMAIN props.stored => q = Path
        /\ PathOf(1) \notin Yaml => PathOf(1) \in DOMAIN props.stored
    BY FewDefinitions, CandidatesAre DEF TypeOK, InstanceTypeOK, BeginsWith
  <1>1. Fit(props.stored)
    BY BeginsFit
  <1>2. AdjacentTo(q) = DOMAIN props.stored \ {q}
    BY <1>0, <1>1, AdjacentAreTheOthers
  <1>3. q \in Yaml <=> PathOf(1) \in Yaml
    <2>1. PICK i \in DOMAIN layout : layout[i].path = q
      BY <1>0, <1>1 DEF Fit, PathsOfLayout
    <2>2. 1 \in DOMAIN layout
      BY PathType
    <2> QED
      BY <1>0, <2>1, <2>2 DEF OneFile, PathOf
  <1>4. CASE q \notin Yaml
    <2> DEFINE ps == [props EXCEPT !.defs = DefsAfterLookup]
    <2>1. Recoverable(ps) /\ UNCHANGED objects
      BY <1>4 DEF ResolveByEntry, cluster
    <2>2. ps = props
      BY <1>0, <1>3, <1>4 DEF DefsAfterLookup, PropsType
    <2> QED
      BY <2>1, <2>2
  <1>5. CASE q \in Yaml
    <2> DEFINE adj == Restrict(props.stored, AdjacentTo(q))
               f == [Calling(props.stored[q].key, props.stored[q].key.kind)
                        EXCEPT !.adjacent = adj]
    <2>1. /\ DOMAIN adj = DOMAIN props.stored \ {q}
          /\ \A p \in DOMAIN adj : adj[p] = props.stored[p]
      BY <1>2 DEF Restrict
    <2>2. f.key = props.stored[q].key /\ f.kind = f.key.kind /\ f.adjacent = adj
      BY DEF Calling
    <2>3. /\ frames' = <<f>> \o <<>> /\ pc' = "read"
          /\ UNCHANGED <<objects, stage, op, turn>>
          /\ props'.stored = Restrict(props.stored,
                                 DOMAIN props.stored \ ({q} \cup AdjacentTo(q)))
          /\ props'.defs = DefsAfterLookup
      BY <1>5 DEF ResolveByEntry, Enter, cluster
    <2> HIDE DEF f, adj
    <2>4. frames' = <<f>> /\ DOMAIN props'.stored = {}
      BY <1>2, <2>3 DEF Restrict
    <2> QED
      BY <1>3, <1>5, <2>1, <2>2, <2>3, <2>4 DEF CallsByEntry
  <1> QED
    BY <1>4, <1>5

\* The first call of a turn, with what it took out.
LEMMA FirstCallFew ==
    ASSUME FewDelete, NEW f, frames' = <<f>>, pc' = "read",
           UNCHANGED <<objects, stage, op, turn>>, DOMAIN props'.stored = {},
           PathOf(1) \in Yaml,
           turn = 1 => \/ Alone(f, props'.defs, "read")
                       \/ WithSecond(f, props'.defs, "read"),
           turn # 1 => SecondTurnCall(f, props'.defs, "read")
    PROVE  FewParts'
  <1>0. /\ UNCHANGED <<layout, objects, stage, op, turn>> /\ Made' \subseteq Made
        /\ op = "delete" /\ pc' \in DeleteSteps /\ frames'[1] = f /\ Len(frames') = 1
    BY DEF FewDelete, node, DeleteSteps
  <1>1. /\ Size' = Size
        /\ \A i : PathOf(i)' = PathOf(i) /\ KeyOf(i)' = KeyOf(i)
        /\ \A i : Gone(i)' = Gone(i)
        /\ \A m : First(m)' = First(m)
    BY <1>0, FileStays DEF Gone, KeyOf
  <1>2. MakesInv' /\ InstalledInv' /\ AttemptInv'
    BY <1>0 DEF FewDelete, FewParts, MakesInv, InstalledInv, AttemptInv
  <1>3. CASE turn = 1 /\ Alone(f, props'.defs, "read")
    <2>1. Alone(frames[1], props.defs, pc)'
      BY <1>0, <1>1, <1>3 DEF Alone, Passable
    <2> QED
      BY <1>0, <1>1, <1>2, <1>3, <2>1 DEF FewParts, CallInv, FirstTurnCalls
  <1>4. CASE turn = 1 /\ WithSecond(f, props'.defs, "read")
    <2>1. WithSecond(frames[1], props.defs, pc)'
      BY <1>0, <1>1, <1>4 DEF WithSecond, For, OnlySecond
    <2> QED
      BY <1>0, <1>1, <1>2, <1>4, <2>1 DEF FewParts, CallInv, FirstTurnCalls
  <1>5. CASE turn # 1
    <2>1. SecondTurnCall(frames[1], props.defs, pc)'
      BY <1>0, <1>1, <1>5 DEF SecondTurnCall, For
    <2> QED
      BY <1>0, <1>1, <1>2, <1>5, <2>1 DEF FewParts, CallInv
  <1> QED
    BY <1>3, <1>4, <1>5

\* A call that waits for none is the only one.
LEMMA NoCallers ==
    ASSUME NEW f PROVE <<f>> \o <<>> = <<f>>
  <1>1. <<f>> \in Seq({f})
    OBVIOUS
  <1> QED
    BY <1>1, ConcatEmptySeq

\* Without entries, in either turn.
LEMMA ResolveLostFew ==
    ASSUME FewDelete, ResolveProvided, DOMAIN props.stored = {} PROVE FewParts'
  <1>0. /\ TypeOK /\ Few /\ Key = KeyOf(turn) /\ turn \in {1, 2}
        /\ Resolve(<<>>, Key, Key.kind)
        /\ turn = 1 => BeginsWith(props)
        /\ turn # 1 => Passed /\ Size = 2
        /\ turn = 2 => Size = 2
    BY FewDefinitions
    DEF FewDelete, FewParts, AttemptInv, ResolveProvided, DeleteSteps
  <1>1. PathOf(1) \in Yaml /\ Short(props.defs)
    <2>1. ASSUME turn = 1 PROVE PathOf(1) \in Yaml /\ Short(props.defs)
      <3>1. Lost(props)
        BY <1>0, <2>1 DEF BeginsWith, Single, Second, Whole, Rest, OnlySecond
      <3> QED
        BY <1>0, <2>1, <3>1 DEF BeginsWith, Lost
    <2> QED
      BY <1>0, <2>1 DEF Passed, Short
  <1>2. PICK f : CallsByList(f, <<>>, Key, Key.kind)
    BY <1>0, <1>1, ResolveList
  <1>3. /\ frames' = <<f>> /\ pc' = "read" /\ DOMAIN props'.stored = {}
        /\ UNCHANGED <<objects, stage, op, turn>>
    BY <1>2, NoCallers DEF CallsByList
  <1>4. turn = 1 => Alone(f, props'.defs, "read")
    BY <1>0, <1>1, <1>2 DEF Short, CallsByList, Alone, Passable, For
  <1>5. turn # 1 => SecondTurnCall(f, props'.defs, "read")
    BY <1>0, <1>2 DEF Passed, CallsByList, SecondTurnCall, For
  <1> QED
    BY <1>1, <1>3, <1>4, <1>5, FirstCallFew

\* With entries, of which one is found.
LEMMA ResolveStoredFew ==
    ASSUME FewDelete, ResolveProvided, turn = 1, DOMAIN props.stored # {}
    PROVE  FewParts'
  <1>0. /\ TypeOK /\ Few /\ Path = PathOf(1) /\ Resolve(<<>>, Key, Key.kind)
        /\ BeginsWith(props)
        /\ Size = 2 => PathOf(1) # PathOf(2) /\ KeyOf(1) # KeyOf(2)
    BY FewDefinitions
    DEF FewDelete, FewParts, AttemptInv, ResolveProvided, DeleteSteps
  <1>1. Size = 2 => First(2) # <<>> /\ Popped(First(2)) = First(1)
    <2>1. ASSUME Size = 2 PROVE 2 \in 1 .. Size /\ 2 - 1 = 1
      BY <2>1
    <2> QED
      BY <1>0, <2>1, FirstPopped
  <1>2. Candidates # {}
    <2>1. PathOf(1) \in DOMAIN props.stored \/ props.defs # <<>>
      BY <1>0, <1>1 DEF BeginsWith, Lost, Single, Second, Whole, Rest
    <2> QED
      BY <1>0, <2>1 DEF Candidates
  <1>3. PICK q \in Candidates : ResolveByEntry(<<>>, q)
    BY <1>0, <1>2 DEF Resolve
  <1>4. /\ q \in DOMAIN props.stored
        /\ PathOf(1) \in DOMAIN props.stored => q = PathOf(1)
    BY <1>0, CandidatesAre
  <1>5. CASE Recoverable(props)
    BY <1>5, FailFew DEF DeleteStep
  <1>6. ASSUME NEW f, CallsByEntry(f, q), UNCHANGED objects PROVE FewParts'
    <2>0. /\ frames' = <<f>> /\ pc' = "read"
          /\ UNCHANGED <<objects, stage, op, turn>>
          /\ DOMAIN props'.stored = {} /\ PathOf(1) \in Yaml
          /\ f.key = props.stored[q].key /\ f.kind = f.key.kind
          /\ DOMAIN f.adjacent = DOMAIN props.stored \ {q}
          /\ \A p \in DOMAIN f.adjacent : f.adjacent[p] = props.stored[p]
      BY <1>6 DEF CallsByEntry
    <2>1. /\ PathOf(1) \in DOMAIN props.stored => props'.defs = props.defs
          /\ PathOf(1) \notin DOMAIN props.stored => props'.defs = Popped(props.defs)
      BY <1>0, <1>6 DEF CallsByEntry, DefsAfterLookup
    <2>2. CASE Single(props)
      <3>1. DOMAIN f.adjacent = {} /\ Passable(f.key) /\ props.defs = <<f.key>>
        BY <1>4, <2>0, <2>2 DEF Single
      <3>2. Popped(<<f.key>>) = <<>>
        BY DEF Popped
      <3>3. Alone(f, props'.defs, "read")
        BY <2>0, <2>1, <3>1, <3>2 DEF Alone
      <3> QED
        BY <2>0, <3>3, FirstCallFew
    <2>3. CASE Second(props)
      <3>1. Alone(f, props'.defs, "read")
        BY <1>4, <2>0, <2>1, <2>3 DEF Second, Alone
      <3> QED
        BY <2>0, <3>1, FirstCallFew
    <2>4. CASE Whole(props)
      <3>1. WithSecond(f, props'.defs, "read")
        BY <1>0, <1>4, <2>0, <2>1, <2>4 DEF Whole, WithSecond, OnlySecond, For
      <3> QED
        BY <2>0, <3>1, FirstCallFew
    <2>5. CASE Rest(props)
      <3>1. Alone(f, props'.defs, "read")
        BY <1>0, <1>1, <1>4, <2>0, <2>1, <2>5 DEF Rest, OnlySecond, Alone
      <3> QED
        BY <2>0, <3>1, FirstCallFew
    <2> QED
      BY <1>0, <2>2, <2>3, <2>4, <2>5 DEF BeginsWith, Lost
  <1> QED
    BY <1>0, <1>3, <1>5, <1>6, ResolveEntry

\* Both, of which the second turn finds only the first.
LEMMA ResolveFew ==
    ASSUME FewDelete, ResolveProvided PROVE FewParts'
  <1>1. turn # 1 => DOMAIN props.stored = {}
    BY DEF FewDelete, FewParts, AttemptInv, ResolveProvided, DeleteSteps, Passed
  <1> QED
    BY <1>1, ResolveLostFew, ResolveStoredFew

-----------------------------------------------------------------------------
(* The end of a turn, and the calls for adjacent entries.                  *)

\* Without a path there are no entries.
LEMMA EmptyEntries ==
    ASSUME NEW e \in Entries, DOMAIN e = {} PROVE e = NoEntries
  <1>1. e \in [1 .. 0 -> Entry]
    BY DEF Entries
  <1> QED
    BY <1>1 DEF NoEntries

\* What is known when the object that a first call asks for is gone.
LEMMA PassedObjects ==
    ASSUME TypeOK, Few, CallInv, pc = "read", Len(frames) = 1,
           DOMAIN frames[1].adjacent = {}, ~Exists(objects[Target])
    PROVE  /\ turn = 1 => \/ Len(props.defs) <= 1 /\ Gone(1)
                          \/ Size = 2 /\ props.defs = First(2) /\ Gone(2)
           /\ turn = 1 /\ Size = 1 =>
                 Gone(1) /\ \E m \in 0 .. Size : props.defs = First(m)
           /\ turn # 1 => props.defs = <<>> /\ Gone(1) /\ Gone(2)
  <1>0. /\ pc \in DeleteSteps /\ Size \in {1, 2} /\ turn \in {1, 2}
        /\ Frame = frames[1]
        /\ Frame.kind = Frame.key.kind => Target = Frame.key
        /\ First(0) = <<>> /\ First(1) = <<KeyOf(1)>>
    BY FewDefinitions, CallAsks, FirstShort DEF DeleteSteps
  <1>1. ASSUME turn = 1
        PROVE  /\ \/ Len(props.defs) <= 1 /\ Gone(1)
                  \/ Size = 2 /\ props.defs = First(2) /\ Gone(2)
               /\ Size = 1 =>
                     Gone(1) /\ \E m \in 0 .. Size : props.defs = First(m)
    <2>1. Alone(frames[1], props.defs, pc)
      BY <1>0, <1>1 DEF CallInv, FirstTurnCalls, WithSecond, OnlySecond, Returned
    <2>2. ~Exists(objects[Frame.key])
      BY <1>0, <2>1 DEF Alone
    <2>3. \/ /\ Gone(1) /\ props.defs \in {<<>>, <<Frame.key>>, First(1)}
             /\ Size = 2 \/ Frame.key = KeyOf(1)
          \/ Size = 2 /\ props.defs = First(2) /\ Gone(2)
      BY <1>0, <2>1, <2>2 DEF Alone, Passable, Gone
    <2>4. props.defs \in {<<>>, <<Frame.key>>, First(1)} => Len(props.defs) <= 1
      BY ShortLists
    <2>5. 0 \in 0 .. Size /\ 1 \in 0 .. Size
      BY <1>0
    <2> QED
      BY <1>0, <2>3, <2>4, <2>5
  <1>2. ASSUME turn # 1 PROVE props.defs = <<>> /\ Gone(1) /\ Gone(2)
    <2>1. SecondTurnCall(frames[1], props.defs, pc)
      BY <1>0, <1>2 DEF CallInv
    <2> QED
      BY <1>0, <2>1 DEF SecondTurnCall, For, Gone
  <1> QED
    BY <1>1, <1>2

\* The second turn begins with that, and the last one leaves no object.
LEMMA PassFew ==
    ASSUME FewDelete, pc = "read", Len(frames) = 1,
           DOMAIN frames[1].adjacent = {}, ~Exists(objects[Target]),
           UNCHANGED objects, NEW p, Proceed(p), DOMAIN p.stored = {},
           p.defs = props.defs
    PROVE  FewParts'
  <1>0. /\ TypeOK /\ Few /\ FewParts /\ UNCHANGED <<layout, objects>>
        /\ op = "delete" /\ Made' \subseteq Made /\ props' = p
        /\ pc \in DeleteSteps /\ Size \in {1, 2} /\ turn \in 1 .. Size
        /\ turn \in {1, 2} /\ Size = Len(layout) /\ First(0) = <<>>
    BY FewDefinitions, FirstShort DEF FewDelete, node, Proceed, End, Size, DeleteSteps
  <1>1. /\ turn = 1 => \/ Len(props.defs) <= 1 /\ Gone(1)
                       \/ Size = 2 /\ props.defs = First(2) /\ Gone(2)
        /\ turn = 1 /\ Size = 1 =>
              Gone(1) /\ \E m \in 0 .. Size : props.defs = First(m)
        /\ turn # 1 => props.defs = <<>> /\ Gone(1) /\ Gone(2)
    BY <1>0, PassedObjects DEF FewParts
  <1>2. /\ Size' = Size /\ PathOf(1)' = PathOf(1)
        /\ \A i : KeyOf(i)' = KeyOf(i) /\ Gone(i)' = Gone(i)
        /\ \A m : First(m)' = First(m)
    BY <1>0, FileStays DEF Gone, KeyOf
  <1>3. CASE turn < Size
    <2>1. /\ turn' = turn + 1 /\ pc' \notin DeleteSteps
          /\ UNCHANGED <<stage, op>>
      BY <1>0, <1>3 DEF Proceed, FirstStep, DeleteSteps
    <2>2. MakesInv' /\ InstalledInv' /\ CallInv'
      BY <1>0, <2>1 DEF FewParts, MakesInv, InstalledInv, CallInv
    <2>3. PathOf(1) \in Yaml
      BY <1>0 DEF FewParts, CallInv
    <2>4. turn = 1 /\ turn' # 1
      <3> DEFINE n == Size
      <3>1. n \in {1, 2} /\ turn \in {1, 2} /\ turn < n /\ turn' = turn + 1
        BY <1>0, <1>3, <2>1
      <3> HIDE DEF n
      <3> QED
        BY <3>1
    <2>5. Passed'
      BY <1>0, <1>1, <1>2, <2>3, <2>4 DEF Passed
    <2> QED
      BY <2>2, <2>4, <2>5 DEF FewParts, AttemptInv
  <1>4. CASE ~(turn < Size)
    <2>1. op' = "none" /\ pc' = "idle" /\ stage' = "deleted"
      BY <1>0, <1>4 DEF Proceed, End, StageAfter
    <2>2. turn = Size
      BY <1>0, <1>4
    <2>3. Gone(1) /\ (Size = 2 => Gone(2))
      BY <1>0, <1>1, <2>2
    <2>4. \A i \in 1 .. Size : Gone(i)
      <3>1. \A i \in 1 .. Size : i = 1 \/ (i = 2 /\ Size = 2)
        BY <1>0
      <3> QED
        BY <2>3, <3>1
    <2>5. \E m \in 0 .. Size : props.defs = First(m)
      BY <1>0, <1>1, <2>2
    <2>6. FromLayout(props.stored)'
      BY <1>0 DEF FromLayout
    <2>7. InstalledInv'
      BY <1>0, <1>2, <2>1, <2>4, <2>5, <2>6 DEF InstalledInv
    <2>8. MakesInv'
      BY <1>0, <2>1 DEF FewParts, MakesInv
    <2> QED
      BY <2>1, <2>7, <2>8 DEF FewParts, AttemptInv, CallInv, DeleteSteps
  <1> QED
    BY <1>3, <1>4

\* A call that finds its object gone returns to the one that made it, or passes
\* the turn.
LEMMA ReturnFew ==
    ASSUME FewDelete, pc = "read", DOMAIN Frame.adjacent = {},
           ~Exists(objects[Target]), UNCHANGED objects, Return
    PROVE  FewParts'
  <1>0. /\ TypeOK /\ Few /\ FewParts /\ pc \in DeleteSteps
        /\ UNCHANGED <<layout, objects>> /\ Made' \subseteq Made /\ op = "delete"
        /\ frames \in Seq(Calls) /\ Len(frames) \in Nat \ {0} /\ Frame = frames[1]
        /\ props \in PropsType /\ DOMAIN props.stored = {}
    BY CallAsks
    DEF FewDelete, FewParts, CallInv, DeleteSteps, node, TypeOK, InstanceTypeOK
  <1>1. CASE Len(frames) > 1
    <2>1. /\ turn = 1 /\ Len(frames) = 2
          /\ Nested(frames[1], frames[2], props.defs, pc)
      BY <1>0, <1>1 DEF FewParts, CallInv, FirstTurnCalls
    <2>2. Returned(frames[2], props.defs, "adjacent")
      BY <2>1 DEF Nested, Returned
    <2>3. /\ frames' = Tail(frames) /\ pc' = "adjacent"
          /\ UNCHANGED <<stage, op, turn, props>>
      BY <1>1 DEF Return
    <2>4. Len(frames') = 1 /\ frames'[1] = frames[2]
      <3>1. /\ Len(frames') = Len(frames) - 1
            /\ \A i \in 1 .. Len(frames) - 1 : frames'[i] = frames[i + 1]
        BY <1>0, <1>1, <2>3
      <3>2. Len(frames') = 1 /\ 1 \in 1 .. 1 /\ 1 + 1 = 2
        BY <2>1, <3>1
      <3>3. frames'[1] = frames[1 + 1]
        BY <2>1, <3>1, <3>2
      <3> QED
        BY <3>2, <3>3
    <2>5. /\ Size' = Size /\ PathOf(1)' = PathOf(1) /\ PathOf(2)' = PathOf(2)
          /\ \A i : KeyOf(i)' = KeyOf(i) /\ Gone(i)' = Gone(i)
      BY <1>0, FileStays DEF Gone, KeyOf
    <2>6. Returned(frames[1], props.defs, pc)'
      BY <2>2, <2>3, <2>4, <2>5 DEF Returned, OnlySecond
    <2>7. CallInv'
      BY <1>0, <2>1, <2>3, <2>4, <2>5, <2>6 DEF FewParts, CallInv, FirstTurnCalls
    <2>8. MakesInv' /\ InstalledInv' /\ AttemptInv'
      BY <1>0, <2>3
      DEF FewParts, MakesInv, InstalledInv, AttemptInv, DeleteSteps
    <2> QED
      BY <2>7, <2>8 DEF FewParts
  <1>2. CASE ~(Len(frames) > 1)
    <2>1. PICK p : /\ Proceed(p) /\ DOMAIN p.stored = {} /\ p.defs = props.defs
      <3>1. /\ DOMAIN [props EXCEPT !.stored = Restrict(@, DOMAIN @ \ {Path})].stored = {}
            /\ [props EXCEPT !.stored = Restrict(@, DOMAIN @ \ {Path})].defs = props.defs
        BY <1>0 DEF PropsType, Restrict
      <3>2. /\ DOMAIN [props EXCEPT !.stored = NoEntries].stored = {}
            /\ [props EXCEPT !.stored = NoEntries].defs = props.defs
        BY <1>0 DEF PropsType, NoEntries
      <3> QED
        BY <1>0, <1>2, <3>1, <3>2 DEF Return
    <2>2. Len(frames) = 1
      <3> DEFINE n == Len(frames)
      <3>1. n \in Nat \ {0} /\ ~(n > 1)
        BY <1>0, <1>2
      <3> HIDE DEF n
      <3>2. n = 1
        BY <3>1
      <3> QED
        BY <3>2 DEF n
    <2> QED
      BY <1>0, <2>1, <2>2, PassFew
  <1> QED
    BY <1>1, <1>2

\* With an adjacent entry, it has that to see to.
LEMMA TurnsToAdjacent ==
    ASSUME FewDelete, pc = "read", DOMAIN Frame.adjacent # {},
           ~Exists(objects[Target]), pc' = "adjacent",
           UNCHANGED <<objects, stage, op, turn, props>>,
           NEW todo, frames' = [frames EXCEPT ![1].todo = todo]
    PROVE  FewParts'
  <1>0. /\ TypeOK /\ Few /\ FewParts /\ pc \in DeleteSteps
        /\ UNCHANGED <<layout, objects>> /\ Made' \subseteq Made /\ op = "delete"
        /\ frames \in Seq(Calls) /\ Len(frames) \in Nat \ {0} /\ Frame = frames[1]
        /\ DOMAIN frames = 1 .. Len(frames)
        /\ Frame.kind = Frame.key.kind => Target = Frame.key
    BY CallAsks DEF FewDelete, DeleteSteps, node
  <1>1. turn = 1 /\ Len(frames) = 1 /\ WithSecond(frames[1], props.defs, pc)
    BY <1>0
    DEF FewParts, CallInv, FirstTurnCalls, Alone, Returned, Nested, SecondTurnCall
  <1>2. /\ Len(frames') = 1 /\ frames'[1].adjacent = frames[1].adjacent
        /\ frames'[1].key = frames[1].key /\ frames'[1].kind = frames[1].kind
    <2>1. frames[1] \in Calls /\ 1 \in DOMAIN frames
      BY <1>0
    <2> QED
      BY <1>0, <1>1, <2>1 DEF Calls, FrameType
  <1>3. /\ Size' = Size /\ \A i : PathOf(i)' = PathOf(i) /\ KeyOf(i)' = KeyOf(i)
        /\ \A i : Gone(i)' = Gone(i)
        /\ \A m : First(m)' = First(m)
    BY <1>0, FileStays DEF Gone, KeyOf
  <1>4. WithSecond(frames[1], props.defs, pc)'
    <2>1. Gone(1)
      BY <1>0, <1>1 DEF WithSecond, For, Gone
    <2> QED
      BY <1>1, <1>2, <1>3, <2>1 DEF WithSecond, For, OnlySecond
  <1>5. CallInv'
    BY <1>0, <1>1, <1>2, <1>3, <1>4
    DEF FewParts, CallInv, FirstTurnCalls, DeleteSteps
  <1>6. MakesInv' /\ InstalledInv' /\ AttemptInv'
    BY <1>0 DEF FewParts, MakesInv, InstalledInv, AttemptInv, DeleteSteps
  <1> QED
    BY <1>5, <1>6 DEF FewParts

\* The read of a call: a failed exchange, an object, or good news.
LEMMA ReadFew ==
    ASSUME FewDelete, ReadForDelete PROVE FewParts'
  <1> PICK answer \in Answers : ReadForDelete!(answer)
    BY DEF ReadForDelete
  <1>0. /\ TypeOK /\ pc = "read" /\ pc \in DeleteSteps /\ UNCHANGED objects
        /\ Frame.adjacent \in Entries /\ DeleteStep
    BY CallAsks DEF FewDelete, DeleteSteps, cluster, DeleteStep
  <1>1. CASE Recoverable(props)
    BY <1>0, <1>1, FailFew
  <1>2. CASE Found(answer, Target) /\ Goto("exists", local)
    BY <1>0, <1>2, GotoFew DEF Found
  <1>3. CASE answer = "ok" /\ ~Found(answer, Target)
    <2>1. ~Exists(objects[Target])
      BY <1>3 DEF Found
    <2>2. CASE Frame.adjacent = NoEntries
      BY <1>0, <1>3, <2>1, <2>2, ReturnFew DEF NoEntries
    <2>3. CASE Frame.adjacent # NoEntries
      <3>1. DOMAIN Frame.adjacent # {}
        BY <1>0, <2>3, EmptyEntries
      <3> QED
        BY <1>0, <1>3, <2>1, <2>3, <3>1, TurnsToAdjacent
    <2> QED
      BY <2>2, <2>3
  <1> QED
    BY <1>1, <1>2, <1>3

\* A call made from another one is put before it.
LEMMA CallPushed ==
    ASSUME NEW f, NEW s, NEW S, s \in Seq(S), Len(s) = 1
    PROVE  /\ Len(<<f>> \o s) = 2
           /\ (<<f>> \o s)[1] = f /\ (<<f>> \o s)[2] = s[1]
  <1> DEFINE one == <<f>>
  <1>1. one \in Seq({f} \cup S) /\ Len(one) = 1 /\ one[1] = f /\ s \in Seq({f} \cup S)
    OBVIOUS
  <1> HIDE DEF one
  <1>2. /\ Len(one \o s) = Len(one) + Len(s)
        /\ \A i \in 1 .. Len(one) + Len(s) :
              (one \o s)[i] = IF i <= Len(one) THEN one[i] ELSE s[i - Len(one)]
    BY <1>1, ConcatProperties
  <1>3. Len(one \o s) = 2 /\ (one \o s)[1] = one[1] /\ (one \o s)[2] = s[1]
    BY <1>1, <1>2
  <1> QED
    BY <1>1, <1>3 DEF one

\* A call for the adjacent entry is not for the definition of the entry, but for
\* the first one, which takes its place.
LEMMA CallAdjacentFew ==
    ASSUME FewDelete, NEW a \in Paths, CallAdjacent(a) PROVE FewParts'
  <1> DEFINE callers == [frames EXCEPT ![1].todo = @ \ {a}]
             o == [frames[1] EXCEPT !.todo = @ \ {a}]
  <1>0. /\ TypeOK /\ Few /\ FewParts /\ pc = "adjacent" /\ pc \in DeleteSteps
        /\ UNCHANGED layout /\ Made' \subseteq Made /\ op = "delete"
        /\ frames \in Seq(Calls) /\ Frame = frames[1] /\ Frame \in Calls
        /\ DOMAIN frames = 1 .. Len(frames) /\ Len(frames) \in Nat \ {0}
        /\ a \in Frame.todo
        /\ Resolve(callers, Frame.adjacent[a].key, Frame.key.kind)
        /\ DOMAIN props.stored = {} /\ PathOf(1) \in Yaml
    BY CallAsks
    DEF FewDelete, FewParts, CallInv, CallAdjacent, DeleteSteps, node
  <1>1. turn = 1 /\ Len(frames) = 1 /\ WithSecond(frames[1], props.defs, pc)
    BY <1>0
    DEF FewParts, CallInv, FirstTurnCalls, Alone, Returned, Nested, SecondTurnCall
  <1>2. /\ callers \in Seq(Calls) /\ Len(callers) = 1 /\ callers[1] = o
    <2>1. o \in Calls
      BY <1>0 DEF Calls, FrameType
    <2>2. callers = [frames EXCEPT ![1] = o]
      OBVIOUS
    <2> HIDE DEF callers, o
    <2> QED
      BY <1>0, <1>1, <2>1, <2>2
  <1>3. o.adjacent = Frame.adjacent /\ o.todo = Frame.todo \ {a}
    BY <1>0 DEF Calls, FrameType
  <1>4. a \in DOMAIN Frame.adjacent /\ o.todo \subseteq DOMAIN Frame.adjacent \ {a}
    <2>1. frames[1].todo \subseteq DOMAIN frames[1].adjacent
      BY <1>0 DEF TypeOK, StepOK
    <2> QED
      BY <1>0, <1>3, <2>1
  <1> HIDE DEF callers, o
  <1>5. Frame.adjacent[a].key = KeyOf(2) /\ OnlySecond(o.adjacent) /\ o.todo = {}
    BY <1>0, <1>1, <1>3, <1>4 DEF WithSecond, OnlySecond
  <1>6. /\ Size = 2 /\ props.defs = First(2) /\ Gone(1) /\ KeyOf(1) # KeyOf(2)
    BY <1>0, <1>1, FewDefinitions DEF WithSecond
  <1>7. PICK f : CallsByList(f, callers, Frame.adjacent[a].key, Frame.key.kind)
    BY <1>0, <1>5, <1>6, ResolveList DEF Short
  <1>8. /\ frames' = <<f>> \o callers /\ pc' = "read" /\ For(f, 1)
        /\ DOMAIN props'.stored = {} /\ DOMAIN f.adjacent = {} /\ props'.defs = <<>>
        /\ UNCHANGED <<objects, stage, op, turn>>
    BY <1>6, <1>7 DEF CallsByList
  <1>9. Len(frames') = 2 /\ frames'[1] = f /\ frames'[2] = o
    BY <1>2, <1>8, CallPushed
  <1>10. Nested(frames[1], frames[2], props.defs, pc)'
    <2>1. /\ Size' = Size /\ PathOf(2)' = PathOf(2)
          /\ \A i : KeyOf(i)' = KeyOf(i) /\ Gone(i)' = Gone(i)
      BY <1>0, <1>8, FileStays DEF Gone, KeyOf
    <2> QED
      BY <1>5, <1>6, <1>8, <1>9, <2>1 DEF Nested, For, OnlySecond
  <1>11. CallInv'
    <2>1. PathOf(1)' = PathOf(1)
      BY <1>0, FileStays
    <2> QED
      BY <1>0, <1>1, <1>8, <1>9, <1>10, <2>1 DEF CallInv, FirstTurnCalls
  <1>12. MakesInv' /\ InstalledInv' /\ AttemptInv'
    BY <1>0, <1>8 DEF FewParts, MakesInv, InstalledInv, AttemptInv, DeleteSteps
  <1> QED
    BY <1>11, <1>12 DEF FewParts

-----------------------------------------------------------------------------
(* What is put back.                                                       *)

\* The entry of the second definition leaves a list of both as it is.
LEMMA SecondKnown ==
    ASSUME TypeOK, Few, Size = 2, NEW ps \in PropsType, ps.defs = First(2),
           NEW entries \in Entries, OnlySecond(entries),
           NEW qs \in StoreAll(ps, entries)
    PROVE  qs.defs = First(2)
  <1>1. 2 \in 0 .. Size /\ 2 \in 1 .. Size /\ OneFile
    BY FewDefinitions
  <1>2. Occurs(KeyOf(2), First(2))
    BY <1>1, FirstOccurs
  <1> QED
    BY <1>2, StoreAllKnown DEF OnlySecond

\* Only the adjacent entry, when the object of the first definition is gone.
LEMMA PutAdjacentBackFew ==
    ASSUME FewDelete, PutAdjacentBack PROVE FewParts'
  <1>0. /\ TypeOK /\ Few /\ FewParts /\ pc = "adjacent" /\ pc \in DeleteSteps
        /\ UNCHANGED <<layout, objects>> /\ Frame = frames[1]
        /\ Frame.adjacent \in Entries /\ props \in PropsType
        /\ DOMAIN props.stored = {} /\ PathOf(1) \in Yaml
    BY CallAsks
    DEF FewDelete, FewParts, CallInv, PutAdjacentBack, DeleteSteps, node,
        cluster, TypeOK, InstanceTypeOK
  <1>1. \/ WithSecond(frames[1], props.defs, pc)
        \/ Returned(frames[1], props.defs, pc)
    BY <1>0
    DEF FewParts, CallInv, FirstTurnCalls, Alone, Nested, SecondTurnCall
  <1>2. PICK ps \in StoreAll(props, Frame.adjacent) : Recoverable(ps)
    BY DEF PutAdjacentBack
  <1>3. Size = 2 /\ Gone(1) /\ OnlySecond(Frame.adjacent)
    BY <1>0, <1>1 DEF WithSecond, Returned
  <1>4. OnlySecond(ps.stored)
    <2>1. /\ DOMAIN ps.stored = DOMAIN props.stored \cup DOMAIN Frame.adjacent
          /\ \A p \in DOMAIN ps.stored :
                ps.stored[p] = IF p \in DOMAIN Frame.adjacent THEN Frame.adjacent[p]
                               ELSE props.stored[p]
      BY <1>2, StoreAllEntries
    <2> QED
      BY <1>0, <1>3, <2>1 DEF OnlySecond
  <1>5. ASSUME WithSecond(frames[1], props.defs, pc) PROVE Rest(ps)
    <2>1. ps.defs = First(2)
      BY <1>0, <1>2, <1>3, <1>5, SecondKnown DEF WithSecond
    <2> QED
      BY <1>3, <1>4, <2>1 DEF Rest
  <1>6. ASSUME Returned(frames[1], props.defs, pc) PROVE Single(ps)
    <2>1. props.defs = <<>> /\ ~Occurs(KeyOf(2), <<>>)
      BY <1>6 DEF Returned, Occurs
    <2>2. ps.defs = <<KeyOf(2)>>
      BY <1>0, <1>2, <1>3, <2>1, StoreAllNew DEF OnlySecond
    <2>3. PathOf(2) \in PathsOfLayout
      BY <1>0, <1>3, FewDefinitions
    <2> QED
      BY <1>3, <1>4, <2>2, <2>3 DEF Single, Passable, OnlySecond
  <1>7. BeginsWith(ps)'
    <2>1. BeginsWith(ps)
      BY <1>0, <1>1, <1>5, <1>6 DEF BeginsWith
    <2> QED
      BY <1>0, <2>1, BeginsStays, SameObjectsSteady
  <1> QED
    BY <1>2, <1>7, RecoverableFew

\* The definition of the call is put back at the path of the one under way, and
\* then its adjacent entries.
PutsTogether(kept, ps) ==
    /\ Recoverable(ps) /\ ps \in StoreAll(kept, Frame.adjacent)
    /\ DOMAIN kept.stored = {Path} /\ kept.stored[Path].key = Frame.key
    /\ kept.defs = StoreDefinition(props.defs, Frame.key)
    /\ DOMAIN ps.stored = {Path} \cup DOMAIN Frame.adjacent
    /\ Path \notin DOMAIN Frame.adjacent => ps.stored[Path].key = Frame.key
    /\ \A p \in DOMAIN Frame.adjacent : ps.stored[p] = Frame.adjacent[p]
    /\ DOMAIN Frame.adjacent = {} => ps.defs = kept.defs

\* The end of a call puts the adjacent entries back and changes no object.
LEMMA PutBackKeeps ==
    ASSUME TypeOK, Few, pc = "putback", DOMAIN props.stored = {}, PutBack
    PROVE  /\ UNCHANGED objects
           /\ \E kept \in PropsType, ps \in PropsType : PutsTogether(kept, ps)
  <1> DEFINE e == [key |-> Frame.key, typed |-> FALSE]
             kept == StoreResult(props, Path, e)
  <1>0. /\ pc \in DeleteSteps /\ PutsBack /\ Path \in Paths
        /\ props \in PropsType /\ Frame \in Calls /\ Frame.adjacent \in Entries
        /\ Frame.key \in Keys
    BY PathType, CallAsks
    DEF PutsBack, PerformOnDelete, DeleteSteps, TypeOK, InstanceTypeOK, Few,
        Answerable
  <1>1. /\ UNCHANGED objects
        /\ \E ps \in StoreAll(kept, Frame.adjacent) : Recoverable(ps)
    BY <1>0 DEF PutBack, cluster
  <1>2. e \in Entry /\ e.key = Frame.key
    BY <1>0 DEF Entry
  <1>3. /\ kept \in PropsType
        /\ kept.defs = StoreDefinition(props.defs, Frame.key)
    BY <1>0, <1>2, StoreResultType DEF StoreResult
  <1>4. DOMAIN kept.stored = {Path} /\ kept.stored[Path] = e
    BY DEF StoreResult, With
  <1> HIDE DEF kept, e
  <1>5. PICK ps \in StoreAll(kept, Frame.adjacent) : Recoverable(ps)
    BY <1>1
  <1>6. ps \in PropsType
    BY <1>0, <1>3, StoreAllType
  <1>7. /\ DOMAIN ps.stored = DOMAIN kept.stored \cup DOMAIN Frame.adjacent
        /\ \A p \in DOMAIN ps.stored :
              ps.stored[p] = IF p \in DOMAIN Frame.adjacent THEN Frame.adjacent[p]
                             ELSE kept.stored[p]
    BY StoreAllEntries
  <1>8. ASSUME DOMAIN Frame.adjacent = {} PROVE ps.defs = kept.defs
    BY <1>0, <1>3, <1>8, StoreAllKnown
  <1> QED
    BY <1>1, <1>2, <1>3, <1>4, <1>5, <1>6, <1>7, <1>8 DEF PutsTogether

\* The end of a call puts back what the next attempt can begin with.
LEMMA PutBackFew ==
    ASSUME FewDelete, PutBack PROVE FewParts'
  <1>0. /\ TypeOK /\ Few /\ FewParts /\ pc = "putback" /\ pc \in DeleteSteps
        /\ UNCHANGED layout /\ Frame = frames[1]
        /\ Frame.adjacent \in Entries /\ Frame.key \in Keys
        /\ DOMAIN props.stored = {} /\ PathOf(1) \in Yaml
        /\ Size \in {1, 2} /\ turn \in {1, 2} /\ OneFile /\ Path = PathOf(turn)
        /\ PathOf(turn) \in PathsOfLayout /\ (turn # 1 => Size = 2)
        /\ Size = 2 => PathOf(1) # PathOf(2)
    BY CallAsks, FewDefinitions
    DEF FewDelete, FewParts, CallInv, PutBack, DeleteSteps, node
  <1>1. /\ UNCHANGED objects
        /\ \E kept \in PropsType, ps \in PropsType : PutsTogether(kept, ps)
    BY <1>0, PutBackKeeps
  <1>2. PICK kept \in PropsType, ps \in PropsType : PutsTogether(kept, ps)
    BY <1>1
  <1>3. /\ Recoverable(ps) /\ ps \in StoreAll(kept, Frame.adjacent)
        /\ kept.defs = StoreDefinition(props.defs, Frame.key)
        /\ DOMAIN ps.stored = {Path} \cup DOMAIN Frame.adjacent
        /\ Path \notin DOMAIN Frame.adjacent => ps.stored[Path].key = Frame.key
        /\ \A p \in DOMAIN Frame.adjacent : ps.stored[p] = Frame.adjacent[p]
        /\ DOMAIN Frame.adjacent = {} => ps.defs = kept.defs
    BY <1>2 DEF PutsTogether
  <1>4. /\ StoreDefinition(<<>>, Frame.key) = <<Frame.key>>
        /\ StoreDefinition(<<Frame.key>>, Frame.key) = <<Frame.key>>
    BY DEF StoreDefinition, Occurs
  <1>5. Size = 2 => /\ StoreDefinition(First(1), KeyOf(2)) = First(2)
                    /\ StoreDefinition(First(2), KeyOf(2)) = First(2)
                    /\ StoreDefinition(First(2), KeyOf(1)) = First(2)
    <2>1. ASSUME Size = 2
          PROVE  /\ 1 \in 0 .. Size /\ 2 \in 0 .. Size /\ 1 \in 1 .. Size
                 /\ 2 \in 1 .. Size /\ 2 = 1 + 1 /\ 1 <= 2 /\ 2 <= 2
                 /\ 1 <= 2 + 1 /\ 2 <= 2 + 1 /\ 2 <= 1 + 1
      BY <2>1
    <2> QED
      BY <1>0, <2>1, FirstStored
  <1>6. ASSUME turn = 1, Alone(frames[1], props.defs, pc) PROVE BeginsWith(ps)
    <2>1. /\ DOMAIN ps.stored = {PathOf(1)} /\ ps.stored[PathOf(1)].key = Frame.key
          /\ ps.defs = StoreDefinition(props.defs, Frame.key)
      BY <1>0, <1>3, <1>6 DEF Alone
    <2>2. ASSUME Passable(Frame.key), props.defs \in {<<>>, <<Frame.key>>}
          PROVE  Single(ps)
      BY <1>0, <1>4, <1>6, <2>1, <2>2 DEF Single
    <2>3. ASSUME Size = 2, Frame.key = KeyOf(2),
                 props.defs = First(1) \/ props.defs = First(2)
          PROVE  Second(ps)
      BY <1>5, <2>1, <2>3 DEF Second
    <2> QED
      BY <1>0, <1>6, <2>2, <2>3 DEF Alone, BeginsWith
  <1>7. ASSUME turn = 1, WithSecond(frames[1], props.defs, pc)
        PROVE  BeginsWith(ps)
    <2>1. /\ Size = 2 /\ props.defs = First(2) /\ Frame.key = KeyOf(1)
          /\ OnlySecond(Frame.adjacent) /\ Path = PathOf(1)
      BY <1>0, <1>7 DEF WithSecond, For
    <2>2. kept.defs = First(2)
      BY <1>3, <1>5, <2>1
    <2>3. ps.defs = First(2)
      BY <1>0, <1>3, <2>1, <2>2, SecondKnown
    <2>4. Whole(ps)
      BY <1>0, <1>3, <2>1, <2>3 DEF Whole, OnlySecond
    <2> QED
      BY <1>0, <2>4 DEF BeginsWith
  <1>8. ASSUME turn # 1 PROVE BeginsWith(ps)
    <2>1. SecondTurnCall(frames[1], props.defs, pc)
      BY <1>0, <1>8 DEF FewParts, CallInv
    <2>2. /\ DOMAIN ps.stored = {Path} /\ ps.stored[Path].key = Frame.key
          /\ ps.defs = <<Frame.key>>
      BY <1>0, <1>3, <1>4, <2>1 DEF SecondTurnCall
    <2>3. Passable(Frame.key)
      BY <1>0, <1>8, <2>1 DEF SecondTurnCall, Passable, For
    <2>4. Single(ps)
      BY <1>0, <2>2, <2>3 DEF Single
    <2> QED
      BY <1>0, <2>4 DEF BeginsWith
  <1>9. BeginsWith(ps)
    BY <1>0, <1>6, <1>7, <1>8
    DEF FewParts, CallInv, FirstTurnCalls, Returned, Nested
  <1>10. BeginsWith(ps)'
    BY <1>0, <1>1, <1>9, BeginsStays, SameObjectsSteady
  <1> QED
    BY <1>3, <1>10, RecoverableFew

-----------------------------------------------------------------------------
(* The theorems.                                                           *)

\* Steps of a delete keep the invariant.
LEMMA DeleteFew ==
    ASSUME TypeOK, Few, FewParts, UNCHANGED node, DeleteStep PROVE FewParts'
  <1>0. FewDelete
    <2>1. op = "delete"
      BY DEF DeleteStep, DeleteCheck, ResolveProvided, ReadForDelete,
             CallAdjacent, PutAdjacentBack, CheckExists, DeleteCall, PatchClaim,
             PutBack, TypeOK, StepOK, DeleteSteps
    <2> QED
      BY <2>1, DeleteLoses DEF FewDelete, Loses
  <1>1. CASE CheckExists \/ DeleteCall \/ PatchClaim
    <2>1. pc \in DeleteSteps /\ pc # "adjacent" /\ pc # "read"
      BY <1>1 DEF CheckExists, DeleteCall, PatchClaim, DeleteSteps
    <2>2. \/ Recoverable(props)
          \/ \E step \in {"exists", "delete", "patch", "putback"} : Goto(step, local)
      BY <1>1 DEF CheckExists, DeleteCall, PatchClaim, AfterResponse
    <2> QED
      BY <1>0, <2>1, <2>2, GotoFew, FailFew
  <1> QED
    BY <1>0, <1>1, DeleteCheckFew, ResolveFew, ReadFew, CallAdjacentFew,
       PutAdjacentBackFew, PutBackFew
    DEF DeleteStep

\* The invariant holds.
LEMMA FewHolds == Spec => []FewInv
  <1>1. Init => FewInv
    <2> SUFFICES ASSUME Init, Few PROVE FewParts
      BY DEF FewInv
    <2>1. Made = {} /\ stage = "uninitialized" /\ op = "none" /\ pc = "idle"
          /\ DOMAIN props.stored = {} /\ props.defs = <<>>
      BY DEF Init, Made, Missing, Foreign
    <2>2. TypeOK
      BY TypeInit
    <2>3. props.defs = First(0) /\ 0 \in 0 .. Size
      BY <2>1, <2>2, FirstShort, FewDefinitions
    <2> QED
      BY <2>1, <2>3
      DEF FewParts, MakesInv, InstalledInv, FromLayout, AttemptInv, CallInv,
          DeleteSteps
  <1>2. TypeOK /\ TypeOK' /\ CoverInv /\ SureInv /\ FewInv /\ [Next]_vars => FewInv'
    <2> SUFFICES ASSUME TypeOK, TypeOK', CoverInv, SureInv, FewInv, [Next]_vars,
                        Few'
                 PROVE  FewParts'
      BY DEF FewInv
    <2>1. /\ Few /\ UNCHANGED node /\ UNCHANGED layout
          /\ ~(\E k \in Keys : OtherClient(k))
      BY FewStays DEF node
    <2>2. FewParts
      BY <2>1 DEF FewInv
    <2> QED
      BY <2>1, <2>2, ApplyFew, DeleteFew, EngineFew, WorldFew
      DEF Next, Worker, ApplyStep, DeleteStep
  <1> QED
    BY <1>1, <1>2, CoverHolds, SureHolds, TypeCorrect, PTL DEF Spec

\* An uninstall of a node with a file of one or two definitions, which stays the
\* same, leaves no object the plugin made where a redefinition is allowed,
\* whatever fails in its attempts, as long as no other client interferes.
THEOREM FewDefinitionsLeaveNothing == Spec => []FewLeaveNothingBehind
  <1>1. TypeOK /\ FewInv => FewLeaveNothingBehind
    <2> SUFFICES ASSUME TypeOK, FewInv, stage = "deleted", Few PROVE Made = {}
      BY DEF FewLeaveNothingBehind, Few, Size
    <2>1. \A i \in 1 .. Size : Gone(i)
      BY DEF FewInv, FewParts, InstalledInv, TypeOK, StepOK
    <2>2. ASSUME NEW k \in Made PROVE FALSE
      <3>1. PICK i \in 1 .. Size : KeyOf(i) = k
        BY FileType DEF FewInv, FewParts, MakesInv, KeyOf
      <3>2. ~Exists(objects[k]) /\ objects[k].owner = "plugin" /\ k \in Keys
        BY <2>1, <3>1 DEF Gone, Made
      <3>3. objects[k] \in Objects
        BY <3>2 DEF TypeOK, WorldTypeOK
      <3> QED
        BY <3>2, <3>3 DEF Objects, Missing, Exists, Phases
    <2> QED
      BY <2>2
  <1> QED
    BY <1>1, FewHolds, TypeCorrect, PTL

-----------------------------------------------------------------------------
(* FileResource implements ManagedNode.                                    *)

PromisedStep == [Promise!Next]_(Promise!vars)

\* An object at most is lost, and the node may be excused.
LEMMA LosingStep ==
    ASSUME Loses, UNCHANGED stage, Committed' => Committed PROVE PromisedStep
  <1>1. PICK k \in Keys : Made' \subseteq Made /\ Made \ {k} \subseteq Made'
    BY DEF Loses
  <1>2. CASE Committed' <=> Committed
    <2>1. Made' = Made \/ Made' = Made \ {k}
      BY <1>1
    <2>2. CASE Made' = Made
      BY <1>2, <2>2 DEF PromisedStep, Promise!vars
    <2>3. CASE Made' = Made \ {k}
      BY <1>2, <2>3 DEF PromisedStep, Promise!Next, Promise!Unmake
    <2> QED
      BY <2>1, <2>2, <2>3
  <1>3. CASE ~Committed'
    BY <1>1, <1>3 DEF PromisedStep, Promise!Next, Promise!Excuse
  <1> QED
    BY <1>2, <1>3

\* The steps of the worker and of the engine concern neither the file nor other
\* clients, so that the node is committed as it was.
LEMMA WorkerStaysCommitted ==
    ASSUME TypeOK, Worker \/ Engine \/ CrashAndResume
    PROVE  Committed' <=> Committed
  <1>1. UNCHANGED node /\ budget'.redefinitions = budget.redefinitions
    BY WorkerRedefinesNothing
    DEF Engine, Retry, Start, Begin, CrashAndResume, node, TypeOK, WorldTypeOK
  <1>2. budget'.others = budget.others
    BY WorkerNoOther
    DEF Engine, Retry, Start, CrashAndResume, TypeOK, WorldTypeOK
  <1> QED
    BY <1>1, <1>2
    DEF Committed, Answerable, OneFile, NeverRedefined, NoOtherClient, node

\* A create, an update or a heal makes an object, or is an installation's end.
LEMMA PromiseApply ==
    ASSUME TypeOK, ApplyStep PROVE PromisedStep
  <1>1. Committed' <=> Committed
    BY WorkerStaysCommitted DEF ApplyStep, Worker
  <1>2. CASE UNCHANGED stage /\ stage \in {"creating", "created"}
    <2>1. Made' = Made \/ Made' = Made \cup {Key}
      BY ApplyMakes
    <2>2. CASE Made' = Made
      BY <1>1, <1>2, <2>2 DEF PromisedStep, Promise!vars
    <2>3. CASE Made' = Made \cup {Key}
      <3>1. Key \in Keys
        BY PathType
      <3> QED
        BY <1>1, <1>2, <2>3, <3>1
        DEF PromisedStep, Promise!Next, Promise!Make
    <2> QED
      BY <2>1, <2>2, <2>3
  <1>3. CASE UNCHANGED objects /\ stage = "creating" /\ stage' = "created"
    <2>1. Made' = Made
      BY <1>3 DEF Made
    <2> QED
      BY <1>1, <1>3, <2>1 DEF PromisedStep, Promise!Next, Promise!Installed
  <1> QED
    BY <1>2, <1>3, ApplyStages

\* A delete loses objects, and succeeds when none are left.
LEMMA PromiseDelete ==
    ASSUME TypeOK, NothingLeftBehind', FewLeaveNothingBehind', DeleteStep
    PROVE  PromisedStep
  <1>1. Committed' <=> Committed
    BY WorkerStaysCommitted DEF DeleteStep, Worker
  <1>2. op = "delete" /\ stage = "deleting"
    BY DEF DeleteStep, DeleteCheck, ResolveProvided, ReadForDelete,
           CallAdjacent, PutAdjacentBack, CheckExists, DeleteCall, PatchClaim,
           PutBack, TypeOK, StepOK, DeleteSteps
  <1>3. UNCHANGED stage \/ (stage' = "deleted" /\ UNCHANGED objects)
    <2>1. ASSUME NEW p, Proceed(p) PROVE stage' \in {"deleting", "deleted"}
      BY <1>2, <2>1 DEF Proceed, End, StageAfter
    <2>2. ASSUME Return PROVE stage' \in {"deleting", "deleted"}
      BY <1>2, <2>1, <2>2 DEF Return
    <2>3. CASE ReadForDelete
      BY <1>2, <2>2, <2>3 DEF ReadForDelete, Goto, Recoverable, cluster
    <2>4. CASE PutBack
      BY <1>2, <2>2, <2>4 DEF PutBack, Recoverable, cluster
    <2>5. CASE ResolveProvided \/ \E a \in Paths : CallAdjacent(a)
      BY <2>5
      DEF ResolveProvided, CallAdjacent, Resolve, ResolveByEntry,
          ResolveByDefinition, Enter, Recoverable
    <2>6. CASE \/ DeleteCheck \/ PutAdjacentBack \/ CheckExists \/ DeleteCall
               \/ PatchClaim
      BY <2>6
      DEF DeleteCheck, PutAdjacentBack, CheckExists, DeleteCall, PatchClaim,
          AfterResponse, Goto, Recoverable
    <2> QED
      BY <2>3, <2>4, <2>5, <2>6 DEF DeleteStep
  <1>4. CASE UNCHANGED stage
    BY <1>1, <1>4, DeleteLoses, LosingStep
  <1>5. CASE stage' = "deleted" /\ UNCHANGED objects
    <2>1. Made' = Made
      BY <1>5 DEF Made
    <2>2. Committed => Made = {}
      BY <1>1, <1>5, <2>1
      DEF NothingLeftBehind, FewLeaveNothingBehind, Committed
    <2> QED
      BY <1>1, <1>2, <1>5, <2>1, <2>2
      DEF PromisedStep, Promise!Next, Promise!Uninstalled
  <1> QED
    BY <1>3, <1>4, <1>5

\* The engine begins installations and removals.
LEMMA PromiseEngine ==
    ASSUME TypeOK, Engine \/ CrashAndResume PROVE PromisedStep
  <1>1. (Committed' <=> Committed) /\ Made' = Made
    BY WorkerStaysCommitted
    DEF Engine, Retry, Start, Begin, CrashAndResume, cluster, Made
  <1>2. CASE Retry \/ CrashAndResume
    BY <1>1, <1>2
    DEF Retry, CrashAndResume, PromisedStep, Promise!vars
  <1>3. ASSUME NEW o \in Ops, Start(o) PROVE PromisedStep
    <2>1. \/ stage \in {"uninitialized", "deleted"} /\ stage' = "creating"
          \/ stage \in {"created", "broken"} /\ stage' = "deleting"
          \/ stage' = stage
      BY <1>3 DEF Start, MayStart
    <2> QED
      BY <1>1, <2>1
      DEF PromisedStep, Promise!Next, Promise!Install, Promise!Uninstall,
          Promise!vars
  <1> QED
    BY <1>2, <1>3 DEF Engine

\* The rest of the world makes nothing in the node's name.
LEMMA PromiseWorld ==
    ASSUME TypeOK, CoverInv, SureInv, World \/ UNCHANGED vars
    PROVE  PromisedStep
  <1>1. Committed' => Committed
    <2> SUFFICES ASSUME Committed' PROVE Committed
      OBVIOUS
    <2>1. CASE Bound'
      BY <2>1, BoundStays DEF Next, Bound, Committed, node
    <2>2. CASE ~Bound'
      <3>1. Few'
        BY <2>2 DEF Committed, Bound, Few, Size
      <3> QED
        BY <3>1, FewStays DEF Next, Few, Size, Committed
    <2> QED
      BY <2>1, <2>2
  <1>2. UNCHANGED stage
    BY DEF World, Controller, Unprotect, OtherClient, Redefine, vars
  <1> QED
    BY <1>1, <1>2, WorldLoses, LosingStep

\* A node with one file, which stays the same, keeps the promise of ManagedNode,
\* where it allows a redefinition with one or two definitions and no other
\* client: its initial states are initial there, and every step, of the worker in
\* any of its calls, of the engine or of the cluster, is one of ManagedNode or
\* leaves it unchanged.
THEOREM FileImplementsManagedNode == Spec => ImplementsManagedNode
  <1>1. Init => Promise!Init
    <2> SUFFICES ASSUME Init PROVE Promise!Init
      OBVIOUS
    <2>1. Made = {} /\ stage = "uninitialized"
      BY DEF Init, Made, Missing, Foreign
    <2>2. (~Committed) \in BOOLEAN
      BY DEF Committed
    <2> QED
      BY <2>1, <2>2 DEF Promise!Init
  <1>2. TypeOK /\ CoverInv /\ SureInv /\ NothingLeftBehind' /\
        FewLeaveNothingBehind' /\ [Next]_vars => [Promise!Next]_(Promise!vars)
    <2> SUFFICES ASSUME TypeOK, CoverInv, SureInv, NothingLeftBehind',
                        FewLeaveNothingBehind', [Next]_vars
                 PROVE  PromisedStep
      BY DEF PromisedStep
    <2> QED
      BY PromiseApply, PromiseDelete, PromiseEngine, PromiseWorld
      DEF Next, Worker, ApplyStep, DeleteStep
  <1> QED
    BY <1>1, <1>2, TypeCorrect, CoverHolds, SureHolds, FileLeavesNothing,
       FewDefinitionsLeaveNothing, PTL
    DEF Spec, ImplementsManagedNode, Promise!Spec
=============================================================================
