----------------------- MODULE SharedClusterTokenProofs -----------------------
(* Theorems about SharedClusterToken, for any number of faults and crashes. *)
EXTENDS SharedClusterToken, TLAPS

\* An operation runs in the stage it belongs to.
StageOK ==
    /\ op = "create" <=> stage = "starting"
    /\ op = "delete" <=> stage = "stopping"
    /\ op \in {"read", "status"} => stage = "started"

\* A delete has got rid of what the exchanges behind it were for.
DeletedSoFar ==
    op = "delete" =>
        /\ step > 1 => objects["secret"] # "present"
        /\ step > 2 => objects["service_account"] # "present"

\* A create that met no deletion has seen what the exchanges behind it were
\* for, and nothing takes it away.
CreatedSoFar ==
    op = "create" /\ ~overlap =>
        /\ \A k \in Kinds : objects[k] # "terminating"
        /\ step > 2 => objects["cluster_role_binding"] = "present"
        /\ step > 4 => objects["service_account"] = "present"

\* The worker of a started node has the token too.
WorkerConnected == stage = "started" => props.token

IInv == /\ TypeOK /\ StageOK /\ DeletedSoFar /\ CreatedSoFar /\ WorkerConnected
        /\ ConnectedWhenStarted /\ UsableWhenStarted /\ NothingLeftBehind

\* The plans, exchange by exchange.
LEMMA Plans ==
    /\ Len(Plan("create")) = 7 /\ Len(Plan("read")) = 3
    /\ Len(Plan("status")) = 3 /\ Len(Plan("delete")) = 3
    /\ Plan("create")[1] = Do("post", "cluster_role_binding")
    /\ Plan("create")[2] = Do("get", "cluster_role_binding")
    /\ Plan("create")[3] = Do("post", "service_account")
    /\ Plan("create")[4] = Do("get", "service_account")
    /\ Plan("create")[5] = Do("post", "secret")
    /\ Plan("create")[6] = Do("get", "secret")
    /\ Plan("create")[7] = Do("get", "secret")
    /\ \A o \in {"read", "status"} :
           /\ Plan(o)[1] = Do("get", "service_account")
           /\ Plan(o)[2] = Do("get", "cluster_role_binding")
           /\ Plan(o)[3] = Do("get", "secret")
    /\ Plan("delete")[1] = Do("delete", "secret")
    /\ Plan("delete")[2] = Do("delete", "service_account")
    /\ Plan("delete")[3] = Do("delete", "cluster_role_binding")
BY DEF Plan

\* Where an exchange can be, and what it is about.
LEMMA Places ==
    ASSUME TypeOK, op # "none", step > 0
    PROVE  \/ op = "create" /\ step = 1
              /\ Plan(op)[step] = Do("post", "cluster_role_binding")
           \/ op = "create" /\ step = 2
              /\ Plan(op)[step] = Do("get", "cluster_role_binding")
           \/ op = "create" /\ step = 3
              /\ Plan(op)[step] = Do("post", "service_account")
           \/ op = "create" /\ step = 4
              /\ Plan(op)[step] = Do("get", "service_account")
           \/ op = "create" /\ step = 5 /\ Plan(op)[step] = Do("post", "secret")
           \/ op = "create" /\ step \in {6, 7}
              /\ Plan(op)[step] = Do("get", "secret")
           \/ op \in {"read", "status"} /\ step = 1
              /\ Plan(op)[step] = Do("get", "service_account")
           \/ op \in {"read", "status"} /\ step = 2
              /\ Plan(op)[step] = Do("get", "cluster_role_binding")
           \/ op \in {"read", "status"} /\ step = 3
              /\ Plan(op)[step] = Do("get", "secret")
           \/ op = "delete" /\ step = 1
              /\ Plan(op)[step] = Do("delete", "secret")
           \/ op = "delete" /\ step = 2
              /\ Plan(op)[step] = Do("delete", "service_account")
           \/ op = "delete" /\ step = 3
              /\ Plan(op)[step] = Do("delete", "cluster_role_binding")
<1>1. op \in Ops /\ step \in 1 .. 7 /\ step <= Len(Plan(op))
  BY DEF TypeOK
<1>2. CASE op = "create"
  <2>1. step \in {1, 2, 3, 4, 5, 6, 7} BY <1>1
  <2> QED BY <1>2, <2>1, Plans
<1>3. CASE op \in {"read", "status"}
  <2>1. Len(Plan(op)) = 3 BY <1>3, Plans
  <2>2. step \in {1, 2, 3} BY <1>1, <2>1
  <2> QED BY <1>3, <2>2, Plans
<1>4. CASE op = "delete"
  <2>1. Len(Plan(op)) = 3 BY <1>4, Plans
  <2>2. step \in {1, 2, 3} BY <1>1, <2>1
  <2> QED BY <1>4, <2>2, Plans
<1> QED BY <1>1, <1>2, <1>3, <1>4 DEF Ops

LEMMA DoFields ==
    \A verb \in {"post", "get", "delete"}, kind \in Kinds :
        Do(verb, kind).verb = verb /\ Do(verb, kind).kind = kind
BY DEF Do

LEMMA PostPlace ==
    ASSUME TypeOK, Exchange("post")
    PROVE  /\ op = "create" /\ Kind \in Kinds
           /\ \/ step = 1 /\ Kind = "cluster_role_binding"
              \/ step = 3 /\ Kind = "service_account"
              \/ step = 5 /\ Kind = "secret"
<1>1. op # "none" /\ step > 0 /\ Plan(op)[step].verb = "post"
  BY DEF Exchange
<1> QED BY <1>1, Places, DoFields DEF Kind, Kinds

LEMMA GetPlace ==
    ASSUME TypeOK, Exchange("get")
    PROVE  /\ Kind \in Kinds
           /\ \/ op = "create" /\ step = 2 /\ Kind = "cluster_role_binding"
              \/ op = "create" /\ step = 4 /\ Kind = "service_account"
              \/ op = "create" /\ step \in {6, 7} /\ Kind = "secret"
              \/ op \in {"read", "status"} /\ step = 1
                 /\ Kind = "service_account"
              \/ op \in {"read", "status"} /\ step = 2
                 /\ Kind = "cluster_role_binding"
              \/ op \in {"read", "status"} /\ step = 3 /\ Kind = "secret"
<1>1. op # "none" /\ step > 0 /\ Plan(op)[step].verb = "get"
  BY DEF Exchange
<1> QED BY <1>1, Places, DoFields DEF Kind, Kinds

LEMMA DeletePlace ==
    ASSUME TypeOK, Exchange("delete")
    PROVE  /\ op = "delete" /\ Kind \in Kinds
           /\ \/ step = 1 /\ Kind = "secret"
              \/ step = 2 /\ Kind = "service_account"
              \/ step = 3 /\ Kind = "cluster_role_binding"
<1>1. op # "none" /\ step > 0 /\ Plan(op)[step].verb = "delete"
  BY DEF Exchange
<1> QED BY <1>1, Places, DoFields DEF Kind, Kinds

\* The budget stays one.
LEMMA ChargeType ==
    ASSUME TypeOK, NEW answer \in Answers, Charge(answer)
    PROVE  budget' \in [faults : Nat, crashes : Nat]
BY DEF TypeOK, Answers, Charge

LEMMA InitInv == Init => IInv
<1> SUFFICES ASSUME Init PROVE IInv
  OBVIOUS
<1>1. objects \in [Kinds -> {"absent", "present", "terminating"}]
  BY DEF Init
<1>2. NoProps \in PropsType BY DEF NoProps, PropsType
<1>3. budget \in [faults : Nat, crashes : Nat]
  BY BoundsAssumption DEF Init
<1>4. step \in 0 .. 7 /\ step = 0 BY DEF Init
<1>5. /\ filled \in BOOLEAN /\ overlap \in BOOLEAN /\ stage \in Stages
      /\ op = "none" /\ props \in PropsType /\ saved \in PropsType
  BY <1>2 DEF Init, Stages
<1>6. TypeOK
  BY <1>1, <1>3, <1>4, <1>5 DEF TypeOK
<1> QED BY <1>6
        DEF Init, IInv, StageOK, DeletedSoFar, CreatedSoFar, WorkerConnected,
            ConnectedWhenStarted, UsableWhenStarted, NothingLeftBehind

\* A POST makes an object of a create; the others are as they were.
LEMMA PostKeeps == IInv /\ Post => IInv'
<1> SUFFICES ASSUME IInv, Post PROVE IInv'
  OBVIOUS
<1>1. PICK answer \in Answers :
        /\ Exchange("post")
        /\ IF objects[Kind] = "absent" /\ answer # "dropped"
           THEN /\ objects' = [objects EXCEPT ![Kind] = "present"]
                /\ filled' = (filled /\ Kind # "secret")
           ELSE UNCHANGED <<objects, filled>>
        /\ AfterPost(answer)
        /\ Charge(answer)
  BY DEF Post
<1>2. TypeOK /\ StageOK BY DEF IInv
<1>3. op = "create" /\ stage = "starting" /\ Kind \in Kinds
  BY <1>1, <1>2, PostPlace DEF StageOK
<1>4. /\ objects' \in [Kinds -> {"absent", "present", "terminating"}]
      /\ filled' \in BOOLEAN
      /\ \A k \in Kinds : objects[k] = "present" => objects'[k] = "present"
      /\ \A k \in Kinds :
             objects[k] # "terminating" => objects'[k] # "terminating"
      /\ answer = "ok" /\ objects[Kind] # "terminating" =>
             objects'[Kind] = "present"
  BY <1>1, <1>2, <1>3 DEF TypeOK
<1>5. /\ step' \in {0, step + 1, step + 2} /\ step' \in 0 .. 7
      /\ step' > step + 1 => step = 5
      /\ step' # 0 => answer = "ok" \/ step = 5
      /\ UNCHANGED <<stage, op, overlap, props>>
      /\ saved' \in {saved, props}
  BY <1>1, <1>2, PostPlace DEF AfterPost, Goto, Fails, TypeOK
<1>6. TypeOK'
  BY <1>1, <1>2, <1>3, <1>4, <1>5, ChargeType, Plans DEF TypeOK
<1>7. CreatedSoFar'
  <2> SUFFICES ASSUME ~overlap
               PROVE  /\ \A k \in Kinds : objects'[k] # "terminating"
                      /\ step' > 2 =>
                             objects'["cluster_role_binding"] = "present"
                      /\ step' > 4 => objects'["service_account"] = "present"
    BY <1>5 DEF CreatedSoFar
  <2>1. /\ \A k \in Kinds : objects[k] # "terminating"
        /\ step > 2 => objects["cluster_role_binding"] = "present"
        /\ step > 4 => objects["service_account"] = "present"
    BY <1>3 DEF IInv, CreatedSoFar
  <2> QED BY <1>1, <1>2, <1>3, <1>4, <1>5, <2>1, PostPlace DEF Kinds, TypeOK
<1> QED BY <1>3, <1>5, <1>6, <1>7
        DEF IInv, StageOK, DeletedSoFar, WorkerConnected,
            ConnectedWhenStarted, UsableWhenStarted, NothingLeftBehind

\* A read changes nothing in the cluster; the last of a create starts the node.
LEMMA GetKeeps == IInv /\ Get => IInv'
<1> SUFFICES ASSUME IInv, Get PROVE IInv'
  OBVIOUS
<1>1. PICK answer \in Answers :
        /\ Exchange("get")
        /\ IF answer = "ok" /\ objects[Kind] # "absent" THEN AfterGet
           ELSE IF op = "create" /\ step = Len(Plan(op)) - 1
           THEN Goto(step + 1, props)
           ELSE Fails
        /\ Charge(answer)
        /\ UNCHANGED <<objects, filled>>
  BY DEF Get
<1>2. TypeOK /\ StageOK BY DEF IInv
<1>3. op \in {"create", "read", "status"} /\ Kind \in Kinds
  BY <1>1, <1>2, GetPlace
<1>4. budget' \in [faults : Nat, crashes : Nat]
  BY <1>1, <1>2, ChargeType
<1>5. CASE Fails
  BY <1>1, <1>2, <1>4, <1>5
     DEF Fails, IInv, TypeOK, StageOK, DeletedSoFar, CreatedSoFar,
         WorkerConnected, ConnectedWhenStarted, UsableWhenStarted,
         NothingLeftBehind
<1>6. CASE op = "create" /\ step = 6 /\ Goto(7, props)
  BY <1>1, <1>2, <1>4, <1>6, Plans
     DEF Goto, IInv, TypeOK, StageOK, DeletedSoFar, CreatedSoFar,
         WorkerConnected, ConnectedWhenStarted, UsableWhenStarted,
         NothingLeftBehind
<1>7. CASE answer = "ok" /\ objects[Kind] # "absent" /\ Kind # "secret"
           /\ AfterGet
  <2>1. /\ step' = step + 1 /\ UNCHANGED <<stage, op, saved, overlap>>
        /\ props' \in PropsType /\ props'.token = props.token
    BY <1>2, <1>7, <1>3 DEF AfterGet, Goto, Kinds, TypeOK, PropsType
  <2>2. /\ step \in {1, 2, 4} /\ (op # "create" => step < 3)
        /\ op = "create" /\ step = 2 => Kind = "cluster_role_binding"
        /\ op = "create" /\ step = 4 => Kind = "service_account"
        /\ op = "create" => step # 1
    BY <1>1, <1>2, <1>7, GetPlace
  <2>3. TypeOK'
    BY <1>1, <1>2, <1>3, <1>4, <2>1, <2>2, Plans DEF TypeOK
  <2>4. CreatedSoFar'
    BY <1>1, <1>2, <1>7, <2>1, <2>2 DEF IInv, CreatedSoFar, TypeOK, Kinds
  <2> QED BY <1>1, <1>3, <2>1, <2>3, <2>4
          DEF IInv, StageOK, DeletedSoFar, WorkerConnected,
              ConnectedWhenStarted, UsableWhenStarted, NothingLeftBehind
<1>8. CASE answer = "ok" /\ objects[Kind] # "absent" /\ Kind = "secret"
           /\ AfterGet /\ ~Fails
  <2>1. PICK p \in {props, [props EXCEPT !.token = TRUE]} :
          /\ Leaves("success", p)
          /\ op # "status" => filled /\ p.token
          /\ props.token => p.token
    BY <1>2, <1>8, <1>3 DEF AfterGet, TokenRead, TypeOK, PropsType
  <2>2. /\ op' = "none" /\ step' = 0 /\ props' = p /\ saved' = p
        /\ stage' = "started" /\ overlap' = overlap
    BY <1>2, <1>3, <2>1 DEF Leaves, StageOK
  <2>3. p \in PropsType /\ p.token
    BY <1>2, <1>3, <2>1 DEF IInv, StageOK, WorkerConnected, TypeOK, PropsType
  <2>4. TypeOK'
    BY <1>1, <1>2, <1>4, <2>2, <2>3 DEF TypeOK, Stages
  <2>5. UsableWhenStarted'
    <3>1. CASE op = "create"
      <4>1. step > 4
        BY <1>1, <1>2, <1>8, <3>1, GetPlace
      <4> QED BY <1>1, <1>2, <1>8, <2>1, <2>2, <3>1, <4>1
              DEF UsableWhenStarted, IInv, CreatedSoFar, TypeOK, Kinds
    <3>2. CASE op # "create"
      BY <1>1, <1>2, <1>3, <2>2, <3>2 DEF UsableWhenStarted, IInv, StageOK
    <3> QED BY <3>1, <3>2
  <2> QED BY <2>2, <2>3, <2>4, <2>5
          DEF IInv, StageOK, DeletedSoFar, CreatedSoFar, WorkerConnected,
              ConnectedWhenStarted, NothingLeftBehind
<1>9. CASE answer = "ok" /\ objects[Kind] # "absent"
  <2>1. AfterGet BY <1>1, <1>9
  <2> QED BY <2>1, <1>5, <1>7, <1>8, <1>9
<1>10. CASE ~(answer = "ok" /\ objects[Kind] # "absent")
  <2>1. op = "create" => Len(Plan(op)) - 1 = 6 BY Plans
  <2>2. \/ Fails
        \/ op = "create" /\ step = Len(Plan(op)) - 1 /\ Goto(step + 1, props)
    BY <1>1, <1>10
  <2>3. \/ Fails
        \/ op = "create" /\ step = 6 /\ Goto(7, props)
    <3>1. CASE Fails BY <3>1
    <3>2. CASE /\ op = "create" /\ step = Len(Plan(op)) - 1
               /\ Goto(step + 1, props)
      <4>1. step = 6 /\ step + 1 = 7 BY <2>1, <3>2
      <4> QED BY <3>2, <4>1
    <3> QED BY <2>2, <3>1, <3>2
  <2> QED BY <2>3, <1>5, <1>6
<1> QED BY <1>9, <1>10

\* A DELETE leaves no object of its kind, and the last one ends the stop.
LEMMA DeleteKeeps == IInv /\ Delete => IInv'
<1> SUFFICES ASSUME IInv, Delete PROVE IInv'
  OBVIOUS
<1>1. PICK answer \in Answers :
        /\ Exchange("delete")
        /\ IF objects[Kind] # "absent" /\ answer # "dropped"
           THEN \E left \in {"absent", "terminating"} :
                    objects' = [objects EXCEPT ![Kind] = left]
           ELSE UNCHANGED objects
        /\ IF answer = "ok" THEN AfterDelete(objects[Kind] # "absent")
           ELSE Fails
        /\ Charge(answer)
        /\ UNCHANGED filled
  BY DEF Delete
<1>2. TypeOK /\ StageOK BY DEF IInv
<1>3. op = "delete" /\ stage = "stopping" /\ Kind \in Kinds
  BY <1>1, <1>2, DeletePlace DEF StageOK
<1>4. budget' \in [faults : Nat, crashes : Nat]
  BY <1>1, <1>2, ChargeType
<1>5. /\ objects' \in [Kinds -> {"absent", "present", "terminating"}]
      /\ \A k \in Kinds : objects[k] # "present" => objects'[k] # "present"
      /\ answer = "ok" => objects'[Kind] # "present"
  BY <1>1, <1>2, <1>3 DEF TypeOK
<1>6. CASE Fails
  BY <1>1, <1>2, <1>3, <1>4, <1>5, <1>6
     DEF Fails, IInv, TypeOK, StageOK, DeletedSoFar, CreatedSoFar,
         WorkerConnected, ConnectedWhenStarted, UsableWhenStarted,
         NothingLeftBehind
<1>7. CASE answer = "ok" /\ Kind # "cluster_role_binding"
  <2>1. /\ step' = step + 1 /\ step \in {1, 2}
        /\ UNCHANGED <<stage, op, saved, overlap>>
        /\ props' \in PropsType
    BY <1>1, <1>2, <1>3, <1>7, DeletePlace
       DEF AfterDelete, Goto, Kinds, TypeOK, PropsType
  <2>2. DeletedSoFar'
    BY <1>1, <1>2, <1>3, <1>5, <1>7, <2>1, DeletePlace
       DEF IInv, DeletedSoFar, Kinds
  <2>3. TypeOK'
    BY <1>1, <1>2, <1>3, <1>4, <1>5, <2>1, Plans DEF TypeOK
  <2> QED BY <1>3, <2>1, <2>2, <2>3
          DEF IInv, StageOK, CreatedSoFar, WorkerConnected,
              ConnectedWhenStarted, UsableWhenStarted, NothingLeftBehind
<1>8. CASE answer = "ok" /\ Kind = "cluster_role_binding"
  <2>1. /\ op' = "none" /\ step' = 0 /\ stage' = "stopped"
        /\ props' = props /\ saved' = props /\ overlap' = overlap
    BY <1>1, <1>3, <1>8 DEF AfterDelete, Leaves
  <2>2. NothingLeftBehind'
    BY <1>1, <1>2, <1>3, <1>5, <1>8, DeletePlace
       DEF IInv, DeletedSoFar, NothingLeftBehind, Kinds
  <2>3. TypeOK'
    BY <1>1, <1>2, <1>4, <1>5, <2>1 DEF TypeOK, Stages
  <2> QED BY <2>1, <2>2, <2>3
          DEF IInv, StageOK, DeletedSoFar, CreatedSoFar, WorkerConnected,
              ConnectedWhenStarted, UsableWhenStarted
<1> QED BY <1>1, <1>6, <1>7, <1>8

\* What the engine does: it starts, repeats and gives up operations.
LEMMA EngineKeeps ==
    IInv /\ (NoServiceAccount \/ Retry \/ Exhaust \/ Crash
             \/ \E o \in Ops : Start(o)) => IInv'
<1> SUFFICES ASSUME IInv PROVE
        (NoServiceAccount \/ Retry \/ Exhaust \/ Crash
         \/ \E o \in Ops : Start(o)) => IInv'
  OBVIOUS
<1> USE DEF IInv, TypeOK, StageOK, DeletedSoFar, CreatedSoFar,
            WorkerConnected, ConnectedWhenStarted, UsableWhenStarted,
            NothingLeftBehind
<1>1. ASSUME NoServiceAccount PROVE IInv'
  BY <1>1 DEF NoServiceAccount, Fails
<1>2. ASSUME Retry PROVE IInv'
  BY <1>2, Plans DEF Retry, Goto, Ops
<1>3. ASSUME NEW r \in {"exhausted", "crashed"},
             NEW p \in {props, saved},
             op # "none", Leaves(r, p), UNCHANGED <<objects, filled>>,
             budget' \in [faults : Nat, crashes : Nat]
      PROVE  IInv'
  BY <1>3 DEF Leaves, Stages, Ops
<1>4. ASSUME Exhaust PROVE IInv'
  BY <1>3, <1>4 DEF Exhaust
<1>5. ASSUME Crash PROVE IInv'
  <2>1. budget' \in [faults : Nat, crashes : Nat]
    BY <1>5 DEF Crash
  <2> QED BY <1>3, <1>5, <2>1 DEF Crash
<1>6. ASSUME NEW o \in Ops, Start(o) PROVE IInv'
  <2>1. /\ op = "none" /\ op' = o /\ step' = 1 /\ MayStart(o)
        /\ UNCHANGED <<objects, filled, props, saved, budget>>
        /\ stage' = CASE o = "create" -> "starting"
                      [] o = "delete" -> "stopping"
                      [] OTHER        -> stage
        /\ overlap' = IF o = "create"
                      THEN \E k \in Kinds : objects[k] = "terminating"
                      ELSE overlap
    BY <1>6 DEF Start
  <2>2. CASE o = "create" BY <2>1, <2>2, Plans DEF Stages, Ops
  <2>3. CASE o = "delete" BY <2>1, <2>3, Plans DEF Stages, Ops
  <2>4. CASE o \in {"read", "status"}
    <3>1. stage = "started" /\ stage' = stage /\ overlap' = overlap
      BY <2>1, <2>4 DEF MayStart
    <3>2. Len(Plan(o)) = 3 BY <2>4, Plans
    <3>3. op' \in Ops /\ 1 <= Len(Plan(op')) BY <2>1, <3>2
    <3>4. op' # "create" /\ op' # "delete" /\ op' # "none" BY <2>1, <2>4
    <3> QED BY <2>1, <3>1, <3>3, <3>4
  <2> QED BY <2>2, <2>3, <2>4 DEF Ops
<1> QED BY <1>1, <1>2, <1>4, <1>5, <1>6

\* What the cluster does by itself takes away nothing a started node needs.
LEMMA ClusterKeeps == IInv /\ Cluster => IInv'
<1> SUFFICES ASSUME IInv, Cluster PROVE IInv'
  OBVIOUS
<1> USE DEF IInv, TypeOK, StageOK, DeletedSoFar, CreatedSoFar,
            WorkerConnected, ConnectedWhenStarted, UsableWhenStarted,
            NothingLeftBehind, Kinds
<1>1. CASE FillSecret BY <1>1 DEF FillSecret
<1>2. CASE CollectSecret BY <1>2 DEF CollectSecret
<1>3. ASSUME NEW k \in Kinds, Finalize(k) PROVE IInv'
  BY <1>3 DEF Finalize
<1> QED BY <1>1, <1>2, <1>3 DEF Cluster

LEMMA NextInv == IInv /\ [Next]_vars => IInv'
<1>1. IInv /\ UNCHANGED vars => IInv'
  BY DEF vars, IInv, TypeOK, StageOK, DeletedSoFar, CreatedSoFar,
         WorkerConnected, ConnectedWhenStarted, UsableWhenStarted,
         NothingLeftBehind
<1> QED BY <1>1, PostKeeps, GetKeeps, DeleteKeeps, EngineKeeps, ClusterKeeps
        DEF Next, Worker

\* The strengthened invariant always holds.
LEMMA Inductive == Spec => []IInv
BY InitInv, NextInv, PTL DEF Spec

\* Every variable keeps its type and the worker keeps to its plan.
THEOREM TypeCorrect == Spec => []TypeOK
<1>1. IInv => TypeOK BY DEF IInv
<1> QED BY Inductive, <1>1, PTL

\* The nodes that connect to a started shared cluster find its token.
THEOREM StartedIsConnected == Spec => []ConnectedWhenStarted
<1>1. IInv => ConnectedWhenStarted BY DEF IInv
<1> QED BY Inductive, <1>1, PTL

\* The token of a started shared cluster works.
THEOREM StartedIsUsable == Spec => []UsableWhenStarted
<1>1. IInv => UsableWhenStarted BY DEF IInv
<1> QED BY Inductive, <1>1, PTL

\* A stop that succeeds has left nothing in the cluster.
THEOREM StopIsClean == Spec => []NothingLeftBehind
<1>1. IInv => NothingLeftBehind BY DEF IInv
<1> QED BY Inductive, <1>1, PTL
=============================================================================
