--------------------------- MODULE NodePoolProofs ---------------------------
(***************************************************************************)
(* Proofs about NodePool.  What makes the reconcile safe although it reads *)
(* the pool once and acts on the copy: only the reconcile writes the       *)
(* binding, a pool with a binding has the finalizer and so outlives the    *)
(* reconcile, and ids of groups are not given twice.                       *)
(***************************************************************************)
EXTENDS NodePool, TLAPS

\* The steps of FixNodePool, of CreateNodeGroup up to the stored binding, of ModifyNodeGroup
\* up to the stored hash, and of the deletion.
Fixing == {"list", "labels", "triple", "ecs", "fixup", "repair"}
Creating == {"find", "create", "enable", "savenew", "bind"}
Setting == {"savemod", "label"}
Deleting == {"delgroup", "delbackup", "unfinal"}

\* The object: with a binding it has the finalizer, and its hash was computed
\* without binding, with the present one, or with one whose group is gone.
ObjInv ==
  /\ obj.uid = 0 => obj = NoPool
  /\ obj.del => obj.fin
  /\ obj.bind # 0 => obj.uid \in pools /\ groups[obj.bind] # NoGroup
  /\ obj.uid \in pools => obj.fin
  /\ obj.hash[1] = 0 \/ obj.hash[1] = obj.bind \/ groups[obj.hash[1]] = DeadGroup

\* The copy: while it has a binding, or its pool ever had one, it is a copy of
\* the object that is there.
CopyInv ==
  /\ IF pc = "idle" THEN np = NoPool ELSE np.uid # 0
  /\ np.uid \in pools => obj.uid = np.uid
  /\ np.bind # 0 => obj.bind = np.bind
  /\ pc \in Creating => np.bind = 0 /\ ~Exists(obj.bind)
  /\ pc \in Creating \cup Setting \cup {"modify"} => hasho[1] = np.bind
  /\ pc \in {"modify", "savemod"} => hasho[2] = np.want /\ np.bind # 0
  /\ pc \in Fixing => obj.bind = 0 \/ obj.bind = np.bind
  /\ pc \in Deleting => obj.del /\ obj.uid = np.uid /\ obj.bind = np.bind

\* The groups: one for each pool, the one that is created is the first.
GroupInv ==
  /\ OneGroup
  /\ \A g \in 1..MaxGroup : groups[g].uid = 0 => groups[g] \in {NoGroup, DeadGroup}
  /\ pc = "create" => \A g \in 1..MaxGroup : groups[g].uid # np.uid
  /\ pc \in {"enable", "savenew", "bind"} => sg # 0 /\ groups[sg] # NoGroup

\* What a deletion has done so far.
CleanInv ==
  /\ NothingLeft
  /\ (pc \in {"delbackup", "unfinal"} /\ ~swallowed) => ~Exists(np.bind)
  /\ pc = "unfinal" => backup = NoPool

\* A hash that was computed with the binding tells the group's capacity.
HashInv ==
  /\ (~lapse /\ obj.hash[1] = obj.bind /\ Exists(obj.bind) /\ pc \notin Setting)
       => groups[obj.bind].cap = obj.hash[2]
  /\ (pc \in Setting /\ Exists(hasho[1])) => groups[hasho[1]].cap = hasho[2]

Core == ObjInv /\ CopyInv /\ GroupInv /\ CleanInv /\ HashInv
IInv == TypeOK /\ Core

----------------------------------------------------------------------------
\* A request fails within the bound, or nothing fails.
LEMMA MishapType == ASSUME TypeOK, Mishap \/ Fine PROVE mishaps' \in 0..MaxMishaps
  BY PoolAssumption DEF TypeOK, Mishap, Fine

\* The constants of the model and the updates of a pool and of a group.
LEMMA Zero == 0 \in Binds
  BY PoolAssumption DEF Binds

LEMMA NoHashType == NoHash \in Hashes /\ NoHash[1] = 0
  BY PoolAssumption, Zero DEF NoHash, Hashes

LEMMA NoPoolType == NoPool \in Pools
  BY PoolAssumption, Zero, NoHashType DEF NoPool, Pools

LEMMA HashType ==
  ASSUME NEW p \in Pools
  PROVE  Hash(p) \in Hashes /\ Hash(p)[1] = p.bind /\ Hash(p)[2] = p.want
  BY PoolAssumption DEF Pools, Hash, Hashes

LEMMA BindUpdate ==
  ASSUME NEW p \in Pools, NEW b \in Binds
  PROVE  /\ [p EXCEPT !.bind = b] \in Pools
         /\ [p EXCEPT !.bind = b, !.fin = TRUE] \in Pools
  BY Zenon DEF Pools

LEMMA HashUpdate ==
  ASSUME NEW p \in Pools, NEW h \in Hashes PROVE [p EXCEPT !.hash = h] \in Pools
  BY DEF Pools

LEMMA WantUpdate ==
  ASSUME NEW p \in Pools, NEW n \in 0..MaxWant PROVE [p EXCEPT !.want = n] \in Pools
  BY DEF Pools

LEMMA DelUpdate == ASSUME NEW p \in Pools PROVE [p EXCEPT !.del = TRUE] \in Pools
  BY Zenon DEF Pools

LEMMA NewPool ==
  ASSUME NEW u \in 0..MaxUid, NEW n \in 0..MaxWant
  PROVE  [NoPool EXCEPT !.uid = u, !.want = n] \in Pools
  BY NoPoolType, Zenon DEF Pools

LEMMA GroupType ==
  /\ NoGroup \in Groups /\ DeadGroup \in Groups /\ NoGroup # DeadGroup
  /\ NoGroup.uid = 0 /\ DeadGroup.uid = 0
<1>1. NoGroup \in Groups
  BY PoolAssumption DEF NoGroup, Groups
<1>2. DeadGroup \in Groups
  BY <1>1, Zenon DEF DeadGroup, Groups
<1>3. /\ NoGroup.uid = 0 /\ DeadGroup.uid = 0
      /\ NoGroup.kept = FALSE /\ DeadGroup.kept = TRUE
  BY DEF NoGroup, DeadGroup
<1> QED
  BY <1>1, <1>2, <1>3

LEMMA GroupUpdate ==
  ASSUME NEW r \in Groups
  PROVE  /\ [r EXCEPT !.enabled = TRUE] \in Groups
         /\ [r EXCEPT !.kept = TRUE] \in Groups
  BY Zenon DEF Groups

LEMMA CapUpdate ==
  ASSUME NEW r \in Groups, NEW n \in 0..MaxWant PROVE [r EXCEPT !.cap = n] \in Groups
  BY DEF Groups

LEMMA NewGroup ==
  ASSUME NEW u \in 0..MaxUid, NEW n \in 0..MaxWant
  PROVE  [uid |-> u, cap |-> n, enabled |-> FALSE, kept |-> FALSE] \in Groups
  BY DEF Groups

LEMMA InitType == Init => TypeOK
<1> SUFFICES ASSUME Init PROVE TypeOK
  OBVIOUS
<1>1. /\ obj \in Pools /\ np \in Pools /\ backup \in Pools /\ hasho \in Hashes
      /\ queued \in BOOLEAN /\ sg \in Binds
  BY Zero, NoHashType, NoPoolType, Zenon DEF Init
<1>2. groups \in [1..MaxGroup -> Groups]
  BY GroupType DEF Init
<1>3. home \in [Workers -> -1..MaxGroup]
  BY PoolAssumption DEF Init, Fresh
<1>4. edits \in 0..MaxEdits /\ mishaps \in 0..MaxMishaps
  BY PoolAssumption DEF Init
<1> QED
  BY <1>1, <1>2, <1>3, <1>4, Zenon DEF Init, TypeOK

\* The end of FixNodePool.
LEMMA AfterFixType ==
  ASSUME TypeOK, NEW p \in Pools, AfterFix(p)
  PROVE  /\ np' \in Pools /\ hasho' \in Hashes /\ sg' \in Binds /\ queued' \in BOOLEAN
         /\ pc' \in {"idle", "find", "modify"}
         /\ det' = {} /\ seen' = {} /\ sready' = {} /\ last' = NoWorker
  BY Zero, NoHashType, NoPoolType, HashType DEF TypeOK, AfterFix, Done, Return, Goto

\* The reconcile returns.
LEMMA ReturnType ==
  ASSUME Return
  PROVE  np' \in Pools /\ hasho' \in Hashes /\ sg' \in Binds /\ pc' = "idle"
  BY Zero, NoHashType, NoPoolType DEF Return

LEMMA FixType ==
  ASSUME TypeOK,
         Get \/ ListECS \/ FixRefused \/ LabelNodes \/ ReadNodes \/ ReadECS \/ DeleteNode \/ Repair
  PROVE  TypeOK'
<1> USE DEF fvars, wvars, hvars
<1>0. [np EXCEPT !.bind = 0] \in Pools
  BY Zero, BindUpdate, Zenon DEF TypeOK
<1>a. np \in Pools
  BY DEF TypeOK
<1>1. CASE Get
  BY <1>1, Zenon DEF Get, TypeOK
<1>2. CASE ListECS
  <2>1. CASE GroupMissing
    BY <1>0, <1>2, <2>1, AfterFixType DEF ListECS, GroupMissing, TypeOK
  <2>2. CASE ~GroupMissing
    BY <1>2, <2>2 DEF ListECS, Goto, TypeOK, Instances
  <2> QED
    BY <2>1, <2>2
<1>3. CASE FixRefused
  BY <1>a, <1>3, AfterFixType DEF FixRefused, FixEnds, TypeOK
<1>4. CASE LabelNodes
  <2>1. mishaps' \in 0..MaxMishaps /\ lab' \subseteq node
    BY <1>4, MishapType DEF LabelNodes, TypeOK
  <2>2. CASE FixEnds
    BY <1>a, <1>4, <2>1, <2>2, AfterFixType DEF LabelNodes, FixEnds, TypeOK
  <2>3. CASE ~FixEnds
    BY <1>4, <2>1, <2>3 DEF LabelNodes, Goto, TypeOK
  <2> QED
    BY <2>2, <2>3
<1>5. CASE ReadNodes
  BY <1>5 DEF ReadNodes, Goto, TypeOK
<1>6. CASE ReadECS
  <2>1. CASE GroupMissing
    BY <1>0, <1>6, <2>1, AfterFixType DEF ReadECS, GroupMissing, TypeOK
  <2>2. CASE ~GroupMissing
    BY <1>6, <2>2 DEF ReadECS, Goto, TypeOK, Instances
  <2> QED
    BY <2>1, <2>2
<1>7. CASE DeleteNode
  <2>1. mishaps' \in 0..MaxMishaps
    BY <1>7, MishapType DEF DeleteNode, TypeOK
  <2>2. /\ node' \subseteq Workers /\ ready' \subseteq node' /\ lab' \subseteq node'
    BY <1>7 DEF DeleteNode, TypeOK
  <2>3. CASE FixEnds
    BY <1>a, <1>7, <2>1, <2>2, <2>3, AfterFixType DEF DeleteNode, FixEnds, TypeOK
  <2>4. CASE ~FixEnds
    <3>1. Goto("repair") /\ UNCHANGED <<np, hasho, sg, fvars>>
      BY <1>7, <2>4 DEF DeleteNode
    <3> QED
      BY <1>7, <2>1, <2>2, <3>1 DEF DeleteNode, Goto, TypeOK
  <2> QED
    BY <2>3, <2>4
<1>8. CASE Repair
  <2>1. mishaps' \in 0..MaxMishaps
    BY <1>8, MishapType DEF Repair
  <2>2. node' \subseteq Workers /\ ready' \subseteq node' /\ boot' \subseteq Workers /\ lab \subseteq node'
    BY <1>8 DEF Repair, TypeOK
  <2> QED
    BY <1>a, <1>8, <2>1, <2>2, AfterFixType DEF Repair, FixEnds, TypeOK
<1> QED
  BY <1>1, <1>2, <1>3, <1>4, <1>5, <1>6, <1>7, <1>8

LEMMA CreateType ==
  ASSUME TypeOK, FindGroup \/ CreateGroup \/ EnableGroup \/ SaveBackup \/ PatchBind
  PROVE  TypeOK'
<1> USE DEF fvars, wvars, hvars
<1>0. mishaps' \in 0..MaxMishaps
  BY MishapType DEF FindGroup, CreateGroup, EnableGroup, SaveBackup, PatchBind
<1>r. ASSUME Return PROVE np' \in Pools /\ hasho' \in Hashes /\ sg' \in Binds /\ pc' = "idle"
  BY <1>r, ReturnType
<1>1. CASE FindGroup
  <2>1. CASE Fail
    BY <1>0, <1>1, <1>r, <2>1 DEF FindGroup, Fail, TypeOK
  <2>2. CASE ~Fail
    <3>1. sg' \in Binds /\ UNCHANGED <<np, hasho, queued>> /\ pc' \in {"create", "enable"}
      BY <1>1, <2>2 DEF FindGroup, Goto, GroupsOf, Binds, TypeOK
    <3> QED
      BY <1>0, <1>1, <3>1 DEF FindGroup, TypeOK
  <2> QED
    BY <2>1, <2>2
<1>2. CASE CreateGroup
  <2>1. groups' \in [1..MaxGroup -> Groups]
    <3>1. [uid |-> np.uid, cap |-> np.want, enabled |-> FALSE, kept |-> FALSE] \in Groups
      BY NewGroup DEF TypeOK, Pools
    <3> QED
      BY <1>2, <3>1, Zenon DEF CreateGroup, TypeOK, NextGroup
  <2>2. CASE Fail
    BY <1>0, <1>2, <1>r, <2>1, <2>2 DEF CreateGroup, Fail, TypeOK
  <2>3. CASE ~Fail
    <3>1. sg' \in Binds /\ UNCHANGED <<np, hasho, queued>> /\ pc' = "enable"
      BY <1>2, <2>3 DEF CreateGroup, Goto, NextGroup, Binds, TypeOK
    <3> QED
      BY <1>0, <1>2, <2>1, <3>1 DEF CreateGroup, TypeOK
  <2> QED
    BY <2>2, <2>3
<1>3. CASE EnableGroup
  <2>1. groups' \in [1..MaxGroup -> Groups]
    <3>1. groups' = groups \/ groups' = [groups EXCEPT ![sg].enabled = TRUE]
      BY <1>3 DEF EnableGroup
    <3>2. groups \in [1..MaxGroup -> Groups]
      BY DEF TypeOK
    <3> QED
      BY <3>1, <3>2, GroupUpdate, Zenon
  <2>2. CASE Fail
    BY <1>0, <1>3, <1>r, <2>1, <2>2 DEF EnableGroup, Fail, TypeOK
  <2>3. CASE ~Fail
    BY <1>0, <1>3, <2>1, <2>3 DEF EnableGroup, Goto, TypeOK
  <2> QED
    BY <2>2, <2>3
<1>4. CASE SaveBackup
  BY <1>0, <1>4 DEF SaveBackup, Goto, TypeOK
<1>5. CASE PatchBind
  <2>1. groups' \in [1..MaxGroup -> Groups]
    <3>1. groups' = groups \/ groups' = [groups EXCEPT ![sg].kept = TRUE]
      BY <1>5 DEF PatchBind
    <3>2. groups \in [1..MaxGroup -> Groups]
      BY DEF TypeOK
    <3> QED
      BY <3>1, <3>2, GroupUpdate, Zenon
  <2>2. obj' \in Pools
    <3>1. obj' = obj \/ obj' = [obj EXCEPT !.bind = sg, !.fin = TRUE]
      BY <1>5 DEF PatchBind
    <3>2. obj \in Pools /\ sg \in Binds
      BY DEF TypeOK
    <3> QED
      BY <3>1, <3>2, BindUpdate, Zenon
  <2>3. pools' \subseteq 1..MaxUid
    <3>1. obj.uid \in 0..MaxUid
      BY DEF TypeOK, Pools
    <3> QED
      BY <1>5, <3>1, PoolAssumption DEF PatchBind, TypeOK
  <2>4. CASE Fail
    BY <1>0, <1>5, <1>r, <2>1, <2>2, <2>3, <2>4 DEF PatchBind, Fail, TypeOK
  <2>5. CASE ~Fail
    BY <1>0, <1>5, <2>1, <2>2, <2>3, <2>5, Zenon DEF PatchBind, TypeOK
  <2> QED
    BY <2>4, <2>5
<1> QED
  BY <1>1, <1>2, <1>3, <1>4, <1>5

LEMMA ModifyType ==
  ASSUME TypeOK, ModifyGroup \/ PatchHash \/ DeleteBackup \/ RemoveFinalizer
  PROVE  TypeOK'
<1> USE DEF fvars, wvars, hvars
<1>0. mishaps' \in 0..MaxMishaps
  BY MishapType DEF ModifyGroup, PatchHash, DeleteBackup, RemoveFinalizer
<1>r. ASSUME Return PROVE np' \in Pools /\ hasho' \in Hashes /\ sg' \in Binds /\ pc' = "idle"
  BY <1>r, ReturnType
<1>1. CASE ModifyGroup
  <2>1. groups' \in [1..MaxGroup -> Groups]
    <3>1. np.want \in 0..MaxWant
      BY DEF TypeOK, Pools
    <3> QED
      BY <1>1, <3>1, CapUpdate DEF ModifyGroup, TypeOK
  <2>2. CASE Fail
    BY <1>0, <1>1, <1>r, <2>1, <2>2, Zenon DEF ModifyGroup, Fail, TypeOK
  <2>3. CASE ~Fail
    BY <1>0, <1>1, <2>1, <2>3 DEF ModifyGroup, Goto, TypeOK
  <2> QED
    BY <2>2, <2>3
<1>2. CASE PatchHash
  <2>1. obj' \in Pools
    BY <1>2, HashUpdate DEF PatchHash, TypeOK
  <2>2. Return /\ queued' \in BOOLEAN /\ lapse' \in BOOLEAN
    BY <1>2, Zenon DEF PatchHash, Done, TypeOK
  <2> QED
    BY <1>0, <1>2, <1>r, <2>1, <2>2 DEF PatchHash, TypeOK
<1>3. CASE DeleteBackup
  <2>1. backup' \in Pools
    BY <1>3, NoPoolType DEF DeleteBackup, TypeOK
  <2>2. CASE Fail
    BY <1>0, <1>3, <1>r, <2>1, <2>2 DEF DeleteBackup, Fail, TypeOK
  <2>3. CASE ~Fail
    BY <1>0, <1>3, <2>1, <2>3 DEF DeleteBackup, Goto, TypeOK
  <2> QED
    BY <2>2, <2>3
<1>4. CASE RemoveFinalizer
  <2>1. obj' \in Pools /\ queued' = TRUE /\ Return
    BY <1>4, NoPoolType DEF RemoveFinalizer, Fail, TypeOK
  <2> QED
    BY <1>0, <1>4, <1>r, <2>1 DEF RemoveFinalizer, TypeOK
<1> QED
  BY <1>1, <1>2, <1>3, <1>4

\* A group goes with its instances.
LEMMA DropType ==
  ASSUME TypeOK, NEW g, DropGroup(g)
  PROVE  /\ groups' \in [1..MaxGroup -> Groups] /\ home' \in [Workers -> -1..MaxGroup]
         /\ boot' \subseteq boot /\ ready' \subseteq ready /\ UNCHANGED <<node, lab>>
<1>1. groups' \in [1..MaxGroup -> Groups]
  BY GroupType, Zenon DEF DropGroup, TypeOK
<1>2. home' \in [Workers -> -1..MaxGroup]
  BY PoolAssumption DEF DropGroup, TypeOK, Released
<1> QED
  BY <1>1, <1>2 DEF DropGroup

LEMMA DeleteType == ASSUME TypeOK, DeleteNodeGroup PROVE TypeOK'
<1> USE DEF fvars, wvars, hvars
<1>0. mishaps' \in 0..MaxMishaps
  BY MishapType DEF DeleteNodeGroup
<1>1. CASE DropGroup(np.bind)
  <2>1. CASE Fail
    BY <1>0, <1>1, <2>1, ReturnType, DropType, Zenon DEF DeleteNodeGroup, Fail, TypeOK
  <2>2. CASE ~Fail
    BY <1>0, <1>1, <2>2, DropType, Zenon DEF DeleteNodeGroup, Goto, TypeOK
  <2> QED
    BY <2>1, <2>2
<1>2. CASE ~DropGroup(np.bind)
  <2>1. CASE Fail
    BY <1>0, <1>2, <2>1, ReturnType, Zenon DEF DeleteNodeGroup, Fail, TypeOK
  <2>2. CASE ~Fail
    BY <1>0, <1>2, <2>2, Zenon DEF DeleteNodeGroup, Goto, TypeOK
  <2> QED
    BY <2>1, <2>2
<1> QED
  BY <1>1, <1>2

LEMMA EnvironmentType ==
  ASSUME TypeOK,
         \/ Resync \/ UserCreates \/ UserScales \/ UserDeletes \/ Launch \/ Release
         \/ Register \/ GroupLost \/ KubeletStops \/ Crash
  PROVE  TypeOK'
<1> USE DEF fvars, wvars, hvars, rest, cloud
<1>m. ASSUME Mishap PROVE mishaps' \in 0..MaxMishaps
  BY <1>m, MishapType
<1>e. ASSUME Edit PROVE edits' \in 0..MaxEdits
  BY <1>e, PoolAssumption DEF Edit, TypeOK
<1>1. CASE Resync
  BY <1>1 DEF Resync, TypeOK
<1>2. CASE UserCreates
  <2>1. obj' \in Pools
    <3>1. PICK u \in 1..MaxUid, n \in 0..MaxWant : obj' = [NoPool EXCEPT !.uid = u, !.want = n]
      BY <1>2, Zenon DEF UserCreates
    <3>2. u \in 0..MaxUid
      BY PoolAssumption
    <3> QED
      BY <3>1, <3>2, NewPool, Zenon
  <2> QED
    BY <1>2, <1>e, <2>1, Zenon DEF UserCreates, Edit, TypeOK
<1>3. CASE UserScales
  <2>1. obj' \in Pools
    BY <1>3, WantUpdate DEF UserScales, TypeOK
  <2> QED
    BY <1>3, <1>e, <2>1 DEF UserScales, Edit, TypeOK
<1>4. CASE UserDeletes
  <2>1. obj' \in Pools
    BY <1>4, DelUpdate, NoPoolType DEF UserDeletes, TypeOK
  <2> QED
    BY <1>4, <1>e, <2>1 DEF UserDeletes, Edit, TypeOK
<1>5. CASE Launch
  <2>1. home' \in [Workers -> -1..MaxGroup] /\ boot' \subseteq Workers
    BY <1>5, PoolAssumption DEF Launch, TypeOK
  <2> QED
    BY <1>5, <2>1 DEF Launch, TypeOK
<1>6. CASE Release
  <2>1. home' \in [Workers -> -1..MaxGroup] /\ boot' \subseteq boot /\ ready' \subseteq ready
    BY <1>6, PoolAssumption DEF Release, Released, TypeOK
  <2> QED
    BY <1>6, <2>1 DEF Release, TypeOK
<1>7. CASE Register
  BY <1>7 DEF Register, TypeOK
<1>8. CASE GroupLost
  BY <1>8, <1>m, DropType DEF GroupLost, TypeOK
<1>9. CASE KubeletStops
  BY <1>9, <1>m DEF KubeletStops, TypeOK
<1>10. CASE Crash
  <2>1. np' \in Pools /\ hasho' \in Hashes /\ sg' \in Binds /\ pc' = "idle" /\ queued' = TRUE
    BY <1>10, ReturnType DEF Crash, Fail
  <2>2. lapse' \in BOOLEAN
    BY <1>10 DEF Crash, TypeOK
  <2> QED
    BY <1>10, <1>m, <2>1, <2>2 DEF Crash, TypeOK
<1> QED
  BY <1>1, <1>2, <1>3, <1>4, <1>5, <1>6, <1>7, <1>8, <1>9, <1>10

LEMMA TypeStep == ASSUME TypeOK, [Next]_vars PROVE TypeOK'
<1>1. CASE Reconcile
  BY <1>1, FixType, CreateType, ModifyType, DeleteType DEF Reconcile
<1>2. CASE UNCHANGED vars
  BY <1>2 DEF vars, fvars, wvars, hvars, TypeOK
<1> QED
  BY <1>1, <1>2, EnvironmentType DEF Next

\* The state of the pool, its reconcile and its cloud resources stays typed,
\* for every bound and every set of workers.
THEOREM TypeCorrect == Spec => []TypeOK
  BY InitType, TypeStep, PTL DEF Spec

----------------------------------------------------------------------------
(* The inductive invariant.                                                *)

\* The fields of a pool and of its updates.
LEMMA PoolFields ==
  ASSUME NEW p \in Pools
  PROVE  /\ p.uid \in 0..MaxUid /\ p.del \in BOOLEAN /\ p.fin \in BOOLEAN
         /\ p.bind \in Binds /\ p.want \in 0..MaxWant /\ p.hash \in Hashes
         /\ p.hash[1] \in Binds
  BY DEF Pools, Hashes

LEMMA NoPoolFields ==
  /\ NoPool.uid = 0 /\ NoPool.bind = 0 /\ NoPool.del = FALSE /\ NoPool.fin = FALSE
  /\ NoPool.hash[1] = 0
  BY NoHashType DEF NoPool

LEMMA HashedFields ==
  ASSUME NEW p \in Pools, NEW h \in Hashes, NEW q, q = [p EXCEPT !.hash = h]
  PROVE  /\ q.uid = p.uid /\ q.bind = p.bind /\ q.fin = p.fin /\ q.del = p.del
         /\ q.want = p.want /\ q.hash = h
  BY DEF Pools

LEMMA UnboundFields ==
  ASSUME NEW p \in Pools, NEW q, q = [p EXCEPT !.bind = 0]
  PROVE  /\ q.uid = p.uid /\ q.bind = 0 /\ q.hash = p.hash /\ q.want = p.want
  BY DEF Pools

\* What the invariant speaks of.
core == <<obj, pc, np, hasho, sg, groups, backup, pools, lapse, swallowed>>

LEMMA QuietCore == ASSUME Core, UNCHANGED core PROVE Core'
<1>1. ObjInv'
  BY DEF Core, core, ObjInv
<1>2. CopyInv'
  BY DEF Core, core, CopyInv, Exists
<1>3. GroupInv'
  BY DEF Core, core, GroupInv, OneGroup, Exists
<1>4. CleanInv'
  BY DEF Core, core, CleanInv, NothingLeft, Exists
<1>5. HashInv'
  BY DEF Core, core, HashInv, Exists
<1> QED
  BY <1>1, <1>2, <1>3, <1>4, <1>5 DEF Core

LEMMA InitCore == Init => Core
<1> SUFFICES ASSUME Init PROVE Core
  OBVIOUS
<1> USE NoPoolFields, NoHashType, GroupType
<1>1. \A g \in 1..MaxGroup : groups[g] = NoGroup
  BY DEF Init
<1>2. ObjInv
  BY <1>1 DEF Init, ObjInv
<1>3. CopyInv
  BY <1>1 DEF Init, CopyInv, Fixing, Creating, Setting, Deleting
<1>4. GroupInv
  BY <1>1 DEF Init, GroupInv, OneGroup, Exists
<1>5. CleanInv
  BY <1>1 DEF Init, CleanInv, NothingLeft, Exists
<1>6. HashInv
  BY <1>1 DEF Init, HashInv, Exists, Setting
<1> QED
  BY <1>2, <1>3, <1>4, <1>5, <1>6 DEF Core

\* A step within FixNodePool.
LEMMA FixingCore ==
  ASSUME Core, pc \in Fixing, pc' \in Fixing,
         UNCHANGED <<obj, np, groups, backup, pools, lapse, swallowed>>
  PROVE  Core'
<1>1. ObjInv'
  BY DEF Core, ObjInv
<1>2. CopyInv'
  BY DEF Core, CopyInv, Fixing, Creating, Setting, Deleting
<1>3. GroupInv'
  BY DEF Core, GroupInv, OneGroup, Exists, Fixing
<1>4. CleanInv'
  BY DEF Core, CleanInv, NothingLeft, Exists, Fixing
<1>5. HashInv'
  BY DEF Core, HashInv, Exists, Setting, Fixing
<1> QED
  BY <1>1, <1>2, <1>3, <1>4, <1>5 DEF Core

\* The end of FixNodePool, with the copy as it was or without its binding.
LEMMA AfterFixCore ==
  ASSUME IInv, pc \in Fixing, NEW p, AfterFix(p),
         p = np \/ (~Exists(np.bind) /\ p = [np EXCEPT !.bind = 0]),
         UNCHANGED <<obj, groups, backup, pools, lapse, swallowed>>
  PROVE  Core'
<1> USE NoPoolFields, NoHashType
<1>0. /\ np \in Pools /\ p \in Pools /\ p.uid = np.uid /\ p.uid # 0
      /\ p.bind = 0 => ~Exists(obj.bind)
      /\ p.bind # 0 => p = np /\ obj.bind = p.bind
  <2>1. np \in Pools /\ np.uid # 0
    BY DEF IInv, TypeOK, Core, CopyInv, Fixing
  <2>2. CASE p = np
    BY <2>1, <2>2 DEF IInv, Core, CopyInv, Exists
  <2>3. CASE ~Exists(np.bind) /\ p = [np EXCEPT !.bind = 0]
    <3>1. p \in Pools /\ p.bind = 0 /\ p.uid = np.uid
      BY <2>1, <2>3, BindUpdate, UnboundFields, Zero, Zenon
    <3> QED
      BY <2>1, <2>3, <3>1 DEF IInv, Core, CopyInv, Exists
  <2> QED
    BY <2>2, <2>3
<1>1. /\ Hash(p)[1] = p.bind /\ Hash(p)[2] = p.want
  BY <1>0, HashType
<1>a. \/ pc' = "idle" /\ np' = NoPool
      \/ pc' = "find" /\ np' = p /\ hasho' = Hash(p) /\ p.bind = 0
      \/ pc' = "modify" /\ np' = p /\ hasho' = Hash(p) /\ p.bind # 0
  BY DEF AfterFix, Done, Return, Goto
<1>2. ObjInv'
  BY DEF IInv, Core, ObjInv
<1>3. CopyInv'
  BY <1>0, <1>1, <1>a DEF IInv, Core, ObjInv, CopyInv, Exists, Fixing, Creating, Setting, Deleting, TypeOK
<1>4. GroupInv'
  BY <1>a DEF IInv, Core, GroupInv, OneGroup, Exists
<1>5. CleanInv'
  BY <1>a DEF IInv, Core, CleanInv, NothingLeft, Exists
<1>6. HashInv'
  BY <1>a DEF IInv, Core, HashInv, Exists, Setting, Fixing
<1> QED
  BY <1>2, <1>3, <1>4, <1>5, <1>6 DEF Core

LEMMA FixCore ==
  ASSUME IInv, ListECS \/ FixRefused \/ LabelNodes \/ ReadNodes \/ ReadECS \/ DeleteNode \/ Repair
  PROVE  Core'
<1>1. /\ pc \in Fixing
      /\ UNCHANGED <<obj, groups, backup, pools, lapse, swallowed>>
  BY Zenon DEF ListECS, FixRefused, LabelNodes, ReadNodes, ReadECS, DeleteNode, Repair, hvars, Fixing
<1>2. \/ FixEnds
      \/ GroupMissing
      \/ pc' \in Fixing /\ UNCHANGED np
  BY DEF ListECS, FixRefused, LabelNodes, ReadNodes, ReadECS, DeleteNode, Repair, Goto, Fixing
<1>3. CASE FixEnds
  BY <1>1, <1>3, AfterFixCore DEF FixEnds
<1>4. CASE GroupMissing
  BY <1>1, <1>4, AfterFixCore DEF GroupMissing
<1>5. CASE pc' \in Fixing /\ UNCHANGED np
  BY <1>1, <1>5, FixingCore DEF IInv
<1> QED
  BY <1>2, <1>3, <1>4, <1>5

\* The reconcile returns, with an error or not; the backup may be gone.
LEMMA ReturnCore ==
  ASSUME IInv, Return, UNCHANGED <<obj, groups, pools, swallowed>>,
         backup' \in {backup, NoPool},
         lapse' = TRUE \/ (pc \notin Setting /\ lapse' = lapse)
  PROVE  Core'
<1> USE NoPoolFields, NoHashType
<1>0. 0 \notin pools
  BY DEF IInv, TypeOK
<1>1. ObjInv'
  BY DEF IInv, Core, ObjInv
<1>2. CopyInv'
  BY <1>0 DEF Return, CopyInv, Fixing, Creating, Setting, Deleting
<1>3. GroupInv'
  BY DEF IInv, Core, Return, GroupInv, OneGroup, Exists
<1>4. CleanInv'
  BY <1>0 DEF IInv, Core, Return, CleanInv, NothingLeft, Exists
<1>5. HashInv'
  BY DEF IInv, Core, Return, HashInv, Exists, Setting
<1> QED
  BY <1>1, <1>2, <1>3, <1>4, <1>5 DEF Core

LEMMA GetCore == ASSUME IInv, Get PROVE Core'
<1> USE NoPoolFields, NoHashType
<1>0. /\ UNCHANGED <<obj, groups, backup, pools, lapse, swallowed, hasho, sg>>
      /\ np' = obj /\ pc = "idle"
      /\ pc' = IF obj.uid = 0 THEN "idle" ELSE IF obj.del THEN "delgroup" ELSE "list"
  BY DEF Get, hvars
<1>1. ObjInv'
  BY <1>0 DEF IInv, Core, ObjInv
<1>2. CopyInv'
  BY <1>0 DEF IInv, Core, ObjInv, CopyInv, Fixing, Creating, Setting, Deleting
<1>3. GroupInv'
  BY <1>0 DEF IInv, Core, GroupInv, OneGroup, Exists
<1>4. CleanInv'
  BY <1>0 DEF IInv, Core, CleanInv, NothingLeft, Exists
<1>5. HashInv'
  BY <1>0 DEF IInv, Core, HashInv, Exists, Setting
<1> QED
  BY <1>1, <1>2, <1>3, <1>4, <1>5 DEF Core

LEMMA FindGroupCore == ASSUME IInv, FindGroup PROVE Core'
<1>0. pc = "find" /\ UNCHANGED <<obj, groups, backup, pools, lapse, swallowed>>
  BY DEF FindGroup, hvars
<1>1. CASE Fail
  BY <1>0, <1>1, ReturnCore DEF Fail, Setting
<1>2. CASE ~Fail
  <2>1. /\ UNCHANGED <<np, hasho>> /\ np.uid # 0
        /\ \/ pc' = "create" /\ \A g \in 1..MaxGroup : groups[g].uid # np.uid
           \/ pc' = "enable" /\ sg' \in 1..MaxGroup /\ groups[sg'].uid = np.uid
    BY <1>0, <1>2 DEF IInv, Core, CopyInv, FindGroup, GroupsOf, Goto
  <2>2. ObjInv'
    BY <1>0 DEF IInv, Core, ObjInv
  <2>3. CopyInv'
    <3>1. pc \in Creating /\ pc' \in Creating /\ pc' \notin Fixing \cup Setting \cup Deleting
          /\ pc' \notin {"idle", "modify", "savemod"}
      BY <1>0, <2>1 DEF Creating, Fixing, Setting, Deleting
    <3> QED
      BY <1>0, <2>1, <3>1 DEF IInv, Core, CopyInv, Exists
  <2>4. GroupInv'
    BY <1>0, <2>1, GroupType DEF IInv, Core, GroupInv, OneGroup, Exists
  <2>5. CleanInv'
    BY <1>0, <2>1 DEF IInv, Core, CleanInv, NothingLeft, Exists
  <2>6. HashInv'
    BY <1>0, <2>1 DEF IInv, Core, HashInv, Exists, Setting
  <2> QED
    BY <2>2, <2>3, <2>4, <2>5, <2>6 DEF Core
<1> QED
  BY <1>1, <1>2

LEMMA CreateGroupCore == ASSUME IInv, CreateGroup PROVE Core'
<1> USE NoPoolFields, NoHashType
<1>0. pc = "create" /\ UNCHANGED <<obj, backup, pools, lapse, swallowed>>
  BY DEF CreateGroup, hvars
<1>1. CASE UNCHANGED groups /\ Fail
  BY <1>0, <1>1, ReturnCore DEF Fail, Setting
<1>2. CASE ~(UNCHANGED groups /\ Fail)
  <2> DEFINE r == [uid |-> np.uid, cap |-> np.want, enabled |-> FALSE, kept |-> FALSE]
  <2>1. PICK g \in NextGroup :
          /\ groups' = [groups EXCEPT ![g] = r]
          /\ \/ sg' = g /\ pc' = "enable" /\ UNCHANGED <<np, hasho>>
             \/ Return
    BY <1>2 DEF CreateGroup, Goto, Fail
  <2>2. /\ g \in 1..MaxGroup /\ groups[g] = NoGroup /\ groups'[g] = r
        /\ \A h \in 1..MaxGroup : h # g => groups'[h] = groups[h]
    BY <2>1 DEF IInv, TypeOK, NextGroup
  <2>3. /\ r.uid = np.uid /\ r.kept = FALSE /\ np.uid # 0
        /\ \A h \in 1..MaxGroup : groups[h].uid # np.uid
        /\ np.bind = 0 /\ hasho[1] = 0 /\ ~Exists(obj.bind)
    BY <1>0 DEF IInv, Core, CopyInv, GroupInv, Creating
  <2> HIDE DEF r
  <2>4. /\ obj.bind # g /\ obj.hash[1] # g /\ obj.bind \in Binds /\ obj.hash[1] \in Binds
        /\ r # NoGroup /\ r # DeadGroup
    <3>1. obj.bind \in Binds /\ obj.hash[1] \in Binds
      BY PoolFields DEF IInv, TypeOK
    <3>2. r # NoGroup /\ r # DeadGroup
      BY <2>3, GroupType
    <3>3. g # 0
      BY <2>2
    <3> QED
      BY <2>2, <2>3, <3>1, <3>2, <3>3, GroupType DEF IInv, Core, ObjInv, Exists
  <2>5. ObjInv'
    BY <1>0, <2>2, <2>4 DEF IInv, Core, ObjInv, Binds
  <2>6. ~Exists(obj.bind)'
    BY <1>0, <2>2, <2>3, <2>4 DEF Exists, Binds
  <2>7. CopyInv'
    <3>0. 0 \notin pools
      BY DEF IInv, TypeOK
    <3> QED
      BY <1>0, <2>1, <2>3, <2>6, <3>0 DEF IInv, Core, CopyInv, Return, Fixing, Creating, Setting, Deleting
  <2>8. GroupInv'
    BY <1>0, <2>1, <2>2, <2>3, <2>4, GroupType DEF IInv, Core, GroupInv, OneGroup, Exists, Return
  <2>9. CleanInv'
    BY <1>0, <2>1, <2>2, <2>3 DEF IInv, Core, CleanInv, NothingLeft, Exists, Return
  <2>10. HashInv'
    BY <1>0, <2>1, <2>6 DEF HashInv, Setting, Return
  <2> QED
    BY <2>5, <2>7, <2>8, <2>9, <2>10 DEF Core
<1> QED
  BY <1>1, <1>2

LEMMA EnableGroupCore == ASSUME IInv, EnableGroup PROVE Core'
<1> USE NoPoolFields, NoHashType
<1>0. pc = "enable" /\ UNCHANGED <<obj, backup, pools, lapse, swallowed>>
  BY DEF EnableGroup, hvars
<1>1. CASE UNCHANGED groups /\ Fail
  BY <1>0, <1>1, ReturnCore DEF Fail, Setting
<1>2. CASE ~(UNCHANGED groups /\ Fail)
  <2>1. /\ Exists(sg) /\ groups' = [groups EXCEPT ![sg].enabled = TRUE]
        /\ \/ pc' = "savenew" /\ UNCHANGED <<np, hasho, sg>>
           \/ Return
    BY <1>2 DEF EnableGroup, Goto, Fail
  <2>2. sg \in 1..MaxGroup /\ groups \in [1..MaxGroup -> Groups]
    BY <2>1 DEF IInv, TypeOK, Exists, Binds
  <2>3. /\ groups'[sg].uid = groups[sg].uid /\ groups'[sg].kept = groups[sg].kept
        /\ groups'[sg].cap = groups[sg].cap
        /\ \A h \in 1..MaxGroup : h # sg => groups'[h] = groups[h]
    BY <2>1, <2>2 DEF Groups
  <2>4. /\ \A h \in 1..MaxGroup : groups'[h].uid = groups[h].uid
        /\ \A h \in 1..MaxGroup : groups'[h].kept = groups[h].kept
        /\ \A h \in 1..MaxGroup : groups'[h].cap = groups[h].cap
        /\ groups[sg].uid # 0 /\ groups[sg] \notin {NoGroup, DeadGroup}
        /\ groups'[sg] \notin {NoGroup, DeadGroup}
        /\ obj.bind \in Binds /\ obj.hash[1] \in Binds
    BY <2>1, <2>2, <2>3, GroupType, PoolFields, Zenon DEF Exists, IInv, TypeOK
  <2>5. ObjInv'
    BY <1>0, <2>3, <2>4 DEF IInv, Core, ObjInv, Binds
  <2>6. Exists(obj.bind)' <=> Exists(obj.bind)
    <3>1. obj.bind # 0 => obj.bind \in 1..MaxGroup
      BY <2>4 DEF Binds
    <3>2. obj.bind # 0 => groups'[obj.bind].uid = groups[obj.bind].uid
      BY <2>4, <3>1
    <3> QED
      BY <1>0, <3>2 DEF Exists
  <2>7. CopyInv'
    <3>0. 0 \notin pools
      BY DEF IInv, TypeOK
    <3> QED
      BY <1>0, <2>1, <2>6, <3>0 DEF IInv, Core, CopyInv, Return, Fixing, Creating, Setting, Deleting
  <2>8. GroupInv'
    BY <1>0, <2>1, <2>2, <2>3, <2>4 DEF IInv, Core, GroupInv, OneGroup, Exists, Return
  <2>9. CleanInv'
    BY <1>0, <2>1, <2>4 DEF IInv, Core, CleanInv, NothingLeft, Exists, Return
  <2>10. HashInv'
    <3>1. ~Exists(obj.bind)
      BY <1>0 DEF IInv, Core, CopyInv, Creating
    <3> QED
      BY <1>0, <2>1, <2>6, <3>1 DEF HashInv, Setting, Return
  <2> QED
    BY <2>5, <2>7, <2>8, <2>9, <2>10 DEF Core
<1> QED
  BY <1>1, <1>2

LEMMA SaveBackupCore == ASSUME IInv, SaveBackup PROVE Core'
<1>0. /\ UNCHANGED <<obj, np, hasho, sg, groups, pools, lapse, swallowed>>
      /\ backup' \in {backup, np}
      /\ \/ pc = "savenew" /\ pc' = "bind"
         \/ pc = "savemod" /\ pc' = "label"
  BY DEF SaveBackup, Goto, hvars
<1>1. ObjInv'
  BY <1>0 DEF IInv, Core, ObjInv
<1>2. CopyInv'
  BY <1>0 DEF IInv, Core, CopyInv, Exists, Fixing, Creating, Setting, Deleting
<1>3. GroupInv'
  BY <1>0 DEF IInv, Core, GroupInv, OneGroup, Exists
<1>4. CleanInv'
  BY <1>0 DEF IInv, Core, CopyInv, CleanInv, NothingLeft, Exists
<1>5. HashInv'
  BY <1>0 DEF IInv, Core, HashInv, Exists, Setting
<1> QED
  BY <1>1, <1>2, <1>3, <1>4, <1>5 DEF Core

LEMMA KeepGroup ==
  ASSUME NEW r \in Groups, NEW q, q = [r EXCEPT !.kept = TRUE]
  PROVE  /\ q.uid = r.uid /\ q.kept = TRUE /\ q.cap = r.cap
         /\ q # NoGroup
         /\ r = DeadGroup => q = DeadGroup
<1>1. q.uid = r.uid /\ q.kept = TRUE /\ q.cap = r.cap
  BY DEF Groups
<1>2. NoGroup.kept = FALSE
  BY DEF NoGroup
<1>3. ASSUME r = DeadGroup PROVE q = DeadGroup
  BY <1>3, Zenon DEF DeadGroup, NoGroup, Groups
<1> QED
  BY <1>1, <1>2, <1>3, Zenon

\* The binding is stored: until then no group that exists is the bound one.
LEMMA PatchBindCore == ASSUME IInv, PatchBind PROVE Core'
<1> USE NoPoolFields, NoHashType
<1>0. pc = "bind" /\ UNCHANGED <<backup, lapse, swallowed>>
  BY DEF PatchBind
<1>1. CASE UNCHANGED <<obj, groups, pools>> /\ Fail
  BY <1>0, <1>1, ReturnCore DEF Fail, Setting
<1>2. CASE ~(UNCHANGED <<obj, groups, pools>> /\ Fail)
  <2>1. /\ obj.uid # 0 /\ obj' = [obj EXCEPT !.bind = sg, !.fin = TRUE]
        /\ groups' = [groups EXCEPT ![sg].kept = TRUE]
        /\ pools' = pools \cup {obj.uid}
        /\ \/ pc' = "label" /\ UNCHANGED <<np, hasho, sg>>
           \/ Return
    BY <1>2 DEF PatchBind, Fail
  <2>2. /\ obj \in Pools /\ sg \in Binds /\ sg \in 1..MaxGroup /\ groups[sg] # NoGroup
        /\ groups \in [1..MaxGroup -> Groups] /\ groups[sg] \in Groups
        /\ obj.bind \in Binds /\ obj.hash[1] \in Binds
        /\ np.uid # 0 /\ np.bind = 0 /\ hasho[1] = 0 /\ ~Exists(obj.bind)
        /\ 0 \notin pools
    <3>1. /\ obj \in Pools /\ sg \in Binds /\ groups \in [1..MaxGroup -> Groups]
          /\ 0 \notin pools
      BY DEF IInv, TypeOK
    <3>2. obj.bind \in Binds /\ obj.hash[1] \in Binds
      BY <3>1, PoolFields
    <3>3. sg # 0 /\ groups[sg] # NoGroup
      BY <1>0 DEF IInv, Core, GroupInv
    <3>4. sg \in 1..MaxGroup /\ groups[sg] \in Groups
      BY <3>1, <3>3 DEF Binds
    <3>5. np.uid # 0 /\ np.bind = 0 /\ hasho[1] = 0 /\ ~Exists(obj.bind)
      BY <1>0 DEF IInv, Core, CopyInv, Creating
    <3> QED
      BY <3>1, <3>2, <3>3, <3>4, <3>5
  <2>3. /\ obj'.uid = obj.uid /\ obj'.bind = sg /\ obj'.fin = TRUE /\ obj'.hash = obj.hash
    <3>1. obj \in Pools /\ sg \in Binds /\ obj' = [obj EXCEPT !.bind = sg, !.fin = TRUE]
      BY <2>1, <2>2
    <3> HIDE NoPoolFields, NoHashType
    <3> QED
      BY <3>1 DEF Pools
  <2>4. /\ groups'[sg] = [groups[sg] EXCEPT !.kept = TRUE]
        /\ \A h \in 1..MaxGroup : h # sg => groups'[h] = groups[h]
    BY <2>1, <2>2
  <2>5. /\ groups'[sg].uid = groups[sg].uid /\ groups'[sg] # NoGroup
        /\ groups[sg] = DeadGroup => groups'[sg] = DeadGroup
    BY <2>2, <2>4, KeepGroup, Zenon
  <2>6. \A h \in 1..MaxGroup : groups'[h].uid = groups[h].uid
    BY <2>4, <2>5, Zenon
  <2>7. obj.hash[1] # 0 => groups[obj.hash[1]] = DeadGroup
    BY <2>2 DEF IInv, Core, ObjInv, GroupInv, Exists, Binds
  <2>8. ObjInv'
    BY <2>1, <2>2, <2>3, <2>4, <2>5, <2>7 DEF ObjInv, Binds
  <2>9. CopyInv'
    BY <1>0, <2>1, <2>2, <2>3 DEF IInv, Core, CopyInv, Return, Fixing, Creating, Setting, Deleting
  <2>10. GroupInv'
    BY <1>0, <2>1, <2>2, <2>4, <2>5, <2>6 DEF IInv, Core, GroupInv, OneGroup, Exists, Return
  <2>11. CleanInv'
    <3>1. ASSUME ~swallowed, NEW g \in 1..MaxGroup, Exists(g)', groups'[g].kept PROVE g = sg
      BY <2>2, <2>4, <2>6, <3>1 DEF IInv, Core, CleanInv, NothingLeft, Exists
    <3>2. ~swallowed => (backup.uid \in pools' => obj.uid = backup.uid)
      BY <2>1 DEF IInv, Core, CleanInv, NothingLeft
    <3> QED
      BY <1>0, <2>1, <2>3, <3>1, <3>2 DEF CleanInv, NothingLeft, Return
  <2>12. HashInv'
    <3>1. obj'.hash[1] = obj'.bind => groups'[obj'.bind].uid = 0
      BY <2>2, <2>3, <2>5, <2>7, GroupType
    <3> QED
      BY <2>1, <2>2, <2>3, <3>1 DEF HashInv, Return, Setting, Exists
  <2> QED
    BY <2>8, <2>9, <2>10, <2>11, <2>12 DEF Core
<1> QED
  BY <1>1, <1>2

LEMMA ModifyGroupCore == ASSUME IInv, ModifyGroup PROVE Core'
<1> USE NoPoolFields, NoHashType
<1>0. pc = "modify" /\ UNCHANGED <<obj, backup, pools, swallowed>>
  BY DEF ModifyGroup
<1>1. CASE UNCHANGED <<groups, lapse>> /\ Fail
  BY <1>0, <1>1, ReturnCore DEF Fail, Setting
<1>2. CASE ~(UNCHANGED <<groups, lapse>> /\ Fail)
  <2>1. /\ Exists(np.bind) /\ groups' = [groups EXCEPT ![np.bind].cap = np.want]
        /\ \/ pc' = "savemod" /\ UNCHANGED <<np, hasho, sg, lapse>>
           \/ Return /\ lapse' = TRUE
    BY <1>2 DEF ModifyGroup, Goto, Fail
  <2>2. /\ np.bind \in 1..MaxGroup /\ groups \in [1..MaxGroup -> Groups]
        /\ obj.bind \in Binds /\ obj.hash[1] \in Binds
        /\ hasho[1] = np.bind /\ hasho[2] = np.want /\ np.bind # 0
        /\ obj.bind = np.bind /\ 0 \notin pools
    <3>1. np.bind \in Binds
      BY PoolFields DEF IInv, TypeOK
    <3> QED
      BY <1>0, <2>1, <3>1, PoolFields DEF IInv, TypeOK, Core, CopyInv, Exists, Binds
  <2>3. /\ groups'[np.bind].uid = groups[np.bind].uid
        /\ groups'[np.bind].kept = groups[np.bind].kept
        /\ groups'[np.bind].cap = np.want
        /\ \A h \in 1..MaxGroup : h # np.bind => groups'[h] = groups[h]
    BY <2>1, <2>2 DEF Groups
  <2>4. /\ \A h \in 1..MaxGroup : groups'[h].uid = groups[h].uid
        /\ \A h \in 1..MaxGroup : groups'[h].kept = groups[h].kept
        /\ groups[np.bind].uid # 0 /\ groups[np.bind] \notin {NoGroup, DeadGroup}
        /\ groups'[np.bind] \notin {NoGroup, DeadGroup}
    BY <2>1, <2>2, <2>3, GroupType, Zenon DEF Exists
  <2>5. ObjInv'
    <3>1. obj.hash[1] # 0 => obj.hash[1] \in 1..MaxGroup
      BY <2>2 DEF Binds
    <3>2. (obj.hash[1] # 0 /\ groups[obj.hash[1]] = DeadGroup) => groups'[obj.hash[1]] = DeadGroup
      BY <2>3, <2>4, <3>1
    <3> QED
      BY <1>0, <2>2, <2>4, <3>2, Zenon DEF IInv, Core, ObjInv
  <2>6. CopyInv'
    BY <1>0, <2>1, <2>2 DEF IInv, Core, CopyInv, Return, Fixing, Creating, Setting, Deleting
  <2>7. GroupInv'
    BY <1>0, <2>1, <2>3, <2>4 DEF IInv, Core, GroupInv, OneGroup, Exists, Return
  <2>8. CleanInv'
    BY <1>0, <2>1, <2>4 DEF IInv, Core, CleanInv, NothingLeft, Exists, Return
  <2>9. HashInv'
    BY <2>1, <2>2, <2>3 DEF HashInv, Setting, Return
  <2> QED
    BY <2>5, <2>6, <2>7, <2>8, <2>9 DEF Core
<1> QED
  BY <1>1, <1>2

LEMMA PatchHashCore == ASSUME IInv, PatchHash PROVE Core'
<1> USE NoPoolFields, NoHashType
<1>0. pc = "label" /\ UNCHANGED <<groups, backup, pools, swallowed>> /\ Return
  BY DEF PatchHash, Done
<1>1. CASE lapse' = TRUE /\ UNCHANGED obj
  BY <1>0, <1>1, ReturnCore
<1>2. CASE ~(lapse' = TRUE /\ UNCHANGED obj)
  <2>1. obj.uid # 0 /\ obj' = [obj EXCEPT !.hash = hasho] /\ lapse' = lapse
    BY <1>2 DEF PatchHash
  <2>2. /\ obj'.uid = obj.uid /\ obj'.bind = obj.bind /\ obj'.fin = obj.fin
        /\ obj'.del = obj.del /\ obj'.hash = hasho
    BY <2>1, HashedFields DEF IInv, TypeOK
  <2>3. /\ hasho[1] = np.bind /\ (np.bind # 0 => obj.bind = np.bind) /\ 0 \notin pools
        /\ Exists(hasho[1]) => groups[hasho[1]].cap = hasho[2]
    <3>1. 0 \notin pools
      BY DEF IInv, TypeOK
    <3>2. hasho[1] = np.bind /\ (np.bind # 0 => obj.bind = np.bind)
      BY <1>0 DEF IInv, Core, CopyInv, Setting
    <3>3. Exists(hasho[1]) => groups[hasho[1]].cap = hasho[2]
      BY <1>0 DEF IInv, Core, HashInv, Setting
    <3> QED
      BY <3>1, <3>2, <3>3
  <2>4. ObjInv'
    BY <1>0, <2>1, <2>2, <2>3 DEF IInv, Core, ObjInv
  <2>5. CopyInv'
    BY <1>0, <2>3 DEF CopyInv, Return, Fixing, Creating, Setting, Deleting
  <2>6. GroupInv'
    BY <1>0 DEF IInv, Core, GroupInv, OneGroup, Exists, Return
  <2>7. CleanInv'
    BY <1>0, <2>2 DEF IInv, Core, CleanInv, NothingLeft, Exists, Return
  <2>8. HashInv'
    BY <1>0, <2>2, <2>3 DEF HashInv, Setting, Return, Exists
  <2> QED
    BY <2>4, <2>5, <2>6, <2>7, <2>8 DEF Core
<1> QED
  BY <1>1, <1>2, Zenon

\* A group goes, because the pool is deleted or because a user takes it away.
LEMMA DropCore ==
  ASSUME IInv, NEW g \in 1..MaxGroup, Exists(g), groups' = [groups EXCEPT ![g] = DeadGroup],
         UNCHANGED <<obj, np, hasho, sg, backup, pools, lapse, swallowed>>,
         pc' = pc \/ (pc = "delgroup" /\ pc' = "delbackup" /\ np.bind = g)
  PROVE  Core'
<1>1. /\ groups'[g] = DeadGroup /\ groups[g].uid # 0
      /\ \A h \in 1..MaxGroup : h # g => groups'[h] = groups[h]
      /\ np.bind \in Binds /\ obj.bind \in Binds /\ obj.hash[1] \in Binds /\ hasho[1] \in Binds
  BY PoolFields DEF IInv, TypeOK, Exists, Hashes
<1>2. ObjInv'
  BY <1>1, GroupType DEF IInv, Core, ObjInv, Binds
<1>3. \A b \in Binds : (b # 0 /\ groups'[b].uid # 0) => (b # g /\ Exists(b) /\ groups'[b] = groups[b])
  BY <1>1, GroupType DEF Exists, Binds
<1>4. CopyInv'
  BY <1>1, <1>3 DEF IInv, Core, CopyInv, Exists, Fixing, Creating, Setting, Deleting
<1>5. GroupInv'
  <2>1. OneGroup'
    BY <1>1, GroupType DEF IInv, Core, GroupInv, OneGroup, Exists
  <2>2. pc' \in {"create", "enable", "savenew", "bind"} => pc = pc' /\ np.uid # 0
    BY DEF IInv, Core, CopyInv
  <2>3. sg \in Binds
    BY DEF IInv, TypeOK
  <2>4. \A h \in 1..MaxGroup : groups'[h].uid = 0 => groups'[h] \in {NoGroup, DeadGroup}
    BY <1>1 DEF IInv, Core, GroupInv
  <2>5. pc' = "create" => \A h \in 1..MaxGroup : groups'[h].uid # np.uid
    BY <1>1, <2>2, GroupType DEF IInv, Core, GroupInv
  <2>6. pc' \in {"enable", "savenew", "bind"} => sg # 0 /\ groups'[sg] # NoGroup
    BY <1>1, <2>2, <2>3, GroupType DEF IInv, Core, GroupInv, Binds
  <2> QED
    BY <2>1, <2>4, <2>5, <2>6 DEF GroupInv
<1>6. CleanInv'
  <2>1. NothingLeft'
    BY <1>1, GroupType DEF IInv, Core, CleanInv, NothingLeft, Exists
  <2> QED
    BY <1>1, <1>3, <2>1, GroupType DEF IInv, Core, CleanInv, Exists
<1>7. HashInv'
  BY <1>1, <1>3 DEF IInv, Core, HashInv, Exists, Setting
<1> QED
  BY <1>2, <1>4, <1>5, <1>6, <1>7 DEF Core

LEMMA DeleteNodeGroupCore == ASSUME IInv, DeleteNodeGroup PROVE Core'
<1>0. pc = "delgroup" /\ UNCHANGED <<obj, backup, pools, lapse>>
  BY DEF DeleteNodeGroup
<1>1. CASE Fail /\ UNCHANGED <<groups, swallowed>>
  BY <1>0, <1>1, ReturnCore DEF Fail, Setting
<1>2. CASE /\ Exists(np.bind) /\ DropGroup(np.bind) /\ pc' = "delbackup"
           /\ UNCHANGED <<np, hasho, sg, swallowed>>
  <2>1. np.bind \in 1..MaxGroup
    <3>1. np \in Pools
      BY Zenon DEF IInv, TypeOK
    <3>2. np.bind \in Binds /\ Exists(np.bind)
      BY <1>2, <3>1, PoolFields, Zenon
    <3> QED
      BY <3>2 DEF Exists, Binds
  <2> QED
    BY <1>0, <1>2, <2>1, DropCore, Zenon DEF DropGroup
<1>3. CASE /\ pc' = "delbackup" /\ UNCHANGED <<np, hasho, sg, groups>>
           /\ (np.bind = 0 /\ swallowed' = swallowed) \/ swallowed' = TRUE
  <2>1. ObjInv'
    BY <1>0, <1>3 DEF IInv, Core, ObjInv
  <2>2. CopyInv'
    BY <1>0, <1>3, Zenon DEF IInv, Core, CopyInv, Exists, Fixing, Creating, Setting, Deleting
  <2>3. GroupInv'
    BY <1>0, <1>3 DEF IInv, Core, GroupInv, OneGroup, Exists
  <2>4. CleanInv'
    BY <1>0, <1>3 DEF IInv, Core, CleanInv, NothingLeft, Exists
  <2>5. HashInv'
    BY <1>0, <1>3 DEF IInv, Core, HashInv, Exists, Setting
  <2> QED
    BY <2>1, <2>2, <2>3, <2>4, <2>5 DEF Core
<1> QED
  BY <1>1, <1>2, <1>3, Zenon DEF DeleteNodeGroup, Goto

LEMMA DeleteBackupCore == ASSUME IInv, DeleteBackup PROVE Core'
<1> USE NoPoolFields
<1>0. pc = "delbackup" /\ UNCHANGED <<obj, groups, pools, lapse, swallowed>>
  BY DEF DeleteBackup, hvars
<1>1. CASE Fail
  BY <1>0, <1>1, ReturnCore DEF DeleteBackup, Fail, Setting
<1>2. CASE ~Fail
  <2>0. backup' = NoPool /\ pc' = "unfinal" /\ UNCHANGED <<np, hasho, sg>> /\ 0 \notin pools
    BY <1>2 DEF DeleteBackup, Goto, IInv, TypeOK
  <2>1. ObjInv'
    BY <1>0 DEF IInv, Core, ObjInv
  <2>2. CopyInv'
    BY <1>0, <2>0 DEF IInv, Core, CopyInv, Exists, Fixing, Creating, Setting, Deleting
  <2>3. GroupInv'
    BY <1>0, <2>0 DEF IInv, Core, GroupInv, OneGroup, Exists
  <2>4. CleanInv'
    BY <1>0, <2>0 DEF IInv, Core, CleanInv, NothingLeft, Exists
  <2>5. HashInv'
    BY <1>0, <2>0 DEF IInv, Core, HashInv, Exists, Setting
  <2> QED
    BY <2>1, <2>2, <2>3, <2>4, <2>5 DEF Core
<1> QED
  BY <1>1, <1>2

\* The object goes: its group and its backup went before.
LEMMA RemoveFinalizerCore == ASSUME IInv, RemoveFinalizer PROVE Core'
<1> USE NoPoolFields, NoHashType
<1>0. pc = "unfinal" /\ UNCHANGED <<groups, backup, pools, lapse, swallowed>> /\ Return
  BY DEF RemoveFinalizer, Fail, hvars
<1>1. CASE UNCHANGED obj
  BY <1>0, <1>1, ReturnCore DEF Setting
<1>2. CASE obj' = NoPool
  <2>0. 0 \notin pools
    BY DEF IInv, TypeOK
  <2>1. ObjInv'
    BY <1>0, <1>2, <2>0 DEF ObjInv
  <2>2. CopyInv'
    BY <1>0, <2>0 DEF CopyInv, Return, Fixing, Creating, Setting, Deleting
  <2>3. GroupInv'
    BY <1>0, Zenon DEF IInv, Core, GroupInv, OneGroup, Exists, Return
  <2>4. CleanInv'
    BY <1>0, <2>0, Zenon DEF IInv, Core, CopyInv, CleanInv, NothingLeft, Exists, Return, Deleting
  <2>5. HashInv'
    BY <1>0, <1>2 DEF HashInv, Exists, Setting, Return
  <2> QED
    BY <2>1, <2>2, <2>3, <2>4, <2>5 DEF Core
<1> QED
  BY <1>1, <1>2 DEF RemoveFinalizer

\* The user's requests leave the reconcile and the cloud as they are.
LEMMA UserCore == ASSUME IInv, UserCreates \/ UserScales \/ UserDeletes PROVE Core'
<1> USE NoPoolFields, NoHashType
<1>0. /\ UNCHANGED <<pc, np, hasho, sg, groups, backup, pools, lapse, swallowed>>
      /\ 0 \notin pools /\ obj \in Pools
  <2>1. Edit
    BY Zenon DEF UserCreates, UserScales, UserDeletes
  <2> QED
    BY <2>1 DEF Edit, rest, cloud, hvars, IInv, TypeOK
<1>1. CASE UserCreates
  <2>1. PICK u \in 1..MaxUid, n \in 0..MaxWant :
          (\A p \in pools : u > p) /\ obj' = [NoPool EXCEPT !.uid = u, !.want = n]
    BY <1>1, Zenon DEF UserCreates
  <2>2. /\ obj'.uid = u /\ obj'.bind = 0 /\ obj'.del = FALSE /\ obj'.fin = FALSE
        /\ obj'.hash = NoPool.hash
    BY <2>1 DEF NoPool
  <2>3. u # 0 /\ u \notin pools
    BY <2>1 DEF IInv, TypeOK
  <2>4. obj = NoPool
    BY <1>1, Zenon DEF UserCreates, IInv, Core, ObjInv
  <2>5. ObjInv'
    BY <1>0, <2>2, <2>3, Zenon DEF ObjInv
  <2>6. CopyInv'
    BY <1>0, <2>2, <2>4 DEF IInv, Core, CopyInv, Exists, Fixing, Creating, Setting, Deleting
  <2>7. GroupInv'
    BY <1>0 DEF IInv, Core, GroupInv, OneGroup, Exists
  <2>8. CleanInv'
    BY <1>0, <2>2, <2>4 DEF IInv, Core, CleanInv, NothingLeft, Exists
  <2>9. HashInv'
    BY <1>0, <2>2 DEF IInv, Core, HashInv, Exists, Setting
  <2> QED
    BY <2>5, <2>6, <2>7, <2>8, <2>9 DEF Core
<1>2. CASE \/ UserScales
           \/ UserDeletes /\ obj.fin
  <2>1. /\ obj.uid # 0 /\ obj'.uid = obj.uid /\ obj'.bind = obj.bind /\ obj'.fin = obj.fin
        /\ obj'.hash = obj.hash
        /\ obj'.del = obj.del \/ (obj.fin /\ obj'.del = TRUE)
    BY <1>0, <1>2 DEF UserScales, UserDeletes, Pools
  <2>2. ObjInv'
    BY <1>0, <2>1 DEF IInv, Core, ObjInv
  <2>3. CopyInv'
    BY <1>0, <2>1 DEF IInv, Core, CopyInv, Exists, Fixing, Creating, Setting, Deleting
  <2>4. GroupInv'
    BY <1>0 DEF IInv, Core, GroupInv, OneGroup, Exists
  <2>5. CleanInv'
    BY <1>0, <2>1 DEF IInv, Core, CleanInv, NothingLeft, Exists
  <2>6. HashInv'
    BY <1>0, <2>1 DEF IInv, Core, HashInv, Exists, Setting
  <2> QED
    BY <2>2, <2>3, <2>4, <2>5, <2>6 DEF Core
<1>3. CASE UserDeletes /\ ~obj.fin
  <2>1. /\ obj' = NoPool /\ obj.uid # 0 /\ ~obj.del
        /\ obj.uid \notin pools /\ obj.bind = 0
    BY <1>3, Zenon DEF UserDeletes, IInv, Core, ObjInv
  <2>2. ObjInv'
    BY <1>0, <2>1, Zenon DEF ObjInv
  <2>3. CopyInv'
    BY <1>0, <2>1, Zenon DEF IInv, Core, CopyInv, Exists, Fixing, Creating, Setting, Deleting
  <2>4. GroupInv'
    BY <1>0 DEF IInv, Core, GroupInv, OneGroup, Exists
  <2>5. CleanInv'
    BY <1>0, <2>1 DEF IInv, Core, CleanInv, NothingLeft, Exists
  <2>6. HashInv'
    BY <1>0, <2>1 DEF IInv, Core, HashInv, Exists, Setting
  <2> QED
    BY <2>2, <2>3, <2>4, <2>5, <2>6 DEF Core
<1> QED
  BY <1>1, <1>2, <1>3

LEMMA InvStep == ASSUME IInv, [Next]_vars PROVE IInv'
<1>0. TypeOK'
  BY TypeStep DEF IInv
<1>1. CASE Reconcile
  BY <1>1, GetCore, FixCore, FindGroupCore, CreateGroupCore, EnableGroupCore, SaveBackupCore,
     PatchBindCore, ModifyGroupCore, PatchHashCore, DeleteNodeGroupCore, DeleteBackupCore,
     RemoveFinalizerCore, <1>0
     DEF Reconcile, IInv
<1>2. CASE UserCreates \/ UserScales \/ UserDeletes
  BY <1>0, <1>2, UserCore DEF IInv
<1>3. CASE Resync \/ Launch \/ Release \/ Register \/ KubeletStops \/ UNCHANGED vars
  <2>1. UNCHANGED core
    BY <1>3, Zenon DEF Resync, Launch, Release, Register, KubeletStops, vars, core, rest, cloud, hvars
  <2> QED
    BY <1>0, <2>1, QuietCore DEF IInv
<1>4. CASE GroupLost
  BY <1>0, <1>4, DropCore, Zenon DEF GroupLost, DropGroup, hvars, IInv
<1>5. CASE Crash
  <2>1. /\ Return /\ UNCHANGED <<obj, groups, backup, pools, swallowed>>
        /\ lapse' = (lapse \/ pc \in {"savemod", "label"}) /\ lapse \in BOOLEAN
    BY <1>5 DEF Crash, Fail, cloud, IInv, TypeOK
  <2>2. lapse' = TRUE \/ (pc \notin Setting /\ lapse' = lapse)
    BY <2>1, Zenon DEF Setting
  <2> QED
    BY <1>0, <2>1, <2>2, ReturnCore, Zenon DEF IInv
<1> QED
  BY <1>1, <1>2, <1>3, <1>4, <1>5 DEF Next

LEMMA Invariant == Spec => []IInv
<1>1. Init => IInv
  BY InitType, InitCore DEF IInv
<1>2. IInv /\ [Next]_vars => IInv'
  BY InvStep
<1> QED
  BY <1>1, <1>2, PTL DEF Spec

\* However often CreateNodeGroup is repeated, after whatever failures, an
\* incarnation of the pool has at most one scaling group.
THEOREM OneGroupAtATime == Spec => []OneGroup
<1>1. IInv => OneGroup
  BY DEF IInv, Core, GroupInv
<1> QED
  BY <1>1, Invariant, PTL

\* The finalizer protects the group whose id was stored and the pool's backup:
\* neither is left behind unless DeleteNodeGroup ignored an error.
THEOREM DeletionIsComplete == Spec => []NothingLeft
<1>1. IInv => NothingLeft
  BY DEF IInv, Core, CleanInv
<1> QED
  BY <1>1, Invariant, PTL

\* "hash does not change, skip reconcile" skips only what is applied.
THEOREM SkippingIsSafe == Spec => []HashMeansApplied
<1>1. IInv => HashMeansApplied
  <2> SUFFICES ASSUME IInv, obj.hash = Hash(obj), Exists(obj.bind), pc \notin Setting, ~lapse
               PROVE  groups[obj.bind].cap = obj.want
    BY DEF HashMeansApplied, Setting
  <2>1. obj.hash[1] = obj.bind /\ obj.hash[2] = obj.want
    BY HashType DEF IInv, TypeOK
  <2> QED
    BY <2>1 DEF IInv, Core, HashInv
<1> QED
  BY <1>1, Invariant, PTL
=============================================================================
