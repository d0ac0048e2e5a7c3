------------------------------ MODULE NodePool ------------------------------
(***************************************************************************)
(* One node pool: ReconcileNodePool of controllers/nodepool, FixNodePool   *)
(* of heal/healet.go with the worker listing of heal/triple.go, and the    *)
(* scaling group of iaas/provider/alibaba/nodepool.go.                     *)
(*                                                                         *)
(* Every request is one step.  The pool may be deleted and created again   *)
(* under its name; uid tells its incarnations apart and names the scaling  *)
(* group.  Reads through the cache are current, the pool's id is its name  *)
(* (as in the default pool) and there is one VPC.                          *)
(***************************************************************************)
EXTENDS Integers, FiniteSets

CONSTANTS MaxUid, MaxGroup, MaxWant, Workers, NoWorker, MaxEdits, MaxMishaps

ASSUME PoolAssumption ==
  /\ MaxUid \in Nat /\ MaxGroup \in Nat /\ MaxWant \in Nat
  /\ MaxEdits \in Nat /\ MaxMishaps \in Nat
  /\ IsFiniteSet(Workers) /\ NoWorker \notin Workers

VARIABLES
  obj,      \* the stored NodePool; uid 0: there is none
  queued,   \* the work queue holds the pool
  pc, np, hasho, sg,      \* Reconcile: step, its copy, its hash, the group
  det, seen, sready, last,\* FixNodePool: instances, nodes, ready ones, the loop variable d
  groups,   \* scaling groups by id
  backup,   \* the pool's object in the store; uid 0: none
  home,     \* worker -> its group, Fresh or Released
  boot, node, ready, lab, \* hosts that boot; Node objects, Ready ones, labelled ones
  pools,    \* history: incarnations that had a group stored in their object
  lapse,    \* history: a capacity was set whose hash was not stored
  swallowed,\* history: DeleteNodeGroup ignored an error
  edits, mishaps

fvars == <<det, seen, sready, last>>
wvars == <<home, boot, node, ready, lab>>
hvars == <<pools, lapse, swallowed>>
vars == <<obj, queued, pc, np, hasho, sg, fvars, groups, backup, wvars, hvars, edits, mishaps>>

Binds == 0..MaxGroup
\* HashObject of the specification, which holds the binding.
Hash(p) == <<p.bind, p.want>>
NoHash == <<0, -1>>
Hashes == Binds \X (-1..MaxWant)
Pools == [uid : 0..MaxUid, del : BOOLEAN, fin : BOOLEAN, bind : Binds,
          want : 0..MaxWant, hash : Hashes]
NoPool == [uid |-> 0, del |-> FALSE, fin |-> FALSE, bind |-> 0, want |-> 0,
           hash |-> NoHash]
\* A group of uid 0 does not exist; "kept" once its id is in the object.
NoGroup == [uid |-> 0, cap |-> 0, enabled |-> FALSE, kept |-> FALSE]
DeadGroup == [NoGroup EXCEPT !.kept = TRUE]
Groups == [uid : 0..MaxUid, cap : 0..MaxWant, enabled : BOOLEAN, kept : BOOLEAN]
Exists(g) == g # 0 /\ groups[g].uid # 0
Fresh == 0
Released == -1
Instances(g) == {w \in Workers : g # 0 /\ home[w] = g}

Init ==
  /\ obj = NoPool /\ queued = FALSE
  /\ pc = "idle" /\ np = NoPool /\ hasho = NoHash /\ sg = 0
  /\ det = {} /\ seen = {} /\ sready = {} /\ last = NoWorker
  /\ groups = [g \in 1..MaxGroup |-> NoGroup]
  /\ backup = NoPool
  /\ home = [w \in Workers |-> Fresh] /\ boot = {} /\ node = {} /\ ready = {} /\ lab = {}
  /\ pools = {} /\ lapse = FALSE /\ swallowed = FALSE
  /\ edits = 0 /\ mishaps = 0

Mishap == mishaps < MaxMishaps /\ mishaps' = mishaps + 1
Fine == UNCHANGED mishaps

\* Reconcile goes on, or returns: with an error the queue takes the pool back.
Goto(s) == pc' = s /\ UNCHANGED queued
Return == pc' = "idle" /\ np' = NoPool /\ hasho' = NoHash /\ sg' = 0
Done == Return /\ UNCHANGED queued
Fail == Return /\ queued' = TRUE

----------------------------------------------------------------------------
(* FixNodePool, at the start of Reconcile.                                 *)

Get ==
  /\ pc = "idle" /\ queued
  /\ queued' = FALSE
  /\ np' = obj
  /\ pc' = IF obj.uid = 0 THEN "idle" ELSE IF obj.del THEN "delgroup" ELSE "list"
  /\ UNCHANGED <<obj, hasho, sg, fvars, groups, backup, wvars, hvars, edits, mishaps>>

\* Whatever FixNodePool returns, Reconcile goes on with the hash of its copy.
AfterFix(p) ==
  /\ det' = {} /\ seen' = {} /\ sready' = {} /\ last' = NoWorker
  /\ IF p.bind # 0 /\ Hash(p) = p.hash
       THEN Done
       ELSE /\ np' = p /\ hasho' = Hash(p)
            /\ Goto(IF p.bind = 0 THEN "find" ELSE "modify")
            /\ UNCHANGED sg

FixEnds == AfterFix(np)

\* Mutant of GroupMissing: the error is only logged.
GroupMissingLogged ==
  /\ np.bind # 0 /\ ~Exists(np.bind)
  /\ AfterFix(np)

\* GetNodePoolECS: a missing group clears the binding of the copy.
GroupMissing ==
  /\ np.bind # 0 /\ ~Exists(np.bind)
  /\ AfterFix([np EXCEPT !.bind = 0])

\* The control plane is in checking, or a listing fails: nothing is fixed.
FixRefused ==
  /\ pc \in {"list", "triple", "ecs"}
  /\ FixEnds
  /\ UNCHANGED <<obj, groups, backup, wvars, hvars, edits, mishaps>>

ListECS ==
  /\ pc = "list"
  /\ \/ GroupMissing
     \/ /\ np.bind = 0 \/ Exists(np.bind)
        /\ det' = Instances(np.bind)
        /\ Goto("labels")
        /\ UNCHANGED <<np, hasho, sg, seen, sready, last>>
  /\ UNCHANGED <<obj, groups, backup, wvars, hvars, edits, mishaps>>

LabelNodes ==
  /\ pc = "labels"
  /\ \/ /\ lab' = lab \cup (det \cap node)
        /\ Goto("triple") /\ Fine /\ UNCHANGED <<np, hasho, sg, fvars>>
     \/ \E some \in SUBSET (det \cap node) : lab' = lab \cup some /\ FixEnds /\ Mishap
  /\ UNCHANGED <<obj, groups, backup, home, boot, node, ready, hvars, edits>>

ReadNodes ==
  /\ pc = "triple"
  /\ seen' = lab /\ sready' = lab \cap ready
  /\ Goto("ecs")
  /\ UNCHANGED <<obj, np, hasho, sg, det, last, groups, backup, wvars, hvars, edits,
                 mishaps>>

\* Every NodeInfo of an instance points at the loop variable, which ends as
\* the last instance of a map in arbitrary order.
ReadECS ==
  /\ pc = "ecs"
  /\ \/ GroupMissing
     \/ /\ np.bind = 0 \/ Exists(np.bind)
        /\ det' = Instances(np.bind)
        /\ IF det' = {} THEN last' = NoWorker ELSE last' \in det'
        /\ Goto("fixup")
        /\ UNCHANGED <<np, hasho, sg, seen, sready>>
  /\ UNCHANGED <<obj, groups, backup, wvars, hvars, edits, mishaps>>

\* The nodes that no NodeInfo seems to have: all but that of the last instance.
Extras == seen \ {last}

\* FixUpNode deletes "the" extra node once for each of them: each points at
\* the last node of the list, so the second call does not find it any more.
DeleteNode ==
  /\ pc = "fixup"
  /\ \/ Extras = {} /\ UNCHANGED <<node, ready, lab, mishaps>> /\ Goto("repair")
        /\ UNCHANGED <<np, hasho, sg, fvars>>
     \/ \E n \in seen :
          /\ Extras # {} /\ n \in node /\ Fine
          /\ node' = node \ {n} /\ ready' = ready \ {n} /\ lab' = lab \ {n}
          /\ IF Cardinality(Extras) = 1
               THEN Goto("repair") /\ UNCHANGED <<np, hasho, sg, fvars>>
               ELSE FixEnds
     \/ /\ Extras # {} /\ FixEnds
        /\ IF seen \subseteq node THEN Mishap ELSE Fine
        /\ UNCHANGED <<node, ready, lab>>
  /\ UNCHANGED <<obj, groups, backup, home, boot, hvars, edits>>

\* fixUpHard: the kubelet of the last instance is restarted, whichever
\* instance has no node or an unready one; if that fails, Reset replaces the
\* disk, unless a throttle or AdmitNode (a node that is there and not ready)
\* refuses.  Its errors are only logged.
Repair ==
  /\ pc = "repair"
  /\ LET missing == det \ seen
         unready == (det \cap seen) \ sready
         up      == last \in Workers /\ home[last] > 0
     IN  \/ missing \cup unready = {} /\ Fine /\ UNCHANGED <<boot, node, ready>>
         \/ /\ missing \cup unready # {} /\ up /\ last \notin boot
            /\ Fine /\ UNCHANGED boot
            /\ node' = node \cup {last} /\ ready' = ready \cup {last}
         \/ /\ missing # {} /\ up /\ (last \notin node \/ last \in ready)
            /\ IF last \in boot THEN Fine ELSE Mishap
            /\ boot' = boot \cup {last} /\ ready' = ready \ {last} /\ UNCHANGED node
         \/ /\ missing \cup unready # {} /\ UNCHANGED <<boot, node, ready>>
            /\ IF up /\ last \notin boot THEN Mishap ELSE Fine
  /\ FixEnds
  /\ UNCHANGED <<obj, groups, backup, home, lab, hvars, edits>>

----------------------------------------------------------------------------
(* CreateNodeGroup: find or create the group named after the pool's uid.   *)

GroupsOf(u) == {g \in 1..MaxGroup : u # 0 /\ groups[g].uid = u}

\* Mutant of FindGroup: the group is not looked up by its name.
FindGroupSkipped ==
  /\ pc = "find"
  /\ Goto("create") /\ Fine /\ UNCHANGED <<np, hasho, sg>>
  /\ UNCHANGED <<obj, fvars, groups, backup, wvars, hvars, edits>>

FindGroup ==
  /\ pc = "find"
  /\ \/ Fail /\ Mishap
     \/ /\ GroupsOf(np.uid) = {} /\ Fine
        /\ Goto("create") /\ UNCHANGED <<np, hasho, sg>>
     \/ \E g \in GroupsOf(np.uid) :
          sg' = g /\ Fine /\ Goto("enable") /\ UNCHANGED <<np, hasho>>
  /\ UNCHANGED <<obj, fvars, groups, backup, wvars, hvars, edits>>

\* The next id; ids are not given twice.
NextGroup == {g \in 1..MaxGroup : groups[g] = NoGroup /\ \A h \in 1..(g - 1) : groups[h] # NoGroup}

CreateGroup ==
  /\ pc = "create"
  /\ \/ Fail /\ Mishap /\ UNCHANGED groups
     \/ \E g \in NextGroup :
          /\ groups' = [groups EXCEPT ![g] = [uid |-> np.uid, cap |-> np.want,
                                              enabled |-> FALSE, kept |-> FALSE]]
          /\ \/ sg' = g /\ Fine /\ Goto("enable") /\ UNCHANGED <<np, hasho>>
             \/ Fail /\ Mishap
  /\ UNCHANGED <<obj, fvars, backup, wvars, hvars, edits>>

\* Find or create the configuration, then EnableScalingGroup.
EnableGroup ==
  /\ pc = "enable"
  /\ \/ Fail /\ (IF Exists(sg) THEN Mishap ELSE Fine) /\ UNCHANGED groups
     \/ /\ Exists(sg)
        /\ groups' = [groups EXCEPT ![sg].enabled = TRUE]
        /\ \/ Fine /\ Goto("savenew") /\ UNCHANGED <<np, hasho, sg>>
           \/ Fail /\ Mishap
  /\ UNCHANGED <<obj, fvars, backup, wvars, hvars, edits>>

\* EnsureNodePoolBackup: the copy is stored as it was read; an error is logged.
SaveBackup ==
  /\ pc \in {"savenew", "savemod"}
  /\ \/ backup' = np /\ Fine
     \/ UNCHANGED backup /\ Mishap
  /\ Goto(IF pc = "savenew" THEN "bind" ELSE "label")
  /\ UNCHANGED <<obj, np, hasho, sg, fvars, groups, wvars, hvars, edits>>

\* Mutant of PatchBind: the finalizer is not added.
PatchBindOnly ==
  /\ pc = "bind" /\ obj.uid # 0
  /\ obj' = [obj EXCEPT !.bind = sg]
  /\ groups' = [groups EXCEPT ![sg].kept = TRUE]
  /\ pools' = pools \cup {obj.uid}
  /\ pc' = "label" /\ queued' = TRUE /\ Fine
  /\ UNCHANGED <<np, hasho, sg, fvars, backup, wvars, lapse, swallowed, edits>>

\* The group's id and the finalizer go into whatever object has the name now.
PatchBind ==
  /\ pc = "bind"
  /\ \/ /\ Fail /\ (IF obj.uid = 0 THEN Fine ELSE Mishap)
        /\ UNCHANGED <<obj, groups, pools>>
     \/ /\ obj.uid # 0
        /\ obj' = [obj EXCEPT !.bind = sg, !.fin = TRUE]
        /\ groups' = [groups EXCEPT ![sg].kept = TRUE]
        /\ pools' = pools \cup {obj.uid}
        /\ \/ pc' = "label" /\ queued' = TRUE /\ Fine /\ UNCHANGED <<np, hasho, sg>>
           \/ Fail /\ Mishap
  /\ UNCHANGED <<fvars, backup, wvars, lapse, swallowed, edits>>

----------------------------------------------------------------------------
(* ModifyNodeGroup and the hash label.                                     *)

ModifyGroup ==
  /\ pc = "modify"
  /\ \/ /\ Fail /\ (IF Exists(np.bind) THEN Mishap ELSE Fine)
        /\ UNCHANGED <<groups, lapse>>
     \/ /\ Exists(np.bind)
        /\ groups' = [groups EXCEPT ![np.bind].cap = np.want]
        /\ \/ Goto("savemod") /\ Fine /\ UNCHANGED <<np, hasho, sg, lapse>>
           \/ Fail /\ Mishap /\ lapse' = TRUE
  /\ UNCHANGED <<obj, fvars, backup, wvars, pools, swallowed, edits>>

\* Mutant of PatchHash: the hash is that of the object as it is read now.
PatchHashAnew ==
  /\ pc = "label"
  /\ obj.uid # 0
  /\ obj' = [obj EXCEPT !.hash = Hash(obj)]
  /\ Return /\ queued' = (queued \/ obj' # obj) /\ Fine
  /\ UNCHANGED <<fvars, groups, backup, wvars, hvars, edits>>

\* A failure is only logged.
PatchHash ==
  /\ pc = "label"
  /\ \/ /\ obj.uid # 0
        /\ obj' = [obj EXCEPT !.hash = hasho]
        /\ Return /\ queued' = (queued \/ obj' # obj)
        /\ Fine /\ UNCHANGED lapse
     \/ /\ Done /\ (IF obj.uid = 0 THEN Fine ELSE Mishap)
        /\ lapse' = TRUE /\ UNCHANGED obj
  /\ UNCHANGED <<fvars, groups, backup, wvars, pools, swallowed, edits>>

----------------------------------------------------------------------------
(* The deletion of the pool.                                               *)

\* The group and, by force, its instances.
DropGroup(g) ==
  /\ groups' = [groups EXCEPT ![g] = DeadGroup]
  /\ home' = [w \in Workers |-> IF home[w] = g THEN Released ELSE home[w]]
  /\ boot' = boot \ Instances(g) /\ ready' = ready \ Instances(g)
  /\ UNCHANGED <<node, lab>>

\* An error that says "not found" is returned, any other one is ignored.
DeleteNodeGroup ==
  /\ pc = "delgroup"
  /\ \/ /\ np.bind = 0
        /\ Goto("delbackup") /\ Fine
        /\ UNCHANGED <<np, hasho, sg, groups, wvars, swallowed>>
     \/ /\ np.bind # 0 /\ ~Exists(np.bind)
        /\ Fail /\ Fine
        /\ UNCHANGED <<groups, wvars, swallowed>>
     \/ /\ Exists(np.bind) /\ DropGroup(np.bind)
        /\ Goto("delbackup") /\ Fine \* the same if the reply is lost
        /\ UNCHANGED <<np, hasho, sg, swallowed>>
     \/ /\ Exists(np.bind) /\ Mishap
        /\ Goto("delbackup") /\ swallowed' = TRUE
        /\ UNCHANGED <<np, hasho, sg, groups, wvars>>
  /\ UNCHANGED <<obj, fvars, backup, pools, lapse, edits>>

DeleteBackup ==
  /\ pc = "delbackup"
  /\ \/ /\ backup' = NoPool
        /\ \/ Goto("unfinal") /\ Fine /\ UNCHANGED <<np, hasho, sg>>
           \/ Fail /\ Mishap
     \/ UNCHANGED backup /\ Fail /\ Mishap
  /\ UNCHANGED <<obj, fvars, groups, wvars, hvars, edits>>

\* Mutant of RemoveFinalizer: the patch is empty, and nothing is sent.
RemoveFinalizerEmpty ==
  /\ pc = "unfinal" /\ Done /\ Fine
  /\ UNCHANGED <<obj, fvars, groups, backup, wvars, hvars, edits>>

\* The pool was deleted before: without finalizer it is gone.
RemoveFinalizer ==
  /\ pc = "unfinal"
  /\ \/ obj' = NoPool /\ Fine /\ Return /\ queued' = TRUE
     \/ Fail /\ Mishap /\ UNCHANGED obj
  /\ UNCHANGED <<fvars, groups, backup, wvars, hvars, edits>>

Reconcile ==
  \/ Get \/ ListECS \/ FixRefused \/ LabelNodes \/ ReadNodes \/ ReadECS \/ DeleteNode
  \/ Repair \/ FindGroup \/ CreateGroup \/ EnableGroup \/ SaveBackup \/ PatchBind
  \/ ModifyGroup \/ PatchHash \/ DeleteNodeGroup \/ DeleteBackup \/ RemoveFinalizer

----------------------------------------------------------------------------
(* The informer, users, the scaling service, hosts and faults.             *)

cloud == <<groups, backup>>
rest == <<pc, np, hasho, sg, fvars, cloud, hvars>>

\* The informer lists again every SyncPeriod.
Resync ==
  /\ obj.uid # 0 /\ ~queued /\ queued' = TRUE
  /\ UNCHANGED <<obj, rest, wvars, edits, mishaps>>

Edit == edits < MaxEdits /\ edits' = edits + 1 /\ queued' = TRUE
        /\ UNCHANGED <<rest, wvars, mishaps>>

UserCreates ==
  /\ obj.uid = 0 /\ Edit
  /\ \E u \in 1..MaxUid, n \in 0..MaxWant :
       /\ \A g \in 1..MaxGroup : groups[g].uid < u
       /\ u > np.uid /\ u > backup.uid /\ \A p \in pools : u > p
       /\ obj' = [NoPool EXCEPT !.uid = u, !.want = n]

UserScales ==
  /\ obj.uid # 0 /\ Edit
  /\ \E n \in 0..MaxWant \ {obj.want} : obj' = [obj EXCEPT !.want = n]

UserDeletes ==
  /\ obj.uid # 0 /\ ~obj.del /\ Edit
  /\ obj' = IF obj.fin THEN [obj EXCEPT !.del = TRUE] ELSE NoPool

Launch ==
  /\ \E w \in Workers, g \in 1..MaxGroup :
       /\ home[w] = Fresh /\ Exists(g) /\ groups[g].enabled
       /\ Cardinality(Instances(g)) < groups[g].cap
       /\ home' = [home EXCEPT ![w] = g] /\ boot' = boot \cup {w}
  /\ UNCHANGED <<obj, queued, rest, node, ready, lab, edits, mishaps>>

Release ==
  /\ \E w \in Workers :
       /\ home[w] > 0 /\ Cardinality(Instances(home[w])) > groups[home[w]].cap
       /\ home' = [home EXCEPT ![w] = Released]
       /\ boot' = boot \ {w} /\ ready' = ready \ {w}
  /\ UNCHANGED <<obj, queued, rest, node, lab, edits, mishaps>>

\* The kubelet registers its node, without the label of the pool.
Register ==
  /\ \E w \in boot :
       boot' = boot \ {w} /\ node' = node \cup {w} /\ ready' = ready \cup {w}
  /\ UNCHANGED <<obj, queued, rest, home, lab, edits, mishaps>>

\* A user deletes the scaling group.
GroupLost ==
  /\ Mishap
  /\ \E g \in 1..MaxGroup : Exists(g) /\ DropGroup(g)
  /\ UNCHANGED <<obj, queued, pc, np, hasho, sg, fvars, backup, hvars, edits>>

KubeletStops ==
  /\ Mishap
  /\ \E w \in ready : ready' = ready \ {w}
  /\ UNCHANGED <<obj, queued, rest, home, boot, node, lab, edits>>

\* The operator restarts: the new one lists the pool.
Crash ==
  /\ pc # "idle" /\ Mishap
  /\ Fail
  /\ det' = {} /\ seen' = {} /\ sready' = {} /\ last' = NoWorker
  /\ lapse' = (lapse \/ pc \in {"savemod", "label"})
  /\ UNCHANGED <<obj, cloud, wvars, pools, swallowed, edits>>

Next ==
  \/ Reconcile \/ Resync \/ UserCreates \/ UserScales \/ UserDeletes
  \/ Launch \/ Release \/ Register \/ GroupLost \/ KubeletStops \/ Crash

Spec == Init /\ [][Next]_vars

\* The controller goes on, the informer lists again, and some reconcile finds
\* the control plane not in checking.
FairSpec ==
  /\ Spec /\ WF_vars(Reconcile) /\ WF_vars(Resync) /\ SF_vars(ListECS)

----------------------------------------------------------------------------
(* Properties.                                                             *)

\* The state of the pool, its reconcile and its cloud resources stays typed.
TypeOK ==
  /\ obj \in Pools /\ np \in Pools /\ backup \in Pools /\ hasho \in Hashes
  /\ queued \in BOOLEAN /\ sg \in Binds
  /\ pc \in {"idle", "list", "labels", "triple", "ecs", "fixup", "repair", "find",
             "create", "enable", "savenew", "bind", "modify", "savemod", "label",
             "delgroup", "delbackup", "unfinal"}
  /\ groups \in [1..MaxGroup -> Groups]
  /\ home \in [Workers -> -1..MaxGroup]
  /\ det \subseteq Workers /\ seen \subseteq Workers /\ sready \subseteq seen
  /\ last \in Workers \cup {NoWorker}
  /\ boot \subseteq Workers /\ node \subseteq Workers
  /\ ready \subseteq node /\ lab \subseteq node
  /\ pools \subseteq 1..MaxUid /\ lapse \in BOOLEAN /\ swallowed \in BOOLEAN
  /\ edits \in 0..MaxEdits /\ mishaps \in 0..MaxMishaps

\* CreateNodeGroup is repeated after failures, lost replies and restarts, and
\* the pool may be created again meanwhile: an incarnation of the pool has at
\* most one scaling group at a time.
OneGroup == \A g, h \in 1..MaxGroup :
              (Exists(g) /\ groups[g].uid = groups[h].uid) => g = h

\* The finalizer: a group whose id was once stored belongs to the pool that is
\* there, and a pool that had a group leaves no backup behind, unless
\* DeleteNodeGroup ignored an error.
NothingLeft ==
  swallowed \/ /\ \A g \in 1..MaxGroup : (Exists(g) /\ groups[g].kept) => obj.bind = g
               /\ backup.uid \in pools => obj.uid = backup.uid

\* "hash does not change, skip reconcile": a stored hash that matches the pool
\* means that its group has the wanted capacity, as long as every capacity
\* that was set also had its hash stored.
HashMeansApplied ==
  (/\ obj.uid # 0 /\ obj.hash = Hash(obj) /\ Exists(obj.bind)
   /\ pc \notin {"savemod", "label"} /\ ~lapse)
     => groups[obj.bind].cap = obj.want

\* A pool that is not deleted gets a group of the wanted capacity for good,
\* whatever failed, as long as no capacity was set without its hash.
Sized == obj.uid = 0 \/ obj.del \/ (Exists(obj.bind) /\ groups[obj.bind].cap = obj.want)
SizeFollows == <>[](lapse \/ Sized)

\* A deleted pool goes away, if nothing fails.
DeletionEnds == obj.del ~> (~obj.del \/ mishaps > 0)

\* The comment in FixUpNode: "corresponding ecs has been deleted. delete node
\* together"; the listing points at the wrong node.
DeletedNodesAreOrphans ==
  [][\A w \in node \ node' : home[w] <= 0]_vars
=============================================================================
