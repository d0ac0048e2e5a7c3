---------------------------- MODULE ControlPlane ----------------------------
(***************************************************************************)
(* The control plane and the two actors of the operator that change it:    *)
(* the heal pass Healet.FixMasterNode (pkg/operator/heal), entered by the  *)
(* 60 s tick and by the master set controller under one mutex, and         *)
(* MasterSetReconciler.Reconcile (controllers/master/masterset.go), which  *)
(* scales the master group without that mutex.  Every API call that the    *)
(* code makes in sequence is a step of its own, so the two actors, the     *)
(* booting hosts and the environment interleave between the calls.         *)
(*                                                                         *)
(* The cloud, etcd and the kubelets are external and modelled from how the *)
(* operator uses them.                                                     *)
(***************************************************************************)
EXTENDS Triple

CONSTANTS Ids,        \* instance ids; an id is never allocated twice
          InitIds,    \* the instances of the running cluster at the start
          MinReplicas, MaxReplicas,   \* the values users give MasterSet.Spec.Replicas
          NoId,       \* "no instance"
          Timely,     \* TRUE: a bootstrap takes longer than a heal pass takes from
                      \* listing instances to listing members, and no longer
                      \* than the throttle windows of Reset
          Budget      \* bounds on disturbances, by kind

Kinds == {"user", "loss", "nodedel", "kubelet", "etcdstop", "bootfail",
          "poweroff", "throttle", "api", "crash"}

ASSUME IdsAssumption ==
  /\ InitIds \subseteq Ids /\ NoId \notin Ids /\ IsFiniteSet(Ids)
  /\ MinReplicas \in Nat /\ MaxReplicas \in Nat
  /\ Timely \in BOOLEAN /\ Budget \in [Kinds -> Nat]

VARIABLES
  \* the cloud: instances of the master scaling group, ids not yet allocated,
  \* what each instance runs, and its age as the reset throttle sees it
  ecs, fresh, host, clock,
  \* etcd: the membership, and the members whose process serves
  member, up,
  \* the API server: Master objects, master Node objects, the Ready ones
  crd, node, ready,
  \* the heal pass: step, caller, listings, objects left to remove, node to fix
  hpc, caller, trip, todo, target,
  \* the master set reconcile: step, replicas wanted, ScalingGroupDetail
  \* result, target count, follower removed from etcd
  mpc, want, detail, tgt, victim,
  \* the user's MasterSet and the disturbances left
  replicas, budget

cloudVars == <<ecs, fresh, host, clock>>
etcdVars  == <<member, up>>
kubeVars  == <<crd, node, ready>>
healVars  == <<hpc, caller, trip, todo, target>>
msetVars  == <<mpc, want, detail, tgt, victim>>
envVars   == <<replicas, budget>>
vars == <<cloudVars, etcdVars, kubeVars, healVars, msetVars, envVars>>

\* boot: fresh system disk whose userdata still has to join; run: a master;
\* off: nothing runs, after a power off, a bootstrap that gave up or a disk
\* replacement that failed half way.
HostStates == {"boot", "run", "off"}

\* new: created less than AdmitCreateThrottleTime ago; untagged: no
\* wdrip.last.update.time tag; recent: tagged less than AdmitECSThrottleTime
\* ago; old: tagged before that.
Ages == {"new", "untagged", "recent", "old"}

HealSteps == {"idle", "crds", "nodes", "ecs", "meta", "etcd", "etcdrm",
              "node", "kubelet", "admit", "drop", "disk", "wait"}
MsetSteps == {"idle", "fix", "fixing", "detail", "check", "scale",
              "follower", "rmecs"}

\* What etcd allows; the API server answers writes while etcd has a quorum.
Etcd == INSTANCE EtcdMembership

Quorate == Etcd!Quorate
CanRemove(x) == Etcd!CanRemove(x)

\* Healthy(): the triple read afresh is consistent; etcd is not looked at.
Healthy == SystemInConsistency(
  [crd |-> crd, node |-> node, ready |-> ready, ecs |-> ecs])

Spend(kind) == /\ budget[kind] > 0
               /\ budget' = [budget EXCEPT ![kind] = @ - 1]

Init ==
  /\ ecs = InitIds /\ fresh = Ids \ InitIds
  /\ host = [x \in Ids |-> IF x \in InitIds THEN "run" ELSE "boot"]
  /\ clock = [x \in Ids |-> IF x \in InitIds THEN "untagged" ELSE "new"]
  /\ member = InitIds /\ up = InitIds
  /\ crd = InitIds /\ node = InitIds /\ ready = InitIds
  /\ hpc = "idle" /\ caller = "loop" /\ trip = EmptyTriple
  /\ todo = {} /\ target = NoId
  /\ mpc = "idle" /\ want = 0 /\ detail = {} /\ tgt = 0 /\ victim = NoId
  /\ replicas = Cardinality(InitIds)
  /\ budget = Budget

(***************************************************************************)
(* FixMasterNode                                                           *)
(***************************************************************************)
\* Return from FixMasterNode, with or without an error: the mutex is
\* released and a waiting Reconcile requeues.
EndPass ==
  /\ hpc' = "idle" /\ caller' = "loop" /\ trip' = EmptyTriple
  /\ todo' = {} /\ target' = NoId
  /\ mpc' = IF caller = "masterset" THEN "idle" ELSE mpc
  /\ UNCHANGED <<want, detail, tgt, victim>>

\* A call returned an error and the pass ends: an injected failure, or one
\* that the state explains (an absent object, an API server without quorum).
Fails(explained) ==
  /\ EndPass /\ UNCHANGED replicas
  /\ Spend("api") \/ (explained /\ UNCHANGED budget)

\* Go on with the pass at step pc, having set trip and todo.
Proceed(pc) ==
  /\ hpc' = pc /\ UNCHANGED <<caller, target, msetVars, envVars>>

\* The mutex is taken by the tick or by Reconcile, whichever comes first.
StartPass ==
  /\ hpc = "idle"
  /\ hpc' = "crds"
  /\ \/ caller' = "loop" /\ mpc' = mpc
     \/ mpc = "fix" /\ caller' = "masterset" /\ mpc' = "fixing"
  /\ UNCHANGED <<trip, todo, target, want, detail, tgt, victim>>
  /\ UNCHANGED <<cloudVars, etcdVars, kubeVars, envVars>>

\* NewTripleMaster lists Master objects, then Node objects, then instances.
ReadCRDs ==
  /\ hpc = "crds"
  /\ \/ trip' = [trip EXCEPT !.crd = crd] /\ todo' = {} /\ Proceed("nodes")
     \/ Fails(FALSE)
  /\ UNCHANGED <<cloudVars, etcdVars, kubeVars>>

ReadNodes ==
  /\ hpc = "nodes"
  /\ \/ /\ trip' = [trip EXCEPT !.node = node, !.ready = ready]
        /\ todo' = {} /\ Proceed("ecs")
     \/ Fails(FALSE)
  /\ UNCHANGED <<cloudVars, etcdVars, kubeVars>>

ReadECS ==
  /\ hpc = "ecs"
  /\ \/ /\ trip' = [trip EXCEPT !.ecs = ecs]
        /\ todo' = MasterToDelete(trip') /\ Proceed("meta")
     \/ Fails(FALSE)
  /\ UNCHANGED <<cloudVars, etcdVars, kubeVars>>

\* FixUpMeta deletes the orphaned Master objects one call at a time; the
\* first error, NotFound included, ends the pass.
DeleteMaster(x) ==
  /\ hpc = "meta" /\ x \in todo
  /\ \/ /\ x \in crd /\ Quorate /\ crd' = crd \ {x}
        /\ \/ todo' = todo \ {x} /\ trip' = trip /\ Proceed("meta")
           \/ Fails(FALSE)
     \/ crd' = crd /\ Fails(x \notin crd \/ ~Quorate)
  /\ UNCHANGED <<cloudVars, etcdVars, node, ready>>

\* FixMasterCRD recreates the missing Master objects; a failed creation is
\* only logged.
CreateMasters ==
  /\ hpc = "meta" /\ todo = {}
  /\ \/ ~Quorate /\ crd' = crd /\ UNCHANGED budget
     \/ Quorate /\ crd' = crd \cup MasterMissed(trip) /\ UNCHANGED budget
     \/ \E made \in SUBSET MasterMissed(trip) : crd' = crd \cup made /\ Spend("api")
  /\ hpc' = "etcd"
  /\ UNCHANGED <<cloudVars, etcdVars, node, ready, replicas>>
  /\ UNCHANGED <<caller, trip, todo, target, msetVars>>

\* Mutant of ListMembers: a listing that fails is only logged.
ListMembersLogged ==
  /\ hpc = "etcd"
  /\ \/ /\ trip.crd \cap up # {}
        /\ todo' = EtcdMemDiff(trip, member) /\ trip' = trip
        /\ Proceed("etcdrm")
     \/ /\ todo' = {} /\ trip' = trip /\ hpc' = "etcdrm" /\ Spend("api")
        /\ UNCHANGED <<caller, target, msetVars, replicas>>
  /\ UNCHANGED <<cloudVars, etcdVars, kubeVars>>

\* FixUpEtcd asks the peers named by the listed Master objects.
ListMembers ==
  /\ hpc = "etcd"
  /\ \/ /\ trip.crd \cap up # {}
        /\ todo' = EtcdMemDiff(trip, member) /\ trip' = trip
        /\ Proceed("etcdrm")
     \/ Fails(trip.crd \cap up = {})
  /\ UNCHANGED <<cloudVars, etcdVars, kubeVars>>

\* RemoveMember succeeds, or fails with or without having been applied.
RemoveMember(x) ==
  /\ hpc = "etcdrm" /\ x \in todo
  /\ \/ /\ Etcd!RemoveMember(x)
        /\ \/ todo' = todo \ {x} /\ trip' = trip /\ Proceed("etcdrm")
           \/ Fails(FALSE)
     \/ UNCHANGED etcdVars /\ Fails(~CanRemove(x))
  /\ UNCHANGED <<cloudVars, kubeVars>>

\* Mutant of EtcdFixed: Node objects are listed again, instances are not.
EtcdFixedRelists ==
  /\ hpc = "etcdrm" /\ todo = {}
  /\ todo' = node \ trip.ecs /\ trip' = trip /\ Proceed("node")
  /\ UNCHANGED <<cloudVars, etcdVars, kubeVars>>

EtcdFixed ==
  /\ hpc = "etcdrm" /\ todo = {}
  /\ todo' = NodeDeletion(trip) /\ trip' = trip /\ Proceed("node")
  /\ UNCHANGED <<cloudVars, etcdVars, kubeVars>>

\* FixUpNode deletes the Node objects that have no instance.
DeleteNode(x) ==
  /\ hpc = "node" /\ x \in todo
  /\ \/ /\ x \in node /\ Quorate
        /\ node' = node \ {x} /\ ready' = ready \ {x}
        /\ \/ todo' = todo \ {x} /\ trip' = trip /\ Proceed("node")
           \/ Fails(FALSE)
     \/ UNCHANGED <<node, ready>> /\ Fails(x \notin node \/ ~Quorate)
  /\ UNCHANGED <<cloudVars, etcdVars, crd>>

\* Mutant of NodesToFix: instances that never registered are left alone.
NodesToFixUnready(t) == UnReadyNodeList(t)

\* Then it repairs one node: an instance without Node object, else an unready one.
NodesToFix(t) == IF NodeAddition(t) # {} THEN NodeAddition(t) ELSE UnReadyNodeList(t)

PickNode ==
  /\ hpc = "node" /\ todo = {}
  /\ \/ /\ \E x \in NodesToFix(trip) : target' = x
        /\ hpc' = "kubelet"
        /\ UNCHANGED <<caller, trip, todo, msetVars, envVars>>
     \/ Fails(NodesToFix(trip) = {})
  /\ UNCHANGED <<cloudVars, etcdVars, kubeVars>>

\* Go on to the next repair of the picked node.
GoOn(pc) == hpc' = pc /\ UNCHANGED <<caller, trip, todo, target, msetVars>>

\* A restarted kubelet heartbeats if the host runs one and the API answers.
CanHeartbeat(x) == x \in ecs /\ host[x] = "run" /\ Quorate

\* fixUpHard: RunCommand restarts the kubelet, LabelNode marks the master;
\* a restart without heartbeat leads to Reset.
RestartKubelet ==
  /\ hpc = "kubelet"
  /\ \/ /\ CanHeartbeat(target)
        /\ \/ node' = node \cup {target} /\ ready' = ready \cup {target}
              /\ EndPass /\ UNCHANGED envVars
           \/ node' = node /\ ready' = ready \cup ({target} \cap node)
              /\ Fails(FALSE)
     \/ /\ \/ ~CanHeartbeat(target) /\ UNCHANGED budget
           \/ Spend("api")
        /\ GoOn("admit") /\ UNCHANGED <<node, ready, replicas>>
  /\ UNCHANGED <<cloudVars, etcdVars, crd>>

\* AdmitNode: the listed Node object, or the one found now, must be absent
\* or have a recent Ready heartbeat.
AdmitNode(x) ==
  IF x \in trip.node THEN x \in trip.ready ELSE x \notin node \/ x \in ready

\* Reset is throttled by the instance's creation time and its tag.
Admit ==
  /\ hpc = "admit"
  /\ \/ clock[target] \in {"new", "recent"} /\ Fails(TRUE) /\ UNCHANGED clock
     \/ /\ clock[target] = "untagged"
        /\ \/ clock' = [clock EXCEPT ![target] = "recent"] /\ EndPass /\ UNCHANGED envVars
           \/ UNCHANGED clock /\ Fails(FALSE)
     \/ clock[target] = "old" /\ Fails(~AdmitNode(target)) /\ UNCHANGED clock
     \/ /\ clock[target] = "old" /\ AdmitNode(target)
        /\ GoOn("drop") /\ UNCHANGED <<clock, envVars>>
  /\ UNCHANGED <<ecs, fresh, host, etcdVars, kubeVars>>

\* Mutant of RemoveEtcd: the disk is replaced without it.
RemoveEtcdSkipped ==
  /\ hpc = "drop" /\ GoOn("disk")
  /\ UNCHANGED <<cloudVars, etcdVars, kubeVars, envVars>>

\* removeEtcd: an unknown member is skipped.
RemoveEtcd ==
  /\ hpc = "drop"
  /\ \/ /\ trip.crd \cap up # {}
        /\ IF target \in member THEN Etcd!RemoveMember(target)
                                ELSE UNCHANGED etcdVars
        /\ (GoOn("disk") /\ UNCHANGED envVars) \/ Fails(FALSE)
     \/ /\ UNCHANGED etcdVars
        /\ Fails(trip.crd \cap up = {} \/ (target \in member /\ ~CanRemove(target)))
  /\ UNCHANGED <<cloudVars, kubeVars>>

\* ReplaceSystemDisk stops the host, replaces its disk, starts it and tags
\* it.  It can fail before the stop or after it; a vanished instance is
\* reported as success.
ReplaceSystemDisk ==
  LET stopped == up' = up \ {target} /\ ready' = ready \ {target} IN
  /\ hpc = "disk"
  /\ \/ /\ target \in ecs /\ stopped
        /\ \/ /\ host' = [host EXCEPT ![target] = "boot"]
              /\ GoOn("wait") /\ UNCHANGED replicas
              /\ \/ clock' = [clock EXCEPT ![target] = "recent"] /\ UNCHANGED budget
                 \/ UNCHANGED clock /\ Spend("api")
           \/ host' = [host EXCEPT ![target] = "off"] /\ UNCHANGED clock /\ Fails(FALSE)
     \/ UNCHANGED <<host, clock, up, ready>> /\ Fails(FALSE)
     \/ /\ target \notin ecs /\ UNCHANGED <<host, clock, up, ready>>
        /\ GoOn("wait") /\ UNCHANGED envVars
  /\ UNCHANGED <<ecs, fresh, member, crd, node>>

\* Reset waits for the node's heartbeat; the outcome is only logged.
WaitHeartbeat ==
  /\ hpc = "wait" /\ EndPass
  /\ UNCHANGED <<cloudVars, etcdVars, kubeVars, envVars>>

FixMasterNode ==
  \/ StartPass \/ ReadCRDs \/ ReadNodes \/ ReadECS
  \/ \E x \in Ids : DeleteMaster(x) \/ RemoveMember(x) \/ DeleteNode(x)
  \/ CreateMasters \/ ListMembers \/ EtcdFixed \/ PickNode
  \/ RestartKubelet \/ Admit \/ RemoveEtcd \/ ReplaceSystemDisk \/ WaitHeartbeat

(***************************************************************************)
(* MasterSetReconciler.Reconcile                                           *)
(***************************************************************************)
MReturn == /\ mpc' = "idle" /\ want' = 0 /\ detail' = {} /\ tgt' = 0
           /\ victim' = NoId /\ UNCHANGED <<healVars, replicas>>

MFails(explained) == MReturn /\ (Spend("api") \/ (explained /\ UNCHANGED budget))

\* The fast path: repair first, stop when the node count is as wanted.
MReconcile ==
  /\ mpc = "idle"
  /\ \/ /\ mpc' = "fix" /\ want' = want
        /\ (~Healthy /\ UNCHANGED budget) \/ Spend("api")
     \/ /\ Healthy /\ Cardinality(node) # replicas
        /\ mpc' = "detail" /\ want' = replicas /\ UNCHANGED budget
  /\ UNCHANGED <<detail, tgt, victim, replicas>>
  /\ UNCHANGED <<cloudVars, etcdVars, kubeVars, healVars>>

\* ScalingGroupDetail, the userdata refresh and the choice of QuorumScale.
MDetail ==
  /\ mpc = "detail"
  /\ \/ /\ Cardinality(ecs) # want
        /\ detail' = ecs /\ tgt' = QuorumScaleTarget(Cardinality(ecs), want)
        /\ mpc' = "check" /\ UNCHANGED <<want, victim, healVars, envVars>>
     \/ MFails(Cardinality(ecs) = want)
  /\ UNCHANGED <<cloudVars, etcdVars, kubeVars>>

\* The callback checks Healthy again; an unhealthy answer is a nil error.
MCheck ==
  /\ mpc = "check"
  /\ \/ /\ Healthy /\ mpc' = IF tgt = 1 THEN "follower" ELSE "scale"
        /\ UNCHANGED <<want, detail, tgt, victim, healVars, envVars>>
     \/ MFails(~Healthy)
  /\ UNCHANGED <<cloudVars, etcdVars, kubeVars>>

\* The instances of a set are gone: their processes stop, their objects stay.
Terminate(gone) ==
  /\ ecs' = ecs \ gone /\ up' = up \ gone /\ ready' = ready \ gone
  /\ UNCHANGED <<fresh, host, clock, member, crd, node>>

Launch(new) ==
  /\ ecs' = ecs \cup new /\ fresh' = fresh \ new
  /\ UNCHANGED <<host, clock, etcdVars, kubeVars>>

\* ScaleMasterGroup executes a TotalCapacity rule on the group as it is now;
\* the scaling service chooses the instances to release.
MScale ==
  /\ mpc = "scale"
  /\ \/ /\ Cardinality(ecs) > tgt
        /\ \E gone \in SUBSET ecs :
             Cardinality(gone) = Cardinality(ecs) - tgt /\ Terminate(gone)
        /\ MReturn /\ UNCHANGED budget
     \/ /\ Cardinality(ecs) <= tgt
        /\ \E new \in SUBSET fresh :
             Cardinality(new) = tgt - Cardinality(ecs) /\ Launch(new)
        /\ MReturn /\ UNCHANGED budget
     \/ UNCHANGED <<cloudVars, etcdVars, kubeVars>> /\ MFails(FALSE)

\* RemoveFollower: all peers answer, there are exactly two, and the one that
\* does not lead is removed.
MFollower ==
  LET answer == crd \subseteq up /\ Cardinality(crd) = 2 IN
  /\ mpc = "follower"
  /\ \/ /\ answer
        /\ \E leader \in member \cap up : \E x \in crd \ {leader} :
             /\ Etcd!RemoveMember(x)
             /\ \/ /\ mpc' = "rmecs" /\ victim' = x
                   /\ UNCHANGED <<want, detail, tgt, healVars, envVars>>
                \/ MFails(FALSE)
     \/ UNCHANGED etcdVars /\ MFails(~answer \/ \A x \in crd : ~CanRemove(x))
  /\ UNCHANGED <<cloudVars, kubeVars>>

\* RemoveScalingGroupECS on the instance findId finds in the old listing.
MRemoveECS ==
  /\ mpc = "rmecs"
  /\ \/ victim \in detail \cap ecs /\ Terminate({victim}) /\ MReturn /\ UNCHANGED budget
     \/ UNCHANGED <<cloudVars, etcdVars, kubeVars>> /\ MFails(victim \notin detail \cap ecs)

Reconcile == MReconcile \/ MDetail \/ MCheck \/ MScale \/ MFollower \/ MRemoveECS

(***************************************************************************)
(* The hosts: cloud-init joins etcd, starts it and registers the kubelet.  *)
(***************************************************************************)
\* Etcd.Join waits until every listed member is healthy, then adds itself.
JoinEtcd(x) ==
  /\ x \in ecs \ member /\ host[x] = "boot"
  /\ Timely /\ hpc \in {"meta", "etcd"} => x \in trip.ecs
  /\ Etcd!AddMember(x)
  /\ UNCHANGED <<cloudVars, kubeVars, healVars, msetVars, envVars>>

StartEtcd(x) ==
  /\ x \in ecs /\ host[x] # "off"
  /\ Etcd!StartMember(x)
  /\ UNCHANGED <<cloudVars, kubeVars, healVars, msetVars, envVars>>

\* The kubelet registers a Ready master node: first at the end of the
\* bootstrap, later whenever it comes back by itself.
Register(x) ==
  /\ x \in ecs /\ Quorate
  /\ \/ host[x] = "boot" /\ x \in up
     \/ host[x] = "run" /\ x \notin ready
  /\ host' = [host EXCEPT ![x] = "run"]
  /\ node' = node \cup {x} /\ ready' = ready \cup {x}
  /\ UNCHANGED <<ecs, fresh, clock, etcdVars, crd, healVars, msetVars, envVars>>

\* A throttle window of Reset elapses.
Elapse(x) ==
  /\ x \in ecs /\ Spend("throttle")
  /\ Timely => host[x] # "boot"
  /\ \/ clock[x] = "new" /\ clock' = [clock EXCEPT ![x] = "untagged"]
     \/ clock[x] = "recent" /\ clock' = [clock EXCEPT ![x] = "old"]
  /\ UNCHANGED <<ecs, fresh, host, etcdVars, kubeVars, healVars, msetVars, replicas>>

Hosts == \E x \in Ids : JoinEtcd(x) \/ StartEtcd(x) \/ Register(x) \/ Elapse(x)

(***************************************************************************)
(* Disturbances, each kind bounded by Budget.                              *)
(***************************************************************************)
UserScale ==
  /\ Spend("user")
  /\ replicas' \in (MinReplicas..MaxReplicas) \ {replicas}
  /\ UNCHANGED <<cloudVars, etcdVars, kubeVars, healVars, msetVars>>

InstanceLost(x) ==
  /\ x \in ecs /\ Spend("loss") /\ Terminate({x})
  /\ UNCHANGED <<replicas, healVars, msetVars>>

NodeDeleted(x) ==
  /\ x \in node /\ Quorate /\ Spend("nodedel")
  /\ node' = node \ {x} /\ ready' = ready \ {x}
  /\ UNCHANGED <<replicas, crd, cloudVars, etcdVars, healVars, msetVars>>

\* The kubelet stops; a restart brings it back.
KubeletStops(x) ==
  /\ x \in ready /\ Spend("kubelet")
  /\ ready' = ready \ {x}
  /\ UNCHANGED <<replicas, crd, node, cloudVars, etcdVars, healVars, msetVars>>

EtcdStops(x) ==
  /\ x \in up /\ Spend("etcdstop")
  /\ up' = up \ {x}
  /\ UNCHANGED <<replicas, member, cloudVars, kubeVars, healVars, msetVars>>

\* cloud-init gives up, in BackOffJoinMember or anywhere before the kubelet.
BootFails(x) ==
  /\ x \in ecs /\ host[x] = "boot" /\ Spend("bootfail")
  /\ host' = [host EXCEPT ![x] = "off"] /\ up' = up \ {x}
  /\ UNCHANGED <<replicas, ecs, fresh, clock, member, kubeVars, healVars, msetVars>>

HostStops(x) ==
  /\ x \in ecs /\ host[x] = "run" /\ Spend("poweroff")
  /\ host' = [host EXCEPT ![x] = "off"] /\ up' = up \ {x} /\ ready' = ready \ {x}
  /\ UNCHANGED <<replicas, ecs, fresh, clock, member, crd, node, healVars, msetVars>>

\* The operator restarts: what its goroutines had in memory is lost.
Crash ==
  /\ Spend("crash")
  /\ hpc' = "idle" /\ caller' = "loop" /\ trip' = EmptyTriple
  /\ todo' = {} /\ target' = NoId
  /\ mpc' = "idle" /\ want' = 0 /\ detail' = {} /\ tgt' = 0 /\ victim' = NoId
  /\ UNCHANGED <<replicas, cloudVars, etcdVars, kubeVars>>

Disturb ==
  \/ UserScale \/ Crash
  \/ \E x \in Ids : \/ InstanceLost(x) \/ NodeDeleted(x) \/ KubeletStops(x)
                  \/ EtcdStops(x) \/ BootFails(x) \/ HostStops(x)

Next == FixMasterNode \/ Reconcile \/ Hosts \/ Disturb

Spec == Init /\ [][Next]_vars

\* The tick and the requeues keep both loops running, a Go mutex does not
\* starve a waiter, cloud-init finishes what it started and time passes.
Fairness ==
  /\ WF_vars(FixMasterNode) /\ WF_vars(Reconcile)
  /\ SF_vars(StartPass /\ caller' = "masterset")
  /\ \A x \in Ids :
       /\ WF_vars(JoinEtcd(x)) /\ WF_vars(Elapse(x))
       /\ WF_vars(host[x] = "boot" /\ StartEtcd(x))
       /\ WF_vars(host[x] = "boot" /\ Register(x))

FairSpec == Spec /\ Fairness

(***************************************************************************)
(* Properties                                                              *)
(***************************************************************************)
TypeOK ==
  /\ ecs \subseteq Ids /\ fresh \subseteq Ids
  /\ host \in [Ids -> HostStates] /\ clock \in [Ids -> Ages]
  /\ member \subseteq Ids /\ up \subseteq member \cap ecs
  /\ crd \subseteq Ids /\ node \subseteq Ids /\ ready \subseteq node
  /\ hpc \in HealSteps /\ caller \in {"loop", "masterset"}
  /\ trip \in Triples(Ids) /\ todo \subseteq Ids /\ target \in Ids \cup {NoId}
  /\ mpc \in MsetSteps /\ want \in Nat /\ detail \subseteq Ids
  /\ tgt \in Nat /\ victim \in Ids \cup {NoId}
  /\ replicas \in Nat /\ budget \in [Kinds -> Nat]

\* The heal pass deletes a Master object or a Node object only when the
\* instance behind it is really gone at that moment ("ecs has been removed,
\* clean up corresponding MasterCRD"), although it works from listings that
\* hosts, scaling and users overtake.
DeletionsAreOrphans ==
  [][ /\ \A x \in crd \ crd' : x \notin ecs
      /\ budget'["nodedel"] = budget["nodedel"] =>
           \A x \in node \ node' : x \notin ecs ]_vars

\* A scaling step of Reconcile never takes etcd from quorum to no quorum, as
\* long as every instance still is a member when it starts (QuorumScale).
ScaleInKeepsQuorum ==
  [][(/\ mpc \in {"scale", "rmecs"} /\ mpc' = "idle" /\ ecs' # ecs
      /\ ecs \ {victim} \subseteq member /\ Quorate) => Quorate']_vars

\* The Node object of a released master outlives its etcd member, so that
\* Healthy answers false and no further scaling step starts meanwhile: the
\* pass cleans "metadata first. MasterCRD & Etcd Member", the node last.
DeadMemberKeepsNode == member \ ecs \subseteq node

\* Reset replaces the system disk only of a host that is no etcd member any
\* more ("remove etcd member first").
WipeOnlyNonMembers ==
  [][(hpc = "disk" /\ host' # host) => target \notin member]_vars

\* Once disturbances cease the control plane settles on the wanted number of
\* masters, each with its objects and a serving etcd member, and no others.
Settled ==
  /\ Cardinality(ecs) = replicas
  /\ crd = ecs /\ node = ecs /\ ready = ecs /\ member = ecs /\ up = ecs

Converges == <>[]Settled

(***************************************************************************)
(* What comments, logs and documents say and the code does not do.         *)
(***************************************************************************)
\* The comment in the scaling callback: "check for etcd member, make sure
\* len(etcd)==len(ecs)"; the code checks Healthy only.
ScaleWithMembersAligned ==
  [][(mpc = "check" /\ mpc' \in {"scale", "follower"}) =>
        Cardinality(member) = Cardinality(ecs)]_vars

\* The log line of FixUpEtcd: "ecs[%s] has been removed, clean up
\* corresponding etcd member"; the instance listing is older than the member
\* listing.
EtcdCleanupOnlyDead ==
  [][hpc = "etcdrm" => \A x \in member \ member' : x \notin ecs]_vars

\* docs/zh/infrastructure-resilience.md: a powered-off ECS recovers without
\* manual intervention; an unready node is never admitted for reset.
PoweredOffRecovers ==
  \A x \in Ids : (x \in ecs /\ host[x] = "off") ~> (x \notin ecs \/ x \in ready)
=============================================================================
