------------------------- MODULE ControlPlaneProofs -------------------------
(***************************************************************************)
(* For every set of instances, every bound on disturbances and every       *)
(* timing: ControlPlane keeps its types, the heal pass deletes only        *)
(* orphans, and the two numeric guards (QuorumScale, EtcdMemDiff) hold.    *)
(* What heal passes and reconciles promise together (dead members keep     *)
(* nodes, scaling keeps the quorum, only non-members are wiped) is proved  *)
(* from the environment each names.                                        *)
(***************************************************************************)
EXTENDS ControlPlane, FiniteSetTheorems, TLAPS

(***************************************************************************)
(* The numeric guards                                                      *)
(***************************************************************************)
\* The count that QuorumScale asks for is a natural number between the
\* current count and the wanted one.
LEMMA QuorumScaleBetween ==
  ASSUME NEW current \in Nat, NEW expect \in Nat, expect # current
  PROVE  /\ QuorumScaleTarget(current, expect) \in Nat
         /\ expect > current => QuorumScaleTarget(current, expect) = expect
         /\ expect < current => /\ QuorumScaleTarget(current, expect) >= expect
                                /\ QuorumScaleTarget(current, expect) < current
  BY DEF QuorumScaleTarget, MaxOf

\* One scale-in step from three or more masters leaves a strict majority of
\* the masters it started from.
THEOREM QuorumScaleKeepsMajority ==
  ASSUME NEW current \in Nat, NEW expect \in Nat, current >= 3, expect < current
  PROVE  2 * QuorumScaleTarget(current, expect) > current
  BY DEF QuorumScaleTarget, MaxOf

\* FixUpEtcd never takes more than half of the listed members for removal,
\* and never one whose instance is listed.
THEOREM EtcdMemDiffBounded ==
  ASSUME NEW t, NEW mems, IsFiniteSet(mems)
  PROVE  /\ EtcdMemDiff(t, mems) \subseteq mems \ t.ecs
         /\ 2 * Cardinality(EtcdMemDiff(t, mems)) <= Cardinality(mems)
<1> DEFINE D == mems \ t.ecs
<1>1. IsFiniteSet(D) /\ Cardinality(D) \in Nat /\ Cardinality(mems) \in Nat
  BY FS_Difference, FS_CardinalityType, Zenon
<1>2. Cardinality({}) = 0
  BY FS_EmptySet
<1>3. CASE 2 * Cardinality(D) > Cardinality(mems)
  BY <1>1, <1>2, <1>3 DEF EtcdMemDiff
<1>4. CASE ~(2 * Cardinality(D) > Cardinality(mems))
  BY <1>1, <1>4 DEF EtcdMemDiff
<1> QED
  BY <1>3, <1>4

(***************************************************************************)
(* The inductive invariant.  Ids are allocated once: an instance that is   *)
(* neither listed by the cloud nor fresh never comes back.  The pass lists *)
(* objects before instances, so what it takes for an orphan is one.        *)
(***************************************************************************)
Gone == Ids \ (ecs \cup fresh)

IInv ==
  /\ TypeOK
  /\ ecs \cap fresh = {} /\ crd \cap fresh = {} /\ node \cap fresh = {}
  /\ trip.crd \cap fresh = {} /\ trip.node \cap fresh = {}
  /\ hpc \in {"meta", "node"} => todo \subseteq Gone
  /\ hpc \in {"meta", "etcd", "etcdrm"} => trip.node \ trip.ecs \subseteq Gone

\* Spending a disturbance keeps the budget a function into the naturals.
LEMMA SpendType ==
  ASSUME NEW kind \in Kinds, budget \in [Kinds -> Nat], Spend(kind)
  PROVE  budget' \in [Kinds -> Nat]
  BY DEF Spend

\* Cardinalities of sets of instances are natural numbers.
LEMMA IdsFinite ==
  ASSUME NEW S, S \subseteq Ids
  PROVE  IsFiniteSet(S) /\ Cardinality(S) \in Nat
  BY IdsAssumption, FS_Subset, FS_CardinalityType

LEMMA InitIInv == Init => IInv
<1> SUFFICES ASSUME Init PROVE IInv
  OBVIOUS
<1>1. Cardinality(InitIds) \in Nat
  BY IdsFinite, IdsAssumption
<1>2. TypeOK
  BY <1>1, IdsAssumption DEF Init, TypeOK, HostStates, Ages, HealSteps, MsetSteps,
     Triples, EmptyTriple
<1> QED
  BY <1>2, IdsAssumption DEF Init, IInv, EmptyTriple
\* Every step of the heal pass keeps the invariant.
LEMMA HealIInv ==
  ASSUME IInv, FixMasterNode
  PROVE  IInv'
<1> USE IdsAssumption DEF IInv, Gone, TypeOK, HostStates, Ages, HealSteps, MsetSteps, Triples, EmptyTriple,
        cloudVars, etcdVars, kubeVars, healVars, msetVars, envVars
<1>1. CASE StartPass
  BY <1>1 DEF StartPass
<1>2. CASE ReadCRDs
  BY <1>2 DEF ReadCRDs, EndPass, Fails, Proceed, Spend, Kinds
<1>3. CASE ReadNodes
  <2>1. CASE trip' = [trip EXCEPT !.node = node, !.ready = ready]
             /\ todo' = {} /\ Proceed("ecs")
    <3>1. /\ trip' \in Triples(Ids)
          /\ trip'.crd = trip.crd /\ trip'.node = node
      BY <2>1, Zenon
    <3> QED
      BY <1>3, <2>1, <3>1 DEF ReadNodes, Proceed
  <2>2. CASE Fails(FALSE)
    BY <1>3, <2>2 DEF ReadNodes, EndPass, Fails, Spend, Kinds
  <2> QED
    BY <1>3, <2>1, <2>2, Zenon DEF ReadNodes
<1>4. CASE ReadECS
  BY <1>4 DEF ReadECS, MasterToDelete, EndPass, Fails, Proceed, Spend, Kinds
<1>5. ASSUME NEW x \in Ids, DeleteMaster(x) PROVE IInv'
  BY <1>5 DEF DeleteMaster, EndPass, Fails, Proceed, Spend, Kinds
<1>6. ASSUME NEW x \in Ids, RemoveMember(x) PROVE IInv'
  BY <1>6 DEF RemoveMember, Etcd!RemoveMember, EndPass, Fails, Proceed, Spend, Kinds
<1>7. ASSUME NEW x \in Ids, DeleteNode(x) PROVE IInv'
  BY <1>7 DEF DeleteNode, EndPass, Fails, Proceed, Spend, Kinds
<1>8. CASE CreateMasters
  BY <1>8 DEF CreateMasters, MasterMissed, EndPass, Fails, Proceed, Spend, Kinds
<1>9. CASE ListMembers
  BY <1>9 DEF ListMembers, EtcdMemDiff, EndPass, Fails, Proceed, Spend, Kinds
<1>10. CASE EtcdFixed
  BY <1>10 DEF EtcdFixed, NodeDeletion, Proceed
<1>11. CASE PickNode
  BY <1>11 DEF PickNode, NodesToFix, NodeAddition, UnReadyNodeList, EndPass, Fails, Proceed, Spend, Kinds
<1>12. CASE RestartKubelet
  BY <1>12 DEF RestartKubelet, CanHeartbeat, GoOn, EndPass, Fails, Proceed, Spend, Kinds
<1>13. CASE Admit
  BY <1>13 DEF Admit, GoOn, EndPass, Fails, Proceed, Spend, Kinds
<1>14. CASE RemoveEtcd
  BY <1>14 DEF RemoveEtcd, Etcd!RemoveMember, GoOn, EndPass, Fails, Proceed, Spend, Kinds
<1>15. CASE ReplaceSystemDisk
  BY <1>15 DEF ReplaceSystemDisk, GoOn, EndPass, Fails, Proceed, Spend, Kinds
<1>16. CASE WaitHeartbeat
  BY <1>16 DEF WaitHeartbeat, EndPass
<1> QED
  BY <1>1, <1>2, <1>3, <1>4, <1>5, <1>6, <1>7, <1>8, <1>9, <1>10, <1>11, <1>12, <1>13, <1>14,
     <1>15, <1>16, Zenon DEF FixMasterNode

\* Every step of the master set reconcile keeps the invariant.
LEMMA MsetIInv ==
  ASSUME IInv, Reconcile
  PROVE  IInv'
<1> USE IdsAssumption DEF IInv, Gone, TypeOK, HostStates, Ages, HealSteps, MsetSteps, Triples, EmptyTriple,
        cloudVars, etcdVars, kubeVars, healVars, msetVars, envVars
<1>1. CASE MReconcile
  BY <1>1 DEF MReconcile, Spend, Kinds
<1>2. CASE MDetail
  <2>1. Cardinality(ecs) \in Nat
    BY IdsFinite
  <2>2. Cardinality(ecs) # want => QuorumScaleTarget(Cardinality(ecs), want) \in Nat
    BY <2>1, QuorumScaleBetween
  <2> QED
    BY <1>2, <2>2 DEF MDetail, MReturn, MFails, Spend, Kinds
<1>3. CASE MCheck
  BY <1>3 DEF MCheck, MReturn, MFails, Spend, Kinds
<1>4. CASE MScale
  BY <1>4 DEF MScale, Terminate, Launch, MReturn, MFails, Spend, Kinds
<1>5. CASE MFollower
  BY <1>5 DEF MFollower, Etcd!RemoveMember, MReturn, MFails, Spend, Kinds
<1>6. CASE MRemoveECS
  BY <1>6 DEF MRemoveECS, Terminate, MReturn, MFails, Spend, Kinds
<1> QED
  BY <1>1, <1>2, <1>3, <1>4, <1>5, <1>6 DEF Reconcile

\* Booting hosts and elapsing throttle windows keep the invariant.
LEMMA HostsIInv ==
  ASSUME IInv, Hosts
  PROVE  IInv'
<1> USE IdsAssumption DEF IInv, Gone, TypeOK, HostStates, Ages, HealSteps, MsetSteps, Triples, EmptyTriple,
        cloudVars, etcdVars, kubeVars, healVars, msetVars, envVars
<1>1. ASSUME NEW x \in Ids, JoinEtcd(x) PROVE IInv'
  BY <1>1 DEF JoinEtcd, Etcd!AddMember
<1>2. ASSUME NEW x \in Ids, StartEtcd(x) PROVE IInv'
  BY <1>2 DEF StartEtcd, Etcd!StartMember
<1>3. ASSUME NEW x \in Ids, Register(x) PROVE IInv'
  BY <1>3 DEF Register
<1>4. ASSUME NEW x \in Ids, Elapse(x) PROVE IInv'
  BY <1>4 DEF Elapse, Spend, Kinds
<1> QED
  BY <1>1, <1>2, <1>3, <1>4 DEF Hosts

\* Every disturbance keeps the invariant.
LEMMA DisturbIInv ==
  ASSUME IInv, Disturb
  PROVE  IInv'
<1> USE IdsAssumption DEF IInv, Gone, TypeOK, HostStates, Ages, HealSteps, MsetSteps, Triples, EmptyTriple,
        cloudVars, etcdVars, kubeVars, healVars, msetVars, envVars
<1>1. CASE UserScale
  BY <1>1 DEF UserScale, Spend, Kinds
<1>2. CASE Crash
  BY <1>2 DEF Crash, Spend, Kinds
<1>3. ASSUME NEW x \in Ids, InstanceLost(x) PROVE IInv'
  BY <1>3 DEF InstanceLost, Terminate, Spend, Kinds
<1>4. ASSUME NEW x \in Ids, NodeDeleted(x) PROVE IInv'
  BY <1>4 DEF NodeDeleted, Spend, Kinds
<1>5. ASSUME NEW x \in Ids, KubeletStops(x) PROVE IInv'
  BY <1>5 DEF KubeletStops, Spend, Kinds
<1>6. ASSUME NEW x \in Ids, EtcdStops(x) PROVE IInv'
  BY <1>6 DEF EtcdStops, Spend, Kinds
<1>7. ASSUME NEW x \in Ids, BootFails(x) PROVE IInv'
  BY <1>7 DEF BootFails, Spend, Kinds
<1>8. ASSUME NEW x \in Ids, HostStops(x) PROVE IInv'
  BY <1>8 DEF HostStops, Spend, Kinds
<1> QED
  BY <1>1, <1>2, <1>3, <1>4, <1>5, <1>6, <1>7, <1>8 DEF Disturb

LEMMA NextIInv == IInv /\ [Next]_vars => IInv'
<1> SUFFICES ASSUME IInv, [Next]_vars PROVE IInv'
  OBVIOUS
<1>1. CASE UNCHANGED vars
  BY <1>1 DEF vars, cloudVars, etcdVars, kubeVars, healVars, msetVars, envVars,
     IInv, Gone, TypeOK
<1> QED
  BY <1>1, HealIInv, MsetIInv, HostsIInv, DisturbIInv DEF Next

\* The state stays of its type whatever the two actors, the hosts and the
\* disturbances do: in particular a serving member is a member with an
\* instance, and a Ready node is a Node object.
THEOREM TypeCorrect == Spec => []TypeOK
<1>1. IInv => TypeOK
  BY DEF IInv
<1> QED
  BY <1>1, InitIInv, NextIInv, PTL DEF Spec

\* FixUpMeta and FixUpNode delete a Master object or a Node object only if
\* its instance is gone at that moment, for any number of instances and
\* disturbances and although the listings are stale.
THEOREM OnlyOrphansDeleted == Spec => DeletionsAreOrphans
<1> DEFINE A == /\ \A x \in crd \ crd' : x \notin ecs
                /\ budget'["nodedel"] = budget["nodedel"] =>
                     \A x \in node \ node' : x \notin ecs
<1>1. IInv /\ [Next]_vars => [A]_vars
  <2> SUFFICES ASSUME IInv, Next PROVE A
    OBVIOUS
  <2> USE DEF cloudVars, etcdVars, kubeVars, healVars, msetVars, envVars
  <2>1. CASE FixMasterNode
    <3>1. ASSUME NEW x \in Ids, DeleteMaster(x) PROVE A
      BY <3>1, Zenon DEF DeleteMaster, IInv, Gone
    <3>2. ASSUME NEW x \in Ids, DeleteNode(x) PROVE A
      BY <3>2, Zenon DEF DeleteNode, IInv, Gone
    <3>3. ASSUME NEW x \in Ids, RemoveMember(x) PROVE A
      BY <3>3 DEF RemoveMember
    <3>4. CASE StartPass \/ ReadCRDs \/ ReadNodes \/ ReadECS \/ CreateMasters
               \/ ListMembers \/ EtcdFixed \/ PickNode
      BY <3>4, Zenon DEF StartPass, ReadCRDs, ReadNodes, ReadECS, CreateMasters,
         ListMembers, EtcdFixed, PickNode
    <3>5. CASE RestartKubelet \/ Admit \/ RemoveEtcd \/ ReplaceSystemDisk
               \/ WaitHeartbeat
      BY <3>5, Zenon DEF RestartKubelet, Admit, RemoveEtcd, ReplaceSystemDisk, WaitHeartbeat
    <3> QED
      BY <2>1, <3>1, <3>2, <3>3, <3>4, <3>5 DEF FixMasterNode
  <2>2. CASE Reconcile
    BY <2>2, Zenon DEF Reconcile, MReconcile, MDetail, MCheck, MScale, MFollower,
       MRemoveECS, Terminate, Launch
  <2>3. CASE Hosts
    BY <2>3 DEF Hosts, JoinEtcd, StartEtcd, Register, Elapse
  <2>4. CASE Disturb
    <3>1. ASSUME NEW x \in Ids, NodeDeleted(x) PROVE A
      BY <3>1, IdsAssumption DEF NodeDeleted, Spend, IInv, TypeOK, Kinds
    <3> QED
      BY <2>4, <3>1 DEF Disturb, UserScale, Crash, InstanceLost, Terminate,
         KubeletStops, EtcdStops, BootFails, HostStops
  <2> QED
    BY <2>1, <2>2, <2>3, <2>4 DEF Next
<1> QED
  BY <1>1, InitIInv, NextIInv, PTL DEF Spec, DeletionsAreOrphans

(***************************************************************************)
(* Dead members.  The Node object of a released master outlives its etcd   *)
(* member, unless the environment removes what the passes rely on.         *)
(***************************************************************************)
\* Nobody deletes a Node object by hand, and the cloud loses no instance
\* that has not registered its Node object yet.
NodesKept == \A x \in Ids : ~NodeDeleted(x) /\ (InstanceLost(x) => x \in node)

\* More than half of the members have no instance: etcd never answers again.
DeadMajority == 2 * Cardinality(member \ ecs) > Cardinality(member)

\* Scaling starts from registered instances only.  A member that is missing
\* in the pass's instance listing is dead (Timely); the pass has removed it
\* from etcd before it touches its Node object, or etcd is lost.
DeadInv ==
  /\ IInv /\ DeadMemberKeepsNode /\ member \cap fresh = {}
  /\ mpc \in {"scale", "follower", "rmecs"} => ecs \subseteq node
  /\ hpc \in {"meta", "etcd"} => member \ trip.ecs \subseteq Gone
  /\ hpc = "etcdrm" => DeadMajority \/ member \cap NodeDeletion(trip) \subseteq todo
  /\ hpc = "node" => DeadMajority \/ member \cap todo = {}

\* The membership's cardinalities are the library's.
LEMMA EtcdCardinality == \A S : Etcd!Cardinality(S) = Cardinality(S)
  BY DEF Etcd!Cardinality, Cardinality

\* Etcd without a live majority of members answers no write.
LEMMA DeadMajorityIsMute ==
  ASSUME IInv, DeadMajority
  PROVE  ~Quorate /\ ~(member \subseteq up)
<1> DEFINE D == member \ ecs
           U == member \cap up
<1>1. member \subseteq Ids /\ up \subseteq ecs
  BY DEF IInv, TypeOK
<1>2. IsFiniteSet(member) /\ Cardinality(member) \in Nat /\ IsFiniteSet(D) /\ Cardinality(D) \in Nat
      /\ IsFiniteSet(U) /\ Cardinality(U) \in Nat
  BY <1>1, IdsFinite
<1>3. D \cap U = {} /\ D \cup U \subseteq member
  BY <1>1
<1>4. Cardinality(D \cup U) = Cardinality(D) + Cardinality(U)
  <2>1. Cardinality(D \cup U) = Cardinality(D) + Cardinality(U) - Cardinality(D \cap U)
    BY <1>2, FS_Union
  <2>2. Cardinality(D \cap U) = 0
    BY <1>3, FS_EmptySet
  <2> QED
    BY <1>2, <2>1, <2>2
<1>5. Cardinality(D \cup U) <= Cardinality(member)
  BY <1>2, <1>3, FS_Subset
<1>6. 2 * Cardinality(D) > Cardinality(member)
  BY DEF DeadMajority
<1>7. ~Quorate
  <2>1. ~(2 * Cardinality(U) > Cardinality(member))
    BY <1>2, <1>4, <1>5, <1>6
  <2> QED
    BY <2>1, EtcdCardinality DEF Quorate, Etcd!Quorate
<1>8. ~(member \subseteq up)
  <2> SUFFICES ASSUME member \subseteq up PROVE FALSE
    OBVIOUS
  <2>1. D = {}
    BY <1>1
  <2>2. Cardinality(D) = 0
    BY <2>1, FS_EmptySet
  <2> QED
    BY <1>2, <1>6, <2>2
<1> QED
  BY <1>7, <1>8

\* A larger set of dead members of the same membership is a majority, too.
LEMMA DeadMajorityGrows ==
  ASSUME NEW M, NEW D, NEW E, M \subseteq Ids, D \subseteq E, E \subseteq M,
         2 * Cardinality(D) > Cardinality(M)
  PROVE  2 * Cardinality(E) > Cardinality(M)
<1>1. IsFiniteSet(E) /\ Cardinality(E) \in Nat /\ Cardinality(D) \in Nat /\ Cardinality(M) \in Nat
  BY IdsFinite
<1>2. Cardinality(D) <= Cardinality(E)
  BY <1>1, FS_Subset
<1> QED
  BY <1>1, <1>2

\* Only a served request changes the membership, and only fresh ids become
\* instances.
LEMMA MembershipStep ==
  ASSUME IInv, Next
  PROVE  /\ member' = member \/ Quorate \/ member \subseteq up
         /\ ecs' \subseteq ecs \cup fresh
<1> USE DEF cloudVars, etcdVars, kubeVars, healVars, msetVars, envVars
<1>1. CASE FixMasterNode
  BY <1>1, Zenon DEF FixMasterNode, StartPass, ReadCRDs, ReadNodes, ReadECS, DeleteMaster,
     DeleteNode, CreateMasters, ListMembers, EtcdFixed, PickNode, RestartKubelet,
     Admit, WaitHeartbeat, RemoveMember, RemoveEtcd, ReplaceSystemDisk,
     Etcd!RemoveMember, Etcd!CanRemove, Quorate
<1>2. CASE Reconcile
  BY <1>2, Zenon DEF Reconcile, MReconcile, MDetail, MCheck, MScale, MFollower, MRemoveECS,
     Terminate, Launch, Etcd!RemoveMember, Etcd!CanRemove, Quorate
<1>3. CASE Hosts
  BY <1>3, Zenon DEF Hosts, JoinEtcd, StartEtcd, Register, Elapse, Etcd!AddMember, Etcd!CanAdd,
     Etcd!StartMember
<1>4. CASE Disturb
  BY <1>4 DEF Disturb, UserScale, Crash, InstanceLost, Terminate, NodeDeleted,
     KubeletStops, EtcdStops, BootFails, HostStops
<1> QED
  BY <1>1, <1>2, <1>3, <1>4 DEF Next

\* A dead majority is for ever: etcd changes no membership and ids do not
\* come back.
LEMMA DeadMajorityStays ==
  ASSUME DeadInv, Next, DeadMajority
  PROVE  DeadMajority'
<1>1. member' = member
  BY MembershipStep, DeadMajorityIsMute DEF DeadInv
<1>2. member \ ecs \subseteq member \ ecs'
  BY MembershipStep DEF DeadInv
<1> QED
  BY <1>1, <1>2, DeadMajorityGrows DEF DeadMajority, DeadInv, IInv, TypeOK

LEMMA InitDeadInv == Init => DeadInv
<1> SUFFICES ASSUME Init PROVE DeadInv
  OBVIOUS
<1>1. IInv
  BY InitIInv
<1> QED
  BY <1>1 DEF Init, DeadInv, DeadMemberKeepsNode

\* Every step of the heal pass keeps the invariant.
LEMMA HealDeadInv ==
  ASSUME DeadInv, FixMasterNode
  PROVE  DeadInv'
<1>1. IInv /\ IInv' /\ Next
  BY NextIInv DEF DeadInv, Next
<1>2. DeadMajority => DeadMajority'
  BY <1>1, DeadMajorityStays
<1>3. DeadMajority => ~Quorate
  BY <1>1, DeadMajorityIsMute
<1> USE <1>1, <1>2 DEF DeadInv, DeadMemberKeepsNode, NodeDeletion, Gone,
        cloudVars, etcdVars, kubeVars, healVars, msetVars, envVars
<1>4. CASE StartPass
  BY <1>4 DEF StartPass
<1>5. CASE ReadCRDs
  BY <1>5 DEF ReadCRDs, EndPass, Fails, Proceed
<1>6. CASE ReadNodes
  BY <1>6 DEF ReadNodes, EndPass, Fails, Proceed
<1>7. CASE ReadECS
  <2>1. CASE hpc' = "idle"
    BY <1>7, <2>1 DEF ReadECS, EndPass, Fails, Proceed
  <2>2. CASE hpc' # "idle"
    <3>1. /\ trip' = [trip EXCEPT !.ecs = ecs] /\ Proceed("meta")
          /\ UNCHANGED <<cloudVars, etcdVars, kubeVars>>
      BY <1>7, <2>2 DEF ReadECS, Fails, EndPass
    <3>2. trip'.ecs = ecs
      BY <3>1 DEF IInv, TypeOK, Triples
    <3>3. member \ ecs \subseteq Ids \ (ecs \cup fresh)
      BY DEF IInv, TypeOK
    <3> QED
      BY <3>1, <3>2, <3>3 DEF Proceed
  <2> QED
    BY <2>1, <2>2
<1>8. ASSUME NEW x \in Ids, DeleteMaster(x) PROVE DeadInv'
  BY <1>8 DEF DeleteMaster, EndPass, Fails, Proceed
<1>9. CASE CreateMasters
  BY <1>9 DEF CreateMasters
<1>10. CASE ListMembers
  <2>1. CASE hpc' = "idle"
    BY <1>10, <2>1 DEF ListMembers, EndPass, Fails, Proceed
  <2>2. CASE hpc' # "idle"
    <3>1. /\ hpc = "etcd" /\ todo' = EtcdMemDiff(trip, member) /\ trip' = trip /\ Proceed("etcdrm")
          /\ UNCHANGED <<cloudVars, etcdVars, kubeVars>>
      BY <1>10, <2>2 DEF ListMembers, Fails, EndPass
    <3>2. CASE 2 * Cardinality(member \ trip.ecs) > Cardinality(member)
      <4>1. member \subseteq Ids /\ member \ trip.ecs \subseteq member \ ecs
        BY <3>1 DEF IInv, TypeOK
      <4>2. DeadMajority
        BY <3>2, <4>1, DeadMajorityGrows DEF DeadMajority
      <4> QED
        BY <3>1, <4>2 DEF Proceed
    <3>3. CASE ~(2 * Cardinality(member \ trip.ecs) > Cardinality(member))
      <4>1. todo' = member \ trip.ecs
        BY <3>1, <3>3, ZenonT(40) DEF EtcdMemDiff
      <4> QED
        BY <3>1, <4>1 DEF Proceed
    <3> QED
      BY <3>2, <3>3
  <2> QED
    BY <2>1, <2>2
<1>11. ASSUME NEW x \in Ids, RemoveMember(x) PROVE DeadInv'
  BY <1>11 DEF RemoveMember, Etcd!RemoveMember, EndPass, Fails, Proceed
<1>12. CASE EtcdFixed
  BY <1>12, Zenon DEF EtcdFixed, Proceed
<1>13. ASSUME NEW x \in Ids, DeleteNode(x) PROVE DeadInv'
  <2>1. CASE node' = node
    BY <1>13, <2>1, ZenonT(40) DEF DeleteNode, EndPass, Fails, Proceed
  <2>2. CASE node' # node
    <3>1. hpc = "node" /\ x \in todo /\ Quorate /\ node' = node \ {x}
      BY <1>13, <2>2, Zenon DEF DeleteNode
    <3>2. x \notin member /\ x \notin ecs
      BY <1>3, <3>1 DEF IInv
    <3> QED
      BY <1>13, <3>1, <3>2 DEF DeleteNode, EndPass, Fails, Proceed
  <2> QED
    BY <2>1, <2>2, ZenonT(40)
<1>14. CASE PickNode
  BY <1>14 DEF PickNode, EndPass, Fails
<1>15. CASE RestartKubelet
  BY <1>15 DEF RestartKubelet, GoOn, EndPass, Fails
<1>16. CASE Admit
  BY <1>16 DEF Admit, GoOn, EndPass, Fails
<1>17. CASE RemoveEtcd
  BY <1>17 DEF RemoveEtcd, Etcd!RemoveMember, GoOn, EndPass, Fails
<1>18. CASE ReplaceSystemDisk
  BY <1>18, ZenonT(40) DEF ReplaceSystemDisk, GoOn, EndPass, Fails
<1>19. CASE WaitHeartbeat
  BY <1>19 DEF WaitHeartbeat, EndPass
<1> QED
  BY <1>4, <1>5, <1>6, <1>7, <1>8, <1>9, <1>10, <1>11, <1>12, <1>13, <1>14, <1>15, <1>16,
     <1>17, <1>18, <1>19, Zenon DEF FixMasterNode

\* Every other step keeps it, too.
LEMMA OthersDeadInv ==
  ASSUME Timely, DeadInv, NodesKept, Reconcile \/ Hosts \/ Disturb
  PROVE  DeadInv'
<1>1. IInv /\ IInv' /\ Next
  BY NextIInv DEF DeadInv, Next
<1>2. DeadMajority => DeadMajority'
  BY <1>1, DeadMajorityStays
<1> USE <1>1, <1>2 DEF DeadInv, DeadMemberKeepsNode, NodeDeletion, Gone,
        cloudVars, etcdVars, kubeVars, healVars, msetVars, envVars
<1>3. CASE MReconcile \/ MDetail
  BY <1>3, ZenonT(40) DEF MReconcile, MDetail, MFails, MReturn
<1>4. CASE MCheck
  BY <1>4 DEF MCheck, MFails, MReturn, Healthy, SystemInConsistency, NodeAddition
<1>5. CASE MScale
  BY <1>5, Zenon DEF MScale, Terminate, Launch, MFails, MReturn, IInv, TypeOK
<1>6. CASE MFollower
  BY <1>6, ZenonT(40) DEF MFollower, Etcd!RemoveMember, MFails, MReturn
<1>7. CASE MRemoveECS
  BY <1>7, ZenonT(40) DEF MRemoveECS, Terminate, MFails, MReturn
<1>8. ASSUME NEW x \in Ids, JoinEtcd(x) PROVE DeadInv'
  BY <1>8 DEF JoinEtcd, Etcd!AddMember, IInv
<1>9. ASSUME NEW x \in Ids, StartEtcd(x) \/ Register(x) \/ Elapse(x) PROVE DeadInv'
  BY <1>9, ZenonT(40) DEF StartEtcd, Etcd!StartMember, Register, Elapse
<1>10. CASE UserScale \/ Crash
  BY <1>10 DEF UserScale, Crash
<1>11. ASSUME NEW x \in Ids, InstanceLost(x) PROVE DeadInv'
  BY <1>11 DEF NodesKept, InstanceLost, Terminate
<1>12. ASSUME NEW x \in Ids, KubeletStops(x) \/ EtcdStops(x) \/ BootFails(x) \/ HostStops(x)
       PROVE  DeadInv'
  BY <1>12 DEF KubeletStops, EtcdStops, BootFails, HostStops
<1> QED
  BY <1>3, <1>4, <1>5, <1>6, <1>7, <1>8, <1>9, <1>10, <1>11, <1>12, Zenon
  DEF Reconcile, Hosts, Disturb, NodesKept

LEMMA NextDeadInv ==
  ASSUME Timely
  PROVE  DeadInv /\ [Next]_vars /\ [NodesKept]_vars => DeadInv'
<1> SUFFICES ASSUME DeadInv, [Next]_vars, [NodesKept]_vars PROVE DeadInv'
  OBVIOUS
<1>1. CASE UNCHANGED vars
  <2>1. IInv'
    BY NextIInv DEF DeadInv
  <2> QED
    BY <1>1, <2>1 DEF vars, cloudVars, etcdVars, kubeVars, healVars, msetVars, envVars,
       DeadInv, DeadMemberKeepsNode, DeadMajority, NodeDeletion, Gone
<1>2. CASE ~(UNCHANGED vars)
  BY <1>2, HealDeadInv, OthersDeadInv DEF Next
<1> QED
  BY <1>1, <1>2

\* The Node object of a released master outlives its etcd member, for any
\* number of instances, users, API failures, crashes, resets and registered
\* instances lost at any moment: FixUpMeta and FixUpEtcd clean up before
\* FixUpNode, a failed removal ends the pass, and the guard of EtcdMemDiff
\* skips members only when etcd is lost and nothing can be deleted at all.
THEOREM DeadMembersKeepNodes ==
  ASSUME Timely
  PROVE  Spec /\ [][NodesKept]_vars => []DeadMemberKeepsNode
<1>1. DeadInv => DeadMemberKeepsNode
  BY DEF DeadInv
<1> QED
  BY <1>1, InitDeadInv, NextDeadInv, PTL DEF Spec

(***************************************************************************)
(* Scaling and quorum.                                                     *)
(***************************************************************************)
\* No etcd process stops, no bootstrap gives up and no host is powered off.
HostsKept == \A x \in Ids : ~EtcdStops(x) /\ ~BootFails(x) /\ ~HostStops(x)

\* Of a listed instance that had no Node object when the pass listed nodes,
\* the bootstrap was still running: no throttle window lets Reset touch it.
YoungInv ==
  /\ \A x \in Ids : host[x] = "boot" => clock[x] = "new"
  /\ hpc = "ecs" => \A x \in (ecs \cup fresh) \ trip.node : clock[x] \in {"new", "untagged"}
  /\ hpc \in {"meta", "etcd", "etcdrm", "node", "kubelet", "admit"} =>
       \A x \in trip.ecs \ trip.node : clock[x] \in {"new", "untagged"}
  /\ hpc \in {"kubelet", "admit"} => target \in trip.ecs /\ target \notin trip.node \cap trip.ready
  /\ hpc \notin {"drop", "disk", "wait"}

\* An instance runs exactly when it has its Node object, and then its etcd
\* member, if it is one, serves.
RunInv ==
  /\ \A x \in fresh : host[x] = "boot"
  /\ \A x \in ecs : host[x] = IF x \in node THEN "run" ELSE "boot"
  /\ ecs \cap member \cap node \subseteq up

\* What a reconcile knows: the listing covers the instances, and from the
\* health check on also the members.
ScaleInv ==
  /\ replicas >= 1
  /\ caller = "masterset" => mpc = "fixing"
  /\ mpc # "rmecs" => victim = NoId
  /\ mpc \in {"detail", "check", "scale", "follower", "rmecs"} => want >= 1
  /\ mpc \in {"check", "scale", "follower", "rmecs"} =>
       /\ ecs \subseteq detail /\ want # Cardinality(detail)
       /\ tgt = QuorumScaleTarget(Cardinality(detail), want)
  /\ mpc \in {"scale", "follower", "rmecs"} => member \subseteq detail
  /\ mpc = "scale" => tgt # 1
  /\ mpc = "rmecs" => victim \notin member

LEMMA InitScale ==
  ASSUME MinReplicas >= 1, InitIds # {}
  PROVE  Init => DeadInv /\ YoungInv /\ RunInv /\ ScaleInv
<1> SUFFICES ASSUME Init PROVE DeadInv /\ YoungInv /\ RunInv /\ ScaleInv
  OBVIOUS
<1>1. DeadInv
  BY InitDeadInv
<1>2. YoungInv /\ RunInv
  BY IdsAssumption DEF Init, YoungInv, RunInv
<1>3. IsFiniteSet(InitIds) /\ Cardinality(InitIds) \in Nat
  BY IdsFinite, IdsAssumption
<1>4. Cardinality(InitIds) # 0
  BY <1>3, FS_EmptySet
<1> QED
  BY <1>1, <1>2, <1>3, <1>4 DEF Init, ScaleInv

\* No step of a pass gets as far as Reset: an instance without Node object
\* was booting when the nodes were listed, and an unready one is not
\* admitted.
LEMMA HealYoung ==
  ASSUME DeadInv, YoungInv, RunInv, FixMasterNode
  PROVE  YoungInv'
<1> USE DEF YoungInv, cloudVars, etcdVars, kubeVars, healVars, msetVars, envVars
<1>1. trip \in Triples(Ids) /\ clock \in [Ids -> Ages] /\ host \in [Ids -> HostStates]
      /\ ecs \subseteq Ids /\ fresh \subseteq Ids /\ ecs \cap fresh = {}
      /\ node \subseteq Ids /\ node \cap fresh = {}
  BY ZenonT(40) DEF DeadInv, IInv, TypeOK
<1>2. CASE StartPass
  BY <1>2 DEF StartPass
<1>3. CASE ReadCRDs
  BY <1>3 DEF ReadCRDs, EndPass, Fails, Proceed
<1>4. CASE ReadNodes
  <2>1. CASE hpc' = "idle"
    BY <1>4, <2>1 DEF ReadNodes
  <2>2. CASE hpc' # "idle"
    <3>1. /\ trip' = [trip EXCEPT !.node = node, !.ready = ready] /\ hpc' = "ecs"
          /\ UNCHANGED <<cloudVars, etcdVars, kubeVars>>
      BY <1>4, <2>2 DEF ReadNodes, Proceed, Fails, EndPass
    <3>2. trip'.node = node
      BY <1>1, <3>1 DEF Triples
    <3>3. \A x \in (ecs \cup fresh) \ node : host[x] = "boot"
      BY DEF RunInv
    <3> QED
      BY <1>1, <3>1, <3>2, <3>3
  <2> QED
    BY <2>1, <2>2
<1>5. CASE ReadECS
  <2>1. CASE hpc' = "idle"
    BY <1>5, <2>1 DEF ReadECS
  <2>2. CASE hpc' # "idle"
    <3>1. /\ trip' = [trip EXCEPT !.ecs = ecs] /\ hpc = "ecs" /\ hpc' = "meta"
          /\ UNCHANGED <<cloudVars, etcdVars, kubeVars>>
      BY <1>5, <2>2 DEF ReadECS, Proceed, Fails, EndPass
    <3>2. trip'.node = trip.node /\ trip'.ecs = ecs
      BY <1>1, <3>1 DEF Triples
    <3> QED
      BY <3>1, <3>2
  <2> QED
    BY <2>1, <2>2
<1>6. ASSUME NEW x \in Ids, DeleteMaster(x) \/ RemoveMember(x) \/ DeleteNode(x) PROVE YoungInv'
  BY <1>6, Zenon DEF DeleteMaster, RemoveMember, DeleteNode, EndPass, Fails, Proceed
<1>7. CASE CreateMasters \/ ListMembers \/ EtcdFixed
  BY <1>7, Zenon DEF CreateMasters, ListMembers, EtcdFixed, EndPass, Fails, Proceed
<1>8. CASE PickNode
  BY <1>8, ZenonT(40) DEF PickNode, NodesToFix, NodeAddition, UnReadyNodeList, EndPass, Fails
<1>9. CASE RestartKubelet
  BY <1>9, ZenonT(40) DEF RestartKubelet, GoOn, EndPass, Fails
<1>10. CASE Admit
  <2>1. ~(clock[target] = "old" /\ AdmitNode(target))
    BY <1>10, ZenonT(40) DEF Admit, AdmitNode
  <2>2. target \in Ids
    BY <1>1, <1>10 DEF Admit, Triples
  <2>3. host[target] = "boot" => clock[target] = "new"
    BY <2>2
  <2> QED
    BY <1>1, <1>10, <2>1, <2>2, <2>3, ZenonT(40) DEF Admit, EndPass, Fails
<1> QED
  BY <1>2, <1>3, <1>4, <1>5, <1>6, <1>7, <1>8, <1>9, <1>10, ZenonT(40)
  DEF FixMasterNode, RemoveEtcd, ReplaceSystemDisk, WaitHeartbeat

LEMMA OthersYoung ==
  ASSUME Timely, DeadInv, YoungInv, NodesKept, HostsKept, Reconcile \/ Hosts \/ Disturb
  PROVE  YoungInv'
<1> USE DEF YoungInv, cloudVars, etcdVars, kubeVars, healVars, msetVars, envVars
<1>1. trip \in Triples(Ids) /\ clock \in [Ids -> Ages] /\ host \in [Ids -> HostStates]
      /\ ecs \subseteq Ids /\ fresh \subseteq Ids
  BY DEF DeadInv, IInv, TypeOK
<1>2. CASE Reconcile
  BY <1>2, Zenon DEF Reconcile, MReconcile, MDetail, MCheck, MScale, MFollower, MRemoveECS,
     Terminate, Launch, MFails, MReturn
<1>3. ASSUME NEW x \in Ids, JoinEtcd(x) \/ StartEtcd(x) PROVE YoungInv'
  BY <1>3, Zenon DEF JoinEtcd, StartEtcd
<1>4. ASSUME NEW x \in Ids, Register(x) PROVE YoungInv'
  BY <1>1, <1>4, Zenon DEF Register
<1>5. ASSUME NEW x \in Ids, Elapse(x) PROVE YoungInv'
  <2>1. host[x] # "boot" /\ host' = host /\ UNCHANGED <<ecs, fresh, hpc, trip, target>>
    BY <1>5, ZenonT(40) DEF Elapse
  <2>2. \/ clock[x] = "new" /\ clock' = [clock EXCEPT ![x] = "untagged"]
        \/ clock[x] = "recent" /\ clock' = [clock EXCEPT ![x] = "old"]
    BY <1>5, ZenonT(40) DEF Elapse
  <2>3. \A y \in Ids : clock[y] \in {"new", "untagged"} => clock'[y] \in {"new", "untagged"}
    BY <1>1, <2>2
  <2>4. \A y \in Ids : host[y] = "boot" => clock'[y] = clock[y]
    BY <1>1, <2>1, <2>2
  <2> QED
    BY <1>1, <2>1, <2>3, <2>4, ZenonT(40) DEF Triples
<1>6. CASE UserScale \/ Crash
  BY <1>6 DEF UserScale, Crash
<1>7. ASSUME NEW x \in Ids, InstanceLost(x) \/ KubeletStops(x) PROVE YoungInv'
  BY <1>7 DEF InstanceLost, Terminate, KubeletStops
<1> QED
  BY <1>2, <1>3, <1>4, <1>5, <1>6, <1>7, ZenonT(40) DEF Hosts, Disturb, NodesKept, HostsKept

\* Only Register turns a booting host into a running one, together with its
\* Node object; no step of a pass touches a host or a live Node object.
LEMMA NextRun ==
  ASSUME DeadInv, YoungInv, RunInv, NodesKept, HostsKept, Next
  PROVE  RunInv'
<1> USE DEF RunInv, cloudVars, etcdVars, kubeVars, healVars, msetVars, envVars
<1>1. /\ ecs \subseteq Ids /\ fresh \subseteq Ids /\ ecs \cap fresh = {} /\ node \cap fresh = {}
      /\ host \in [Ids -> HostStates] /\ up \subseteq member \cap ecs
      /\ hpc = "node" => todo \subseteq Gone
  BY DEF DeadInv, IInv, TypeOK
<1>2. CASE FixMasterNode
  <2>1. ASSUME NEW x \in Ids, DeleteMaster(x) PROVE RunInv'
    BY <2>1 DEF DeleteMaster
  <2>2. ASSUME NEW x \in Ids, RemoveMember(x) PROVE RunInv'
    BY <2>2, Zenon DEF RemoveMember, Etcd!RemoveMember
  <2>3. ASSUME NEW x \in Ids, DeleteNode(x) PROVE RunInv'
    <3>1. x \notin ecs /\ node' \subseteq node /\ node \subseteq node' \cup {x}
      BY <1>1, <2>3, Zenon DEF DeleteNode, Gone
    <3> QED
      BY <2>3, <3>1 DEF DeleteNode
  <2>4. CASE RestartKubelet
    BY <2>4, Zenon DEF RestartKubelet, CanHeartbeat
  <2> QED
    BY <1>2, <2>1, <2>2, <2>3, <2>4, Zenon DEF FixMasterNode, StartPass, ReadCRDs, ReadNodes, ReadECS,
       CreateMasters, ListMembers, EtcdFixed, PickNode, Admit, RemoveEtcd, ReplaceSystemDisk,
       WaitHeartbeat, YoungInv
<1>3. CASE Reconcile
  <2>1. CASE MScale
    BY <1>1, <2>1, Zenon DEF MScale, Terminate, Launch
  <2>2. CASE MFollower
    BY <2>2, Zenon DEF MFollower, Etcd!RemoveMember
  <2> QED
    BY <1>3, <2>1, <2>2 DEF Reconcile, MReconcile, MDetail, MCheck, MRemoveECS, Terminate
<1>4. CASE Hosts
  <2>1. ASSUME NEW x \in Ids, JoinEtcd(x) PROVE RunInv'
    BY <2>1, Zenon DEF JoinEtcd, Etcd!AddMember
  <2>2. ASSUME NEW x \in Ids, StartEtcd(x) PROVE RunInv'
    BY <2>2 DEF StartEtcd, Etcd!StartMember
  <2>3. ASSUME NEW x \in Ids, Register(x) PROVE RunInv'
    BY <1>1, <2>3 DEF Register
  <2> QED
    BY <1>4, <2>1, <2>2, <2>3 DEF Hosts, Elapse
<1>5. CASE Disturb
  BY <1>5, Zenon DEF Disturb, UserScale, Crash, InstanceLost, Terminate, KubeletStops, NodesKept, HostsKept
<1> QED
  BY <1>2, <1>3, <1>4, <1>5 DEF Next

\* The listing of a reconcile covers instances and members: only the
\* reconcile itself launches instances, and a member that joins has one.
LEMMA NextScale ==
  ASSUME MinReplicas >= 1, DeadInv, YoungInv, RunInv, ScaleInv, NodesKept, HostsKept, Next
  PROVE  ScaleInv'
<1> USE DEF ScaleInv, cloudVars, etcdVars, kubeVars, healVars, msetVars, envVars
<1>1. IInv /\ TypeOK
  BY DEF DeadInv, IInv
<1>2. CASE FixMasterNode
  <2>1. ASSUME NEW x \in Ids, DeleteMaster(x) \/ DeleteNode(x) PROVE ScaleInv'
    BY <2>1 DEF DeleteMaster, DeleteNode, EndPass, Fails, Proceed
  <2>2. ASSUME NEW x \in Ids, RemoveMember(x) PROVE ScaleInv'
    BY <2>2 DEF RemoveMember, Etcd!RemoveMember, EndPass, Fails, Proceed
  <2>3. CASE StartPass
    BY <2>3 DEF StartPass
  <2>4. CASE ReadCRDs \/ ReadNodes \/ ReadECS
    BY <2>4, ZenonT(40) DEF ReadCRDs, ReadNodes, ReadECS, EndPass, Fails, Proceed
  <2>5. CASE CreateMasters \/ ListMembers \/ EtcdFixed \/ PickNode
    BY <2>5, ZenonT(40) DEF CreateMasters, ListMembers, EtcdFixed, PickNode, EndPass, Fails, Proceed
  <2>6. CASE RestartKubelet \/ Admit
    BY <2>6 DEF RestartKubelet, Admit, GoOn, EndPass, Fails
  <2> QED
    BY <1>2, <2>1, <2>2, <2>3, <2>4, <2>5, <2>6, ZenonT(40)
    DEF FixMasterNode, RemoveEtcd, ReplaceSystemDisk, WaitHeartbeat, YoungInv
<1>3. CASE Reconcile
  <2>1. CASE MReconcile
    BY <2>1 DEF MReconcile
  <2>2. CASE MDetail
    BY <2>2 DEF MDetail, MFails, MReturn
  <2>3. CASE MCheck
    <3>1. Healthy => member \subseteq ecs
      BY DEF Healthy, SystemInConsistency, NodeDeletion, DeadInv, DeadMemberKeepsNode
    <3> QED
      BY <2>3, <3>1, ZenonT(40) DEF MCheck, MFails, MReturn
  <2>4. CASE MScale
    BY <2>4 DEF MScale, Terminate, Launch, MFails, MReturn
  <2>5. CASE MFollower
    BY <2>5 DEF MFollower, Etcd!RemoveMember, MFails, MReturn
  <2>6. CASE MRemoveECS
    BY <2>6, ZenonT(40) DEF MRemoveECS, Terminate, MFails, MReturn
  <2> QED
    BY <1>3, <2>1, <2>2, <2>3, <2>4, <2>5, <2>6 DEF Reconcile
<1>4. CASE Hosts
  <2>1. ASSUME NEW x \in Ids, JoinEtcd(x) PROVE ScaleInv'
    <3>1. x \in ecs /\ host[x] = "boot" /\ member' = member \cup {x}
      BY <2>1, Zenon DEF JoinEtcd, Etcd!AddMember
    <3>2. x \notin node
      BY <3>1 DEF RunInv
    <3> QED
      BY <2>1, <3>1, <3>2, Zenon DEF JoinEtcd, DeadInv
  <2>2. ASSUME NEW x \in Ids, StartEtcd(x) PROVE ScaleInv'
    BY <2>2, ZenonT(40) DEF StartEtcd, Etcd!StartMember
  <2> QED
    BY <1>4, <2>1, <2>2 DEF Hosts, Register, Elapse
<1>5. CASE Disturb
  <2>1. CASE UserScale
    BY <2>1, IdsAssumption DEF UserScale
  <2> QED
    BY <1>5, <2>1 DEF Disturb, Crash, InstanceLost, Terminate, KubeletStops, NodesKept, HostsKept
<1> QED
  BY <1>2, <1>3, <1>4, <1>5 DEF Next

\* One scaling step in a state that satisfies the invariants keeps quorum.
LEMMA ScaleStepKeepsQuorum ==
  ASSUME DeadInv, RunInv, ScaleInv, Next, mpc \in {"scale", "rmecs"}, ecs' # ecs, mpc' = "idle",
         ecs \ {victim} \subseteq member, Quorate
  PROVE  Quorate'
<1> USE DEF cloudVars, etcdVars, kubeVars, healVars, msetVars, envVars
<1>1. IInv /\ TypeOK
  BY DEF DeadInv, IInv
<1>2. member' = member /\ up' = up => Quorate'
  BY DEF Quorate, Etcd!Quorate
<1>3. MScale \/ MRemoveECS
  <2>1. ~Hosts
    BY Zenon DEF Hosts, JoinEtcd, StartEtcd, Register, Elapse
  <2>2. ~(MReconcile \/ MDetail \/ MCheck \/ MFollower)
    BY Zenon DEF MReconcile, MDetail, MCheck, MFollower
  <2>3. ~FixMasterNode
    BY Zenon DEF FixMasterNode, StartPass, ReadCRDs, ReadNodes, ReadECS, DeleteMaster, RemoveMember, DeleteNode,
       CreateMasters, ListMembers, EtcdFixed, PickNode, RestartKubelet, Admit, RemoveEtcd,
       ReplaceSystemDisk, WaitHeartbeat
  <2>4. ~Disturb
    BY Zenon DEF Disturb, UserScale, Crash, InstanceLost, NodeDeleted, KubeletStops, EtcdStops, BootFails,
       HostStops
  <2> QED
    BY <2>1, <2>2, <2>3, <2>4, ZenonT(40) DEF Next, Reconcile
<1>4. CASE MRemoveECS
  <2>1. victim \notin member /\ up' = up \ {victim} /\ member' = member
    BY <1>4 DEF MRemoveECS, Terminate, ScaleInv
  <2>2. up' = up
    BY <1>1, <2>1 DEF TypeOK
  <2> QED
    BY <1>2, <2>1, <2>2
<1>5. CASE MScale
  <2>1. CASE UNCHANGED etcdVars
    BY <1>2, <2>1
  <2>2. CASE ~(UNCHANGED etcdVars)
    <3>1. PICK gone \in SUBSET ecs :
            /\ Cardinality(ecs) > tgt /\ Cardinality(gone) = Cardinality(ecs) - tgt
            /\ up' = up \ gone /\ member' = member
      BY <1>5, <2>2, Zenon DEF MScale, Terminate, Launch
    <3>2. mpc = "scale" /\ victim = NoId /\ NoId \notin Ids
      BY <1>5, IdsAssumption DEF MScale, ScaleInv
    <3>3. ecs \subseteq member /\ ecs \subseteq node /\ up = ecs
      BY <1>1, <3>2, ZenonT(40) DEF DeadInv, RunInv, TypeOK
    <3>4. /\ IsFiniteSet(ecs) /\ Cardinality(ecs) \in Nat /\ IsFiniteSet(gone) /\ Cardinality(gone) \in Nat
          /\ IsFiniteSet(member) /\ Cardinality(member) \in Nat
          /\ IsFiniteSet(detail) /\ Cardinality(detail) \in Nat /\ tgt \in Nat /\ want \in Nat
      BY <1>1, IdsFinite DEF TypeOK
    <3>5. Cardinality(member' \cap up') = tgt
      <4>1. member' \cap up' = ecs \ gone /\ ecs \cap gone = gone
        BY <3>1, <3>3
      <4>2. Cardinality(ecs \ gone) = Cardinality(ecs) - Cardinality(ecs \cap gone)
        BY <3>4, FS_Difference, Zenon
      <4>3. /\ Cardinality(member' \cap up') = Cardinality(ecs \ gone)
            /\ Cardinality(ecs \cap gone) = Cardinality(gone)
        BY <4>1
      <4> QED
        BY <3>1, <3>4, <4>2, <4>3
    <3>6. Cardinality(member) <= Cardinality(detail) /\ Cardinality(ecs) <= Cardinality(detail)
      BY <3>2, <3>4, FS_Subset DEF ScaleInv
    <3>7. 2 * tgt > Cardinality(detail)
      <4> DEFINE c == Cardinality(detail)
      <4>1. c \in Nat /\ want >= 1 /\ want # c /\ tgt = QuorumScaleTarget(c, want) /\ tgt # 1 /\ tgt < c
        BY <3>1, <3>2, <3>4, <3>6 DEF ScaleInv
      <4> HIDE DEF c
      <4>2. 2 * tgt > c
        BY <3>4, <4>1 DEF QuorumScaleTarget, MaxOf
      <4> QED
        BY <4>2 DEF c
    <3>8. 2 * Cardinality(member' \cap up') > Cardinality(member')
      BY <3>1, <3>4, <3>5, <3>6, <3>7
    <3> QED
      BY <3>8, EtcdCardinality DEF Quorate, Etcd!Quorate
  <2> QED
    BY <2>1, <2>2
<1> QED
  BY <1>3, <1>4, <1>5, ZenonT(40)

\* A scaling step of Reconcile never takes etcd from quorum to no quorum, for
\* any number of instances, replicas the users ask for, API failures,
\* crashes, stopped kubelets, elapsed throttle windows and registered
\* instances that are lost, however it interleaves with the heal pass:
\* QuorumScale counts the instances it listed, and Healthy, asked
\* afterwards, implies that no dead member is hidden behind them.
THEOREM ScalingKeepsQuorum ==
  ASSUME Timely, MinReplicas >= 1, InitIds # {}
  PROVE  Spec /\ [][NodesKept]_vars /\ [][HostsKept]_vars => ScaleInKeepsQuorum
<1> DEFINE Inv == DeadInv /\ YoungInv /\ RunInv /\ ScaleInv
           A == (/\ mpc \in {"scale", "rmecs"} /\ mpc' = "idle" /\ ecs' # ecs
                 /\ ecs \ {victim} \subseteq member /\ Quorate) => Quorate'
<1>1. Init => Inv
  BY InitScale
<1>2. Inv /\ [Next]_vars /\ [NodesKept]_vars /\ [HostsKept]_vars => Inv'
  <2> SUFFICES ASSUME Inv, [Next]_vars, [NodesKept]_vars, [HostsKept]_vars PROVE Inv'
    OBVIOUS
  <2>1. DeadInv'
    BY NextDeadInv
  <2>2. CASE UNCHANGED vars
    BY <2>1, <2>2, Zenon DEF vars, cloudVars, etcdVars, kubeVars, healVars, msetVars, envVars,
       YoungInv, RunInv, ScaleInv
  <2>3. CASE ~(UNCHANGED vars)
    BY <2>1, <2>3, HealYoung, OthersYoung, NextRun, NextScale DEF Next
  <2> QED
    BY <2>2, <2>3
<1>3. Inv /\ [Next]_vars => [A]_vars
  <2> SUFFICES ASSUME Inv, Next PROVE A
    OBVIOUS
  <2> QED
    BY ScaleStepKeepsQuorum
<1> HIDE DEF Inv
<1> QED
  BY <1>1, <1>2, <1>3, PTL DEF Spec, ScaleInKeepsQuorum

(***************************************************************************)
(* Reset.                                                                  *)
(***************************************************************************)
\* The tag that Reset puts on an instance whose disk it replaced is written.
DiskTagged ==
  \A x \in Ids : host[x] # "boot" /\ host'[x] = "boot" => clock'[x] = "recent"

\* A host whose tag is old is not booting, so that it does not join again
\* between removeEtcd and the replacement of its disk.
WipeInv ==
  /\ IInv
  /\ \A x \in Ids : clock[x] = "old" => host[x] # "boot"
  /\ hpc \in {"kubelet", "admit", "drop", "disk"} => target \in Ids
  /\ hpc \in {"drop", "disk"} => clock[target] = "old"
  /\ hpc = "disk" => target \notin member

LEMMA NextWipeInv ==
  ASSUME Timely
  PROVE  WipeInv /\ [Next]_vars /\ [DiskTagged]_vars => WipeInv'
<1> SUFFICES ASSUME WipeInv, [Next]_vars, [DiskTagged]_vars PROVE WipeInv'
  OBVIOUS
<1> USE DEF WipeInv, cloudVars, etcdVars, kubeVars, healVars, msetVars, envVars
<1>1. IInv'
  BY NextIInv
<1>2. /\ clock \in [Ids -> Ages] /\ host \in [Ids -> HostStates] /\ trip \in Triples(Ids)
      /\ ecs \subseteq Ids
  BY ZenonT(40) DEF IInv, TypeOK
<1>3. CASE UNCHANGED vars
  BY <1>1, <1>3 DEF vars
<1>4. CASE FixMasterNode /\ DiskTagged
  <2>1. ASSUME NEW x \in Ids, DeleteMaster(x) \/ RemoveMember(x) \/ DeleteNode(x) PROVE WipeInv'
    BY <1>1, <2>1, Zenon DEF DeleteMaster, RemoveMember, DeleteNode, EndPass, Fails, Proceed
  <2>2. CASE StartPass
    BY <1>1, <2>2, Zenon DEF StartPass
  <2>3. CASE ReadCRDs \/ ReadNodes \/ ReadECS
    BY <1>1, <2>3 DEF ReadCRDs, ReadNodes, ReadECS, EndPass, Fails, Proceed
  <2>4. CASE CreateMasters \/ ListMembers \/ EtcdFixed
    BY <1>1, <2>4, Zenon DEF CreateMasters, ListMembers, EtcdFixed, EndPass, Fails, Proceed
  <2>5. CASE PickNode
    BY <1>1, <1>2, <2>5, ZenonT(40) DEF PickNode, NodesToFix, NodeAddition, UnReadyNodeList, Triples, EndPass, Fails
  <2>6. CASE RestartKubelet
    BY <1>1, <2>6, ZenonT(40) DEF RestartKubelet, GoOn, EndPass, Fails
  <2>7. CASE Admit
    BY <1>1, <1>2, <2>7 DEF Admit, GoOn, EndPass, Fails
  <2>8. CASE RemoveEtcd
    <3>1. UNCHANGED <<clock, host>> /\ hpc = "drop" /\ hpc' \in {"disk", "idle"}
      BY <2>8, ZenonT(40) DEF RemoveEtcd, GoOn, EndPass, Fails
    <3>2. hpc' = "disk" => target' = target /\ target \notin member'
      BY <2>8, ZenonT(40) DEF RemoveEtcd, Etcd!RemoveMember, GoOn, EndPass, Fails
    <3> QED
      BY <1>1, <3>1, <3>2
  <2>9. CASE ReplaceSystemDisk
    <3>1. target \in Ids /\ host[target] # "boot" /\ hpc' \in {"wait", "idle"}
      BY <2>9 DEF ReplaceSystemDisk, GoOn, EndPass, Fails
    <3>2. \A x \in Ids : clock'[x] = "old" => host'[x] # "boot"
      <4>1. CASE host' = [host EXCEPT ![target] = "boot"]
        <5>1. clock'[target] = "recent" /\ host'[target] = "boot"
          BY <1>2, <1>4, <3>1, <4>1 DEF DiskTagged
        <5>2. clock' = clock \/ clock' = [clock EXCEPT ![target] = "recent"]
          BY <2>9, Zenon DEF ReplaceSystemDisk
        <5> QED
          BY <1>2, <3>1, <4>1, <5>1, <5>2
      <4>2. CASE ~(host' = [host EXCEPT ![target] = "boot"])
        <5>1. clock' = clock /\ (host' = host \/ host' = [host EXCEPT ![target] = "off"])
          BY <2>9, <4>2, Zenon DEF ReplaceSystemDisk
        <5> QED
          BY <1>2, <3>1, <5>1
      <4> QED
        BY <4>1, <4>2
    <3> QED
      BY <1>1, <3>1, <3>2
  <2>10. CASE WaitHeartbeat
    BY <1>1, <2>10, Zenon DEF WaitHeartbeat, EndPass
  <2> QED
    BY <1>4, <2>1, <2>2, <2>3, <2>4, <2>5, <2>6, <2>7, <2>8, <2>9, <2>10, Zenon DEF FixMasterNode
<1>5. CASE Reconcile
  BY <1>1, <1>5, Zenon DEF Reconcile, MReconcile, MDetail, MCheck, MScale, MFollower, MRemoveECS,
     Terminate, Launch, MFails, MReturn, Etcd!RemoveMember
<1>6. CASE Hosts
  <2>1. ASSUME NEW x \in Ids, JoinEtcd(x) PROVE WipeInv'
    BY <1>1, <2>1, Zenon DEF JoinEtcd, Etcd!AddMember
  <2>2. ASSUME NEW x \in Ids, StartEtcd(x) PROVE WipeInv'
    BY <1>1, <2>2 DEF StartEtcd, Etcd!StartMember
  <2>3. ASSUME NEW x \in Ids, Register(x) PROVE WipeInv'
    BY <1>1, <1>2, <2>3 DEF Register
  <2>4. ASSUME NEW x \in Ids, Elapse(x) PROVE WipeInv'
    BY <1>1, <1>2, <2>4 DEF Elapse
  <2> QED
    BY <1>6, <2>1, <2>2, <2>3, <2>4, Zenon DEF Hosts
<1>7. CASE Disturb
  <2>1. ASSUME NEW x \in Ids, BootFails(x) \/ HostStops(x) PROVE WipeInv'
    BY <1>1, <1>2, <2>1 DEF BootFails, HostStops
  <2> QED
    BY <1>1, <1>7, <2>1, Zenon DEF Disturb, UserScale, Crash, InstanceLost, Terminate, NodeDeleted,
       KubeletStops, EtcdStops
<1> QED
  BY <1>3, <1>4, <1>5, <1>6, <1>7, Zenon DEF Next

\* Reset replaces the system disk only of a host that is no etcd member any
\* more, for any number of instances and disturbances of every other kind:
\* removeEtcd took it out of the membership, and the throttle by tag keeps
\* Reset away from a host that is still joining.
THEOREM WipesOnlyNonMembers ==
  ASSUME Timely
  PROVE  Spec /\ [][DiskTagged]_vars => WipeOnlyNonMembers
<1>1. Init => WipeInv
  BY InitIInv DEF Init, WipeInv
<1>2. WipeInv => [(hpc = "disk" /\ host' # host) => target \notin member]_vars
  BY DEF WipeInv
<1> QED
  BY <1>1, <1>2, NextWipeInv, PTL DEF Spec, WipeOnlyNonMembers
=============================================================================
