------------------------------- MODULE Triple -------------------------------
(***************************************************************************)
(* The pure decisions of the heal loop and of the master set controller:   *)
(* pkg/operator/heal/triple.go compares the three views of the control     *)
(* plane (ECS instances, Master objects, Node objects) and the etcd        *)
(* member list, and QuorumScale of controllers/master/masterset.go chooses *)
(* how many instances one scaling step may leave.                          *)
(*                                                                         *)
(* An instance, its Master object, its Node object and its etcd member are *)
(* matched in the code by instance id or by IP; both are unique per        *)
(* instance, so all four are identified by one id.  A triple is a record   *)
(* of the ids seen in each listing; "ready" holds the listed nodes whose   *)
(* Ready condition is not other than True.                                 *)
(***************************************************************************)
EXTENDS Integers, FiniteSets

\* The fields of Triple that the decisions read.
Triples(Ids) ==
  [crd : SUBSET Ids, node : SUBSET Ids, ready : SUBSET Ids, ecs : SUBSET Ids]

EmptyTriple == [crd |-> {}, node |-> {}, ready |-> {}, ecs |-> {}]

UnReadyNodeList(t) == (t.node \cap t.ecs) \ t.ready

\* InstanceCRDiff: instances without a Master object, and the converse.
InstanceWithoutCRD(t) == t.ecs \ t.crd
CRDWithoutInstance(t) == t.crd \ t.ecs

\* InstanceNodeDiff: instances without a Node object, and the converse.
NodeAddition(t) == t.ecs \ t.node
NodeDeletion(t) == t.node \ t.ecs

\* MasterCRDDiff: Master objects to delete, and objects to reconstruct.
MasterToDelete(t) == t.crd \ t.ecs
MasterMissed(t)   == (t.node \cap t.ecs) \ t.crd

SystemInConsistency(t) ==
  /\ UnReadyNodeList(t) = {}
  /\ InstanceWithoutCRD(t) = {} /\ CRDWithoutInstance(t) = {}
  /\ NodeAddition(t) = {}       /\ NodeDeletion(t) = {}
  /\ MasterToDelete(t) = {}     /\ MasterMissed(t) = {}

\* Members without an instance, unless they are more than half of the list.
EtcdMemDiff(t, mems) ==
  LET deletions == mems \ t.ecs
  IN  IF 2 * Cardinality(deletions) > Cardinality(mems) THEN {} ELSE deletions

MaxOf(a, b) == IF a > b THEN a ELSE b

\* Mutant of QuorumScaleTarget: one half of the masters may go in one step.
QuorumScaleHalf(current, expect) ==
  IF expect > current THEN expect ELSE MaxOf(current - MaxOf(current \div 2, 1), expect)

\* The instance count QuorumScale passes to its callback (expect # current).
QuorumScaleTarget(current, expect) ==
  IF expect > current
    THEN expect
    ELSE MaxOf(current - MaxOf((current - 1) \div 2, 1), expect)
=============================================================================
