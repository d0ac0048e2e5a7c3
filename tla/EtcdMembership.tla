--------------------------- MODULE EtcdMembership ---------------------------
(***************************************************************************)
(* What etcd allows to happen to its membership (version 3.3 with the      *)
(* strict reconfiguration check, its default): the actions that joining    *)
(* hosts (EtcdJoin) and the operator (ControlPlane) take part in.  etcd is *)
(* external; this is how pkg/actions/etcd/etcd.go drives it through        *)
(* etcdctl.                                                                *)
(***************************************************************************)
EXTENDS Integers, FiniteSets

CONSTANT Ids
VARIABLES member,     \* the membership
          up          \* the members that serve

\* etcd answers writes only while a majority of its members serves.
Quorate == 2 * Cardinality(member \cap up) > Cardinality(member)

\* It refuses a new member unless it is connected to every present one.
CanAdd(x) == x \notin member /\ member # {} /\ member \subseteq up

\* It refuses to remove a member when the rest would have no live majority.
CanRemove(x) ==
  /\ Quorate /\ x \in member
  /\ 2 * Cardinality((member \ {x}) \cap up) > Cardinality(member \ {x})

AddMember(x) == CanAdd(x) /\ member' = member \cup {x} /\ up' = up

\* The removed member's process, if it serves, stops.
RemoveMember(x) == CanRemove(x) /\ member' = member \ {x} /\ up' = up \ {x}

StartMember(x) == x \in member \ up /\ up' = up \cup {x} /\ member' = member

StopMembers(S) == S \subseteq up /\ up' = up \ S /\ member' = member
=============================================================================
