--------------------------- MODULE OperatorProofs ---------------------------
(***************************************************************************)
(* Proofs about Operator, for any number of masters, any places where a    *)
(* pass over the addons may stop and any number of mishaps: who serves,    *)
(* what is applied when, and that every reference of an object resolves.   *)
(***************************************************************************)
EXTENDS Operator, FiniteSetTheorems, TLAPS

\* The posts that have written the Cluster resource, the processes that have
\* started the manager, and the posts that have deployed the operator or will
\* not do so any more.
Written == {"master", "wdrip", "monitor", "done"}
Up == {"started", "patch", "serving"}
Late == {m \in Masters : post[m].pc \in {"monitor", "done", "failed"}}

\* What is in the API server with every deployment of the operator, and what
\* is there once an operator has installed the addons.
Deployed == {"bootcfg", "wdrip"}
Core == Addons \cup Deployed

\* A configuration that claims the addons claims it rightly.
Claims(c, names) == c.init => Core \subseteq names

\* A post has a Cluster resource once it wrote one, makes no false claim about
\* the addons, and when it was served its configuration it knows the stack.
PostOK(r, clusters, names) ==
  /\ r \in PostRecord /\ Claims(r.spec, names)
  /\ r.pc \in Written => clusters # {}
  /\ r.served => r.spec.named

\* The same for a process of the operator, and none of its copies makes a
\* false claim.
PodOK(r, clusters, names) ==
  /\ r \in PodRecord /\ Claims(r.boot, names) /\ Claims(r.seen, names) /\ Claims(r.cr, names)
  /\ r.pc # "none" => clusters # {} /\ Deployed \subseteq names
  /\ (r.pass = "patch" => Core \subseteq names) /\ (r.pass # "idle" => r.pc \in Up)
  /\ r.pc \in Up => r.boot.named

ObjectsOK ==
  /\ applied \subseteq DOMAIN All /\ bits \subseteq Of(Flaky) /\ bits \cap Of(applied) = {}
  /\ crds \in {"none", "created", "served"}
  /\ masters \subseteq Masters /\ mishaps \in 0..MaxMishaps

ClusterOK == cr \in SUBSET Config1 /\ \A c \in cr : Claims(c, applied) /\ \A d \in cr : c = d

PostsOK == post \in [Masters -> PostRecord] /\ \A m \in Masters : PostOK(post[m], cr, applied)

PodsOK == pods \in [Gens -> PodRecord] /\ \A p \in Gens : PodOK(pods[p], cr, applied)

\* Every deployment is one post's, and the leader is one of them.
LabelsOK ==
  /\ uuid \in Nat /\ uuid <= Cardinality(Late)
  /\ leader \in 0..uuid /\ (leader # 0 => pods[leader].pc \in Up)
  /\ \A p \in Gens : p > uuid => pods[p] = NoPod

IInv == ObjectsOK /\ ClusterOK /\ PostsOK /\ PodsOK /\ LabelsOK

-----------------------------------------------------------------------------
(* The data.                                                               *)

LEMMA Names ==
  /\ Addons \subseteq DOMAIN All /\ PostAddons \subseteq DOMAIN All
  /\ {"cluster-info", "bootcfg", "wdrip", "monitor"} \subseteq DOMAIN All
  BY DEF Addons, PostAddons, All, AddonConfigsTpl

LEMMA StepNames ==
  {Steps[i] : i \in DOMAIN Steps} = {"crds", "cluster", "master", "wdrip", "monitor"}
  BY DEF Steps

LEMMA AfterNames ==
  /\ After("crds") = "cluster" /\ After("cluster") = "master" /\ After("master") = "wdrip"
  /\ After("wdrip") = "monitor" /\ After("monitor") = "done"
  BY DEF After, Steps

LEMMA Records == Fresh \in Config1 /\ Idle \in PostRecord /\ NoPod \in PodRecord
<1>1. Fresh \in Config1
  BY DEF Fresh, Config1
<1>2. Idle \in PostRecord
  BY <1>1 DEF Idle, PostRecord
<1> QED
  BY <1>1, <1>2 DEF NoPod, PodRecord

\* The updates of a configuration.
LEMMA ConfigUpdate ==
  ASSUME NEW c \in Config1
  PROVE  /\ [c EXCEPT !.named = TRUE] \in Config1 /\ [c EXCEPT !.init = TRUE] \in Config1
         /\ [c EXCEPT !.named = TRUE].named /\ [c EXCEPT !.named = TRUE].init = c.init
         /\ [c EXCEPT !.init = TRUE].init /\ [c EXCEPT !.init = TRUE].named = c.named
  BY Zenon DEF Config1

\* More objects and a Cluster resource that stays falsify nothing.
LEMMA PostMonotone ==
  ASSUME NEW r, NEW c, NEW d, NEW a, NEW b,
         PostOK(r, c, a), a \subseteq b, c # {} => d # {}
  PROVE  PostOK(r, d, b)
  BY DEF PostOK, Claims

LEMMA PodMonotone ==
  ASSUME NEW r, NEW c, NEW d, NEW a, NEW b,
         PodOK(r, c, a), a \subseteq b, c # {} => d # {}
  PROVE  PodOK(r, d, b)
  BY DEF PodOK, Claims

\* The Cluster resource where there is one.
LEMMA LiveOne ==
  ASSUME ClusterOK, cr # {}
  PROVE  /\ Live \in cr /\ Live \in Config1 /\ cr = {Live} /\ Claims(Live, applied)
  BY DEF ClusterOK, Live

-----------------------------------------------------------------------------
(* What a step does to each part of the invariant.                         *)

LEMMA ApplyOK ==
  ASSUME ObjectsOK, NEW names \in SUBSET DOMAIN All, NEW rest \in SUBSET Of(Flaky),
         Apply(names, rest)
  PROVE  /\ applied' \subseteq DOMAIN All /\ bits' \subseteq Of(Flaky) /\ bits' \cap Of(applied') = {}
         /\ applied \subseteq applied' /\ names \subseteq applied'
  BY DEF ObjectsOK, Apply

\* The Cluster resource stays as it is, or becomes another configuration.
LEMMA ClusterKept ==
  ASSUME ClusterOK, applied \subseteq applied', cr' = cr
  PROVE  ClusterOK'
  BY DEF ClusterOK, Claims

LEMMA ClusterWritten ==
  ASSUME NEW c \in Config1, Claims(c, applied'), cr' = {c}
  PROVE  ClusterOK'
  BY DEF ClusterOK

LEMMA PostsKept ==
  ASSUME PostsOK, applied \subseteq applied', cr # {} => cr' # {}, post' = post
  PROVE  PostsOK'
  BY PostMonotone DEF PostsOK

LEMMA PostChanged ==
  ASSUME PostsOK, applied \subseteq applied', cr # {} => cr' # {},
         NEW m \in Masters, NEW r, PostOK(r, cr', applied'), post' = [post EXCEPT ![m] = r]
  PROVE  PostsOK'
<1>1. r \in PostRecord
  BY DEF PostOK
<1>2. post' \in [Masters -> PostRecord]
  BY <1>1 DEF PostsOK
<1>3. ASSUME NEW k \in Masters PROVE PostOK(post'[k], cr', applied')
  <2>1. CASE k = m
    BY <2>1 DEF PostsOK
  <2>2. CASE k # m
    <3>1. post'[k] = post[k] /\ PostOK(post[k], cr, applied)
      BY <2>2 DEF PostsOK
    <3> QED
      BY <3>1, PostMonotone
  <2> QED
    BY <2>1, <2>2
<1> QED
  BY <1>2, <1>3 DEF PostsOK

LEMMA PodsKept ==
  ASSUME PodsOK, applied \subseteq applied', cr # {} => cr' # {}, pods' = pods
  PROVE  PodsOK'
  BY PodMonotone DEF PodsOK

LEMMA PodChanged ==
  ASSUME PodsOK, applied \subseteq applied', cr # {} => cr' # {},
         NEW p \in Gens, NEW r, PodOK(r, cr', applied'), pods' = [pods EXCEPT ![p] = r]
  PROVE  PodsOK'
<1>1. r \in PodRecord
  BY DEF PodOK
<1>2. pods' \in [Gens -> PodRecord]
  BY <1>1 DEF PodsOK
<1>3. ASSUME NEW k \in Gens PROVE PodOK(pods'[k], cr', applied')
  <2>1. CASE k = p
    BY <2>1 DEF PodsOK
  <2>2. CASE k # p
    <3>1. pods'[k] = pods[k] /\ PodOK(pods[k], cr, applied)
      BY <2>2 DEF PodsOK
    <3> QED
      BY <3>1, PodMonotone
  <2> QED
    BY <2>1, <2>2
<1> QED
  BY <1>2, <1>3 DEF PodsOK

\* Sets of masters: a larger one counts at least as much, and none counts
\* more than there are.
LEMMA Counting ==
  ASSUME NEW S \in SUBSET Masters, NEW T \in SUBSET Masters, S \subseteq T
  PROVE  /\ Cardinality(S) \in Nat /\ Cardinality(T) \in Nat
         /\ Cardinality(S) <= Cardinality(T) /\ Cardinality(T) <= N
         /\ \A m \in T \ S : Cardinality(S) + 1 <= Cardinality(T)
<1>1. IsFiniteSet(Masters) /\ Cardinality(Masters) = N
  BY FS_Interval, OperatorAssumption DEF Masters
<1>2. IsFiniteSet(T) /\ Cardinality(T) <= N
  BY <1>1, FS_Subset
<1>3. IsFiniteSet(S) /\ Cardinality(S) <= Cardinality(T)
  BY <1>2, FS_Subset
<1>4. Cardinality(S) \in Nat /\ Cardinality(T) \in Nat
  BY <1>2, <1>3, FS_CardinalityType
<1>5. ASSUME NEW m \in T \ S PROVE Cardinality(S) + 1 <= Cardinality(T)
  <2>1. Cardinality(S \cup {m}) = Cardinality(S) + 1
    BY <1>3, FS_AddElement, Zenon
  <2>2. Cardinality(S \cup {m}) <= Cardinality(T)
    BY <1>2, FS_Subset
  <2> QED
    BY <2>1, <2>2
<1> QED
  BY <1>2, <1>3, <1>4, <1>5

\* A process of the operator takes a step.
LEMMA PodMove ==
  ASSUME IInv, NEW p \in Gens, pods[p].pc # "none", NEW r, PodOK(r, cr', applied'),
         leader = p => r.pc \in Up, pods' = [pods EXCEPT ![p] = r],
         UNCHANGED <<post, uuid, leader>>, applied \subseteq applied', cr # {} => cr' # {},
         ObjectsOK', ClusterOK'
  PROVE  IInv'
<1>1. PostsOK'
  BY PostsKept DEF IInv
<1>2. PodsOK'
  BY PodChanged, Zenon DEF IInv
<1>3. p <= uuid
  BY DEF IInv, LabelsOK, NoPod, Gens
<1>4. pods'[p] = r /\ \A q \in Gens \ {p} : pods'[q] = pods[q]
  BY DEF IInv, PodsOK
<1>5. leader' # 0 => pods'[leader'].pc \in Up
  <2>1. leader # 0 => leader \in Gens
    <3>1. Late \in SUBSET Masters
      BY DEF Late
    <3> QED
      BY <3>1, Counting, OperatorAssumption DEF IInv, LabelsOK, Gens
  <2> QED
    BY <1>4, <2>1 DEF IInv, LabelsOK
<1>6. LabelsOK'
  <2>1. Late' = Late
    BY DEF Late
  <2> QED
    BY <1>3, <1>4, <1>5, <2>1 DEF IInv, LabelsOK, Gens
<1> QED
  BY <1>1, <1>2, <1>6 DEF IInv

\* A master's post takes a step that deploys no operator.
LEMMA PostMove ==
  ASSUME IInv, NEW m \in Masters, NEW r, PostOK(r, cr', applied'),
         post[m].pc \in {"monitor", "done", "failed"} => r.pc \in {"monitor", "done", "failed"},
         post' = [post EXCEPT ![m] = r], UNCHANGED <<pods, uuid, leader>>,
         applied \subseteq applied', cr # {} => cr' # {}, ObjectsOK', ClusterOK'
  PROVE  IInv'
<1>1. PostsOK'
  BY PostChanged, Zenon DEF IInv
<1>2. PodsOK'
  BY PodsKept DEF IInv
<1>3. Late \subseteq Late' /\ Late \in SUBSET Masters /\ Late' \in SUBSET Masters
  BY DEF Late, IInv, PostsOK
<1>4. Cardinality(Late) \in Nat /\ Cardinality(Late') \in Nat /\ Cardinality(Late) <= Cardinality(Late')
  BY <1>3, Counting
<1>5. LabelsOK'
  BY <1>4 DEF IInv, LabelsOK
<1> QED
  BY <1>1, <1>2, <1>5 DEF IInv

-----------------------------------------------------------------------------
(* The invariant at the start and across every action.                     *)

LEMMA InitOK == Init => IInv
<1> SUFFICES ASSUME Init PROVE IInv
  OBVIOUS
<1>1. ObjectsOK /\ ClusterOK
  BY OperatorAssumption DEF Init, ObjectsOK, ClusterOK, Of
<1>2. PostsOK
  BY Records DEF Init, PostsOK, PostOK, Claims, Idle, Fresh, Written
<1>3. PodsOK
  BY Records DEF Init, PodsOK, PodOK, Claims, NoPod, Fresh, Up
<1>4. LabelsOK
  <2>1. Late \in SUBSET Masters
    BY DEF Late
  <2> QED
    BY <2>1, Counting DEF Init, LabelsOK
<1> QED
  BY <1>1, <1>2, <1>3, <1>4 DEF IInv

LEMMA InstallAddonsOK ==
  ASSUME IInv, NEW m \in Masters, InstallAddons(m)
  PROVE  IInv'
<1>1. applied \subseteq applied' /\ ObjectsOK'
  <2>1. Apply(PostAddons, {}) /\ UNCHANGED <<crds, masters, mishaps>>
    BY DEF InstallAddons
  <2> QED
    BY <2>1, ApplyOK, Names DEF IInv, ObjectsOK
<1>2. ClusterOK' /\ cr' = cr /\ UNCHANGED <<pods, uuid, leader>> /\ post[m].pc = "idle"
  BY <1>1, ClusterKept DEF InstallAddons, IInv
<1>3. Steps[1] = "crds"
  BY DEF Steps
<1>4. CASE post' = [post EXCEPT ![m].pc = Steps[1]]
  <2> DEFINE r == [post[m] EXCEPT !.pc = "crds"]
  <2>1. post' = [post EXCEPT ![m] = r]
    BY <1>3, <1>4 DEF IInv, PostsOK
  <2>2. PostOK(r, cr', applied')
    BY <1>1, StepNames DEF IInv, PostsOK, PostOK, PostRecord, Claims, Written
  <2> QED
    BY <1>1, <1>2, <2>1, <2>2, PostMove, Zenon
<1>5. CASE \E p \in Gens :
             /\ pods[p].pc = "serving"
             /\ post' = [post EXCEPT ![m] = [pc |-> Steps[1], spec |-> pods[p].boot,
                                             served |-> TRUE]]
  <2>1. PICK p \in Gens :
             /\ pods[p].pc = "serving"
             /\ post' = [post EXCEPT ![m] = [pc |-> "crds", spec |-> pods[p].boot,
                                             served |-> TRUE]]
    BY <1>3, <1>5, Zenon
  <2> DEFINE r == [pc |-> "crds", spec |-> pods[p].boot, served |-> TRUE]
  <2>2. pods[p].boot \in Config1 /\ pods[p].boot.named /\ Claims(pods[p].boot, applied)
    BY <2>1 DEF IInv, PodsOK, PodOK, PodRecord, Up
  <2>3. PostOK(r, cr', applied')
    BY <1>1, <2>2, StepNames DEF PostOK, PostRecord, Claims, Written
  <2> QED
    BY <1>1, <1>2, <2>1, <2>3, PostMove, Zenon
<1> QED
  BY <1>4, <1>5 DEF InstallAddons

LEMMA RegisterOK ==
  ASSUME IInv, NEW m \in Masters, RegisterCRD(m)
  PROVE  IInv'
<1> DEFINE r == [post[m] EXCEPT !.pc = "cluster"]
<1>1. ObjectsOK' /\ ClusterOK' /\ UNCHANGED <<applied, cr, pods, uuid, leader>>
  BY ClusterKept DEF RegisterCRD, EnsurePresent, IInv, ObjectsOK
<1>2. post[m].pc = "crds" /\ post' = [post EXCEPT ![m] = r]
  BY AfterNames, Zenon DEF RegisterCRD, At, IInv, PostsOK
<1>3. PostOK(r, cr', applied')
  BY <1>1, StepNames DEF IInv, PostsOK, PostOK, PostRecord, Claims, Written
<1> QED
  BY <1>1, <1>2, <1>3, PostMove, Zenon

LEMMA WriteClusterOK ==
  ASSUME IInv, NEW m \in Masters, WriteCluster(m)
  PROVE  IInv'
<1>1. ObjectsOK' /\ UNCHANGED <<applied, pods, uuid, leader>> /\ post[m].pc = "cluster"
  BY DEF WriteCluster, IInv, ObjectsOK
<1>2. post[m].spec \in Config1 /\ Claims(post[m].spec, applied)
  BY DEF IInv, PostsOK, PostOK, PostRecord
<1>3. CASE cr' = {post[m].spec} /\ post' = [post EXCEPT ![m] = [Idle EXCEPT !.pc = After("cluster")]]
  <2> DEFINE r == [Idle EXCEPT !.pc = "master"]
  <2>1. ClusterOK' /\ cr' # {}
    BY <1>1, <1>2, <1>3, ClusterWritten
  <2>2. PostOK(r, cr', applied')
    BY <2>1, Records, StepNames, Zenon DEF PostOK, PostRecord, Claims, Idle, Fresh
  <2> QED
    BY <1>1, <1>3, <2>1, <2>2, AfterNames, PostMove, Zenon
<1>4. CASE cr' = cr /\ post' = [post EXCEPT ![m].pc = "failed"]
  <2> DEFINE r == [post[m] EXCEPT !.pc = "failed"]
  <2>1. ClusterOK' /\ post' = [post EXCEPT ![m] = r]
    BY <1>1, <1>4, ClusterKept DEF IInv, PostsOK
  <2>2. PostOK(r, cr', applied')
    BY <1>1, <1>4 DEF IInv, PostsOK, PostOK, PostRecord, Claims, Written
  <2> QED
    BY <1>1, <1>4, <2>1, <2>2, PostMove, Zenon
<1> QED
  BY <1>3, <1>4 DEF WriteCluster

LEMMA WriteMasterOK ==
  ASSUME IInv, NEW m \in Masters, WriteMaster(m)
  PROVE  IInv'
<1> DEFINE r == [post[m] EXCEPT !.pc = "wdrip"]
<1>1. ObjectsOK' /\ ClusterOK' /\ UNCHANGED <<applied, cr, pods, uuid, leader>>
  BY ClusterKept DEF WriteMaster, IInv, ObjectsOK
<1>2. post[m].pc = "master" /\ post' = [post EXCEPT ![m] = r]
  BY AfterNames, Zenon DEF WriteMaster, At, IInv, PostsOK
<1>3. PostOK(r, cr', applied')
  BY <1>1, <1>2, StepNames, Zenon DEF IInv, PostsOK, PostOK, PostRecord, Claims, Written
<1> QED
  BY <1>1, <1>2, <1>3, PostMove, Zenon

LEMMA RunMonitorOK ==
  ASSUME IInv, NEW m \in Masters, RunMonitor(m)
  PROVE  IInv'
<1> DEFINE r == [post[m] EXCEPT !.pc = "done"]
<1>1. applied \subseteq applied' /\ ObjectsOK'
  <2>1. Apply({"bootcfg", "monitor"}, {}) /\ UNCHANGED <<crds, masters, mishaps>>
    BY DEF RunMonitor
  <2> QED
    BY <2>1, ApplyOK, Names, Zenon DEF IInv, ObjectsOK
<1>2. ClusterOK' /\ UNCHANGED <<cr, pods, uuid, leader>>
  BY <1>1, ClusterKept DEF RunMonitor, IInv
<1>3. post[m].pc = "monitor" /\ post' = [post EXCEPT ![m] = r]
  BY AfterNames, Zenon DEF RunMonitor, At, IInv, PostsOK
<1>4. PostOK(r, cr', applied') /\ r.pc = "done"
  BY <1>1, <1>2, <1>3 DEF IInv, PostsOK, PostOK, PostRecord, Claims, Written
<1> QED
  BY <1>1, <1>2, <1>3, <1>4, PostMove, Zenon

LEMMA PostFailsOK ==
  ASSUME IInv, NEW m \in Masters, PostFails(m)
  PROVE  IInv'
<1> DEFINE r == [Idle EXCEPT !.pc = "failed"]
<1>1. ObjectsOK' /\ ClusterOK' /\ UNCHANGED <<applied, cr, pods, uuid, leader>>
  BY ClusterKept, OperatorAssumption DEF PostFails, Mishap, IInv, ObjectsOK
<1>2. post' = [post EXCEPT ![m] = r]
  BY DEF PostFails
<1>3. PostOK(r, cr', applied')
  BY Records, Zenon DEF PostOK, PostRecord, Claims, Written, Idle, Fresh
<1> QED
  BY <1>1, <1>2, <1>3, PostMove, Zenon DEF Idle

\* The deployment of the operator: the label counts one post more, and the new
\* process finds the Cluster resource that this post wrote.
LEMMA RunWdripOK ==
  ASSUME IInv, NEW m \in Masters, RunWdrip(m)
  PROVE  IInv'
<1> DEFINE r == [post[m] EXCEPT !.pc = "monitor"]
           new == [NoPod EXCEPT !.pc = "pending"]
<1>1. applied \subseteq applied' /\ Deployed \subseteq applied' /\ ObjectsOK'
  <2>1. Apply({"cluster-info", "bootcfg", "wdrip"}, {}) /\ UNCHANGED <<crds, masters, mishaps>>
    BY DEF RunWdrip
  <2> QED
    BY <2>1, ApplyOK, Names DEF IInv, ObjectsOK, Deployed
<1>2. ClusterOK' /\ UNCHANGED <<cr, leader>>
  BY <1>1, ClusterKept DEF RunWdrip, IInv
<1>3. post[m].pc = "wdrip" /\ post' = [post EXCEPT ![m] = r]
  BY AfterNames, Zenon DEF RunWdrip, At, IInv, PostsOK
<1>4. PostOK(r, cr', applied') /\ r.pc = "monitor" /\ cr' # {}
  BY <1>1, <1>2, <1>3, StepNames, Zenon DEF IInv, PostsOK, PostOK, PostRecord, Claims, Written
<1>5. PostsOK'
  BY <1>1, <1>2, <1>3, <1>4, PostChanged, Zenon DEF IInv
<1>6. uuid' = uuid + 1 /\ uuid' <= Cardinality(Late') /\ uuid' \in Gens
  <2>1. Late \in SUBSET Masters /\ Late' \in SUBSET Masters /\ Late \subseteq Late' /\ m \in Late' \ Late
    BY <1>3, <1>4 DEF Late, IInv, PostsOK
  <2>2. /\ Cardinality(Late) \in Nat /\ Cardinality(Late') \in Nat
        /\ Cardinality(Late) + 1 <= Cardinality(Late') /\ Cardinality(Late') <= N
    BY <2>1, Counting
  <2> QED
    BY <2>2, OperatorAssumption DEF RunWdrip, NewLabel, IInv, LabelsOK, Gens
<1>7. pods' = [pods EXCEPT ![uuid'] = new]
  BY <1>6 DEF RunWdrip, IInv, LabelsOK
<1>8. PodOK(new, cr', applied')
  BY <1>1, <1>4, Records, Zenon DEF PodOK, PodRecord, Claims, NoPod, Fresh, Up
<1>9. PodsOK'
  <2>1. PICK p \in Gens : p = uuid'
    BY <1>6
  <2> QED
    BY <1>1, <1>2, <1>7, <1>8, <2>1, PodChanged, Zenon DEF IInv
<1>10. LabelsOK'
  <2>1. \A q \in Gens \ {uuid'} : pods'[q] = pods[q]
    BY <1>7 DEF IInv, PodsOK
  <2>2. leader # 0 => leader \in Gens \ {uuid'}
    BY <1>6, OperatorAssumption DEF IInv, LabelsOK, Gens
  <2> QED
    BY <1>2, <1>6, <2>1, <2>2 DEF IInv, LabelsOK, Gens
<1> QED
  BY <1>1, <1>2, <1>5, <1>9, <1>10 DEF IInv

LEMMA PodStartOK ==
  ASSUME IInv, NEW p \in Gens, PodStart(p)
  PROVE  IInv'
<1> DEFINE r == [pods[p] EXCEPT !.pc = "crds"]
<1>1. ObjectsOK' /\ ClusterOK' /\ UNCHANGED <<applied, cr, post, uuid, leader>>
  BY ClusterKept DEF PodStart, IInv, ObjectsOK
<1>2. pods[p].pc = "pending" /\ pods' = [pods EXCEPT ![p] = r]
  BY DEF PodStart, Goto, IInv, PodsOK
<1>3. PodOK(r, cr', applied')
  BY <1>1, <1>2 DEF IInv, PodsOK, PodOK, PodRecord, Claims, Up
<1>4. leader # p
  BY <1>2, OperatorAssumption DEF IInv, LabelsOK, Up, Gens
<1> QED
  BY <1>1, <1>2, <1>3, <1>4, PodMove, Zenon

LEMMA ReadClusterOK ==
  ASSUME IInv, NEW p \in Gens, ReadCluster(p)
  PROVE  IInv'
<1> DEFINE r == [pods[p] EXCEPT !.pc = "manager", !.boot = Live]
<1>1. ObjectsOK' /\ ClusterOK' /\ UNCHANGED <<applied, cr, post, uuid, leader>>
  BY ClusterKept DEF ReadCluster, EnsurePresent, IInv, ObjectsOK
<1>2. pods[p].pc = "crds" /\ cr # {}
  BY DEF ReadCluster, IInv, PodsOK, PodOK
<1>3. pods' = [pods EXCEPT ![p] = r]
  BY <1>2, Zenon DEF ReadCluster, IInv, PodsOK
<1>4. PodOK(r, cr', applied')
  <2>1. Live \in Config1 /\ Claims(Live, applied)
    BY <1>2, LiveOne DEF IInv
  <2> QED
    BY <1>1, <1>2, <2>1, Zenon DEF IInv, PodsOK, PodOK, PodRecord, Up
<1>5. leader # p
  BY <1>2, OperatorAssumption DEF IInv, LabelsOK, Up, Gens
<1> QED
  BY <1>1, <1>2, <1>3, <1>4, <1>5, PodMove, Zenon

LEMMA StartManagerOK ==
  ASSUME IInv, NEW p \in Gens, StartManager(p)
  PROVE  IInv'
<1> DEFINE b == [pods[p].boot EXCEPT !.named = TRUE]
           r == [pods[p] EXCEPT !.pc = "started", !.cr = Live, !.ms = masters, !.boot = b]
<1>1. ObjectsOK' /\ ClusterOK' /\ UNCHANGED <<applied, cr, post, uuid, leader>>
  BY ClusterKept DEF StartManager, IInv, ObjectsOK
<1>2. pods[p].pc = "manager" /\ cr # {}
  BY DEF StartManager, IInv, PodsOK, PodOK
<1>3. pods' = [pods EXCEPT ![p] = r]
  BY Zenon DEF StartManager, LoadContextIAAS, IInv, PodsOK
<1>4. b \in Config1 /\ b.named /\ Claims(b, applied)
  <2>1. pods[p].boot \in Config1 /\ Claims(pods[p].boot, applied)
    BY DEF IInv, PodsOK, PodOK, PodRecord
  <2> QED
    BY <2>1, ConfigUpdate, Zenon DEF Claims
<1>5. PodOK(r, cr', applied') /\ r.pc \in Up
  <2>1. Live \in Config1 /\ Claims(Live, applied) /\ masters \subseteq Masters
    BY <1>2, LiveOne DEF IInv, ObjectsOK
  <2> HIDE DEF b
  <2> QED
    BY <1>1, <1>2, <1>4, <2>1, Zenon DEF IInv, PodsOK, PodOK, PodRecord, Up
<1> QED
  BY <1>1, <1>2, <1>3, <1>5, PodMove, Zenon

LEMMA ReadAgainOK ==
  ASSUME IInv, NEW p \in Gens, ReadAgain(p)
  PROVE  IInv'
<1> DEFINE r == [pods[p] EXCEPT !.pc = "patch", !.seen = Live]
<1>1. ObjectsOK' /\ ClusterOK' /\ UNCHANGED <<applied, cr, post, uuid, leader>>
  BY ClusterKept DEF ReadAgain, IInv, ObjectsOK
<1>2. pods[p].pc = "started" /\ cr # {}
  BY DEF ReadAgain, IInv, PodsOK, PodOK
<1>3. pods' = [pods EXCEPT ![p] = r]
  BY Zenon DEF ReadAgain, IInv, PodsOK
<1>4. PodOK(r, cr', applied') /\ r.pc \in Up
  <2>1. Live \in Config1 /\ Claims(Live, applied)
    BY <1>2, LiveOne DEF IInv
  <2> QED
    BY <1>1, <1>2, <2>1, Zenon DEF IInv, PodsOK, PodOK, PodRecord, Up
<1> QED
  BY <1>1, <1>2, <1>3, <1>4, PodMove, Zenon

\* The patches of the Cluster resource set a field of the live one.
LEMMA Patched ==
  ASSUME IInv, cr # {}, applied' = applied,
         \/ cr' = cr \/ cr' = {[Live EXCEPT !.named = TRUE]}
         \/ cr' = {[Live EXCEPT !.init = TRUE]} /\ Core \subseteq applied
  PROVE  ClusterOK' /\ cr' # {}
<1>1. Live \in Config1 /\ Claims(Live, applied)
  BY LiveOne DEF IInv
<1>2. CASE cr' = cr
  BY <1>2, ClusterKept DEF IInv
<1>3. CASE cr' = {[Live EXCEPT !.named = TRUE]}
  <2>1. [Live EXCEPT !.named = TRUE] \in Config1 /\ Claims([Live EXCEPT !.named = TRUE], applied')
    BY <1>1, ConfigUpdate, Zenon DEF Claims
  <2> QED
    BY <1>3, <2>1, ClusterWritten, Zenon
<1>4. CASE cr' = {[Live EXCEPT !.init = TRUE]} /\ Core \subseteq applied
  <2>1. [Live EXCEPT !.init = TRUE] \in Config1 /\ Claims([Live EXCEPT !.init = TRUE], applied')
    BY <1>1, <1>4, ConfigUpdate, Zenon DEF Claims
  <2> QED
    BY <1>4, <2>1, ClusterWritten, Zenon
<1> QED
  BY <1>2, <1>3, <1>4

LEMMA InitializeOK ==
  ASSUME IInv, NEW p \in Gens, InitializeClusterResource(p)
  PROVE  IInv'
<1> DEFINE r == [pods[p] EXCEPT !.pc = "serving", !.seen = Fresh, !.ms = {},
                                !.nodes = pods[p].nodes \cup pods[p].ms]
<1>1. ObjectsOK' /\ UNCHANGED <<applied, post, uuid, leader>>
  BY DEF InitializeClusterResource, IInv, ObjectsOK
<1>2. pods[p].pc = "patch" /\ cr # {}
  BY DEF InitializeClusterResource, IInv, PodsOK, PodOK
<1>3. ClusterOK' /\ cr' # {}
  BY <1>1, <1>2, Patched DEF InitializeClusterResource
<1>4. pods' = [pods EXCEPT ![p] = r]
  BY Zenon DEF InitializeClusterResource, IInv, PodsOK
<1>5. PodOK(r, cr', applied') /\ r.pc \in Up
  <2>1. Fresh \in Config1 /\ ~Fresh.init
    BY Records DEF Fresh
  <2> QED
    BY <1>1, <1>2, <1>3, <2>1, Zenon DEF IInv, PodsOK, PodOK, PodRecord, Claims, Up
<1> QED
  BY <1>1, <1>2, <1>3, <1>4, <1>5, PodMove, Zenon

LEMMA AddonReconcileOK ==
  ASSUME IInv, NEW p \in Gens, AddonReconcile(p)
  PROVE  IInv'
<1> DEFINE r == [pods[p] EXCEPT !.pass = "applying"]
<1>1. ObjectsOK' /\ ClusterOK' /\ UNCHANGED <<applied, cr, post, uuid, leader>>
  BY ClusterKept DEF AddonReconcile, IInv, ObjectsOK
<1>2. pods[p].pc \in Up /\ pods' = [pods EXCEPT ![p] = r]
  BY DEF AddonReconcile, Started, Up, IInv, PodsOK
<1>3. PodOK(r, cr', applied') /\ r.pc \in Up
  BY <1>1, <1>2 DEF IInv, PodsOK, PodOK, PodRecord, Claims
<1> QED
  BY <1>1, <1>2, <1>3, PodMove, Zenon DEF Up

LEMMA ApplyAddonsOK ==
  ASSUME IInv, NEW p \in Gens, ApplyAddons(p)
  PROVE  IInv'
<1> DEFINE r == [pods[p] EXCEPT !.pass = "patch"]
<1>1. applied \subseteq applied' /\ Addons \subseteq applied' /\ ObjectsOK'
  <2>1. Apply(Addons, {}) /\ UNCHANGED <<crds, masters, mishaps>>
    BY DEF ApplyAddons
  <2> QED
    BY <2>1, ApplyOK, Names DEF IInv, ObjectsOK
<1>2. ClusterOK' /\ UNCHANGED <<cr, post, uuid, leader>>
  BY <1>1, ClusterKept DEF ApplyAddons, IInv
<1>3. pods[p].pc \in Up /\ pods' = [pods EXCEPT ![p] = r]
  BY DEF ApplyAddons, IInv, PodsOK, PodOK
<1>4. PodOK(r, cr', applied') /\ r.pc \in Up
  <2>1. Core \subseteq applied'
    BY <1>1, <1>3 DEF IInv, PodsOK, PodOK, Core, Up
  <2> QED
    BY <1>1, <1>2, <1>3, <2>1 DEF IInv, PodsOK, PodOK, PodRecord, Claims
<1> QED
  BY <1>1, <1>2, <1>3, <1>4, PodMove, Zenon DEF Up

LEMMA AddonFailsOK ==
  ASSUME IInv, NEW p \in Gens, AddonFails(p)
  PROVE  IInv'
<1> DEFINE r == [pods[p] EXCEPT !.pass = "idle"]
<1>1. applied \subseteq applied' /\ ObjectsOK'
  <2>1. PICK S \in Cuts, a \in Flaky : \E o \in Of({a}) : Apply(S, Of({a}) \ {o})
    BY Zenon DEF AddonFails
  <2>2. PICK o \in Of({a}) : Apply(S, Of({a}) \ {o})
    BY <2>1, Zenon
  <2>3. S \in SUBSET DOMAIN All /\ Of({a}) \ {o} \in SUBSET Of(Flaky)
    BY OperatorAssumption, Names DEF Of
  <2>4. mishaps' \in 0..MaxMishaps /\ UNCHANGED <<crds, masters>>
    BY OperatorAssumption DEF AddonFails, Mishap, IInv, ObjectsOK
  <2> QED
    BY <2>2, <2>3, <2>4, ApplyOK, Zenon DEF IInv, ObjectsOK
<1>2. ClusterOK' /\ UNCHANGED <<cr, post, uuid, leader>>
  BY <1>1, ClusterKept DEF AddonFails, IInv
<1>3. pods[p].pc \in Up /\ pods' = [pods EXCEPT ![p] = r]
  BY DEF AddonFails, AfterError, IInv, PodsOK, PodOK
<1>4. PodOK(r, cr', applied') /\ r.pc \in Up
  BY <1>1, <1>2, <1>3 DEF IInv, PodsOK, PodOK, PodRecord, Claims
<1> QED
  BY <1>1, <1>2, <1>3, <1>4, PodMove, Zenon DEF Up

LEMMA AddonsDoneOK ==
  ASSUME IInv, NEW p \in Gens, AddonsDone(p)
  PROVE  IInv'
<1> DEFINE r == [pods[p] EXCEPT !.pass = "idle"]
<1>1. ObjectsOK' /\ UNCHANGED <<applied, post, uuid, leader>>
  BY DEF AddonsDone, IInv, ObjectsOK
<1>2. pods[p].pc \in Up /\ cr # {} /\ Core \subseteq applied /\ pods' = [pods EXCEPT ![p] = r]
  BY DEF AddonsDone, IInv, PodsOK, PodOK, Up
<1>3. ClusterOK' /\ cr' # {}
  BY <1>1, <1>2, Patched DEF AddonsDone, PatchAddonPhase
<1>4. PodOK(r, cr', applied') /\ r.pc \in Up
  BY <1>1, <1>2, <1>3 DEF IInv, PodsOK, PodOK, PodRecord, Claims
<1> QED
  BY <1>1, <1>2, <1>3, <1>4, PodMove, Zenon DEF Up

LEMMA WatchOK ==
  ASSUME IInv, NEW p \in Gens, Watch(p)
  PROVE  IInv'
<1> DEFINE ms == IF pods[p].pc = "serving" THEN {} ELSE masters
           ns == IF leader = p THEN AddMasters(pods[p].nodes, masters) ELSE pods[p].nodes
           r == [pods[p] EXCEPT !.cr = Live, !.ms = ms, !.nodes = ns]
<1>1. ObjectsOK' /\ ClusterOK' /\ UNCHANGED <<applied, cr, post, uuid, leader>>
  BY ClusterKept DEF Watch, IInv, ObjectsOK
<1>2. pods[p].pc \in Up /\ cr # {} /\ pods' = [pods EXCEPT ![p] = r]
  BY Zenon DEF Watch, Started, IInv, PodsOK, PodOK, Up
<1>3. ms \subseteq Masters /\ ns \subseteq Masters
  BY DEF AddMasters, IInv, ObjectsOK, PodsOK, PodRecord
<1>4. Live \in Config1 /\ Claims(Live, applied)
  BY <1>2, LiveOne DEF IInv
<1>5. PodOK(r, cr', applied') /\ r.pc \in Up
  <2> HIDE DEF ms, ns
  <2> QED
    BY <1>1, <1>2, <1>3, <1>4, Zenon DEF IInv, PodsOK, PodOK, PodRecord
<1> QED
  BY <1>1, <1>2, <1>5, PodMove, Zenon DEF Up

LEMMA ElectOK ==
  ASSUME IInv, NEW p \in Gens, Elect(p)
  PROVE  IInv'
<1>1. ObjectsOK' /\ ClusterOK' /\ UNCHANGED <<applied, cr, post, pods, uuid>>
  BY ClusterKept DEF Elect, IInv, ObjectsOK
<1>2. PostsOK' /\ PodsOK'
  BY <1>1, PostsKept, PodsKept DEF IInv
<1>3. pods[p].pc \in Up /\ p <= uuid /\ leader' = p
  BY DEF Elect, Started, Up, IInv, LabelsOK, NoPod, Gens
<1>4. LabelsOK'
  <2>1. Late' = Late
    BY <1>1 DEF Late
  <2> QED
    BY <1>1, <1>3, <2>1 DEF IInv, LabelsOK, Gens
<1> QED
  BY <1>1, <1>2, <1>4 DEF IInv

\* A process ends, and its pod goes with it or starts it again.
LEMMA EndsOK ==
  ASSUME IInv, NEW p \in Gens, pods[p].pc # "none", NEW r, r \in {NoPod, [NoPod EXCEPT !.pc = "pending"]},
         Ends(p, r), UNCHANGED <<applied, cr, post, uuid>>, ObjectsOK'
  PROVE  IInv'
<1>1. ClusterOK' /\ PostsOK'
  BY ClusterKept, PostsKept DEF IInv
<1>2. cr # {} /\ Deployed \subseteq applied /\ p <= uuid
  BY DEF IInv, PodsOK, PodOK, LabelsOK, NoPod, Gens
<1>3. PodOK(r, cr', applied')
  <2>1. CASE r = NoPod
    BY <2>1, Records DEF PodOK, Claims, NoPod, Fresh, Up
  <2>2. CASE r = [NoPod EXCEPT !.pc = "pending"]
    BY <1>2, <2>2, Records, Zenon DEF PodOK, PodRecord, Claims, NoPod, Fresh, Up
  <2> QED
    BY <2>1, <2>2
<1>4. PodsOK'
  BY <1>3, PodChanged, Zenon DEF IInv, Ends
<1>5. LabelsOK'
  <2>1. Late' = Late /\ Late \in SUBSET Masters
    BY DEF Late
  <2>2. \A q \in Gens \ {p} : pods'[q] = pods[q]
    BY DEF Ends, IInv, PodsOK
  <2>3. leader # 0 => leader \in Gens
    BY <2>1, Counting, OperatorAssumption DEF IInv, LabelsOK, Gens
  <2> QED
    BY <1>2, <2>1, <2>2, <2>3 DEF Ends, IInv, LabelsOK, Gens
<1> QED
  BY <1>1, <1>4, <1>5 DEF IInv

LEMMA RetireOK ==
  ASSUME IInv, NEW p \in Gens, Retire(p)
  PROVE  IInv'
<1>1. ObjectsOK'
  BY DEF Retire, IInv, ObjectsOK
<1> QED
  BY <1>1, EndsOK DEF Retire

LEMMA CrashOK ==
  ASSUME IInv, NEW p \in Gens, Crash(p)
  PROVE  IInv'
<1>1. ObjectsOK'
  BY OperatorAssumption DEF Crash, Mishap, IInv, ObjectsOK
<1> QED
  BY <1>1, EndsOK DEF Crash

\* Steps that only touch the Master resources or the resource kinds.
LEMMA OthersOK ==
  ASSUME IInv, ObjectsOK', UNCHANGED <<applied, cr, post, uuid, pods, leader>>
  PROVE  IInv'
<1>1. ClusterOK' /\ PostsOK' /\ PodsOK'
  BY ClusterKept, PostsKept, PodsKept DEF IInv
<1>2. LabelsOK'
  BY DEF IInv, LabelsOK, Late
<1> QED
  BY <1>1, <1>2 DEF IInv

LEMMA NextOK == IInv /\ [Next]_vars => IInv'
<1> SUFFICES ASSUME IInv, [Next]_vars PROVE IInv'
  OBVIOUS
<1>1. CASE \E m \in Masters : InstallAddons(m) \/ PostStep(m) \/ PostFails(m) \/ RemoveMaster(m)
  <2>1. PICK m \in Masters : InstallAddons(m) \/ PostStep(m) \/ PostFails(m) \/ RemoveMaster(m)
    BY <1>1
  <2>2. CASE RemoveMaster(m)
    <3>1. ObjectsOK' /\ UNCHANGED <<applied, cr, post, uuid, pods, leader>>
      BY <2>2, OperatorAssumption DEF RemoveMaster, Mishap, IInv, ObjectsOK
    <3> QED
      BY <3>1, OthersOK
  <2> QED
    BY <2>1, <2>2, InstallAddonsOK, PostFailsOK, RegisterOK, WriteClusterOK, WriteMasterOK,
       RunWdripOK, RunMonitorOK DEF PostStep
<1>2. CASE \E p \in Gens : \/ PodStep(p) \/ Controllers(p)
                           \/ AddonFails(p) \/ Watch(p)
                           \/ Elect(p) \/ Retire(p) \/ Crash(p)
  <2>1. PICK p \in Gens : \/ PodStep(p) \/ Controllers(p)
                         \/ AddonFails(p) \/ Watch(p)
                         \/ Elect(p) \/ Retire(p) \/ Crash(p)
    BY <1>2
  <2> QED
    BY <2>1, PodStartOK, ReadClusterOK, StartManagerOK, ReadAgainOK, InitializeOK,
       AddonReconcileOK, ApplyAddonsOK, AddonsDoneOK, AddonFailsOK, WatchOK, ElectOK,
       RetireOK, CrashOK DEF PodStep, Controllers
<1>3. CASE Established
  <2>1. ObjectsOK' /\ UNCHANGED <<applied, cr, post, uuid, pods, leader>>
    BY <1>3 DEF Established, IInv, ObjectsOK
  <2> QED
    BY <2>1, OthersOK
<1>4. CASE UNCHANGED vars
  <2>1. ObjectsOK' /\ UNCHANGED <<applied, cr, post, uuid, pods, leader>>
    BY <1>4 DEF vars, IInv, ObjectsOK
  <2> QED
    BY <2>1, OthersOK
<1> QED
  BY <1>1, <1>2, <1>3, <1>4 DEF Next

LEMMA Inductive == Spec => []IInv
  BY InitOK, NextOK, PTL DEF Spec

-----------------------------------------------------------------------------
\* ActionPost, the operator's start and its controllers keep the state well
\* typed: there is one Cluster resource at most, no more deployments of the
\* operator than masters, and the leader is a process with running caches.
THEOREM TypeCorrect == Spec => []TypeOK
<1>1. IInv => TypeOK
  <2> SUFFICES ASSUME IInv PROVE TypeOK
    OBVIOUS
  <2>1. Late \in SUBSET Masters
    BY DEF Late
  <2>2. uuid \in 0..N
    BY <2>1, Counting, OperatorAssumption DEF IInv, LabelsOK
  <2> QED
    BY <2>2 DEF IInv, ObjectsOK, ClusterOK, PostsOK, PodsOK, LabelsOK, TypeOK, Started, Up
<1> QED
  BY <1>1, Inductive, PTL

\* AddonInitialized is only ever true once every addon is applied, however
\* many masters post and operators overlap, fail half way or crash.
THEOREM AddonsAreComplete == Spec => []AddonsComplete
<1>1. IInv => AddonsComplete
  BY DEF IInv, ClusterOK, Claims, AddonsComplete, Core
<1> QED
  BY <1>1, Inductive, PTL

\* An operator that reads the Cluster resource at its start finds it, since
\* ActionPost writes it before it deploys the operator.
THEOREM ClusterComesFirst == Spec => []ClusterBeforeOperator
<1>1. IInv => ClusterBeforeOperator
  BY DEF IInv, PodsOK, PodOK, ClusterBeforeOperator
<1> QED
  BY <1>1, Inductive, PTL

\* How the Cluster resource can change in a step: a post writes it, or a field
\* of the live one is set.
LEMMA Writers ==
  ASSUME IInv, Next
  PROVE  \/ cr' = cr
         \/ \E m \in Masters : /\ post[m].pc = "cluster" /\ post'[m].pc # "cluster"
                               /\ cr' = {post[m].spec}
         \/ cr # {} /\ cr' = {[Live EXCEPT !.named = TRUE]}
         \/ cr # {} /\ cr' = {[Live EXCEPT !.init = TRUE]}
<1>1. ASSUME NEW m \in Masters, WriteCluster(m)
      PROVE  cr' = cr \/ (/\ post[m].pc = "cluster" /\ post'[m].pc # "cluster" /\ cr' = {post[m].spec})
  BY <1>1, AfterNames DEF WriteCluster, IInv, PostsOK, Idle
<1>2. ASSUME NEW p \in Gens, InitializeClusterResource(p)
      PROVE  cr' = cr \/ (cr # {} /\ cr' = {[Live EXCEPT !.named = TRUE]})
  BY <1>2 DEF InitializeClusterResource, IInv, PodsOK, PodOK
<1>3. ASSUME NEW p \in Gens, AddonsDone(p)
      PROVE  cr' = cr \/ (cr # {} /\ cr' = {[Live EXCEPT !.init = TRUE]})
  <2>1. cr # {}
    BY <1>3 DEF AddonsDone, IInv, PodsOK, PodOK, Up
  <2> QED
    BY <1>3, <2>1 DEF AddonsDone, PatchAddonPhase
<1> QED
  BY <1>1, <1>2, <1>3, Zenon
  DEF Next, InstallAddons, PostStep, RegisterCRD, WriteMaster, RunWdrip, RunMonitor, PostFails,
      RemoveMaster, PodStep, PodStart, ReadCluster, StartManager, ReadAgain, Controllers,
      AddonReconcile, ApplyAddons, AddonFails, Watch, Elect, Retire, Crash, Established

\* Only a master's post takes a field of the Cluster resource back: patches
\* from stale cached copies, of two operators at once, lose no field.
THEOREM PatchesKeepFields == Spec => PatchesMerge
<1>1. ASSUME IInv, Next, NEW c \in cr, NEW d \in cr', (c.named /\ ~d.named) \/ (c.init /\ ~d.init)
      PROVE  \E m \in Masters : post[m].pc = "cluster" /\ post'[m].pc # "cluster"
  <2>1. c = Live /\ Live \in Config1
    BY <1>1, LiveOne DEF IInv
  <2>2. d # c /\ d # [Live EXCEPT !.named = TRUE] /\ d # [Live EXCEPT !.init = TRUE]
    BY <1>1, <2>1, ConfigUpdate, Zenon
  <2>3. cr' # cr
    BY <1>1, <2>2 DEF IInv, ClusterOK
  <2> QED
    BY <1>1, <2>2, <2>3, Writers
<1>2. IInv /\ [Next]_vars =>
        [\A c \in cr, d \in cr' :
          (c.named /\ ~d.named) \/ (c.init /\ ~d.init) =>
              \E m \in Masters : post[m].pc = "cluster" /\ post'[m].pc # "cluster"]_vars
  BY <1>1
<1> QED
  BY <1>2, Inductive, PTL DEF Spec, PatchesMerge

\* The stack id of the Cluster resource is taken back by a bootstrapping
\* master alone: every configuration an operator serves names the stack.
THEOREM JoinersKeepTheStack == Spec => JoinersKeepStack
<1>1. ASSUME IInv, Next, NEW c \in cr, NEW d \in cr', c.named /\ ~d.named
      PROVE  \E m \in Masters : post[m].pc = "cluster" /\ ~post[m].served
  <2>1. c = Live /\ Live \in Config1
    BY <1>1, LiveOne DEF IInv
  <2>2. d # c /\ d # [Live EXCEPT !.named = TRUE] /\ d # [Live EXCEPT !.init = TRUE]
    BY <1>1, <2>1, ConfigUpdate, Zenon
  <2>3. cr' # cr
    BY <1>1, <2>2 DEF IInv, ClusterOK
  <2>4. PICK m \in Masters : post[m].pc = "cluster" /\ cr' = {post[m].spec}
    BY <1>1, <2>2, <2>3, Writers
  <2>5. ~post[m].spec.named
    BY <1>1, <2>4
  <2> QED
    BY <1>1, <2>4, <2>5 DEF IInv, PostsOK, PostOK
<1>2. IInv /\ [Next]_vars =>
        [\A c \in cr, d \in cr' :
          c.named /\ ~d.named => \E m \in Masters : post[m].pc = "cluster" /\ ~post[m].served]_vars
  BY <1>1
<1> QED
  BY <1>2, Inductive, PTL DEF Spec, JoinersKeepStack
-----------------------------------------------------------------------------
(* What the manifests bring and need.                                      *)

LEMMA AddonNames ==
  Addons = {"ccm", "coredns", "terway", "ingress-controller", "kubeproxy-master",
            "kubeproxy-worker", "metrics-server", "csi-plugin", "csi-provision"}
  BY DEF Addons, AddonConfigsTpl

LEMMA ManifestNames == DOMAIN All = Core \cup {"monitor", "cluster-info"}
  BY DEF All, Core, Deployed, Addons

LEMMA ManifestOf ==
  /\ All["ccm"] = CCM /\ All["coredns"] = CORDDNS /\ All["terway"] = TERWAY
  /\ All["ingress-controller"] = INGRESS /\ All["kubeproxy-master"] = KUBEPROXY_MASTER
  /\ All["kubeproxy-worker"] = KUBEPROXY_WORKER /\ All["metrics-server"] = METRICS_SERVER
  /\ All["csi-plugin"] = CSI_PLUGIN /\ All["csi-provision"] = CSI_PROVISION
  /\ All["wdrip"] = Wdripf /\ All["monitor"] = Monitor /\ All["bootcfg"] = BootCFG
  /\ All["cluster-info"] = ClusterInfo
<1>1. /\ AddonConfigsTpl["ccm"] = CCM /\ AddonConfigsTpl["coredns"] = CORDDNS
      /\ AddonConfigsTpl["terway"] = TERWAY /\ AddonConfigsTpl["ingress-controller"] = INGRESS
      /\ AddonConfigsTpl["kubeproxy-master"] = KUBEPROXY_MASTER
      /\ AddonConfigsTpl["kubeproxy-worker"] = KUBEPROXY_WORKER
      /\ AddonConfigsTpl["metrics-server"] = METRICS_SERVER
      /\ AddonConfigsTpl["csi-plugin"] = CSI_PLUGIN /\ AddonConfigsTpl["csi-provision"] = CSI_PROVISION
  BY DEF AddonConfigsTpl
<1>2. \A a \in Addons : a \in DOMAIN All /\ All[a] = AddonConfigsTpl[a]
  BY AddonNames DEF All, Addons
<1>3. /\ All["wdrip"] = Wdripf /\ All["monitor"] = Monitor /\ All["bootcfg"] = BootCFG
      /\ All["cluster-info"] = ClusterInfo
  BY DEF All
<1> QED
  BY <1>1, <1>2, <1>3, AddonNames

\* An object of a core manifest.
LEMMA Brought ==
  ASSUME NEW a \in Core, NEW o, NEW needs, <<o, needs>> \in All[a]
  PROVE  o \in Of(Core)
<1>1. a \in DOMAIN All
  BY ManifestNames
<1>2. o \in ObjectsOf[a]
  BY <1>1 DEF ObjectsOf
<1> QED
  BY <1>2 DEF Of

\* What other objects need of each of these manifests is in it.
LEMMA AccessBrought ==
  /\ {Account("cloud-controller-manager"), Role("system:cloud-controller-manager")} \subseteq Of(Core)
  /\ {Account("coredns"), Config("coredns"), Role("system:coredns")} \subseteq Of(Core)
  /\ {Account("terway"), Config("eni-config"), Role("terway-pod-reader")} \subseteq Of(Core)
<1>1. /\ <<Account("cloud-controller-manager"), {}>> \in CCM
      /\ <<Role("system:cloud-controller-manager"), {}>> \in CCM
  BY DEF CCM, CcmAccess, Bare
<1>2. /\ <<Account("coredns"), {}>> \in CORDDNS /\ <<Config("coredns"), {}>> \in CORDDNS
      /\ <<Role("system:coredns"), {}>> \in CORDDNS
  BY DEF CORDDNS, Bare
<1>3. /\ <<Account("terway"), {}>> \in TERWAY /\ <<Config("eni-config"), {}>> \in TERWAY
      /\ <<Role("terway-pod-reader"), {}>> \in TERWAY
  BY DEF TERWAY, TerwayAccess, Bare
<1>4. {"ccm", "coredns", "terway"} \subseteq Core
  BY AddonNames DEF Core
<1> QED
  BY <1>1, <1>2, <1>3, <1>4, ManifestOf, Brought

LEMMA IngressBrought ==
  {Account("nginx-ingress-controller"), Role("nginx-ingress-controller"), <<"Service", "nginx-ingress-lb">>}
    \cup IngressConfigs \subseteq Of(Core)
<1>1. /\ <<Account("nginx-ingress-controller"), {}>> \in INGRESS
      /\ <<Role("nginx-ingress-controller"), {}>> \in INGRESS
  BY DEF INGRESS, IngressAccess, Bare
<1>2. \A o \in {<<"Service", "nginx-ingress-lb">>} \cup IngressConfigs : <<o, {}>> \in INGRESS
  BY DEF INGRESS, Bare
<1>3. "ingress-controller" \in Core
  BY AddonNames DEF Core
<1> QED
  BY <1>1, <1>2, <1>3, ManifestOf, Brought, Zenon

LEMMA ProxiesBrought ==
  {Account("kube-proxy"), Config("kube-proxy-master"), Config("kube-proxy-worker")} \subseteq Of(Core)
<1>1. /\ <<Account("kube-proxy"), {}>> \in KUBEPROXY_MASTER
      /\ <<Config("kube-proxy-master"), {}>> \in KUBEPROXY_MASTER
      /\ <<Config("kube-proxy-worker"), {}>> \in KUBEPROXY_WORKER
  BY DEF KUBEPROXY_MASTER, KUBEPROXY_WORKER, KubeProxy, Bare
<1>2. {"kubeproxy-master", "kubeproxy-worker"} \subseteq Core
  BY AddonNames DEF Core
<1> QED
  BY <1>1, <1>2, ManifestOf, Brought

\* The account of the operator and its secret, and the storage driver, serve
\* objects of other manifests.
LEMMA SharedBrought ==
  {Account("csi-admin"), Role("alicloud-csi-plugin"), Driver("diskplugin"), Account("admin"),
   Secret("bootcfg")} \subseteq Of(Core)
<1>1. /\ <<Account("csi-admin"), {}>> \in CSI_PLUGIN
      /\ <<Role("alicloud-csi-plugin"), {}>> \in CSI_PLUGIN
      /\ <<Driver("diskplugin"), {}>> \in CSI_PLUGIN
  BY DEF CSI_PLUGIN, CsiAccess, CsiDrivers, Bare
<1>2. <<Account("admin"), {}>> \in Wdripf /\ <<Secret("bootcfg"), {}>> \in BootCFG
  BY DEF Wdripf, BootCFG, Bare
<1>3. {"csi-plugin", "wdrip", "bootcfg"} \subseteq Core
  BY AddonNames DEF Core, Deployed
<1> QED
  BY <1>1, <1>2, <1>3, ManifestOf, Brought

\* Whatever an object of any manifest needs, the addons and the operator bring
\* it or Kubernetes has it.
LEMMA NeedsMet == \A a \in DOMAIN All : \A x \in All[a] : x[2] \subseteq Of(Core) \cup BuiltIn
<1> DEFINE S == Of(Core) \cup BuiltIn
<1>1. \A x \in CCM : x[2] \subseteq S
  <2>1. \A x \in CCM :
          x[2] \subseteq {Account("cloud-controller-manager"), Role("system:cloud-controller-manager")}
    BY DEF CCM, CcmAccess, Bare, Binding, Workload
  <2> QED
    BY <2>1, AccessBrought
<1>2. \A x \in CORDDNS : x[2] \subseteq S
  <2>1. \A x \in CORDDNS : x[2] \subseteq {Account("coredns"), Config("coredns"), Role("system:coredns")}
    BY DEF CORDDNS, CorednsWorkload, Bare, Binding, Workload
  <2> QED
    BY <2>1, AccessBrought
<1>3. \A x \in TERWAY : x[2] \subseteq S
  <2>1. \A x \in TERWAY : x[2] \subseteq {Account("terway"), Config("eni-config"), Role("terway-pod-reader")}
    BY DEF TERWAY, TerwayAccess, TerwayDaemon, Bare, Binding, Workload
  <2> QED
    BY <2>1, AccessBrought
<1>4. \A x \in INGRESS : x[2] \subseteq S
  <2>1. \A x \in INGRESS :
          x[2] \subseteq {Account("nginx-ingress-controller"), Role("nginx-ingress-controller"),
                          <<"Service", "nginx-ingress-lb">>} \cup IngressConfigs
    BY DEF INGRESS, IngressAccess, IngressWorkload, Bare, Binding, Workload
  <2> QED
    BY <2>1, IngressBrought
<1>5. ASSUME NEW name \in {"kube-proxy-master", "kube-proxy-worker"}
      PROVE  \A x \in KubeProxy(name) : x[2] \subseteq S
  <2>1. \A x \in KubeProxy(name) :
          x[2] \subseteq {Account("kube-proxy"), Config(name), Role("system:node-proxier")}
    BY DEF KubeProxy, Bare, Binding, Workload
  <2>2. Role("system:node-proxier") \in BuiltIn
    BY DEF BuiltIn
  <2> QED
    BY <2>1, <2>2, ProxiesBrought
<1>6. \A x \in METRICS_SERVER \cup Monitor \cup BootCFG \cup ClusterInfo : x[2] \subseteq S
  <2>1. \A x \in METRICS_SERVER \cup Monitor \cup BootCFG \cup ClusterInfo :
          x[2] \subseteq {Account("admin"), Secret("bootcfg")}
    BY DEF METRICS_SERVER, Monitor, BootCFG, ClusterInfo, Bare, Workload
  <2> QED
    BY <2>1, SharedBrought
<1>7. \A x \in CSI_PLUGIN \cup CSI_PROVISION : x[2] \subseteq S
  <2>1. \A x \in CSI_PLUGIN \cup CSI_PROVISION :
          x[2] \subseteq {Account("csi-admin"), Role("alicloud-csi-plugin"), Driver("diskplugin")}
    BY DEF CSI_PLUGIN, CsiAccess, CsiDrivers, CsiDaemon, CSI_PROVISION, StorageClasses, CsiWorkload,
           Bare, Binding, Workload
  <2> QED
    BY <2>1, SharedBrought
<1>8. \A x \in Wdripf : x[2] \subseteq S
  <2>1. \A x \in Wdripf : x[2] \subseteq {Account("admin"), Secret("bootcfg"), Role("cluster-admin")}
    BY DEF Wdripf, Bare, Binding, Workload
  <2>2. Role("cluster-admin") \in BuiltIn
    BY DEF BuiltIn
  <2> QED
    BY <2>1, <2>2, SharedBrought
<1> HIDE DEF S
<1>9. (\A x \in KUBEPROXY_MASTER : x[2] \subseteq S) /\ (\A x \in KUBEPROXY_WORKER : x[2] \subseteq S)
  BY <1>5 DEF KUBEPROXY_MASTER, KUBEPROXY_WORKER
<1>10. \A a \in DOMAIN All : \A x \in All[a] : x[2] \subseteq S
  BY <1>1, <1>2, <1>3, <1>4, <1>6, <1>7, <1>8, <1>9, ManifestNames, AddonNames, ManifestOf, ZenonT(40) DEF Core, Deployed
<1> QED
  BY <1>10 DEF S

\* Once an operator has marked the addons as installed, every object in the API
\* server finds what it cannot do without, however many masters post, whichever
\* passes over the addons stopped half way, and whatever they left behind.
THEOREM ReferencesAlwaysResolve == Spec => []ReferencesResolve
<1>1. IInv => ReferencesResolve
  <2> SUFFICES ASSUME IInv, NEW c \in cr, c.init, NEW o \in Objects
               PROVE  Needs[o] \subseteq Objects \cup BuiltIn
    BY DEF ReferencesResolve
  <2>1. Core \subseteq applied /\ applied \subseteq DOMAIN All
    BY DEF IInv, ClusterOK, Claims, ObjectsOK
  <2>2. Of(Core) \subseteq Objects
    BY <2>1 DEF Objects, Of
  <2> DEFINE pairs == UNION {All[a] : a \in DOMAIN All}
  <2>3. o \in {x[1] : x \in pairs}
    <3>1. Flaky \subseteq DOMAIN All
      BY OperatorAssumption, Names
    <3>2. PICK a \in DOMAIN All : o \in ObjectsOf[a]
      BY <2>1, <3>1 DEF Objects, Of, IInv, ObjectsOK
    <3> QED
      BY <3>2 DEF ObjectsOf
  <2>4. Needs[o] = UNION {x[2] : x \in {y \in pairs : y[1] = o}}
    BY <2>3 DEF Needs
  <2>5. \A x \in pairs : x[2] \subseteq Of(Core) \cup BuiltIn
    BY NeedsMet
  <2> QED
    BY <2>2, <2>4, <2>5
<1> QED
  BY <1>1, Inductive, PTL
=============================================================================
