----------------------------- MODULE BootProofs -----------------------------
(***************************************************************************)
(* Proofs about Boot, for any hosts, roles, flows, retries and mishaps:    *)
(* what the stages of the plans rely on, stage by stage; then the          *)
(* invariant of the inits (ShapeInv, ProcInv, CaInv, DiskInv, SameInv,     *)
(* GivenInv, MadeInv) and with it the types, the files that the actions    *)
(* find, and the authorities; then the entry of a recovered cluster.       *)
(***************************************************************************)
EXTENDS Boot, TLAPS

(***************************************************************************)
(* The plans, stage by stage.                                              *)
(***************************************************************************)
Gen == "wdrip.cfg.gen"

Files ==
  Signed \cup DockerUnits
    \cup {"docker", "docker up", "etcd", "etcd.service", "etcd up", "kubernetes", "cni",
          "kubelet.service", "kubelet up", "kubeadm.conf", "apiserver up", "posted", "joined"}

Stages == [needs : SUBSET Files, writes : SUBSET Files, removes : SUBSET Files, keeps : SUBSET Files]

\* The plan p has the stages of s after its first d ones.
At(p, d, s) == \A i \in 1..Len(s) : p[d + i] = s[i]

\* The fields of stage k.
NeedsAt(p, k) == p[k].needs
WritesAt(p, k) == p[k].writes
RemovesAt(p, k) == p[k].removes
KeepsAt(p, k) == p[k].keeps
Fields(p, k, x, w, r, q) ==
  NeedsAt(p, k) = x /\ WritesAt(p, k) = w /\ RemovesAt(p, k) = r /\ KeepsAt(p, k) = q

\* Files that the first k - 1 stages of p leave on the host, and the ones
\* that they wrote or removed.
Written(p, k) ==
  {f \in Files : \E j \in 1..(k - 1) :
     f \in WritesAt(p, j) /\ \A i \in 1..(k - 1) : i > j => f \notin RemovesAt(p, i)}
Touched(p, k) ==
  {f \in Files : \E j \in 1..(k - 1) : f \in WritesAt(p, j) \/ f \in RemovesAt(p, j)}

\* What the actions rely on: a stage that keeps files has written or removed
\* them before in the same init; the authorities and wdrip.cfg.gen are never
\* removed; the authority is on the host before anything is served or
\* remembered, and it is remembered before the operator is posted.
StageOK(p, k) ==
  /\ RemovesAt(p, k) \subseteq SignedFiles /\ (RemovesAt(p, k) = {} \/ WritesAt(p, k) = {})
  /\ KeepsAt(p, k) # {} => WritesAt(p, k) \subseteq Touched(p, k) /\ RemovesAt(p, k) = {}
  /\ WritesAt(p, k) \cap {"apiserver up", Gen} # {} => "ca" \in Written(p, k)
  /\ "posted" \in WritesAt(p, k) => Gen \in Written(p, k)

\* Every file that stage k needs is there; a lost wdrip.cfg.gen is not missed.
NeedsOK(p, k) == NeedsAt(p, k) \subseteq Written(p, k) \ {Gen}

LEMMA Concat ==
  ASSUME NEW s \in Seq(Stages), NEW t \in Seq(Stages)
  PROVE  /\ s \o t \in Seq(Stages) /\ Len(s \o t) = Len(s) + Len(t) /\ Len(s) \in Nat /\ Len(t) \in Nat
         /\ \A i \in 1..Len(s) : i \in 1..Len(s \o t) /\ (s \o t)[i] = s[i]
         /\ \A i \in 1..Len(t) : Len(s) + i \in 1..Len(s \o t) /\ (s \o t)[Len(s) + i] = t[i]
  OBVIOUS

LEMMA ConcatType ==
  ASSUME NEW s \in Seq(Stages), NEW t \in Seq(Stages)
  PROVE  s \o t \in Seq(Stages) /\ Len(s \o t) = Len(s) + Len(t)
  BY Concat, Zenon

\* The parts of a part of a plan.
LEMMA Parted ==
  ASSUME NEW p, NEW d \in Nat, NEW s \in Seq(Stages), NEW t \in Seq(Stages), At(p, d, s \o t)
  PROVE  At(p, d, s) /\ At(p, d + Len(s), t)
<1>1. /\ Len(s) \in Nat /\ Len(t) \in Nat /\ Len(s \o t) = Len(s) + Len(t)
      /\ \A i \in 1..Len(s) : i \in 1..Len(s \o t) /\ (s \o t)[i] = s[i]
      /\ \A i \in 1..Len(t) : Len(s) + i \in 1..Len(s \o t) /\ (s \o t)[Len(s) + i] = t[i]
  BY Concat, Zenon
<1>2. \A i \in 1..Len(t) : d + (Len(s) + i) = (d + Len(s)) + i
  BY <1>1
<1> QED
  BY <1>1, <1>2 DEF At

\* A file that a stage before stage k wrote is there, unless it is signed.
LEMMA WrittenBy ==
  ASSUME NEW p, NEW k \in Nat, NEW j \in 1..(k - 1), NEW f \in Files, f \in WritesAt(p, j),
         f \notin SignedFiles, \A i \in 1..(k - 1) : RemovesAt(p, i) \subseteq SignedFiles
  PROVE  f \in Written(p, k)
  BY DEF Written

\* The next stage's files.
LEMMA WrittenNext ==
  ASSUME NEW p, NEW k \in Nat \ {0}
  PROVE  /\ Written(p, k + 1) \subseteq (Written(p, k) \ RemovesAt(p, k)) \cup WritesAt(p, k)
         /\ Touched(p, k + 1) \subseteq Touched(p, k) \cup WritesAt(p, k) \cup RemovesAt(p, k)
         /\ Touched(p, k) \subseteq Touched(p, k + 1) /\ Written(p, k) \subseteq Touched(p, k)
<1>1. 1..((k + 1) - 1) = 1..(k - 1) \cup {k} /\ k \notin 1..(k - 1) /\ \A j \in 1..(k - 1) : k > j
  OBVIOUS
<1>2. ASSUME NEW f \in Written(p, k + 1) PROVE f \in (Written(p, k) \ RemovesAt(p, k)) \cup WritesAt(p, k)
  <2>1. PICK j \in 1..((k + 1) - 1) :
          f \in WritesAt(p, j) /\ \A i \in 1..((k + 1) - 1) : i > j => f \notin RemovesAt(p, i)
    BY <1>2 DEF Written
  <2> QED
    BY <1>1, <2>1 DEF Written
<1>3. Touched(p, k + 1) \subseteq Touched(p, k) \cup WritesAt(p, k) \cup RemovesAt(p, k)
  BY <1>1 DEF Touched
<1>4. Touched(p, k) \subseteq Touched(p, k + 1)
  BY <1>1 DEF Touched
<1>5. Written(p, k) \subseteq Touched(p, k)
  BY DEF Written, Touched
<1> QED
  BY <1>2, <1>3, <1>4, <1>5

LEMMA RuntimeIs ==
  /\ RuntimePlan \in Seq(Stages) /\ Len(RuntimePlan) = 3
  /\ RuntimePlan[1] = Stage({}, {"docker"})
  /\ RuntimePlan[2] = Stage({}, DockerUnits)
  /\ RuntimePlan[3] = Stage({"docker", "docker.service", "docker.socket", "containerd.service"}, {"docker up"})
<1> DEFINE s1 == Stage({}, {"docker"})
           s2 == Stage({}, DockerUnits)
           s3 == Stage({"docker", "docker.service", "docker.socket", "containerd.service"}, {"docker up"})
<1>1. s1 \in Stages /\ s2 \in Stages /\ s3 \in Stages
  BY DEF DockerUnits, Stage, Stages, Files
<1>2. {r[2] : r \in {q \in UnitRequires : q[1] = "docker.service"}} = {"docker.socket", "containerd.service"}
  <2> DEFINE Q == {q \in UnitRequires : q[1] = "docker.service"}
  <2>1. Q = {<<"docker.service", "docker.socket">>, <<"docker.service", "containerd.service">>}
    BY DEF UnitRequires
  <2>2. \A r \in Q : r[2] \in {"docker.socket", "containerd.service"}
    BY <2>1
  <2>3. <<"docker.service", "docker.socket">> \in Q /\ <<"docker.service", "containerd.service">> \in Q
    BY <2>1
  <2> HIDE DEF Q
  <2>4. "docker.socket" \in {r[2] : r \in Q}
    BY <2>3
  <2>5. "containerd.service" \in {r[2] : r \in Q}
    BY <2>3
  <2>6. {r[2] : r \in Q} = {"docker.socket", "containerd.service"}
    BY <2>2, <2>4, <2>5
  <2> QED
    BY <2>6 DEF Q
<1>3. DockerPlan = << s2, s3 >>
  BY <1>2, Zenon DEF DockerPlan
<1>4. RuntimePlan = << s1 >> \o << s2, s3 >>
  BY <1>3, Zenon DEF RuntimePlan, Download
<1> HIDE DEF s1, s2, s3
<1>5. RuntimePlan \in Seq(Stages) /\ Len(RuntimePlan) = 3
      /\ RuntimePlan[1] = s1 /\ RuntimePlan[2] = s2 /\ RuntimePlan[3] = s3
  BY <1>1, <1>4
<1> QED
  BY <1>5, Zenon DEF s1, s2, s3

\* Short plans.
LEMMA Tuples ==
  ASSUME NEW a \in Stages, NEW b \in Stages, NEW c \in Stages, NEW d \in Stages
  PROVE  /\ << a >> \in Seq(Stages) /\ Len(<< a >>) = 1 /\ << a >>[1] = a
         /\ << a, b >> \in Seq(Stages) /\ Len(<< a, b >>) = 2
         /\ << a, b >>[1] = a /\ << a, b >>[2] = b
         /\ << a, b, c >> \in Seq(Stages) /\ Len(<< a, b, c >>) = 3
         /\ << a, b, c >>[1] = a /\ << a, b, c >>[2] = b /\ << a, b, c >>[3] = c
         /\ << a, b, c, d >> \in Seq(Stages) /\ Len(<< a, b, c, d >>) = 4
         /\ << a, b, c, d >>[1] = a /\ << a, b, c, d >>[2] = b /\ << a, b, c, d >>[3] = c
         /\ << a, b, c, d >>[4] = d
  OBVIOUS

LEMMA Pair ==
  ASSUME NEW a \in Stages, NEW b \in Stages, NEW u, u = << a, b >>
  PROVE  u \in Seq(Stages) /\ Len(u) = 2 /\ u[1] = a /\ u[2] = b
  OBVIOUS

\* A stage that also removes, or keeps, files.
LEMMA Excepted ==
  ASSUME NEW a, NEW b, NEW x
  PROVE  /\ [Stage(a, b) EXCEPT !.removes = x] = [needs |-> a, writes |-> b, removes |-> x, keeps |-> {}]
         /\ [Stage(a, b) EXCEPT !.keeps = x] = [needs |-> a, writes |-> b, removes |-> {}, keeps |-> x]
<1>1. ASSUME NEW c, NEW d
      PROVE  /\ [[needs |-> a, writes |-> b, removes |-> c, keeps |-> d] EXCEPT !.removes = x]
                   = [needs |-> a, writes |-> b, removes |-> x, keeps |-> d]
             /\ [[needs |-> a, writes |-> b, removes |-> c, keeps |-> d] EXCEPT !.keeps = x]
                   = [needs |-> a, writes |-> b, removes |-> c, keeps |-> x]
  OBVIOUS
<1> DEFINE e == {}
           f == {}
<1>2. Stage(a, b) = [needs |-> a, writes |-> b, removes |-> e, keeps |-> f]
  BY DEF Stage
<1> HIDE DEF e, f
<1>3. /\ [Stage(a, b) EXCEPT !.removes = x] = [needs |-> a, writes |-> b, removes |-> x, keeps |-> f]
      /\ [Stage(a, b) EXCEPT !.keeps = x] = [needs |-> a, writes |-> b, removes |-> e, keeps |-> x]
  BY <1>1, <1>2
<1> QED
  BY <1>3 DEF e, f

EtcdCerts == PeerCerts \cup ServerCerts \cup ClientCerts

LEMMA EtcdIs ==
  /\ EtcdPlan \in Seq(Stages) /\ Len(EtcdPlan) = 4
  /\ EtcdPlan[1] = Stage({}, {"etcd"}) /\ EtcdPlan[2] = Stage({}, EtcdCerts)
  /\ EtcdPlan[3] = Stage({}, {"etcd.service"})
  /\ EtcdPlan[4] = Stage({"etcd", "etcd.service"} \cup EtcdCerts, {"etcd up"})
<1> DEFINE s1 == Stage({}, {"etcd"})
           s2 == Stage({}, EtcdCerts)
           s3 == Stage({}, {"etcd.service"})
           s4 == Stage({"etcd", "etcd.service"} \cup EtcdCerts, {"etcd up"})
<1>1. s1 \in Stages /\ s3 \in Stages
  BY DEF Stage, Stages, Files
<1>2. s2 \in Stages /\ s4 \in Stages
  BY Zenon DEF Stage, Stages, Files, Signed, EtcdCerts
<1>3. EtcdPlan = << s1, s2, s3, s4 >>
  <2>1. {"etcd", "etcd.service"} \cup EtcdEnv \cup ClientCerts = {"etcd", "etcd.service"} \cup EtcdCerts
    BY DEF EtcdEnv, EtcdCerts
  <2> QED
    BY <2>1, Zenon DEF EtcdPlan, Download, LoadOrSign, EtcdCerts
<1> HIDE DEF s1, s2, s3, s4
<1>4. EtcdPlan \in Seq(Stages) /\ Len(EtcdPlan) = 4
      /\ EtcdPlan[1] = s1 /\ EtcdPlan[2] = s2 /\ EtcdPlan[3] = s3 /\ EtcdPlan[4] = s4
  BY <1>1, <1>2, <1>3, Tuples
<1> QED
  BY <1>4, Zenon DEF s1, s2, s3, s4

KubeletUp == Stage({"kubernetes", "kubelet.service"}, {"kubelet up"})
Forget == [needs |-> {}, writes |-> {}, removes |-> SignedFiles, keeps |-> {}]

LEMMA KubeletIs ==
  /\ KubeletPlan("Master") \in Seq(Stages) /\ Len(KubeletPlan("Master")) = 4
  /\ KubeletPlan("Worker") \in Seq(Stages) /\ Len(KubeletPlan("Worker")) = 2
  /\ KubeletPlan("Master")[1] = Stage({}, CaFiles) /\ KubeletPlan("Master")[2] = Forget
  /\ KubeletPlan("Master")[3] = KubeletUnit /\ KubeletPlan("Master")[4] = KubeletUp
  /\ KubeletPlan("Worker")[1] = KubeletUnit /\ KubeletPlan("Worker")[2] = KubeletUp
<1> DEFINE s1 == Stage({}, CaFiles)
<1>1. s1 \in Stages
  BY Zenon DEF Stage, Stages, Files, Signed
<1>2. Forget \in Stages
  BY Zenon DEF Forget, Stages, Files, Signed
<1>3. KubeletUnit \in Stages /\ KubeletUp \in Stages
  BY DEF KubeletUnit, KubeletUp, Stage, Stages, Files
<1>4. KubeletPlan("Master") = << s1, Forget >> \o << KubeletUnit, KubeletUp >>
  <2>1. [Stage({}, {}) EXCEPT !.removes = SignedFiles] = Forget
    BY Excepted, Zenon DEF Forget
  <2> QED
    BY <2>1, Zenon DEF KubeletPlan, LoadCert, KubeletUp
<1>5. KubeletPlan("Worker") = << KubeletUnit, KubeletUp >>
  <2>1. KubeletPlan("Worker") = << >> \o << KubeletUnit, KubeletUp >>
    BY DEF KubeletPlan, KubeletUp
  <2>2. << KubeletUnit, KubeletUp >> \in Seq(Stages)
    BY <1>3, Tuples
  <2> QED
    BY <2>1, <2>2
<1> HIDE DEF s1
<1> HIDE DEF Forget, KubeletUnit, KubeletUp
<1>6. /\ KubeletPlan("Master") \in Seq(Stages) /\ Len(KubeletPlan("Master")) = 4
      /\ KubeletPlan("Master")[1] = s1 /\ KubeletPlan("Master")[2] = Forget
      /\ KubeletPlan("Master")[3] = KubeletUnit /\ KubeletPlan("Master")[4] = KubeletUp
  <2> DEFINE u == KubeletPlan("Master")
  <2>1. u = << s1, Forget >> \o << KubeletUnit, KubeletUp >>
    BY <1>4
  <2> HIDE DEF u
  <2>2. u \in Seq(Stages) /\ Len(u) = 4 /\ u[1] = s1 /\ u[2] = Forget /\ u[3] = KubeletUnit /\ u[4] = KubeletUp
    <3>1. << s1, Forget >> \o << KubeletUnit, KubeletUp >> \in Seq(Stages)
          /\ Len(<< s1, Forget >> \o << KubeletUnit, KubeletUp >>) = 4
      BY <1>1, <1>2, <1>3
    <3> QED
      BY <1>1, <1>2, <1>3, <2>1, <3>1
  <2> QED
    BY <2>2 DEF u
<1>7. /\ KubeletPlan("Worker") \in Seq(Stages) /\ Len(KubeletPlan("Worker")) = 2
      /\ KubeletPlan("Worker")[1] = KubeletUnit /\ KubeletPlan("Worker")[2] = KubeletUp
  BY <1>3, <1>5, Pair
<1> QED
  BY <1>6, <1>7 DEF s1

\* The stages of kubeadm.
Packages == Stage({}, {"kubernetes", "cni"})
InitNeeds == {"kubernetes", "kubeadm.conf", "kubelet up", "docker up"} \cup CaFiles \cup KubeadmEtcd
Sign == [needs |-> InitNeeds, writes |-> SignedFiles, removes |-> {}, keeps |-> SignedFiles]
Serve == Stage(SignedFiles \cup {"kubelet up", "docker up"}, {"apiserver up"})
Post == Stage({"kubernetes", "admin.conf", "admin.local", "apiserver up"}, {"posted"})
Joining == Stage({"kubernetes", "kubelet up", "docker up"}, {"kubelet.conf"})
Joined == Stage({"kubernetes", "kubelet.conf"}, {"joined"})

LEMMA InitIs ==
  /\ << Download({"kubernetes", "cni"}) >> = << Packages >>
  /\ << Packages >> \in Seq(Stages) /\ Len(<< Packages >>) = 1 /\ << Packages >>[1] = Packages
  /\ InitPlan \in Seq(Stages) /\ Len(InitPlan) = 3
  /\ InitPlan[1] = Stage({}, {"kubeadm.conf"}) /\ InitPlan[2] = Sign /\ InitPlan[3] = Serve
  /\ CcmPlan \in Seq(Stages) /\ Len(CcmPlan) = 1
  /\ CcmPlan[1] = Stage({}, {"cloud-controller-manager.conf"})
  /\ KubeAuthPlan \in Seq(Stages) /\ Len(KubeAuthPlan) = 2
  /\ KubeAuthPlan[1] = Stage({}, {Gen}) /\ KubeAuthPlan[2] = Stage({}, {"admin.local"})
  /\ PostPlan \in Seq(Stages) /\ Len(PostPlan) = 1 /\ PostPlan[1] = Post
  /\ JoinPlan \in Seq(Stages) /\ Len(JoinPlan) = 2 /\ JoinPlan[1] = Joining /\ JoinPlan[2] = Joined
<1> DEFINE s1 == Stage({}, {"kubeadm.conf"})
           s2 == Stage({}, {"cloud-controller-manager.conf"})
           s3 == Stage({}, {Gen})
           s4 == Stage({}, {"admin.local"})
<1>1. s1 \in Stages /\ Packages \in Stages
  BY DEF Packages, Stage, Stages, Files
<1>2. s2 \in Stages /\ s3 \in Stages /\ s4 \in Stages
  BY DEF Stage, Stages, Files, Signed, Gen
<1>3. Sign \in Stages
  <2>1. InitNeeds \subseteq Files
    BY Zenon DEF InitNeeds, Files, Signed, KubeadmEtcd, ServerCerts, ClientCerts
  <2>2. SignedFiles \subseteq Files
    BY Zenon DEF Files, Signed
  <2> QED
    BY <2>1, <2>2 DEF Sign, Stages
<1>4. Serve \in Stages
  BY Zenon DEF Serve, Stage, Stages, Files, Signed
<1>5. Post \in Stages /\ Joining \in Stages /\ Joined \in Stages
  BY DEF Post, Joining, Joined, Stage, Stages, Files, Signed, SignedFiles
<1>6. InitPlan = << s1, Sign, Serve >>
  <2>1. [Stage(InitNeeds, SignedFiles) EXCEPT !.keeps = SignedFiles] = Sign
    BY Excepted, Zenon DEF Sign
  <2> QED
    BY <2>1, Zenon DEF InitPlan, InitNeeds, Serve
<1>7. CcmPlan = << s2 >> /\ KubeAuthPlan = << s3, s4 >> /\ PostPlan = << Post >>
      /\ JoinPlan = << Joining, Joined >> /\ << Download({"kubernetes", "cni"}) >> = << Packages >>
  BY DEF CcmPlan, KubeAuthPlan, PostPlan, JoinPlan, Post, Joining, Joined, Packages, Download, Gen
<1> HIDE DEF s1, s2, s3, s4
<1>8. << Packages >> \in Seq(Stages) /\ Len(<< Packages >>) = 1 /\ << Packages >>[1] = Packages
  BY <1>1, Tuples
<1>9. InitPlan \in Seq(Stages) /\ Len(InitPlan) = 3
      /\ InitPlan[1] = s1 /\ InitPlan[2] = Sign /\ InitPlan[3] = Serve
  BY <1>1, <1>3, <1>4, <1>6, Tuples
<1>10. /\ CcmPlan \in Seq(Stages) /\ Len(CcmPlan) = 1 /\ CcmPlan[1] = s2
       /\ KubeAuthPlan \in Seq(Stages) /\ Len(KubeAuthPlan) = 2
       /\ KubeAuthPlan[1] = s3 /\ KubeAuthPlan[2] = s4
  BY <1>2, <1>7, Tuples
<1>11. /\ PostPlan \in Seq(Stages) /\ Len(PostPlan) = 1 /\ PostPlan[1] = Post
       /\ JoinPlan \in Seq(Stages) /\ Len(JoinPlan) = 2 /\ JoinPlan[1] = Joining /\ JoinPlan[2] = Joined
  BY <1>5, <1>7, Tuples
<1> QED
  BY <1>7, <1>8, <1>9, <1>10, <1>11 DEF s1, s2, s3, s4

LEMMA MasterIs ==
  /\ MasterPlan \in Seq(Stages) /\ Len(MasterPlan) = 12
  /\ \A p : \A d \in Nat : At(p, d, MasterPlan) =>
       /\ At(p, d, << Packages >>)
       /\ At(p, d + 1, KubeletPlan("Master")) /\ At(p, d + 5, InitPlan) /\ At(p, d + 8, CcmPlan)
       /\ At(p, d + 9, KubeAuthPlan) /\ At(p, d + 11, PostPlan)
<1> DEFINE a1 == << Packages >>
           a2 == a1 \o KubeletPlan("Master")
           a3 == a2 \o InitPlan
           a4 == a3 \o CcmPlan
           a5 == a4 \o KubeAuthPlan
<1>5. MasterPlan = a5 \o PostPlan
  BY InitIs DEF MasterPlan
<1>0. a1 \in Seq(Stages) /\ Len(a1) = 1
  BY InitIs
<1>8. /\ InitPlan \in Seq(Stages) /\ Len(InitPlan) = 3 /\ CcmPlan \in Seq(Stages) /\ Len(CcmPlan) = 1
      /\ KubeAuthPlan \in Seq(Stages) /\ Len(KubeAuthPlan) = 2
      /\ PostPlan \in Seq(Stages) /\ Len(PostPlan) = 1
  BY InitIs, Zenon
<1> HIDE DEF a1, a2, a3, a4, a5
<1>1. a2 \in Seq(Stages) /\ Len(a2) = 5
  <2>1. a2 \in Seq(Stages) /\ Len(a2) = 1 + 4
    BY <1>0, KubeletIs, ConcatType, Zenon DEF a2
  <2> QED
    BY <2>1
<1>2. a3 \in Seq(Stages) /\ Len(a3) = 8
  <2>1. a3 \in Seq(Stages) /\ Len(a3) = 5 + 3
    BY <1>1, <1>8, ConcatType, Zenon DEF a3
  <2> QED
    BY <2>1
<1>3. a4 \in Seq(Stages) /\ Len(a4) = 9
  <2>1. a4 \in Seq(Stages) /\ Len(a4) = 8 + 1
    BY <1>2, <1>8, ConcatType, Zenon DEF a4
  <2> QED
    BY <2>1
<1>4. a5 \in Seq(Stages) /\ Len(a5) = 11
  <2>1. a5 \in Seq(Stages) /\ Len(a5) = 9 + 2
    BY <1>3, <1>8, ConcatType, Zenon DEF a5
  <2> QED
    BY <2>1
<1>6. ASSUME NEW p, NEW d \in Nat, At(p, d, MasterPlan)
      PROVE  /\ At(p, d, << Packages >>)
             /\ At(p, d + 1, KubeletPlan("Master")) /\ At(p, d + 5, InitPlan) /\ At(p, d + 8, CcmPlan)
             /\ At(p, d + 9, KubeAuthPlan) /\ At(p, d + 11, PostPlan)
  <2>1. At(p, d, a5) /\ At(p, d + 11, PostPlan)
    BY <1>4, <1>5, <1>6, <1>8, Parted, Zenon
  <2>2. At(p, d, a4) /\ At(p, d + 9, KubeAuthPlan)
    BY <1>3, <2>1, <1>8, Parted, Zenon DEF a5
  <2>3. At(p, d, a3) /\ At(p, d + 8, CcmPlan)
    BY <1>2, <2>2, <1>8, Parted, Zenon DEF a4
  <2>4. At(p, d, a2) /\ At(p, d + 5, InitPlan)
    BY <1>1, <2>3, <1>8, Parted, Zenon DEF a3
  <2>5. At(p, d, a1) /\ At(p, d + 1, KubeletPlan("Master"))
    BY <1>0, <2>4, KubeletIs, Parted, Zenon DEF a2
  <2> QED
    BY <2>1, <2>2, <2>3, <2>4, <2>5 DEF a1
<1>7. MasterPlan \in Seq(Stages) /\ Len(MasterPlan) = 12
  <2>1. MasterPlan \in Seq(Stages) /\ Len(MasterPlan) = 11 + 1
    BY <1>4, <1>5, <1>8, ConcatType, Zenon
  <2> QED
    BY <2>1
<1> QED
  BY <1>6, <1>7

LEMMA WorkerIs ==
  /\ WorkerPlan \in Seq(Stages) /\ Len(WorkerPlan) = 5
  /\ \A p : \A d \in Nat : At(p, d, WorkerPlan) =>
       At(p, d, << Packages >>) /\ At(p, d + 1, KubeletPlan("Worker")) /\ At(p, d + 3, JoinPlan)
<1> DEFINE a1 == << Packages >>
           a2 == a1 \o KubeletPlan("Worker")
<1>1. WorkerPlan = a2 \o JoinPlan
  BY InitIs DEF WorkerPlan
<1>2. a1 \in Seq(Stages) /\ Len(a1) = 1
  BY InitIs
<1>6. JoinPlan \in Seq(Stages) /\ Len(JoinPlan) = 2
  BY InitIs, Zenon
<1> HIDE DEF a1, a2
<1>3. a2 \in Seq(Stages) /\ Len(a2) = 3
  <2>1. a2 \in Seq(Stages) /\ Len(a2) = 1 + 2
    BY <1>2, KubeletIs, ConcatType, Zenon DEF a2
  <2> QED
    BY <2>1
<1>4. ASSUME NEW p, NEW d \in Nat, At(p, d, WorkerPlan)
      PROVE  At(p, d, << Packages >>) /\ At(p, d + 1, KubeletPlan("Worker")) /\ At(p, d + 3, JoinPlan)
  <2>1. At(p, d, a2) /\ At(p, d + 3, JoinPlan)
    BY <1>1, <1>3, <1>4, <1>6, Parted, Zenon
  <2>2. At(p, d, a1) /\ At(p, d + 1, KubeletPlan("Worker"))
    BY <1>2, <2>1, KubeletIs, Parted, Zenon DEF a2
  <2> QED
    BY <2>1, <2>2 DEF a1
<1>5. WorkerPlan \in Seq(Stages) /\ Len(WorkerPlan) = 5
  <2>1. WorkerPlan \in Seq(Stages) /\ Len(WorkerPlan) = 3 + 2
    BY <1>1, <1>3, <1>6, ConcatType, Zenon
  <2> QED
    BY <2>1
<1> QED
  BY <1>4, <1>5

\* The plan of every role, part by part.
LEMMA PlanIs ==
  /\ \A r \in Roles : Plan[r] \in Seq(Stages) /\ At(Plan[r], 0, RuntimePlan)
  /\ Len(Plan["Etcd"]) = 7 /\ At(Plan["Etcd"], 3, EtcdPlan)
  /\ Len(Plan["Master"]) = 15 /\ At(Plan["Master"], 3, MasterPlan)
  /\ Len(Plan["Hybrid"]) = 19 /\ At(Plan["Hybrid"], 3, EtcdPlan) /\ At(Plan["Hybrid"], 7, MasterPlan)
  /\ Len(Plan["Worker"]) = 8 /\ At(Plan["Worker"], 3, WorkerPlan)
<1>0. ASSUME NEW p \in Seq(Stages) PROVE At(p, 0, p)
  BY DEF At
<1>1. /\ Plan["Etcd"] = RuntimePlan \o EtcdPlan /\ Plan["Master"] = RuntimePlan \o MasterPlan
      /\ Plan["Hybrid"] = Plan["Etcd"] \o MasterPlan
      /\ Plan["Worker"] = RuntimePlan \o WorkerPlan
  BY DEF Plan
<1>2. Plan["Etcd"] \in Seq(Stages) /\ Len(Plan["Etcd"]) = 7
  <2>1. Plan["Etcd"] \in Seq(Stages) /\ Len(Plan["Etcd"]) = 3 + 4
    BY <1>1, RuntimeIs, EtcdIs, ConcatType, Zenon
  <2> QED
    BY <2>1
<1>3. Plan["Master"] \in Seq(Stages) /\ Len(Plan["Master"]) = 15
  <2>1. Plan["Master"] \in Seq(Stages) /\ Len(Plan["Master"]) = 3 + 12
    BY <1>1, RuntimeIs, MasterIs, ConcatType, Zenon
  <2> QED
    BY <2>1
<1>4. Plan["Hybrid"] \in Seq(Stages) /\ Len(Plan["Hybrid"]) = 19
  <2>1. Plan["Hybrid"] \in Seq(Stages) /\ Len(Plan["Hybrid"]) = 7 + 12
    BY <1>1, <1>2, MasterIs, ConcatType, Zenon
  <2> QED
    BY <2>1
<1>5. Plan["Worker"] \in Seq(Stages) /\ Len(Plan["Worker"]) = 8
  <2>1. Plan["Worker"] \in Seq(Stages) /\ Len(Plan["Worker"]) = 3 + 5
    BY <1>1, RuntimeIs, WorkerIs, ConcatType, Zenon
  <2> QED
    BY <2>1
<1>13. Len(RuntimePlan) = 3
  BY RuntimeIs, Zenon
<1>11. 0 \in Nat
  OBVIOUS
<1>6. At(Plan["Etcd"], 0, RuntimePlan) /\ At(Plan["Etcd"], 3, EtcdPlan)
  <2>1. At(Plan["Etcd"], 0, RuntimePlan) /\ At(Plan["Etcd"], 0 + Len(RuntimePlan), EtcdPlan)
    <3>1. At(Plan["Etcd"], 0, RuntimePlan \o EtcdPlan)
      BY <1>0, <1>1, <1>2, Zenon
    <3>2. RuntimePlan \in Seq(Stages) /\ EtcdPlan \in Seq(Stages)
      BY RuntimeIs, EtcdIs, Zenon
    <3> QED
      BY <3>1, <3>2, <1>11, Parted, Zenon
  <2>2. 0 + Len(RuntimePlan) = 3
    BY <1>13
  <2> QED
    BY <2>1, <2>2, Zenon
<1>7. At(Plan["Master"], 0, RuntimePlan) /\ At(Plan["Master"], 3, MasterPlan)
  <2>1. At(Plan["Master"], 0, RuntimePlan) /\ At(Plan["Master"], 0 + Len(RuntimePlan), MasterPlan)
    <3>1. At(Plan["Master"], 0, RuntimePlan \o MasterPlan)
      BY <1>0, <1>1, <1>3, Zenon
    <3>2. RuntimePlan \in Seq(Stages) /\ MasterPlan \in Seq(Stages)
      BY RuntimeIs, MasterIs, Zenon
    <3> QED
      BY <3>1, <3>2, <1>11, Parted, Zenon
  <2>2. 0 + Len(RuntimePlan) = 3
    BY <1>13
  <2> QED
    BY <2>1, <2>2, Zenon
<1>8. At(Plan["Worker"], 0, RuntimePlan) /\ At(Plan["Worker"], 3, WorkerPlan)
  <2>1. At(Plan["Worker"], 0, RuntimePlan) /\ At(Plan["Worker"], 0 + Len(RuntimePlan), WorkerPlan)
    <3>1. At(Plan["Worker"], 0, RuntimePlan \o WorkerPlan)
      BY <1>0, <1>1, <1>5, Zenon
    <3>2. RuntimePlan \in Seq(Stages) /\ WorkerPlan \in Seq(Stages)
      BY RuntimeIs, WorkerIs, Zenon
    <3> QED
      BY <3>1, <3>2, <1>11, Parted, Zenon
  <2>2. 0 + Len(RuntimePlan) = 3
    BY <1>13
  <2> QED
    BY <2>1, <2>2, Zenon
<1>9. At(Plan["Hybrid"], 0, Plan["Etcd"]) /\ At(Plan["Hybrid"], 7, MasterPlan)
  <2>1. At(Plan["Hybrid"], 0, Plan["Etcd"]) /\ At(Plan["Hybrid"], 0 + Len(Plan["Etcd"]), MasterPlan)
    <3>1. At(Plan["Hybrid"], 0, Plan["Etcd"] \o MasterPlan)
      BY <1>0, <1>1, <1>4, Zenon
    <3>2. Plan["Etcd"] \in Seq(Stages) /\ MasterPlan \in Seq(Stages)
      BY <1>2, MasterIs, Zenon
    <3> QED
      BY <3>1, <3>2, <1>11, Parted, Zenon
  <2> QED
    BY <2>1, <1>2
<1>12. Plan["Etcd"] = RuntimePlan \o EtcdPlan
  BY <1>1
<1>10. At(Plan["Hybrid"], 0, RuntimePlan) /\ At(Plan["Hybrid"], 3, EtcdPlan)
  <2>1. At(Plan["Hybrid"], 0, RuntimePlan) /\ At(Plan["Hybrid"], 0 + Len(RuntimePlan), EtcdPlan)
    <3>1. At(Plan["Hybrid"], 0, RuntimePlan \o EtcdPlan)
      BY <1>9, <1>12
    <3>2. RuntimePlan \in Seq(Stages) /\ EtcdPlan \in Seq(Stages)
      BY RuntimeIs, EtcdIs, Zenon
    <3> QED
      BY <1>11, <3>1, <3>2, Parted, Zenon
  <2>2. 0 + Len(RuntimePlan) = 3
    BY <1>13
  <2> QED
    BY <2>1, <2>2, Zenon
<1> QED
  BY <1>2, <1>3, <1>4, <1>5, <1>6, <1>7, <1>8, <1>9, <1>10 DEF Roles

LEMMA FieldsOf ==
  ASSUME NEW p, NEW k, NEW x, NEW w
  PROVE  /\ p[k] = Stage(x, w) => Fields(p, k, x, w, {}, {})
         /\ p[k] = Forget => Fields(p, k, {}, {}, SignedFiles, {})
         /\ p[k] = Sign => Fields(p, k, InitNeeds, SignedFiles, {}, SignedFiles)
<1>1. ASSUME p[k] = Stage(x, w) PROVE Fields(p, k, x, w, {}, {})
  BY <1>1 DEF Stage, Fields, NeedsAt, WritesAt, RemovesAt, KeepsAt
<1>2. ASSUME p[k] = Forget PROVE Fields(p, k, {}, {}, SignedFiles, {})
  BY <1>2 DEF Forget, Fields, NeedsAt, WritesAt, RemovesAt, KeepsAt
<1>3. ASSUME p[k] = Sign PROVE Fields(p, k, InitNeeds, SignedFiles, {}, SignedFiles)
  BY <1>3 DEF Sign, Fields, NeedsAt, WritesAt, RemovesAt, KeepsAt
<1> QED
  BY <1>1, <1>2, <1>3

\* A stage that only needs and writes files, and does not join a cluster.
Quiet(p, k) ==
  StageOK(p, k) /\ NeedsOK(p, k) /\ RemovesAt(p, k) = {} /\ WritesAt(p, k) # {"kubelet.conf"}

LEMMA QuietBy ==
  ASSUME NEW p, NEW k, NEW x, NEW w, Fields(p, k, x, w, {}, {}), x \subseteq Written(p, k), Gen \notin x,
         w \cap {"apiserver up", Gen, "posted"} = {}, w # {"kubelet.conf"}
  PROVE  Quiet(p, k)
<1>1. StageOK(p, k)
  BY Zenon DEF StageOK, Fields
<1>2. NeedsOK(p, k)
  BY Zenon DEF NeedsOK, Fields
<1> QED
  BY <1>1, <1>2, Zenon DEF Quiet, Fields

LEMMA WrittenAt ==
  ASSUME NEW p, NEW k \in Nat, NEW j \in Nat, 1 <= j, j < k, NEW x, x \subseteq WritesAt(p, j),
         x \subseteq Files, x \cap SignedFiles = {}, \A i \in 1..(k - 1) : RemovesAt(p, i) \subseteq SignedFiles
  PROVE  x \subseteq Written(p, k)
<1>1. j \in 1..(k - 1)
  OBVIOUS
<1> QED
  BY <1>1, WrittenBy

\* Sets of files: none of them is signed by kubeadm, served or remembered.
Calm(w) == w \subseteq Files /\ w \cap SignedFiles = {} /\ w \cap {"apiserver up", Gen, "posted"} = {}

LEMMA CalmIs ==
  /\ Calm({"docker"}) /\ Calm(DockerUnits) /\ Calm({"docker up"}) /\ Calm({"etcd"})
  /\ Calm({"etcd.service"}) /\ Calm({"etcd up"}) /\ Calm({"kubernetes", "cni"})
  /\ Calm({"kubelet.service"}) /\ Calm({"kubelet up"}) /\ Calm({"kubeadm.conf"})
  /\ Calm({"cloud-controller-manager.conf"}) /\ Calm({"admin.local"}) /\ Calm({"joined"})
  /\ Calm(CaFiles) /\ Calm(EtcdCerts) /\ Calm(KubeadmEtcd) /\ KubeadmEtcd \subseteq EtcdCerts
<1>1. /\ Calm({"docker"}) /\ Calm({"docker up"}) /\ Calm({"etcd"})
      /\ Calm({"etcd.service"}) /\ Calm({"etcd up"}) /\ Calm({"kubernetes", "cni"})
  BY DEF Calm, Files, SignedFiles, SignedPairs, Gen
<1>2. /\ Calm({"kubelet.service"}) /\ Calm({"kubelet up"}) /\ Calm({"kubeadm.conf"}) /\ Calm({"joined"})
      /\ Calm(DockerUnits)
  BY DEF Calm, Files, SignedFiles, SignedPairs, Gen, DockerUnits
<1>3. Calm({"cloud-controller-manager.conf"}) /\ Calm({"admin.local"}) /\ Calm(CaFiles)
  BY DEF Calm, Files, Signed, SignedFiles, SignedPairs, Gen, CaFiles
<1>4. Calm(EtcdCerts) /\ Calm(KubeadmEtcd) /\ KubeadmEtcd \subseteq EtcdCerts
  BY DEF Calm, Files, Signed, SignedFiles, SignedPairs, Gen, EtcdCerts, KubeadmEtcd, PeerCerts, ServerCerts, ClientCerts
<1> QED
  BY <1>1, <1>2, <1>3, <1>4, Zenon

\* The files that a quiet part of a plan wrote before.
LEMMA QuietWrote ==
  ASSUME NEW p, NEW k \in Nat, NEW j \in 1..(k - 1), \A i \in 1..(k - 1) : Quiet(p, i),
         NEW w, WritesAt(p, j) = w, Calm(w)
  PROVE  w \subseteq Written(p, k) /\ Gen \notin w
<1>1. \A i \in 1..(k - 1) : RemovesAt(p, i) \subseteq SignedFiles
  BY DEF Quiet
<1>2. j \in Nat /\ 1 <= j /\ j < k
  OBVIOUS
<1>3. w \subseteq WritesAt(p, j) /\ w \subseteq Files /\ w \cap SignedFiles = {} /\ Gen \notin w
  BY Zenon DEF Calm
<1> QED
  BY <1>1, <1>2, <1>3, WrittenAt

DockerNeeds == {"docker", "docker.service", "docker.socket", "containerd.service"}
EtcdNeeds == {"etcd", "etcd.service"} \cup EtcdCerts

LEMMA RuntimeOK ==
  ASSUME NEW p, At(p, 0, RuntimePlan)
  PROVE  /\ \A k \in 1..3 : Quiet(p, k)
         /\ WritesAt(p, 3) = {"docker up"}
<1>1. p[1] = Stage({}, {"docker"}) /\ p[2] = Stage({}, DockerUnits) /\ p[3] = Stage(DockerNeeds, {"docker up"})
  <2>1. Len(RuntimePlan) = 3
    BY RuntimeIs, Zenon
  <2>2. p[0 + 1] = RuntimePlan[1] /\ p[0 + 2] = RuntimePlan[2] /\ p[0 + 3] = RuntimePlan[3]
    BY <2>1 DEF At
  <2>3. p[1] = RuntimePlan[1] /\ p[2] = RuntimePlan[2] /\ p[3] = RuntimePlan[3]
    BY <2>2
  <2> QED
    BY <2>3, RuntimeIs, Zenon DEF DockerNeeds
<1>2. Fields(p, 1, {}, {"docker"}, {}, {}) /\ Fields(p, 2, {}, DockerUnits, {}, {})
      /\ Fields(p, 3, DockerNeeds, {"docker up"}, {}, {})
  BY <1>1, FieldsOf, Zenon
<1>3. Quiet(p, 1)
  <2>1. {"docker"} # {"kubelet.conf"} /\ {"docker"} \cap {"apiserver up", Gen, "posted"} = {}
    BY CalmIs, Zenon DEF Calm
  <2> QED
    BY <1>2, <2>1, QuietBy, Zenon
<1>4. Quiet(p, 2)
  <2>1. DockerUnits # {"kubelet.conf"} /\ DockerUnits \cap {"apiserver up", Gen, "posted"} = {}
    BY DEF DockerUnits, Gen
  <2> QED
    BY <1>2, <2>1, QuietBy, Zenon
<1>5. Quiet(p, 3)
  <2>1. 3 \in Nat /\ 1 \in 1..(3 - 1) /\ 2 \in 1..(3 - 1) /\ \A i \in 1..(3 - 1) : i = 1 \/ i = 2
    OBVIOUS
  <2>2. \A i \in 1..(3 - 1) : Quiet(p, i)
    BY <1>3, <1>4, <2>1
  <2>3. WritesAt(p, 1) = {"docker"} /\ WritesAt(p, 2) = DockerUnits
    BY <1>2, Zenon DEF Fields
  <2>4. {"docker"} \subseteq Written(p, 3) /\ Gen \notin {"docker"}
    BY <2>1, <2>2, <2>3, CalmIs, QuietWrote, Zenon
  <2>5. DockerUnits \subseteq Written(p, 3) /\ Gen \notin DockerUnits
    BY <2>1, <2>2, <2>3, CalmIs, QuietWrote, Zenon
  <2>6. DockerNeeds \subseteq {"docker"} \cup DockerUnits
    BY DEF DockerNeeds, DockerUnits
  <2>7. {"docker up"} # {"kubelet.conf"} /\ {"docker up"} \cap {"apiserver up", Gen, "posted"} = {}
    BY CalmIs, Zenon DEF Calm
  <2> QED
    BY <1>2, <2>4, <2>5, <2>6, <2>7, QuietBy, Zenon
<1>6. \A k \in 1..3 : k = 1 \/ k = 2 \/ k = 3
  OBVIOUS
<1>7. WritesAt(p, 3) = {"docker up"}
  BY <1>2, Zenon DEF Fields
<1> QED
  BY <1>3, <1>4, <1>5, <1>6, <1>7, Zenon

KubeletNeeds == {"kubernetes", "kubelet.service"}
ServeNeeds == SignedFiles \cup {"kubelet up", "docker up"}
PostNeeds == {"kubernetes", "admin.conf", "admin.local", "apiserver up"}

LEMMA MasterAt ==
  ASSUME NEW p, NEW d \in Nat, At(p, d, MasterPlan)
  PROVE  /\ p[d + 1] = Packages /\ p[d + 2] = Stage({}, CaFiles) /\ p[d + 3] = Forget
         /\ p[d + 4] = KubeletUnit /\ p[d + 5] = KubeletUp /\ p[d + 6] = Stage({}, {"kubeadm.conf"})
         /\ p[d + 7] = Sign /\ p[d + 8] = Serve /\ p[d + 9] = Stage({}, {"cloud-controller-manager.conf"})
         /\ p[d + 10] = Stage({}, {Gen}) /\ p[d + 11] = Stage({}, {"admin.local"}) /\ p[d + 12] = Post
<1>1. p[d + 1] = << Packages >>[1]
  <2>1. Len(<< Packages >>) = 1
    BY InitIs, Zenon
  <2>2. At(p, d, << Packages >>)
    BY MasterIs
  <2>3. p[d + 1] = << Packages >>[1]
    BY <2>1, <2>2 DEF At
  <2> QED
    BY <2>3
<1>2. p[d + 2] = KubeletPlan("Master")[1] /\ p[d + 3] = KubeletPlan("Master")[2]
      /\ p[d + 4] = KubeletPlan("Master")[3] /\ p[d + 5] = KubeletPlan("Master")[4]
  <2>1. Len(KubeletPlan("Master")) = 4
    BY KubeletIs, Zenon
  <2>2. At(p, d + 1, KubeletPlan("Master"))
    BY MasterIs
  <2>3. p[(d + 1) + 1] = KubeletPlan("Master")[1] /\ p[(d + 1) + 2] = KubeletPlan("Master")[2]
        /\ p[(d + 1) + 3] = KubeletPlan("Master")[3] /\ p[(d + 1) + 4] = KubeletPlan("Master")[4]
    BY <2>1, <2>2 DEF At
  <2>4. (d + 1) + 1 = d + 2 /\ (d + 1) + 2 = d + 3 /\ (d + 1) + 3 = d + 4 /\ (d + 1) + 4 = d + 5
    OBVIOUS
  <2> QED
    BY <2>3, <2>4, Zenon
<1>3. p[d + 6] = InitPlan[1] /\ p[d + 7] = InitPlan[2] /\ p[d + 8] = InitPlan[3]
  <2>1. Len(InitPlan) = 3
    BY InitIs, Zenon
  <2>2. At(p, d + 5, InitPlan)
    BY MasterIs
  <2>3. p[(d + 5) + 1] = InitPlan[1] /\ p[(d + 5) + 2] = InitPlan[2] /\ p[(d + 5) + 3] = InitPlan[3]
    BY <2>1, <2>2 DEF At
  <2>4. (d + 5) + 1 = d + 6 /\ (d + 5) + 2 = d + 7 /\ (d + 5) + 3 = d + 8
    OBVIOUS
  <2> QED
    BY <2>3, <2>4, Zenon
<1>4. p[d + 9] = CcmPlan[1]
  <2>1. Len(CcmPlan) = 1
    BY InitIs, Zenon
  <2>2. At(p, d + 8, CcmPlan)
    BY MasterIs
  <2>3. p[(d + 8) + 1] = CcmPlan[1]
    BY <2>1, <2>2 DEF At
  <2>4. (d + 8) + 1 = d + 9
    OBVIOUS
  <2> QED
    BY <2>3, <2>4, Zenon
<1>5. p[d + 10] = KubeAuthPlan[1] /\ p[d + 11] = KubeAuthPlan[2]
  <2>1. Len(KubeAuthPlan) = 2
    BY InitIs, Zenon
  <2>2. At(p, d + 9, KubeAuthPlan)
    BY MasterIs
  <2>3. p[(d + 9) + 1] = KubeAuthPlan[1] /\ p[(d + 9) + 2] = KubeAuthPlan[2]
    BY <2>1, <2>2 DEF At
  <2>4. (d + 9) + 1 = d + 10 /\ (d + 9) + 2 = d + 11
    OBVIOUS
  <2> QED
    BY <2>3, <2>4, Zenon
<1>6. p[d + 12] = PostPlan[1]
  <2>1. Len(PostPlan) = 1
    BY InitIs, Zenon
  <2>2. At(p, d + 11, PostPlan)
    BY MasterIs
  <2>3. p[(d + 11) + 1] = PostPlan[1]
    BY <2>1, <2>2 DEF At
  <2>4. (d + 11) + 1 = d + 12
    OBVIOUS
  <2> QED
    BY <2>3, <2>4, Zenon
<1>7. p[d + 2] = Stage({}, CaFiles) /\ p[d + 3] = Forget /\ p[d + 4] = KubeletUnit /\ p[d + 5] = KubeletUp
  BY <1>2, KubeletIs, Zenon
<1>8. p[d + 1] = Packages /\ p[d + 6] = Stage({}, {"kubeadm.conf"}) /\ p[d + 7] = Sign /\ p[d + 8] = Serve
  BY <1>1, <1>3, InitIs, Zenon
<1>9. p[d + 9] = Stage({}, {"cloud-controller-manager.conf"}) /\ p[d + 10] = Stage({}, {Gen})
      /\ p[d + 11] = Stage({}, {"admin.local"}) /\ p[d + 12] = Post
  BY <1>4, <1>5, <1>6, InitIs, Zenon
<1> QED
  BY <1>7, <1>8, <1>9, Zenon

LEMMA EtcdOK ==
  ASSUME NEW p, At(p, 0, RuntimePlan), At(p, 3, EtcdPlan)
  PROVE  /\ \A k \in 1..7 : Quiet(p, k)
         /\ WritesAt(p, 3) = {"docker up"} /\ WritesAt(p, 5) = EtcdCerts
<1>1. p[4] = Stage({}, {"etcd"}) /\ p[5] = Stage({}, EtcdCerts) /\ p[6] = Stage({}, {"etcd.service"})
      /\ p[7] = Stage(EtcdNeeds, {"etcd up"})
  <2>1. Len(EtcdPlan) = 4
    BY EtcdIs, Zenon
  <2>2. p[3 + 1] = EtcdPlan[1] /\ p[3 + 2] = EtcdPlan[2] /\ p[3 + 3] = EtcdPlan[3] /\ p[3 + 4] = EtcdPlan[4]
    BY <2>1 DEF At
  <2>3. p[4] = EtcdPlan[1] /\ p[5] = EtcdPlan[2] /\ p[6] = EtcdPlan[3] /\ p[7] = EtcdPlan[4]
    BY <2>2
  <2> QED
    BY <2>3, EtcdIs, Zenon DEF EtcdNeeds
<1>2. Fields(p, 4, {}, {"etcd"}, {}, {}) /\ Fields(p, 5, {}, EtcdCerts, {}, {})
      /\ Fields(p, 6, {}, {"etcd.service"}, {}, {}) /\ Fields(p, 7, EtcdNeeds, {"etcd up"}, {}, {})
  BY <1>1, FieldsOf, Zenon
<1>3. Quiet(p, 4)
  <2>1. {"etcd"} # {"kubelet.conf"} /\ {"etcd"} \cap {"apiserver up", Gen, "posted"} = {}
    BY CalmIs, Zenon DEF Calm
  <2> QED
    BY <1>2, <2>1, QuietBy, Zenon
<1>4. Quiet(p, 5)
  <2>1. EtcdCerts # {"kubelet.conf"} /\ EtcdCerts \cap {"apiserver up", Gen, "posted"} = {}
    BY DEF EtcdCerts, PeerCerts, ServerCerts, ClientCerts, Gen
  <2> QED
    BY <1>2, <2>1, QuietBy, Zenon
<1>5. Quiet(p, 6)
  <2>1. {"etcd.service"} # {"kubelet.conf"} /\ {"etcd.service"} \cap {"apiserver up", Gen, "posted"} = {}
    BY CalmIs, Zenon DEF Calm
  <2> QED
    BY <1>2, <2>1, QuietBy, Zenon
<1>6. Quiet(p, 7)
  <2>1. 7 \in Nat /\ 4 \in 1..(7 - 1) /\ 5 \in 1..(7 - 1) /\ 6 \in 1..(7 - 1)
        /\ \A i \in 1..(7 - 1) : i \in 1..3 \/ i = 4 \/ i = 5 \/ i = 6
    OBVIOUS
  <2>2. \A i \in 1..(7 - 1) : Quiet(p, i)
    BY <1>3, <1>4, <1>5, <2>1, RuntimeOK, Zenon
  <2>3. WritesAt(p, 4) = {"etcd"} /\ WritesAt(p, 5) = EtcdCerts /\ WritesAt(p, 6) = {"etcd.service"}
    BY <1>2, Zenon DEF Fields
  <2>4. {"etcd"} \subseteq Written(p, 7) /\ Gen \notin {"etcd"}
    BY <2>1, <2>2, <2>3, CalmIs, QuietWrote, Zenon
  <2>5. EtcdCerts \subseteq Written(p, 7) /\ Gen \notin EtcdCerts
    BY <2>1, <2>2, <2>3, CalmIs, QuietWrote, Zenon
  <2>6. {"etcd.service"} \subseteq Written(p, 7) /\ Gen \notin {"etcd.service"}
    BY <2>1, <2>2, <2>3, CalmIs, QuietWrote, Zenon
  <2>7. {"etcd up"} # {"kubelet.conf"} /\ {"etcd up"} \cap {"apiserver up", Gen, "posted"} = {}
    BY CalmIs, Zenon DEF Calm
  <2>8. EtcdNeeds \subseteq Written(p, 7) /\ Gen \notin EtcdNeeds
    BY <2>4, <2>5, <2>6 DEF EtcdNeeds
  <2> QED
    BY <1>2, <2>7, <2>8, QuietBy, Zenon
<1>7. \A k \in 1..7 : k \in 1..3 \/ k = 4 \/ k = 5 \/ k = 6 \/ k = 7
  OBVIOUS
<1>8. WritesAt(p, 5) = EtcdCerts
  BY <1>2, Zenon DEF Fields
<1> QED
  BY <1>3, <1>4, <1>5, <1>6, <1>7, <1>8, RuntimeOK, Zenon

LEMMA MasterFields ==
  ASSUME NEW p, NEW d \in Nat, At(p, d, MasterPlan)
  PROVE  /\ Fields(p, d + 1, {}, {"kubernetes", "cni"}, {}, {}) /\ Fields(p, d + 2, {}, CaFiles, {}, {})
         /\ Fields(p, d + 3, {}, {}, SignedFiles, {}) /\ Fields(p, d + 4, {}, {"kubelet.service"}, {}, {})
         /\ Fields(p, d + 5, KubeletNeeds, {"kubelet up"}, {}, {}) /\ Fields(p, d + 6, {}, {"kubeadm.conf"}, {}, {})
         /\ Fields(p, d + 7, InitNeeds, SignedFiles, {}, SignedFiles)
         /\ Fields(p, d + 8, ServeNeeds, {"apiserver up"}, {}, {})
         /\ Fields(p, d + 9, {}, {"cloud-controller-manager.conf"}, {}, {})
         /\ Fields(p, d + 10, {}, {Gen}, {}, {}) /\ Fields(p, d + 11, {}, {"admin.local"}, {}, {})
         /\ Fields(p, d + 12, PostNeeds, {"posted"}, {}, {})
<1>1. p[d + 1] = Stage({}, {"kubernetes", "cni"}) /\ p[d + 4] = Stage({}, {"kubelet.service"})
  BY MasterAt, Zenon DEF Packages, KubeletUnit
<1>2. p[d + 5] = Stage(KubeletNeeds, {"kubelet up"}) /\ p[d + 8] = Stage(ServeNeeds, {"apiserver up"})
      /\ p[d + 12] = Stage(PostNeeds, {"posted"})
  BY MasterAt, Zenon DEF KubeletUp, Serve, Post, KubeletNeeds, ServeNeeds, PostNeeds
<1>3. Fields(p, d + 1, {}, {"kubernetes", "cni"}, {}, {}) /\ Fields(p, d + 4, {}, {"kubelet.service"}, {}, {})
  BY <1>1, FieldsOf, Zenon
<1>4. Fields(p, d + 5, KubeletNeeds, {"kubelet up"}, {}, {}) /\ Fields(p, d + 8, ServeNeeds, {"apiserver up"}, {}, {})
      /\ Fields(p, d + 12, PostNeeds, {"posted"}, {}, {})
  BY <1>2, FieldsOf, Zenon
<1>5. Fields(p, d + 2, {}, CaFiles, {}, {}) /\ Fields(p, d + 3, {}, {}, SignedFiles, {})
      /\ Fields(p, d + 6, {}, {"kubeadm.conf"}, {}, {})
  BY MasterAt, FieldsOf, Zenon
<1>6. Fields(p, d + 7, InitNeeds, SignedFiles, {}, SignedFiles)
      /\ Fields(p, d + 9, {}, {"cloud-controller-manager.conf"}, {}, {})
      /\ Fields(p, d + 10, {}, {Gen}, {}, {}) /\ Fields(p, d + 11, {}, {"admin.local"}, {}, {})
  BY MasterAt, FieldsOf, Zenon
<1> QED
  BY <1>3, <1>4, <1>5, <1>6, Zenon

\* A stage of a host that does not join a cluster.
MasterStage(p, k) == StageOK(p, k) /\ WritesAt(p, k) # {"kubelet.conf"}

LEMMA MasterPlaces ==
  ASSUME NEW d \in Nat
  PROVE  \A i \in 1..(d + 12) :
           \/ i \in 1..d \/ i = d + 1 \/ i = d + 2 \/ i = d + 3 \/ i = d + 4 \/ i = d + 5 \/ i = d + 6
           \/ i = d + 7 \/ i = d + 8 \/ i = d + 9 \/ i = d + 10 \/ i = d + 11 \/ i = d + 12
  OBVIOUS

\* Only the kubelet action removes files, before kubeadm signs them.
LEMMA MasterRemoves ==
  ASSUME NEW p, NEW d \in Nat, At(p, d, MasterPlan), \A k \in 1..d : Quiet(p, k)
  PROVE  \A i \in 1..(d + 12) : RemovesAt(p, i) \subseteq SignedFiles /\ (i > d + 3 => RemovesAt(p, i) = {})
<1>1. /\ RemovesAt(p, d + 1) = {} /\ RemovesAt(p, d + 2) = {} /\ RemovesAt(p, d + 3) = SignedFiles
      /\ RemovesAt(p, d + 4) = {} /\ RemovesAt(p, d + 5) = {} /\ RemovesAt(p, d + 6) = {}
      /\ RemovesAt(p, d + 7) = {} /\ RemovesAt(p, d + 8) = {} /\ RemovesAt(p, d + 9) = {}
      /\ RemovesAt(p, d + 10) = {} /\ RemovesAt(p, d + 11) = {} /\ RemovesAt(p, d + 12) = {}
  BY MasterFields, Zenon DEF Fields
<1>2. \A i \in 1..d : RemovesAt(p, i) = {}
  BY DEF Quiet
<1>3. ASSUME NEW i \in 1..(d + 12) PROVE RemovesAt(p, i) = {} \/ (i = d + 3 /\ RemovesAt(p, i) = SignedFiles)
  BY <1>1, <1>2, MasterPlaces
<1> QED
  BY <1>3

\* What the stages of a master have written before stage k.
LEMMA MasterWrote ==
  ASSUME NEW p, NEW d \in Nat, At(p, d, MasterPlan), \A k \in 1..d : Quiet(p, k), NEW k \in (d + 1)..(d + 12)
  PROVE  /\ \A j \in 1..(k - 1) : Calm(WritesAt(p, j)) => WritesAt(p, j) \subseteq Written(p, k)
         /\ k >= d + 2 => "kubernetes" \in Written(p, k)
         /\ k >= d + 3 => CaFiles \subseteq Written(p, k)
         /\ k >= d + 5 => "kubelet.service" \in Written(p, k)
         /\ k >= d + 6 => "kubelet up" \in Written(p, k)
         /\ k >= d + 7 => "kubeadm.conf" \in Written(p, k)
         /\ k >= d + 8 => SignedFiles \subseteq Written(p, k)
         /\ k >= d + 9 => "apiserver up" \in Written(p, k)
         /\ k >= d + 11 => Gen \in Written(p, k)
         /\ k >= d + 12 => "admin.local" \in Written(p, k)
<1>1. k \in Nat /\ \A i \in 1..(k - 1) : RemovesAt(p, i) \subseteq SignedFiles /\ (i > d + 3 => RemovesAt(p, i) = {})
  BY MasterRemoves
<1>2. ASSUME NEW j \in 1..(k - 1), NEW x, x \subseteq WritesAt(p, j), x \subseteq Files, x \cap SignedFiles = {}
      PROVE  x \subseteq Written(p, k)
  <2>1. j \in Nat /\ 1 <= j /\ j < k
    BY <1>1
  <2> QED
    BY <1>1, <1>2, <2>1, WrittenAt
<1>3. \A j \in 1..(k - 1) : Calm(WritesAt(p, j)) => WritesAt(p, j) \subseteq Written(p, k)
  BY <1>2, Zenon DEF Calm
<1>4. /\ WritesAt(p, d + 1) = {"kubernetes", "cni"} /\ WritesAt(p, d + 2) = CaFiles
      /\ WritesAt(p, d + 4) = {"kubelet.service"} /\ WritesAt(p, d + 5) = {"kubelet up"}
      /\ WritesAt(p, d + 6) = {"kubeadm.conf"} /\ WritesAt(p, d + 7) = SignedFiles
      /\ WritesAt(p, d + 8) = {"apiserver up"} /\ WritesAt(p, d + 10) = {Gen}
      /\ WritesAt(p, d + 11) = {"admin.local"}
  <2>1. \A k1, x, w, r, q : Fields(p, k1, x, w, r, q) => WritesAt(p, k1) = w
    BY DEF Fields
  <2> QED
    BY <2>1, MasterFields, Zenon
<1>5. k >= d + 2 => "kubernetes" \in Written(p, k)
  <2>1. k >= d + 2 => d + 1 \in 1..(k - 1)
    BY <1>1
  <2>2. Calm(WritesAt(p, d + 1)) /\ "kubernetes" \in WritesAt(p, d + 1)
    BY <1>4, CalmIs, Zenon
  <2> QED
    BY <1>3, <2>1, <2>2
<1>6. k >= d + 3 => CaFiles \subseteq Written(p, k)
  <2>1. k >= d + 3 => d + 2 \in 1..(k - 1)
    BY <1>1
  <2>2. Calm(WritesAt(p, d + 2)) /\ CaFiles = WritesAt(p, d + 2)
    BY <1>4, CalmIs, Zenon
  <2> QED
    BY <1>3, <2>1, <2>2
<1>7. k >= d + 5 => "kubelet.service" \in Written(p, k)
  <2>1. k >= d + 5 => d + 4 \in 1..(k - 1)
    BY <1>1
  <2>2. Calm(WritesAt(p, d + 4)) /\ "kubelet.service" \in WritesAt(p, d + 4)
    BY <1>4, CalmIs, Zenon
  <2> QED
    BY <1>3, <2>1, <2>2
<1>8. k >= d + 6 => "kubelet up" \in Written(p, k)
  <2>1. k >= d + 6 => d + 5 \in 1..(k - 1)
    BY <1>1
  <2>2. Calm(WritesAt(p, d + 5)) /\ "kubelet up" \in WritesAt(p, d + 5)
    BY <1>4, CalmIs, Zenon
  <2> QED
    BY <1>3, <2>1, <2>2, Zenon
<1>9. k >= d + 7 => "kubeadm.conf" \in Written(p, k)
  <2>1. k >= d + 7 => d + 6 \in 1..(k - 1)
    BY <1>1
  <2>2. Calm(WritesAt(p, d + 6)) /\ "kubeadm.conf" \in WritesAt(p, d + 6)
    BY <1>4, CalmIs, Zenon
  <2> QED
    BY <1>3, <2>1, <2>2
<1>10. k >= d + 8 => SignedFiles \subseteq Written(p, k)
  <2>1. k >= d + 8 => d + 7 \in 1..(k - 1) /\ \A i \in 1..(k - 1) : i > d + 7 => RemovesAt(p, i) = {}
    BY <1>1
  <2>2. SignedFiles \subseteq Files
    BY Zenon DEF Files, Signed
  <2> QED
    BY <1>4, <2>1, <2>2, Zenon DEF Written
<1>11. k >= d + 9 => "apiserver up" \in Written(p, k)
  <2>1. k >= d + 9 => d + 8 \in 1..(k - 1)
    BY <1>1
  <2>2. {"apiserver up"} \subseteq Files /\ {"apiserver up"} \cap SignedFiles = {}
    BY DEF Files, SignedFiles, SignedPairs
  <2> QED
    BY <1>2, <1>4, <2>1, <2>2, Zenon
<1>12. k >= d + 11 => Gen \in Written(p, k)
  <2>1. k >= d + 11 => d + 10 \in 1..(k - 1)
    BY <1>1
  <2>2. {Gen} \subseteq Files /\ {Gen} \cap SignedFiles = {}
    BY DEF Files, Signed, SignedFiles, SignedPairs, Gen
  <2> QED
    BY <1>2, <1>4, <2>1, <2>2, Zenon
<1>13. k >= d + 12 => "admin.local" \in Written(p, k)
  <2>1. k >= d + 12 => d + 11 \in 1..(k - 1)
    BY <1>1
  <2>2. Calm(WritesAt(p, d + 11)) /\ "admin.local" \in WritesAt(p, d + 11)
    BY <1>4, CalmIs, Zenon
  <2> QED
    BY <1>3, <2>1, <2>2
<1> QED
  BY <1>3, <1>5, <1>6, <1>7, <1>8, <1>9, <1>10, <1>11, <1>12, <1>13, Zenon

Docker == {"docker up"}

LEMMA MasterOK ==
  ASSUME NEW p, NEW d \in Nat, At(p, d, MasterPlan), \A k \in 1..d : Quiet(p, k),
         NEW c \in 1..d, WritesAt(p, c) = Docker
  PROVE  /\ \A k \in 1..(d + 12) : MasterStage(p, k)
         /\ \A j \in 1..d : WritesAt(p, j) = EtcdCerts => \A k \in 1..(d + 12) : NeedsOK(p, k)
<1>1. ASSUME NEW k \in (d + 1)..(d + 12) PROVE "docker up" \in Written(p, k)
  <2>1. c \in 1..(k - 1)
    OBVIOUS
  <2> QED
    BY <2>1, MasterWrote, CalmIs, Zenon DEF Docker
<1>2. Quiet(p, d + 1)
  <2>1. {"kubernetes", "cni"} # {"kubelet.conf"} /\ {"kubernetes", "cni"} \cap {"apiserver up", Gen, "posted"} = {}
    BY CalmIs, Zenon DEF Calm
  <2> QED
    BY <2>1, MasterFields, QuietBy, Zenon
<1>3. Quiet(p, d + 2)
  <2>1. CaFiles # {"kubelet.conf"} /\ CaFiles \cap {"apiserver up", Gen, "posted"} = {}
    BY DEF CaFiles, Gen
  <2> QED
    BY <2>1, MasterFields, QuietBy, Zenon
<1>4. MasterStage(p, d + 3) /\ NeedsOK(p, d + 3)
  <2>1. /\ NeedsAt(p, d + 3) = {} /\ WritesAt(p, d + 3) = {} /\ RemovesAt(p, d + 3) = SignedFiles
        /\ KeepsAt(p, d + 3) = {}
    BY MasterFields, Zenon DEF Fields
  <2>2. WritesAt(p, d + 3) # {"kubelet.conf"} /\ WritesAt(p, d + 3) \cap {"apiserver up", Gen} = {}
        /\ "posted" \notin WritesAt(p, d + 3)
    BY <2>1, Zenon
  <2> QED
    BY <2>1, <2>2, Zenon DEF MasterStage, StageOK, NeedsOK
<1>5. Quiet(p, d + 4)
  <2>1. {"kubelet.service"} # {"kubelet.conf"} /\ {"kubelet.service"} \cap {"apiserver up", Gen, "posted"} = {}
    BY CalmIs, Zenon DEF Calm
  <2> QED
    BY <2>1, MasterFields, QuietBy, Zenon
<1>6. Quiet(p, d + 5)
  <2>1. {"kubelet up"} # {"kubelet.conf"} /\ {"kubelet up"} \cap {"apiserver up", Gen, "posted"} = {}
        /\ Gen \notin KubeletNeeds
    BY CalmIs, Zenon DEF Calm, KubeletNeeds, Gen
  <2>2. d + 5 \in (d + 1)..(d + 12) /\ d + 5 >= d + 2 /\ d + 5 >= d + 5
    OBVIOUS
  <2>3. KubeletNeeds \subseteq Written(p, d + 5)
    BY <2>2, MasterWrote, Zenon DEF KubeletNeeds
  <2> QED
    BY <2>1, <2>3, MasterFields, QuietBy, Zenon
<1>7. Quiet(p, d + 6)
  <2>1. {"kubeadm.conf"} # {"kubelet.conf"} /\ {"kubeadm.conf"} \cap {"apiserver up", Gen, "posted"} = {}
    BY CalmIs, Zenon DEF Calm
  <2> QED
    BY <2>1, MasterFields, QuietBy, Zenon
<1>8. MasterStage(p, d + 7) /\ (KubeadmEtcd \subseteq Written(p, d + 7) => NeedsOK(p, d + 7))
  <2>1. /\ NeedsAt(p, d + 7) = InitNeeds /\ WritesAt(p, d + 7) = SignedFiles /\ RemovesAt(p, d + 7) = {}
    BY MasterFields, ZenonT(20) DEF Fields
  <2>2. SignedFiles # {"kubelet.conf"} /\ SignedFiles \cap {"apiserver up", Gen} = {} /\ "posted" \notin SignedFiles
        /\ SignedFiles \subseteq Files
    BY DEF SignedFiles, SignedPairs, Gen, Files, Signed
  <2>3. SignedFiles \subseteq Touched(p, d + 7)
    <3>1. RemovesAt(p, d + 3) = SignedFiles
      BY MasterFields, Zenon DEF Fields
    <3>2. d + 3 \in 1..((d + 7) - 1)
      OBVIOUS
    <3> QED
      BY <2>2, <3>1, <3>2, Zenon DEF Touched
  <2>4. d + 7 \in (d + 1)..(d + 12) /\ d + 7 >= d + 2 /\ d + 7 >= d + 3 /\ d + 7 >= d + 6 /\ d + 7 >= d + 7
    OBVIOUS
  <2>5. {"kubernetes", "kubeadm.conf", "kubelet up", "docker up"} \subseteq Written(p, d + 7)
        /\ CaFiles \subseteq Written(p, d + 7)
    BY <1>1, <2>4, MasterWrote, Zenon
  <2>6. Gen \notin InitNeeds
    BY DEF InitNeeds, Gen, CaFiles, KubeadmEtcd, ServerCerts, ClientCerts
  <2>7. KubeadmEtcd \subseteq Written(p, d + 7) => InitNeeds \subseteq Written(p, d + 7)
    BY <2>5, Zenon DEF InitNeeds
  <2> QED
    BY <2>1, <2>2, <2>3, <2>6, <2>7, Zenon DEF MasterStage, StageOK, NeedsOK
<1>9. MasterStage(p, d + 8) /\ NeedsOK(p, d + 8)
  <2>1. /\ NeedsAt(p, d + 8) = ServeNeeds /\ WritesAt(p, d + 8) = {"apiserver up"} /\ RemovesAt(p, d + 8) = {}
        /\ KeepsAt(p, d + 8) = {}
    BY MasterFields, Zenon DEF Fields
  <2>2. d + 8 \in (d + 1)..(d + 12) /\ d + 8 >= d + 3 /\ d + 8 >= d + 6 /\ d + 8 >= d + 8
    OBVIOUS
  <2>3. ServeNeeds \subseteq Written(p, d + 8)
    BY <1>1, <2>2, MasterWrote, Zenon DEF ServeNeeds
  <2>4. "ca" \in Written(p, d + 8)
    BY <2>2, MasterWrote, Zenon DEF CaFiles
  <2>5. Gen \notin ServeNeeds
    BY DEF ServeNeeds, SignedFiles, SignedPairs, Gen
  <2> QED
    BY <2>1, <2>3, <2>4, <2>5, Zenon DEF MasterStage, StageOK, NeedsOK
<1>10. Quiet(p, d + 9)
  <2>1. {"cloud-controller-manager.conf"} # {"kubelet.conf"}
        /\ {"cloud-controller-manager.conf"} \cap {"apiserver up", Gen, "posted"} = {}
    BY CalmIs, Zenon DEF Calm
  <2> QED
    BY <2>1, MasterFields, QuietBy, Zenon
<1>11. MasterStage(p, d + 10) /\ NeedsOK(p, d + 10)
  <2>1. /\ NeedsAt(p, d + 10) = {} /\ WritesAt(p, d + 10) = {Gen} /\ RemovesAt(p, d + 10) = {}
        /\ KeepsAt(p, d + 10) = {}
    BY MasterFields, Zenon DEF Fields
  <2>2. d + 10 \in (d + 1)..(d + 12) /\ d + 10 >= d + 3
    OBVIOUS
  <2>3. "ca" \in Written(p, d + 10)
    BY <2>2, MasterWrote, Zenon DEF CaFiles
  <2>4. {Gen} # {"kubelet.conf"} /\ "posted" \notin {Gen}
    BY DEF Gen
  <2> QED
    BY <2>1, <2>3, <2>4, Zenon DEF MasterStage, StageOK, NeedsOK
<1>12. Quiet(p, d + 11)
  <2>1. {"admin.local"} # {"kubelet.conf"} /\ {"admin.local"} \cap {"apiserver up", Gen, "posted"} = {}
    BY CalmIs, Zenon DEF Calm
  <2> QED
    BY <2>1, MasterFields, QuietBy, Zenon
<1>13. MasterStage(p, d + 12) /\ NeedsOK(p, d + 12)
  <2>1. /\ NeedsAt(p, d + 12) = PostNeeds /\ WritesAt(p, d + 12) = {"posted"} /\ RemovesAt(p, d + 12) = {}
        /\ KeepsAt(p, d + 12) = {}
    BY MasterFields, Zenon DEF Fields
  <2>2. d + 12 \in (d + 1)..(d + 12) /\ d + 12 >= d + 2 /\ d + 12 >= d + 3 /\ d + 12 >= d + 8 /\ d + 12 >= d + 9
        /\ d + 12 >= d + 11 /\ d + 12 >= d + 12
    OBVIOUS
  <2>3. PostNeeds \subseteq Written(p, d + 12)
    <3>1. "admin.conf" \in Written(p, d + 12)
      BY <2>2, MasterWrote, Zenon DEF SignedFiles
    <3> QED
      BY <2>2, <3>1, MasterWrote, Zenon DEF PostNeeds
  <2>4. "ca" \in Written(p, d + 12) /\ Gen \in Written(p, d + 12)
    BY <2>2, MasterWrote, Zenon DEF CaFiles
  <2>5. Gen \notin PostNeeds /\ {"posted"} # {"kubelet.conf"}
    BY DEF PostNeeds, Gen
  <2> QED
    BY <2>1, <2>3, <2>4, <2>5, Zenon DEF MasterStage, StageOK, NeedsOK
<1>14. \A k : Quiet(p, k) => MasterStage(p, k) /\ NeedsOK(p, k)
  BY DEF Quiet, MasterStage
<1>15. ASSUME NEW k \in 1..(d + 12) PROVE MasterStage(p, k) /\ (k = d + 7 \/ NeedsOK(p, k))
  BY <1>2, <1>3, <1>4, <1>5, <1>6, <1>7, <1>8, <1>9, <1>10, <1>11, <1>12, <1>13, <1>14, MasterPlaces
<1>16. ASSUME NEW j \in 1..d, WritesAt(p, j) = EtcdCerts PROVE NeedsOK(p, d + 7)
  <2>1. d + 7 \in (d + 1)..(d + 12) /\ j \in 1..((d + 7) - 1)
    OBVIOUS
  <2>2. EtcdCerts \subseteq Written(p, d + 7)
    BY <1>16, <2>1, MasterWrote, CalmIs, Zenon
  <2> QED
    BY <1>8, <2>2, CalmIs, Zenon
<1> QED
  BY <1>15, <1>16

JoinNeeds == {"kubernetes", "kubelet up", "docker up"}
JoinedNeeds == {"kubernetes", "kubelet.conf"}

LEMMA WorkerFields ==
  ASSUME NEW p, At(p, 3, WorkerPlan)
  PROVE  /\ Fields(p, 4, {}, {"kubernetes", "cni"}, {}, {}) /\ Fields(p, 5, {}, {"kubelet.service"}, {}, {})
         /\ Fields(p, 6, KubeletNeeds, {"kubelet up"}, {}, {})
         /\ Fields(p, 7, JoinNeeds, {"kubelet.conf"}, {}, {}) /\ Fields(p, 8, JoinedNeeds, {"joined"}, {}, {})
<1>1. At(p, 3, << Packages >>) /\ At(p, 3 + 1, KubeletPlan("Worker")) /\ At(p, 3 + 3, JoinPlan)
  BY WorkerIs
<1>2. p[4] = << Packages >>[1] /\ p[5] = KubeletPlan("Worker")[1] /\ p[6] = KubeletPlan("Worker")[2]
      /\ p[7] = JoinPlan[1] /\ p[8] = JoinPlan[2]
  <2>1. Len(<< Packages >>) = 1 /\ Len(KubeletPlan("Worker")) = 2 /\ Len(JoinPlan) = 2
    BY KubeletIs, InitIs, Zenon
  <2>2. p[3 + 1] = << Packages >>[1]
    BY <1>1, <2>1 DEF At
  <2>3. p[(3 + 1) + 1] = KubeletPlan("Worker")[1] /\ p[(3 + 1) + 2] = KubeletPlan("Worker")[2]
    BY <1>1, <2>1 DEF At
  <2>4. p[(3 + 3) + 1] = JoinPlan[1] /\ p[(3 + 3) + 2] = JoinPlan[2]
    BY <1>1, <2>1 DEF At
  <2> QED
    BY <2>2, <2>3, <2>4
<1>3. p[4] = Packages /\ p[5] = KubeletUnit /\ p[6] = KubeletUp /\ p[7] = Joining /\ p[8] = Joined
  BY <1>2, KubeletIs, InitIs, Zenon
<1>4. p[4] = Stage({}, {"kubernetes", "cni"}) /\ p[5] = Stage({}, {"kubelet.service"})
      /\ p[6] = Stage(KubeletNeeds, {"kubelet up"}) /\ p[7] = Stage(JoinNeeds, {"kubelet.conf"})
      /\ p[8] = Stage(JoinedNeeds, {"joined"})
  BY <1>3, Zenon DEF Packages, KubeletUnit, KubeletUp, Joining, Joined, KubeletNeeds, JoinNeeds, JoinedNeeds
<1> QED
  BY <1>4, FieldsOf, Zenon

LEMMA WorkerOK ==
  ASSUME NEW p, At(p, 0, RuntimePlan), At(p, 3, WorkerPlan)
  PROVE  \A k \in 1..8 : StageOK(p, k) /\ NeedsOK(p, k)
<1>1. \A k : Quiet(p, k) => StageOK(p, k) /\ NeedsOK(p, k)
  BY DEF Quiet
<1>2. Quiet(p, 4)
  <2>1. {"kubernetes", "cni"} # {"kubelet.conf"} /\ {"kubernetes", "cni"} \cap {"apiserver up", Gen, "posted"} = {}
    BY CalmIs, Zenon DEF Calm
  <2> QED
    BY <2>1, WorkerFields, QuietBy, Zenon
<1>3. Quiet(p, 5)
  <2>1. {"kubelet.service"} # {"kubelet.conf"} /\ {"kubelet.service"} \cap {"apiserver up", Gen, "posted"} = {}
    BY CalmIs, Zenon DEF Calm
  <2> QED
    BY <2>1, WorkerFields, QuietBy, Zenon
<1>4. WritesAt(p, 4) = {"kubernetes", "cni"} /\ WritesAt(p, 5) = {"kubelet.service"} /\ WritesAt(p, 6) = {"kubelet up"}
      /\ WritesAt(p, 7) = {"kubelet.conf"}
  BY WorkerFields, Zenon DEF Fields
<1>5. Quiet(p, 6)
  <2>1. 6 \in Nat /\ 4 \in 1..(6 - 1) /\ 5 \in 1..(6 - 1) /\ \A i \in 1..(6 - 1) : i \in 1..3 \/ i = 4 \/ i = 5
    OBVIOUS
  <2>2. \A i \in 1..(6 - 1) : Quiet(p, i)
    BY <1>2, <1>3, <2>1, RuntimeOK, Zenon
  <2>3. {"kubernetes", "cni"} \subseteq Written(p, 6) /\ {"kubelet.service"} \subseteq Written(p, 6)
    BY <1>4, <2>1, <2>2, CalmIs, QuietWrote, Zenon
  <2>4. KubeletNeeds \subseteq Written(p, 6) /\ Gen \notin KubeletNeeds
    BY <2>3 DEF KubeletNeeds, Gen
  <2>5. {"kubelet up"} # {"kubelet.conf"} /\ {"kubelet up"} \cap {"apiserver up", Gen, "posted"} = {}
    BY CalmIs, Zenon DEF Calm
  <2> QED
    BY <2>4, <2>5, WorkerFields, QuietBy, Zenon
<1>6. StageOK(p, 7) /\ NeedsOK(p, 7)
  <2>1. 7 \in Nat /\ 3 \in 1..(7 - 1) /\ 4 \in 1..(7 - 1) /\ 6 \in 1..(7 - 1)
        /\ \A i \in 1..(7 - 1) : i \in 1..3 \/ i = 4 \/ i = 5 \/ i = 6
    OBVIOUS
  <2>2. \A i \in 1..(7 - 1) : Quiet(p, i)
    BY <1>2, <1>3, <1>5, <2>1, RuntimeOK, Zenon
  <2>3. {"kubernetes", "cni"} \subseteq Written(p, 7) /\ {"kubelet up"} \subseteq Written(p, 7)
    BY <1>4, <2>1, <2>2, CalmIs, QuietWrote, Zenon
  <2>4. {"docker up"} \subseteq Written(p, 7)
    BY <2>1, <2>2, RuntimeOK, CalmIs, QuietWrote, Zenon
  <2>5. JoinNeeds \subseteq Written(p, 7) /\ Gen \notin JoinNeeds
    BY <2>3, <2>4, Zenon DEF JoinNeeds, Gen
  <2>6. NeedsAt(p, 7) = JoinNeeds /\ WritesAt(p, 7) = {"kubelet.conf"} /\ RemovesAt(p, 7) = {} /\ KeepsAt(p, 7) = {}
    BY WorkerFields, Zenon DEF Fields
  <2>7. {"kubelet.conf"} \cap {"apiserver up", Gen} = {} /\ "posted" \notin {"kubelet.conf"}
    BY DEF Gen
  <2> QED
    BY <2>5, <2>6, <2>7, Zenon DEF StageOK, NeedsOK
<1>7. Quiet(p, 8)
  <2>1. 7 \in 1..(8 - 1) /\ 4 \in 1..(8 - 1) /\ \A i \in 1..(8 - 1) : i \in 1..3 \/ i = 4 \/ i = 5 \/ i = 6 \/ i = 7
    OBVIOUS
  <2>2. RemovesAt(p, 7) = {}
    BY WorkerFields, Zenon DEF Fields
  <2>3. \A i \in 1..3 : RemovesAt(p, i) = {}
    BY RuntimeOK, Zenon DEF Quiet
  <2>4. RemovesAt(p, 4) = {} /\ RemovesAt(p, 5) = {} /\ RemovesAt(p, 6) = {}
    BY <1>2, <1>3, <1>5 DEF Quiet
  <2>5. \A i \in 1..(8 - 1) : RemovesAt(p, i) = {}
    BY <2>1, <2>2, <2>3, <2>4
  <2>6. "kubernetes" \in Files /\ "kubelet.conf" \in Files
    BY DEF Files, Signed, SignedFiles
  <2>7. "kubernetes" \in Written(p, 8) /\ "kubelet.conf" \in Written(p, 8)
    BY <1>4, <2>1, <2>5, <2>6, Zenon DEF Written
  <2>8. JoinedNeeds \subseteq Written(p, 8) /\ Gen \notin JoinedNeeds
    BY <2>7 DEF JoinedNeeds, Gen
  <2>9. {"joined"} # {"kubelet.conf"} /\ {"joined"} \cap {"apiserver up", Gen, "posted"} = {}
    BY CalmIs, Zenon DEF Calm
  <2> QED
    BY <2>8, <2>9, WorkerFields, QuietBy, Zenon
<1>8. \A k \in 1..8 : k \in 1..3 \/ k = 4 \/ k = 5 \/ k = 6 \/ k = 7 \/ k = 8
  OBVIOUS
<1> QED
  BY <1>1, <1>2, <1>3, <1>5, <1>6, <1>7, <1>8, RuntimeOK, Zenon

\* What the plans of all roles guarantee.
LEMMA PlanOK ==
  ASSUME NEW r \in Roles
  PROVE  /\ Len(Plan[r]) \in Nat \ {0}
         /\ \A k \in 1..Len(Plan[r]) :
              /\ Plan[r][k] \in Stages /\ StageOK(Plan[r], k)
              /\ r # "Master" => NeedsOK(Plan[r], k)
              /\ r # "Worker" => WritesAt(Plan[r], k) # {"kubelet.conf"}
<1>1. \A p, k : Quiet(p, k) => MasterStage(p, k) /\ NeedsOK(p, k)
  BY DEF Quiet, MasterStage
<1>2. \A k \in 1..Len(Plan[r]) : Plan[r][k] \in Stages
  <2>1. Plan[r] \in Seq(Stages)
    BY PlanIs
  <2> QED
    BY <2>1
<1>3. CASE r = "Etcd"
  <2>1. Len(Plan["Etcd"]) = 7 /\ \A k \in 1..7 : Quiet(Plan["Etcd"], k)
    BY PlanIs, EtcdOK, Zenon DEF Roles
  <2> QED
    BY <1>1, <1>2, <1>3, <2>1 DEF MasterStage
<1>4. CASE r = "Worker"
  <2>1. Len(Plan["Worker"]) = 8 /\ \A k \in 1..8 : StageOK(Plan["Worker"], k) /\ NeedsOK(Plan["Worker"], k)
    BY PlanIs, WorkerOK DEF Roles
  <2> QED
    BY <1>2, <1>4, <2>1
<1>5. CASE r = "Master"
  <2>1. At(Plan["Master"], 0, RuntimePlan) /\ At(Plan["Master"], 3, MasterPlan)
    BY PlanIs DEF Roles
  <2>2. (\A k \in 1..3 : Quiet(Plan["Master"], k)) /\ WritesAt(Plan["Master"], 3) = Docker
    BY <2>1, RuntimeOK, Zenon DEF Docker
  <2>3. 3 \in Nat /\ 3 \in 1..3 /\ 3 + 12 = 15
    OBVIOUS
  <2>4. \A k \in 1..(3 + 12) : MasterStage(Plan["Master"], k)
    BY <2>1, <2>2, <2>3, MasterOK
  <2>5. Len(Plan["Master"]) = 15
    BY PlanIs
  <2> QED
    BY <1>2, <1>5, <2>3, <2>4, <2>5 DEF MasterStage
<1>6. CASE r = "Hybrid"
  <2>1. At(Plan["Hybrid"], 0, RuntimePlan) /\ At(Plan["Hybrid"], 3, EtcdPlan) /\ At(Plan["Hybrid"], 7, MasterPlan)
    BY PlanIs DEF Roles
  <2>2. (\A k \in 1..7 : Quiet(Plan["Hybrid"], k)) /\ WritesAt(Plan["Hybrid"], 3) = Docker
        /\ WritesAt(Plan["Hybrid"], 5) = EtcdCerts
    BY <2>1, EtcdOK, Zenon DEF Docker
  <2>3. 7 \in Nat /\ 3 \in 1..7 /\ 5 \in 1..7 /\ 7 + 12 = 19
    OBVIOUS
  <2>4. \A k \in 1..(7 + 12) : MasterStage(Plan["Hybrid"], k) /\ NeedsOK(Plan["Hybrid"], k)
    BY <2>1, <2>2, <2>3, MasterOK
  <2>5. Len(Plan["Hybrid"]) = 19
    BY PlanIs
  <2> QED
    BY <1>2, <1>6, <2>3, <2>4, <2>5 DEF MasterStage
<1> QED
  BY <1>3, <1>4, <1>5, <1>6 DEF Roles

(***************************************************************************)
(* The invariant of the inits.                                             *)
(***************************************************************************)
PlanOf(n) == Plan[role[n]]
Pc(n) == proc[n].pc
AtOf(n) == proc[n].at
Ca(n) == info[n].ca
Dom(n) == DOMAIN disk[n]
Val(n, f) == disk[n][f]
Boots(n) == Pc(n) \in {"run", "done"}
ReqAt(n) == request[n].at
Given == given = TRUE
Kept == lost = FALSE
ServerUp == server.up = TRUE

\* What the stages done leave on the host and touch on it, and what its plan
\* touches in all.
Left(n) == Written(PlanOf(n), AtOf(n))
Hit(n) == Touched(PlanOf(n), AtOf(n))
Reach(n) == Touched(PlanOf(n), Len(PlanOf(n)) + 1)

Flows == {"local", "recover", "other", "coordinator"}
Pcs == {"info", "register", "credentials", "run", "done", "idle", "failed", "panic"}
Procs == [pc : Pcs, at : Nat, tries : 0..(Tries - 1), polls : 0..(Polls - 1), body : BOOLEAN]
Servers == [up : BOOLEAN, saved : Nat, nodes : SUBSET Hosts, etcd : SUBSET Hosts]
Requests == [at : {"none", "ranged", "set"}, address : SUBSET Hosts]

\* The shape of the state.
ShapeInv ==
  /\ flow \in Flows /\ given \in BOOLEAN /\ lost \in BOOLEAN
  /\ DOMAIN role \subseteq Hosts /\ \A n \in DOMAIN role : role[n] \in Roles
  /\ First \in DOMAIN role /\ role[First] = "Hybrid"
  /\ disk = [n \in Hosts |-> disk[n]] /\ info = [n \in Hosts |-> info[n]]
  /\ proc \in [Hosts -> Procs] /\ server \in Servers /\ request \in [Hosts -> Requests]
  /\ mishaps \in 0..MaxMishaps

\* Who can be in which step of an init; the coordinator works for a host only
\* in its flow.
ProcInv ==
  \A n \in Hosts :
    /\ Pc(n) # "idle" => n \in DOMAIN role
    /\ Pc(n) = "run" => AtOf(n) \in 1..Len(PlanOf(n))
    /\ ReqAt(n) # "none" => Pc(n) = "credentials" /\ ServerUp
    /\ Pc(n) \in {"register", "credentials"} => flow = "coordinator"

\* The authority of every file and of every configuration was made.
CaInv ==
  /\ fresh \in Nat /\ (flow = "other" => fresh >= 2) /\ (Given /\ flow # "coordinator" => fresh >= 1)
  /\ \A n \in Hosts : \A f \in Dom(n) : Val(n, f) \in 1..fresh
  /\ \A n \in Hosts : Ca(n) \in 0..fresh /\ (Boots(n) => Ca(n) >= 1)
  /\ oper = NoInfo \/ oper.ca \in 1..fresh
  /\ server.saved \in 0..fresh /\ (ServerUp => server.saved >= 1 /\ flow = "coordinator")
  /\ index \in 1..2 /\ (flow = "recover" => index = 1) /\ (flow = "local" \/ Given)

\* What the stages that are done have left on a host.
DiskInv ==
  \A n \in Hosts :
    /\ n \in DOMAIN role => Dom(n) \subseteq Reach(n)
    /\ n \notin DOMAIN role => Dom(n) = {}
    /\ "apiserver up" \in Dom(n) => "ca" \in Dom(n)
    /\ Pc(n) = "run" => /\ Left(n) \ {Gen} \subseteq Dom(n)
                        /\ Kept => Left(n) \subseteq Dom(n)

\* On a host that does not join a cluster: the stages that are done have
\* replaced or removed what earlier inits left.
SameInv ==
  \A n \in DOMAIN role : role[n] # "Worker" =>
    /\ Pc(n) = "run" =>
         \A f \in Dom(n) \cap Hit(n) : f # Gen \/ Kept => Val(n, f) = Ca(n)
    /\ Pc(n) = "done" /\ Kept => \A f \in Dom(n) : Val(n, f) = Ca(n)

\* The authority of a cluster that is given one.
KnownCA == IF flow = "coordinator" THEN server.saved ELSE IF flow = "other" THEN 2 ELSE 1

GivenInv ==
  Given => /\ \A n \in Hosts : \A f \in Dom(n) : Val(n, f) = KnownCA
           /\ \A n \in Hosts : Boots(n) => Ca(n) = KnownCA
           /\ oper = NoInfo \/ oper.ca = KnownCA

\* The authority of a cluster whose first host makes it: once it is in
\* wdrip.cfg.gen it is the one of all hosts.
MadeInv ==
  ~Given =>
    /\ Gen \in Dom(First) => /\ "ca" \in Dom(First) /\ Val(First, "ca") = Val(First, Gen)
                             /\ Boots(First) => Ca(First) = Val(First, Gen)
    /\ Kept /\ oper # NoInfo => Gen \in Dom(First) /\ oper.ca = Val(First, Gen)
    /\ Kept => \A n \in Hosts \ {First} :
         /\ Dom(n) # {} \/ Boots(n) => Gen \in Dom(First)
         /\ \A f \in Dom(n) : Val(n, f) = Val(First, Gen)
         /\ Boots(n) => Ca(n) = Val(First, Gen)

Content == DiskInv /\ SameInv /\ GivenInv /\ MadeInv
BInv == ShapeInv /\ ProcInv /\ CaInv /\ Content

\* The step leaves the other hosts alone.
Others(n) ==
  \A m \in Hosts \ {n} :
    /\ Pc(m)' = Pc(m) /\ AtOf(m)' = AtOf(m) /\ Ca(m)' = Ca(m) /\ Dom(m)' = Dom(m)
    /\ \A f \in Dom(m) : Val(m, f)' = Val(m, f)
SameDisk(n) == Dom(n)' = Dom(n) /\ \A f \in Dom(n) : Val(n, f)' = Val(n, f)
\* What no step changes, or in one direction only.
Frame == flow' = flow /\ role' = role /\ (Given' <=> Given) /\ (Kept' => Kept)

\* A host whose init begins, ends or waits: its disk stays, or it is wiped and
\* the host is not the first one.
Rests(n) ==
  /\ Frame /\ Others(n) /\ ~Boots(n)' /\ oper' = oper /\ KnownCA' = KnownCA
  /\ SameDisk(n) \/ (n # First /\ Dom(n)' = {})

LEMMA RestsContent ==
  ASSUME Content, First \in Hosts, DOMAIN role \subseteq Hosts, NEW n \in Hosts, Rests(n)
  PROVE  Content'
<1>1. \A m : Reach(m)' = Reach(m)
  BY Zenon DEF Rests, Frame, PlanOf, Reach
<1>2. \A m \in Hosts \ {n} : Left(m)' = Left(m) /\ Hit(m)' = Hit(m)
  BY DEF Rests, Frame, Others, PlanOf, Left, Hit
<1>3. Pc(n)' # "run" /\ Pc(n)' # "done" /\ Dom(n)' \subseteq Dom(n) /\ \A f \in Dom(n)' : Val(n, f)' = Val(n, f)
  BY DEF Rests, Boots, SameDisk
<1>4. DiskInv'
  <2> SUFFICES ASSUME NEW m \in Hosts
               PROVE  (/\ m \in DOMAIN role => Dom(m) \subseteq Reach(m)
                       /\ m \notin DOMAIN role => Dom(m) = {}
                       /\ "apiserver up" \in Dom(m) => "ca" \in Dom(m)
                       /\ Pc(m) = "run" => /\ Left(m) \ {Gen} \subseteq Dom(m)
                                           /\ Kept => Left(m) \subseteq Dom(m))'
    BY Zenon DEF DiskInv
  <2>1. CASE m = n
    BY <1>1, <1>3, <2>1, Zenon DEF Content, DiskInv, Rests, Frame, SameDisk
  <2>2. CASE m # n
    BY <1>1, <1>2, <2>2, Zenon DEF Content, DiskInv, Rests, Frame, Others
  <2> QED
    BY <2>1, <2>2, Zenon
<1>5. SameInv'
  <2> SUFFICES ASSUME NEW m \in DOMAIN role, role[m] # "Worker"
               PROVE  (/\ Pc(m) = "run" =>
                            \A f \in Dom(m) \cap Hit(m) : f # Gen \/ Kept => Val(m, f) = Ca(m)
                       /\ Pc(m) = "done" /\ Kept => \A f \in Dom(m) : Val(m, f) = Ca(m))'
    BY DEF SameInv, Rests, Frame
  <2>1. CASE m = n
    BY <1>3, <2>1
  <2>2. CASE m # n
    BY <1>2, <2>2 DEF Content, SameInv, Rests, Frame, Others
  <2> QED
    BY <2>1, <2>2
<1>6. GivenInv'
  BY <1>3 DEF Content, GivenInv, Rests, Frame, Others, Boots
<1>7. MadeInv'
  BY <1>3 DEF Content, MadeInv, Rests, Frame, Others, Boots, SameDisk
<1> QED
  BY <1>4, <1>5, <1>6, <1>7 DEF Content

\* A host is configured and begins with the first stage.
Configures(n, ca) ==
  /\ Frame /\ Others(n) /\ Pc(n)' = "run" /\ AtOf(n)' = 1 /\ Ca(n)' = ca /\ SameDisk(n)
  /\ oper' = oper /\ KnownCA' = KnownCA

LEMMA NothingDone == \A p : Written(p, 1) = {} /\ Touched(p, 1) = {}
  BY DEF Written, Touched

LEMMA ConfiguresContent ==
  ASSUME Content, First \in Hosts, DOMAIN role \subseteq Hosts, NEW n \in DOMAIN role, NEW ca, Configures(n, ca),
         Given => ca = KnownCA,
         ~Given /\ n = First /\ Gen \in Dom(First) => ca = Val(First, Gen),
         ~Given /\ n # First /\ Kept => Gen \in Dom(First) /\ ca = Val(First, Gen)
  PROVE  Content'
<1>1. \A m : Reach(m)' = Reach(m)
  BY DEF Configures, Frame, PlanOf, Reach
<1>2. \A m \in Hosts \ {n} : Left(m)' = Left(m) /\ Hit(m)' = Hit(m)
  BY DEF Configures, Frame, Others, PlanOf, Left, Hit
<1>3. Left(n)' = {} /\ Hit(n)' = {}
  BY NothingDone DEF Configures, Left, Hit
<1>4. DiskInv'
  <2> SUFFICES ASSUME NEW m \in Hosts
               PROVE  (/\ m \in DOMAIN role => Dom(m) \subseteq Reach(m)
                       /\ m \notin DOMAIN role => Dom(m) = {}
                       /\ "apiserver up" \in Dom(m) => "ca" \in Dom(m)
                       /\ Pc(m) = "run" => /\ Left(m) \ {Gen} \subseteq Dom(m)
                                           /\ Kept => Left(m) \subseteq Dom(m))'
    BY Zenon DEF DiskInv
  <2>1. CASE m = n
    BY <1>1, <1>3, <2>1, Zenon DEF Content, DiskInv, Configures, Frame, SameDisk
  <2>2. CASE m # n
    BY <1>1, <1>2, <2>2, Zenon DEF Content, DiskInv, Configures, Frame, Others
  <2> QED
    BY <2>1, <2>2, Zenon
<1>5. SameInv'
  <2> SUFFICES ASSUME NEW m \in DOMAIN role, role[m] # "Worker"
               PROVE  (/\ Pc(m) = "run" =>
                            \A f \in Dom(m) \cap Hit(m) : f # Gen \/ Kept => Val(m, f) = Ca(m)
                       /\ Pc(m) = "done" /\ Kept => \A f \in Dom(m) : Val(m, f) = Ca(m))'
    BY DEF SameInv, Configures, Frame
  <2>1. CASE m = n
    BY <1>3, <2>1 DEF Configures
  <2>2. CASE m # n
    BY <1>2, <2>2 DEF Content, SameInv, Configures, Frame, Others
  <2> QED
    BY <2>1, <2>2
<1>6. GivenInv'
  BY DEF Content, GivenInv, Configures, Frame, Others, Boots, SameDisk
<1>7. MadeInv'
  BY DEF Content, MadeInv, Configures, Frame, Others, Boots, SameDisk
<1> QED
  BY <1>4, <1>5, <1>6, <1>7 DEF Content

\* The fields of the stage that a host is in.
NowNeeds(n) == NeedsAt(PlanOf(n), AtOf(n))
NowWrites(n) == WritesAt(PlanOf(n), AtOf(n))
NowRemoves(n) == RemovesAt(PlanOf(n), AtOf(n))
NowKeeps(n) == KeepsAt(PlanOf(n), AtOf(n))

\* What the plan guarantees about that stage.
NowOK(n) ==
  /\ "ca" \notin NowRemoves(n) /\ Gen \notin NowRemoves(n)
  /\ NowRemoves(n) = {} \/ NowWrites(n) = {}
  /\ NowKeeps(n) # {} => NowWrites(n) \subseteq Hit(n) /\ NowRemoves(n) = {}
  /\ "apiserver up" \in NowWrites(n) \/ Gen \in NowWrites(n) => "ca" \in Left(n)
  /\ "posted" \in NowWrites(n) => Gen \in Left(n)
  /\ NowWrites(n) \subseteq Reach(n) /\ Left(n) \subseteq Hit(n)

LEMMA StageInPlan ==
  ASSUME NEW p, NEW l \in Nat, NEW k \in 1..l, WritesAt(p, k) \subseteq Files
  PROVE  WritesAt(p, k) \subseteq Touched(p, l + 1)
<1>1. 1..((l + 1) - 1) = 1..l
  OBVIOUS
<1> QED
  BY <1>1 DEF Touched

LEMMA StageNow ==
  ASSUME ShapeInv, ProcInv, NEW n \in Hosts, Pc(n) = "run"
  PROVE  /\ n \in DOMAIN role /\ NowOK(n)
         /\ role[n] # "Master" => NowNeeds(n) \subseteq Left(n) \ {Gen}
         /\ role[n] # "Worker" => NowWrites(n) # {"kubelet.conf"}
<1> DEFINE p == PlanOf(n)
           k == AtOf(n)
<1>1. n \in DOMAIN role /\ role[n] \in Roles /\ k \in 1..Len(p)
  BY DEF ShapeInv, ProcInv
<1>2. Len(p) \in Nat \ {0} /\ p[k] \in Stages /\ StageOK(p, k)
      /\ (role[n] # "Master" => NeedsOK(p, k)) /\ (role[n] # "Worker" => WritesAt(p, k) # {"kubelet.conf"})
  BY <1>1, PlanOK DEF PlanOf
<1>3. k \in Nat \ {0}
  BY <1>1, <1>2
<1>4. WritesAt(p, k) \subseteq Files
  BY <1>2 DEF Stages, WritesAt
<1>5. WritesAt(p, k) \subseteq Touched(p, Len(p) + 1)
  BY <1>1, <1>2, <1>4, StageInPlan
<1>6. Written(p, k) \subseteq Touched(p, k)
  BY <1>3, WrittenNext
<1>7. "ca" \notin SignedFiles /\ Gen \notin SignedFiles
  BY DEF SignedFiles, SignedPairs, Gen
<1> HIDE DEF p, k
<1>8. /\ RemovesAt(p, k) \subseteq SignedFiles /\ (RemovesAt(p, k) = {} \/ WritesAt(p, k) = {})
      /\ KeepsAt(p, k) # {} => WritesAt(p, k) \subseteq Touched(p, k) /\ RemovesAt(p, k) = {}
      /\ "apiserver up" \in WritesAt(p, k) \/ Gen \in WritesAt(p, k) => "ca" \in Written(p, k)
      /\ "posted" \in WritesAt(p, k) => Gen \in Written(p, k)
  BY <1>2, Zenon DEF StageOK
<1>9. NowOK(n)
  BY <1>5, <1>6, <1>7, <1>8, Zenon DEF NowOK, NowWrites, NowRemoves, NowKeeps, Hit, Left, Reach, p, k
<1> QED
  BY <1>1, <1>2, <1>9 DEF NowNeeds, NowWrites, NeedsOK, Left, p, k

\* What Write does on the disk: a file that is made has the authority, the
\* others are as they were.
Writes(n, files, ca) ==
  /\ Dom(n)' = (Dom(n) \ NowRemoves(n)) \cup files
  /\ \A f \in Dom(n)' : Val(n, f)' = ca
                        \/ (f \in Dom(n) /\ Val(n, f)' = Val(n, f) /\ (f \notin files \/ f \in NowKeeps(n)))

\* The authority of a file: the host's, or that of a host it joins.
Source(n, ca) ==
  ca = Ca(n) \/ (role[n] = "Worker" /\ \E m \in Hosts : "apiserver up" \in Dom(m) /\ ca = Val(m, "ca"))

\* The host makes files of its stage, all or some, and may post.
Works(n, files, ca) ==
  /\ Frame /\ Others(n) /\ KnownCA' = KnownCA /\ Pc(n) = "run" /\ NowOK(n)
  /\ files \subseteq NowWrites(n) /\ Writes(n, files, ca) /\ Source(n, ca)
  /\ Boots(n)' => Ca(n)' = Ca(n)
  /\ oper' = oper \/ ("posted" \in NowWrites(n) /\ oper' # NoInfo /\ oper'.ca = Ca(n))

LEMMA WorksGiven ==
  ASSUME Content, NEW n \in Hosts, NEW files, NEW ca, Works(n, files, ca)
  PROVE  GivenInv'
<1> SUFFICES ASSUME Given
             PROVE  /\ \A m \in Hosts : \A f \in Dom(m)' : Val(m, f)' = KnownCA
                    /\ \A m \in Hosts : Boots(m)' => Ca(m)' = KnownCA
                    /\ oper' = NoInfo \/ oper'.ca = KnownCA
  BY DEF GivenInv, Works, Frame
<1>1. Boots(n) /\ Ca(n) = KnownCA
  BY DEF Content, GivenInv, Works, Boots
<1>2. ca = KnownCA
  <2>1. \A m \in Hosts : "apiserver up" \in Dom(m) => "ca" \in Dom(m)
    BY Zenon DEF Content, DiskInv
  <2> QED
    BY <1>1, <2>1, Zenon DEF Content, GivenInv, Works, Source
<1>3. \A m \in Hosts : \A f \in Dom(m)' : Val(m, f)' = KnownCA
  BY <1>2 DEF Content, GivenInv, Works, Writes, Others
<1>4. \A m \in Hosts : Boots(m)' => Ca(m)' = KnownCA
  BY <1>1 DEF Content, GivenInv, Works, Others, Boots
<1>5. oper' = NoInfo \/ oper'.ca = KnownCA
  BY <1>1 DEF Content, GivenInv, Works
<1> QED
  BY <1>3, <1>4, <1>5

LEMMA WorksMade ==
  ASSUME Content, First \in DOMAIN role, DOMAIN role \subseteq Hosts, role[First] = "Hybrid",
         NEW n \in Hosts, NEW files, NEW ca, Works(n, files, ca)
  PROVE  MadeInv'
<1> SUFFICES ASSUME ~Given
             PROVE  (/\ Gen \in Dom(First) => /\ "ca" \in Dom(First) /\ Val(First, "ca") = Val(First, Gen)
                                              /\ Boots(First) => Ca(First) = Val(First, Gen)
                     /\ Kept /\ oper # NoInfo => Gen \in Dom(First) /\ oper.ca = Val(First, Gen)
                     /\ Kept => \A m \in Hosts \ {First} :
                          /\ Dom(m) # {} \/ Boots(m) => Gen \in Dom(First)
                          /\ \A f \in Dom(m) : Val(m, f) = Val(First, Gen)
                          /\ Boots(m) => Ca(m) = Val(First, Gen))'
  BY DEF MadeInv, Works, Frame
<1>1. Pc(n) = "run" /\ Boots(n) /\ NowOK(n) /\ (Kept' => Kept) /\ First \in Hosts
  BY DEF Works, Boots, Frame
<1>2. \A m \in Hosts : "apiserver up" \in Dom(m) => "ca" \in Dom(m)
  BY Zenon DEF Content, DiskInv
<1>3. CASE n = First
  <2>1. ca = Ca(First)
    BY <1>3 DEF Works, Source
  <2>2. "ca" \in Dom(First) => "ca" \in Dom(First)'
    BY <1>1, <1>3, Zenon DEF NowOK, Works, Writes
  <2>3. CASE Gen \in Dom(First)
    <3>1. "ca" \in Dom(First) /\ Val(First, "ca") = Val(First, Gen) /\ Ca(First) = Val(First, Gen)
      BY <1>1, <1>3, <2>3 DEF Content, MadeInv
    <3>2. Gen \in Dom(First)' /\ Val(First, Gen)' = Val(First, Gen)
      BY <1>1, <1>3, <2>1, <2>3, <3>1, Zenon DEF NowOK, Works, Writes
    <3>3. "ca" \in Dom(First)' /\ Val(First, "ca")' = Val(First, Gen)
      BY <1>3, <2>1, <2>2, <3>1 DEF Works, Writes
    <3>4. Boots(First)' => Ca(First)' = Val(First, Gen)
      BY <1>3, <3>1 DEF Works
    <3>5. Kept' /\ oper' # NoInfo => oper'.ca = Val(First, Gen)
      BY <1>1, <1>3, <3>1 DEF Works, Content, MadeInv
    <3>6. Kept' => \A m \in Hosts \ {First} : /\ \A f \in Dom(m)' : Val(m, f)' = Val(First, Gen)
                                              /\ Boots(m)' => Ca(m)' = Val(First, Gen)
      BY <1>1, <1>3, <2>3 DEF Works, Content, MadeInv, Others, Boots
    <3> QED
      BY <3>2, <3>3, <3>4, <3>5, <3>6
  <2>4. CASE Gen \notin Dom(First)
    <3>1. Gen \in Dom(First)' => Gen \in NowWrites(n) /\ "ca" \in Left(n) /\ "ca" \in Hit(n)
      BY <1>1, <1>3, <2>4, Zenon DEF NowOK, Works, Writes
    <3>2. Gen \in Dom(First)' => "ca" \in Dom(First) /\ Val(First, "ca") = Ca(First)
      <4>1. "ca" # Gen
        BY DEF Gen
      <4> QED
        BY <1>1, <1>3, <3>1, <4>1, Zenon DEF Content, DiskInv, SameInv
    <3>3. Gen \in Dom(First)' => Val(First, Gen)' = Ca(First)
      BY <1>3, <2>1, <2>4 DEF Works, Writes
    <3>4. Gen \in Dom(First)' => "ca" \in Dom(First)' /\ Val(First, "ca")' = Ca(First)
      BY <1>3, <2>1, <2>2, <3>2 DEF Works, Writes
    <3>5. Boots(First)' => Ca(First)' = Ca(First)
      BY <1>3, Zenon DEF Works
    <3>6. ~(Kept' /\ oper' # NoInfo)
      <4>1. Kept => oper = NoInfo
        BY <2>4 DEF Content, MadeInv
      <4>2. Kept => "posted" \notin NowWrites(n)
        BY <1>1, <1>3, <2>4, Zenon DEF Content, DiskInv, NowOK
      <4> QED
        BY <1>1, <4>1, <4>2, Zenon DEF Works
    <3>7. Kept' => \A m \in Hosts \ {First} : Dom(m)' = {} /\ ~Boots(m)'
      BY <1>1, <1>3, <2>4, Zenon DEF Works, Content, MadeInv, Others, Boots
    <3> QED
      BY <3>3, <3>4, <3>5, <3>6, <3>7, Zenon
  <2> QED
    BY <2>3, <2>4
<1>4. CASE n # First
  <2>1. /\ Pc(First)' = Pc(First) /\ Ca(First)' = Ca(First) /\ Dom(First)' = Dom(First)
        /\ \A f \in Dom(First) : Val(First, f)' = Val(First, f)
        /\ Boots(First)' <=> Boots(First)
    BY <1>1, <1>4 DEF Works, Others, Boots
  <2>2. Kept => Gen \in Dom(First) /\ Ca(n) = Val(First, Gen) /\ \A f \in Dom(n) : Val(n, f) = Val(First, Gen)
    BY <1>1, <1>4 DEF Content, MadeInv
  <2>3. Kept => ca = Val(First, Gen)
    <3>1. Kept => \A m \in Hosts : "ca" \in Dom(m) => Val(m, "ca") = Val(First, Gen)
      BY <2>2 DEF Content, MadeInv
    <3> QED
      BY <1>2, <2>2, <3>1, Zenon DEF Works, Source
  <2>4. Kept => \A f \in Dom(n)' : Val(n, f)' = Val(First, Gen)
    BY <2>2, <2>3 DEF Works, Writes
  <2>5. Kept => (Boots(n)' => Ca(n)' = Val(First, Gen))
    BY <2>2 DEF Works
  <2>6. Kept => \A m \in Hosts \ {First} : /\ \A f \in Dom(m)' : Val(m, f)' = Val(First, Gen)
                                           /\ Boots(m)' => Ca(m)' = Val(First, Gen)
    BY <2>4, <2>5 DEF Works, Content, MadeInv, Others, Boots
  <2>7. Kept /\ oper' # NoInfo => oper'.ca = Val(First, Gen)
    BY <2>2 DEF Works, Content, MadeInv
  <2>8. Gen \in Dom(First) => /\ "ca" \in Dom(First) /\ Val(First, "ca") = Val(First, Gen)
                              /\ Boots(First) => Ca(First) = Val(First, Gen)
    BY Zenon DEF Content, MadeInv
  <2> QED
    BY <1>1, <2>1, <2>2, <2>6, <2>7, <2>8, Zenon
<1> QED
  BY <1>3, <1>4

\* The next stage of the plan, or its end.
Advances(n) ==
  \/ /\ Pc(n)' = "run" /\ Left(n)' \subseteq (Left(n) \ NowRemoves(n)) \cup NowWrites(n)
     /\ Hit(n)' \subseteq Hit(n) \cup NowWrites(n) \cup NowRemoves(n)
  \/ Pc(n)' = "done" /\ Reach(n) \subseteq Hit(n) \cup NowWrites(n) \cup NowRemoves(n)

\* The stage is done, or the init ends in the middle of it.
Finishes(n, files) == (files = NowWrites(n) /\ Advances(n)) \/ ~Boots(n)'

LEMMA WorksDisk ==
  ASSUME Content, NEW n \in DOMAIN role, DOMAIN role \subseteq Hosts, NEW files, NEW ca, Works(n, files, ca),
         Finishes(n, files)
  PROVE  DiskInv'
<1>1. \A m : Reach(m)' = Reach(m)
  BY Zenon DEF Works, Frame, PlanOf, Reach
<1>2. \A m \in Hosts \ {n} : Left(m)' = Left(m) /\ Hit(m)' = Hit(m)
  BY Zenon DEF Works, Frame, Others, PlanOf, Left, Hit
<1> SUFFICES ASSUME NEW m \in Hosts
             PROVE  (/\ m \in DOMAIN role => Dom(m) \subseteq Reach(m)
                     /\ m \notin DOMAIN role => Dom(m) = {}
                     /\ "apiserver up" \in Dom(m) => "ca" \in Dom(m)
                     /\ Pc(m) = "run" => /\ Left(m) \ {Gen} \subseteq Dom(m)
                                         /\ Kept => Left(m) \subseteq Dom(m))'
  BY Zenon DEF DiskInv
<1>3. CASE m = n
  <2>1. NowOK(n) /\ files \subseteq NowWrites(n) /\ Dom(n)' = (Dom(n) \ NowRemoves(n)) \cup files /\ Pc(n) = "run"
        /\ role' = role /\ (Kept' => Kept)
    BY DEF Works, Writes, Frame
  <2>2. /\ Dom(n) \subseteq Reach(n) /\ Left(n) \ {Gen} \subseteq Dom(n) /\ (Kept => Left(n) \subseteq Dom(n))
        /\ "apiserver up" \in Dom(n) => "ca" \in Dom(n)
    BY <2>1, Zenon DEF Content, DiskInv
  <2>3. Dom(n)' \subseteq Reach(n)'
    BY <1>1, <2>1, <2>2, Zenon DEF NowOK
  <2>4. "apiserver up" \in Dom(n)' => "ca" \in Dom(n)'
    <3>1. "ca" # Gen
      BY Zenon DEF Gen
    <3> QED
      BY <2>1, <2>2, <3>1, Zenon DEF NowOK
  <2>5. ASSUME Pc(n)' = "run"
        PROVE  Left(n)' \ {Gen} \subseteq Dom(n)' /\ (Kept' => Left(n)' \subseteq Dom(n)')
    BY <2>1, <2>2, <2>5, Zenon DEF Finishes, Advances, Boots
  <2> QED
    BY <1>3, <2>1, <2>3, <2>4, <2>5, Zenon
<1>4. CASE m # n
  BY <1>1, <1>2, <1>4, Zenon DEF Content, DiskInv, Works, Frame, Others
<1> QED
  BY <1>3, <1>4, Zenon

LEMMA WorksSame ==
  ASSUME Content, NEW n \in DOMAIN role, DOMAIN role \subseteq Hosts, NEW files, NEW ca, Works(n, files, ca),
         Finishes(n, files), DiskInv'
  PROVE  SameInv'
<1>1. \A m \in Hosts \ {n} : Left(m)' = Left(m) /\ Hit(m)' = Hit(m)
  BY Zenon DEF Works, Frame, Others, PlanOf, Left, Hit
<1> SUFFICES ASSUME NEW m \in DOMAIN role, role[m] # "Worker"
             PROVE  (/\ Pc(m) = "run" =>
                          \A f \in Dom(m) \cap Hit(m) : f # Gen \/ Kept => Val(m, f) = Ca(m)
                     /\ Pc(m) = "done" /\ Kept => \A f \in Dom(m) : Val(m, f) = Ca(m))'
  BY DEF SameInv, Works, Frame
<1>2. CASE m = n
  <2>1. NowOK(n) /\ Dom(n)' = (Dom(n) \ NowRemoves(n)) \cup files /\ Pc(n) = "run" /\ role' = role /\ (Kept' => Kept)
    BY DEF Works, Writes, Frame
  <2>2. ca = Ca(n) /\ (Boots(n)' => Ca(n)' = Ca(n))
    BY <1>2, Zenon DEF Works, Source
  <2>3. \A f \in Dom(n) \cap Hit(n) : f # Gen \/ Kept => Val(n, f) = Ca(n)
    BY <1>2, <2>1 DEF Content, SameInv
  <2>4. ASSUME files = NowWrites(n),
               NEW f \in Dom(n)', f \in Hit(n) \cup NowWrites(n) \cup NowRemoves(n), f # Gen \/ Kept
        PROVE  Val(n, f)' = Ca(n)
    <3>1. CASE Val(n, f)' = ca
      BY <2>2, <3>1
    <3>2. CASE f \in Dom(n) /\ Val(n, f)' = Val(n, f) /\ (f \notin files \/ f \in NowKeeps(n))
      <4>1. f \in Hit(n)
        BY <2>1, <2>4, <3>2, Zenon DEF NowOK
      <4> QED
        BY <2>3, <2>4, <3>2, <4>1
    <3> QED
      BY <3>1, <3>2 DEF Works, Writes
  <2>5. Dom(n)' \subseteq Reach(n)
    <3>1. Reach(n)' = Reach(n)
      BY DEF Works, Frame, PlanOf, Reach
    <3> QED
      BY <2>1, <3>1, Zenon DEF DiskInv
  <2>6. ASSUME Pc(n)' = "run", NEW f \in Dom(n)' \cap Hit(n)', f # Gen \/ Kept'
        PROVE  Val(n, f)' = Ca(n)'
    BY <2>1, <2>2, <2>4, <2>6 DEF Finishes, Advances, Boots
  <2>7. ASSUME Pc(n)' = "done", Kept', NEW f \in Dom(n)'
        PROVE  Val(n, f)' = Ca(n)'
    BY <2>1, <2>2, <2>4, <2>5, <2>7, Zenon DEF Finishes, Advances, Boots
  <2> QED
    BY <1>2, <2>6, <2>7
<1>3. CASE m # n
  BY <1>1, <1>3, Zenon DEF Content, SameInv, Works, Frame, Others
<1> QED
  BY <1>2, <1>3, Zenon

LEMMA WorksContent ==
  ASSUME Content, First \in DOMAIN role, DOMAIN role \subseteq Hosts, role[First] = "Hybrid",
         NEW n \in DOMAIN role, NEW files, NEW ca, Works(n, files, ca), Finishes(n, files)
  PROVE  Content'
<1>1. DiskInv' /\ n \in Hosts
  BY WorksDisk
<1> QED
  BY <1>1, WorksSame, WorksGiven, WorksMade DEF Content

\* A wdrip.cfg.gen that is lost.
Loses(n) ==
  /\ Frame /\ ~Kept' /\ Others(n) /\ KnownCA' = KnownCA /\ oper' = oper /\ Pc(n) = "run" /\ NowOK(n)
  /\ NowWrites(n) = {Gen} /\ SameDisk(n) /\ Ca(n)' = Ca(n) /\ Advances(n)

LEMMA LosesContent ==
  ASSUME Content, First \in DOMAIN role, DOMAIN role \subseteq Hosts, NEW n \in DOMAIN role, Loses(n)
  PROVE  Content'
<1>1. \A m : Reach(m)' = Reach(m)
  BY Zenon DEF Loses, Frame, PlanOf, Reach
<1>2. \A m \in Hosts \ {n} : Left(m)' = Left(m) /\ Hit(m)' = Hit(m)
  BY Zenon DEF Loses, Frame, Others, PlanOf, Left, Hit
<1>3. Pc(n)' = "run" => Left(n)' \subseteq Left(n) \cup {Gen} /\ Hit(n)' \subseteq Hit(n) \cup {Gen}
  BY DEF Loses, Advances, NowOK
<1>4. DiskInv'
  <2> SUFFICES ASSUME NEW m \in Hosts
               PROVE  (/\ m \in DOMAIN role => Dom(m) \subseteq Reach(m)
                       /\ m \notin DOMAIN role => Dom(m) = {}
                       /\ "apiserver up" \in Dom(m) => "ca" \in Dom(m)
                       /\ Pc(m) = "run" => /\ Left(m) \ {Gen} \subseteq Dom(m)
                                           /\ Kept => Left(m) \subseteq Dom(m))'
    BY Zenon DEF DiskInv
  <2>1. CASE m = n
    BY <1>1, <1>3, <2>1, Zenon DEF Content, DiskInv, Loses, Frame, SameDisk
  <2>2. CASE m # n
    BY <1>1, <1>2, <2>2, Zenon DEF Content, DiskInv, Loses, Frame, Others
  <2> QED
    BY <2>1, <2>2, Zenon
<1>5. SameInv'
  <2> SUFFICES ASSUME NEW m \in DOMAIN role, role[m] # "Worker"
               PROVE  (Pc(m) = "run" => \A f \in Dom(m) \cap Hit(m) : f # Gen => Val(m, f) = Ca(m))'
    BY DEF SameInv, Loses, Frame
  <2>1. CASE m = n
    BY <1>3, <2>1 DEF Content, SameInv, Loses, SameDisk
  <2>2. CASE m # n
    BY <1>2, <2>2 DEF Content, SameInv, Loses, Others
  <2> QED
    BY <2>1, <2>2
<1>6. GivenInv'
  BY DEF Content, GivenInv, Loses, Frame, Others, Boots, SameDisk
<1>7. MadeInv'
  BY DEF Content, MadeInv, Loses, Frame, Others, Boots, SameDisk
<1> QED
  BY <1>4, <1>5, <1>6, <1>7 DEF Content

\* The parts of a step.
LEMMA ProcSet ==
  ASSUME ShapeInv, NEW n \in Hosts, NEW v \in Procs, proc' = [proc EXCEPT ![n] = v]
  PROVE  /\ proc' \in [Hosts -> Procs] /\ Pc(n)' = v.pc /\ AtOf(n)' = v.at
         /\ \A m \in Hosts \ {n} : Pc(m)' = Pc(m) /\ AtOf(m)' = AtOf(m)
  BY DEF ShapeInv, Pc, AtOf

LEMMA ProcMade ==
  ASSUME NEW c \in Pcs, NEW k \in Nat, NEW b \in BOOLEAN
  PROVE  /\ [NoProc EXCEPT !.pc = c] \in Procs /\ [NoProc EXCEPT !.pc = c].pc = c
         /\ [NoProc EXCEPT !.pc = c, !.body = b] \in Procs /\ [NoProc EXCEPT !.pc = c, !.body = b].pc = c
         /\ [NoProc EXCEPT !.pc = c, !.at = k] \in Procs /\ [NoProc EXCEPT !.pc = c, !.at = k].pc = c
         /\ [NoProc EXCEPT !.pc = c, !.at = k].at = k
<1>1. 0 \in 0..(Tries - 1) /\ 0 \in 0..(Polls - 1)
  BY BootAssumption
<1> QED
  BY <1>1, Zenon DEF NoProc, Procs

LEMMA InfoSet ==
  ASSUME ShapeInv, NEW n \in Hosts, NEW cfg, info' = [info EXCEPT ![n] = cfg]
  PROVE  /\ info' = [m \in Hosts |-> info'[m]] /\ Ca(n)' = cfg.ca
         /\ \A m \in Hosts \ {n} : Ca(m)' = Ca(m)
  BY DEF ShapeInv, Ca

LEMMA InfoSame ==
  ASSUME ShapeInv, UNCHANGED info
  PROVE  info' = [m \in Hosts |-> info'[m]] /\ \A m \in Hosts : Ca(m)' = Ca(m)
  BY DEF ShapeInv, Ca

LEMMA DiskSet ==
  ASSUME ShapeInv, NEW n \in Hosts, NEW d, disk' = [disk EXCEPT ![n] = d]
  PROVE  /\ disk' = [m \in Hosts |-> disk'[m]] /\ disk'[n] = d
         /\ \A m \in Hosts \ {n} : Dom(m)' = Dom(m) /\ \A f : Val(m, f)' = Val(m, f)
  BY DEF ShapeInv, Dom, Val

LEMMA DiskSame ==
  ASSUME ShapeInv, UNCHANGED disk
  PROVE  /\ disk' = [m \in Hosts |-> disk'[m]]
         /\ \A m \in Hosts : SameDisk(m) /\ Dom(m)' = Dom(m) /\ \A f : Val(m, f)' = Val(m, f)
  BY DEF ShapeInv, Dom, Val, SameDisk

LEMMA RequestSet ==
  ASSUME ShapeInv, NEW n \in Hosts, NEW r \in Requests, request' = [request EXCEPT ![n] = r]
  PROVE  /\ request' \in [Hosts -> Requests] /\ ReqAt(n)' = r.at
         /\ \A m \in Hosts \ {n} : ReqAt(m)' = ReqAt(m)
  BY DEF ShapeInv, ReqAt

LEMMA RequestSame ==
  ASSUME ShapeInv, UNCHANGED request
  PROVE  request' \in [Hosts -> Requests] /\ \A m \in Hosts : ReqAt(m)' = ReqAt(m)
  BY DEF ShapeInv, ReqAt

LEMMA MishapsIn ==
  ASSUME ShapeInv, Fine \/ Mishap
  PROVE  mishaps' \in 0..MaxMishaps
  BY BootAssumption DEF ShapeInv, Fine, Mishap

LEMMA FrameSame ==
  ASSUME UNCHANGED <<flow, role, given, lost>>
  PROVE  Frame
  BY DEF Frame, Given, Kept

LEMMA ServerSame ==
  ASSUME ShapeInv, UNCHANGED server
  PROVE  server' \in Servers /\ (ServerUp' <=> ServerUp)
  BY DEF ShapeInv, ServerUp

LEMMA ShapeStep ==
  ASSUME ShapeInv, UNCHANGED <<flow, role, given>>, lost' \in BOOLEAN, mishaps' \in 0..MaxMishaps,
         disk' = [m \in Hosts |-> disk'[m]], info' = [m \in Hosts |-> info'[m]],
         proc' \in [Hosts -> Procs], server' \in Servers, request' \in [Hosts -> Requests]
  PROVE  ShapeInv'
  BY DEF ShapeInv

LEMMA ProcStep ==
  ASSUME ProcInv, NEW n \in Hosts, Frame, Others(n), ServerUp' <=> ServerUp,
         \A m \in Hosts \ {n} : ReqAt(m)' = ReqAt(m),
         Pc(n)' # "idle" => n \in DOMAIN role, Pc(n)' = "run" => AtOf(n)' \in 1..Len(PlanOf(n)),
         ReqAt(n)' # "none" => Pc(n)' = "credentials" /\ ServerUp,
         Pc(n)' \in {"register", "credentials"} => flow = "coordinator"
  PROVE  ProcInv'
<1>1. \A m : PlanOf(m)' = PlanOf(m)
  BY DEF Frame, PlanOf
<1> QED
  BY <1>1 DEF ProcInv, Others, Frame

LEMMA CaStep ==
  ASSUME CaInv, NEW n \in Hosts, Frame, Others(n), fresh' \in Nat, fresh' >= fresh,
         \A f \in Dom(n)' : Val(n, f)' \in 1..fresh',
         Ca(n)' \in 0..fresh', Boots(n)' => Ca(n)' >= 1, oper' = NoInfo \/ oper'.ca \in 1..fresh',
         server'.saved \in 0..fresh', ServerUp' => server'.saved >= 1 /\ flow = "coordinator",
         index' \in 1..2, flow = "recover" => index' = 1
  PROVE  CaInv'
<1>1. \A m \in Hosts : \A f \in Dom(m)' : Val(m, f)' \in 1..fresh'
  BY DEF CaInv, Others
<1>2. \A m \in Hosts : Ca(m)' \in 0..fresh' /\ (Boots(m)' => Ca(m)' >= 1)
  BY DEF CaInv, Others, Boots
<1>3. (flow' = "other" => fresh' >= 2) /\ (Given' /\ flow' # "coordinator" => fresh' >= 1)
  BY DEF CaInv, Frame
<1>4. flow' = flow /\ (flow = "local" \/ Given')
  BY DEF CaInv, Frame
<1> QED
  BY <1>1, <1>2, <1>3, <1>4 DEF CaInv

\* An init that begins, ends or waits.
LEMMA QuietStep ==
  ASSUME BInv, NEW n \in Hosts, NEW v \in Procs, proc' = [proc EXCEPT ![n] = v], v.pc \notin {"run", "done"},
         UNCHANGED <<flow, role, given, lost, oper, fresh>>, mishaps' \in 0..MaxMishaps,
         UNCHANGED disk \/ (n # First /\ disk' = [disk EXCEPT ![n] = << >>]),
         UNCHANGED info \/ info' = [info EXCEPT ![n] = NoInfo],
         server' \in Servers, server'.saved = server.saved, ServerUp' <=> ServerUp,
         request' \in [Hosts -> Requests], \A m \in Hosts \ {n} : ReqAt(m)' = ReqAt(m),
         index' \in 1..2, flow = "recover" => index' = 1,
         v.pc # "idle" => n \in DOMAIN role, ReqAt(n)' # "none" => v.pc = "credentials" /\ ServerUp,
         v.pc \in {"register", "credentials"} => flow = "coordinator"
  PROVE  BInv'
<1>0. ShapeInv /\ ProcInv /\ CaInv /\ Content /\ First \in Hosts /\ DOMAIN role \subseteq Hosts
  BY DEF BInv, Hosts, ShapeInv
<1>1. Frame
  BY FrameSame
<1>2. proc' \in [Hosts -> Procs] /\ Pc(n)' = v.pc /\ ~Boots(n)'
      /\ \A m \in Hosts \ {n} : Pc(m)' = Pc(m) /\ AtOf(m)' = AtOf(m)
  BY <1>0, ProcSet, Zenon DEF Boots
<1>3. /\ disk' = [m \in Hosts |-> disk'[m]] /\ (SameDisk(n) \/ (n # First /\ Dom(n)' = {}))
      /\ \A m \in Hosts \ {n} : Dom(m)' = Dom(m) /\ \A f : Val(m, f)' = Val(m, f)
  <2>1. CASE UNCHANGED disk
    BY <1>0, <2>1, DiskSame
  <2>2. CASE n # First /\ disk' = [disk EXCEPT ![n] = << >>]
    <3>1. disk' = [m \in Hosts |-> disk'[m]] /\ disk'[n] = << >>
          /\ \A m \in Hosts \ {n} : Dom(m)' = Dom(m) /\ \A f : Val(m, f)' = Val(m, f)
      BY <1>0, <2>2, DiskSet, Zenon
    <3>2. Dom(n)' = {}
      BY <3>1 DEF Dom
    <3> QED
      BY <2>2, <3>1, <3>2
  <2> QED
    BY <2>1, <2>2
<1>4. /\ info' = [m \in Hosts |-> info'[m]] /\ \A m \in Hosts \ {n} : Ca(m)' = Ca(m)
      /\ Ca(n)' = Ca(n) \/ Ca(n)' = 0
  <2>1. NoInfo.ca = 0
    BY Zenon DEF NoInfo
  <2>2. CASE UNCHANGED info
    BY <1>0, <2>2, InfoSame
  <2>3. CASE info' = [info EXCEPT ![n] = NoInfo]
    BY <1>0, <2>1, <2>3, InfoSet, Zenon
  <2> QED
    BY <2>2, <2>3, Zenon
<1>5. Others(n)
  BY <1>2, <1>3, <1>4, Zenon DEF Others
<1>6. ShapeInv'
  BY <1>0, <1>2, <1>3, <1>4, ShapeStep, Zenon DEF ShapeInv
<1>7. ProcInv'
  BY <1>0, <1>1, <1>2, <1>5, ProcStep, Zenon
<1>8. CaInv'
  <2>1. \A f \in Dom(n)' : Val(n, f)' \in 1..fresh'
    BY <1>0, <1>3 DEF CaInv, SameDisk
  <2>2. fresh' \in Nat /\ fresh' >= fresh /\ Ca(n)' \in 0..fresh' /\ (oper' = NoInfo \/ oper'.ca \in 1..fresh')
        /\ server'.saved \in 0..fresh' /\ (ServerUp' => server'.saved >= 1 /\ flow = "coordinator")
    BY <1>0, <1>4 DEF CaInv
  <2> QED
    BY <1>0, <1>1, <1>2, <1>5, <2>1, <2>2, CaStep, Zenon
<1>9. KnownCA' = KnownCA
  BY DEF KnownCA
<1>10. Rests(n)
  BY <1>1, <1>2, <1>3, <1>5, <1>9, Zenon DEF Rests
<1> QED
  BY <1>0, <1>6, <1>7, <1>8, <1>10, RestsContent, Zenon DEF BInv

\* A host gets its configuration.
LEMMA ConfiguredStep ==
  ASSUME BInv, NEW n \in DOMAIN role, NEW cfg, Configured(n, cfg),
         UNCHANGED <<flow, role, given, lost, oper, disk, server>>, mishaps' \in 0..MaxMishaps,
         fresh' \in Nat, fresh' >= fresh, cfg.ca \in 1..fresh',
         request' \in [Hosts -> Requests], \A m \in Hosts \ {n} : ReqAt(m)' = ReqAt(m), ReqAt(n)' = "none",
         index' \in 1..2, flow = "recover" => index' = 1,
         Given => cfg.ca = KnownCA,
         ~Given /\ n = First /\ Gen \in Dom(First) => cfg.ca = Val(First, Gen),
         ~Given /\ n # First /\ Kept => Gen \in Dom(First) /\ cfg.ca = Val(First, Gen)
  PROVE  BInv'
<1>0. ShapeInv /\ ProcInv /\ CaInv /\ Content /\ First \in Hosts /\ DOMAIN role \subseteq Hosts /\ n \in Hosts
  BY DEF BInv, Hosts, ShapeInv
<1>1. Frame
  BY FrameSame
<1>2. proc' \in [Hosts -> Procs] /\ Pc(n)' = "run" /\ AtOf(n)' = 1
      /\ \A m \in Hosts \ {n} : Pc(m)' = Pc(m) /\ AtOf(m)' = AtOf(m)
  <2> DEFINE v == [NoProc EXCEPT !.pc = "run", !.at = 1]
  <2>0. "run" \in Pcs /\ 1 \in Nat /\ TRUE \in BOOLEAN
    BY DEF Pcs
  <2>1. v \in Procs /\ v.pc = "run" /\ v.at = 1
    BY <2>0, ProcMade, ZenonT(20)
  <2>2. proc' = [proc EXCEPT ![n] = v]
    BY DEF Configured
  <2> HIDE DEF v
  <2> QED
    BY <1>0, <2>1, <2>2, ProcSet, Zenon
<1>3. disk' = [m \in Hosts |-> disk'[m]]
      /\ \A m \in Hosts : SameDisk(m) /\ Dom(m)' = Dom(m) /\ \A f : Val(m, f)' = Val(m, f)
  BY <1>0, DiskSame
<1>4. info' = [m \in Hosts |-> info'[m]] /\ Ca(n)' = cfg.ca /\ \A m \in Hosts \ {n} : Ca(m)' = Ca(m)
  BY <1>0, InfoSet, Zenon DEF Configured
<1>5. server' \in Servers /\ (ServerUp' <=> ServerUp)
  BY <1>0, ServerSame, Zenon
<1>6. Others(n)
  BY <1>2, <1>3, <1>4, Zenon DEF Others
<1>7. ShapeInv'
  BY <1>0, <1>2, <1>3, <1>4, <1>5, ShapeStep, Zenon DEF ShapeInv
<1>8. ProcInv'
  <2>1. 1 \in 1..Len(PlanOf(n))
    <3>1. Len(PlanOf(n)) \in Nat \ {0}
      BY <1>0, PlanOK DEF PlanOf, ShapeInv
    <3> QED
      BY <3>1
  <2> QED
    BY <1>0, <1>1, <1>2, <1>5, <1>6, <2>1, ProcStep, Zenon
<1>9. CaInv'
  <2>1. \A f \in Dom(n)' : Val(n, f)' \in 1..fresh'
    BY <1>0, <1>3 DEF CaInv
  <2>2. Ca(n)' \in 0..fresh' /\ Ca(n)' >= 1 /\ (oper' = NoInfo \/ oper'.ca \in 1..fresh')
    BY <1>0, <1>4 DEF CaInv
  <2>3. server'.saved \in 0..fresh' /\ (ServerUp' => server'.saved >= 1 /\ flow = "coordinator")
    BY <1>0, <1>5 DEF CaInv
  <2> QED
    BY <1>0, <1>1, <1>6, <2>1, <2>2, <2>3, CaStep, Zenon
<1>10. KnownCA' = KnownCA
  BY DEF KnownCA
<1>11. Configures(n, cfg.ca)
  BY <1>0, <1>1, <1>2, <1>3, <1>4, <1>6, <1>10, Zenon DEF Configures
<1> QED
  BY <1>0, <1>7, <1>8, <1>9, <1>11, ConfiguresContent, Zenon DEF BInv

\* The parts of the invariant that the actions use.
LEMMA InvParts ==
  ASSUME BInv
  PROVE  /\ ShapeInv /\ ProcInv /\ CaInv /\ Content /\ First \in Hosts /\ DOMAIN role \subseteq Hosts
         /\ server \in Servers /\ request \in [Hosts -> Requests] /\ proc \in [Hosts -> Procs]
         /\ mishaps \in 0..MaxMishaps
      /\ index \in 1..2 /\ (flow = "recover" => index = 1)
         /\ flow \in Flows /\ First \in DOMAIN role
  BY Zenon DEF BInv, Hosts, ShapeInv, CaInv

\* Nothing is asked from the coordinator outside of the step that asks it.
LEMMA NoneAsked ==
  ASSUME BInv, NEW n \in Hosts, proc[n].pc # "credentials" \/ ~server.up
  PROVE  request[n].at = "none" /\ ReqAt(n) = "none"
<1>1. ~ServerUp \/ Pc(n) # "credentials"
  <2>1. ~server.up => ~ServerUp
    BY Zenon DEF ServerUp
  <2> QED
    BY <2>1 DEF Pc
<1>2. ReqAt(n) = "none"
  BY <1>1 DEF BInv, ProcInv
<1> QED
  BY <1>2, Zenon DEF ReqAt

LEMMA AsksCoordinator ==
  ASSUME BInv, NEW n \in Hosts, proc[n].pc \in {"register", "credentials"} \/ request[n].at # "none"
  PROVE  n \in DOMAIN role /\ flow = "coordinator" /\ Pc(n) \in {"register", "credentials"}
         /\ (request[n].at # "none" => Pc(n) = "credentials" /\ ServerUp)
  BY DEF BInv, ProcInv, Pc, ReqAt

LEMMA EndStep ==
  ASSUME BInv, NEW n \in DOMAIN role, NEW c \in {"failed", "panic"}, End(n, c),
         UNCHANGED <<flow, role, given, lost, oper, fresh, disk, server, request>>, mishaps' \in 0..MaxMishaps,
         index' \in 1..2, flow = "recover" => index' = 1, request[n].at = "none"
  PROVE  BInv'
<1>0. ShapeInv /\ n \in Hosts /\ server \in Servers
  BY InvParts
<1> DEFINE v == [NoProc EXCEPT !.pc = c]
<1>1. c \in Pcs /\ 0 \in Nat /\ TRUE \in BOOLEAN /\ c \notin {"run", "done", "register", "credentials"}
  BY DEF Pcs
<1>2. v \in Procs /\ v.pc = c
  BY <1>1, ProcMade, Zenon
<1>3. proc' = [proc EXCEPT ![n] = v] /\ info' = [info EXCEPT ![n] = NoInfo]
  BY DEF End
<1> HIDE DEF v
<1>4. request' \in [Hosts -> Requests] /\ \A m \in Hosts : ReqAt(m)' = ReqAt(m)
  BY <1>0, RequestSame
<1>5. ReqAt(n)' = "none"
  BY <1>0, <1>4 DEF ReqAt
<1>6. server' \in Servers /\ server'.saved = server.saved /\ (ServerUp' <=> ServerUp)
  BY <1>0, ServerSame
<1> QED
  BY <1>0, <1>1, <1>2, <1>3, <1>4, <1>5, <1>6, QuietStep, Zenon

LEMMA StartInitOK ==
  ASSUME BInv, NEW n \in Hosts, StartInit(n)
  PROVE  BInv'
<1>0. ShapeInv /\ server \in Servers /\ mishaps \in 0..MaxMishaps
      /\ index \in 1..2 /\ (flow = "recover" => index = 1)
  BY InvParts
<1> DEFINE c == IF BootType(n) = "coord" THEN "register" ELSE "info"
           v == [NoProc EXCEPT !.pc = c, !.body = TRUE]
<1>1. c \in Pcs /\ 0 \in Nat /\ TRUE \in BOOLEAN
  BY DEF Pcs
<1>2. c = "register" => flow = "coordinator"
  BY DEF BootType
<1>3. c \notin {"run", "done", "credentials"}
  OBVIOUS
<1>4. proc' = [proc EXCEPT ![n] = v] /\ n \in DOMAIN role /\ proc[n].pc # "credentials"
  BY DEF StartInit, Down
<1> HIDE DEF c
<1>5. v \in Procs /\ v.pc = c
  BY <1>1, ProcMade, Zenon
<1> HIDE DEF v
<1>6. UNCHANGED <<flow, role, given, lost, oper, fresh, disk, info, server, request, index, mishaps>>
  BY DEF StartInit
<1>7. request' \in [Hosts -> Requests] /\ \A m \in Hosts : ReqAt(m)' = ReqAt(m)
  BY <1>0, <1>6, RequestSame
<1>8. ReqAt(n)' = "none"
  BY <1>4, <1>7, NoneAsked
<1>9. server' \in Servers /\ server'.saved = server.saved /\ (ServerUp' <=> ServerUp)
  BY <1>0, <1>6, ServerSame
<1> QED
  BY <1>0, <1>2, <1>3, <1>4, <1>5, <1>6, <1>7, <1>8, <1>9, QuietStep, Zenon

LEMMA HealOK ==
  ASSUME BInv, NEW n \in Hosts, Heal(n)
  PROVE  BInv'
<1>0. ShapeInv /\ server \in Servers
      /\ index \in 1..2 /\ (flow = "recover" => index = 1)
  BY InvParts
<1> DEFINE v == [NoProc EXCEPT !.pc = "info", !.body = TRUE]
<1>1. "info" \in Pcs /\ 0 \in Nat /\ TRUE \in BOOLEAN
  BY DEF Pcs
<1>2. v \in Procs /\ v.pc = "info"
  BY <1>1, ProcMade, Zenon
<1>3. proc' = [proc EXCEPT ![n] = v] /\ n \in DOMAIN role
      /\ disk' = [disk EXCEPT ![n] = << >>] /\ info' = [info EXCEPT ![n] = NoInfo]
  BY DEF Heal
<1>4. n # First /\ flow # "coordinator"
  BY DEF Heal, BootType
<1>5. proc[n].pc # "credentials"
  BY <1>4, AsksCoordinator, Zenon
<1> HIDE DEF v
<1>6. UNCHANGED <<flow, role, given, lost, oper, fresh, server, request, index>>
  BY Zenon DEF Heal
<1>7. request' \in [Hosts -> Requests] /\ \A m \in Hosts : ReqAt(m)' = ReqAt(m)
  BY <1>0, <1>6, RequestSame, Zenon
<1>8. ReqAt(n)' = "none"
  BY <1>5, <1>7, NoneAsked
<1>9. server' \in Servers /\ server'.saved = server.saved /\ (ServerUp' <=> ServerUp)
  BY <1>0, <1>6, ServerSame
<1>10. mishaps' \in 0..MaxMishaps
  BY <1>0, MishapsIn, Zenon DEF Heal
<1> QED
  BY <1>0, <1>2, <1>3, <1>4, <1>6, <1>7, <1>8, <1>9, <1>10, QuietStep, Zenon

\* SetDefaultCredential makes what is missing.
LEMMA AuthorityMade ==
  ASSUME fresh \in Nat, NEW ca \in 0..fresh, Made(ca)
  PROVE  /\ fresh' \in Nat /\ fresh' >= fresh /\ Authority(ca) \in 1..fresh'
         /\ ca # 0 => Authority(ca) = ca
  BY DEF Made, Authority

LEMMA PreviousIs ==
  ASSUME given \in BOOLEAN, NEW n
  PROVE  /\ Given => PreviousCA(n) = 1
         /\ ~Given /\ Gen \in Dom(n) => PreviousCA(n) = Val(n, Gen)
         /\ ~Given /\ Gen \notin Dom(n) => PreviousCA(n) = 0
<1>1. CASE given = TRUE
  BY <1>1 DEF Given, PreviousCA
<1>2. CASE given = FALSE
  BY <1>2, Zenon DEF Given, PreviousCA, Has, Dom, Val, Gen
<1> QED
  BY <1>1, <1>2, Zenon

LEMMA CfgOK ==
  ASSUME BInv, NEW n \in Hosts, InitFromCfg(n)
  PROVE  BInv'
<1>0. /\ ShapeInv /\ CaInv /\ request \in [Hosts -> Requests] /\ index \in 1..2 /\ (flow = "recover" => index = 1)
      /\ given \in BOOLEAN
  BY InvParts DEF ShapeInv
<1>1. n = First /\ flow = "local"
  BY DEF InitFromCfg, BootType
<1>2. n \in DOMAIN role /\ proc[n].pc # "credentials"
  BY <1>1, InvParts DEF InitFromCfg
<1>3. request[n].at = "none" /\ ReqAt(n) = "none"
  BY <1>2, NoneAsked, Zenon
<1>4. UNCHANGED <<flow, role, given, disk, index, server, request, oper, lost>>
  BY Zenon DEF InitFromCfg
<1> DEFINE cfg == [ca |-> Authority(PreviousCA(n)), etcd |-> {}]
<1>5. CASE Configured(n, cfg) /\ Made(PreviousCA(n)) /\ Fine
  <2>1. fresh \in Nat /\ PreviousCA(n) \in 0..fresh
    <3>1. Given => 1 \in 0..fresh
      BY <1>0, <1>1 DEF CaInv
    <3>2. Gen \in Dom(n) => Val(n, Gen) \in 0..fresh
      BY <1>0 DEF CaInv
    <3>3. fresh \in Nat /\ 0 \in 0..fresh
      BY <1>0 DEF CaInv
    <3> QED
      BY <1>0, <3>1, <3>2, <3>3, PreviousIs
  <2>2. fresh' \in Nat /\ fresh' >= fresh /\ cfg.ca \in 1..fresh' /\ (PreviousCA(n) # 0 => cfg.ca = PreviousCA(n))
    BY <1>5, <2>1, AuthorityMade
  <2>3. Given => cfg.ca = KnownCA
    <3>1. KnownCA = 1
      BY <1>1 DEF KnownCA
    <3>2. Given => PreviousCA(n) = 1
      BY <1>0, PreviousIs
    <3> QED
      BY <2>2, <3>1, <3>2
  <2>4. ~Given /\ Gen \in Dom(First) => cfg.ca = Val(First, Gen)
    <3>1. Gen \in Dom(n) => Val(n, Gen) # 0
      BY <1>0 DEF CaInv
    <3>2. ~Given /\ Gen \in Dom(n) => PreviousCA(n) = Val(n, Gen)
      BY <1>0, PreviousIs
    <3> QED
      BY <1>1, <2>2, <3>1, <3>2
  <2>5. request' \in [Hosts -> Requests] /\ \A m \in Hosts : ReqAt(m)' = ReqAt(m)
    BY <1>0, <1>4, RequestSame
  <2>6. mishaps' \in 0..MaxMishaps
    BY <1>0, <1>5, MishapsIn, Zenon
  <2> HIDE DEF cfg
  <2> QED
    BY <1>0, <1>1, <1>2, <1>3, <1>4, <1>5, <2>2, <2>3, <2>4, <2>5, <2>6, ConfiguredStep, Zenon
<1>6. CASE End(n, "failed") /\ Mishap /\ UNCHANGED fresh
  <2>1. mishaps' \in 0..MaxMishaps
    BY <1>0, <1>6, MishapsIn, ZenonT(20)
  <2> QED
    BY <1>0, <1>2, <1>3, <1>4, <1>6, <2>1, EndStep
<1> QED
  BY <1>5, <1>6 DEF InitFromCfg

LEMMA RecoverOK ==
  ASSUME BInv, NEW n \in Hosts, InitFromRecover(n)
  PROVE  BInv'
<1>0. /\ ShapeInv /\ CaInv /\ request \in [Hosts -> Requests] /\ index \in 1..2 /\ (flow = "recover" => index = 1)
      /\ flow \in Flows
  BY InvParts
<1>1. n = First /\ flow \in {"recover", "other"}
  BY <1>0 DEF InitFromRecover, BootType, Flows
<1>2. n \in DOMAIN role /\ proc[n].pc # "credentials"
  BY <1>1, InvParts, ZenonT(20) DEF InitFromRecover
<1>3. request[n].at = "none" /\ ReqAt(n) = "none"
  BY <1>2, NoneAsked
<1>4. UNCHANGED <<flow, role, given, disk, server, request, oper, fresh, lost>>
  BY Zenon DEF InitFromRecover
<1>5. Recovered \in 1..2 /\ (flow = "recover" => Recovered = 1) /\ Recovered = KnownCA
  BY <1>0, <1>1 DEF Recovered, KnownCA
<1>6. index' \in 1..2 /\ (flow = "recover" => index' = 1)
  BY <1>0, <1>5, Zenon DEF InitFromRecover
<1> DEFINE cfg == [ca |-> Recovered, etcd |-> {}]
<1>7. CASE Configured(n, cfg) /\ Fine
  <2>1. Given
    BY <1>0, <1>1 DEF CaInv
  <2>2. fresh \in Nat /\ Recovered \in 1..fresh
    BY <1>0, <1>1, <1>5, <2>1 DEF CaInv, KnownCA
  <2>3. fresh' \in Nat /\ fresh' >= fresh /\ cfg.ca \in 1..fresh' /\ cfg.ca = KnownCA
    BY <1>4, <1>5, <2>2
  <2>5. request' \in [Hosts -> Requests] /\ \A m \in Hosts : ReqAt(m)' = ReqAt(m)
    BY <1>0, <1>4, RequestSame
  <2>6. mishaps' \in 0..MaxMishaps
    BY <1>0, <1>7, MishapsIn, Zenon
  <2> HIDE DEF cfg
  <2> QED
    BY <1>2, <1>3, <1>4, <1>6, <1>7, <2>1, <2>3, <2>5, <2>6, ConfiguredStep, Zenon
<1>8. CASE End(n, "failed") /\ Mishap
  <2>1. mishaps' \in 0..MaxMishaps
    BY <1>0, <1>8, MishapsIn, Zenon
  <2> QED
    BY <1>2, <1>3, <1>4, <1>6, <1>8, <2>1, EndStep, Zenon
<1> QED
  BY <1>7, <1>8 DEF InitFromRecover

LEMMA OperatorOK ==
  ASSUME BInv, NEW n \in Hosts, InitFromOperator(n)
  PROVE  BInv'
<1>0. /\ ShapeInv /\ ProcInv /\ CaInv /\ Content /\ request \in [Hosts -> Requests]
      /\ index \in 1..2 /\ (flow = "recover" => index = 1) /\ index' = index
  BY InvParts DEF InitFromOperator
<1>1. n # First
  BY Zenon DEF InitFromOperator, BootType
<1>2. n \in DOMAIN role /\ proc[n].pc # "credentials"
  BY <1>0, Zenon DEF InitFromOperator, ProcInv, Pc
<1>3. request[n].at = "none" /\ ReqAt(n) = "none"
  BY <1>2, NoneAsked
<1>4. UNCHANGED <<flow, role, given, disk, server, request, oper, fresh, lost>>
  BY DEF InitFromOperator
<1>5. mishaps' \in 0..MaxMishaps
  BY <1>0, MishapsIn, Zenon DEF InitFromOperator
<1>6. CASE OperatorUp /\ Configured(n, oper)
  <2>1. oper # NoInfo
    BY <1>6 DEF OperatorUp
  <2>2. fresh' \in Nat /\ fresh' >= fresh /\ oper.ca \in 1..fresh'
    BY <1>0, <1>4, <2>1 DEF CaInv
  <2>3. Given => oper.ca = KnownCA
    BY <1>0, <2>1 DEF Content, GivenInv
  <2>4. ~Given /\ Kept => Gen \in Dom(First) /\ oper.ca = Val(First, Gen)
    BY <1>0, <2>1 DEF Content, MadeInv
  <2>5. request' \in [Hosts -> Requests] /\ \A m \in Hosts : ReqAt(m)' = ReqAt(m)
    BY <1>0, <1>4, RequestSame, Zenon
  <2> QED
    BY <1>0, <1>1, <1>2, <1>3, <1>4, <1>5, <1>6, <2>2, <2>3, <2>4, <2>5, ConfiguredStep, Zenon
<1>7. CASE End(n, "failed")
  BY <1>0, <1>2, <1>3, <1>4, <1>5, <1>7, EndStep, Zenon
<1> QED
  BY <1>6, <1>7, Zenon DEF InitFromOperator

\* A client that tries again keeps its step; one that gives up has failed.
LEMMA RetryIs ==
  ASSUME ShapeInv, NEW n \in Hosts, NEW b \in BOOLEAN, Retry(n, b)
  PROVE  \E v \in Procs : proc' = [proc EXCEPT ![n] = v] /\ v.pc \in {Pc(n), "failed"}
<1>1. proc \in [Hosts -> Procs] /\ proc[n] \in Procs /\ Tries \in Nat \ {0} /\ Polls \in Nat \ {0}
  BY BootAssumption DEF ShapeInv
<1> DEFINE again == [proc[n] EXCEPT !.tries = proc[n].tries + 1, !.body = b]
           later == [proc[n] EXCEPT !.tries = 0, !.polls = proc[n].polls + 1, !.body = TRUE]
           over == [NoProc EXCEPT !.pc = "failed"]
           v == IF proc[n].tries + 1 < Tries THEN again ELSE IF proc[n].polls + 1 < Polls THEN later ELSE over
<1>2. proc' = [proc EXCEPT ![n] = v]
  BY DEF Retry
<1>3. ASSUME proc[n].tries + 1 < Tries PROVE again \in Procs /\ again.pc = Pc(n)
  <2>1. proc[n].tries + 1 \in 0..(Tries - 1)
    BY <1>1, <1>3 DEF Procs
  <2> QED
    BY <1>1, <2>1, Zenon DEF Procs, Pc
<1>4. ASSUME proc[n].polls + 1 < Polls PROVE later \in Procs /\ later.pc = Pc(n)
  <2>1. 0 \in 0..(Tries - 1) /\ proc[n].polls + 1 \in 0..(Polls - 1)
    BY <1>1, <1>4 DEF Procs
  <2> QED
    BY <1>1, <2>1, Zenon DEF Procs, Pc
<1>5. over \in Procs /\ over.pc = "failed"
  <2>1. "failed" \in Pcs /\ 0 \in Nat /\ TRUE \in BOOLEAN
    BY DEF Pcs
  <2> QED
    BY <2>1, ProcMade, Zenon
<1> HIDE DEF again, later, over
<1>6. v \in Procs /\ v.pc \in {Pc(n), "failed"}
  BY <1>3, <1>4, <1>5
<1> HIDE DEF v
<1> QED
  BY <1>2, <1>6, Zenon

\* A step of a client that the coordinator works for or not.
LEMMA ClientStep ==
  ASSUME BInv, NEW n \in DOMAIN role, flow = "coordinator", NEW v \in Procs, proc' = [proc EXCEPT ![n] = v],
         v.pc \in {"register", "credentials", "failed"},
         UNCHANGED <<flow, role, given, lost, oper, fresh, disk, info, index>>, mishaps' \in 0..MaxMishaps,
         server' \in Servers, server'.saved = server.saved, ServerUp' <=> ServerUp,
         request' \in [Hosts -> Requests], \A m \in Hosts \ {n} : ReqAt(m)' = ReqAt(m),
         ReqAt(n)' # "none" => v.pc = "credentials" /\ ServerUp
  PROVE  BInv'
<1>1. n \in Hosts /\ index' \in 1..2 /\ (flow = "recover" => index' = 1)
  BY InvParts
<1>2. v.pc \notin {"run", "done"}
  OBVIOUS
<1> QED
  BY <1>1, <1>2, QuietStep, Zenon

LEMMA RefusedOK ==
  ASSUME BInv, NEW n \in Hosts, Refused(n)
  PROVE  BInv'
<1>0. ShapeInv /\ server \in Servers /\ proc \in [Hosts -> Procs] /\ mishaps \in 0..MaxMishaps
  BY InvParts, Zenon
<1>1. n \in DOMAIN role /\ flow = "coordinator" /\ Pc(n) \in {"register", "credentials"}
  BY AsksCoordinator, Zenon DEF Refused
<1>2. ~server.up /\ Retry(n, proc[n].body)
      /\ UNCHANGED <<flow, role, given, disk, info, index, server, request, oper, fresh, lost, mishaps>>
  BY DEF Refused
<1>3. proc[n].body \in BOOLEAN
  BY <1>0, Zenon DEF Procs
<1>4. PICK v \in Procs : proc' = [proc EXCEPT ![n] = v] /\ v.pc \in {Pc(n), "failed"}
  BY <1>0, <1>2, <1>3, RetryIs, Zenon
<1>5. request' \in [Hosts -> Requests] /\ \A m \in Hosts : ReqAt(m)' = ReqAt(m)
  BY <1>0, <1>2, RequestSame, Zenon
<1>6. ReqAt(n)' = "none"
  BY <1>2, <1>5, NoneAsked
<1>7. server' \in Servers /\ server'.saved = server.saved /\ (ServerUp' <=> ServerUp)
  BY <1>0, <1>2, ServerSame
<1> QED
  BY <1>0, <1>1, <1>2, <1>4, <1>5, <1>6, <1>7, ClientStep, Zenon

LEMMA RegisterOK ==
  ASSUME BInv, NEW n \in Hosts, Register(n)
  PROVE  BInv'
<1>0. ShapeInv /\ server \in Servers /\ proc \in [Hosts -> Procs] /\ proc[n] \in Procs
  BY InvParts
<1>1. n \in DOMAIN role /\ flow = "coordinator" /\ Pc(n) \in {"register", "credentials"}
      /\ proc[n].pc # "credentials"
  BY AsksCoordinator DEF Register
<1> DEFINE S == [server EXCEPT !.nodes = server.nodes \cup {n}]
           v == [proc[n] EXCEPT !.pc = "credentials", !.tries = 0, !.polls = 0]
<1>2. UNCHANGED <<flow, role, given, disk, info, index, request, oper, fresh, lost>>
  BY DEF Register
<1>3. server' = server \/ server' = S
  BY Zenon DEF Register
<1>4. proc' = [proc EXCEPT ![n] = v] \/ Retry(n, FALSE)
  BY <1>0, Zenon DEF Register
<1>5. mishaps' \in 0..MaxMishaps
  BY <1>0, MishapsIn, Zenon DEF Register
<1>6. server' \in Servers /\ server'.saved = server.saved /\ (ServerUp' <=> ServerUp)
  <2>1. S \in Servers /\ S.saved = server.saved /\ S.up = server.up
    BY <1>0 DEF Servers
  <2> HIDE DEF S
  <2>2. CASE server' = S
    BY <2>1, <2>2 DEF ServerUp
  <2> QED
    BY <1>0, <1>3, <2>2, ServerSame
<1>7. \E u \in Procs : proc' = [proc EXCEPT ![n] = u] /\ u.pc \in {"register", "credentials", "failed"}
  <2>1. v \in Procs /\ v.pc = "credentials"
    <3>1. 0 \in 0..(Tries - 1) /\ 0 \in 0..(Polls - 1) /\ "credentials" \in Pcs
      BY BootAssumption DEF Pcs
    <3> QED
      BY <1>0, <3>1, Zenon DEF Procs
  <2>2. CASE Retry(n, FALSE)
    <3>1. FALSE \in BOOLEAN
      OBVIOUS
    <3> QED
      BY <1>0, <1>1, <2>2, <3>1, RetryIs, Zenon
  <2> HIDE DEF v
  <2> QED
    BY <1>4, <2>1, <2>2, Zenon
<1> HIDE DEF S, v
<1>8. request' \in [Hosts -> Requests] /\ \A m \in Hosts : ReqAt(m)' = ReqAt(m)
  BY <1>0, <1>2, RequestSame
<1>9. ReqAt(n)' = "none"
  BY <1>1, <1>8, NoneAsked, Zenon
<1> QED
  BY <1>1, <1>2, <1>5, <1>6, <1>7, <1>8, <1>9, ClientStep, Zenon

LEMMA RangeOK ==
  ASSUME BInv, NEW n \in Hosts, CredentialsRange(n)
  PROVE  BInv'
<1>0. /\ ShapeInv /\ server \in Servers /\ proc \in [Hosts -> Procs] /\ proc[n] \in Procs /\ mishaps \in 0..MaxMishaps
      /\ index \in 1..2 /\ (flow = "recover" => index = 1) /\ request \in [Hosts -> Requests]
  BY InvParts, Zenon
<1>1. n \in DOMAIN role /\ flow = "coordinator"
  BY AsksCoordinator, Zenon DEF CredentialsRange
<1>2. UNCHANGED <<flow, role, given, disk, index, server, oper, fresh, lost, mishaps>>
      /\ proc[n].pc = "credentials" /\ request[n].at = "none"
  BY DEF CredentialsRange
<1>3. ServerUp
  <2>1. server.up /\ server.up \in BOOLEAN
    BY <1>0, Zenon DEF CredentialsRange, Servers
  <2> QED
    BY <2>1, Zenon DEF ServerUp
<1> DEFINE r == [at |-> "ranged", address |-> {m \in server.nodes : role[m] \in EtcdRoles}]
<1>4. CASE request' = [request EXCEPT ![n] = r] /\ UNCHANGED <<proc, info>>
  <2>1. r \in Requests
    BY <1>0 DEF Requests, Servers
  <2> HIDE DEF r
  <2>2. request' \in [Hosts -> Requests] /\ \A m \in Hosts \ {n} : ReqAt(m)' = ReqAt(m)
    BY <1>0, <1>4, <2>1, RequestSet, Zenon
  <2>3. proc' = [proc EXCEPT ![n] = proc[n]]
    BY <1>0, <1>4
  <2>4. server' \in Servers /\ server'.saved = server.saved /\ (ServerUp' <=> ServerUp)
    BY <1>0, <1>2, ServerSame, Zenon
  <2> QED
    BY <1>0, <1>1, <1>2, <1>3, <1>4, <2>2, <2>3, <2>4, ClientStep, Zenon
<1>5. CASE End(n, "panic") /\ UNCHANGED request
  BY <1>0, <1>1, <1>2, <1>5, EndStep
<1> QED
  BY <1>4, <1>5, Zenon DEF CredentialsRange

LEMMA SetOK ==
  ASSUME BInv, NEW n \in Hosts, CredentialsSet(n)
  PROVE  BInv'
<1>0. /\ ShapeInv /\ server \in Servers /\ proc \in [Hosts -> Procs] /\ proc[n] \in Procs /\ mishaps \in 0..MaxMishaps
      /\ request \in [Hosts -> Requests] /\ request[n] \in Requests
  BY InvParts
<1>1. n \in DOMAIN role /\ flow = "coordinator" /\ Pc(n) = "credentials" /\ ServerUp
  BY AsksCoordinator DEF CredentialsSet
<1>2. UNCHANGED <<flow, role, given, disk, proc, info, index, oper, fresh, lost, mishaps>>
  BY DEF CredentialsSet
<1> DEFINE r == [request[n] EXCEPT !.at = "set"]
           S == [server EXCEPT !.etcd = request[n].address]
<1>3. r \in Requests
  BY <1>0 DEF Requests
<1>4. request' = [request EXCEPT ![n] = r] /\ server' = S
  BY <1>0 DEF CredentialsSet
<1>5. S \in Servers /\ S.saved = server.saved /\ S.up = server.up
  BY <1>0 DEF Servers, Requests
<1> HIDE DEF r, S
<1>6. request' \in [Hosts -> Requests] /\ \A m \in Hosts \ {n} : ReqAt(m)' = ReqAt(m)
  BY <1>0, <1>3, <1>4, RequestSet, Zenon
<1>7. proc' = [proc EXCEPT ![n] = proc[n]] /\ proc[n].pc = "credentials"
  BY <1>0, <1>1, <1>2, Zenon DEF Pc
<1>8. server' \in Servers /\ server'.saved = server.saved /\ (ServerUp' <=> ServerUp)
  BY <1>4, <1>5 DEF ServerUp
<1> QED
  BY <1>0, <1>1, <1>2, <1>6, <1>7, <1>8, ClientStep, Zenon

LEMMA ReplyOK ==
  ASSUME BInv, NEW n \in Hosts, CredentialsReply(n)
  PROVE  BInv'
<1>0. /\ ShapeInv /\ CaInv /\ Content /\ server \in Servers /\ proc \in [Hosts -> Procs] /\ proc[n] \in Procs
      /\ request \in [Hosts -> Requests] /\ index \in 1..2 /\ (flow = "recover" => index = 1)
  BY InvParts
<1>1. n \in DOMAIN role /\ flow = "coordinator" /\ Pc(n) = "credentials" /\ ServerUp
  BY AsksCoordinator DEF CredentialsReply
<1>2. UNCHANGED <<flow, role, given, disk, index, server, oper, fresh, lost>>
  BY DEF CredentialsReply
<1>3. mishaps' \in 0..MaxMishaps
  BY <1>0, MishapsIn, Zenon DEF CredentialsReply
<1>4. NoRequest \in Requests /\ NoRequest.at = "none"
  BY DEF NoRequest, Requests
<1>5. request' \in [Hosts -> Requests] /\ ReqAt(n)' = "none" /\ \A m \in Hosts \ {n} : ReqAt(m)' = ReqAt(m)
  BY <1>0, <1>4, RequestSet, Zenon DEF CredentialsReply
<1>6. server' \in Servers /\ server'.saved = server.saved /\ (ServerUp' <=> ServerUp)
  BY <1>0, <1>2, ServerSame
<1> DEFINE poll == [proc[n] EXCEPT !.polls = proc[n].polls + 1]
           over == [NoProc EXCEPT !.pc = "failed"]
           v == IF proc[n].polls + 1 < Polls THEN poll ELSE over
<1>7. \/ UNCHANGED info /\ proc' = [proc EXCEPT ![n] = v]
      \/ \E etcd : Configured(n, [ca |-> server.saved, etcd |-> etcd]) /\ Fine
      \/ UNCHANGED info /\ Retry(n, TRUE)
  BY Zenon DEF CredentialsReply
<1>8. v \in Procs /\ v.pc \in {"credentials", "failed"}
  <2>1. ASSUME proc[n].polls + 1 < Polls PROVE poll \in Procs /\ poll.pc = "credentials"
    <3>1. proc[n].polls + 1 \in 0..(Polls - 1)
      BY <1>0, <2>1, BootAssumption DEF Procs
    <3> QED
      BY <1>0, <1>1, <3>1 DEF Procs, Pc
  <2>2. over \in Procs /\ over.pc = "failed"
    <3>1. "failed" \in Pcs /\ 0 \in Nat /\ TRUE \in BOOLEAN
      BY DEF Pcs
    <3> QED
      BY <3>1, ProcMade, Zenon
  <2> HIDE DEF poll, over
  <2> QED
    BY <2>1, <2>2
<1> HIDE DEF v
<1>9. CASE UNCHANGED info /\ proc' = [proc EXCEPT ![n] = v]
  BY <1>1, <1>2, <1>3, <1>5, <1>6, <1>8, <1>9, ClientStep, Zenon
<1>10. CASE UNCHANGED info /\ Retry(n, TRUE)
  <2>1. TRUE \in BOOLEAN
    OBVIOUS
  <2>2. PICK u \in Procs : proc' = [proc EXCEPT ![n] = u] /\ u.pc \in {Pc(n), "failed"}
    BY <1>0, <1>10, <2>1, RetryIs, Zenon
  <2> QED
    BY <1>1, <1>2, <1>3, <1>5, <1>6, <1>10, <2>2, ClientStep, Zenon
<1>11. ASSUME NEW etcd, Configured(n, [ca |-> server.saved, etcd |-> etcd])
       PROVE  BInv'
  <2> DEFINE cfg == [ca |-> server.saved, etcd |-> etcd]
  <2>1. cfg.ca = server.saved /\ Configured(n, cfg)
    BY <1>11
  <2> HIDE DEF cfg
  <2>2. fresh' \in Nat /\ fresh' >= fresh /\ cfg.ca \in 1..fresh'
    BY <1>0, <1>1, <1>2, <2>1 DEF CaInv
  <2>3. Given /\ cfg.ca = KnownCA
    BY <1>0, <1>1, <2>1 DEF CaInv, KnownCA
  <2> QED
    BY <1>0, <1>1, <1>2, <1>3, <1>5, <2>1, <2>2, <2>3, ConfiguredStep, Zenon
<1> QED
  BY <1>7, <1>9, <1>10, <1>11, Zenon

\* A step of the coordinator, while it works for no host.  Nothing has an
\* authority before the coordinator has one.
LEMMA ServerStep ==
  ASSUME BInv, flow = "coordinator", UNCHANGED <<flow, role, given, disk, proc, info, index, lost>>,
         mishaps' \in 0..MaxMishaps, server' \in Servers, request' \in [Hosts -> Requests],
         \A m \in Hosts : ReqAt(m)' = "none", fresh' \in Nat, fresh' >= fresh,
         server'.saved \in 0..fresh', ServerUp' => server'.saved >= 1,
         server'.saved = server.saved \/ server.saved = 0,
         oper' = oper \/ (oper'.ca = server'.saved /\ server'.saved >= 1)
  PROVE  BInv'
<1>0. ShapeInv /\ ProcInv /\ CaInv /\ Content /\ First \in Hosts /\ DOMAIN role \subseteq Hosts /\ index \in 1..2
  BY InvParts
<1>1. Frame
  BY FrameSame
<1>2. proc' \in [Hosts -> Procs] /\ \A m : Pc(m)' = Pc(m) /\ AtOf(m)' = AtOf(m) /\ (Boots(m)' <=> Boots(m))
  BY <1>0 DEF ShapeInv, Pc, AtOf, Boots
<1>3. disk' = [m \in Hosts |-> disk'[m]] /\ \A m \in Hosts : Dom(m)' = Dom(m) /\ \A f : Val(m, f)' = Val(m, f)
  BY <1>0, DiskSame
<1>4. info' = [m \in Hosts |-> info'[m]] /\ \A m \in Hosts : Ca(m)' = Ca(m)
  BY <1>0, InfoSame
<1>5. Others(First)
  BY <1>2, <1>3, <1>4, Zenon DEF Others
<1>6. ShapeInv'
  BY <1>0, <1>2, <1>3, <1>4, ShapeStep, Zenon DEF ShapeInv
<1>7. ProcInv'
  <2>1. \A m : PlanOf(m)' = PlanOf(m)
    BY Zenon DEF PlanOf
  <2> QED
    BY <1>0, <1>2, <2>1, Zenon DEF ProcInv
<1>8. CaInv'
  <2>1. \A f \in Dom(First)' : Val(First, f)' \in 1..fresh'
    BY <1>0, <1>3 DEF CaInv
  <2>2. Ca(First)' \in 0..fresh' /\ (Boots(First)' => Ca(First)' >= 1)
    BY <1>0, <1>2, <1>4 DEF CaInv
  <2>3. oper' = NoInfo \/ oper'.ca \in 1..fresh'
    BY <1>0 DEF CaInv
  <2> QED
    BY <1>0, <1>1, <1>5, <2>1, <2>2, <2>3, CaStep, ZenonT(20)
<1>9. DiskInv' /\ SameInv'
  <2>1. \A m : Reach(m)' = Reach(m) /\ Left(m)' = Left(m) /\ Hit(m)' = Hit(m)
    BY <1>2, Zenon DEF PlanOf, Reach, Left, Hit
  <2>2. DiskInv'
    <3> SUFFICES ASSUME NEW m \in Hosts
                 PROVE  (/\ m \in DOMAIN role => Dom(m) \subseteq Reach(m)
                         /\ m \notin DOMAIN role => Dom(m) = {}
                         /\ "apiserver up" \in Dom(m) => "ca" \in Dom(m)
                         /\ Pc(m) = "run" => /\ Left(m) \ {Gen} \subseteq Dom(m)
                                             /\ Kept => Left(m) \subseteq Dom(m))'
      BY Zenon DEF DiskInv
    <3>1. /\ Dom(m)' = Dom(m) /\ Pc(m)' = Pc(m) /\ Left(m)' = Left(m) /\ Reach(m)' = Reach(m)
          /\ role' = role /\ (Kept' => Kept)
      BY <1>1, <1>2, <1>3, <2>1, Zenon DEF Frame
    <3> QED
      BY <1>0, <3>1, Zenon DEF Content, DiskInv
  <2>3. SameInv'
    BY <1>0, <1>1, <1>2, <1>3, <1>4, <2>1 DEF Content, SameInv, Frame
  <2> QED
    BY <2>2, <2>3, Zenon
<1>10. Given' /\ Given
  BY <1>0, <1>1, Zenon DEF CaInv, Frame
<1>11. GivenInv'
  <2>1. KnownCA = server.saved /\ KnownCA' = server'.saved
    BY DEF KnownCA
  <2>2. \A m \in Hosts : \A f \in Dom(m) : Val(m, f) = server.saved /\ server.saved # 0
    BY <1>0, <1>10, <2>1 DEF Content, GivenInv, CaInv
  <2>3. \A m \in Hosts : Boots(m) => Ca(m) = server.saved /\ server.saved # 0
    BY <1>0, <1>10, <2>1 DEF Content, GivenInv, CaInv
  <2>4. oper = NoInfo \/ (oper.ca = server.saved /\ server.saved # 0)
    BY <1>0, <1>10, <2>1 DEF Content, GivenInv, CaInv
  <2>5. \A m \in Hosts : \A f \in Dom(m)' : Val(m, f)' = server'.saved
    BY <1>3, <2>2
  <2>6. \A m \in Hosts : Boots(m)' => Ca(m)' = server'.saved
    BY <1>2, <1>4, <2>3
  <2>7. oper' = NoInfo \/ oper'.ca = server'.saved
    BY <2>4
  <2> QED
    BY <2>1, <2>5, <2>6, <2>7, Zenon DEF GivenInv
<1>12. MadeInv'
  BY <1>10 DEF MadeInv
<1> QED
  BY <1>6, <1>7, <1>8, <1>9, <1>11, <1>12, Zenon DEF BInv, Content

LEMMA NoRequests ==
  ASSUME request' = [n \in Hosts |-> NoRequest]
  PROVE  request' \in [Hosts -> Requests] /\ \A m \in Hosts : ReqAt(m)' = "none"
  BY DEF NoRequest, Requests, ReqAt

LEMMA UpIs ==
  ASSUME server.up, server \in Servers
  PROVE  ServerUp
<1>1. server.up \in BOOLEAN
  BY Zenon DEF Servers
<1> QED
  BY <1>1, Zenon DEF ServerUp

LEMMA ServerStartOK ==
  ASSUME BInv, ServerStart
  PROVE  BInv'
<1>0. ShapeInv /\ CaInv /\ server \in Servers /\ mishaps \in 0..MaxMishaps
  BY InvParts
<1>1. flow = "coordinator" /\ ~server.up /\ Made(server.saved) /\ mishaps' = mishaps
      /\ UNCHANGED <<flow, role, given, disk, proc, info, index, request, oper, lost>>
  BY DEF ServerStart, Fine
<1> DEFINE a == Authority(server.saved)
<1>2. fresh \in Nat /\ server.saved \in 0..fresh
  BY <1>0 DEF CaInv
<1>3. fresh' \in Nat /\ fresh' >= fresh /\ a \in 1..fresh' /\ (server.saved # 0 => a = server.saved)
  BY <1>1, <1>2, AuthorityMade, Zenon
<1>4. server' = [up |-> TRUE, saved |-> a, nodes |-> {}, etcd |-> {}]
  BY Zenon DEF ServerStart
<1> HIDE DEF a
<1>5. server' \in Servers /\ server'.saved = a
  BY <1>3, <1>4 DEF Servers
<1>6. request' \in [Hosts -> Requests] /\ \A m \in Hosts : ReqAt(m)' = ReqAt(m)
  BY <1>0, <1>1, RequestSame, Zenon
<1>7. \A m \in Hosts : ReqAt(m) = "none"
  BY <1>1, NoneAsked
<1> QED
  BY <1>0, <1>1, <1>3, <1>5, <1>6, <1>7, ServerStep

LEMMA ServerEndOK ==
  ASSUME BInv, ServerKill \/ WaitBootrap
  PROVE  BInv'
<1>0. ShapeInv /\ CaInv /\ server \in Servers /\ mishaps \in 0..MaxMishaps
  BY InvParts
<1> DEFINE S == [server EXCEPT !.up = FALSE, !.nodes = {}]
<1>1. /\ server.up /\ server' = S /\ request' = [n \in Hosts |-> NoRequest]
      /\ UNCHANGED <<flow, role, given, disk, proc, info, index, fresh, lost>>
  BY DEF ServerKill, WaitBootrap
<1>2. S \in Servers /\ S.saved = server.saved
  BY <1>0, Zenon DEF Servers
<1> HIDE DEF S
<1>3. ServerUp
  BY <1>0, <1>1, UpIs
<1>4. flow = "coordinator" /\ fresh' \in Nat /\ fresh' >= fresh /\ server'.saved \in 0..fresh' /\ server'.saved >= 1
  BY <1>0, <1>1, <1>2, <1>3 DEF CaInv
<1>5. request' \in [Hosts -> Requests] /\ \A m \in Hosts : ReqAt(m)' = "none"
  BY <1>1, NoRequests
<1>6. oper' = oper \/ oper'.ca = server'.saved
  BY <1>1, <1>2 DEF ServerKill, WaitBootrap
<1>7. mishaps' \in 0..MaxMishaps
  BY <1>0, MishapsIn DEF ServerKill, WaitBootrap, Fine
<1> QED
  BY <1>1, <1>2, <1>4, <1>5, <1>6, <1>7, ServerStep, Zenon

LEMMA WriteIs ==
  ASSUME ShapeInv, NEW n \in Hosts, NowOK(n), NEW files, NEW ca, Write(n, files, ca), files \subseteq NowWrites(n)
  PROVE  /\ Writes(n, files, ca) /\ disk' = [m \in Hosts |-> disk'[m]]
         /\ \A m \in Hosts \ {n} : Dom(m)' = Dom(m) /\ \A f : Val(m, f)' = Val(m, f)
<1> DEFINE new == files \ (NowKeeps(n) \cap Dom(n))
           old == Dom(n) \ NowRemoves(n)
           d == [f \in new \cup old |-> IF f \in new THEN ca ELSE Val(n, f)]
<1>1. disk' = [disk EXCEPT ![n] = d]
  BY Zenon DEF Write, Current, NowKeeps, NowRemoves, KeepsAt, RemovesAt, PlanOf, AtOf, Dom, Val
<1>2. disk' = [m \in Hosts |-> disk'[m]] /\ disk'[n] = d
      /\ \A m \in Hosts \ {n} : Dom(m)' = Dom(m) /\ \A f : Val(m, f)' = Val(m, f)
  <2> HIDE DEF d
  <2> QED
    BY <1>1, DiskSet, Zenon
<1>3. Dom(n)' = new \cup old /\ \A f \in new \cup old : Val(n, f)' = IF f \in new THEN ca ELSE Val(n, f)
  BY <1>2 DEF Dom, Val
<1>4. new \cup old = old \cup files
  BY Zenon DEF NowOK
<1> QED
  BY <1>2, <1>3, <1>4, Zenon DEF Writes

LEMMA AdvanceIs ==
  ASSUME ShapeInv, ProcInv, NEW n \in Hosts, Pc(n) = "run", Advance(n), role' = role
  PROVE  /\ Advances(n) /\ Boots(n)' /\ proc' \in [Hosts -> Procs]
         /\ Pc(n)' = "run" => AtOf(n)' \in 1..Len(PlanOf(n))
         /\ \A m \in Hosts \ {n} : Pc(m)' = Pc(m) /\ AtOf(m)' = AtOf(m)
<1> DEFINE p == PlanOf(n)
           k == AtOf(n)
           l == Len(PlanOf(n))
<1>1. n \in DOMAIN role /\ k \in 1..l /\ l \in Nat \ {0}
  <2>1. n \in DOMAIN role /\ k \in 1..l /\ role[n] \in Roles
    BY DEF ShapeInv, ProcInv
  <2> QED
    BY <2>1, PlanOK, Zenon DEF PlanOf
<1>2. k \in Nat \ {0}
  BY <1>1
<1>3. /\ Written(p, k + 1) \subseteq (Written(p, k) \ RemovesAt(p, k)) \cup WritesAt(p, k)
      /\ Touched(p, k + 1) \subseteq Touched(p, k) \cup WritesAt(p, k) \cup RemovesAt(p, k)
  BY <1>2, WrittenNext, Zenon
<1>4. PlanOf(n)' = PlanOf(n)
  BY Zenon DEF PlanOf
<1>5. CASE k < l
  <2> DEFINE v == [NoProc EXCEPT !.pc = "run", !.at = k + 1]
  <2>1. "run" \in Pcs /\ k + 1 \in Nat /\ TRUE \in BOOLEAN /\ k + 1 \in 1..l
    BY <1>1, <1>5 DEF Pcs
  <2>2. v \in Procs /\ v.pc = "run" /\ v.at = k + 1
    BY <2>1, ProcMade, Zenon
  <2>3. proc' = [proc EXCEPT ![n] = v]
    BY <1>5 DEF Advance, PlanOf, AtOf
  <2> HIDE DEF v
  <2>4. proc' \in [Hosts -> Procs] /\ Pc(n)' = "run" /\ AtOf(n)' = k + 1
        /\ \A m \in Hosts \ {n} : Pc(m)' = Pc(m) /\ AtOf(m)' = AtOf(m)
    BY <2>2, <2>3, ProcSet, Zenon
  <2>5. Left(n)' = Written(p, k + 1) /\ Hit(n)' = Touched(p, k + 1)
    BY <1>4, <2>4, Zenon DEF Left, Hit
  <2>6. Advances(n)
    BY <1>3, <2>4, <2>5, Zenon DEF Advances, Left, Hit, NowWrites, NowRemoves
  <2>7. Boots(n)' /\ AtOf(n)' \in 1..Len(PlanOf(n))
    BY <2>1, <2>4 DEF Boots
  <2> QED
    BY <2>4, <2>6, <2>7
<1>6. CASE ~(k < l)
  <2> DEFINE v == [NoProc EXCEPT !.pc = "done"]
  <2>1. "done" \in Pcs /\ 0 \in Nat /\ TRUE \in BOOLEAN
    BY DEF Pcs
  <2>2. v \in Procs /\ v.pc = "done"
    BY <2>1, ProcMade, Zenon
  <2>3. proc' = [proc EXCEPT ![n] = v]
    BY <1>6 DEF Advance, PlanOf, AtOf
  <2> HIDE DEF v
  <2>4. proc' \in [Hosts -> Procs] /\ Pc(n)' = "done"
        /\ \A m \in Hosts \ {n} : Pc(m)' = Pc(m) /\ AtOf(m)' = AtOf(m)
    BY <2>2, <2>3, ProcSet, Zenon
  <2>5. k = l
    BY <1>1, <1>6
  <2>6. Reach(n) = Touched(p, k + 1)
    BY <2>5, Zenon DEF Reach
  <2>7. Advances(n) /\ Boots(n)'
    BY <1>3, <2>4, <2>6, Zenon DEF Advances, Hit, NowWrites, NowRemoves, Boots
  <2> QED
    BY <2>4, <2>7
<1> QED
  BY <1>5, <1>6, Zenon

\* A stage that is done, or broken off after some of its files.
LEMMA WorkStep ==
  ASSUME BInv, NEW n \in Hosts, Pc(n) = "run", NEW files, NEW ca, Write(n, files, ca),
         files \subseteq NowWrites(n), Source(n, ca),
         UNCHANGED <<flow, role, given, index, server, request, fresh, lost>>, mishaps' \in 0..MaxMishaps,
         Posts(n) \/ UNCHANGED oper,
         \/ files = NowWrites(n) /\ Advance(n) /\ UNCHANGED info
         \/ End(n, "failed")
  PROVE  BInv'
<1>0. /\ ShapeInv /\ ProcInv /\ CaInv /\ Content /\ First \in DOMAIN role /\ DOMAIN role \subseteq Hosts
      /\ role[First] = "Hybrid" /\ index \in 1..2 /\ (flow = "recover" => index = 1) /\ lost' \in BOOLEAN
  BY InvParts DEF ShapeInv
<1>1. n \in DOMAIN role /\ NowOK(n)
  BY <1>0, StageNow
<1>2. Frame
  BY FrameSame, Zenon
<1>3. /\ Writes(n, files, ca) /\ disk' = [m \in Hosts |-> disk'[m]]
      /\ \A m \in Hosts \ {n} : Dom(m)' = Dom(m) /\ \A f : Val(m, f)' = Val(m, f)
  BY <1>0, <1>1, WriteIs, Zenon
<1>4. Ca(n) \in 1..fresh /\ ca \in 1..fresh
  <2>1. Ca(n) \in 1..fresh
    BY <1>0 DEF CaInv, Boots
  <2>2. \A m \in Hosts : "apiserver up" \in Dom(m) => Val(m, "ca") \in 1..fresh
    BY <1>0, Zenon DEF CaInv, Content, DiskInv
  <2> QED
    BY <2>1, <2>2, Zenon DEF Source
<1>5. oper' = oper \/ ("posted" \in NowWrites(n) /\ oper' # NoInfo /\ oper'.ca = Ca(n))
  <2>1. oper' = oper \/ ("posted" \in NowWrites(n) /\ oper' = info[n])
    BY Zenon DEF Posts, Current, NowWrites, WritesAt, PlanOf, AtOf
  <2>2. fresh \in Nat /\ NoInfo.ca = 0
    BY <1>0 DEF CaInv, NoInfo
  <2>3. Ca(n) # 0
    BY <1>4, <2>2
  <2>4. info[n] # NoInfo /\ info[n].ca = Ca(n)
    BY <2>2, <2>3, Zenon DEF Ca
  <2> QED
    BY <2>1, <2>4, Zenon
<1>6. /\ proc' \in [Hosts -> Procs] /\ Finishes(n, files)
      /\ Pc(n)' = "run" => AtOf(n)' \in 1..Len(PlanOf(n))
      /\ \A m \in Hosts \ {n} : Pc(m)' = Pc(m) /\ AtOf(m)' = AtOf(m)
      /\ info' = [m \in Hosts |-> info'[m]] /\ \A m \in Hosts \ {n} : Ca(m)' = Ca(m)
      /\ Ca(n)' \in 0..fresh /\ (Boots(n)' => Ca(n)' = Ca(n)) /\ Pc(n)' \notin {"register", "credentials"}
  <2>1. CASE files = NowWrites(n) /\ Advance(n) /\ UNCHANGED info
    <3>1. Advances(n) /\ Pc(n)' \notin {"register", "credentials"}
      BY <1>0, <2>1, AdvanceIs DEF Advances
    <3>2. info' = [m \in Hosts |-> info'[m]] /\ \A m \in Hosts : Ca(m)' = Ca(m)
      BY <1>0, <2>1, InfoSame
    <3>3. Ca(n)' \in 0..fresh
      BY <1>4, <3>2
    <3> QED
      BY <1>0, <2>1, <3>1, <3>2, <3>3, AdvanceIs, ZenonT(20) DEF Finishes
  <2>2. CASE End(n, "failed")
    <3> DEFINE v == [NoProc EXCEPT !.pc = "failed"]
    <3>1. "failed" \in Pcs /\ 0 \in Nat /\ TRUE \in BOOLEAN
      BY DEF Pcs
    <3>2. v \in Procs /\ v.pc = "failed"
      BY <3>1, ProcMade, Zenon
    <3>3. proc' = [proc EXCEPT ![n] = v] /\ info' = [info EXCEPT ![n] = NoInfo]
      BY <2>2 DEF End
    <3> HIDE DEF v
    <3>4. proc' \in [Hosts -> Procs] /\ Pc(n)' = "failed" /\ \A m \in Hosts \ {n} : Pc(m)' = Pc(m) /\ AtOf(m)' = AtOf(m)
      BY <1>0, <3>2, <3>3, ProcSet, Zenon
    <3>5. info' = [m \in Hosts |-> info'[m]] /\ Ca(n)' = 0 /\ \A m \in Hosts \ {n} : Ca(m)' = Ca(m)
      <4>1. NoInfo.ca = 0
        BY DEF NoInfo
      <4> QED
        BY <1>0, <3>3, <4>1, InfoSet, Zenon
    <3>6. 0 \in 0..fresh
      BY <1>0 DEF CaInv
    <3> QED
      BY <3>4, <3>5, <3>6 DEF Finishes, Boots
  <2> QED
    BY <2>1, <2>2, Zenon
<1>7. Others(n)
  BY <1>3, <1>6 DEF Others
<1>8. server' \in Servers /\ (ServerUp' <=> ServerUp) /\ server'.saved = server.saved
  BY <1>0, ServerSame
<1>9. request' \in [Hosts -> Requests] /\ \A m \in Hosts : ReqAt(m)' = ReqAt(m)
  BY <1>0, RequestSame, Zenon
<1>10. ShapeInv'
  BY <1>0, <1>3, <1>6, <1>8, <1>9, ShapeStep, Zenon
<1>11. ProcInv'
  <2>1. ReqAt(n) = "none"
    BY <1>0 DEF ProcInv
  <2> QED
    BY <1>0, <1>1, <1>2, <1>6, <1>7, <1>8, <1>9, <2>1, ProcStep, Zenon
<1>12. CaInv'
  <2>1. \A f \in Dom(n)' : Val(n, f)' \in 1..fresh'
    BY <1>0, <1>3, <1>4, Zenon DEF CaInv, Writes
  <2>2. fresh' \in Nat /\ fresh' >= fresh /\ Ca(n)' \in 0..fresh' /\ (Boots(n)' => Ca(n)' >= 1)
    BY <1>0, <1>4, <1>6 DEF CaInv
  <2>3. oper' = NoInfo \/ oper'.ca \in 1..fresh'
    BY <1>0, <1>4, <1>5, Zenon DEF CaInv
  <2>4. server'.saved \in 0..fresh' /\ (ServerUp' => server'.saved >= 1 /\ flow = "coordinator")
    BY <1>0, <1>8 DEF CaInv
  <2> QED
    BY <1>0, <1>2, <1>7, <2>1, <2>2, <2>3, <2>4, CaStep, Zenon
<1>13. KnownCA' = KnownCA
  BY Zenon DEF KnownCA
<1>14. Works(n, files, ca)
  BY <1>1, <1>2, <1>3, <1>5, <1>6, <1>7, <1>13, Zenon DEF Works
<1> QED
  BY <1>0, <1>1, <1>6, <1>10, <1>11, <1>12, <1>14, WorksContent, ZenonT(20) DEF BInv

LEMMA RunActionOK ==
  ASSUME BInv, NEW n \in Hosts, RunAction(n)
  PROVE  BInv'
<1>0. ShapeInv /\ ProcInv /\ mishaps \in 0..MaxMishaps /\ Pc(n) = "run"
  BY InvParts, Zenon DEF RunAction, Pc
<1>1. UNCHANGED <<flow, role, given, info, index, server, request, fresh, lost, mishaps>> /\ Advance(n) /\ Posts(n)
  BY Zenon DEF RunAction
<1>2. PICK ca \in (IF Joins(n) THEN {disk[m]["ca"] : m \in Serving} ELSE {info[n].ca}) :
        Write(n, Current(n).writes, ca)
  BY Zenon DEF RunAction
<1>3. Current(n).writes = NowWrites(n)
  BY DEF Current, NowWrites, WritesAt, PlanOf, AtOf
<1>4. Source(n, ca)
  <2>1. CASE Joins(n)
    <3>1. role[n] = "Worker"
      BY <1>0, <1>3, <2>1, StageNow, Zenon DEF Joins
    <3>2. PICK m \in Serving : ca = disk[m]["ca"]
      BY <1>2, <2>1, Zenon
    <3> QED
      BY <3>1, <3>2, Zenon DEF Source, Serving, Has, Dom, Val
  <2>2. CASE ~Joins(n)
    BY <1>2, <2>2, Zenon DEF Source, Ca
  <2> QED
    BY <2>1, <2>2, Zenon
<1> QED
  BY <1>0, <1>1, <1>2, <1>3, <1>4, WorkStep, Zenon

LEMMA ActionFailsOK ==
  ASSUME BInv, NEW n \in Hosts, ActionFails(n)
  PROVE  BInv'
<1>0. /\ ShapeInv /\ ProcInv /\ Pc(n) = "run" /\ index \in 1..2 /\ (flow = "recover" => index = 1)
      /\ proc[n].pc # "credentials"
  BY InvParts, Zenon DEF ActionFails, Pc
<1>1. UNCHANGED <<flow, role, given, index, server, request, fresh, lost>> /\ End(n, "failed")
  BY Zenon DEF ActionFails
<1>2. mishaps' \in 0..MaxMishaps
  BY <1>0, MishapsIn, Zenon DEF ActionFails, Fails
<1>3. n \in DOMAIN role /\ request[n].at = "none"
  BY <1>0, StageNow, NoneAsked, Zenon
<1>4. CASE UNCHANGED <<disk, oper>>
  BY <1>0, <1>1, <1>2, <1>3, <1>4, EndStep, Zenon
<1>5. CASE (\E part \in Parts(Current(n).writes) : Write(n, part, info[n].ca)) /\ (Posts(n) \/ UNCHANGED oper)
  <2>1. PICK part \in Parts(Current(n).writes) : Write(n, part, info[n].ca)
    BY <1>5
  <2>2. Current(n).writes = NowWrites(n)
    BY Zenon DEF Current, NowWrites, WritesAt, PlanOf, AtOf
  <2>3. part \subseteq NowWrites(n)
    BY <2>1, <2>2 DEF Parts
  <2>4. Source(n, info[n].ca)
    BY DEF Source, Ca
  <2> QED
    BY <1>0, <1>1, <1>2, <1>5, <2>1, <2>3, <2>4, WorkStep, ZenonT(20)
<1> QED
  BY <1>4, <1>5, Zenon DEF ActionFails

LEMMA GenNotWrittenOK ==
  ASSUME BInv, NEW n \in Hosts, GenNotWritten(n)
  PROVE  BInv'
<1>0. /\ ShapeInv /\ ProcInv /\ CaInv /\ Content /\ First \in DOMAIN role /\ DOMAIN role \subseteq Hosts
      /\ index \in 1..2 /\ (flow = "recover" => index = 1) /\ Pc(n) = "run"
  BY InvParts, Zenon DEF GenNotWritten, Pc
<1>1. /\ UNCHANGED <<flow, role, given, disk, info, index, server, request, oper, fresh>>
      /\ lost' = TRUE /\ Advance(n)
  BY Zenon DEF GenNotWritten
<1>2. mishaps' \in 0..MaxMishaps
  BY <1>0, MishapsIn, Zenon DEF GenNotWritten, Fails
<1>3. n \in DOMAIN role /\ NowOK(n)
  BY <1>0, StageNow, Zenon
<1>4. NowWrites(n) = {Gen}
  BY Zenon DEF GenNotWritten, Current, NowWrites, WritesAt, PlanOf, AtOf, Gen
<1>5. Frame /\ ~Kept' /\ lost' \in BOOLEAN
  <2>1. ~Kept'
    BY <1>1, Zenon DEF Kept
  <2> QED
    BY <1>1, <2>1 DEF Frame, Given
<1>6. /\ Advances(n) /\ Boots(n)' /\ proc' \in [Hosts -> Procs]
      /\ Pc(n)' = "run" => AtOf(n)' \in 1..Len(PlanOf(n))
      /\ \A m \in Hosts \ {n} : Pc(m)' = Pc(m) /\ AtOf(m)' = AtOf(m)
      /\ Pc(n)' \notin {"register", "credentials"}
  BY <1>0, <1>1, AdvanceIs, Zenon DEF Advances
<1>7. disk' = [m \in Hosts |-> disk'[m]]
      /\ \A m \in Hosts : SameDisk(m) /\ Dom(m)' = Dom(m) /\ \A f : Val(m, f)' = Val(m, f)
  BY <1>0, <1>1, DiskSame
<1>8. info' = [m \in Hosts |-> info'[m]] /\ \A m \in Hosts : Ca(m)' = Ca(m)
  BY <1>0, <1>1, InfoSame, Zenon
<1>9. Others(n)
  BY <1>6, <1>7, <1>8 DEF Others
<1>10. server' \in Servers /\ (ServerUp' <=> ServerUp)
  BY <1>0, <1>1, ServerSame
<1>11. request' \in [Hosts -> Requests] /\ \A m \in Hosts : ReqAt(m)' = ReqAt(m)
  BY <1>0, <1>1, RequestSame, Zenon
<1>12. ShapeInv'
  BY <1>0, <1>1, <1>2, <1>5, <1>6, <1>7, <1>8, <1>10, <1>11, ShapeStep, Zenon
<1>13. ProcInv'
  <2>1. ReqAt(n) = "none"
    BY <1>0, Zenon DEF ProcInv
  <2> QED
    BY <1>0, <1>3, <1>5, <1>6, <1>9, <1>10, <1>11, <2>1, ProcStep, Zenon
<1>14. CaInv'
  <2>1. \A f \in Dom(n)' : Val(n, f)' \in 1..fresh'
    BY <1>0, <1>1, <1>7, Zenon DEF CaInv
  <2>2. fresh' \in Nat /\ fresh' >= fresh /\ Ca(n)' \in 0..fresh' /\ (Boots(n)' => Ca(n)' >= 1)
    BY <1>0, <1>1, <1>8 DEF CaInv, Boots
  <2>3. oper' = NoInfo \/ oper'.ca \in 1..fresh'
    BY <1>0, <1>1, Zenon DEF CaInv
  <2>4. server'.saved \in 0..fresh' /\ (ServerUp' => server'.saved >= 1 /\ flow = "coordinator")
    BY <1>0, <1>1, <1>10 DEF CaInv
  <2> QED
    BY <1>0, <1>1, <1>5, <1>9, <2>1, <2>2, <2>3, <2>4, CaStep, Zenon
<1>15. KnownCA' = KnownCA
  BY <1>1, Zenon DEF KnownCA
<1>16. Loses(n)
  BY <1>0, <1>1, <1>3, <1>4, <1>5, <1>6, <1>7, <1>8, <1>9, <1>15, Zenon DEF Loses
<1> QED
  BY <1>0, <1>3, <1>12, <1>13, <1>14, <1>16, LosesContent, Zenon DEF BInv

LEMMA BootInit == Init => BInv
<1> SUFFICES ASSUME Init PROVE BInv
  OBVIOUS
<1>1. flow \in Flows /\ given \in BOOLEAN /\ lost \in BOOLEAN /\ (flow = "local" \/ Given)
  BY Zenon DEF Init, Flows, Given
<1>2. /\ DOMAIN role \subseteq Hosts /\ \A n \in DOMAIN role : role[n] \in Roles
      /\ First \in DOMAIN role /\ role[First] = "Hybrid"
  <2>1. First \in Hosts /\ First \notin Workers /\ "Worker" \in Roles /\ "Hybrid" \in Roles /\ Masters \subseteq Hosts
    BY BootAssumption DEF Hosts, Roles
  <2>2. CASE flow = "coordinator"
    <3>1. PICK n \in Masters, r \in Roles : role = [h \in {First, n} |-> IF h = First THEN "Hybrid" ELSE r]
      BY <2>2, Zenon DEF Init
    <3> QED
      BY <2>1, <3>1
  <2>3. CASE flow # "coordinator"
    <3>1. role = [n \in (IF given /\ flow # "other" THEN {First} ELSE Hosts) |-> IF n \in Workers THEN "Worker" ELSE "Hybrid"]
      BY <2>3 DEF Init
    <3>2. \E H \in SUBSET Hosts : First \in H /\ role = [n \in H |-> IF n \in Workers THEN "Worker" ELSE "Hybrid"]
      BY <2>1, <3>1, Zenon
    <3> QED
      BY <2>1, <3>2, Zenon
  <2> QED
    BY <2>2, <2>3
<1>3. /\ proc = [n \in Hosts |-> NoProc] /\ NoProc \in Procs /\ NoProc.pc = "idle"
      /\ request = [n \in Hosts |-> NoRequest] /\ NoRequest \in Requests /\ NoRequest.at = "none"
      /\ info = [n \in Hosts |-> NoInfo] /\ NoInfo.ca = 0
  <2>1. 0 \in 0..(Tries - 1) /\ 0 \in 0..(Polls - 1)
    BY BootAssumption
  <2>2. NoProc \in Procs /\ NoProc.pc = "idle"
    BY <2>1, Zenon DEF NoProc, Procs, Pcs
  <2>3. NoRequest \in Requests /\ NoRequest.at = "none" /\ NoInfo.ca = 0
    BY Zenon DEF NoRequest, Requests, NoInfo
  <2> QED
    BY <2>2, <2>3, Zenon DEF Init
<1>4. server \in Servers /\ server.saved = 0 /\ ~ServerUp
  BY Zenon DEF Init, Servers, ServerUp
<1>5. disk = [n \in Hosts |-> disk[n]] /\ \A n \in Hosts : Dom(n) = {}
  <2>1. disk = [n \in Hosts |-> <<>>]
    BY DEF Init
  <2>2. DOMAIN <<>> = {}
    OBVIOUS
  <2> QED
    BY <2>1, <2>2, Zenon DEF Dom
<1>6. \A n \in Hosts : Pc(n) = "idle" /\ ~Boots(n) /\ ReqAt(n) = "none" /\ Ca(n) = 0
  BY <1>3 DEF Pc, Boots, ReqAt, Ca
<1>7. ShapeInv
  <2>1. mishaps \in 0..MaxMishaps
    BY BootAssumption DEF Init
  <2>2. proc \in [Hosts -> Procs] /\ request \in [Hosts -> Requests] /\ info = [n \in Hosts |-> info[n]]
    BY <1>3
  <2> QED
    BY <1>1, <1>2, <1>4, <1>5, <2>1, <2>2, Zenon DEF ShapeInv
<1>8. ProcInv
  BY <1>6 DEF ProcInv
<1>9. CaInv
  <2>1. fresh \in Nat /\ (flow = "other" => fresh >= 2) /\ (Given /\ flow # "coordinator" => fresh >= 1)
    <3>1. fresh = IF flow = "other" THEN 2 ELSE IF given /\ flow # "coordinator" THEN 1 ELSE 0
      BY Zenon DEF Init
    <3> QED
      BY <3>1 DEF Given
  <2>2. index \in 1..2 /\ index = 1 /\ oper = NoInfo
    BY DEF Init
  <2> QED
    BY <1>1, <1>4, <1>5, <1>6, <2>1, <2>2 DEF CaInv
<1>10. DiskInv /\ SameInv
  BY <1>2, <1>5, <1>6, Zenon DEF DiskInv, SameInv
<1>11. GivenInv /\ MadeInv
  <2>1. oper = NoInfo /\ First \in Hosts
    BY Zenon DEF Init, Hosts
  <2> QED
    BY <1>5, <1>6, <2>1, Zenon DEF GivenInv, MadeInv
<1> QED
  BY <1>7, <1>8, <1>9, <1>10, <1>11 DEF BInv, Content

LEMMA BootNext == BInv /\ [Next]_vars => BInv'
<1> SUFFICES ASSUME BInv, [Next]_vars PROVE BInv'
  OBVIOUS
<1>1. CASE UNCHANGED vars
  <2>1. ShapeInv'
    BY <1>1, Zenon DEF vars, BInv, ShapeInv
  <2>2. \A n : PlanOf(n)' = PlanOf(n) /\ Pc(n)' = Pc(n) /\ AtOf(n)' = AtOf(n) /\ Ca(n)' = Ca(n)
               /\ Dom(n)' = Dom(n) /\ ReqAt(n)' = ReqAt(n) /\ \A f : Val(n, f)' = Val(n, f)
    BY <1>1, Zenon DEF vars, PlanOf, Pc, AtOf, Ca, Dom, ReqAt, Val
  <2>3. \A n : Left(n)' = Left(n) /\ Hit(n)' = Hit(n) /\ Reach(n)' = Reach(n) /\ (Boots(n)' <=> Boots(n))
    BY <2>2, Zenon DEF Left, Hit, Reach, Boots
  <2>4. (Given' <=> Given) /\ (Kept' <=> Kept) /\ (ServerUp' <=> ServerUp) /\ KnownCA' = KnownCA
    BY <1>1, Zenon DEF vars, Given, Kept, ServerUp, KnownCA
  <2>5. flow' = flow /\ role' = role /\ fresh' = fresh /\ oper' = oper /\ server' = server /\ index' = index
    BY <1>1, Zenon DEF vars
  <2>6. ProcInv'
    BY <2>2, <2>4, <2>5, Zenon DEF BInv, ProcInv
  <2>7. CaInv'
    BY <2>2, <2>3, <2>4, <2>5, Zenon DEF BInv, CaInv
  <2>8. DiskInv'
    BY <2>2, <2>3, <2>4, <2>5, Zenon DEF BInv, Content, DiskInv
  <2>9. SameInv'
    BY <2>2, <2>3, <2>4, <2>5, Zenon DEF BInv, Content, SameInv
  <2>10. GivenInv' /\ MadeInv'
    BY <2>2, <2>3, <2>4, <2>5, Zenon DEF BInv, Content, GivenInv, MadeInv
  <2> QED
    BY <2>1, <2>6, <2>7, <2>8, <2>9, <2>10, Zenon DEF BInv, Content
<1>2. CASE ServerStart \/ ServerKill \/ WaitBootrap
  BY <1>2, ServerStartOK, ServerEndOK, Zenon
<1>3. ASSUME NEW n \in Hosts, StartInit(n) \/ Heal(n) \/ Step(n) PROVE BInv'
  BY <1>3, StartInitOK, HealOK, CfgOK, RecoverOK, OperatorOK, RefusedOK, RegisterOK, RangeOK, SetOK, ReplyOK,
     RunActionOK, ActionFailsOK, GenNotWrittenOK, Zenon DEF Step, Configure, Credentials
<1> QED
  BY <1>1, <1>2, <1>3 DEF Next

LEMMA BootHolds == Spec => []BInv
  BY BootInit, BootNext, PTL DEF Spec

\* However the inits of the hosts, their retries and failures and the
\* coordinator interleave: every file comes from an authority that was made,
\* and Request.Do and the polls around it stay within their attempts.
THEOREM BootTyped == Spec => []TypeOK
<1>1. ASSUME BInv PROVE TypeOK
  <2>0. ShapeInv /\ ProcInv /\ CaInv
    BY <1>1 DEF BInv
  <2>1. \A n \in DOMAIN role : n \in Hosts /\ role[n] \in Roles /\ given \in BOOLEAN /\ lost \in BOOLEAN
    BY <2>0, Zenon DEF ShapeInv
  <2>2. \A n \in Hosts : \A f \in DOMAIN disk[n] : disk[n][f] \in 1..fresh
    BY <2>0, Zenon DEF CaInv, Dom, Val
  <2>3. ASSUME NEW n \in Hosts
        PROVE  /\ Running(n) \/ proc[n].pc \in Down \cup {"done"}
               /\ proc[n].tries \in 0..(Tries - 1) /\ proc[n].polls \in 0..(Polls - 1)
               /\ info[n].ca \in 0..fresh /\ request[n].address \subseteq Hosts
    <3>1. proc[n] \in Procs /\ request[n] \in Requests
      BY <2>0, Zenon DEF ShapeInv
    <3>2. proc[n].pc \in Pcs /\ proc[n].tries \in 0..(Tries - 1) /\ proc[n].polls \in 0..(Polls - 1)
          /\ request[n].address \subseteq Hosts
      BY <3>1, Zenon DEF Procs, Requests
    <3>3. info[n].ca \in 0..fresh
      BY <2>0, Zenon DEF CaInv, Ca
    <3> QED
      BY <3>2, <3>3 DEF Pcs, Running, Down
  <2>4. server.nodes \subseteq Hosts /\ server.saved \in 0..fresh
    BY <2>0, Zenon DEF ShapeInv, Servers, CaInv
  <2>5. oper.ca \in 0..fresh
    BY <2>0 DEF CaInv, NoInfo
  <2>6. index \in 1..2 /\ mishaps \in 0..MaxMishaps
    BY <2>0, Zenon DEF ShapeInv, CaInv
  <2> QED
    BY <2>1, <2>2, <2>3, <2>4, <2>5, <2>6, Zenon DEF TypeOK
<1> QED
  BY <1>1, BootHolds, PTL

\* The actions of every role but Master find the files and services that they
\* use, whatever earlier inits of the host were broken off, for every number
\* of hosts and every order of their steps.
THEOREM FilesAreFound == Spec => []ActionsFindTheirFiles
<1>1. ASSUME BInv PROVE ActionsFindTheirFiles
  <2> SUFFICES ASSUME NEW n \in Hosts, proc[n].pc = "run", role[n] # "Master"
               PROVE  Current(n).needs \subseteq DOMAIN disk[n]
    BY Zenon DEF ActionsFindTheirFiles
  <2>1. ShapeInv /\ ProcInv /\ DiskInv /\ Pc(n) = "run"
    BY <1>1, Zenon DEF BInv, Content, Pc
  <2>2. NowNeeds(n) \subseteq Left(n) \ {Gen}
    BY <2>1, StageNow, Zenon
  <2>3. Left(n) \ {Gen} \subseteq Dom(n)
    BY <2>1, Zenon DEF DiskInv
  <2> QED
    BY <2>2, <2>3, Zenon DEF NowNeeds, NeedsAt, PlanOf, AtOf, Current, Dom
<1> QED
  BY <1>1, BootHolds, PTL

LEMMA KeptIs ==
  ASSUME lost \in BOOLEAN, ~lost
  PROVE  Kept
  BY Zenon DEF Kept

\* A master whose init succeeded, perhaps after others that were broken off
\* with another authority, has certificates of one set of authorities only:
\* the stages of its plan replace or remove all that earlier inits left.
THEOREM MastersHaveOneAuthority == Spec => []SameAuthority
<1>1. ASSUME BInv PROVE SameAuthority
  <2> SUFFICES ASSUME NEW n \in DOMAIN role, proc[n].pc = "done", role[n] # "Worker", ~lost,
                      NEW f \in DOMAIN disk[n]
               PROVE  disk[n][f] = info[n].ca
    BY DEF SameAuthority
  <2>1. Kept
    BY <1>1, KeptIs, Zenon DEF BInv, ShapeInv
  <2> QED
    BY <1>1, <2>1, Zenon DEF BInv, Content, SameInv, Pc, Dom, Val, Ca
<1> QED
  BY <1>1, BootHolds, PTL

\* The hosts whose inits succeeded agree on the authorities, in every flow:
\* the local configuration, the recovered one, the coordinator's file, or
\* those that the first host made and finds again in wdrip.cfg.gen.
THEOREM ClusterHasOneAuthority == Spec => []OneAuthority
<1>1. ASSUME BInv PROVE OneAuthority
  <2> SUFFICES ASSUME NEW m \in DOMAIN role, NEW n \in DOMAIN role, proc[m].pc = "done", proc[n].pc = "done",
                      role[m] # "Worker", ~lost
               PROVE  /\ info[n].ca = info[m].ca
                      /\ "kubelet.conf" \in DOMAIN disk[n] => disk[n]["kubelet.conf"] = info[m].ca
    BY DEF OneAuthority
  <2>0. Content /\ m \in Hosts /\ n \in Hosts /\ First \in DOMAIN role /\ role[First] # "Worker"
    BY <1>1 DEF BInv, ShapeInv
  <2>1. Kept
    BY <1>1, KeptIs, Zenon DEF BInv, ShapeInv
  <2>2. Pc(m) = "done" /\ Pc(n) = "done" /\ Boots(m) /\ Boots(n)
    BY Zenon DEF Pc, Boots
  <2>3. Ca(n) = Ca(m) /\ \A f \in Dom(n) : Val(n, f) = Ca(m)
    <3>1. CASE Given
      BY <2>0, <2>2, <3>1, Zenon DEF Content, GivenInv
    <3>2. CASE ~Given
      <4>1. CASE m = First /\ n = First
        BY <2>0, <2>1, <2>2, <4>1, Zenon DEF Content, SameInv
      <4>2. CASE m = First /\ n # First
        BY <2>0, <2>1, <2>2, <3>2, <4>2, Zenon DEF Content, MadeInv
      <4>3. CASE m # First /\ n = First
        <5>1. Ca(n) = Ca(m)
          BY <2>0, <2>1, <2>2, <3>2, <4>3, Zenon DEF Content, MadeInv
        <5> QED
          BY <2>0, <2>1, <2>2, <4>3, <5>1, Zenon DEF Content, SameInv
      <4>4. CASE m # First /\ n # First
        BY <2>0, <2>1, <2>2, <3>2, <4>4, Zenon DEF Content, MadeInv
      <4> QED
        BY <4>1, <4>2, <4>3, <4>4, Zenon
    <3> QED
      BY <3>1, <3>2, Zenon
  <2> QED
    BY <2>3, Zenon DEF Ca, Dom, Val
<1> QED
  BY <1>1, BootHolds, PTL

(***************************************************************************)
(* The entry of a recovered cluster.                                       *)
(***************************************************************************)
Recovers == flow \in {"recover", "other"}
\* No host has begun to boot.
Untouched == oper = NoInfo /\ \A n \in Hosts : Dom(n) = {} /\ ~Boots(n)
EntryInv == Recovers => index = KnownCA \/ Untouched

LEMMA EntryInit == Init => EntryInv
<1> SUFFICES ASSUME Init PROVE EntryInv
  OBVIOUS
<1>1. oper = NoInfo /\ disk = [n \in Hosts |-> << >>] /\ proc = [n \in Hosts |-> NoProc]
  BY Zenon DEF Init
<1>2. DOMAIN << >> = {} /\ NoProc.pc = "idle"
  BY DEF NoProc
<1> QED
  BY <1>1, <1>2 DEF EntryInv, Untouched, Dom, Boots, Pc

\* The entry changes only to what the recovering host then boots with.
LEMMA EntryChange ==
  ASSUME BInv, Recovers, Next
  PROVE  KnownCA' = KnownCA /\ (index' = index \/ index' = KnownCA)
<1>1. flow' = flow
  BY Zenon DEF Next, ServerStart, ServerKill, WaitBootrap, StartInit, Heal, Step, Configure, InitFromCfg,
     InitFromRecover, InitFromOperator, Refused, Register, Credentials, CredentialsRange, CredentialsSet,
     CredentialsReply, RunAction, ActionFails, GenNotWritten
<1>2. KnownCA' = KnownCA
  BY <1>1 DEF Recovers, KnownCA
<1>3. index' = index \/ index' = Recovered
  BY Zenon DEF Next, ServerStart, ServerKill, WaitBootrap, StartInit, Heal, Step, Configure, InitFromCfg,
     InitFromRecover, InitFromOperator, Refused, Register, Credentials, CredentialsRange, CredentialsSet,
     CredentialsReply, RunAction, ActionFails, GenNotWritten
<1>4. Recovered = IF flow = "other" THEN KnownCA ELSE index
  BY DEF Recovered, KnownCA
<1> QED
  BY <1>2, <1>3, <1>4

LEMMA UntouchedStep ==
  ASSUME BInv, Recovers, Untouched, Next
  PROVE  index' = KnownCA \/ Untouched'
<1>0. ShapeInv /\ CaInv /\ proc \in [Hosts -> Procs] /\ flow # "coordinator"
  BY InvParts DEF Recovers
<1>1. ~OperatorUp
  BY Zenon DEF Untouched, OperatorUp
<1>2. ~(ServerStart \/ ServerKill \/ WaitBootrap)
  <2>1. ~ServerUp
    BY <1>0, Zenon DEF CaInv
  <2>2. server.up \in BOOLEAN
    BY <1>0, Zenon DEF ShapeInv, Servers
  <2>3. ~server.up
    BY <2>1, <2>2, Zenon DEF ServerUp
  <2> QED
    BY <1>0, <2>3, Zenon DEF ServerStart, ServerKill, WaitBootrap
<1>3. PICK n \in Hosts : StartInit(n) \/ Heal(n) \/ Step(n)
  BY <1>2, Zenon DEF Next
<1>4. ~(Refused(n) \/ Register(n) \/ Credentials(n))
  BY <1>0, AsksCoordinator, Zenon DEF Refused, Register, Credentials, CredentialsRange, CredentialsSet,
     CredentialsReply
<1>5. ~(RunAction(n) \/ ActionFails(n) \/ GenNotWritten(n))
  BY Zenon DEF Untouched, Boots, Pc, RunAction, ActionFails, GenNotWritten
<1>6. ~Heal(n) /\ ~InitFromCfg(n)
  BY <1>0, <1>1, Zenon DEF Heal, InitFromCfg, BootType, Recovers
<1>7. CASE StartInit(n)
  <2>1. \E c \in {"register", "info"} : proc' = [proc EXCEPT ![n] = [NoProc EXCEPT !.pc = c, !.body = TRUE]]
    BY <1>7, Zenon DEF StartInit
  <2>2. UNCHANGED <<oper, disk>> /\ ~Boots(n)' /\ \A m \in Hosts \ {n} : Pc(m)' = Pc(m)
    BY <1>0, <1>7, <2>1 DEF StartInit, Boots, Pc, NoProc
  <2> QED
    BY <2>2 DEF Untouched, Dom, Boots
<1>8. CASE End(n, "failed") /\ UNCHANGED <<oper, disk>>
  <2>1. ~Boots(n)' /\ \A m \in Hosts \ {n} : Pc(m)' = Pc(m)
    BY <1>0, <1>8 DEF End, Boots, Pc, NoProc
  <2> QED
    BY <1>8, <2>1 DEF Untouched, Dom, Boots
<1>9. CASE InitFromOperator(n)
  BY <1>1, <1>8, <1>9, Zenon DEF InitFromOperator
<1>10. CASE InitFromRecover(n)
  <2>1. index' = Recovered \/ (End(n, "failed") /\ UNCHANGED <<oper, disk>>)
    BY <1>10, Zenon DEF InitFromRecover
  <2>2. Recovered = KnownCA
    BY <1>0 DEF Recovered, KnownCA, Recovers, CaInv
  <2> QED
    BY <1>8, <2>1, <2>2
<1> QED
  BY <1>3, <1>4, <1>5, <1>6, <1>7, <1>9, <1>10, Zenon DEF Step, Configure

LEMMA EntryNext == BInv /\ EntryInv /\ [Next]_vars => EntryInv'
<1> SUFFICES ASSUME BInv, EntryInv, [Next]_vars, Recovers' PROVE (index = KnownCA \/ Untouched)'
  BY DEF EntryInv
<1>1. CASE UNCHANGED vars
  <2>1. Recovers /\ index' = index /\ KnownCA' = KnownCA /\ oper' = oper
    BY <1>1, Zenon DEF vars, Recovers, KnownCA
  <2>2. \A n : Dom(n)' = Dom(n) /\ (Boots(n)' <=> Boots(n))
    BY <1>1, Zenon DEF vars, Dom, Boots, Pc
  <2> QED
    BY <2>1, <2>2, Zenon DEF EntryInv, Untouched
<1>2. CASE Next
  <2>1. Recovers
    BY <1>2, ZenonT(20) DEF Recovers, Next, ServerStart, ServerKill, WaitBootrap, StartInit, Heal, Step, Configure,
       InitFromCfg, InitFromRecover, InitFromOperator, Refused, Register, Credentials, CredentialsRange,
       CredentialsSet, CredentialsReply, RunAction, ActionFails, GenNotWritten
  <2> QED
    BY <1>2, <2>1, EntryChange, UntouchedStep, Zenon DEF EntryInv
<1> QED
  BY <1>1, <1>2

\* InitFromRecover saves the entry before the host boots on it: whatever any
\* host has on its disk, boots with or gets from the operator is of the
\* authority in the entry, wherever a recovery was broken off.
THEOREM EntryMatches == Spec => []EntryMatchesHosts
<1>1. ASSUME BInv, EntryInv PROVE EntryMatchesHosts
  <2> SUFFICES ASSUME Recovers
               PROVE  /\ \A n \in Hosts : \A f \in DOMAIN disk[n] : disk[n][f] = index
                      /\ \A n \in Hosts : proc[n].pc \in {"run", "done"} => info[n].ca = index
                      /\ oper = NoInfo \/ oper.ca = index
    BY DEF EntryMatchesHosts, Recovers
  <2>1. /\ \A n \in Hosts : \A f \in Dom(n) : Val(n, f) = KnownCA
        /\ \A n \in Hosts : Boots(n) => Ca(n) = KnownCA
        /\ oper = NoInfo \/ oper.ca = KnownCA
    BY <1>1 DEF BInv, Content, GivenInv, CaInv, Recovers
  <2>2. CASE index = KnownCA
    BY <2>1, <2>2, Zenon DEF Dom, Val, Boots, Pc, Ca
  <2>3. CASE Untouched
    BY <2>3, Zenon DEF Untouched, Dom, Boots, Pc
  <2> QED
    BY <1>1, <2>2, <2>3 DEF EntryInv
<1> QED
  BY <1>1, EntryInit, EntryNext, BootHolds, PTL DEF Spec
=============================================================================
