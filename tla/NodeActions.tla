---------------------------- MODULE NodeActions ----------------------------
(***************************************************************************)
(* What the actions of "wdrip init" read, write and remove on a host: the  *)
(* packages of actions/file, the units of actions/runtime, the certificates*)
(* of actions/etcd, the kubelet and kubeadm actions of actions/kubeadm, and*)
(* the order in which boot/*.go runs them.  A plan is a sequence of stages;*)
(* the files of one stage are written in any order, because the code       *)
(* ranges over a map or runs the parts concurrently.  A file "x up" stands *)
(* for the running service x.                                              *)
(***************************************************************************)
EXTENDS Sequences

Roles == {"Etcd", "Master", "Hybrid", "Worker"}

\* A stage that needs some files and writes others; what it keeps is left as
\* it is when it is there.
Stage(needs, writes) == [needs |-> needs, writes |-> writes, removes |-> {}, keeps |-> {}]

-----------------------------------------------------------------------------
(* Packages: File.Download, Untar, Install.                                *)

\* One file action, or several that run concurrently.
Download(packages) == Stage({}, packages)

-----------------------------------------------------------------------------
(* The container runtime.                                                  *)

DockerUnits ==
  {"docker.service", "docker.socket", "containerd.toml", "containerd.service", "daemon.json"}

\* The units that the start of one unit brings in.
UnitRequires == {<<"docker.service", "docker.socket">>, <<"docker.service", "containerd.service">>}

DockerPlan ==
  << Stage({}, DockerUnits),
     Stage({"docker", "docker.service"}
             \cup {r[2] : r \in {q \in UnitRequires : q[1] = "docker.service"}}, {"docker up"}) >>

RuntimePlan == << Download({"docker"}) >> \o DockerPlan

-----------------------------------------------------------------------------
(* Etcd.                                                                   *)

\* Pairs of certificate and key.
PeerCerts == {"etcd/peer", "etcd/peer-ca"}
ServerCerts == {"etcd/server", "etcd/server-ca"}
ClientCerts == {"etcd/client"}

LoadOrSign == Stage({}, PeerCerts \cup ServerCerts \cup ClientCerts)

\* The files that the environment of the unit names.
EtcdEnv == PeerCerts \cup ServerCerts

EtcdPlan ==
  << Download({"etcd"}), LoadOrSign, Stage({}, {"etcd.service"}),
     Stage({"etcd", "etcd.service"} \cup EtcdEnv \cup ClientCerts, {"etcd up"}) >>

-----------------------------------------------------------------------------
(* The kubelet and kubeadm.                                                *)

CaFiles == {"front-proxy-ca", "ca", "sa", "apiserver-ca"}

\* What kubeadm signs, when it does not find it.
SignedPairs == {"apiserver", "front-proxy-client", "apiserver-kubelet-client"}
SignedFiles ==
  SignedPairs \cup {"admin.conf", "controller-manager.conf", "kubelet.conf", "scheduler.conf"}

\* Mutant of LoadCert: it forgets the files of /etc/kubernetes.
LoadCertOnly == << Stage({}, CaFiles), [Stage({}, {}) EXCEPT !.removes = SignedPairs] >>

LoadCert == << Stage({}, CaFiles), [Stage({}, {}) EXCEPT !.removes = SignedFiles] >>

KubeletUnit == Stage({}, {"kubelet.service"})

\* A kubelet without kubelet.conf is restarted by systemd until it is there.
KubeletPlan(role) ==
  (IF role = "Worker" THEN << >> ELSE LoadCert)
    \o << KubeletUnit, Stage({"kubernetes", "kubelet.service"}, {"kubelet up"}) >>

\* The files that the kubeadm configuration names for the external etcd.
KubeadmEtcd == {"etcd/server-ca", "etcd/client"}

InitPlan ==
  << Stage({}, {"kubeadm.conf"}),
     [Stage({"kubernetes", "kubeadm.conf", "kubelet up", "docker up"} \cup CaFiles \cup KubeadmEtcd,
            SignedFiles) EXCEPT !.keeps = SignedFiles],
     Stage(SignedFiles \cup {"kubelet up", "docker up"}, {"apiserver up"}) >>

CcmPlan == << Stage({}, {"cloud-controller-manager.conf"}) >>

KubeAuthPlan == << Stage({}, {"wdrip.cfg.gen"}), Stage({}, {"admin.local"}) >>

\* The admin.conf registers the definitions, kubectl uses admin.local.
PostPlan == << Stage({"kubernetes", "admin.conf", "admin.local", "apiserver up"}, {"posted"}) >>

\* The discovery skips the certificate of the cluster; kubeadm writes the
\* configuration of the kubelet, and WaitJoin uses it.
JoinPlan ==
  << Stage({"kubernetes", "kubelet up", "docker up"}, {"kubelet.conf"}),
     Stage({"kubernetes", "kubelet.conf"}, {"joined"}) >>

-----------------------------------------------------------------------------
(* The steps of init.                                                      *)

\* Mutant of MasterPlan: the operator is posted before kubectl can be used.
MasterPlanHasty ==
  << Download({"kubernetes", "cni"}) >> \o KubeletPlan("Master") \o InitPlan
    \o PostPlan \o CcmPlan \o KubeAuthPlan

MasterPlan ==
  << Download({"kubernetes", "cni"}) >> \o KubeletPlan("Master") \o InitPlan
    \o CcmPlan \o KubeAuthPlan \o PostPlan

WorkerPlan == << Download({"kubernetes", "cni"}) >> \o KubeletPlan("Worker") \o JoinPlan

Plan ==
  [Etcd   |-> RuntimePlan \o EtcdPlan,
   Master |-> RuntimePlan \o MasterPlan,
   Hybrid |-> RuntimePlan \o EtcdPlan \o MasterPlan,
   Worker |-> RuntimePlan \o WorkerPlan]

\* Files that carry the certificate authorities of the configuration.
Signed == CaFiles \cup SignedFiles \cup PeerCerts \cup ServerCerts \cup ClientCerts
            \cup {"wdrip.cfg.gen", "admin.local", "cloud-controller-manager.conf"}
=============================================================================
