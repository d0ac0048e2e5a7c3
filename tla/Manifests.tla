----------------------------- MODULE Manifests -----------------------------
(***************************************************************************)
(* The Kubernetes manifests that wdrip applies: the nine default addons,   *)
(* the operator and the monitor.  An object is a pair of kind and name; a  *)
(* manifest is a set of pairs of an object and the objects it cannot do    *)
(* without (service account, configuration, secret, role, storage driver). *)
(* Left out are the references that a manifest marks optional, the         *)
(* subjects of a binding, which may come later, and objects without any    *)
(* reference from or to another; one object stands for all those of a      *)
(* manifest that have its kind and its references.  What a container runs  *)
(* is not told apart.                                                      *)
(***************************************************************************)
Account(n) == <<"ServiceAccount", n>>
Config(n) == <<"ConfigMap", n>>
Secret(n) == <<"Secret", n>>
Role(n) == <<"ClusterRole", n>>
Driver(n) == <<"CSIDriver", n>>

\* Objects that refer to nothing, one that does, and the binding of a role.
Bare(objects) == objects \X {{}}
Workload(kind, name, needs) == {<< <<kind, name>>, needs >>}
Binding(name, role) == {<< <<"ClusterRoleBinding", name>>, {role} >>}

\* Roles every API server has from its start.
BuiltIn == {Role("cluster-admin"), Role("system:node-proxier")}

CcmAccess ==
    LET role == Role("system:cloud-controller-manager")
    IN  Bare({Account("cloud-controller-manager"), role})
            \cup Binding("system:cloud-controller-manager", role)

CCM ==
    CcmAccess
        \cup Workload("DaemonSet", "cloud-controller-manager", {Account("cloud-controller-manager")})

CorednsWorkload == Workload("Deployment", "coredns", {Account("coredns"), Config("coredns")})

CORDDNS ==
    CorednsWorkload
        \cup Bare({Config("coredns"), Role("system:coredns"), Account("coredns")})
        \cup Binding("system:coredns", Role("system:coredns"))

TerwayAccess ==
    Bare({Account("terway"), Role("terway-pod-reader"), Config("eni-config")})
        \cup Binding("terway-binding", Role("terway-pod-reader"))

TerwayDaemon == Workload("DaemonSet", "terway-eniip", {Account("terway"), Config("eni-config")})

TERWAY == TerwayAccess \cup TerwayDaemon

IngressConfigs == {Config(n) : n \in {"nginx-configuration", "tcp-services", "udp-services"}}

IngressAccess ==
    Bare({Account("nginx-ingress-controller"), Role("nginx-ingress-controller")})
        \cup Binding("nginx-ingress-controller", Role("nginx-ingress-controller"))

\* The controller reads its configurations and its service by command line flag.
IngressWorkload ==
    Workload("Deployment", "nginx-ingress-controller",
             {Account("nginx-ingress-controller"), <<"Service", "nginx-ingress-lb">>}
                 \cup IngressConfigs)

INGRESS ==
    Bare({<<"Service", "nginx-ingress-lb">>} \cup IngressConfigs) \cup IngressAccess
        \cup IngressWorkload

KubeProxy(name) ==
    Workload("DaemonSet", name, {Account("kube-proxy"), Config(name)})
        \cup Bare({Account("kube-proxy"), Config(name)})
        \cup Binding("kubeadm:node-proxier", Role("system:node-proxier"))

KUBEPROXY_MASTER == KubeProxy("kube-proxy-master")

KUBEPROXY_WORKER == KubeProxy("kube-proxy-worker")

METRICS_SERVER == Workload("Deployment", "ags-metrics-collector", {Account("admin")})

CsiAccess ==
    Bare({Account("csi-admin"), Role("alicloud-csi-plugin")})
        \cup Binding("alicloud-csi-plugin", Role("alicloud-csi-plugin"))

CsiDrivers == Bare({Driver("diskplugin")})

CsiDaemon == Workload("DaemonSet", "csi-plugin", {Account("csi-admin")})

CSI_PLUGIN == CsiAccess \cup CsiDrivers \cup CsiDaemon

StorageClasses == Workload("StorageClass", "available", {Driver("diskplugin")})

CsiWorkload == Workload("Deployment", "csi-provisioner", {Account("csi-admin")})

CSI_PROVISION == StorageClasses \cup CsiWorkload

\* The addons by their name.
AddonConfigsTpl ==
    [a \in {"ccm", "coredns", "terway", "ingress-controller", "kubeproxy-master",
            "kubeproxy-worker", "metrics-server", "csi-plugin", "csi-provision"} |->
       CASE a = "ccm" -> CCM [] a = "coredns" -> CORDDNS [] a = "terway" -> TERWAY
         [] a = "ingress-controller" -> INGRESS
         [] a = "kubeproxy-master" -> KUBEPROXY_MASTER [] a = "kubeproxy-worker" -> KUBEPROXY_WORKER
         [] a = "metrics-server" -> METRICS_SERVER
         [] a = "csi-plugin" -> CSI_PLUGIN [] a = "csi-provision" -> CSI_PROVISION]

\* The addons a joining master applies itself.
PostAddons == {"kubeproxy-master", "kubeproxy-worker"}

-----------------------------------------------------------------------------
\* Mutant of Wdripf: the operator has an account of its own.
WdripfOwnAccount ==
    Bare({Account("wdrip")})
        \cup Binding("wdrip", Role("cluster-admin"))
        \cup Workload("Deployment", "wdrip", {Account("wdrip"), Secret("bootcfg")})

\* The operator, with the account that the monitor and an addon borrow.
Wdripf ==
    Bare({Account("admin")})
        \cup Binding("admin", Role("cluster-admin"))
        \cup Workload("Deployment", "wdrip", {Account("admin"), Secret("bootcfg")})

Monitor == Workload("Deployment", "wdrip-monitor", {Account("admin"), Secret("bootcfg")})

BootCFG == Bare({Secret("bootcfg")})

ClusterInfo == Bare({Config("cluster-info")})

\* Every manifest by its name, its objects, and what each object needs.
All ==
    [a \in DOMAIN AddonConfigsTpl \cup {"wdrip", "monitor", "bootcfg", "cluster-info"} |->
       CASE a = "wdrip" -> Wdripf [] a = "monitor" -> Monitor
         [] a = "bootcfg" -> BootCFG [] a = "cluster-info" -> ClusterInfo
         [] OTHER -> AddonConfigsTpl[a]]

ObjectsOf == [a \in DOMAIN All |-> {x[1] : x \in All[a]}]

Needs ==
    LET pairs == UNION {All[a] : a \in DOMAIN All}
    IN  [o \in {x[1] : x \in pairs} |-> UNION {x[2] : x \in {y \in pairs : y[1] = o}}]
=============================================================================
