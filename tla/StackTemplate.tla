--------------------------- MODULE StackTemplate ---------------------------
(***************************************************************************)
(* The resource template that the provider hands to the orchestration      *)
(* service (ROS) when it creates a cluster: which resources a stack gets,  *)
(* and which of them refer to which.  Parameters are pairs of a name and   *)
(* the string that ROS receives; resources and outputs are pairs of a name *)
(* and the resources that they refer to.  An Fn::If is the branch that its *)
(* condition takes.  Parameters, conditions and outputs that decide about  *)
(* no resource and no reference between resources are left out.            *)
(***************************************************************************)
Defaults(names, value) == names \X {value}

NetworkParameters ==
    Defaults({"VpcId", "VSwitchId"}, "None")
        \cup Defaults({"SNatEntry", "NatGateway", "Eip", "PublicSLB"}, "true")

FeatureParameters == Defaults({"SSHFlags"}, "false")

\* What Create passes, and the defaults of the rest.
CreateParameters ==
    LET passed == {"SSHFlags", "PublicSLB"}
    IN  Defaults(passed, "true")
            \cup {x \in NetworkParameters \cup FeatureParameters : x[1] \notin passed}

-----------------------------------------------------------------------------
\* A condition compares one parameter with one value: its name and the two.
SwitchConditions ==
    {<<"create_nat_gateway", "NatGateway", "true">>, <<"create_snat_entry", "SNatEntry", "true">>,
     <<"create_eip", "Eip", "true">>, <<"create_public_slb", "PublicSLB", "true">>,
     <<"create_new_vpc", "VpcId", "None">>}

FeatureConditions ==
    {<<"ssh_enable", "SSHFlags", "true">>, <<"create_new_vswitch", "VSwitchId", "None">>}

Compares(c) ==
    \E x \in SwitchConditions \cup FeatureConditions :
        x[1] = c /\ <<x[2], x[3]>> \in CreateParameters

Holds(c) ==
    IF c = "public_slb_ssh_enable"
        THEN Compares("create_public_slb") /\ Compares("ssh_enable")
        ELSE Compares(c)

\* Fn::If whose other branch is a parameter or nothing.
If(c, resource) == IF Holds(c) THEN {resource} ELSE {}

Vpc == If("create_new_vpc", "k8s_vpc")

VSwitch == If("create_new_vswitch", "k8s_vswitch")

PublicSlb == If("create_public_slb", "k8s_master_slb_internet")

\* A resource: the condition under which it is created, and its references.
Res(name, c, refs) == IF c = "" \/ Holds(c) THEN {<<name, refs>>} ELSE {}

-----------------------------------------------------------------------------
RoleResources == Res("KubernetesMasterRole", "", {}) \cup Res("KubernetesWorkerRole", "", {})

NatResources ==
    Res("k8s_NAT_Gateway", "create_nat_gateway", Vpc \cup VSwitch)
        \cup Res("k8s_SNat_Eip", "create_eip", {})
        \cup Res("k8s_NAT_Gateway_Bind_Eip", "create_eip",
                 If("create_nat_gateway", "k8s_NAT_Gateway") \cup {"k8s_SNat_Eip"})
        \cup Res("k8s_vswitch", "create_new_vswitch", Vpc)

SlbResources ==
    Res("k8s_master_slb_internet", "create_public_slb", {})
        \cup Res("k8s_master_slb", "", Vpc \cup VSwitch)
        \cup Res("k8s_api_server_listener_internet", "create_public_slb", {"k8s_master_slb_internet"})
        \cup Res("k8s_ssh_listener", "public_slb_ssh_enable", {"k8s_master_slb_internet"})
        \cup Res("k8s_master_listener_boot", "", {"k8s_master_slb"})
        \cup Res("k8s_master_slb_listener", "", {"k8s_master_slb"})

\* Mutant of MasterPrerequisites: the listeners are forgotten.
ForgottenListeners == {"k8s_sg"}

\* Mutant of MasterPrerequisites: the masters wait for their own signal.
CircularPrerequisites ==
    {"k8s_master_listener_boot", "k8s_master_slb_listener", "k8s_sg", "k8s_master_waiter"}

\* DependsOn of the master group and of its activation.
MasterPrerequisites == {"k8s_master_listener_boot", "k8s_master_slb_listener", "k8s_sg"}

MasterGroupResource ==
    Res("k8s_master_sg", "", MasterPrerequisites \cup VSwitch \cup PublicSlb \cup {"k8s_master_slb"})

\* RenderUserData prepends the addresses of the load balancers to the user
\* data of the masters and appends the call that signals the waiter.
UserDataRefs == {"k8s_master_slb", "k8s_master_waiter_handle"} \cup PublicSlb

MasterConfigResource ==
    Res("k8s_master_sconfig", "",
        {"k8s_master_sg", "KubernetesMasterRole", "k8s_sg"} \cup UserDataRefs)

MasterStartResources ==
    Res("k8s_master_srule", "", {"k8s_master_sg"})
        \cup Res("k8s_master_sg_enable", "",
                 MasterPrerequisites \cup {"k8s_master_sg", "k8s_master_sconfig", "k8s_master_srule"})
        \cup Res("k8s_master_waiter_handle", "", {})
        \cup Res("k8s_master_waiter", "", {"k8s_master_waiter_handle"})

VpcResources == Res("k8s_vpc", "create_new_vpc", {}) \cup Res("k8s_sg", "", Vpc)

SnatResource ==
    Res("k8s_NAT_Gateway_SNATEntry", "create_snat_entry",
        VSwitch \cup If("create_nat_gateway", "k8s_NAT_Gateway")
            \cup If("create_eip", "k8s_NAT_Gateway_Bind_Eip"))

Resources ==
    RoleResources \cup NatResources \cup SlbResources \cup MasterGroupResource
        \cup MasterConfigResource \cup MasterStartResources \cup VpcResources \cup SnatResource

\* The one output that a kubeconfig is made from.
Outputs == {<<"APIServerInternet", PublicSlb>>}

\* What the resource or output of that name refers to.
Refs(items, name) == UNION {x[2] : x \in {y \in items : y[1] = name}}

Names(items) == {x[1] : x \in items}

\* The resources of the stack that must exist before r is created.
DependsOn(r) == Refs(Resources, r) \cap Names(Resources)
=============================================================================
