------------------------------ MODULE Operator ------------------------------
(***************************************************************************)
(* From the last action of a master's installation to an operator that     *)
(* serves: ActionPost registers the resource kinds, writes the Cluster and *)
(* Master resources and deploys the operator under a fresh label; the      *)
(* operator starts, repairs the stack id of the Cluster resource, elects a *)
(* leader and installs the addons.  Bootstrapping masters post what the    *)
(* first configuration said, joining masters what an operator served them. *)
(* Every post rolls the operator out again, so two operators may overlap.  *)
(*                                                                         *)
(* The Cluster resource is abstracted to the two fields that several       *)
(* writers set: the stack id (Bind.ResourceId, known or not) and           *)
(* AddonInitialized.  Its endpoint is part of every configuration.         *)
(***************************************************************************)
EXTENDS Naturals, FiniteSets, Sequences, Manifests

CONSTANTS
    N,          \* masters, numbered in the order in which their posts start
    Cuts,       \* where a failing pass over the addons may stop (bound)
    Flaky,      \* addons of which the API server may refuse an object (bound)
    MaxMishaps  \* crashes, timeouts, refusals and instances lost (bound)

Masters == 1..N
Gens == 1..N
Addons == DOMAIN AddonConfigsTpl

ASSUME OperatorAssumption ==
    /\ N \in Nat /\ Cuts \subseteq SUBSET Addons /\ Flaky \subseteq Addons
    /\ MaxMishaps \in Nat

VARIABLES
    applied,   \* the manifests that are in the API server as a whole
    bits,      \* the objects of other manifests that are there
    crds,      \* the resource kinds of wdrip
    cr,        \* the Cluster resource: {} or a set of one record
    masters,   \* the Master resources
    post,      \* every master's ActionPost
    uuid,      \* the label of the last deployment of the operator
    pods,      \* the operator of each deployment
    leader,    \* who holds the lease; 0: nobody
    mishaps

vars == <<applied, bits, crds, cr, masters, post, uuid, pods, leader, mishaps>>

Of(names) == UNION {ObjectsOf[a] : a \in names}
Objects == Of(applied) \cup bits

Config1 == [named : BOOLEAN, init : BOOLEAN]
Fresh == [named |-> FALSE, init |-> FALSE]

\* An operator process before its first step.
NoPod == [pc |-> "none", boot |-> Fresh, seen |-> Fresh, cr |-> Fresh, ms |-> {},
          nodes |-> {}, pass |-> "idle"]

Idle == [pc |-> "idle", spec |-> Fresh, served |-> FALSE]

Init ==
    /\ applied = {} /\ bits = {} /\ crds = "none" /\ cr = {} /\ masters = {}
    /\ post = [m \in Masters |-> Idle]
    /\ uuid = 0 /\ pods = [p \in Gens |-> NoPod] /\ leader = 0 /\ mishaps = 0

\* The live Cluster resource, where there is one.
Live == CHOOSE c \in cr : TRUE

Mishap == mishaps < MaxMishaps /\ mishaps' = mishaps + 1

Apply(names, rest) ==
    /\ applied' = applied \cup names
    /\ bits' = (bits \cup rest) \ Of(applied')

-----------------------------------------------------------------------------
\* ActionPost.

\* Mutant of Steps: the operator is deployed before the Cluster resource is written.
StepsHasty == <<"crds", "wdrip", "cluster", "master", "monitor">>

Steps == <<"crds", "cluster", "master", "wdrip", "monitor">>

After(pc) ==
    LET i == CHOOSE i \in DOMAIN Steps : Steps[i] = pc
    IN  IF i = Len(Steps) THEN "done" ELSE Steps[i + 1]

Running(m) == \E i \in DOMAIN Steps : post[m].pc = Steps[i]

At(m, pc) == post[m].pc = pc /\ post' = [post EXCEPT ![m].pc = After(pc)]

\* The action starts with the configuration of the bootstrap, which knows no
\* stack id, or with the one an operator serves, and applies its two addons.
InstallAddons(m) ==
    /\ post[m].pc = "idle" /\ \A k \in 1..(m - 1) : post[k].pc # "idle"
    /\ Apply(PostAddons, {})
    /\ \/ post' = [post EXCEPT ![m].pc = Steps[1]]
       \/ \E p \in Gens :
             /\ pods[p].pc = "serving"
             /\ post' = [post EXCEPT ![m] = [pc |-> Steps[1], spec |-> pods[p].boot,
                                             served |-> TRUE]]
    /\ UNCHANGED <<crds, cr, masters, uuid, pods, leader, mishaps>>

\* EnsurePresent creates a kind or finds it there; neither waits until the API
\* server serves it.  The four kinds are registered alike and stand as one.
EnsurePresent == crds' = IF crds = "none" THEN "created" ELSE crds

RegisterCRD(m) ==
    /\ At(m, "crds") /\ EnsurePresent
    /\ UNCHANGED <<applied, bits, cr, masters, uuid, pods, leader, mishaps>>

\* kubectl apply sends the two fields always: neither is omitted when empty.
WriteCluster(m) ==
    /\ post[m].pc = "cluster"
    /\ \/ /\ crds = "served" /\ cr' = {post[m].spec}
          /\ post' = [post EXCEPT ![m] = [Idle EXCEPT !.pc = After("cluster")]]
       \/ crds # "served" /\ post' = [post EXCEPT ![m].pc = "failed"] /\ cr' = cr
    /\ UNCHANGED <<applied, bits, crds, masters, uuid, pods, leader, mishaps>>

WriteMaster(m) ==
    /\ At(m, "master") /\ masters' = masters \cup {m}
    /\ UNCHANGED <<applied, bits, crds, cr, uuid, pods, leader, mishaps>>

\* Mutant of NewLabel: the label of the deployment is always the same.
SameLabel == IF uuid = 0 THEN 1 ELSE uuid

\* The label is fresh with every rendering.
NewLabel == uuid + 1

\* Nothing here reads the public information, so it is written with the
\* deployment.  A changed label changes the template of the pods, and a new
\* pod is started.
RunWdrip(m) ==
    /\ At(m, "wdrip") /\ Apply({"cluster-info", "bootcfg", "wdrip"}, {}) /\ uuid' = NewLabel
    /\ pods' = IF uuid' = uuid THEN pods
               ELSE [pods EXCEPT ![uuid'] = [NoPod EXCEPT !.pc = "pending"]]
    /\ UNCHANGED <<crds, cr, masters, leader, mishaps>>

RunMonitor(m) ==
    /\ At(m, "monitor") /\ Apply({"bootcfg", "monitor"}, {})
    /\ UNCHANGED <<crds, cr, masters, uuid, pods, leader, mishaps>>

\* kubectl fails, or fails for the minute that the polled steps keep trying.
PostFails(m) ==
    /\ Running(m) /\ Mishap /\ post' = [post EXCEPT ![m] = [Idle EXCEPT !.pc = "failed"]]
    /\ UNCHANGED <<applied, bits, crds, cr, masters, uuid, pods, leader>>

PostStep(m) ==
    \/ RegisterCRD(m) \/ WriteCluster(m) \/ WriteMaster(m) \/ RunWdrip(m) \/ RunMonitor(m)

-----------------------------------------------------------------------------
\* The operator process.

Goto(p, from, to) == pods[p].pc = from /\ pods' = [pods EXCEPT ![p].pc = to]

\* The caches of the manager run from "started" on.
Started(p) == pods[p].pc \in {"started", "patch", "serving"}

\* The kubelet starts the pod once what its template names is there.
PodStart(p) ==
    /\ Needs[<<"Deployment", "wdrip">>] \subseteq Objects
    /\ Goto(p, "pending", "crds")
    /\ UNCHANGED <<applied, bits, crds, cr, masters, post, uuid, leader, mishaps>>

\* The kinds are registered again and the Cluster resource is read; when it is
\* missing the process ends, and its pod starts it again.
ReadCluster(p) ==
    /\ pods[p].pc = "crds" /\ EnsurePresent
    /\ pods' = IF cr = {} THEN [pods EXCEPT ![p] = [NoPod EXCEPT !.pc = "pending"]]
               ELSE [pods EXCEPT ![p].pc = "manager", ![p].boot = Live]
    /\ UNCHANGED <<applied, bits, cr, masters, post, uuid, leader, mishaps>>

\* Mutant of LoadContextIAAS: it works on a copy of the configuration served.
LoadContextCopied(boot) == boot

\* LoadContextIAAS looks the stack id up and stores it in the configuration
\* that the server's CachedCtx points to.
LoadContextIAAS(boot) == [boot EXCEPT !.named = TRUE]

StartManager(p) ==
    /\ pods[p].pc = "manager"
    /\ pods' = [pods EXCEPT ![p].pc = "started", ![p].cr = Live, ![p].ms = masters,
                            ![p].boot = LoadContextIAAS(pods[p].boot)]
    /\ UNCHANGED <<applied, bits, crds, cr, masters, post, uuid, leader, mishaps>>

ReadAgain(p) ==
    /\ pods[p].pc = "started"
    /\ pods' = [pods EXCEPT ![p].pc = "patch", ![p].seen = Live]
    /\ UNCHANGED <<applied, bits, crds, cr, masters, post, uuid, leader, mishaps>>

\* patchEndpoint sends what differs from the manager's cached copy; then the
\* server's node cache is filled from the manager's and the server listens.
InitializeClusterResource(p) ==
    /\ pods[p].pc = "patch"
    /\ cr' = IF pods[p].seen.named \/ pods[p].cr.named THEN cr
             ELSE {[Live EXCEPT !.named = TRUE]}
    /\ pods' = [pods EXCEPT ![p].pc = "serving", ![p].seen = Fresh,
                            ![p].ms = {}, ![p].nodes = @ \cup pods[p].ms]
    /\ UNCHANGED <<applied, bits, crds, masters, post, uuid, leader, mishaps>>

PodStep(p) ==
    \/ PodStart(p) \/ ReadCluster(p) \/ StartManager(p) \/ ReadAgain(p)
    \/ InitializeClusterResource(p)

-----------------------------------------------------------------------------
\* The controllers of the leader.

\* Mutant of AddMasters: nothing is ever taken out.
AddMastersOnly(nodes, ms) == nodes \cup ms

\* Cached names that are not listed go, listed ones are stored.
AddMasters(nodes, ms) == {n \in nodes : n \in ms} \cup ms

AddonReconcile(p) ==
    /\ leader = p /\ Started(p) /\ pods[p].pass = "idle" /\ ~pods[p].cr.init
    /\ pods' = [pods EXCEPT ![p].pass = "applying"]
    /\ UNCHANGED <<applied, bits, crds, cr, masters, post, uuid, leader, mishaps>>

ApplyAddons(p) ==
    /\ pods[p].pass = "applying"
    /\ Apply(Addons, {})
    /\ pods' = [pods EXCEPT ![p].pass = "patch"]
    /\ UNCHANGED <<crds, cr, masters, post, uuid, leader, mishaps>>

\* Mutant of AfterError: the error is only logged.
AfterErrorGoesOn == "patch"

AfterError == "idle"

\* The addons come in the order of a map; the objects of the failing one are
\* all tried, and the first addon with an error ends the pass.
AddonFails(p) ==
    /\ pods[p].pass = "applying" /\ Mishap
    /\ \E S \in Cuts, a \in Flaky : \E o \in Of({a}) :
          a \notin S /\ Apply(S, Of({a}) \ {o})
    /\ pods' = [pods EXCEPT ![p].pass = AfterError]
    /\ UNCHANGED <<crds, cr, masters, post, uuid, leader>>

\* Mutant of PatchAddonPhase: the whole cached object is written.
PutAddonPhase(p) == {[pods[p].cr EXCEPT !.init = TRUE]}

\* Mutant of PatchAddonPhase: the phase is set in the cached object itself, so
\* that nothing differs any more.
PatchInPlace(p) == cr

\* The difference between the cached copy and the copy with the phase set.
PatchAddonPhase(p) == IF pods[p].cr.init THEN cr ELSE {[Live EXCEPT !.init = TRUE]}

AddonsDone(p) ==
    /\ pods[p].pass = "patch"
    /\ cr' = PatchAddonPhase(p)
    /\ pods' = [pods EXCEPT ![p].pass = "idle"]
    /\ UNCHANGED <<applied, bits, crds, masters, post, uuid, leader, mishaps>>

Controllers(p) == AddonReconcile(p) \/ ApplyAddons(p) \/ AddonsDone(p)

-----------------------------------------------------------------------------
\* The API server and the deployment controller.

Established ==
    /\ crds = "created" /\ crds' = "served"
    /\ UNCHANGED <<applied, bits, cr, masters, post, uuid, pods, leader, mishaps>>

\* The caches of the manager catch up; the leader reconciles what changed, and
\* what did not at the next resynchronisation.
Watch(p) ==
    /\ Started(p)
    /\ pods' = [pods EXCEPT ![p].cr = Live,
                            ![p].ms = IF pods[p].pc = "serving" THEN {} ELSE masters,
                            ![p].nodes = IF leader = p THEN AddMasters(@, masters) ELSE @]
    /\ UNCHANGED <<applied, bits, crds, cr, masters, post, uuid, leader, mishaps>>

Elect(p) ==
    /\ leader = 0 /\ Started(p) /\ leader' = p
    /\ UNCHANGED <<applied, bits, crds, cr, masters, post, uuid, pods, mishaps>>

Ends(p, pod) ==
    /\ pods' = [pods EXCEPT ![p] = pod]
    /\ leader' = IF leader = p THEN 0 ELSE leader

\* The old pod goes once the new one runs; it has no readiness of its own.
Retire(p) ==
    /\ p < uuid /\ pods[p].pc # "none" /\ pods[uuid].pc \notin {"none", "pending"}
    /\ Ends(p, NoPod)
    /\ UNCHANGED <<applied, bits, crds, cr, masters, post, uuid, mishaps>>

Crash(p) ==
    /\ pods[p].pc \notin {"none", "pending"} /\ Mishap
    /\ Ends(p, [NoPod EXCEPT !.pc = "pending"])
    /\ UNCHANGED <<applied, bits, crds, cr, masters, post, uuid>>

\* The healer removes the Master of an instance that is gone.
RemoveMaster(m) ==
    /\ m \in masters /\ post[m].pc = "done" /\ Mishap /\ masters' = masters \ {m}
    /\ UNCHANGED <<applied, bits, crds, cr, post, uuid, pods, leader>>

Next ==
    \/ \E m \in Masters : InstallAddons(m) \/ PostStep(m) \/ PostFails(m) \/ RemoveMaster(m)
    \/ \E p \in Gens : \/ PodStep(p) \/ Controllers(p)
                       \/ AddonFails(p) \/ Watch(p)
                       \/ Elect(p) \/ Retire(p) \/ Crash(p)
    \/ Established

Spec ==
    /\ Init /\ [][Next]_vars
    /\ \A m \in Masters : WF_vars(PostStep(m))
    /\ \A p \in Gens : /\ WF_vars(PodStep(p)) /\ WF_vars(Controllers(p))
                       /\ WF_vars(Watch(p)) /\ WF_vars(Elect(p)) /\ WF_vars(Retire(p))
    /\ WF_vars(Established)

-----------------------------------------------------------------------------
PostRecord == [pc : {Steps[i] : i \in DOMAIN Steps} \cup {"idle", "done", "failed"},
               spec : Config1, served : BOOLEAN]

PodRecord == [pc : {"none", "pending", "crds", "manager", "started", "patch", "serving"},
              boot : Config1, seen : Config1, cr : Config1, ms : SUBSET Masters,
              nodes : SUBSET Masters, pass : {"idle", "applying", "patch"}]

\* Types: one Cluster resource at most, a leader whose process has caches,
\* and no process of a deployment that has not happened.
TypeOK ==
    /\ applied \subseteq DOMAIN All /\ bits \subseteq Of(Flaky) /\ bits \cap Of(applied) = {}
    /\ crds \in {"none", "created", "served"}
    /\ cr \in SUBSET Config1 /\ (\A c, d \in cr : c = d)
    /\ masters \subseteq Masters /\ mishaps \in 0..MaxMishaps
    /\ post \in [Masters -> PostRecord] /\ pods \in [Gens -> PodRecord]
    /\ uuid \in 0..N /\ leader \in 0..uuid /\ (leader # 0 => Started(leader))
    /\ \A p \in Gens : p > uuid => pods[p] = NoPod

\* AddonInitialized is only ever true once every object of every addon is in
\* the API server, though passes fail half way, operators crash and overlap,
\* and a joining master writes the flag it was served.
AddonsComplete == \A c \in cr : c.init => Addons \subseteq applied

\* From then on every object finds what it cannot do without: addons live on
\* objects of other addons and of the operator's own manifest.
ReferencesResolve ==
    \A c \in cr : c.init => \A o \in Objects : Needs[o] \subseteq Objects \cup BuiltIn

\* An operator that gets as far as reading the Cluster resource finds it:
\* ActionPost writes the resource before it deploys the operator.
ClusterBeforeOperator == \A p \in Gens : pods[p].pc = "crds" => cr # {}

\* Two operators patch the Cluster resource from cached copies while masters
\* write it: only a master's post ever takes a field of it back.
PatchesMerge ==
    [][\A c \in cr, d \in cr' :
          (c.named /\ ~d.named) \/ (c.init /\ ~d.init) =>
              \E m \in Masters : post[m].pc = "cluster" /\ post'[m].pc # "cluster"]_vars

\* And the stack id is taken back by a bootstrapping master alone: what an
\* operator serves to a joining master names the stack even if the operator
\* started before anybody had written it down.
JoinersKeepStack ==
    [][\A c \in cr, d \in cr' :
          c.named /\ ~d.named => \E m \in Masters : post[m].pc = "cluster" /\ ~post[m].served]_vars

\* No post is under way and none has failed.
Posted == \A m \in Masters : post[m].pc \in {"idle", "done"}

\* Whatever the masters wrote, after successful posts the Cluster resource
\* names its stack again: each post deploys the operator once more, under a
\* label of its own, and the operator repairs the id at its start.
StackIdReturns == []<>(Posted => \A c \in cr : c.named)

\* After successful posts the addons are installed and marked so.
AddonsSettle == []<>(Posted => \A c \in cr : c.init)

\* After successful posts an operator serves exactly the Masters there are,
\* including the removals.
CacheConverges ==
    []<>(Posted => uuid = 0 \/ (pods[uuid].pc = "serving" /\ pods[uuid].nodes = masters))
=============================================================================
