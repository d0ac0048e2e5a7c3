# Verification of wdrip

wdrip builds a Kubernetes cluster on Alibaba Cloud and keeps it alive: a command
line creates a stack of cloud resources, the hosts of the stack install
themselves, an operator inside the cluster heals masters and workers, scales the
master group, installs the addons and backs etcd up to an object store, and a
monitor beside the operator recovers the cluster from a backup. This directory
holds TLA+ models of that code, the TLC instances that check them and TLAPS
proofs of the safety results that do not depend on the size of the instance. All
paths below are relative to the repository root.

## The system and its parts

| part | code | model |
|---|---|---|
| cluster create, edit, watch, delete | `pkg/iaas/iaas.go`, `provider/alibaba/ros.go`, `oss.go`, `pkg/index/cluster.go` | `Lifecycle` |
| resource template of the stack | `provider/alibaba/tpl.go`, `resource.go` | `StackTemplate`, under `Lifecycle` |
| installation of a host | `pkg/boot`, `cmd/wdrip/init`, `cmd/wdrip/bootstrap` | `Boot` |
| actions of an installation | `pkg/actions/{file,runtime,etcd,kubeadm}` | `NodeActions`, under `Boot` |
| coordinator and its client | `pkg/apiserver`, `pkg/context`, `pkg/client/rest` | `Boot` |
| joining etcd, several masters at once | `pkg/actions/etcd/etcd.go` | `EtcdJoin`, over `EtcdMembership`, implementing `JoinOneByOne` |
| posting and starting the operator | `pkg/actions/post`, `pkg/operator/operator.go`, `pkg/utils/crd` | `Operator` |
| addons and their manifests | `pkg/actions/post/addons`, `controllers/addon` | `Manifests`, under `Operator` |
| master controller, cache of masters | `controllers/master/master.go`, `pkg/context` | `Operator` |
| listings and diffs ("triple") | `pkg/operator/heal/triple.go` | `Triple` |
| heal pass over the masters | `pkg/operator/heal/healet.go`, `operation.go` | `ControlPlane` |
| master set controller, quorum scaling | `controllers/master/masterset.go` | `Triple`, `ControlPlane` |
| node pools, worker healing | `controllers/nodepool`, `alibaba/nodepool.go`, `heal/healet.go` | `NodePool` |
| etcd backups and their index | `controllers/backup`, `pkg/index` | `SnapshotIndex` |
| monitor, recovery, chaos monkey | `pkg/operator/monit`, `ros.go`, `scaling.go`, `cmd/wdrip/{monitor,recover,monkey}` | `Recovery` |

In the life of a cluster: `Lifecycle` makes the stack, whose masters run `Boot`,
joining etcd as in `EtcdJoin` and ending with the posts of `Operator`; the
operator then runs `ControlPlane` and `NodePool` and the backups of
`SnapshotIndex`, and `Recovery` is what happens when it cannot.

The operator process runs the heal loop (a 60 s tick), the controllers and the
backup loops concurrently. The heal loop and the master set controller share
one mutex around `FixMasterNode`; scaling itself runs outside it. Booting hosts,
the scaling service, command lines, users and faults act at any time.

## Modules

**Triple** holds the pure decisions: what a pass deletes, creates and repairs,
given the ids in each listing, which etcd members it drops (`EtcdMemDiff`), and
how far one scaling step goes (`QuorumScaleTarget`). An instance, its Master
object, its Node object and its etcd member are matched in the code by instance
id or IP; both are unique, so one id stands for all four.

**ControlPlane** is the state those decisions act on. Every request that the
code makes in sequence is one step, so that other actors interleave between the
requests of a pass.

| variables | stand for |
|---|---|
| `ecs`, `fresh`, `host`, `clock` | instances of the scaling group, ids not used yet, what a host runs, its age for the throttles of `Reset` |
| `member`, `up` | etcd membership, members that serve |
| `crd`, `node`, `ready` | Master objects, Node objects, Ready nodes |
| `hpc`, `caller`, `trip`, `todo`, `target` | the heal pass: program counter, who holds the mutex, its listings, objects left to delete, node under repair |
| `mpc`, `want`, `detail`, `tgt`, `victim` | the reconcile: program counter, its reads, the count asked for, the follower removed |

A request may fail; a failure that the state explains (no quorum, object absent)
is always possible, any other one is paid from `Budget["api"]`, with or without
having taken effect. `Crash` restarts the operator between any two requests.

Abstractions: `Healthy()` reads its three listings at once when the master set
controller calls it; reads through the informer cache are current; a Node
object without the master label counts as absent; `ready` drops as soon as
the host dies; ids are never allocated twice, so `fresh` bounds how many
instances can be launched. With `Timely` TRUE a boot takes longer than a pass takes from listing
instances to listing members, and less than the throttle windows of `Reset`;
runs of properties that hold whatever the timing set it to FALSE.

**SnapshotIndex** models backup and clean-up, which share one lock, against the
object store, and a recovering master that reads the index without that lock.
A copy's identity is the minute it was taken in, so two backups of one minute
share a file; a pair (minute, number) tells such copies apart. Each request is
a step and may fail before or after it took effect. The snapshot is
taken from the first Master, whose etcd may lag behind the others: it holds any
revision up to the present one. Abstractions: each operation loads the index afresh, as `LazyLoad`
never marks it loaded; the cluster specification stored with the index is left
out; the copies kept are 2 instead of 4 in the runs and any number in the proofs.

Two backups of one minute overwrite each other's file: the history variable
`alone` records that this has not happened, and what needs it is stated under it.

**EtcdMembership** is etcd as this code relies on it, written from how the code
uses it (etcd itself is not in the repository): a membership, the members that
serve, and the strict reconfiguration check. Its steps are also the ones by
which ControlPlane changes the membership, so the two models agree on etcd.

**EtcdJoin** is `BackOffJoinMember` and `Join`: every `etcdctl` call of a
joining master is one step, several masters join at once, a call may fail, its
reply may be lost, and a member may stop meanwhile. Listing the members while
one of them has not started panics (`memAdvertise` indexes an empty list): the
init of that master ends. **JoinOneByOne** is what all this is for, without calls,
counts and tries: a member is proposed while all others have served, and serves
or is withdrawn before the next one comes. EtcdJoin is checked, and proved, to
implement it. Abstractions: endpoints are tried in an arbitrary order, any
quorate one answers; the jitter between tries is left out, any interleaving is
possible.

**NodePool** is one node pool: its object, the reconcile that works on the copy
it read, the scaling group, the backup in the object store and the workers.

| variables | stand for |
|---|---|
| `obj`, `queued` | the NodePool object (incarnation, deletion mark, finalizer, id of the group, wanted capacity, hash label), the work queue |
| `pc`, `np`, `hasho`, `sg` | the reconcile: next request, its copy of the object, the hash of that copy, the group found or created |
| `det`, `seen`, `sready`, `last` | the listings of `FixNodePool`, and the instance its loop variable ends on |
| `groups`, `backup` | the scaling groups by id, the pool stored in the index |
| `home`, `boot`, `node`, `ready`, `lab` | workers: their group, those that boot, Node objects, Ready ones, those with the pool's label |
| `pools`, `lapse`, `swallowed` | history: pools whose group was stored, a capacity set without its hash, an ignored error of `DeleteNodeGroup` |

A user creates, scales and deletes the pool between any two requests, also
under the same name again; requests fail, with or without effect, the operator
restarts, the group disappears, a kubelet stops. The error paths are those of
the code: `DeleteNodeGroup` returns an error only if it says "not found" and
ignores any other (`swallowed`); a failing hash patch is only logged (`lapse`);
the finalizer is added together with the group's id, so a pool deleted before
that leaves its group behind, and `NothingLeft` speaks of stored ids.
Abstractions: reads through the cache are current; a pool has one VPC; the
id of the pool is its name; of the throttles of `Reset` either outcome is possible.

**StackTemplate** is the template of `tpl.go`: for every resource the resources it
refers to or depends on, with the conditions, the parameters and the output that
decide about them. An `Fn::If` is the branch that its condition takes for the
parameters create passes. Parameters that only fill in a property of a resource
are left out.

**Lifecycle** is one cluster as several command lines drive it. Every request of
create, edit, watch, delete and forced delete is a step, may fail with or
without effect, and the command may be killed after it.

| variables | stand for |
|---|---|
| `bucket`, `index` | the bucket, and the cluster's entry: the id of its stack, and the address in it |
| `stack`, `made`, `slow` | the stacks, their resources that exist, the one that takes longest |
| `groups`, `backups` | scaling groups of node pools, and their objects in the store |
| `run` | every command: which one, its next request, the entry it read, the pools it deletes |

ROS makes what the template lets it make, in every order that one slow resource
allows, fails at any of them, and deletes. An address is the number of the stack
it belongs to; the placeholder that `NewUserData` writes into the entry is -1.

**Boot** is a set of hosts that run init: from a local configuration with or
without certificate authorities, from a backup of their own or another cluster,
from the operator, or with the coordinator of `wdrip bootstrap`.

| variables | stand for |
|---|---|
| `flow`, `role`, `given` | how the hosts are started, what each becomes, whether authorities were configured |
| `disk` | every file of a host with the authority it was made with; "x up" is the running service x |
| `proc`, `info` | the init: next step, attempts and polls used; the configuration in its memory |
| `index`, `oper`, `server`, `request` | the entry of a recovered cluster, the configuration the operator serves, the coordinator and the requests it works on |
| `fresh`, `lost` | authorities made so far; a generated configuration could not be written |

The authorities are numbers, so that "made with the same authority" can be asked;
all that the models keep of a stored entry is its authority. `Heal` is the heal
loop seen from a host: it wipes one that has no Node object (`Registered`), never
one whose Node object is there, and by a mishap also one whose init still runs,
when the throttle times were too short for it. Endpoints are the sets of hosts they list; their length as a string, which
`SetBootCredential` compares with a number of hosts, is computed from them; a
configuration serialised while another request writes it may be `Torn`.

**NodeActions** gives the plan of each role as a sequence of stages with what each
needs, writes, removes or keeps if it is there. The files of one stage come in
any order.

**Manifests** lists the objects of the addons, the operator and the monitor, each
paired with the objects it cannot do without; objects that no other refers to and
that refer to none are left out. **Operator** goes from the last action of an
installation to an operator that serves.

| variables | stand for |
|---|---|
| `applied`, `bits` | manifests that are in the API server as a whole, objects of others that are |
| `crds`, `cr`, `masters` | resource kinds, the Cluster resource, the Master resources |
| `post` | every master's `ActionPost`: next step, its configuration, whether an operator served it |
| `uuid`, `pods`, `leader` | the label of the last deployment; the process of each deployment with its configuration, caches and addon pass; the lease |

The Cluster resource is two fields, whether it names its stack and whether it
says that the addons are installed: they are the ones that several writers set,
by `kubectl apply` of a whole object, by a patch computed from a cached copy, or
not at all.

**Recovery** is what brings a lost control plane back. A tick is a round of the
monitor; longer intervals count ticks.

| variables | stand for |
|---|---|
| `group`, `members`, `up`, `boot`, `nodes`, `known`, `snap` | instances, etcd members, hosts whose etcd runs, wiped hosts and their boot, Node and Master objects, a snapshot in the store |
| `rule`, `activity` | the one scaling rule that all share, and what the scaling service is doing |
| `job` | the recovery of the monitor and one from the command line |
| `alive`, `due`, `threshed`, `gap`, `streak` | the monitor: its process runs, a round to do, failing checks counted, time since the last run; history: checks that really failed in a row |
| `chaos`, `monkey` | the saved time of the last jump, blows that the monkey has left |

Heal pass and scaling appear in it as single steps; `ControlPlane` has them in full.
The monitor is a pod: when its process ends, Kubernetes starts it again as long as
the API server works, with its counters at zero, and not during an outage. A
boot counts ticks, of which the last `Post` lie between the running etcd and the
Master object. A round that is late may see the state of a later tick; a boot is
shorter than the five minutes between two recoveries (`Boot < Gap` in the run).

The modules named **...Proofs** hold the theorems about the module they are named
after, **MCControlPlane** the instances of ControlPlane.

## Runs

| run | bounds | shows |
|---|---|---|
| `storm` | 3 of 4 ids, one of each of seven disturbances, any timing | a pass deletes only objects whose instance is gone |
| `scale_quorum` | 1 to 5 masters, 3 user changes, a failing call, a restart | no scaling step loses the etcd quorum while every instance is a member; the Node object of a released master outlives its member |
| `repair` | 3 masters, lost instance, failed boot, deleted Node, stopped kubelet, restart | `Reset` wipes no etcd member; the loops converge |
| `backup` | 3 minutes, 2 backups per minute, 1 failure, 2 restarts, clock 1 minute behind, lagging snapshots | the copy a recovery chooses has a file, and only a backup changes what it restores, to the snapshot it took; kept copies have their file and a reader finds the one it chose while no minute was shared; the index shrinks back |
| `join` | 3 joiners on 1 or 2 members, 2 faults, 1 stopping member, 2 tries | who goes on came alone with a unit file that lists the membership; EtcdJoin implements JoinOneByOne, so no started member is removed; without faults a lost quorum comes back and somebody gets in |
| `pool` | 2 incarnations, 4 group ids, capacity 0 or 1, 1 worker, 3 user changes, 2 mishaps | a pool has one group; stored group and backup go with the pool; a matching hash means an applied capacity; the capacity follows and deletions end |
| `lifecycle` | 2 command lines, 2 stacks, 1 pool, 5 commands, 1 mishap (one may be that one of two resources is slow) | an entry's address is its own stack's; masters start after what their user data names; a stack loses its name only to its own or a forced delete, or to a write over an entry that was not read; no stack stays in creation for ever |
| `recovery` | 2 hosts and 2 masters wanted, one failing check forgiven, gaps of three ticks and boots of two, 2 polls, 2 blows per jump of the monkey, 1 mishap | a recovery follows an unbroken run of failed checks; a backed-up control plane works again, unless the monitor ended during the outage |
| `boot` | 2 masters, 1 worker, 2 attempts, 2 polls, 1 mishap, every flow | types; actions find what they need; one set of authorities on a master and among the hosts; the entry of a recovered cluster has the authorities of its hosts; hosts register in the end |
| `operator` | 2 masters, so 2 deployments, a pass that stops in `csi-plugin` with only `csi-provision` done, 1 mishap | "installed" means installed; references resolve; the Cluster resource comes before the operator; patches lose nothing; stack id, addons and cache of masters converge |

Three user changes and one restart are enough for a second scaling step to meet
the leftovers of the first and for a third to undo them; five masters are the
first count at which one step releases two. Three backups over two kept copies
make the clean-up run, and those of a shared minute make it run against its own
leftovers. A one-member etcd is the one that a join takes the quorum from.
Three joiners are the first number of which two can collide while the third
completes. Three changes create a pool, delete it and create it again while the
first reconcile still holds its copy; each incarnation and each mishap can use up
one group id, hence four. Five commands are a create, a delete and a second create
with a watch and an edit that began before; the two resources that may be slow are
among those that the user data of the masters uses. Two masters
lose the quorum with one host; a threshold of one tells a run of failures from a
single one. One further
master and one worker are the first hosts whose authorities can differ; with one
mishap an init is broken off anywhere and run again. Two posts make two operators
overlap; `csi-plugin` brings objects that others need.

Hosts and pods may stop for good, commands end, and a pool may be gone: `boot`,
`operator`, `lifecycle`, `prefix`, `pool` and `worker_nodes` do not check for
deadlock, all the others do. The type invariants of the modules with a theorem
`TypeCorrect` are proved, that of Boot is checked by its run.

The `repair` run has no failing call, for two reasons. `Reset` only logs a failing
`TagECS` after the disk was replaced, so the next pass is admitted at once, and may
then wipe a host that joined etcd between `removeEtcd` and the replacement; for
every other failing call the theorem `WipesOnlyNonMembers` takes the place of the
run. And with a failing call the loops need not converge: a pass whose listing is
old may pick a host that has registered meanwhile, fail to restart its kubelet,
remove its etcd member and end there. Nothing looks for a running master that is
no member: `Healthy()` and the triple compare instances, Node and Master objects.

Some properties are stated up to what the code does not handle: `SizeFollows` and
`HashMeansApplied` up to a capacity that was set without its hash, `DeletionEnds` up
to the first mishap, `StacksStayNamed` up to a write over an unread entry,
`KeptRestorable` and `ReaderFindsFile` up to a shared minute, `QuorumReturns` up to
the first fault. They show that there is no other way to break them; what happens
after it is not promised by anything in the code.

### Disagreements

Two runs end in a violation of what the repository says:

| run | says | does |
|---|---|---|
| `worker_nodes` | "corresponding ecs has been deleted. delete node together" (`healet.go:433`) | with two workers the Node object of a running one is deleted: `triple.go:100` stores the address of the loop variable |
| `prefix` | delete takes the name of one cluster (`cmd/wdrip/cluster/cluster.go:60`, `:68`) | the pools are listed by an object prefix without closing slash (`index/nodepool.go:82`): the groups of `kubernetes-wdrip-120` go with `kubernetes-wdrip-12` |

Five more configurations reproduce a disagreement; they are kept beside the runs,
and TLC ends each with a counterexample.

| configuration, module | says | does |
|---|---|---|
| `members_aligned.cfg`, MCControlPlane | "make sure len(etcd)==len(ecs)" (`masterset.go:202`) | only `Healthy()` is checked; `RemoveFollower` may leave an instance without member, and scaling on from there may lose the quorum |
| `live_member.cfg`, MCControlPlane | "ecs[%s] has been removed, clean up corresponding etcd member" (`healet.go:539`) | the instance list is older than the member list |
| `poweroff.cfg`, MCControlPlane | a powered-off ECS recovers by itself (`docs/zh/infrastructure-resilience.md:38`) | it is never admitted for repair |
| `copies_kept.cfg`, SnapshotIndex | the latest 4 copies are kept (`docs/zh/manage-cluster.md:270`) | a restart within a minute costs one its file |
| `join_panic.cfg`, EtcdJoin | "list all members and wait for them all ready" (`etcd.go:173`) | a listing with an unstarted member ends the init |

Places where the code does not do what a reader may expect; the models follow it
unless the entry says otherwise:

* `Request.Do` returns no error for a reply other than 200 (`request.go:180-193`):
  the caller goes on with an empty answer. `shouldRetry` is to spare POST
  (`request.go:268-274`), but a `url.Error` has a `Timeout` method and is retried
  before the verb is looked at, with a body that was read already.
* `SetBootCredential` compares the length of the endpoint string with the number
  of masters (`initialize.go:337`), so it waits for no other master; a reply
  without `BootCFG` is a nil dereference.
* A host of role Master gets no etcd client certificate; its `kubeadm init` fails.
* `EnsurePresent` returns at once for a kind that exists, established or not,
  while `crd.go:66-69` says that it waits; the timeout of `WaitToBePresent` is
  armed anew on every tick and does not fire.
* Every post writes `resourceId` and `addonInitialized` without `omitempty`
  (`types.go:271`, `:328`): a bootstrapping master erases both.
* `DeleteNodeGroup` returns the error of a group that is missing: a delete that is
  repeated stops there, and so does the reconcile of the pool.
* The time of the last jump is written in local time and parsed as UTC
  (`monit/client.go:93`); Recovery has hosts whose clock is set to UTC.

## Fairness

The heal loop ticks and the controller requeues for ever: weak fairness of both.
A Go mutex hands itself to a waiter after at most a millisecond of starvation:
strong fairness of the reconcile's turn. Booting hosts go on, and throttle
windows elapse: weak fairness of each host's steps. Disturbances are not fair,
and a node that registers by itself is not relied on. In SnapshotIndex requests
return (weak fairness) and the clean-up loop gets the lock (strong fairness);
starting a backup is not assumed. In EtcdJoin a joiner takes its next step
(weak fairness); its property assumes that no call fails and no member stops.
In NodePool the reconcile goes on and the informer lists the pool again every 90 s
(`SyncPeriod`, `operator.go:231`): weak fairness of both; strong fairness of
`ListECS` says that the control plane is not in checking at every resync.
`DeletionEnds` assumes that nothing fails: a pool whose group is already missing
is never deleted, because `DeleteNodeGroup` returns just that error.

In Lifecycle a command goes on until it ends or is killed, and ROS goes on with
creations and deletions: weak fairness of each; users need not start anything.
In Recovery the monitor ticks every interval and runs its actions, a recovery and
the operator's two loops take their next step and the scaling service finishes:
weak fairness of each; the monkey, the start of a manual recovery and faults are
not fair. In Boot an
init goes on, and a host that ended without success is wiped and started over by
the heal loop once an operator runs (`Heal`): weak fairness of the two per host.
`HostsRegister` speaks of the flows that have an operator; with a coordinator a
failed host stays as it is, and so does a master that fails after it registered:
its Node object is there, and an unready node is not admitted for `Reset`. In Operator posts, pods and controllers go on, a kind
becomes established, Kubernetes elects and retires pods: weak fairness; its
liveness properties speak of the time after successful posts, for a post that
fails leaves the Cluster resource as it wrote it.

## Proofs

All theorems hold for every value of the constants that satisfies the named
assumptions (`IdsAssumption`, `SnapshotAssumption`, `JoinAssumption`, `PoolAssumption`,
`LifecycleAssumption`, `RecoveryAssumption`, `BootAssumption`, `OperatorAssumption`).
Between them they state every invariant and every action property that a passing
run checks. Where a property needs the environment to behave, the theorem has the
form `Spec /\ [][E]_vars => []P`: `E` says which steps of the environment are left
out, and the run that checks `P` gives those steps no budget.

* ControlPlane: `TypeCorrect`, `OnlyOrphansDeleted`. The inductive invariant adds
  to the types that ids are allocated once and that what a pass holds in `todo`
  or will derive from its listings is neither an instance nor still to be
  allocated: objects are listed before instances, so an id that was missing from
  the instances then never comes back. `QuorumScaleKeepsMajority` and
  `EtcdMemDiffBounded` are the numeric facts behind the scaling guards.
  * `DeadMembersKeepNodes`, from `NodesKept`: nobody deletes Node objects by hand,
    and the cloud loses no instance that has not registered. A heal pass removes
    the Node object of a lost instance only after its member, or when etcd has
    lost its majority for good, and a member that the instance listing misses is
    dead.
  * `ScalingKeepsQuorum`, from `NodesKept` and `HostsKept`: no etcd process stops,
    no bootstrap gives up and no host is powered off. Scaling starts only if the
    instances are the nodes, so by the theorem before no member is dead then, and
    the hosts that are no members yet are still booting, which keeps Reset away.
  * `WipesOnlyNonMembers`, from `DiskTagged`: the tag on an instance whose disk
    was replaced is written. A host whose tag is old does not boot, so it cannot
    join again between `removeEtcd` and the replacement of its disk.

  These three assume `Timely`, as the two runs that check the properties do.
* SnapshotIndex: `TypeCorrect`, `KeptAlwaysRestorable`, `LatestAlwaysRestorable`,
  `OnlyBackupsChangeRestorable`, `ReaderAlwaysFindsFile`. The inductive invariant says,
  per step of the operation that holds the lock, what is already stored (the new file before the index
  lists it; the files of the kept copies while others are deleted) and that the
  copies of the most recent minute have their file. A lemma shows that dropping
  copies leaves the rank of the kept ones, so a clean-up that was cut off is
  resumed with the same choice. For the reader, which takes no lock, the rank of
  its copy is at most the number of backups completed since it read the index,
  also while an operation works on an index it read before.
* EtcdJoin: `TypeCorrect`, `UnitFileAligned`, `CountsSuffice`,
  `JoinsOneByOne` (the refinement of JoinOneByOne). The inductive invariant
  says that at most one member has never served, and that such a member keeps
  etcd from admitting another one: so the counts a joiner compares tell whether
  it came alone, and its unit file stays right until it starts.
* NodePool: `TypeCorrect`, `OneGroupAtATime`, `DeletionIsComplete`,
  `SkippingIsSafe`. The inductive invariant says why acting on an old copy is
  safe: only the reconcile writes the binding, an object with a binding has the
  finalizer and so outlives the reconcile, and while a group is created no group
  that exists is bound; a hash was computed without binding, with the present
  one, or with one whose group is gone, and only the second can match.
* Lifecycle: `TypeCorrect`, `KubeconfigIsOwn`, `StacksKeepTheirNames`, whatever the
  template holds, and `MastersAlwaysFindTheirWay` from what it holds: the made
  resources of a stack are closed under references, whatever order ROS takes, and
  the references of `k8s_master_sg_enable` and of the configuration it starts
  with reach all that the user data uses. The inductive invariant says that every entry, stored or read
  by a command, carries the address of its own stack or none and names a stack
  that was created; that a create about to save has read no entry; and that a
  delete about to remove its entry, unless forced, has seen its stack doomed.
* Recovery: `TypeCorrect`, `RecoveryAfterStreak`. The counter of the monitor, which
  errors and throttled rounds leave alone, equals the history of real failures;
  wiped hosts that boot are instances.
* Boot: `EntryMatches`. Until a recovery has stored its entry nothing on any host
  was made with an authority, and no operator serves; from then on the entry has
  the authority of the backup, the only one that any host gets.
  `BootTyped`, `FilesAreFound`, `MastersHaveOneAuthority`, `ClusterHasOneAuthority`,
  in two parts. The first is about the plans alone: each stage of each role needs
  only what earlier stages wrote and no later one removed, and rewrites, removes
  or has already replaced every signed file that an earlier init may have left.
  The second is the invariant of the inits, in which the plans appear only
  through these facts: what the stages that are done have left on a host
  (`DiskInv`); that what they touched has the authority in the memory of the init
  (`SameInv`); and where that authority comes from, the one that was given
  (`GivenInv`) or the one in `wdrip.cfg.gen` of the first host once that is written
  (`MadeInv`). The last is what a broken-off and repeated init could break: the
  first host may make several authorities, but nobody else has any before its
  generated configuration is on disk, and from then on it keeps to it. An init
  that could not write that file (`lost`) is excepted in the properties.
* Operator: `TypeCorrect`, `AddonsAreComplete`, `ClusterComesFirst`,
  `PatchesKeepFields`, `JoinersKeepTheStack`, `ReferencesAlwaysResolve`. The inductive invariant speaks of the
  copies: each that claims complete addons (resource, cache, a post's or pod's
  configuration, a patch under way) is right, since applied manifests stay; a
  post past its "cluster" step, and a deployment, imply a Cluster resource; what
  is served names the stack; labels never outnumber the posts that deployed. A
  claim of complete addons also implies the operator's own manifests, since an
  operator made it; and every object of every manifest, also one that a pass left
  behind half way, needs only objects of those, which is shown manifest by
  manifest.

Only model-checked: the liveness properties (`Converges`, `CopiesBounded`,
`QuorumReturns`, `SomeoneJoins`, `SizeFollows`, `DeletionEnds`, `StackSettles`, `ControlPlaneReturns`,
`HostsRegister`, `StackIdReturns`, `AddonsSettle`, `CacheConverges`), which need
fairness and `ENABLED`, beyond the proof system, and what the violations show.

## Not modelled

* Repair events (`controllers/master/node_controller.go`): the controller sends an
  event and waits for a signal which the heal loop, which reads the event and does
  nothing with it, never gives. Nothing changes state, and nothing waits for it.
* Generated code and types (`pkg/apis`, `pkg/generated`), flag parsing, packaging
  (`cmd/wdrip/build`), the local virtual machine wrapper (`cmd/wdrip/vm`,
  `pkg/utils/vz`), progress messages (`pkg/message`): no protocol.
* Certificate generation (`pkg/utils/sign`) and instance metadata
  (`pkg/node/meta`): single requests whose result is a value; the models keep which authority a file was made with.
* `Scale` and `run-command` of the command line, debug handlers of the coordinator,
  `InitializeDefaultCR`, pagination of listings, polling of command results.
  `Scale` reads the group from a stack that was never loaded, and panics before its
  first request.
* The shell of the user data and the content of manifests, units and kubeadm
  configurations beyond what they need and provide; the manifest of flannel,
  which nothing uses; kernel parameters.
* ROS, the scaling service, etcd, the API server and leader election are modelled
  from how this code uses them, and marked external in the map.
* Joining etcd is one step in ControlPlane and Recovery; that several masters may
  do it at once is shown in EtcdJoin, against etcd's membership alone.
