----------------------------- MODULE Lifecycle -----------------------------
(***************************************************************************)
(* The life of one cluster as the command line drives it: iaas.go, the     *)
(* cluster index of index/cluster.go over the object store of oss.go, and  *)
(* the stack of provider/alibaba/ros.go, which ROS makes from the template *)
(* of StackTemplate.  Every request is one step, a command may be killed   *)
(* between two of them, and several commands run at the same time.         *)
(***************************************************************************)
EXTENDS StackTemplate, Integers, FiniteSets

CONSTANTS
  Runs,       \* runs of the command line
  MaxStack,   \* stacks 1..MaxStack may be created
  Pools,      \* node pools of the cluster
  Longer,     \* node pools of clusters whose name begins with this one's
  Slow,       \* resources that may take longer than all the others
  MaxCommands,\* commands that are started
  MaxMishaps  \* requests that fail, commands that are killed

ASSUME LifecycleAssumption ==
  /\ MaxStack \in Nat /\ MaxCommands \in Nat /\ MaxMishaps \in Nat
  /\ IsFiniteSet(Runs) /\ Pools \cap Longer = {}

VARIABLES
  bucket,   \* the bucket of the object store exists
  index,    \* the cluster's object in the store: {} or a singleton
  stack,    \* stack id -> status
  made,     \* stack id -> the resources that exist
  slow,     \* stack id -> the resource that takes longest, if any
  groups,   \* node pools whose scaling group exists
  backups,  \* node pools with an object in the store
  run,      \* the state of each run of the command line
  commands, mishaps

vars == <<bucket, index, stack, made, slow, groups, backups, run, commands, mishaps>>
cloud == <<stack, made, slow, groups, backups>>
rest == <<cloud, commands>>

Stacks == 1..MaxStack
NoStack == 0        \* ResourceId is empty
NoAddress == 0      \* Endpoint.Internet is empty
Placeholder == -1   \* "${INTERNET_LB}", which NewUserData puts there
Entries == [rid : Stacks \cup {NoStack}, ep : Stacks \cup {NoAddress, Placeholder}]
Commands == {"none", "create", "delete", "force", "edit", "watch"}
Steps == {"idle", "save", "provision", "store", "pools", "group", "remove",
          "editor", "poll", "print", "keep"}
Settled == {"complete", "failed", "delete_failed", "gone"}
Statuses == Settled \cup {"none", "creating", "deleting"}
Live(s) == stack[s] \notin {"none", "gone"}
Wanted == Names(Resources)
Needs == [q \in Wanted |-> DependsOn(q)]
Idle == [cmd |-> "none", pc |-> "idle", id |-> {}, todo |-> {}]

Init ==
  /\ bucket \in BOOLEAN
  /\ index = {} /\ backups = {} /\ groups = {}
  /\ stack = [s \in Stacks |-> "none"] /\ made = [s \in Stacks |-> {}]
  /\ slow = [s \in Stacks |-> "none"]
  /\ run = [r \in Runs |-> Idle]
  /\ commands = 0 /\ mishaps = 0

At(r, step) == run[r].pc = step
Goto(r, step) == run' = [run EXCEPT ![r].pc = step]
Done(r) == run' = [run EXCEPT ![r] = Idle]
Fine == UNCHANGED mishaps
Mishap == mishaps < MaxMishaps /\ mishaps' = mishaps + 1

\* SaveCluster: the object is put whole; a bucket that is not there is made.
Put(e) == index' = {e} /\ bucket' = TRUE

\* The last step of a command; a request that fails may have been carried out.
SaveCluster(r, e) ==
  /\ Done(r)
  /\ \/ Put(e) /\ (Fine \/ Mishap)
     \/ UNCHANGED <<index, bucket>> /\ Mishap

-----------------------------------------------------------------------------
(* The commands.                                                           *)

\* Every command begins with GetCluster.  Where it goes on with the entry:
Continue == [delete |-> "pools", force |-> "pools", edit |-> "editor", watch |-> "poll"]

Begin(r, c, id, step) ==
  /\ At(r, "idle") /\ commands < MaxCommands /\ commands' = commands + 1
  /\ run' = [run EXCEPT ![r].cmd = c, ![r].id = id, ![r].pc = step]
  /\ UNCHANGED <<bucket, index, cloud, mishaps>>

GetCluster(r, c) == index # {} /\ Begin(r, c, index, Continue[c])

\* Create goes on only if the error says NoSuchKey; NoSuchBucket is another.
CreateCheck(r) == index = {} /\ bucket /\ Begin(r, "create", {}, "save")

\* The entry that says that the cluster is being created.
CreateSave(r) ==
  /\ At(r, "save")
  /\ LET e == [rid |-> NoStack, ep |-> NoAddress]
     IN  \/ Put(e) /\ run' = [run EXCEPT ![r].pc = "provision", ![r].id = {e}] /\ Fine
         \/ SaveCluster(r, e) /\ Mishap
  /\ UNCHANGED rest

\* CreateStack refuses a name in use.  An error leaves the entry as it is.
CreateStack(r) ==
  /\ At(r, "provision")
  /\ \/ (\E s \in Stacks : Live(s)) /\ Done(r) /\ Fine /\ UNCHANGED <<stack, slow>>
     \/ \E s \in Stacks :
          /\ \A t \in Stacks : ~Live(t) /\ (t < s => stack[t] # "none")
          /\ stack[s] = "none" /\ stack' = [stack EXCEPT ![s] = "creating"]
          /\ \/ /\ run' = [run EXCEPT ![r].pc = "store",
                                      ![r].id = {[rid |-> s, ep |-> Placeholder]}]
                /\ \/ Fine /\ UNCHANGED slow
                   \/ Mishap /\ \E q \in Slow : slow' = [slow EXCEPT ![s] = q]
             \/ Done(r) /\ Mishap /\ UNCHANGED slow
     \/ Done(r) /\ Mishap /\ UNCHANGED <<stack, slow>>
  /\ UNCHANGED <<bucket, index, made, groups, backups, commands>>

\* A failure to save the stack's id is only logged.
CreateStore(r) ==
  /\ At(r, "store")
  /\ \E e \in run[r].id : SaveCluster(r, e)
  /\ UNCHANGED rest

\* Edit writes back the whole entry it read.
EditSave(r) ==
  /\ At(r, "editor")
  /\ \/ \E e \in run[r].id : SaveCluster(r, e)
     \/ Done(r) /\ Mishap /\ UNCHANGED <<bucket, index>>
  /\ UNCHANGED rest

\* ListObject makes the bucket if it is not there.
ListCluster ==
  /\ bucket' = TRUE
  /\ UNCHANGED <<index, rest, run, mishaps>>

\* The kubeconfig is made from the entry alone.
KubeConfigAddress(e) == e.ep

-----------------------------------------------------------------------------
(* Delete.                                                                 *)

\* The objects are listed by the prefix wdrip/nodepools/NAME, which the
\* pools of every cluster with a longer name of the same beginning match.
ListNodePools(r) ==
  /\ At(r, "pools")
  /\ \/ run' = [run EXCEPT ![r].todo = backups, ![r].pc = "group"] /\ Fine
     \/ Done(r) /\ Mishap
  /\ UNCHANGED <<bucket, index, rest>>

\* DeleteNodeGroup returns the error of a group that does not exist and
\* ignores any other; its own request may also have been carried out.
DeleteGroup(r) ==
  /\ At(r, "group")
  /\ \E q \in run[r].todo :
       \/ q \notin groups /\ Done(r) /\ Fine /\ UNCHANGED groups
       \/ /\ q \in groups /\ groups' = groups \ {q} /\ Fine
          /\ run' = [run EXCEPT ![r].todo = @ \ {q}]
       \/ /\ q \in groups /\ UNCHANGED groups /\ Mishap
          /\ run' = [run EXCEPT ![r].todo = @ \ {q}]
  /\ UNCHANGED <<bucket, index, stack, made, slow, backups, commands>>

\* ROS deletes a stack later; only the request is answered.
Condemn(s) == stack' = [stack EXCEPT ![s] = "deleting"]

\* Mutant of DeleteStack: its error is only logged.
DeleteStackLogs(r) ==
  /\ At(r, "group") /\ run[r].todo = {}
  /\ \E e \in run[r].id :
       /\ Goto(r, "remove")
       /\ \/ e.rid # NoStack /\ Fine
             /\ IF Live(e.rid) THEN Condemn(e.rid) ELSE UNCHANGED stack
          \/ (IF e.rid = NoStack THEN Fine ELSE Mishap) /\ UNCHANGED stack
  /\ UNCHANGED <<bucket, index, made, slow, groups, backups, commands>>

\* Delete of the provider: a stack that is not there counts as deleted; an
\* error ends the command unless it is forced.
DeleteStack(r) ==
  /\ At(r, "group") /\ run[r].todo = {}
  /\ \E e \in run[r].id :
       \/ /\ e.rid # NoStack /\ Fine /\ Goto(r, "remove")
          /\ IF Live(e.rid) THEN Condemn(e.rid) ELSE UNCHANGED stack
       \/ /\ IF e.rid = NoStack THEN Fine ELSE Mishap
          /\ IF run[r].cmd = "force" THEN Goto(r, "remove") ELSE Done(r)
          /\ \/ e.rid # NoStack /\ Live(e.rid) /\ Condemn(e.rid)
             \/ UNCHANGED stack
  /\ UNCHANGED <<bucket, index, made, slow, groups, backups, commands>>

RemoveCluster(r) ==
  /\ At(r, "remove") /\ Done(r)
  /\ \/ index' = {} /\ (Fine \/ Mishap)
     \/ UNCHANGED index /\ Mishap
  /\ UNCHANGED <<bucket, rest>>

-----------------------------------------------------------------------------
(* Watch.                                                                  *)

\* ROS answers for a deleted stack as well; an entry without stack id, and
\* a failed request, only poll again until the ten minutes are over.
WatchPoll(r) ==
  /\ At(r, "poll")
  /\ \E e \in run[r].id : e.rid # NoStack /\ stack[e.rid] \in Settled
  /\ Goto(r, "print")
  /\ UNCHANGED <<bucket, index, rest, mishaps>>

WatchTimeout(r) ==
  /\ At(r, "poll")
  /\ Done(r)
  /\ UNCHANGED <<bucket, index, rest, mishaps>>

\* An output has a value when the resources that it refers to exist.
Address(s) ==
  IF Refs(Outputs, "APIServerInternet") \subseteq made[s] THEN s ELSE NoAddress

\* PrintStack: SetEndpoint writes what the outputs say, "" if they do not.
\* A request that fails leaves the entry as it was read.
PrintStack(r) ==
  /\ At(r, "print")
  /\ \/ /\ run' = [run EXCEPT ![r].id = {[e EXCEPT !.ep = Address(e.rid)] : e \in @},
                              ![r].pc = "keep"]
        /\ Fine
     \/ Goto(r, "keep") /\ Mishap
  /\ UNCHANGED <<bucket, index, rest>>

\* Mutant of WatchSave: the endpoint is written into the entry there is now.
WatchSaveMerges(r) ==
  /\ At(r, "keep")
  /\ \E e \in run[r].id, c \in index : SaveCluster(r, [c EXCEPT !.ep = e.ep])
  /\ UNCHANGED rest

WatchSave(r) ==
  /\ At(r, "keep")
  /\ \E e \in run[r].id : SaveCluster(r, e)
  /\ UNCHANGED rest

\* The process ends between two requests.
Kill(r) ==
  /\ run[r].pc # "idle"
  /\ Done(r) /\ Mishap
  /\ UNCHANGED <<bucket, index, rest>>

-----------------------------------------------------------------------------
(* ROS, and the operators of the clusters.                                 *)

\* What ROS may finish next.  The waiter is finished by the signal at the
\* end of the user data of a master, hence after the group is enabled.
Finishable(s) ==
  {q \in Wanted \ made[s] :
     Needs[q] \subseteq made[s] /\ (q = "k8s_master_waiter" => "k8s_master_sg_enable" \in made[s])}

\* What may fail: the waiter also by its timeout, which starts with it.
Failable(s) == {q \in Wanted \ made[s] : Needs[q] \subseteq made[s]}

\* Resources that do not wait for each other are made together; the slow one
\* is made when there is nothing else to make.
RosCreate(s) ==
  /\ stack[s] = "creating" /\ Finishable(s) # {}
  /\ LET quick == Finishable(s) \ {slow[s]}
         m == made[s] \cup (IF quick = {} THEN Finishable(s) ELSE quick)
     IN  /\ made' = [made EXCEPT ![s] = m]
         /\ stack' = [stack EXCEPT ![s] = IF m = Wanted THEN "complete" ELSE "creating"]
  /\ UNCHANGED <<bucket, index, slow, groups, backups, run, commands, mishaps>>

\* DisableRollback: what has been made stays.
RosFail(s) ==
  /\ stack[s] = "creating" /\ Mishap
  /\ \E q \in Failable(s) : made' = [made EXCEPT ![s] = @ \cup (Finishable(s) \ {q})]
  /\ stack' = [stack EXCEPT ![s] = "failed"]
  /\ UNCHANGED <<bucket, index, slow, groups, backups, run, commands>>

\* A scaling group holds on to the network of the stack.
RosDelete(s) ==
  /\ stack[s] = "deleting"
  /\ IF Pools \cap groups = {}
       THEN /\ stack' = [stack EXCEPT ![s] = "gone"]
            /\ made' = [made EXCEPT ![s] = {}]
       ELSE stack' = [stack EXCEPT ![s] = "delete_failed"] /\ UNCHANGED made
  /\ UNCHANGED <<bucket, index, slow, groups, backups, run, commands, mishaps>>

\* The operator of a cluster makes the group of a new pool and its backup.
PoolCreated(q) ==
  /\ q \notin backups /\ bucket
  /\ q \in Longer \/ \E s \in Stacks : stack[s] \in {"complete", "deleting"}
  /\ groups' = groups \cup {q} /\ backups' = backups \cup {q}
  /\ UNCHANGED <<bucket, index, stack, made, slow, run, commands, mishaps>>

Command(r) ==
  \/ CreateSave(r) \/ CreateStack(r) \/ CreateStore(r) \/ EditSave(r)
  \/ ListNodePools(r) \/ DeleteGroup(r) \/ DeleteStack(r) \/ RemoveCluster(r)
  \/ WatchPoll(r) \/ WatchTimeout(r) \/ PrintStack(r) \/ WatchSave(r)

Next ==
  \/ \E r \in Runs : \/ \E c \in DOMAIN Continue : GetCluster(r, c)
                     \/ CreateCheck(r) \/ Command(r) \/ Kill(r)
  \/ ListCluster
  \/ \E s \in Stacks : RosCreate(s) \/ RosFail(s) \/ RosDelete(s)
  \/ \E q \in Pools \cup Longer : PoolCreated(q)

\* A command that was started goes on until it ends, and so does ROS.
Spec ==
  /\ Init /\ [][Next]_vars
  /\ \A r \in Runs : WF_vars(Command(r))
  /\ \A s \in Stacks : WF_vars(RosCreate(s)) /\ WF_vars(RosDelete(s))

-----------------------------------------------------------------------------
(* Properties.                                                             *)

RunRecord == [cmd : Commands, pc : Steps, id : SUBSET Entries, todo : SUBSET (Pools \cup Longer)]

\* Types: the store holds one entry of the cluster at most, no command more
\* than one, and none has a pool to delete that was never stored.
TypeOK ==
  /\ bucket \in BOOLEAN /\ commands \in 0..MaxCommands /\ mishaps \in 0..MaxMishaps
  /\ index \in SUBSET Entries /\ (\A c, d \in index : c = d)
  /\ stack \in [Stacks -> Statuses] /\ made \in [Stacks -> SUBSET Wanted]
  /\ slow \in [Stacks -> Slow \cup {"none"}]
  /\ groups \subseteq Pools \cup Longer /\ backups \subseteq Pools \cup Longer
  /\ run \in [Runs -> RunRecord]
  /\ \A r \in Runs : run[r].todo \subseteq backups /\ \A c, d \in run[r].id : c = d

Named(s) == \E e \in index : e.rid = s

\* An operation on the index whose entry is not the one the index holds now:
\* another command wrote the index after this one had read it.
Stale(r) == run[r].id # index

\* The index (SaveCluster, RemoveCluster) stops naming a stack that exists
\* only when a delete asked ROS to delete that stack, when it was forced to,
\* or when a command wrote over an entry that it had not read.
StacksStayNamed ==
  [][\A s \in Stacks :
       Live(s) /\ Named(s) /\ ~(Named(s))' =>
         \E r \in Runs :
           /\ run'[r] # run[r]
           /\ \/ Stale(r)
              \/ run[r].pc = "remove" /\ (run[r].cmd = "force" \/ stack[s] \in {"deleting", "delete_failed"})]_vars

\* The address that doGetKubeConfig puts into a kubeconfig is that of the stack
\* its entry names once SetEndpoint wrote it, whichever writes of create, edit
\* and watch overtook each other.
KubeconfigOfOwnStack ==
  \A e \in index : KubeConfigAddress(e) \in Stacks => KubeConfigAddress(e) = e.rid

\* The masters start (k8s_master_sg_enable) only when what their user data
\* needs is there: the load balancer with the listeners of the bootstrap and
\* of the API server, the security group and the handle they signal.
MastersFindTheirWay ==
  \A s \in Stacks :
    "k8s_master_sg_enable" \in made[s] =>
      {"k8s_master_slb", "k8s_master_slb_internet", "k8s_master_listener_boot",
       "k8s_master_slb_listener", "k8s_sg", "k8s_master_waiter_handle"} \subseteq made[s]

\* A delete touches no group of another cluster.
OthersKeepTheirGroups == [][Longer \cap groups \subseteq groups']_vars

\* The template has no cycle that would keep ROS waiting: a stack whose
\* creation was accepted leaves the state of being created.
StackSettles == \A s \in Stacks : stack[s] = "creating" ~> stack[s] # "creating"
=============================================================================
