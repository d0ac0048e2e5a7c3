-------------------------- MODULE LifecycleProofs --------------------------
(***************************************************************************)
(* Proofs about Lifecycle, for any number of commands at the same time,    *)
(* stacks, node pools and mishaps.  Only the last theorem, on the masters, *)
(* depends on what the template says.                                      *)
(***************************************************************************)
EXTENDS Lifecycle, TLAPS

\* A stack that is being deleted stays so.
Doomed == {"deleting", "delete_failed", "gone"}

\* An entry's address is that of its own stack, and its stack was created.
EntryOK(e, st) ==
  /\ e.ep \in Stacks => e.ep = e.rid
  /\ e.rid \in Stacks => st[e.rid] # "none"

\* A set of one entry at most.
EntriesOK(es, st) ==
  es \in SUBSET Entries /\ \A c \in es : EntryOK(c, st) /\ \A d \in es : c = d

\* A create that is about to save has read no entry, and a delete that is
\* about to remove its entry has had the stack of it deleted, unless forced.
RunOK(q, st, stored) ==
  /\ q \in RunRecord /\ q.todo \subseteq stored /\ EntriesOK(q.id, st)
  /\ q.pc = "save" => q.id = {}
  /\ q.pc = "remove" /\ q.cmd # "force" => \A e \in q.id : e.rid \in Stacks /\ st[e.rid] \in Doomed

\* What may happen to the stacks.
Later(st, su) ==
  \A s \in Stacks : (st[s] # "none" => su[s] # "none") /\ (st[s] \in Doomed => su[s] \in Doomed)

CloudOK ==
  /\ stack \in [Stacks -> Statuses] /\ made \in [Stacks -> SUBSET Wanted]
  /\ slow \in [Stacks -> Slow \cup {"none"}]
  /\ groups \subseteq Pools \cup Longer /\ backups \subseteq Pools \cup Longer

BoundsOK == bucket \in BOOLEAN /\ commands \in 0..MaxCommands /\ mishaps \in 0..MaxMishaps

RunsOK == run \in [Runs -> RunRecord] /\ \A r \in Runs : RunOK(run[r], stack, backups)

IInv == BoundsOK /\ CloudOK /\ EntriesOK(index, stack) /\ RunsOK

-----------------------------------------------------------------------------
(* Entries and runs across a step.                                         *)

LEMMA Continues ==
  ASSUME NEW c \in DOMAIN Continue
  PROVE  c \in Commands /\ Continue[c] \in {"pools", "editor", "poll"}
  BY DEF Continue, Commands

LEMMA EntriesMonotone ==
  ASSUME NEW es, NEW st, NEW su, EntriesOK(es, st), Later(st, su)
  PROVE  EntriesOK(es, su)
  BY DEF EntriesOK, EntryOK, Later

LEMMA RunMonotone ==
  ASSUME NEW q, NEW st, NEW su, NEW a, NEW b, RunOK(q, st, a), Later(st, su), a \subseteq b
  PROVE  RunOK(q, su, b)
<1>1. EntriesOK(q.id, su)
  BY EntriesMonotone DEF RunOK
<1> QED
  BY <1>1 DEF RunOK, Later

LEMMA RunsKept ==
  ASSUME RunsOK, Later(stack, stack'), backups \subseteq backups', run' = run
  PROVE  RunsOK'
  BY RunMonotone DEF RunsOK

LEMMA RunChanged ==
  ASSUME RunsOK, Later(stack, stack'), backups \subseteq backups',
         NEW r \in Runs, NEW q, RunOK(q, stack', backups'), run' = [run EXCEPT ![r] = q]
  PROVE  RunsOK'
<1>1. run' \in [Runs -> RunRecord]
  BY DEF RunsOK, RunOK
<1>2. ASSUME NEW k \in Runs PROVE RunOK(run'[k], stack', backups')
  <2>1. CASE k = r
    BY <2>1 DEF RunsOK
  <2>2. CASE k # r
    <3>1. run'[k] = run[k] /\ RunOK(run[k], stack, backups)
      BY <2>2 DEF RunsOK
    <3> QED
      BY <3>1, RunMonotone
  <2> QED
    BY <2>1, <2>2
<1> QED
  BY <1>1, <1>2 DEF RunsOK

LEMMA IdleOK ==
  ASSUME NEW st, NEW stored
  PROVE  RunOK(Idle, st, stored)
<1>1. Idle \in RunRecord
  BY DEF Idle, RunRecord, Commands, Steps
<1> QED
  BY <1>1 DEF RunOK, EntriesOK, Idle

LEMMA DoneOK ==
  ASSUME RunsOK, Later(stack, stack'), backups \subseteq backups', NEW r \in Runs, Done(r)
  PROVE  RunsOK'
  BY IdleOK, RunChanged, Zenon DEF Done

\* A run goes on to a step without a condition of its own.
LEMMA GotoOK ==
  ASSUME RunsOK, NEW r \in Runs, NEW step \in Steps \ {"save", "remove"}, Goto(r, step),
         UNCHANGED <<stack, backups>>
  PROVE  RunsOK'
<1> DEFINE q == [run[r] EXCEPT !.pc = step]
<1>1. RunOK(run[r], stack, backups) /\ run' = [run EXCEPT ![r] = q]
  BY DEF RunsOK, Goto
<1>2. RunOK(q, stack', backups')
  BY <1>1 DEF RunOK, RunRecord
<1>3. Later(stack, stack')
  BY DEF Later
<1> QED
  BY <1>1, <1>2, <1>3, RunChanged, Zenon

LEMMA MishapOK ==
  ASSUME BoundsOK, Fine \/ Mishap
  PROVE  mishaps' \in 0..MaxMishaps
  BY LifecycleAssumption DEF BoundsOK, Fine, Mishap

LEMMA SaveOK ==
  ASSUME IInv, NEW r \in Runs, NEW e \in Entries, EntryOK(e, stack), SaveCluster(r, e), UNCHANGED rest
  PROVE  IInv'
<1>1. CloudOK' /\ Later(stack, stack') /\ UNCHANGED <<stack, backups, commands>>
  BY DEF rest, cloud, IInv, CloudOK, Later
<1>2. RunsOK'
  BY <1>1, DoneOK DEF SaveCluster, IInv
<1>3. EntriesOK(index', stack')
  BY <1>1 DEF SaveCluster, Put, IInv, EntriesOK
<1>4. bucket' \in BOOLEAN
  BY Zenon DEF SaveCluster, Put, IInv, BoundsOK
<1>5. mishaps' \in 0..MaxMishaps
  BY MishapOK DEF SaveCluster, IInv
<1> QED
  BY <1>1, <1>2, <1>3, <1>4, <1>5 DEF IInv, BoundsOK

-----------------------------------------------------------------------------
(* The invariant at the start and across every action.                     *)

LEMMA InitOK == Init => IInv
<1> SUFFICES ASSUME Init PROVE IInv
  OBVIOUS
<1>1. BoundsOK
  BY LifecycleAssumption DEF Init, BoundsOK
<1>2. CloudOK /\ EntriesOK(index, stack)
  BY DEF Init, CloudOK, Statuses, EntriesOK
<1>3. RunsOK
  <2>1. RunOK(Idle, stack, backups) /\ Idle \in RunRecord
    BY IdleOK DEF RunOK
  <2> QED
    BY <2>1 DEF Init, RunsOK
<1> QED
  BY <1>1, <1>2, <1>3 DEF IInv

LEMMA BeginOK ==
  ASSUME IInv, NEW r \in Runs, NEW c \in Commands, NEW es, NEW step \in Steps \ {"remove"},
         EntriesOK(es, stack), step = "save" => es = {}, Begin(r, c, es, step)
  PROVE  IInv'
<1> DEFINE q == [run[r] EXCEPT !.cmd = c, !.id = es, !.pc = step]
<1>1. CloudOK' /\ EntriesOK(index', stack') /\ Later(stack, stack') /\ UNCHANGED <<stack, backups>>
  BY DEF Begin, cloud, IInv, CloudOK, Later
<1>2. run' = [run EXCEPT ![r] = q]
  BY Zenon DEF Begin, IInv, RunsOK
<1>3. RunOK(q, stack', backups')
  <2>1. RunOK(run[r], stack, backups)
    BY DEF IInv, RunsOK
  <2>2. q \in RunRecord /\ q.todo = run[r].todo /\ q.id = es /\ q.pc = step
    BY <2>1, Zenon DEF RunOK, RunRecord, EntriesOK
  <2> QED
    BY <1>1, <2>1, <2>2 DEF RunOK
<1>4. RunsOK'
  BY <1>1, <1>2, <1>3, RunChanged, Zenon DEF IInv
<1>5. BoundsOK'
  BY LifecycleAssumption DEF Begin, IInv, BoundsOK
<1> QED
  BY <1>1, <1>4, <1>5 DEF IInv

LEMMA CreateSaveOK ==
  ASSUME IInv, NEW r \in Runs, CreateSave(r)
  PROVE  IInv'
<1> DEFINE e == [rid |-> NoStack, ep |-> NoAddress]
           q == [run[r] EXCEPT !.pc = "provision", !.id = {e}]
<1>1. e \in Entries /\ EntryOK(e, stack)
  BY LifecycleAssumption DEF Entries, EntryOK, Stacks, NoStack, NoAddress
<1>2. UNCHANGED rest
  BY DEF CreateSave
<1>3. CASE SaveCluster(r, e)
  BY <1>1, <1>2, <1>3, SaveOK
<1>4. CASE Put(e) /\ run' = [run EXCEPT ![r].pc = "provision", ![r].id = {e}] /\ Fine
  <2>1. CloudOK' /\ Later(stack, stack') /\ UNCHANGED <<stack, backups, commands>>
    BY <1>2 DEF rest, cloud, IInv, CloudOK, Later
  <2>2. EntriesOK({e}, stack')
    BY <1>1, <2>1 DEF EntriesOK
  <2>3. RunOK(q, stack', backups')
    <3>1. RunOK(run[r], stack, backups)
      BY DEF IInv, RunsOK
    <3>2. {e} \in SUBSET Entries
      BY <1>1
    <3>3. q \in RunRecord /\ q.todo = run[r].todo /\ q.id = {e} /\ q.pc = "provision"
      <4> HIDE DEF e
      <4> QED
        BY <3>1, <3>2, Zenon DEF RunOK, RunRecord, Steps
    <3> QED
      BY <2>1, <2>2, <3>1, <3>3 DEF RunOK
  <2>4. run' = [run EXCEPT ![r] = q]
    BY <1>4, Zenon DEF IInv, RunsOK
  <2>5. RunsOK'
    BY <2>1, <2>3, <2>4, RunChanged, Zenon DEF IInv
  <2>6. BoundsOK'
    BY <1>4, <2>1 DEF Put, Fine, IInv, BoundsOK
  <2> QED
    BY <1>4, <2>1, <2>2, <2>5, <2>6 DEF Put, IInv
<1> QED
  BY <1>3, <1>4 DEF CreateSave

\* A new stack: the entries made for it name it, and no address yet.
LEMMA CreateStackOK ==
  ASSUME IInv, NEW r \in Runs, CreateStack(r)
  PROVE  IInv'
<1>1. BoundsOK' /\ UNCHANGED <<index, backups>>
  BY MishapOK DEF CreateStack, IInv, BoundsOK
<1>2. CASE Done(r) /\ UNCHANGED <<stack, slow>>
  <2>1. CloudOK' /\ Later(stack, stack') /\ EntriesOK(index', stack')
    BY <1>1, <1>2 DEF CreateStack, IInv, CloudOK, Later
  <2>2. RunsOK'
    BY <1>1, <1>2, <2>1, DoneOK DEF IInv
  <2> QED
    BY <1>1, <2>1, <2>2 DEF IInv
<1>3. ASSUME NEW s \in Stacks, stack[s] = "none", stack' = [stack EXCEPT ![s] = "creating"],
             \/ /\ run' = [run EXCEPT ![r].pc = "store", ![r].id = {[rid |-> s, ep |-> Placeholder]}]
                /\ UNCHANGED slow \/ \E q \in Slow : slow' = [slow EXCEPT ![s] = q]
             \/ Done(r) /\ UNCHANGED slow
      PROVE  IInv'
  <2> DEFINE e == [rid |-> s, ep |-> Placeholder]
             q == [run[r] EXCEPT !.pc = "store", !.id = {e}]
  <2>1. CloudOK'
    BY <1>1, <1>3 DEF CreateStack, IInv, CloudOK, Statuses
  <2>2. Later(stack, stack') /\ stack'[s] = "creating"
    BY <1>3 DEF IInv, CloudOK, Later, Doomed
  <2>3. EntriesOK(index', stack')
    BY <1>1, <2>2, EntriesMonotone DEF IInv
  <2>4. CASE Done(r)
    BY <1>1, <2>1, <2>2, <2>3, <2>4, DoneOK DEF IInv
  <2>5. CASE run' = [run EXCEPT ![r].pc = "store", ![r].id = {e}]
    <3>1. e \in Entries /\ EntryOK(e, stack')
      BY <2>2, LifecycleAssumption DEF Entries, EntryOK, Stacks, Placeholder
    <3>2. EntriesOK({e}, stack') /\ {e} \in SUBSET Entries
      BY <3>1 DEF EntriesOK
    <3>3. RunOK(q, stack', backups')
      <4>1. RunOK(run[r], stack, backups)
        BY DEF IInv, RunsOK
      <4>2. q \in RunRecord /\ q.todo = run[r].todo /\ q.id = {e} /\ q.pc = "store"
        <5> HIDE DEF e
        <5> QED
          BY <3>2, <4>1, Zenon DEF RunOK, RunRecord, Steps
      <4> QED
        BY <1>1, <3>2, <4>1, <4>2 DEF RunOK
    <3>4. run' = [run EXCEPT ![r] = q]
      BY <2>5, Zenon DEF IInv, RunsOK
    <3>5. RunsOK'
      BY <1>1, <2>2, <3>3, <3>4, RunChanged, Zenon DEF IInv
    <3> QED
      BY <1>1, <2>1, <2>3, <3>5 DEF IInv
  <2> QED
    BY <1>3, <2>4, <2>5
<1> QED
  BY <1>2, <1>3 DEF CreateStack

\* The three commands that write back an entry they hold.
LEMMA WriteBackOK ==
  ASSUME IInv, NEW r \in Runs, CreateStore(r) \/ EditSave(r) \/ WatchSave(r)
  PROVE  IInv'
<1>1. EntriesOK(run[r].id, stack)
  BY DEF IInv, RunsOK, RunOK
<1>2. CASE \E e \in run[r].id : SaveCluster(r, e) /\ UNCHANGED rest
  BY <1>1, <1>2, SaveOK DEF EntriesOK
<1>3. CASE Done(r) /\ Mishap /\ UNCHANGED <<bucket, index>> /\ UNCHANGED rest
  <2>1. CloudOK' /\ Later(stack, stack') /\ UNCHANGED <<stack, backups, commands>>
    BY <1>3 DEF rest, cloud, IInv, CloudOK, Later
  <2>2. RunsOK' /\ EntriesOK(index', stack')
    BY <1>3, <2>1, DoneOK DEF IInv
  <2>3. BoundsOK'
    BY <1>3, <2>1, MishapOK DEF IInv, BoundsOK
  <2> QED
    BY <2>1, <2>2, <2>3 DEF IInv
<1> QED
  BY <1>2, <1>3 DEF CreateStore, EditSave, WatchSave

LEMMA DeleteGroupsOK ==
  ASSUME IInv, NEW r \in Runs, ListNodePools(r) \/ DeleteGroup(r)
  PROVE  IInv'
<1>1. /\ CloudOK' /\ Later(stack, stack') /\ EntriesOK(index', stack')
      /\ UNCHANGED <<stack, backups, bucket, commands>>
  BY DEF ListNodePools, DeleteGroup, rest, cloud, IInv, CloudOK, Later
<1>2. BoundsOK'
  BY <1>1, MishapOK DEF ListNodePools, DeleteGroup, IInv, BoundsOK
<1>3. RunOK(run[r], stack, backups) /\ run[r].pc \in {"pools", "group"}
  BY DEF ListNodePools, DeleteGroup, At, IInv, RunsOK
<1>4. CASE Done(r)
  BY <1>1, <1>2, <1>4, DoneOK DEF IInv
<1>5. CASE run' = [run EXCEPT ![r].todo = backups, ![r].pc = "group"]
  <2> DEFINE q == [run[r] EXCEPT !.todo = backups, !.pc = "group"]
  <2>1. RunOK(q, stack', backups')
    BY <1>1, <1>3, Zenon DEF RunOK, RunRecord, Steps, IInv, CloudOK
  <2>2. run' = [run EXCEPT ![r] = q]
    BY <1>5, Zenon DEF IInv, RunsOK
  <2> QED
    BY <1>1, <1>2, <2>1, <2>2, RunChanged, Zenon DEF IInv
<1>6. CASE \E p \in run[r].todo : run' = [run EXCEPT ![r].todo = @ \ {p}]
  <2>1. PICK p \in run[r].todo : run' = [run EXCEPT ![r].todo = @ \ {p}]
    BY <1>6, Zenon
  <2> DEFINE q == [run[r] EXCEPT !.todo = run[r].todo \ {p}]
  <2>2. RunOK(q, stack', backups')
    BY <1>1, <1>3 DEF RunOK, RunRecord
  <2>3. run' = [run EXCEPT ![r] = q]
    BY <2>1 DEF IInv, RunsOK
  <2> QED
    BY <1>1, <1>2, <2>2, <2>3, RunChanged, Zenon DEF IInv
<1> QED
  BY <1>4, <1>5, <1>6 DEF ListNodePools, DeleteGroup

\* A delete goes on to the entry when the stack of it is doomed or it is
\* forced.
LEMMA DeleteStackOK ==
  ASSUME IInv, NEW r \in Runs, DeleteStack(r)
  PROVE  IInv'
<1>1. BoundsOK' /\ UNCHANGED <<index, backups>>
  BY MishapOK DEF DeleteStack, IInv, BoundsOK
<1>2. RunOK(run[r], stack, backups) /\ EntriesOK(run[r].id, stack)
  BY DEF IInv, RunsOK, RunOK
<1>3. PICK e \in run[r].id :
       \/ /\ e.rid # NoStack /\ Goto(r, "remove")
          /\ IF Live(e.rid) THEN Condemn(e.rid) ELSE UNCHANGED stack
       \/ /\ IF run[r].cmd = "force" THEN Goto(r, "remove") ELSE Done(r)
          /\ \/ e.rid # NoStack /\ Live(e.rid) /\ Condemn(e.rid)
             \/ UNCHANGED stack
  BY DEF DeleteStack
<1>4. e \in Entries /\ EntryOK(e, stack) /\ \A d \in run[r].id : d = e
  BY <1>2, <1>3 DEF EntriesOK
<1>5. e.rid # NoStack => e.rid \in Stacks /\ stack[e.rid] # "none"
  BY <1>4 DEF Entries, EntryOK
<1>6. \/ UNCHANGED stack
      \/ e.rid \in Stacks /\ Live(e.rid) /\ stack' = [stack EXCEPT ![e.rid] = "deleting"]
  BY <1>3, <1>5 DEF Condemn
<1>7. CloudOK' /\ Later(stack, stack')
  BY <1>6 DEF DeleteStack, IInv, CloudOK, Statuses, Later, Doomed, Live
<1>8. EntriesOK(index', stack')
  BY <1>1, <1>7, EntriesMonotone DEF IInv
<1>9. CASE Done(r)
  BY <1>1, <1>7, <1>8, <1>9, DoneOK DEF IInv
<1>10. CASE Goto(r, "remove")
  <2> DEFINE q == [run[r] EXCEPT !.pc = "remove"]
  <2>1. run' = [run EXCEPT ![r] = q]
    BY <1>10 DEF Goto, IInv, RunsOK
  <2>2. run[r].cmd # "force" => e.rid \in Stacks /\ stack'[e.rid] \in Doomed
    <3> SUFFICES ASSUME run[r].cmd # "force", ~Done(r) PROVE e.rid \in Stacks /\ stack'[e.rid] \in Doomed
      <4>1. Done(r) => run'[r].pc = "idle"
        BY DEF Done, Idle, IInv, RunsOK
      <4>2. run'[r].pc = "remove"
        BY <1>2, <2>1 DEF RunOK, RunRecord, IInv, RunsOK
      <4> QED
        BY <4>1, <4>2
    <3>1. e.rid # NoStack /\ (IF Live(e.rid) THEN Condemn(e.rid) ELSE UNCHANGED stack)
      BY <1>3
    <3> QED
      BY <1>5, <3>1 DEF Condemn, Live, Doomed, IInv, CloudOK
  <2>3. EntriesOK(run[r].id, stack')
    BY <1>2, <1>7, EntriesMonotone
  <2>4. q \in RunRecord /\ q.id = run[r].id /\ q.todo = run[r].todo /\ q.cmd = run[r].cmd /\ q.pc = "remove"
    BY <1>2 DEF RunOK, RunRecord, Steps
  <2>5. RunOK(q, stack', backups')
    BY <1>1, <1>2, <1>4, <2>2, <2>3, <2>4 DEF RunOK
  <2>6. RunsOK'
    BY <1>1, <1>7, <2>1, <2>5, RunChanged, Zenon DEF IInv
  <2> QED
    BY <1>1, <1>7, <1>8, <2>6 DEF IInv
<1> QED
  BY <1>3, <1>9, <1>10

LEMMA RemoveClusterOK ==
  ASSUME IInv, NEW r \in Runs, RemoveCluster(r)
  PROVE  IInv'
<1>1. /\ CloudOK' /\ Later(stack, stack') /\ UNCHANGED <<stack, backups, bucket, commands>>
  BY DEF RemoveCluster, rest, cloud, IInv, CloudOK, Later
<1>2. BoundsOK'
  BY <1>1, MishapOK DEF RemoveCluster, IInv, BoundsOK
<1>3. EntriesOK(index', stack')
  BY <1>1 DEF RemoveCluster, IInv, EntriesOK
<1>4. RunsOK'
  BY <1>1, DoneOK DEF RemoveCluster, IInv
<1> QED
  BY <1>1, <1>2, <1>3, <1>4 DEF IInv

LEMMA WatchOK ==
  ASSUME IInv, NEW r \in Runs, WatchPoll(r) \/ WatchTimeout(r) \/ PrintStack(r) \/ Kill(r)
  PROVE  IInv'
<1>1. /\ CloudOK' /\ Later(stack, stack') /\ EntriesOK(index', stack')
      /\ UNCHANGED <<stack, backups, bucket, commands>>
  BY DEF WatchPoll, WatchTimeout, PrintStack, Kill, rest, cloud, IInv, CloudOK, Later
<1>2. BoundsOK'
  BY <1>1, MishapOK DEF WatchPoll, WatchTimeout, PrintStack, Kill, IInv, BoundsOK
<1>3. CASE Done(r)
  BY <1>1, <1>2, <1>3, DoneOK DEF IInv
<1>4. CASE Goto(r, "print") \/ Goto(r, "keep")
  BY <1>1, <1>2, <1>4, GotoOK DEF IInv, Steps
<1>5. CASE run' = [run EXCEPT ![r].id = {[e EXCEPT !.ep = Address(e.rid)] : e \in @}, ![r].pc = "keep"]
  <2> DEFINE es == {[e EXCEPT !.ep = Address(e.rid)] : e \in run[r].id}
             q == [run[r] EXCEPT !.id = es, !.pc = "keep"]
  <2>1. RunOK(run[r], stack, backups) /\ EntriesOK(run[r].id, stack)
    BY DEF IInv, RunsOK, RunOK
  <2>2. EntriesOK(es, stack')
    <3>1. ASSUME NEW e \in run[r].id
          PROVE  /\ [e EXCEPT !.ep = Address(e.rid)] \in Entries
                 /\ EntryOK([e EXCEPT !.ep = Address(e.rid)], stack')
      <4>1. e \in Entries /\ EntryOK(e, stack)
        BY <2>1 DEF EntriesOK
      <4>2. Address(e.rid) \in {e.rid, NoAddress} /\ NoAddress \notin Stacks
        BY LifecycleAssumption DEF Address, NoAddress, Stacks
      <4>3. e.rid \in Stacks \cup {NoAddress}
        BY <4>1 DEF Entries, NoStack, NoAddress
      <4> QED
        BY <1>1, <4>1, <4>2, <4>3 DEF Entries, EntryOK
    <3> QED
      BY <2>1, <3>1 DEF EntriesOK
  <2>3. q \in RunRecord /\ q.id = es /\ q.todo = run[r].todo /\ q.pc = "keep"
    <3>1. es \in SUBSET Entries
      BY <2>2 DEF EntriesOK
    <3> HIDE DEF es
    <3> QED
      BY <2>1, <3>1, Zenon DEF RunOK, RunRecord, Steps
  <2>4. RunOK(q, stack', backups')
    BY <1>1, <2>1, <2>2, <2>3 DEF RunOK
  <2>5. run' = [run EXCEPT ![r] = q]
    BY <1>5, Zenon DEF IInv, RunsOK
  <2> QED
    BY <1>1, <1>2, <2>4, <2>5, RunChanged, Zenon DEF IInv
<1> QED
  BY <1>3, <1>4, <1>5, ZenonT(40) DEF WatchPoll, WatchTimeout, PrintStack, Kill

\* What ROS and the operators do, and a listing.
LEMMA CloudStepOK ==
  ASSUME IInv, \/ ListCluster \/ \E p \in Pools \cup Longer : PoolCreated(p)
               \/ \E s \in Stacks : RosCreate(s) \/ RosFail(s) \/ RosDelete(s)
  PROVE  IInv'
<1>1. CASE ListCluster
  <2>1. CloudOK' /\ Later(stack, stack') /\ UNCHANGED <<stack, index, backups, run>>
    BY <1>1 DEF ListCluster, rest, cloud, IInv, CloudOK, Later
  <2>2. BoundsOK'
    BY <1>1 DEF ListCluster, rest, IInv, BoundsOK
  <2> QED
    BY <2>1, <2>2, RunsKept DEF IInv
<1>2. CASE \E p \in Pools \cup Longer : PoolCreated(p)
  <2>1. CloudOK' /\ Later(stack, stack') /\ backups \subseteq backups' /\ UNCHANGED <<stack, index, run>>
    BY <1>2 DEF PoolCreated, IInv, CloudOK, Later
  <2>2. BoundsOK'
    BY <1>2 DEF PoolCreated, IInv, BoundsOK
  <2> QED
    BY <2>1, <2>2, RunsKept DEF IInv
<1>3. CASE \E s \in Stacks : RosCreate(s) \/ RosFail(s) \/ RosDelete(s)
  <2>1. PICK s \in Stacks : RosCreate(s) \/ RosFail(s) \/ RosDelete(s)
    BY <1>3
  <2>2. UNCHANGED <<bucket, index, slow, groups, backups, run, commands>> /\ BoundsOK'
    BY <2>1, MishapOK DEF RosCreate, RosFail, RosDelete, IInv, BoundsOK
  <2>3. PICK v \in {"creating", "complete", "failed", "gone", "delete_failed"} :
          /\ stack' = [stack EXCEPT ![s] = v]
          /\ stack[s] = "creating" \/ (stack[s] = "deleting" /\ v \in Doomed)
    BY <2>1 DEF RosCreate, RosFail, RosDelete, Doomed
  <2>4. made' \in [Stacks -> SUBSET Wanted]
    <3>1. Finishable(s) \subseteq Wanted /\ made[s] \subseteq Wanted
      BY DEF Finishable, IInv, CloudOK
    <3>2. made' = made \/ \E m \in SUBSET Wanted : made' = [made EXCEPT ![s] = m]
      <4>1. CASE RosCreate(s)
        BY <3>1, <4>1, Zenon DEF RosCreate
      <4>2. CASE RosFail(s)
        BY <3>1, <4>2, Zenon DEF RosFail
      <4>3. CASE RosDelete(s)
        BY <4>3 DEF RosDelete
      <4> QED
        BY <2>1, <4>1, <4>2, <4>3
    <3> QED
      BY <3>2 DEF IInv, CloudOK
  <2>5. CloudOK' /\ Later(stack, stack')
    BY <2>2, <2>3, <2>4, Zenon DEF IInv, CloudOK, Statuses, Settled, Later, Doomed
  <2>6. EntriesOK(index', stack')
    BY <2>2, <2>5, EntriesMonotone DEF IInv
  <2> QED
    BY <2>2, <2>5, <2>6, RunsKept DEF IInv
<1> QED
  BY <1>1, <1>2, <1>3

LEMMA NextOK == IInv /\ [Next]_vars => IInv'
<1> SUFFICES ASSUME IInv, [Next]_vars PROVE IInv'
  OBVIOUS
<1>1. ASSUME NEW r \in Runs, NEW c \in DOMAIN Continue, GetCluster(r, c) PROVE IInv'
  <2>1. Continue[c] \in Steps \ {"remove"} /\ Continue[c] # "save" /\ c \in Commands
    BY Continues DEF Steps
  <2> QED
    BY <1>1, <2>1, BeginOK DEF GetCluster, IInv
<1>2. ASSUME NEW r \in Runs, CreateCheck(r) PROVE IInv'
  <2>1. EntriesOK({}, stack) /\ "create" \in Commands /\ "save" \in Steps \ {"remove"}
    BY DEF EntriesOK, Commands, Steps
  <2> QED
    BY <1>2, <2>1, BeginOK DEF CreateCheck
<1>3. ASSUME NEW r \in Runs, Command(r) \/ Kill(r) PROVE IInv'
  BY <1>3, CreateSaveOK, CreateStackOK, WriteBackOK, DeleteGroupsOK, DeleteStackOK,
     RemoveClusterOK, WatchOK DEF Command
<1>4. CASE UNCHANGED vars
  <2>1. Later(stack, stack') /\ UNCHANGED <<stack, backups, run, index>>
    BY <1>4 DEF vars, Later
  <2>2. RunsOK' /\ BoundsOK' /\ CloudOK'
    BY <1>4, <2>1, RunsKept DEF vars, IInv, BoundsOK, CloudOK
  <2> QED
    BY <2>1, <2>2 DEF IInv
<1> QED
  BY <1>1, <1>2, <1>3, <1>4, CloudStepOK DEF Next

LEMMA Inductive == Spec => []IInv
  BY InitOK, NextOK, PTL DEF Spec

-----------------------------------------------------------------------------
\* The commands of iaas.go and ROS keep the state well typed: one entry at
\* most in the store and in every command.
THEOREM TypeCorrect == Spec => []TypeOK
<1>1. IInv => TypeOK
  BY DEF IInv, BoundsOK, CloudOK, EntriesOK, RunsOK, RunOK, TypeOK
<1> QED
  BY <1>1, Inductive, PTL

\* Whichever commands overtake each other, the address that doGetKubeConfig
\* takes from the entry is that of the stack the entry names.
THEOREM KubeconfigIsOwn == Spec => []KubeconfigOfOwnStack
<1>1. IInv => KubeconfigOfOwnStack
  BY DEF IInv, EntriesOK, EntryOK, KubeconfigOfOwnStack, KubeConfigAddress
<1> QED
  BY <1>1, Inductive, PTL

\* Who may change the entry in the store: a command that puts an entry it
\* holds, a create that puts the first one, or a delete at its end.
LEMMA IndexWriters ==
  ASSUME IInv, Next, index' # index
  PROVE  \E r \in Runs :
           /\ run'[r] # run[r]
           /\ \/ run[r].pc = "save"
              \/ \E e \in run[r].id : index' = {e}
              \/ run[r].pc = "remove"
<1>1. PICK r \in Runs : Command(r)
  BY Zenon DEF Next, GetCluster, CreateCheck, Begin, Kill, ListCluster, RosCreate, RosFail, RosDelete, PoolCreated
<1>2. \/ CreateSave(r) \/ CreateStore(r) \/ EditSave(r) \/ WatchSave(r) \/ RemoveCluster(r)
  BY <1>1 DEF Command, CreateStack, ListNodePools, DeleteGroup, DeleteStack, WatchPoll, WatchTimeout, PrintStack
<1>3. run[r].pc \in {"save", "store", "editor", "keep", "remove"}
  BY <1>2 DEF CreateSave, CreateStore, EditSave, WatchSave, RemoveCluster, At
<1>4. run'[r].pc \in {"idle", "provision"}
  <2>1. CASE Done(r)
    BY <2>1 DEF Done, Idle, IInv, RunsOK
  <2>2. CASE ~Done(r)
    <3>1. \E e : run' = [run EXCEPT ![r].pc = "provision", ![r].id = {e}]
      BY <1>2, <2>2 DEF CreateSave, CreateStore, EditSave, WatchSave, RemoveCluster, SaveCluster
    <3>2. PICK e : run' = [run EXCEPT ![r].pc = "provision", ![r].id = {e}]
      BY <3>1, Zenon
    <3>3. run[r] \in RunRecord
      BY DEF IInv, RunsOK
    <3> QED
      BY <3>2, <3>3 DEF RunRecord, IInv, RunsOK
  <2> QED
    BY <2>1, <2>2
<1>5. run'[r] # run[r]
  BY <1>3, <1>4
<1>6. \/ run[r].pc = "save" \/ run[r].pc = "remove" \/ \E e \in run[r].id : index' = {e}
  BY <1>2 DEF CreateSave, CreateStore, EditSave, WatchSave, RemoveCluster, SaveCluster, Put, At
<1> QED
  BY <1>5, <1>6

\* A stack that exists loses its name in the index only by a delete that had
\* ROS delete it or was forced, or by a command that writes over what it has
\* not read.
THEOREM StacksKeepTheirNames == Spec => StacksStayNamed
<1>1. ASSUME IInv, Next, NEW s \in Stacks, Live(s), Named(s), ~(Named(s))'
      PROVE  \E r \in Runs :
               /\ run'[r] # run[r]
               /\ \/ Stale(r)
                  \/ run[r].pc = "remove" /\ (run[r].cmd = "force" \/ stack[s] \in {"deleting", "delete_failed"})
  <2>1. index' # index /\ index # {}
    BY <1>1 DEF Named
  <2>2. PICK r \in Runs :
           /\ run'[r] # run[r]
           /\ \/ run[r].pc = "save"
              \/ \E e \in run[r].id : index' = {e}
              \/ run[r].pc = "remove"
    BY <1>1, <2>1, IndexWriters
  <2>3. RunOK(run[r], stack, backups) /\ EntriesOK(index, stack)
    BY <1>1 DEF IInv, RunsOK
  <2>4. CASE run[r].id # index
    BY <2>2, <2>4 DEF Stale
  <2>5. CASE run[r].id = index
    <3>1. run[r].pc # "save"
      BY <2>1, <2>3, <2>5 DEF RunOK
    <3>2. ~ \E e \in run[r].id : index' = {e}
      BY <2>1, <2>3, <2>5 DEF EntriesOK
    <3>3. run[r].pc = "remove"
      BY <2>2, <3>1, <3>2
    <3>4. run[r].cmd # "force" => stack[s] \in Doomed
      BY <1>1, <2>3, <2>5, <3>3 DEF RunOK, Named
    <3> QED
      BY <1>1, <2>2, <3>3, <3>4 DEF Doomed, Live
  <2> QED
    BY <2>4, <2>5
<1>2. IInv /\ [Next]_vars =>
        [\A s \in Stacks :
           Live(s) /\ Named(s) /\ ~(Named(s))' =>
             \E r \in Runs :
               /\ run'[r] # run[r]
               /\ \/ Stale(r)
                  \/ run[r].pc = "remove" /\ (run[r].cmd = "force" \/ stack[s] \in {"deleting", "delete_failed"})]_vars
  BY <1>1
<1> QED
  BY <1>2, Inductive, PTL DEF Spec, StacksStayNamed
-----------------------------------------------------------------------------
(* What the template promises the masters.                                 *)

\* ROS makes nothing before what it refers to.
MadeClosed == \A s \in Stacks : \A q \in made[s] : Needs[q] \subseteq made[s]

LEMMA MadeByRos ==
  ASSUME Next
  PROVE  \/ UNCHANGED made
         \/ \E s \in Stacks : RosCreate(s) \/ RosFail(s) \/ RosDelete(s)
<1>1. ASSUME NEW r \in Runs, Command(r) \/ Kill(r) PROVE UNCHANGED made
  BY <1>1 DEF Command, CreateSave, CreateStack, CreateStore, EditSave, ListNodePools, DeleteGroup,
              DeleteStack, RemoveCluster, WatchPoll, WatchTimeout, PrintStack, WatchSave, Kill, rest, cloud
<1>2. ASSUME NEW r \in Runs, CreateCheck(r) \/ \E c \in DOMAIN Continue : GetCluster(r, c)
      PROVE  UNCHANGED made
  BY <1>2, Zenon DEF CreateCheck, GetCluster, Begin, cloud
<1>3. ASSUME ListCluster \/ \E q \in Pools \cup Longer : PoolCreated(q) PROVE UNCHANGED made
  BY <1>3 DEF ListCluster, PoolCreated, rest, cloud
<1> QED
  BY <1>1, <1>2, <1>3 DEF Next

\* A stack grows by resources whose references it has, or loses everything.
LEMMA RosMakes ==
  ASSUME IInv, NEW s \in Stacks, RosCreate(s) \/ RosFail(s) \/ RosDelete(s)
  PROVE  \/ UNCHANGED made
         \/ \E m : /\ made' = [made EXCEPT ![s] = m]
                   /\ m = {} \/ (made[s] \subseteq m /\ m \subseteq made[s] \cup Finishable(s))
<1>1. CASE RosCreate(s)
  BY <1>1, Zenon DEF RosCreate
<1>2. CASE RosFail(s)
  BY <1>2, Zenon DEF RosFail
<1>3. CASE RosDelete(s)
  BY <1>3 DEF RosDelete
<1> QED
  BY <1>1, <1>2, <1>3

LEMMA ClosedStep == IInv /\ MadeClosed /\ [Next]_vars => MadeClosed'
<1> SUFFICES ASSUME IInv, MadeClosed, [Next]_vars PROVE MadeClosed'
  OBVIOUS
<1>1. CASE UNCHANGED made
  BY <1>1 DEF MadeClosed
<1>2. CASE \E s \in Stacks : RosCreate(s) \/ RosFail(s) \/ RosDelete(s)
  <2>1. PICK s \in Stacks : RosCreate(s) \/ RosFail(s) \/ RosDelete(s)
    BY <1>2
  <2>2. PICK m : /\ made' = [made EXCEPT ![s] = m]
                 /\ m = {} \/ (made[s] \subseteq m /\ m \subseteq made[s] \cup Finishable(s)) \/ m = made[s]
    <3>1. CASE UNCHANGED made
      BY <3>1 DEF IInv, CloudOK
    <3> QED
      BY <2>1, <3>1, RosMakes
  <2>3. \A q \in m : Needs[q] \subseteq m
    BY <2>2 DEF MadeClosed, Finishable
  <2> QED
    BY <2>2, <2>3 DEF MadeClosed, IInv, CloudOK
<1> QED
  BY <1>1, <1>2, MadeByRos DEF vars

\* Create has ROS make the public load balancer.
LEMMA PublicSlbMade == Holds("create_public_slb")
<1>1. <<"PublicSLB", "true">> \in CreateParameters
  BY DEF CreateParameters, Defaults
<1>2. <<"create_public_slb", "PublicSLB", "true">> \in SwitchConditions
  BY DEF SwitchConditions
<1> QED
  BY <1>1, <1>2 DEF Holds, Compares

\* What a resource without a condition refers to.
LEMMA NeededBy ==
  ASSUME NEW name, NEW refs, <<name, refs>> \in Resources,
         NEW q \in refs, NEW other, <<q, other>> \in Resources
  PROVE  name \in Wanted /\ q \in Needs[name]
<1>1. name \in Wanted /\ q \in Wanted
  BY DEF Wanted, Names
<1>2. q \in Refs(Resources, name)
  BY DEF Refs
<1> QED
  BY <1>1, <1>2 DEF Needs, DependsOn, Wanted

LEMMA MastersNeed ==
  /\ {"k8s_master_listener_boot", "k8s_master_slb_listener", "k8s_sg", "k8s_master_sconfig"}
       \subseteq Needs["k8s_master_sg_enable"]
  /\ {"k8s_master_slb", "k8s_master_slb_internet", "k8s_master_waiter_handle"}
       \subseteq Needs["k8s_master_sconfig"]
<1> DEFINE R == Resources
<1>1. PICK enable : /\ <<"k8s_master_sg_enable", enable>> \in R
                    /\ {"k8s_master_listener_boot", "k8s_master_slb_listener", "k8s_sg", "k8s_master_sconfig"}
                         \subseteq enable
  BY Zenon DEF Resources, MasterStartResources, Res, MasterPrerequisites
<1>2. PICK config : /\ <<"k8s_master_sconfig", config>> \in R
                    /\ {"k8s_master_slb", "k8s_master_slb_internet", "k8s_master_waiter_handle"} \subseteq config
  <2>1. UserDataRefs = {"k8s_master_slb", "k8s_master_slb_internet", "k8s_master_waiter_handle"}
    BY PublicSlbMade DEF UserDataRefs, PublicSlb, If
  <2>2. \E c : MasterConfigResource = {<<"k8s_master_sconfig", c>>} /\ UserDataRefs \subseteq c
    BY Zenon DEF MasterConfigResource, Res
  <2> QED
    BY <2>1, <2>2 DEF Resources
<1>3. /\ \E x : <<"k8s_master_listener_boot", x>> \in R
      /\ \E x : <<"k8s_master_slb_listener", x>> \in R
      /\ \E x : <<"k8s_master_slb", x>> \in R
      /\ \E x : <<"k8s_master_slb_internet", x>> \in R
  <2>1. /\ \E x : <<"k8s_master_listener_boot", x>> \in SlbResources
        /\ \E x : <<"k8s_master_slb_listener", x>> \in SlbResources
        /\ \E x : <<"k8s_master_slb", x>> \in SlbResources
        /\ \E x : <<"k8s_master_slb_internet", x>> \in SlbResources
    BY PublicSlbMade, Zenon DEF SlbResources, Res
  <2> QED
    BY <2>1, Zenon DEF Resources
<1>4. /\ \E x : <<"k8s_sg", x>> \in R
      /\ \E x : <<"k8s_master_waiter_handle", x>> \in R
  BY Zenon DEF Resources, VpcResources, MasterStartResources, Res
<1> HIDE DEF R
<1>5. {"k8s_master_listener_boot", "k8s_master_slb_listener", "k8s_sg", "k8s_master_sconfig"}
        \subseteq Needs["k8s_master_sg_enable"]
  BY <1>1, <1>2, <1>3, <1>4, NeededBy, Zenon DEF R
<1>6. {"k8s_master_slb", "k8s_master_slb_internet", "k8s_master_waiter_handle"} \subseteq Needs["k8s_master_sconfig"]
  BY <1>2, <1>3, <1>4, NeededBy, Zenon DEF R
<1> QED
  BY <1>5, <1>6

\* Whatever fails or is deleted on the way, and in whatever order ROS makes the
\* resources of the template, no stack has its masters started without the load
\* balancers, listeners, security group and waiter handle of their user data.
THEOREM MastersAlwaysFindTheirWay == Spec => []MastersFindTheirWay
<1>1. Init => MadeClosed
  BY DEF Init, MadeClosed
<1>2. Spec => []MadeClosed
  BY <1>1, Inductive, ClosedStep, PTL DEF Spec
<1>3. MadeClosed => MastersFindTheirWay
  BY MastersNeed DEF MadeClosed, MastersFindTheirWay
<1> QED
  BY <1>2, <1>3, PTL
=============================================================================
