------------------------------ MODULE Recovery ------------------------------
(***************************************************************************)
(* What brings a lost control plane back: the monitor of operator/monit    *)
(* with its etcd check, the Recover of provider/alibaba/ros.go that it and *)
(* the command line run, FixWDRIP of heal/healet.go, and the chaos monkey  *)
(* that destroys.  A tick is one round of the monitor (10 seconds); longer *)
(* intervals are counters that go down by one a tick.                      *)
(***************************************************************************)
EXTENDS Integers, FiniteSets

CONSTANTS
  Hosts,      \* instances of the master group, past and future
  Want,       \* masters that the operator keeps
  Threshold,  \* failing checks that are forgiven
  Gap,        \* ticks between two recoveries ("5 minutes")
  Boot,       \* ticks that a wiped master takes to boot
  Post,       \* the last of them, from its running etcd to its Master object
  Polls,      \* polls of WaitDesiredCnt before its timeout
  Hour,       \* ticks between two jumps of the monkey
  Operations, \* what the monkey can do
  MaxMishaps  \* faults, lost requests, kills

ASSUME RecoveryAssumption ==
  /\ IsFiniteSet(Hosts) /\ Want \in 1..Cardinality(Hosts)
  /\ Threshold \in Nat /\ Gap \in Nat \ {0} /\ Boot \in Nat /\ Polls \in Nat \ {0}
  /\ Post \in Nat \ {0} /\ Post < Boot
  /\ Hour \in Nat /\ Operations \in Nat /\ Operations > 2 /\ MaxMishaps \in Nat

VARIABLES
  group,    \* instances of the master scaling group
  members,  \* members of etcd
  up,       \* hosts whose etcd runs
  boot,     \* wiped host -> ticks until its init has ended
  nodes,    \* hosts with a Node object
  known,    \* hosts with a Master object
  snap,     \* the snapshot in the store, if there is one
  rule,     \* capacity that the scaling rule sets
  activity, \* capacity that ESS is scaling to; -1: no activity
  job,      \* recovery of the monitor and of the command line
  alive,    \* the process of the monitor runs
  due,      \* it has a round to do
  threshed, gap,     \* counter of failing checks; ticks since lastRun
  streak,   \* history: checks that failed since one was good
  chaos,    \* ticks until an hour has passed since the saved jump
  monkey,   \* operations that the monkey has left; -1: the backup comes first
  mishaps

cluster == <<group, members, up, boot, nodes, known, snap>>
ess == <<rule, activity>>
monitor == <<alive, due, threshed, gap, streak>>
vars == <<cluster, ess, job, monitor, chaos, monkey, mishaps>>

Jobs == {"monitor", "cli"}
NoJob == [pc |-> "idle", found |-> {}, count |-> 0, polls |-> 0]

\* etcd has a quorum: the API server works.
Healthy == 2 * Cardinality(members \cap up) > Cardinality(members)
\* The wdrip deployment runs on a master that is a node.
Operator == Healthy /\ nodes \cap up # {}

\* The Master and Node objects, which a snapshot has and a restore brings back.
Objects == [known |-> known, nodes |-> nodes]

Init ==
  /\ group \in SUBSET Hosts /\ Cardinality(group) = Want
  /\ members = group /\ up = group /\ nodes = group /\ known = group
  /\ boot = [h \in Hosts |-> 0] /\ snap \in {{}, {Objects}}
  /\ rule = Want /\ activity = -1
  /\ job = [j \in Jobs |-> NoJob]
  /\ alive = TRUE /\ due = FALSE /\ threshed = 0 /\ gap = Gap /\ streak = 0
  /\ chaos = 0 /\ monkey = 0 /\ mishaps = 0

Fine == UNCHANGED mishaps
Mishap == mishaps < MaxMishaps /\ mishaps' = mishaps + 1
Less(n) == IF n > 0 THEN n - 1 ELSE 0
Goto(j, step) == job' = [job EXCEPT ![j].pc = step]

-----------------------------------------------------------------------------
(* Recover of ros.go; its first requests read the index and the stack.     *)

\* lastRun is set when the action has ended, however it ended.
EndJob(j) ==
  /\ job' = [job EXCEPT ![j] = NoJob]
  /\ gap' = IF j = "monitor" THEN Gap ELSE gap

\* The rule is shared by all who scale the masters.
ModifyRule(j) ==
  /\ job[j].pc = "scale"
  /\ \/ rule' = 1 /\ Goto(j, "execute") /\ Fine /\ UNCHANGED gap
     \/ (rule' = 1 \/ UNCHANGED rule) /\ EndJob(j) /\ Mishap
  /\ UNCHANGED <<cluster, activity, alive, due, threshed, streak, chaos, monkey>>

\* ScaleMasterGroup waits for the activity that runs and executes the rule;
\* a timeout ends it, and so does an activity that begins in between.
\* NoChange is no error.
ExecuteRule(j) ==
  /\ job[j].pc = "execute"
  /\ \/ activity # -1 /\ EndJob(j) /\ Fine /\ UNCHANGED activity
     \/ /\ activity = -1 /\ Goto(j, "finish") /\ Fine /\ UNCHANGED gap
        /\ activity' = IF Cardinality(group) = rule THEN -1 ELSE rule
     \/ EndJob(j) /\ Mishap /\ UNCHANGED activity
  /\ UNCHANGED <<cluster, rule, alive, due, threshed, streak, chaos, monkey>>

\* WaitActivity after the rule; its timeout ends the recovery.
WaitActivity(j) ==
  /\ job[j].pc = "finish" /\ Fine
  /\ \/ activity = -1 /\ Goto(j, "desired") /\ UNCHANGED gap
     \/ activity # -1 /\ EndJob(j)
  /\ UNCHANGED <<cluster, ess, alive, due, threshed, streak, chaos, monkey>>

\* The list grows over the polls: once it is longer than desired it stays so.
WaitDesiredCnt(j) ==
  /\ job[j].pc = "desired"
  /\ LET n == job[j].count + Cardinality(group)
     IN  \/ /\ n = 1 /\ Fine /\ UNCHANGED gap
            /\ job' = [job EXCEPT ![j].pc = "replace", ![j].found = group]
         \/ /\ n # 1 /\ job[j].polls + 1 < Polls /\ Fine /\ UNCHANGED gap
            /\ job' = [job EXCEPT ![j].count = n, ![j].polls = @ + 1]
         \/ n # 1 /\ job[j].polls + 1 = Polls /\ EndJob(j) /\ Fine
         \/ EndJob(j) /\ Mishap
  /\ UNCHANGED <<cluster, ess, alive, due, threshed, streak, chaos, monkey>>

\* ReplaceSystemDisk stops the host, wipes it and starts it on the recovery
\* user data; a failure half way leaves it off.
\* The 120 seconds that Recover sleeps are counted in Gap.
Replace(j) ==
  /\ job[j].pc = "replace"
  /\ \E h \in job[j].found :
       \/ h \notin group /\ UNCHANGED <<up, boot>> /\ Fine
       \/ /\ h \in group /\ up' = up \ {h} /\ Fine
          /\ boot' = [boot EXCEPT ![h] = Boot]
       \/ /\ h \in group /\ up' = up \ {h} /\ Mishap
          /\ boot' = [boot EXCEPT ![h] = 0]
  /\ EndJob(j)
  /\ UNCHANGED <<group, members, nodes, known, snap, ess, alive, due, threshed, streak, chaos, monkey>>

Recover(j) ==
  ModifyRule(j) \/ WaitActivity(j) \/ ExecuteRule(j) \/ WaitDesiredCnt(j) \/ Replace(j)

\* Somebody runs wdrip recover.
ManualRecover ==
  /\ job["cli"].pc = "idle" /\ Mishap
  /\ Goto("cli", "scale")
  /\ UNCHANGED <<cluster, ess, monitor, chaos, monkey>>

-----------------------------------------------------------------------------
(* The monitor: StartMonit.                                                *)

\* The command or the monitor ends, and a recovery that it runs with it.
Kill(j) ==
  /\ Mishap
  /\ job' = [job EXCEPT ![j] = NoJob]
  /\ IF j = "monitor"
       THEN alive /\ alive' = FALSE /\ due' = FALSE /\ UNCHANGED <<threshed, gap, streak>>
       ELSE job[j].pc # "idle" /\ UNCHANGED monitor
  /\ UNCHANGED <<cluster, ess, chaos, monkey>>

\* A new monitor ends with an error until it has read the cluster from the
\* API server; then it begins to count, and waits as after a recovery.
StartMonitor ==
  /\ ~alive /\ Healthy
  /\ alive' = TRUE /\ threshed' = 0 /\ gap' = Gap /\ streak' = 0
  /\ UNCHANGED <<cluster, ess, job, due, chaos, monkey, mishaps>>

ThreshMeet == threshed > Threshold

\* All thresholds are met and the last run is long enough ago.
RunActions ==
  /\ due /\ job["monitor"].pc = "idle"
  /\ ThreshMeet /\ gap = 0
  /\ Goto("monitor", "scale")
  /\ UNCHANGED <<cluster, ess, monitor, chaos, monkey, mishaps>>

\* CheckEtcd asks the masters that it knows for the members, then them.
EtcdAnswers == Healthy /\ known \cap members \cap up # {}

\* Mutant of CheckRound: a check that could not be made counts as failed.
CountEveryRound ==
  /\ due /\ job["monitor"].pc = "idle" /\ ~(ThreshMeet /\ gap = 0)
  /\ due' = FALSE
  /\ \/ /\ EtcdAnswers /\ threshed' = 0 /\ streak' = 0 /\ Fine
     \/ /\ threshed' = IF ThreshMeet THEN threshed ELSE threshed + 1
        /\ \/ UNCHANGED streak /\ Mishap
           \/ /\ ~EtcdAnswers /\ Fine
              /\ streak' = IF streak > Threshold THEN streak ELSE streak + 1
  /\ UNCHANGED <<cluster, ess, job, alive, gap, chaos, monkey>>

\* Mutant of CheckRound: etcd that gives no answer makes the check an error.
SilenceIsNoFailure ==
  /\ due /\ job["monitor"].pc = "idle" /\ ~(ThreshMeet /\ gap = 0)
  /\ due' = FALSE /\ Fine
  /\ IF EtcdAnswers THEN threshed' = 0 /\ streak' = 0 ELSE UNCHANGED <<threshed, streak>>
  /\ UNCHANGED <<cluster, ess, job, alive, gap, chaos, monkey>>

\* A throttled check and one that ends in an error leave the counter alone.
\* The counter is capped: more than Threshold is all that matters.
CheckRound ==
  /\ due /\ job["monitor"].pc = "idle" /\ ~(ThreshMeet /\ gap = 0)
  /\ due' = FALSE
  /\ \/ /\ EtcdAnswers /\ threshed' = 0 /\ streak' = 0 /\ Fine
     \/ /\ ~EtcdAnswers /\ Fine
        /\ threshed' = IF ThreshMeet THEN threshed ELSE threshed + 1
        /\ streak' = IF streak > Threshold THEN streak ELSE streak + 1
     \/ UNCHANGED <<threshed, streak>> /\ Mishap
  /\ UNCHANGED <<cluster, ess, job, alive, gap, chaos, monkey>>

\* Master objects without instance go, those of other nodes are made.
FixUpMeta == known' = (known \cup nodes) \cap group

\* FixWDRIP, in the monitor: no replica of the operator is ready; the kubelet
\* of a master without Node object is restarted, and the host registers again.
FixWDRIP ==
  /\ alive /\ Healthy /\ ~Operator
  /\ FixUpMeta
  /\ \E h \in (group \cap up) \ nodes : nodes' = nodes \cup {h}
  /\ UNCHANGED <<group, members, up, boot, snap, ess, job, monitor, chaos, monkey, mishaps>>

-----------------------------------------------------------------------------
(* The chaos monkey.                                                       *)

\* The time is saved first; without it there is no jump.
SaveLastChaosTime ==
  /\ monkey = 0 /\ chaos = 0 /\ Healthy
  /\ chaos' = Hour /\ monkey' = -1
  /\ UNCHANGED <<cluster, ess, job, monitor, mishaps>>

\* A backup that fails panics the monkey.
TriggerBackup ==
  /\ monkey = -1
  /\ IF Healthy
       THEN snap' = {Objects} /\ monkey' \in 2..(Operations - 1)
       ELSE monkey' = 0 /\ UNCHANGED snap
  /\ UNCHANGED <<group, members, up, boot, nodes, known, ess, job, monitor, chaos, mishaps>>

\* DeleteECS, StopECS, or a stopped docker or etcd on some masters; an init
\* that runs is broken off.
Hit(hs) ==
  /\ up' = up \ hs
  /\ group' \in {group, group \ hs}
  /\ boot' = [h \in Hosts |-> IF h \in hs THEN 0 ELSE boot[h]]

\* doOperate takes half of the instances or less, and one more; a request
\* that fails is logged, and stopping the kubelet leaves etcd up.
Jump ==
  /\ monkey > 0 /\ group # {}
  /\ \E hs \in SUBSET group :
       /\ Cardinality(hs) \in 0..((Cardinality(group) - 1) \div 2 + 1)
       /\ Hit(hs)
  /\ monkey' = monkey - 1
  /\ UNCHANGED <<members, nodes, known, snap, ess, job, monitor, chaos, mishaps>>

\* The monkey is restarted, or finds no instance and panics.
MonkeyEnds ==
  /\ monkey # 0 /\ (IF group = {} THEN Fine ELSE Mishap)
  /\ monkey' = 0
  /\ UNCHANGED <<cluster, ess, job, monitor, chaos>>

-----------------------------------------------------------------------------
(* The rest of the system, as the other modules have it.                   *)

\* The passes of the heal loop, a minute or more apart: the hosts of the group
\* join, with their Node and Master objects, and those of other hosts go.
Heal ==
  /\ Operator /\ activity = -1 /\ \A h \in group : boot[h] = 0 \/ h \in up
  /\ <<members, up, nodes, known>> # <<group, group, group, group>>
  /\ members' = group /\ up' = group /\ nodes' = group /\ known' = group
  /\ UNCHANGED <<group, boot, snap, ess, job, monitor, chaos, monkey, mishaps>>

OperatorRule ==
  /\ Operator /\ Cardinality(group) # Want /\ rule # Want
  /\ rule' = Want
  /\ UNCHANGED <<cluster, activity, job, monitor, chaos, monkey, mishaps>>

OperatorExecute ==
  /\ Operator /\ Cardinality(group) # Want /\ activity = -1
  /\ rule # Cardinality(group)
  /\ activity' = rule
  /\ UNCHANGED <<cluster, rule, job, monitor, chaos, monkey, mishaps>>

Backup ==
  /\ Operator /\ snap' = {Objects}
  /\ UNCHANGED <<group, members, up, boot, nodes, known, ess, job, monitor, chaos, monkey, mishaps>>

\* ESS ends an activity: it adds blank hosts or releases some.
EssFinish ==
  /\ activity # -1 /\ activity' = -1
  /\ \/ /\ Fine
        /\ \E g \in SUBSET Hosts :
             /\ Cardinality(g) = activity /\ (g \subseteq group \/ group \subseteq g)
             /\ group' = g /\ up' = up \cap g
             /\ boot' = [h \in Hosts |-> IF h \in g \cap group THEN boot[h] ELSE 0]
             /\ nodes' = nodes \cap (g \cap group)
     \/ Mishap /\ UNCHANGED <<group, up, boot, nodes>>
  /\ UNCHANGED <<members, known, snap, rule, job, monitor, chaos, monkey>>

Fault ==
  /\ Mishap
  /\ \/ (\E h \in group : Hit({h})) /\ UNCHANGED nodes
     \/ \E hs \in SUBSET nodes : nodes' = nodes \ hs /\ UNCHANGED <<group, up, boot>>
  /\ UNCHANGED <<members, known, snap, ess, job, monitor, chaos, monkey>>

\* A wiped host restores the snapshot, alone, and later its init ends with the
\* post, which writes its Master object.
Restoring == {h \in Hosts : boot[h] = Post + 1 /\ snap # {}}
Posting == {h \in up : boot[h] = 1}

Tick ==
  /\ ~due \/ job["monitor"].pc # "idle"
  /\ due' = alive /\ gap' = Less(gap) /\ chaos' = Less(chaos)
  /\ boot' = [h \in Hosts |-> Less(boot[h])]
  /\ \/ \E h \in Restoring, s \in snap :
          /\ members' = {h} /\ up' = up \cup {h}
          /\ nodes' = s.nodes \cup {h} /\ known' = s.known \cup Posting
     \/ Restoring = {} /\ known' = known \cup Posting /\ UNCHANGED <<members, up, nodes>>
  /\ UNCHANGED <<group, snap, ess, job, alive, threshed, streak, monkey, mishaps>>

System ==
  \/ Tick \/ StartMonitor \/ RunActions \/ CheckRound \/ FixWDRIP
  \/ Heal \/ OperatorRule \/ OperatorExecute \/ EssFinish

Next ==
  \/ System \/ Backup \/ Fault \/ ManualRecover
  \/ \E j \in Jobs : Recover(j) \/ Kill(j)
  \/ SaveLastChaosTime \/ TriggerBackup \/ Jump \/ MonkeyEnds

\* The loops of the monitor and of the operator run for ever, the kubelet of a
\* worker starts the monitor again, ESS ends its activities, and a recovery
\* that runs goes on.
Spec ==
  /\ Init /\ [][Next]_vars
  /\ WF_vars(Tick) /\ WF_vars(StartMonitor) /\ WF_vars(RunActions) /\ WF_vars(CheckRound) /\ WF_vars(FixWDRIP)
  /\ WF_vars(Heal) /\ WF_vars(OperatorRule) /\ WF_vars(OperatorExecute) /\ WF_vars(EssFinish)
  /\ \A j \in Jobs : WF_vars(Recover(j))

JobRecord == [pc : {"idle", "scale", "execute", "finish", "desired", "replace"},
              found : SUBSET Hosts, count : Nat, polls : 0..Polls]

Snapshots == [known : SUBSET Hosts, nodes : SUBSET Hosts]

\* Types: etcd runs on instances of the group only, and no wiped host that is
\* to boot is outside of it.
TypeOK ==
  /\ group \subseteq Hosts /\ members \subseteq Hosts /\ up \subseteq group
  /\ nodes \subseteq Hosts /\ known \subseteq Hosts /\ snap \subseteq Snapshots
  /\ boot \in [Hosts -> 0..Boot] /\ \A h \in Hosts : boot[h] > 0 => h \in group
  /\ rule \in {1, Want} /\ activity \in {-1, 1, Want}
  /\ job \in [Jobs -> JobRecord] /\ alive \in BOOLEAN
  /\ due \in BOOLEAN /\ threshed \in 0..(Threshold + 1) /\ gap \in 0..Gap
  /\ streak \in 0..(Threshold + 1) /\ chaos \in 0..Hour
  /\ monkey \in -1..(Operations - 1) /\ mishaps \in 0..MaxMishaps

\* The monitor starts a recovery only when etcd failed more than Threshold
\* checks in a row, whatever was throttled or ended in an error in between.
RecoveryNeedsStreak ==
  [][job["monitor"].pc = "idle" /\ job'["monitor"].pc # "idle" => streak > Threshold]_vars

\* Once a snapshot exists, a control plane that lost its quorum or all of its
\* nodes comes back, and with it the operator.  Only a monitor that ended while
\* the API server was down cannot help: it does not start again by itself.
ControlPlaneReturns == snap # {} ~> (Operator \/ (~Healthy /\ ~alive))
=============================================================================
