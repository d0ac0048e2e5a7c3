--------------------------- MODULE RecoveryProofs ---------------------------
(***************************************************************************)
(* Proofs about Recovery, for every set of hosts, every timing and any     *)
(* number of mishaps.                                                      *)
(***************************************************************************)
EXTENDS Recovery, FiniteSetTheorems, TLAPS

ClusterOK ==
  /\ group \subseteq Hosts /\ members \subseteq Hosts /\ up \subseteq group
  /\ nodes \subseteq Hosts /\ known \subseteq Hosts /\ snap \subseteq Snapshots
  /\ boot \in [Hosts -> 0..Boot] /\ \A h \in Hosts : boot[h] > 0 => h \in group

EssOK == rule \in {1, Want} /\ activity \in {-1, 1, Want}

JobsOK == job \in [Jobs -> JobRecord]

\* The counter of the monitor is the number of checks that failed in a row.
MonitorOK ==
  /\ alive \in BOOLEAN /\ due \in BOOLEAN /\ gap \in 0..Gap
  /\ threshed \in 0..(Threshold + 1) /\ streak = threshed

BoundsOK == chaos \in 0..Hour /\ monkey \in -1..(Operations - 1) /\ mishaps \in 0..MaxMishaps

IInv == ClusterOK /\ EssOK /\ JobsOK /\ MonitorOK /\ BoundsOK

-----------------------------------------------------------------------------
LEMMA Assumed ==
  /\ Threshold \in Nat /\ Gap \in Nat \ {0} /\ Boot \in Nat /\ Polls \in Nat \ {0}
  /\ Post \in Nat \ {0} /\ Post < Boot
  /\ Hour \in Nat /\ Operations \in Nat /\ Operations > 2 /\ MaxMishaps \in Nat
  BY RecoveryAssumption

LEMMA Counted ==
  ASSUME NEW S \in SUBSET Hosts
  PROVE  Cardinality(S) \in Nat
  BY RecoveryAssumption, FS_Subset, FS_CardinalityType

LEMMA ObjectsOK ==
  ASSUME ClusterOK
  PROVE  Objects \in Snapshots
  BY DEF ClusterOK, Objects, Snapshots

LEMMA NoJobOK == NoJob \in JobRecord
  BY Assumed DEF NoJob, JobRecord

LEMMA MishapOK ==
  ASSUME BoundsOK, Fine \/ Mishap
  PROVE  mishaps' \in 0..MaxMishaps
  BY Assumed DEF BoundsOK, Fine, Mishap

\* A recovery moves on or ends.
LEMMA GotoOK ==
  ASSUME JobsOK, NEW j \in Jobs, NEW step, Goto(j, step),
         step \in {"idle", "scale", "execute", "finish", "desired", "replace"}
  PROVE  JobsOK'
<1> DEFINE r == [job[j] EXCEPT !.pc = step]
<1>1. r \in JobRecord
  BY DEF JobsOK, JobRecord
<1>2. job' = [job EXCEPT ![j] = r]
  BY DEF JobsOK, Goto
<1> QED
  BY <1>1, <1>2 DEF JobsOK

LEMMA EndJobOK ==
  ASSUME JobsOK, gap \in 0..Gap, NEW j \in Jobs, EndJob(j)
  PROVE  JobsOK' /\ gap' \in 0..Gap
  BY NoJobOK, Assumed DEF JobsOK, EndJob

LEMMA HitOK ==
  ASSUME ClusterOK, NEW hs \in SUBSET group, Hit(hs)
  PROVE  /\ group' \subseteq Hosts /\ up' \subseteq group' /\ boot' \in [Hosts -> 0..Boot]
         /\ \A h \in Hosts : boot'[h] > 0 => h \in group'
  BY Assumed DEF ClusterOK, Hit

-----------------------------------------------------------------------------
(* The steps of a recovery.                                                *)

LEMMA InitOK == Init => IInv
<1> SUFFICES ASSUME Init PROVE IInv
  OBVIOUS
<1>1. ClusterOK /\ EssOK
  <2>1. Objects \in Snapshots
    BY DEF Init, Objects, Snapshots
  <2> QED
    BY <2>1, Assumed DEF Init, ClusterOK, EssOK
<1>2. JobsOK
  BY NoJobOK DEF Init, JobsOK
<1>3. MonitorOK
  <2>1. due \in BOOLEAN /\ alive \in BOOLEAN
    BY Zenon DEF Init
  <2>2. gap \in 0..Gap /\ threshed \in 0..(Threshold + 1) /\ streak = threshed
    BY Assumed DEF Init
  <2> QED
    BY <2>1, <2>2 DEF MonitorOK
<1>4. BoundsOK
  BY Assumed DEF Init, BoundsOK
<1> QED
  BY <1>1, <1>2, <1>3, <1>4 DEF IInv

LEMMA RecoverOK ==
  ASSUME IInv, NEW j \in Jobs, Recover(j)
  PROVE  IInv'
<1>1. CASE ModifyRule(j)
  <2>1. ClusterOK' /\ EssOK'
    BY <1>1 DEF ModifyRule, IInv, ClusterOK, EssOK, cluster
  <2>2. JobsOK' /\ gap' \in 0..Gap
    BY <1>1, GotoOK, EndJobOK DEF ModifyRule, IInv, MonitorOK
  <2>3. MonitorOK' /\ BoundsOK'
    BY <1>1, <2>2, MishapOK DEF ModifyRule, IInv, MonitorOK, BoundsOK
  <2> QED
    BY <2>1, <2>2, <2>3 DEF IInv
<1>2. CASE ExecuteRule(j)
  <2>1. ClusterOK' /\ EssOK'
    BY <1>2 DEF ExecuteRule, IInv, ClusterOK, EssOK, cluster
  <2>2. JobsOK' /\ gap' \in 0..Gap
    BY <1>2, GotoOK, EndJobOK DEF ExecuteRule, IInv, MonitorOK
  <2>3. MonitorOK' /\ BoundsOK'
    BY <1>2, <2>2, MishapOK DEF ExecuteRule, IInv, MonitorOK, BoundsOK
  <2> QED
    BY <2>1, <2>2, <2>3 DEF IInv
<1>3. CASE WaitActivity(j)
  <2>1. ClusterOK' /\ EssOK'
    BY <1>3 DEF WaitActivity, IInv, ClusterOK, EssOK, cluster, ess
  <2>2. JobsOK' /\ gap' \in 0..Gap
    BY <1>3, GotoOK, EndJobOK DEF WaitActivity, IInv, MonitorOK
  <2>3. MonitorOK' /\ BoundsOK'
    BY <1>3, <2>2, MishapOK DEF WaitActivity, IInv, MonitorOK, BoundsOK
  <2> QED
    BY <2>1, <2>2, <2>3 DEF IInv
<1>4. CASE WaitDesiredCnt(j)
  <2>1. ClusterOK' /\ EssOK'
    BY <1>4 DEF WaitDesiredCnt, IInv, ClusterOK, EssOK, cluster, ess
  <2>2. JobsOK' /\ gap' \in 0..Gap
    <3> DEFINE n == job[j].count + Cardinality(group)
               found == [job[j] EXCEPT !.pc = "replace", !.found = group]
               more == [job[j] EXCEPT !.count = n, !.polls = job[j].polls + 1]
    <3>1. n \in Nat /\ group \in SUBSET Hosts /\ job[j] \in JobRecord
      BY Counted DEF IInv, ClusterOK, JobsOK, JobRecord
    <3>2. CASE UNCHANGED gap /\ job' = [job EXCEPT ![j].pc = "replace", ![j].found = group]
      <4>1. found \in JobRecord /\ job' = [job EXCEPT ![j] = found]
        BY <3>1, <3>2, Zenon DEF JobRecord, IInv, JobsOK
      <4> QED
        BY <3>2, <4>1 DEF IInv, JobsOK, MonitorOK
    <3>3. CASE /\ UNCHANGED gap /\ job[j].polls + 1 < Polls
               /\ job' = [job EXCEPT ![j].count = n, ![j].polls = @ + 1]
      <4>1. job[j].polls + 1 \in 0..Polls
        BY <3>1, <3>3, Assumed DEF JobRecord
      <4>2. more \in JobRecord /\ job' = [job EXCEPT ![j] = more]
        BY <3>1, <3>3, <4>1 DEF JobRecord, IInv, JobsOK
      <4> QED
        BY <3>3, <4>2 DEF IInv, JobsOK, MonitorOK
    <3>4. CASE EndJob(j)
      BY <3>4, EndJobOK DEF IInv, MonitorOK
    <3> QED
      BY <1>4, <3>2, <3>3, <3>4 DEF WaitDesiredCnt
  <2>3. MonitorOK' /\ BoundsOK'
    BY <1>4, <2>2, MishapOK DEF WaitDesiredCnt, IInv, MonitorOK, BoundsOK
  <2> QED
    BY <2>1, <2>2, <2>3 DEF IInv
<1>5. CASE Replace(j)
  <2>1. ClusterOK'
    BY <1>5, Assumed DEF Replace, IInv, ClusterOK
  <2>2. EssOK' /\ JobsOK' /\ gap' \in 0..Gap
    BY <1>5, EndJobOK DEF Replace, IInv, EssOK, MonitorOK, ess
  <2>3. MonitorOK' /\ BoundsOK'
    BY <1>5, <2>2, MishapOK DEF Replace, IInv, MonitorOK, BoundsOK
  <2> QED
    BY <2>1, <2>2, <2>3 DEF IInv
<1> QED
  BY <1>1, <1>2, <1>3, <1>4, <1>5 DEF Recover

-----------------------------------------------------------------------------
(* The monitor, the monkey and the rest of the system.                     *)

LEMMA MonitorStepOK ==
  ASSUME IInv, RunActions \/ CheckRound \/ StartMonitor \/ ManualRecover \/ \E j \in Jobs : Kill(j)
  PROVE  IInv'
<1>1. ClusterOK' /\ EssOK'
  BY DEF RunActions, CheckRound, StartMonitor, ManualRecover, Kill, IInv, ClusterOK, EssOK, cluster, ess
<1>2. BoundsOK'
  BY MishapOK DEF RunActions, CheckRound, StartMonitor, ManualRecover, Kill, IInv, BoundsOK, Fine
<1>3. CASE RunActions
  BY <1>1, <1>2, <1>3, GotoOK DEF RunActions, IInv, MonitorOK, monitor, Jobs
<1>4. CASE CheckRound
  <2>1. JobsOK'
    BY <1>4 DEF CheckRound, IInv, JobsOK
  <2>2. MonitorOK'
    <3>1. due' \in BOOLEAN /\ alive' \in BOOLEAN
      BY <1>4, Zenon DEF CheckRound, IInv, MonitorOK
    <3>2. gap' \in 0..Gap /\ threshed' \in 0..(Threshold + 1) /\ streak' = threshed'
      BY <1>4, Assumed DEF CheckRound, ThreshMeet, IInv, MonitorOK
    <3> QED
      BY <3>1, <3>2 DEF MonitorOK
  <2> QED
    BY <1>1, <1>2, <2>1, <2>2 DEF IInv
<1>5. CASE ManualRecover
  BY <1>1, <1>2, <1>5, GotoOK DEF ManualRecover, IInv, MonitorOK, monitor, Jobs
<1>6. CASE \E j \in Jobs : Kill(j)
  <2>1. PICK j \in Jobs : Kill(j)
    BY <1>6
  <2>2. JobsOK'
    BY <2>1, NoJobOK DEF Kill, IInv, JobsOK
  <2>3. MonitorOK'
    <3>1. CASE UNCHANGED monitor
      BY <3>1 DEF IInv, MonitorOK, monitor
    <3>2. CASE alive' = FALSE /\ due' = FALSE /\ UNCHANGED <<threshed, gap, streak>>
      <4>1. due' \in BOOLEAN /\ alive' \in BOOLEAN
        BY <3>2, Zenon
      <4> QED
        BY <3>2, <4>1 DEF IInv, MonitorOK
    <3> QED
      BY <2>1, <3>1, <3>2, Zenon DEF Kill
  <2> QED
    BY <1>1, <1>2, <2>2, <2>3 DEF IInv
<1>7. CASE StartMonitor
  <2>1. JobsOK'
    BY <1>7 DEF StartMonitor, IInv, JobsOK
  <2>2. due' \in BOOLEAN /\ alive' \in BOOLEAN
    BY <1>7, Zenon DEF StartMonitor, IInv, MonitorOK
  <2>3. gap' \in 0..Gap /\ threshed' \in 0..(Threshold + 1) /\ streak' = threshed'
    BY <1>7, Assumed DEF StartMonitor
  <2> QED
    BY <1>1, <1>2, <2>1, <2>2, <2>3 DEF IInv, MonitorOK
<1> QED
  BY <1>3, <1>4, <1>5, <1>6, <1>7

LEMMA MonkeyOK ==
  ASSUME IInv, SaveLastChaosTime \/ TriggerBackup \/ Jump \/ MonkeyEnds
  PROVE  IInv'
<1>1. EssOK' /\ JobsOK' /\ MonitorOK'
  BY DEF SaveLastChaosTime, TriggerBackup, Jump, MonkeyEnds, IInv, EssOK, JobsOK, MonitorOK, ess, monitor
<1>2. CASE SaveLastChaosTime
  <2>1. ClusterOK'
    BY <1>2 DEF SaveLastChaosTime, IInv, ClusterOK, cluster
  <2>2. BoundsOK'
    BY <1>2, Assumed DEF SaveLastChaosTime, IInv, BoundsOK
  <2> QED
    BY <1>1, <2>1, <2>2 DEF IInv
<1>3. CASE TriggerBackup
  <2>1. ClusterOK'
    BY <1>3, ObjectsOK DEF TriggerBackup, IInv, ClusterOK
  <2>2. BoundsOK'
    BY <1>3, Assumed DEF TriggerBackup, IInv, BoundsOK
  <2> QED
    BY <1>1, <2>1, <2>2 DEF IInv
<1>4. CASE Jump
  <2>1. ClusterOK'
    BY <1>4, HitOK DEF Jump, IInv, ClusterOK
  <2>2. BoundsOK'
    BY <1>4, Assumed DEF Jump, IInv, BoundsOK
  <2> QED
    BY <1>1, <2>1, <2>2 DEF IInv
<1>5. CASE MonkeyEnds
  <2>1. ClusterOK'
    BY <1>5 DEF MonkeyEnds, IInv, ClusterOK, cluster
  <2>2. BoundsOK'
    BY <1>5, Assumed, MishapOK DEF MonkeyEnds, IInv, BoundsOK
  <2> QED
    BY <1>1, <2>1, <2>2 DEF IInv
<1> QED
  BY <1>2, <1>3, <1>4, <1>5

LEMMA OperatorOK ==
  ASSUME IInv, FixWDRIP \/ Heal \/ OperatorRule \/ OperatorExecute \/ Backup
  PROVE  IInv'
<1>1. JobsOK' /\ MonitorOK' /\ BoundsOK'
  BY DEF FixWDRIP, Heal, OperatorRule, OperatorExecute, Backup, IInv, JobsOK, MonitorOK, BoundsOK, monitor
<1>2. EssOK'
  BY DEF FixWDRIP, Heal, OperatorRule, OperatorExecute, Backup, IInv, EssOK, ess
<1>3. ClusterOK'
  <2>1. CASE Heal
    BY <2>1 DEF Heal, IInv, ClusterOK
  <2>2. CASE FixWDRIP
    BY <2>2 DEF FixWDRIP, FixUpMeta, IInv, ClusterOK
  <2>3. CASE OperatorRule \/ OperatorExecute
    BY <2>3 DEF OperatorRule, OperatorExecute, IInv, ClusterOK, cluster
  <2>4. CASE Backup
    BY <2>4, ObjectsOK DEF Backup, IInv, ClusterOK
  <2> QED
    BY <2>1, <2>2, <2>3, <2>4
<1> QED
  BY <1>1, <1>2, <1>3 DEF IInv

LEMMA EssFinishOK ==
  ASSUME IInv, EssFinish
  PROVE  IInv'
<1>1. JobsOK' /\ MonitorOK' /\ EssOK'
  BY DEF EssFinish, IInv, JobsOK, MonitorOK, EssOK, monitor
<1>2. BoundsOK'
  BY MishapOK DEF EssFinish, IInv, BoundsOK
<1>3. ClusterOK'
  BY Assumed DEF EssFinish, IInv, ClusterOK
<1> QED
  BY <1>1, <1>2, <1>3 DEF IInv

LEMMA FaultOK ==
  ASSUME IInv, Fault
  PROVE  IInv'
<1>1. JobsOK' /\ MonitorOK' /\ EssOK'
  BY DEF Fault, IInv, JobsOK, MonitorOK, EssOK, monitor, ess
<1>2. BoundsOK'
  BY MishapOK DEF Fault, IInv, BoundsOK
<1>3. ClusterOK'
  <2>1. CASE (\E h \in group : Hit({h})) /\ UNCHANGED nodes
    <3>1. PICK h \in group : Hit({h})
      BY <2>1
    <3>2. {h} \in SUBSET group
      BY <3>1
    <3> QED
      BY <2>1, <3>1, <3>2, HitOK DEF Fault, IInv, ClusterOK
  <2>2. CASE \E hs \in SUBSET nodes : nodes' = nodes \ hs /\ UNCHANGED <<group, up, boot>>
    BY <2>2 DEF Fault, IInv, ClusterOK
  <2> QED
    BY <2>1, <2>2 DEF Fault
<1> QED
  BY <1>1, <1>2, <1>3 DEF IInv

LEMMA TickOK ==
  ASSUME IInv, Tick
  PROVE  IInv'
<1>1. JobsOK' /\ EssOK'
  BY DEF Tick, IInv, JobsOK, EssOK, ess
<1>2. MonitorOK' /\ BoundsOK'
  <2>1. due' \in BOOLEAN /\ alive' \in BOOLEAN
    BY Zenon DEF Tick, IInv, MonitorOK
  <2> QED
    BY <2>1, Assumed DEF Tick, Less, IInv, MonitorOK, BoundsOK
<1>3. boot' \in [Hosts -> 0..Boot] /\ \A h \in Hosts : boot'[h] > 0 => h \in group
  BY Assumed DEF Tick, Less, IInv, ClusterOK
<1>4. members' \subseteq Hosts /\ up' \subseteq group /\ nodes' \subseteq Hosts /\ known' \subseteq Hosts
  <2>1. Posting \subseteq Hosts
    BY DEF Posting, IInv, ClusterOK
  <2>2. CASE \E h \in Restoring, s \in snap :
                /\ members' = {h} /\ up' = up \cup {h}
                /\ nodes' = s.nodes \cup {h} /\ known' = s.known \cup Posting
    <3>1. PICK h \in Restoring, s \in snap :
                /\ members' = {h} /\ up' = up \cup {h}
                /\ nodes' = s.nodes \cup {h} /\ known' = s.known \cup Posting
      BY <2>2
    <3>2. h \in Hosts /\ h \in group
      BY Assumed DEF Restoring, IInv, ClusterOK
    <3>3. s.nodes \subseteq Hosts /\ s.known \subseteq Hosts
      BY DEF IInv, ClusterOK, Snapshots
    <3> QED
      BY <2>1, <3>1, <3>2, <3>3 DEF IInv, ClusterOK
  <2>3. CASE known' = known \cup Posting /\ UNCHANGED <<members, up, nodes>>
    BY <2>1, <2>3 DEF IInv, ClusterOK
  <2> QED
    BY <2>2, <2>3 DEF Tick
<1>5. ClusterOK'
  BY <1>3, <1>4 DEF Tick, IInv, ClusterOK
<1> QED
  BY <1>1, <1>2, <1>5 DEF IInv

LEMMA NextOK == IInv /\ [Next]_vars => IInv'
<1> SUFFICES ASSUME IInv, [Next]_vars PROVE IInv'
  OBVIOUS
<1>1. CASE UNCHANGED vars
  BY <1>1 DEF vars, cluster, ess, monitor, IInv, ClusterOK, EssOK, JobsOK, MonitorOK, BoundsOK
<1> QED
  BY <1>1, RecoverOK, MonitorStepOK, MonkeyOK, OperatorOK, EssFinishOK, FaultOK, TickOK
  DEF Next, System

LEMMA Inductive == Spec => []IInv
  BY InitOK, NextOK, PTL DEF Spec

-----------------------------------------------------------------------------
\* Monitor, recoveries, monkey and operator keep the state well typed: etcd
\* runs and wiped hosts boot inside the scaling group only.
THEOREM TypeCorrect == Spec => []TypeOK
<1>1. IInv => TypeOK
  BY DEF IInv, ClusterOK, EssOK, JobsOK, MonitorOK, BoundsOK, TypeOK
<1> QED
  BY <1>1, Inductive, PTL

\* StartMonit begins a recovery, which wipes a master, only when more checks
\* in a row have failed than the threshold forgives.
THEOREM RecoveryAfterStreak == Spec => RecoveryNeedsStreak
<1>1. ASSUME IInv, Next, job["monitor"].pc = "idle", job'["monitor"].pc # "idle"
      PROVE  streak > Threshold
  <2>1. \A j \in Jobs : job' = [job EXCEPT ![j] = NoJob] => job'["monitor"].pc = "idle"
    BY <1>1 DEF IInv, JobsOK, Jobs, NoJob
  <2>2. \A j \in Jobs : job[j].pc # "idle" => j = "cli"
    BY <1>1 DEF Jobs
  <2>3. job'["monitor"] # job["monitor"]
    BY <1>1
  <2>4. ~ \E j \in Jobs : Recover(j) \/ Kill(j)
    <3> SUFFICES ASSUME NEW j \in Jobs, Recover(j) \/ Kill(j) PROVE FALSE
      OBVIOUS
    <3>1. CASE Kill(j)
      BY <1>1, <2>1, <3>1, Zenon DEF Kill
    <3>2. CASE Recover(j)
      <4>1. job[j].pc # "idle"
        BY <3>2 DEF Recover, ModifyRule, ExecuteRule, WaitActivity, WaitDesiredCnt, Replace
      <4>2. j = "cli"
        BY <2>2, <4>1
      <4>3. \E r : job' = [job EXCEPT !["cli"] = r]
        <5>1. CASE WaitDesiredCnt(j)
          BY <4>2, <5>1, <1>1 DEF WaitDesiredCnt, EndJob, IInv, JobsOK, Jobs
        <5>2. CASE ~WaitDesiredCnt(j)
          <6>1. (\E step : Goto(j, step)) \/ job' = [job EXCEPT ![j] = NoJob]
            BY <3>2, <5>2 DEF Recover, ModifyRule, ExecuteRule, WaitActivity, Replace, EndJob
          <6> QED
            BY <4>2, <6>1, <1>1, ZenonT(20) DEF Goto, IInv, JobsOK, Jobs
        <5> QED
          BY <5>1, <5>2
      <4> QED
        BY <2>3, <4>3, <1>1 DEF IInv, JobsOK, Jobs
    <3> QED
      BY <3>1, <3>2
  <2>5. RunActions
    BY <1>1, <2>3, <2>4
    DEF Next, System, Tick, StartMonitor, CheckRound, FixWDRIP, Heal, OperatorRule, OperatorExecute, EssFinish,
        Backup, Fault, ManualRecover, SaveLastChaosTime, TriggerBackup, Jump, MonkeyEnds, Goto,
        IInv, JobsOK, Jobs
  <2> QED
    BY <1>1, <2>5 DEF RunActions, ThreshMeet, IInv, MonitorOK
<1>2. IInv /\ [Next]_vars =>
        [job["monitor"].pc = "idle" /\ job'["monitor"].pc # "idle" => streak > Threshold]_vars
  BY <1>1
<1> QED
  BY <1>2, Inductive, PTL DEF Spec, RecoveryNeedsStreak
=============================================================================
