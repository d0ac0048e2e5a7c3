---------------------------- MODULE SnapshotIndex ----------------------------
(***************************************************************************)
(* The etcd backups in the object store: the backup and clean-up loops of  *)
(* the operator (controllers/backup/backup_runner.go), serialised by one   *)
(* lock, the index object they keep (pkg/index/snapshot.go), and a         *)
(* recovering master that reads the index without that lock.               *)
(*                                                                         *)
(* Every request to etcd or to the store is a step; it may fail, before or *)
(* after it took effect, and the operator may be restarted in between.     *)
(* LazyLoad never marks the index as loaded, so each operation starts from *)
(* the stored object.                                                      *)
(***************************************************************************)
EXTENDS Integers, FiniteSets

CONSTANTS KeepCopies,     \* KEEP_COPIES_CNT
          MaxSame,        \* backups that restarts put into one minute, at most
          Skew,           \* how far the clock of the next operator's host may be behind
          MaxMinute, MaxRev, MaxFail, MaxCrash    \* bounds

ASSUME SnapshotAssumption ==
  /\ KeepCopies \in Nat \ {0} /\ MaxSame \in Nat \ {0} /\ Skew \in Nat
  /\ MaxMinute \in Nat /\ MaxRev \in Nat \ {0} /\ MaxFail \in Nat /\ MaxCrash \in Nat

VARIABLES
  rev,      \* the revision of the cluster's state in etcd
  now,      \* the operator's clock, in minutes as HourNow prints it
  files,    \* the revision each snapshot.db holds, 0 where there is none
  index,    \* the copies listed by index.json
  pc, tmp, mem, id, gone,     \* the operation that holds the lock
  reader, rid, behind,        \* LatestBackup on a recovering master
  alone,    \* history: no two backups have shared an identity yet
  fails, crashes

opVars     == <<pc, tmp, mem, id, gone>>
readerVars == <<reader, rid, behind>>
vars == <<rev, now, files, index, opVars, readerVars, alone, fails, crashes>>

Minutes == 0..MaxMinute
Steps == {"idle", "snap", "save", "load", "put", "index", "gc"}

\* A copy is a pair: the identity, and a number that tells apart the copies
\* with the same identity.
Copies == Minutes \X (1..MaxSame)

\* Mutant of Newer: ascending identities.
NewerReversed(d, c) == d[1] < c[1] \/ (d[1] = c[1] /\ d[2] < c[2])

\* SortBackups: descending identities.
Newer(d, c) == d[1] > c[1] \/ (d[1] = c[1] /\ d[2] < c[2])

Rank(c, copies) == Cardinality({d \in copies : Newer(d, c)})

\* Mutant of LatestBackup: the second one in that order, if there is one.
LatestBackupOffByOne(copies) ==
  LET m == CHOOSE c \in copies : Rank(c, copies) = IF Cardinality(copies) > 1 THEN 1 ELSE 0
  IN  m[1]

\* LatestBackup: the first one in that order.
LatestBackup(copies) ==
  CHOOSE m \in {c[1] : c \in copies} : \A c \in copies : c[1] <= m

SameMinute(copies, m) == {c \in copies : c[1] = m}

Init ==
  /\ rev = 1 /\ now = 0 /\ files = [m \in Minutes |-> 0] /\ index = {}
  /\ pc = "idle" /\ tmp = 0 /\ mem = {} /\ id = -1 /\ gone = {}
  /\ reader = "idle" /\ rid = 0 /\ behind = 0
  /\ alone = TRUE /\ fails = 0 /\ crashes = 0

Go(step) == pc' = step /\ UNCHANGED fails

\* A request failed: the error is logged and the lock released.
Fail == pc' = "idle" /\ fails < MaxFail /\ fails' = fails + 1

(***************************************************************************)
(* doBackup                                                                *)
(***************************************************************************)
\* One process starts a backup 10 minutes after its last one at the earliest.
DoBackup ==
  /\ pc = "idle" /\ now > id /\ Go("snap")
  /\ UNCHANGED <<rev, now, files, index, tmp, mem, id, gone, readerVars, alone, crashes>>

\* etcdctl snapshot save into SnapshotTMP asks the first peer only: one of the
\* members, in any order of the list, and it may lag behind the others.
Snapshot ==
  /\ pc = "snap"
  /\ (tmp' \in 1..rev /\ Go("save")) \/ (tmp' = tmp /\ Fail)
  /\ UNCHANGED <<rev, now, files, index, mem, id, gone, readerVars, alone, crashes>>

SaveCluster ==
  /\ pc = "save" /\ (Go("load") \/ Fail)
  /\ UNCHANGED <<rev, now, files, index, tmp, mem, id, gone, readerVars, alone, crashes>>

\* LazyLoad, then the identity is the minute it is.  (MaxSame bounds the
\* copies of one minute.)
LazyLoad ==
  /\ pc = "load"
  /\ \/ /\ Cardinality(SameMinute(index, now)) < MaxSame
        /\ mem' = index /\ id' = now /\ Go("put")
     \/ /\ Cardinality(SameMinute(index, now)) >= MaxSame
        /\ UNCHANGED <<mem, id>> /\ Go("idle")
     \/ UNCHANGED <<mem, id>> /\ Fail
  /\ UNCHANGED <<rev, now, files, index, tmp, gone, readerVars, alone, crashes>>

PutFile ==
  /\ pc = "put"
  /\ \/ files' = [files EXCEPT ![id] = tmp] /\ (Go("index") \/ Fail)
     \/ files' = files /\ Fail
  /\ UNCHANGED <<rev, now, index, tmp, mem, id, gone, readerVars, alone, crashes>>

\* The new copy is appended and index.json is replaced.
PutIndex ==
  /\ pc = "index"
  /\ \/ /\ index' = mem \cup {<<id, Cardinality(SameMinute(mem, id)) + 1>>}
        /\ alone' = (alone /\ SameMinute(mem, id) = {})
        /\ behind' = IF reader = "got" /\ behind < KeepCopies THEN behind + 1 ELSE behind
        /\ Go("idle") \/ Fail
     \/ UNCHANGED <<index, behind, alone>> /\ Fail
  /\ UNCHANGED <<rev, now, files, tmp, mem, id, gone, reader, rid, crashes>>

(***************************************************************************)
(* CleanUp                                                                 *)
(***************************************************************************)
\* The first KeepCopies copies in SortBackups' order stay.
Kept(copies) == {c \in copies : Rank(c, copies) < KeepCopies}

\* Mutant of BackupGC: one copy too many is deleted.
BackupGCOffByOne ==
  LET kept == {c \in index : Rank(c, index) < KeepCopies - 1} IN
  /\ pc = "idle" /\ Cardinality(index) > KeepCopies
  /\ mem' = kept /\ gone' = index \ kept /\ Go("gc")
  /\ UNCHANGED <<rev, now, files, index, tmp, id, readerVars, alone, crashes>>

BackupGC ==
  /\ pc = "idle" /\ Cardinality(index) > KeepCopies
  /\ mem' = Kept(index) /\ gone' = index \ Kept(index) /\ Go("gc")
  /\ UNCHANGED <<rev, now, files, index, tmp, id, readerVars, alone, crashes>>

\* An error of DeleteObject is only logged.
DeleteObject(c) ==
  /\ pc = "gc" /\ c \in gone
  /\ gone' = gone \ {c} /\ pc' = pc
  /\ \/ files' = [files EXCEPT ![c[1]] = 0] /\ UNCHANGED fails
     \/ files' = files /\ fails < MaxFail /\ fails' = fails + 1
  /\ UNCHANGED <<rev, now, index, tmp, mem, id, readerVars, alone, crashes>>

\* Mutant of PutKept: the shortened index is not stored.
PutKeptForgotten ==
  /\ pc = "gc" /\ gone = {} /\ index' = index /\ Go("idle")
  /\ UNCHANGED <<rev, now, files, tmp, mem, id, gone, readerVars, alone, crashes>>

PutKept ==
  /\ pc = "gc" /\ gone = {}
  /\ (index' = mem /\ (Go("idle") \/ Fail)) \/ (index' = index /\ Fail)
  /\ UNCHANGED <<rev, now, files, tmp, mem, id, gone, readerVars, alone, crashes>>

Operator == \/ DoBackup \/ Snapshot \/ SaveCluster \/ LazyLoad \/ PutFile \/ PutIndex
            \/ BackupGC \/ (\E c \in Copies : DeleteObject(c)) \/ PutKept

(***************************************************************************)
(* The recovering master, and the environment                              *)
(***************************************************************************)
\* Mutant of ReadIndex: the copies are not sorted first.
ReadIndexUnsorted ==
  /\ reader = "idle"
  /\ \/ reader' = "got" /\ behind' = 0 /\ \E c \in index : rid' = c[1]
     \/ index = {} /\ UNCHANGED readerVars
  /\ UNCHANGED <<rev, now, files, index, opVars, fails, alone, crashes>>

ReadIndex ==
  /\ reader = "idle"
  /\ \/ /\ index # {} /\ reader' = "got"
        /\ rid' = LatestBackup(index) /\ behind' = 0
     \/ index = {} /\ UNCHANGED readerVars
  /\ UNCHANGED <<rev, now, files, index, opVars, fails, alone, crashes>>

GetFile ==
  /\ reader = "got" /\ reader' = "idle" /\ rid' = 0 /\ behind' = 0
  /\ UNCHANGED <<rev, now, files, index, opVars, fails, alone, crashes>>

Write ==
  /\ rev < MaxRev /\ rev' = rev + 1
  /\ UNCHANGED <<now, files, index, opVars, readerVars, fails, alone, crashes>>

Tick ==
  /\ now < MaxMinute /\ now' = now + 1
  /\ UNCHANGED <<rev, files, index, opVars, readerVars, fails, alone, crashes>>

\* The operator is restarted, possibly on a host whose clock is behind.
Crash ==
  /\ crashes < MaxCrash /\ crashes' = crashes + 1
  /\ now' \in {m \in Minutes : m <= now /\ now <= m + Skew}
  /\ pc' = "idle" /\ tmp' = 0 /\ mem' = {} /\ id' = -1 /\ gone' = {}
  /\ UNCHANGED <<rev, files, index, readerVars, alone, fails>>

Next == Operator \/ ReadIndex \/ GetFile \/ Write \/ Tick \/ Crash

Spec == Init /\ [][Next]_vars

\* Both loops run for ever and take turns on the lock; a request returns.
FairSpec ==
  /\ Spec /\ WF_vars(Operator /\ pc # "idle") /\ SF_vars(BackupGC)

(***************************************************************************)
(* Properties                                                              *)
(***************************************************************************)
TypeOK ==
  /\ rev \in 1..MaxRev /\ now \in Minutes
  /\ files \in [Minutes -> 0..MaxRev] /\ index \subseteq Copies
  /\ pc \in Steps /\ tmp \in 0..MaxRev /\ mem \subseteq Copies
  /\ id \in Minutes \cup {-1} /\ gone \subseteq Copies
  /\ reader \in {"idle", "got"} /\ rid \in Minutes /\ behind \in 0..KeepCopies
  /\ alone \in BOOLEAN /\ fails \in 0..MaxFail /\ crashes \in 0..MaxCrash

\* What a recovery started now would restore; 0 is nothing.
Restorable == IF index = {} THEN 0 ELSE files[LatestBackup(index)]

\* Whenever index.json lists a copy, the snapshot file that LatestBackup
\* would download exists: after a failed or a half-done backup, a clean-up
\* cut off by a restart, and backups of one minute sharing one file.
LatestRestorable == index # {} => Restorable # 0

\* What a recovery would restore changes only while Backup stores a file or the
\* index, and then to the snapshot that this backup took: no clean-up, failure,
\* restart or clock step brings a recovery back to another copy.
OnlyBackupsChange ==
  [][Restorable' # Restorable => pc \in {"put", "index"} /\ Restorable' = tmp]_vars

\* Each of the KEEP_COPIES_CNT most recent copies that the index lists has
\* its file, unless a restart put two backups into one minute: BackupGC may
\* fail or be cut off between its deletions and the new index.
KeptHaveFiles == \A c \in Kept(index) : files[c[1]] # 0
KeptRestorable == alone => KeptHaveFiles

\* A recovering master that has chosen a copy still finds its file unless
\* KEEP_COPIES_CNT newer backups were completed meanwhile.
ReaderFindsFile == (alone /\ reader = "got" /\ behind < KeepCopies) => files[rid] # 0

\* Failed or interrupted clean-ups are made up for: the index comes back to
\* KEEP_COPIES_CNT copies again and again.
CopiesBounded == []<>(Cardinality(index) <= KeepCopies)

\* docs/zh/manage-cluster.md, "保留最近4个备份副本": the most recent copies are
\* kept, whatever minute they are from.
RecentCopiesKept == KeptHaveFiles
=============================================================================
