------------------------- MODULE SnapshotIndexProofs -------------------------
(***************************************************************************)
(* For every number of copies kept, every clock skew and every number of   *)
(* failures and restarts: a recovery always finds the latest copy's file   *)
(* while no minute has more backups than copies are kept, and every copy   *)
(* kept has its file while no two backups share a minute.  Then a reader   *)
(* of the index, which takes no lock, also finds its file until as many    *)
(* newer backups are completed as copies are kept.                         *)
(***************************************************************************)
EXTENDS SnapshotIndex, FiniteSetTheorems, TLAPS

(***************************************************************************)
(* Facts about the order of copies                                         *)
(***************************************************************************)
LEMMA CopiesFinite ==
  ASSUME NEW S, S \subseteq Copies
  PROVE  IsFiniteSet(S) /\ Cardinality(S) \in Nat
<1>1. IsFiniteSet(Minutes) /\ IsFiniteSet(1..MaxSame)
  BY SnapshotAssumption, FS_Interval DEF Minutes
<1>2. IsFiniteSet(Copies)
  BY <1>1, FS_Product, Zenon DEF Copies
<1> QED
  BY <1>2, FS_Subset, FS_CardinalityType

LEMMA CopyMinute == \A c \in Copies : c[1] \in Minutes /\ c[1] \in Int
BY SnapshotAssumption DEF Copies, Minutes

\* Adding copies can only push a copy down.
LEMMA RankMonotone ==
  ASSUME NEW S, NEW T, S \subseteq T, T \subseteq Copies, NEW c \in Copies
  PROVE  Rank(c, S) \in Nat /\ Rank(c, T) \in Nat /\ Rank(c, S) <= Rank(c, T)
<1> DEFINE A == {d \in S : Newer(d, c)}
           B == {d \in T : Newer(d, c)}
<1>1. A \subseteq B /\ IsFiniteSet(B)
  BY CopiesFinite
<1>2. IsFiniteSet(A) /\ Cardinality(A) \in Nat /\ Cardinality(B) \in Nat
      /\ Cardinality(A) <= Cardinality(B)
  BY <1>1, FS_Subset, FS_CardinalityType
<1> QED
  BY <1>2 DEF Rank

\* The clean-up leaves the rank of the copies it keeps: what is newer than a
\* kept copy is kept too.
LEMMA KeptRank ==
  ASSUME NEW S, S \subseteq Copies, NEW c \in Kept(S)
  PROVE  {d \in Kept(S) : Newer(d, c)} = {d \in S : Newer(d, c)}
<1>1. ASSUME NEW d \in S, Newer(d, c) PROVE d \in Kept(S)
  <2> DEFINE A == {e \in S : Newer(e, d)}
             B == {e \in S : Newer(e, c)}
  <2>1. A \subseteq B
    BY <1>1 DEF Newer, Kept, Copies, Minutes
  <2>2. IsFiniteSet(B) /\ Cardinality(A) \in Nat /\ Cardinality(B) \in Nat
        /\ Cardinality(A) <= Cardinality(B)
    BY <2>1, CopiesFinite, FS_Subset
  <2>3. Cardinality(B) < KeepCopies
    BY DEF Kept, Rank
  <2> QED
    BY <1>1, <2>2, <2>3, SnapshotAssumption DEF Kept, Rank
<1> QED
  BY <1>1 DEF Kept

\* The copies of the most recent minute.
Top(S) == {c \in S : \A d \in S : d[1] <= c[1]}

\* They are all kept: fewer than KeepCopies copies precede each of them.
LEMMA TopKept ==
  ASSUME NEW S, S \subseteq Copies, MaxSame <= KeepCopies
  PROVE  Top(S) \subseteq Kept(S)
<1> SUFFICES ASSUME NEW c \in Top(S) PROVE Rank(c, S) < KeepCopies
  BY DEF Top, Kept
<1> DEFINE A == {d \in S : Newer(d, c)}
           B == {c[1]} \X (1..(c[2] - 1))
<1>1. c \in S /\ c[1] \in Int /\ c[2] \in 1..MaxSame
  BY DEF Top, Copies, Minutes
<1>2. A \subseteq B
  <2> SUFFICES ASSUME NEW d \in A PROVE d \in B
    OBVIOUS
  <2>1. d \in S /\ d = <<d[1], d[2]>> /\ d[1] \in Int /\ d[2] \in 1..MaxSame
    BY DEF Copies, Minutes
  <2>2. d[1] <= c[1]
    BY <2>1 DEF Top
  <2>3. d[1] = c[1] /\ d[2] < c[2]
    BY <1>1, <2>1, <2>2 DEF Newer
  <2> QED
    BY <1>1, <2>1, <2>3, SnapshotAssumption
<1>3. IsFiniteSet({c[1]}) /\ Cardinality({c[1]}) = 1
  BY FS_Singleton, Zenon
<1>4. /\ IsFiniteSet(1..(c[2] - 1))
      /\ Cardinality(1..(c[2] - 1)) = IF 1 > c[2] - 1 THEN 0 ELSE (c[2] - 1) - 1 + 1
  <2>1. 1 \in Int /\ c[2] - 1 \in Int
    BY <1>1, SnapshotAssumption
  <2> QED
    BY ONLY <2>1, FS_Interval
<1>5. Cardinality(1..(c[2] - 1)) = c[2] - 1
  BY <1>1, <1>4, SnapshotAssumption
<1>6. IsFiniteSet(B) /\ Cardinality(B) = 1 * Cardinality(1..(c[2] - 1))
  BY <1>3, <1>4, FS_Product, Zenon
<1>7. Cardinality(B) = c[2] - 1
  BY <1>1, <1>5, <1>6, SnapshotAssumption
<1>8. Cardinality(A) <= Cardinality(B) /\ IsFiniteSet(A)
  BY <1>2, <1>6, FS_Subset
<1>9. Cardinality(A) \in Nat
  BY <1>8, FS_CardinalityType
<1> QED
  BY <1>1, <1>7, <1>8, <1>9, SnapshotAssumption DEF Rank

\* The clean-up does not change which minute is the most recent one.
LEMMA TopOfKept ==
  ASSUME NEW S, S \subseteq Copies
  PROVE  Top(Kept(S)) \subseteq Top(S)
<1> SUFFICES ASSUME NEW c \in Top(Kept(S)), NEW d \in S, d[1] > c[1] PROVE FALSE
  BY DEF Top, Kept, Copies, Minutes
<1>1. c \in Kept(S) /\ c \in S
  BY DEF Top, Kept
<1>2. Newer(d, c)
  BY DEF Newer
<1>3. d \in Kept(S)
  BY <1>1, <1>2, KeptRank
<1> QED
  BY <1>1, <1>3 DEF Top, Copies, Minutes

\* LatestBackup is the minute of the topmost copies.
LEMMA LatestIsTop ==
  ASSUME NEW S, S \subseteq Copies, NEW c \in Top(S)
  PROVE  LatestBackup(S) = c[1]
<1>1. c[1] \in {d[1] : d \in S} /\ \A d \in S : d[1] <= c[1]
  BY DEF Top
<1>2. ASSUME NEW m \in {d[1] : d \in S}, \A d \in S : d[1] <= m PROVE m = c[1]
  BY <1>1, <1>2 DEF Top, Copies, Minutes
<1> QED
  BY <1>1, <1>2 DEF LatestBackup

(***************************************************************************)
(* The inductive invariant                                                 *)
(***************************************************************************)
\* What an operation knows at each of its steps: its copy of the index is
\* still the stored one, and the clean-up deletes only files it does not keep.
Progress ==
  /\ pc \in {"save", "load", "put", "index"} => tmp > 0 /\ tmp <= rev
  /\ pc \in {"put", "index"} =>
       mem = index /\ id \in Minutes /\ Cardinality(SameMinute(index, id)) < MaxSame
  /\ pc = "index" => files[id] = tmp
  /\ pc = "gc" => mem = Kept(index) /\ gone \subseteq index \ Kept(index)

\* The most recent copies have files, and while minutes are not shared all
\* kept copies have; such copies have number 1.
Stored ==
  /\ index # {} => Top(index) # {}
  /\ MaxSame <= KeepCopies => \A c \in Top(index) : files[c[1]] # 0
  /\ alone => KeptHaveFiles /\ \A c \in index : c[2] = 1

IInv == TypeOK /\ (\A m \in Minutes : files[m] <= rev) /\ Progress /\ Stored

LEMMA InitIInv == Init => IInv
<1> SUFFICES ASSUME Init PROVE IInv
  OBVIOUS
<1>1. TypeOK
  BY SnapshotAssumption DEF Init, TypeOK, Minutes, Steps
<1>2. Progress /\ Stored
  BY DEF Init, Progress, Stored, Top, KeptHaveFiles, Kept
<1> QED
  BY <1>1, <1>2 DEF IInv, Init

\* Steps that leave the store alone.
LEMMA QuietStep ==
  ASSUME IInv, UNCHANGED <<files, index, alone>>, TypeOK', Progress', rev' >= rev
  PROVE  IInv'
<1>1. Stored'
  BY DEF IInv, Stored, KeptHaveFiles
<1>2. \A m \in Minutes : files'[m] <= rev'
  BY SnapshotAssumption DEF IInv, TypeOK
<1> QED
  BY <1>1, <1>2 DEF IInv

\* Storing a copy's file.
LEMMA PutFileStep ==
  ASSUME IInv, pc = "put", files' = [files EXCEPT ![id] = tmp],
         UNCHANGED <<index, rev, alone>>, TypeOK', Progress'
  PROVE  IInv'
<1>1. \A m \in Minutes : files'[m] = files[m] \/ (files'[m] = tmp /\ tmp > 0)
  BY SnapshotAssumption DEF IInv, TypeOK, Progress, Minutes
<1>2. \A m \in Minutes : files'[m] <= rev'
  BY <1>1 DEF IInv, TypeOK, Progress
<1>3. \A c \in index : files[c[1]] # 0 => files'[c[1]] # 0
  <2>1. \A c \in index : c[1] \in Minutes
    BY DEF IInv, TypeOK, Copies
  <2> QED
    BY <1>1, <2>1
<1>4. Stored'
  BY <1>3 DEF IInv, Stored, KeptHaveFiles, Kept, Top
<1> QED
  BY <1>2, <1>4 DEF IInv

\* The stored index gets the new copy.
LEMMA PutIndexStep ==
  ASSUME IInv, pc = "index", UNCHANGED <<files, rev>>, TypeOK', Progress',
         NEW c \in Copies, c[1] = id, index' = index \cup {c},
         alone' => alone /\ c[2] = 1
  PROVE  IInv'
<1>1. files[c[1]] # 0
  BY SnapshotAssumption DEF IInv, TypeOK, Progress
<1>2. Top(index') \subseteq Top(index) \cup {c}
  BY DEF Top
<1>3. Top(index') # {}
  <2>1. CASE index = {}
    BY <2>1 DEF Top, Copies, Minutes
  <2>2. CASE index # {}
    <3>0. PICK d \in Top(index) : TRUE
      BY <2>2 DEF IInv, Stored
    <3>1. d \in index /\ \A e \in index : e[1] <= d[1]
      BY <3>0 DEF Top
    <3>2. d[1] \in Int /\ c[1] \in Int /\ \A e \in index : e[1] \in Int
      BY <3>1, CopyMinute DEF IInv, TypeOK
    <3>3. d \in Top(index') \/ c \in Top(index')
      BY <3>1, <3>2 DEF Top
    <3> QED
      BY <3>3
  <2> QED
    BY <2>1, <2>2
<1>4. Kept(index') \subseteq Kept(index) \cup {c}
  <2> SUFFICES ASSUME NEW d \in Kept(index'), d # c PROVE d \in Kept(index)
    OBVIOUS
  <2>1. d \in index /\ d \in Copies /\ Rank(d, index') < KeepCopies
    BY DEF Kept, IInv, TypeOK
  <2>2. Rank(d, index) \in Nat /\ Rank(d, index') \in Nat /\ Rank(d, index) <= Rank(d, index')
    BY <2>1, RankMonotone DEF IInv, TypeOK
  <2> QED
    BY <2>1, <2>2, SnapshotAssumption DEF Kept
<1>5. Stored'
  BY <1>1, <1>2, <1>3, <1>4, Zenon DEF IInv, Stored, KeptHaveFiles
<1> QED
  BY <1>5 DEF IInv

\* The clean-up deletes a file.
LEMMA DeleteStep ==
  ASSUME IInv, NEW c \in index \ Kept(index), UNCHANGED <<index, rev, alone>>,
         files' = [files EXCEPT ![c[1]] = 0], TypeOK', Progress'
  PROVE  IInv'
<1>1. index \subseteq Copies /\ c \in Copies /\ files \in [Minutes -> 0..MaxRev]
  BY DEF IInv, TypeOK
<1>2. \A d \in index : d[1] \in Minutes /\ d[1] \in Int
  BY <1>1 DEF Copies, Minutes
<1>3. \A d \in index : d[1] # c[1] => files'[d[1]] = files[d[1]]
  BY <1>1, <1>2
<1>4. ASSUME MaxSame <= KeepCopies, NEW d \in Top(index) PROVE files'[d[1]] # 0
  <2>1. c \notin Top(index) /\ d \in index
    BY <1>1, <1>4, TopKept DEF Top
  <2>2. d[1] # c[1]
    BY <2>1 DEF Top
  <2> QED
    BY <1>3, <1>4, <2>1, <2>2 DEF IInv, Stored
<1>5. ASSUME alone, NEW d \in Kept(index) PROVE files'[d[1]] # 0
  <2>1. d \in index /\ d # c
    BY DEF Kept
  <2>2. d[1] # c[1]
    BY <1>1, <1>5, <2>1 DEF Copies, IInv, Stored
  <2> QED
    BY <1>3, <1>5, <2>1, <2>2 DEF IInv, Stored, KeptHaveFiles
<1>6. \A m \in Minutes : files'[m] <= rev'
  BY <1>1, SnapshotAssumption DEF IInv, TypeOK
<1> QED
  BY <1>4, <1>5, <1>6 DEF IInv, Stored, KeptHaveFiles

\* The clean-up stores the shortened index.
LEMMA PutKeptStep ==
  ASSUME IInv, UNCHANGED <<files, rev, alone>>, index' = Kept(index), TypeOK', Progress'
  PROVE  IInv'
<1>1. index \subseteq Copies
  BY DEF IInv, TypeOK
<1>2. Top(index') \subseteq Top(index)
  BY <1>1, TopOfKept
<1>3. Kept(index') \subseteq Kept(index)
  BY DEF Kept
<1>4. index' # {} => Top(index') # {}
  <2> SUFFICES ASSUME NEW c \in Kept(index) PROVE Top(Kept(index)) # {}
    OBVIOUS
  <2>1. PICK d \in Top(index) : TRUE
    BY DEF Kept, IInv, Stored
  <2>2. CASE d \in Kept(index)
    BY <2>2 DEF Top, Kept
  <2>3. CASE d \notin Kept(index)
    <3>1. d[1] \in Int /\ c[1] \in Int /\ c \in index /\ d \in index
      BY <1>1 DEF Kept, Top, Copies, Minutes
    <3>2. ~(d[1] > c[1])
      BY <1>1, <2>3, <3>1, KeptRank DEF Newer
    <3>3. \A e \in index : e[1] <= c[1]
      BY <1>1, <3>1, <3>2 DEF Top, Copies, Minutes
    <3> QED
      BY <3>3 DEF Top, Kept
  <2> QED
    BY <2>2, <2>3
<1>5. Stored'
  BY <1>2, <1>3, <1>4 DEF IInv, Stored, KeptHaveFiles, Kept
<1> QED
  BY <1>5 DEF IInv

(***************************************************************************)
(* Every step keeps the invariant                                          *)
(***************************************************************************)
\* The copy that PutIndex adds has a number that no other copy of its minute
\* exceeds, and MaxSame bounds it.
LEMMA NewCopy ==
  ASSUME IInv, pc = "index"
  PROVE  <<id, Cardinality(SameMinute(mem, id)) + 1>> \in Copies
<1>1. mem = index /\ id \in Minutes /\ Cardinality(SameMinute(index, id)) < MaxSame
  BY DEF IInv, Progress
<1>2. SameMinute(index, id) \subseteq Copies
  BY DEF SameMinute, IInv, TypeOK
<1>3. Cardinality(SameMinute(index, id)) \in Nat
  BY <1>2, CopiesFinite
<1> QED
  BY <1>1, <1>3, SnapshotAssumption DEF Copies

LEMMA NextIInv == IInv /\ [Next]_vars => IInv'
<1> SUFFICES ASSUME IInv, [Next]_vars PROVE IInv'
  OBVIOUS
<1> USE SnapshotAssumption
<1>0. TypeOK /\ Progress /\ index \subseteq Copies
  BY DEF IInv, TypeOK
<1>1. CASE DoBackup
  <2>1. TypeOK' /\ Progress'
    BY <1>0, <1>1 DEF DoBackup, Go, TypeOK, Progress, Steps, readerVars
  <2> QED
    BY <1>1, <2>1, QuietStep DEF DoBackup, TypeOK, IInv
<1>2. CASE Snapshot
  <2>1. TypeOK' /\ Progress'
    BY <1>0, <1>2 DEF Snapshot, Go, Fail, TypeOK, Progress, Steps, readerVars, IInv
  <2> QED
    BY <1>2, <2>1, QuietStep DEF Snapshot, TypeOK, IInv
<1>3. CASE SaveCluster
  <2>1. TypeOK' /\ Progress'
    BY <1>0, <1>3 DEF SaveCluster, Go, Fail, TypeOK, Progress, Steps, readerVars
  <2> QED
    BY <1>3, <2>1, QuietStep DEF SaveCluster, TypeOK, IInv
<1>4. CASE LazyLoad
  <2>1. TypeOK' /\ Progress'
    BY <1>0, <1>4 DEF LazyLoad, Go, Fail, TypeOK, Progress, Steps, readerVars
  <2> QED
    BY <1>4, <2>1, QuietStep DEF LazyLoad, TypeOK, IInv
<1>5. CASE PutFile
  <2>1. TypeOK' /\ Progress'
    BY <1>0, <1>5 DEF PutFile, Go, Fail, TypeOK, Progress, Steps, readerVars
  <2>2. CASE files' = [files EXCEPT ![id] = tmp]
    BY <1>5, <2>1, <2>2, PutFileStep DEF PutFile
  <2>3. CASE files' = files
    BY <1>5, <2>1, <2>3, QuietStep DEF PutFile, TypeOK, IInv
  <2> QED
    BY <1>5, <2>2, <2>3 DEF PutFile
<1>6. CASE PutIndex
  <2> DEFINE c == <<id, Cardinality(SameMinute(mem, id)) + 1>>
  <2>1. c \in Copies /\ c[1] = id
    BY <1>6, NewCopy DEF PutIndex
  <2>2. mem = index
    BY <1>0, <1>6 DEF PutIndex, Progress
  <2>3. CASE index' = mem \cup {c} /\ alone' = (alone /\ SameMinute(mem, id) = {})
    <3>1. TypeOK' /\ Progress'
      BY <1>0, <1>6, <2>1, <2>3 DEF PutIndex, Go, Fail, TypeOK, Progress, Steps
    <3>2. alone' => alone /\ c[2] = 1
      <4>1. alone' => alone /\ SameMinute(mem, id) = {}
        BY <1>6, <2>1, <2>2, <2>3, Zenon DEF PutIndex
      <4> QED
        BY <4>1, FS_EmptySet
    <3> QED
      BY <1>6, <2>1, <2>2, <2>3, <3>1, <3>2, PutIndexStep DEF PutIndex
  <2>4. CASE UNCHANGED <<index, behind, alone>> /\ Fail
    <3>1. TypeOK' /\ Progress'
      BY <1>0, <1>6, <2>4 DEF PutIndex, Fail, TypeOK, Progress, Steps
    <3> QED
      BY <1>6, <2>4, <3>1, QuietStep DEF PutIndex, TypeOK, IInv
  <2> QED
    BY <1>6, <2>3, <2>4 DEF PutIndex
<1>7. CASE BackupGC
  <2>1. TypeOK' /\ Progress'
    BY <1>0, <1>7 DEF BackupGC, Go, Kept, TypeOK, Progress, Steps, readerVars
  <2> QED
    BY <1>7, <2>1, QuietStep DEF BackupGC, TypeOK, IInv
<1>8. ASSUME NEW c \in Copies, DeleteObject(c) PROVE IInv'
  <2>1. TypeOK' /\ Progress'
    BY <1>0, <1>8 DEF DeleteObject, TypeOK, Progress, Steps, readerVars
  <2>2. c \in index \ Kept(index)
    BY <1>0, <1>8 DEF DeleteObject, Progress
  <2>3. CASE files' = [files EXCEPT ![c[1]] = 0]
    BY <1>8, <2>1, <2>2, <2>3, DeleteStep, Zenon DEF DeleteObject
  <2>4. CASE files' = files
    BY <1>8, <2>1, <2>4, QuietStep DEF DeleteObject, TypeOK, IInv
  <2> QED
    BY <1>8, <2>3, <2>4 DEF DeleteObject
<1>9. CASE PutKept
  <2>1. TypeOK' /\ Progress'
    BY <1>0, <1>9 DEF PutKept, Go, Fail, Kept, TypeOK, Progress, Steps, readerVars
  <2>2. CASE index' = mem
    BY <1>0, <1>9, <2>1, <2>2, PutKeptStep DEF PutKept, Progress
  <2>3. CASE index' = index
    BY <1>9, <2>1, <2>3, QuietStep DEF PutKept, TypeOK, IInv
  <2> QED
    BY <1>9, <2>2, <2>3 DEF PutKept
<1>10. CASE ReadIndex
  <2>1. ASSUME index # {} PROVE LatestBackup(index) \in Minutes
    <3>1. PICK c \in Top(index) : TRUE
      BY <2>1 DEF IInv, Stored
    <3> QED
      BY <1>0, <3>1, LatestIsTop DEF Top, Copies
  <2>2. TypeOK' /\ Progress'
    BY <1>0, <1>10, <2>1 DEF ReadIndex, TypeOK, Progress, opVars, readerVars
  <2> QED
    BY <1>10, <2>2, QuietStep DEF ReadIndex, TypeOK, IInv
<1>11. CASE GetFile
  <2>1. TypeOK' /\ Progress'
    BY <1>0, <1>11 DEF GetFile, TypeOK, Progress, opVars, Minutes
  <2> QED
    BY <1>11, <2>1, QuietStep DEF GetFile, TypeOK, IInv
<1>12. CASE Write
  <2>1. TypeOK' /\ Progress'
    BY <1>0, <1>12 DEF Write, TypeOK, Progress, opVars, readerVars
  <2> QED
    BY <1>12, <2>1, QuietStep DEF Write, TypeOK, IInv
<1>13. CASE Tick
  <2>1. TypeOK' /\ Progress'
    BY <1>0, <1>13 DEF Tick, TypeOK, Progress, opVars, readerVars, Minutes
  <2> QED
    BY <1>13, <2>1, QuietStep DEF Tick, TypeOK, IInv
<1>14. CASE Crash
  <2>1. TypeOK' /\ Progress'
    BY <1>0, <1>14 DEF Crash, TypeOK, Progress, readerVars, Steps
  <2> QED
    BY <1>14, <2>1, QuietStep DEF Crash, TypeOK, IInv
<1>15. CASE UNCHANGED vars
  <2>1. TypeOK' /\ Progress'
    BY <1>0, <1>15 DEF vars, opVars, readerVars, TypeOK, Progress
  <2> QED
    BY <1>15, <2>1, QuietStep DEF vars, TypeOK, IInv
<1> QED
  BY <1>1, <1>2, <1>3, <1>4, <1>5, <1>6, <1>7, <1>8, <1>9, <1>10, <1>11, <1>12,
     <1>13, <1>14, <1>15 DEF Next, Operator

\* The backup and clean-up loops keep the state of its type, whatever fails
\* or restarts.
THEOREM TypeCorrect == Spec => []TypeOK
<1>1. IInv => TypeOK
  BY DEF IInv
<1> QED
  BY <1>1, InitIInv, NextIInv, PTL DEF Spec

\* While no two backups share a minute, each of the KeepCopies most recent
\* copies that index.json lists has its file: BackupGC deletes first and
\* stores the index last, and a failure or a restart in between is harmless.
THEOREM KeptAlwaysRestorable == Spec => []KeptRestorable
<1>1. IInv => KeptRestorable
  BY DEF IInv, Stored, KeptRestorable
<1> QED
  BY <1>1, InitIInv, NextIInv, PTL DEF Spec

\* The file of the copy that LatestBackup chooses exists.
LEMMA TopRestorable ==
  ASSUME IInv, MaxSame <= KeepCopies, index # {}
  PROVE  /\ LatestRestorable
         /\ \E c \in Top(index) : LatestBackup(index) = c[1] /\ Restorable = files[c[1]]
<1>1. PICK c \in Top(index) : TRUE
  BY DEF IInv, Stored
<1>2. LatestBackup(index) = c[1]
  BY <1>1, LatestIsTop DEF IInv, TypeOK
<1> QED
  BY <1>1, <1>2 DEF IInv, Stored, LatestRestorable, Restorable

\* Even when restarts put several backups into one minute, a recovery finds
\* the latest copy's file, as long as they are not more than are kept.
THEOREM LatestAlwaysRestorable == Spec => [](MaxSame <= KeepCopies => LatestRestorable)
<1>1. IInv => (MaxSame <= KeepCopies => LatestRestorable)
  BY TopRestorable DEF LatestRestorable
<1> QED
  BY <1>1, InitIInv, NextIInv, PTL DEF Spec

\* The topmost copies share a minute, and its file is what is restored.
LEMMA RestorableIs ==
  ASSUME IInv, MaxSame <= KeepCopies, NEW c \in Top(index)
  PROVE  Restorable = files[c[1]]
<1>1. LatestBackup(index) = c[1] /\ index # {}
  BY LatestIsTop DEF IInv, TypeOK, Top
<1> QED
  BY <1>1 DEF Restorable

LEMMA RestorableWillBe ==
  ASSUME IInv', MaxSame <= KeepCopies, NEW c \in Top(index')
  PROVE  Restorable' = files'[c[1]]
<1>1. LatestBackup(index') = c[1] /\ index' # {}
  BY LatestIsTop DEF IInv, TypeOK, Top
<1> QED
  BY <1>1 DEF Restorable

\* Only Backup changes what a recovery restores, and to the snapshot that it
\* took; clean-ups, failures, restarts and clock steps never do.
THEOREM OnlyBackupsChangeRestorable ==
  ASSUME MaxSame <= KeepCopies PROVE Spec => OnlyBackupsChange
<1> DEFINE Changes == Restorable' # Restorable => pc \in {"put", "index"} /\ Restorable' = tmp
<1>1. IInv /\ IInv' /\ [Next]_vars => [Changes]_vars
  <2> SUFFICES ASSUME IInv, IInv', Next, Restorable' # Restorable
               PROVE  pc \in {"put", "index"} /\ Restorable' = tmp
    OBVIOUS
  <2> USE SnapshotAssumption
  <2>0. /\ index \subseteq Copies /\ index' \subseteq Copies
        /\ files \in [Minutes -> 0..MaxRev]
        /\ \A c \in Copies : c[1] \in Minutes /\ c[1] \in Int
        /\ (index # {} => Top(index) # {}) /\ (index' # {} => Top(index') # {})
    BY CopyMinute DEF IInv, TypeOK, Stored
  <2>1. CASE PutFile
    <3>1. pc = "put" /\ index' = index /\ id \in Minutes
      BY <2>1 DEF PutFile, IInv, Progress
    <3>2. PICK c \in Top(index) : TRUE
      BY <2>0, <3>1 DEF Restorable
    <3>3. c[1] \in Minutes /\ c \in Top(index')
      BY <2>0, <3>1, <3>2 DEF Top
    <3>4. files'[c[1]] = files[c[1]] \/ files'[c[1]] = tmp
      BY <2>0, <2>1, <3>3 DEF PutFile
    <3> QED
      BY <3>1, <3>2, <3>3, <3>4, RestorableIs, RestorableWillBe
  <2>2. CASE PutIndex
    <3> DEFINE n == <<id, Cardinality(SameMinute(mem, id)) + 1>>
    <3>1. /\ pc = "index" /\ files' = files /\ files[id] = tmp /\ n[1] = id
          /\ index' = index \/ index' = index \cup {n}
      BY <2>2 DEF PutIndex, IInv, Progress
    <3>2. PICK d \in Top(index') : TRUE
      BY <2>0, <3>1 DEF Restorable
    <3>3. CASE d = n
      BY <3>1, <3>2, <3>3, RestorableWillBe
    <3>4. CASE d \in index
      <4>1. d \in Top(index)
        BY <3>1, <3>2, <3>4 DEF Top
      <4> QED
        BY <3>1, <3>2, <4>1, RestorableIs, RestorableWillBe
    <3> QED
      BY <3>1, <3>2, <3>3, <3>4 DEF Top
  <2>3. ASSUME NEW x \in Copies, DeleteObject(x) PROVE FALSE
    <3>1. index' = index /\ x \in index /\ x \notin Top(index)
      BY <2>0, <2>3, TopKept DEF DeleteObject, IInv, Progress
    <3>2. PICK c \in Top(index) : TRUE
      BY <2>0, <3>1
    <3>3. c \in Copies /\ c \in Top(index') /\ c[1] # x[1]
      BY <2>0, <3>1, <3>2 DEF Top
    <3>4. files'[c[1]] = files[c[1]]
      BY <2>0, <2>3, <3>3 DEF DeleteObject
    <3> QED
      BY <3>2, <3>3, <3>4, RestorableIs, RestorableWillBe
  <2>4. CASE PutKept
    <3>1. files' = files /\ Top(index') \subseteq Top(index)
      BY <2>0, <2>4, TopOfKept DEF PutKept, IInv, Progress
    <3>2. index # {} => index' # {}
      BY <2>0, <2>4, TopKept DEF PutKept, IInv, Progress
    <3>3. index # {}
      BY <2>4 DEF PutKept, IInv, Progress, Kept, Restorable
    <3>4. PICK d \in Top(index') : TRUE
      BY <2>0, <3>2, <3>3
    <3> QED
      BY <3>1, <3>4, RestorableIs, RestorableWillBe
  <2>5. ~UNCHANGED <<files, index>>
    BY DEF Restorable
  <2>6. PutFile \/ PutIndex \/ PutKept \/ \E x \in Copies : DeleteObject(x)
    BY <2>5 DEF Next, Operator, DoBackup, Snapshot, SaveCluster, LazyLoad, BackupGC,
       ReadIndex, GetFile, Write, Tick, Crash
  <2> QED
    BY <2>1, <2>2, <2>3, <2>4, <2>6
<1> QED
  BY <1>1, InitIInv, NextIInv, PTL DEF Spec, OnlyBackupsChange

(***************************************************************************)
(* The recovering master that reads without the lock                       *)
(***************************************************************************)
\* One more copy pushes a copy down by one place at most.
LEMMA RankAdd ==
  ASSUME NEW S, S \subseteq Copies, NEW n \in Copies, NEW c \in Copies
  PROVE  Rank(c, S) \in Nat /\ Rank(c, S \cup {n}) \in Nat /\ Rank(c, S \cup {n}) <= Rank(c, S) + 1
<1> DEFINE A == {d \in S : Newer(d, c)}
           B == {d \in S \cup {n} : Newer(d, c)}
<1>1. A \subseteq Copies /\ B \subseteq A \cup {n} /\ A \cup {n} \subseteq Copies
  OBVIOUS
<1>2. IsFiniteSet(A) /\ Cardinality(A) \in Nat /\ Cardinality(B) \in Nat
      /\ IsFiniteSet(A \cup {n}) /\ Cardinality(A \cup {n}) \in Nat
  BY <1>1, CopiesFinite
<1>3. Cardinality(A \cup {n}) <= Cardinality(A) + 1
  BY <1>2, FS_AddElement
<1>4. Cardinality(B) <= Cardinality(A \cup {n})
  BY <1>1, <1>2, FS_Subset
<1> QED
  BY <1>2, <1>3, <1>4 DEF Rank

\* The copy that the recovering master has chosen is still listed, preceded
\* by no more copies than backups were completed since.
ReaderInv ==
  (alone /\ reader = "got" /\ behind < KeepCopies) =>
    <<rid, 1>> \in index /\ Rank(<<rid, 1>>, index) <= behind

LEMMA NextReaderInv == IInv /\ ReaderInv /\ [Next]_vars => ReaderInv'
<1> SUFFICES ASSUME IInv, ReaderInv, [Next]_vars, (alone /\ reader = "got" /\ behind < KeepCopies)'
             PROVE  <<rid', 1>> \in index' /\ Rank(<<rid', 1>>, index') <= behind'
  BY DEF ReaderInv
<1> DEFINE c == <<rid, 1>>
<1>0. index \subseteq Copies /\ rid \in Minutes /\ behind \in Nat /\ c \in Copies /\ KeepCopies \in Nat
  BY SnapshotAssumption DEF IInv, TypeOK, Copies
<1>1. CASE UNCHANGED <<index, reader, rid, behind, alone>>
  BY <1>1 DEF ReaderInv
<1>2. CASE ReadIndex /\ ~(UNCHANGED readerVars)
  <2>1. index # {} /\ rid' = LatestBackup(index) /\ behind' = 0 /\ index' = index /\ alone
    BY <1>2 DEF ReadIndex
  <2>2. PICK t \in Top(index) : TRUE
    BY <2>1 DEF IInv, Stored
  <2>3. t \in index /\ t \in Copies /\ t[2] = 1 /\ rid' = t[1]
    BY <1>0, <2>1, <2>2, LatestIsTop DEF Top, IInv, Stored
  <2>4. t = <<rid', 1>>
    BY <2>3 DEF Copies
  <2>5. {d \in index : Newer(d, t)} = {}
    <3> SUFFICES ASSUME NEW d \in index PROVE ~Newer(d, t)
      OBVIOUS
    <3>1. d[1] <= t[1] /\ d[1] \in Int /\ t[1] \in Int /\ d[2] = 1
      BY <1>0, <2>1, <2>2, <2>3, CopyMinute DEF Top, IInv, Stored
    <3> QED
      BY <2>3, <3>1 DEF Newer
  <2>6. Rank(t, index) = 0
    BY <2>5, FS_EmptySet DEF Rank
  <2> QED
    BY <2>1, <2>3, <2>4, <2>6
<1>3. CASE PutIndex /\ ~(UNCHANGED <<index, behind, alone>>)
  <2> DEFINE n == <<id, Cardinality(SameMinute(mem, id)) + 1>>
  <2>1. n \in Copies /\ mem = index
    BY <1>3, NewCopy DEF PutIndex, IInv, Progress
  <2>2. /\ index' = index \cup {n} /\ reader' = reader /\ rid' = rid
        /\ alone' = (alone /\ SameMinute(mem, id) = {})
        /\ behind' = IF reader = "got" /\ behind < KeepCopies THEN behind + 1 ELSE behind
    BY <1>3, <2>1, Zenon DEF PutIndex
  <2>3. alone
    BY <2>2, Zenon
  <2>4. behind < KeepCopies /\ behind' = behind + 1
    BY <1>0, <2>2
  <2>5. c \in index /\ Rank(c, index) <= behind
    BY <2>2, <2>3, <2>4 DEF ReaderInv
  <2>6. Rank(c, index) \in Nat /\ Rank(c, index') \in Nat /\ Rank(c, index') <= Rank(c, index) + 1
    BY <1>0, <2>1, <2>2, RankAdd
  <2> QED
    BY <1>0, <2>2, <2>4, <2>5, <2>6
<1>4. CASE PutKept /\ index' # index
  <2>1. index' = Kept(index) /\ UNCHANGED <<reader, rid, behind, alone>>
    BY <1>4, Zenon DEF PutKept, IInv, Progress, readerVars
  <2>2. c \in index /\ Rank(c, index) <= behind
    BY <2>1 DEF ReaderInv
  <2>3. Kept(index) \subseteq index
    BY DEF Kept
  <2>4. /\ Rank(c, index) \in Nat /\ Rank(c, Kept(index)) \in Nat
        /\ Rank(c, Kept(index)) <= Rank(c, index)
    BY <1>0, <2>3, RankMonotone
  <2>5. Rank(c, index) < KeepCopies
    BY <1>0, <2>1, <2>2, <2>4
  <2> QED
    BY <1>0, <2>1, <2>2, <2>4, <2>5 DEF Kept
<1>5. CASE PutIndex \/ PutKept \/ ReadIndex
  BY <1>1, <1>2, <1>3, <1>4, <1>5, Zenon DEF PutIndex, PutKept, ReadIndex, readerVars
<1>6. CASE GetFile
  BY <1>6 DEF GetFile
<1>7. CASE DoBackup \/ Snapshot \/ SaveCluster \/ LazyLoad \/ PutFile \/ BackupGC
  BY <1>1, <1>7, Zenon DEF DoBackup, Snapshot, SaveCluster, LazyLoad, PutFile, BackupGC, readerVars
<1>8. CASE Write \/ Tick \/ Crash \/ \E d \in Copies : DeleteObject(d)
  BY <1>1, <1>8, Zenon DEF DeleteObject, Write, Tick, Crash, readerVars
<1>9. CASE UNCHANGED vars
  BY <1>1, <1>9, Zenon DEF vars, readerVars
<1> QED
  BY <1>5, <1>6, <1>7, <1>8, <1>9 DEF Next, Operator

\* A recovering master that has read index.json without the lock finds the
\* file of the copy it chose until KeepCopies newer backups are completed,
\* whatever clean-ups, failures, restarts and clock steps go on meanwhile
\* (no two backups sharing a minute): the clean-up deletes by rank, and a
\* backup pushes a copy down by one place only.
THEOREM ReaderAlwaysFindsFile == Spec => []ReaderFindsFile
<1>1. Init => ReaderInv
  BY DEF Init, ReaderInv
<1>2. IInv /\ ReaderInv => ReaderFindsFile
  <2> SUFFICES ASSUME IInv, ReaderInv, alone, reader = "got", behind < KeepCopies PROVE files[rid] # 0
    BY DEF ReaderFindsFile
  <2> DEFINE c == <<rid, 1>>
  <2>1. c \in index /\ Rank(c, index) <= behind /\ c[1] = rid
    BY DEF ReaderInv
  <2>2. Rank(c, index) \in Nat /\ behind \in Nat
    BY <2>1, RankMonotone, SnapshotAssumption DEF IInv, TypeOK
  <2>3. c \in Kept(index)
    BY <2>1, <2>2, SnapshotAssumption DEF Kept
  <2> QED
    BY <2>1, <2>3 DEF IInv, Stored, KeptHaveFiles
<1> QED
  BY <1>1, <1>2, InitIInv, NextIInv, NextReaderInv, PTL DEF Spec
=============================================================================
