--------------------------- MODULE EtcdJoinProofs ---------------------------
(***************************************************************************)
(* For any number of members and joiners, failing calls, lost replies and  *)
(* stopping members: joins end with the membership they were configured    *)
(* for, and they implement JoinOneByOne: the membership changes by one     *)
(* member at a time and none that has served leaves.                       *)
(***************************************************************************)
EXTENDS EtcdJoin, FiniteSetTheorems, TLAPS

\* Before its etcd serves for the first time.
Early == {"list", "wait", "me", "add", "relist", "remove", "flush", "start"}

\* Join has listed members and not returned an error since.
Listed == {"wait", "me", "add", "relist", "remove", "flush", "start"}

\* It is a member, and stays one until it removes itself.
Added == {"relist", "remove", "flush", "start", "waitme"}

\* At most one member has not served yet, and it keeps etcd from admitting
\* another one: this is what makes the unit file of a joiner stay right.
JoinerInv(j) ==
  /\ pc[j] \in Early => j \notin published
  /\ pc[j] \in Listed => omems[j] \subseteq published
  /\ pc[j] \in Added => j \in member
  /\ (pc[j] \in {"start", "waitme"} /\ j \notin published) => conf[j] = member

IInv ==
  /\ TypeOK
  /\ up \subseteq published /\ published \subseteq member
  /\ \A x, y \in member \ published : x = y
  /\ \A j \in Joiners : JoinerInv(j)

LEMMA InitIInv == Init => IInv
  BY JoinAssumption DEF Init, IInv, TypeOK, JoinerInv, Hosts, Steps, Early, Listed, Added

\* A joiner moves on while etcd does not change: only what is said of its
\* new step is to be shown.
LEMMA QuietStep ==
  ASSUME IInv, TypeOK', NEW j \in Joiners,
         UNCHANGED <<member, up, published>>,
         \A k \in Joiners \ {j} : /\ pc'[k] = pc[k] /\ omems'[k] = omems[k]
                                  /\ conf'[k] = conf[k],
         JoinerInv(j)'
  PROVE  IInv'
<1>1. \A k \in Joiners \ {j} : JoinerInv(k)'
  BY DEF IInv, JoinerInv
<1> QED
  BY <1>1 DEF IInv

\* What Goto and Again do to the joiners' steps.
LEMMA GotoMoves ==
  ASSUME TypeOK, NEW j \in Joiners, NEW s \in Steps, Goto(j, s)
  PROVE  /\ pc' \in [Joiners -> Steps] /\ tries' \in [Joiners -> 1..MaxTries]
         /\ pc'[j] = s /\ \A k \in Joiners \ {j} : pc'[k] = pc[k]
  BY DEF Goto, TypeOK

LEMMA AgainMoves ==
  ASSUME TypeOK, NEW j \in Joiners, Again(j)
  PROVE  /\ pc' \in [Joiners -> Steps] /\ tries' \in [Joiners -> 1..MaxTries]
         /\ pc'[j] \in {"list", "gaveup"}
         /\ \A k \in Joiners \ {j} : pc'[k] = pc[k]
<1>1. "list" \in Steps /\ "gaveup" \in Steps
  BY DEF Steps
<1>2. CASE tries[j] < MaxTries
  BY <1>1, <1>2, JoinAssumption DEF Again, TypeOK
<1>3. CASE ~(tries[j] < MaxTries)
  BY <1>1, <1>3, GotoMoves DEF Again
<1> QED
  BY <1>2, <1>3

LEMMA FaultsType ==
  ASSUME TypeOK, NEW e, CallFails(e) \/ Fault \/ UNCHANGED faults
  PROVE  faults' \in 0..MaxFaults
  BY JoinAssumption DEF CallFails, Fault, TypeOK

\* A call of Join failed: nothing is claimed of a joiner that starts over or
\* gave up but that it has not served.
LEMMA AgainStep ==
  ASSUME IInv, NEW j \in Joiners, pc[j] \in Early, Again(j), faults' \in 0..MaxFaults,
         UNCHANGED <<member, up, published, omems, conf, stops>>
  PROVE  IInv'
<1>1. /\ pc' \in [Joiners -> Steps] /\ tries' \in [Joiners -> 1..MaxTries]
      /\ pc'[j] \in {"list", "gaveup"} /\ \A k \in Joiners \ {j} : pc'[k] = pc[k]
  BY AgainMoves DEF IInv
<1>2. TypeOK'
  BY <1>1 DEF IInv, TypeOK
<1>3. JoinerInv(j)'
  BY <1>1 DEF IInv, JoinerInv, Early, Listed, Added
<1> QED
  BY <1>1, <1>2, <1>3, QuietStep

\* A joiner moves on to a step that says no more of etcd than the old one.
LEMMA GotoStep ==
  ASSUME IInv, NEW j \in Joiners, NEW s \in Steps, Goto(j, s), faults' \in 0..MaxFaults,
         UNCHANGED <<member, up, published, omems, conf, stops>>,
         s \in Early => pc[j] \in Early, s \in Listed => pc[j] \in Listed,
         s \in Added => j \in member,
         s = "start" => FALSE, s = "waitme" => pc[j] = "start"
  PROVE  IInv'
<1>1. /\ pc' \in [Joiners -> Steps] /\ tries' \in [Joiners -> 1..MaxTries]
      /\ pc'[j] = s /\ \A k \in Joiners \ {j} : pc'[k] = pc[k]
  BY GotoMoves DEF IInv
<1>2. TypeOK'
  BY <1>1 DEF IInv, TypeOK
<1>3. JoinerInv(j)'
  BY <1>1 DEF IInv, JoinerInv
<1> QED
  BY <1>1, <1>2, <1>3, QuietStep

LEMMA ListIInv ==
  ASSUME IInv, NEW j \in Joiners, ListMembers(j) PROVE IInv'
<1>0. faults' \in 0..MaxFaults
  BY FaultsType DEF ListMembers, IInv
<1>1. CASE /\ omems' = [omems EXCEPT ![j] = member]
           /\ Goto(j, IF member \subseteq published THEN "wait" ELSE "panic")
  <2> DEFINE s == IF member \subseteq published THEN "wait" ELSE "panic"
  <2>1. s \in Steps
    BY DEF Steps
  <2>2. /\ pc' \in [Joiners -> Steps] /\ tries' \in [Joiners -> 1..MaxTries]
        /\ pc'[j] = s /\ \A k \in Joiners \ {j} : pc'[k] = pc[k]
    BY <1>1, <2>1, GotoMoves DEF IInv
  <2>3. omems' \in [Joiners -> SUBSET Hosts] /\ omems'[j] = member
        /\ \A k \in Joiners \ {j} : omems'[k] = omems[k]
    BY <1>1 DEF IInv, TypeOK
  <2>4. TypeOK'
    BY <1>0, <2>2, <2>3 DEF IInv, TypeOK, ListMembers
  <2>5. JoinerInv(j)'
    BY <2>2, <2>3 DEF IInv, JoinerInv, ListMembers, Early, Listed, Added
  <2> QED
    BY <2>2, <2>3, <2>4, <2>5, QuietStep DEF ListMembers
<1>2. CASE Again(j) /\ UNCHANGED omems
  BY <1>0, <1>2, AgainStep DEF ListMembers, Early
<1> QED
  BY <1>1, <1>2 DEF ListMembers

LEMMA AddIInv ==
  ASSUME IInv, NEW j \in Joiners, AddMe(j) PROVE IInv'
<1>0. faults' \in 0..MaxFaults
  BY FaultsType DEF AddMe, IInv
<1>1. CASE Membership!AddMember(j) /\ (Goto(j, "relist") \/ Goto(j, "me") \/ Again(j))
  <2>1. /\ member' = member \cup {j} /\ up' = up /\ j \notin member
        /\ member \subseteq published
    BY <1>1 DEF Membership!AddMember, Membership!CanAdd, IInv
  <2>2. /\ pc' \in [Joiners -> Steps] /\ tries' \in [Joiners -> 1..MaxTries]
        /\ pc'[j] \in {"relist", "me", "list", "gaveup"}
        /\ \A k \in Joiners \ {j} : pc'[k] = pc[k]
    <3>1. "relist" \in Steps /\ "me" \in Steps
      BY DEF Steps
    <3> QED
      BY <1>1, <3>1, GotoMoves, AgainMoves DEF IInv
  <2>3. TypeOK'
    BY <1>0, <2>1, <2>2 DEF IInv, TypeOK, AddMe, Hosts
  <2>4. JoinerInv(j)'
    BY <2>1, <2>2 DEF IInv, JoinerInv, AddMe, Early, Listed, Added
  <2>5. ASSUME NEW k \in Joiners \ {j} PROVE JoinerInv(k)'
    BY <2>1, <2>2 DEF IInv, JoinerInv, AddMe, Added
  <2> QED
    BY <2>1, <2>3, <2>4, <2>5 DEF IInv, AddMe
<1>2. CASE UNCHANGED <<member, up>> /\ (Goto(j, "me") \/ Again(j))
  <2>1. CASE Goto(j, "me")
    BY <1>0, <1>2, <2>1, GotoStep DEF AddMe, Steps, Early, Listed, Added
  <2>2. CASE Again(j)
    BY <1>0, <1>2, <2>2, AgainStep DEF AddMe, Early
  <2> QED
    BY <1>2, <2>1, <2>2
<1> QED
  BY <1>1, <1>2 DEF AddMe

LEMMA RemoveIInv ==
  ASSUME IInv, NEW j \in Joiners, RemoveMe(j) PROVE IInv'
<1>0. faults' \in 0..MaxFaults
  BY FaultsType DEF RemoveMe, IInv
<1>1. CASE Membership!RemoveMember(j)
  <2>1. /\ member' = member \ {j} /\ up' = up \ {j} /\ j \in member /\ j \notin published
    BY <1>1 DEF Membership!RemoveMember, Membership!CanRemove, IInv, JoinerInv, RemoveMe, Early
  <2>2. /\ pc' \in [Joiners -> Steps] /\ tries' \in [Joiners -> 1..MaxTries]
        /\ pc'[j] \in {"list", "gaveup"} /\ \A k \in Joiners \ {j} : pc'[k] = pc[k]
    BY AgainMoves DEF IInv, RemoveMe
  <2>3. TypeOK'
    BY <1>0, <2>1, <2>2 DEF IInv, TypeOK, RemoveMe
  <2>4. JoinerInv(j)'
    BY <2>1, <2>2 DEF IInv, JoinerInv, RemoveMe, Early, Listed, Added
  <2>5. ASSUME NEW k \in Joiners \ {j} PROVE JoinerInv(k)'
    <3>1. pc[k] \in {"start", "waitme"} => k \in published
      BY <2>1 DEF IInv, JoinerInv, Added
    <3> QED
      BY <2>1, <2>2, <3>1 DEF IInv, JoinerInv, RemoveMe, Added
  <2> QED
    BY <2>1, <2>3, <2>4, <2>5 DEF IInv, RemoveMe
<1>2. CASE UNCHANGED <<member, up>>
  BY <1>0, <1>2, AgainStep DEF RemoveMe, Early
<1> QED
  BY <1>1, <1>2 DEF RemoveMe

LEMMA FlushIInv ==
  ASSUME IInv, NEW j \in Joiners, Flush(j) PROVE IInv'
<1>0. faults' \in 0..MaxFaults
  BY FaultsType DEF Flush, IInv
<1>1. CASE conf' = [conf EXCEPT ![j] = member] /\ Goto(j, "start")
  <2>1. "start" \in Steps
    BY DEF Steps
  <2>2. /\ pc' \in [Joiners -> Steps] /\ tries' \in [Joiners -> 1..MaxTries]
        /\ pc'[j] = "start" /\ \A k \in Joiners \ {j} : pc'[k] = pc[k]
    BY <1>1, <2>1, GotoMoves DEF IInv
  <2>3. conf' \in [Joiners -> SUBSET Hosts] /\ conf'[j] = member
        /\ \A k \in Joiners \ {j} : conf'[k] = conf[k]
    BY <1>1 DEF IInv, TypeOK
  <2>4. TypeOK'
    BY <1>0, <2>2, <2>3 DEF IInv, TypeOK, Flush
  <2>5. JoinerInv(j)'
    BY <2>2, <2>3 DEF IInv, JoinerInv, Flush, Early, Listed, Added
  <2> QED
    BY <2>2, <2>3, <2>4, <2>5, QuietStep DEF Flush
<1>2. CASE Goto(j, "failed") /\ UNCHANGED conf
  BY <1>0, <1>2, GotoStep DEF Flush, Steps, Early, Listed, Added
<1> QED
  BY <1>1, <1>2 DEF Flush

LEMMA QuietIInv ==
  ASSUME IInv, NEW j \in Joiners,
         WaitEndpoints(j) \/ FindMe(j) \/ Relist(j) \/ StartUnit(j) \/ WaitMe(j)
  PROVE  IInv'
<1>0. faults' \in 0..MaxFaults
  BY FaultsType DEF WaitEndpoints, FindMe, Relist, StartUnit, WaitMe, IInv
<1>1. CASE WaitEndpoints(j)
  <2>1. CASE Goto(j, "me")
    BY <1>0, <1>1, <2>1, GotoStep DEF WaitEndpoints, Steps, Early, Listed, Added
  <2>2. CASE Again(j)
    BY <1>0, <1>1, <2>2, AgainStep DEF WaitEndpoints, Early
  <2> QED
    BY <1>1, <2>1, <2>2 DEF WaitEndpoints
<1>2. CASE FindMe(j)
  <2>1. CASE Goto(j, "relist") /\ j \in member
    BY <1>0, <1>2, <2>1, GotoStep DEF FindMe, Steps, Early, Listed, Added
  <2>2. CASE Goto(j, "add")
    BY <1>0, <1>2, <2>2, GotoStep DEF FindMe, Steps, Early, Listed, Added
  <2>3. CASE Again(j)
    BY <1>0, <1>2, <2>3, AgainStep DEF FindMe, Early
  <2> QED
    BY <1>2, <2>1, <2>2, <2>3 DEF FindMe
<1>3. CASE Relist(j)
  <2>0. j \in member
    BY <1>3 DEF IInv, JoinerInv, Relist, Added
  <2>1. CASE Goto(j, "remove")
    BY <1>0, <1>3, <2>0, <2>1, GotoStep DEF Relist, Steps, Early, Listed, Added
  <2>2. CASE Goto(j, "flush")
    BY <1>0, <1>3, <2>0, <2>2, GotoStep DEF Relist, Steps, Early, Listed, Added
  <2>3. CASE Again(j)
    BY <1>0, <1>3, <2>3, AgainStep DEF Relist, Early
  <2> QED
    BY <1>3, <2>1, <2>2, <2>3 DEF Relist
<1>4. CASE StartUnit(j)
  <2>0. j \in member
    BY <1>4 DEF IInv, JoinerInv, StartUnit, Added
  <2>1. CASE Goto(j, "waitme")
    BY <1>0, <1>4, <2>0, <2>1, GotoStep DEF StartUnit, Steps, Early, Listed, Added
  <2>2. CASE Goto(j, "failed")
    BY <1>0, <1>4, <2>2, GotoStep DEF StartUnit, Steps, Early, Listed, Added
  <2> QED
    BY <1>4, <2>1, <2>2 DEF StartUnit
<1>5. CASE WaitMe(j)
  <2>1. CASE Goto(j, "done")
    BY <1>0, <1>5, <2>1, GotoStep DEF WaitMe, Steps, Early, Listed, Added
  <2>2. CASE Goto(j, "failed")
    BY <1>0, <1>5, <2>2, GotoStep DEF WaitMe, Steps, Early, Listed, Added
  <2> QED
    BY <1>5, <2>1, <2>2 DEF WaitMe
<1> QED
  BY <1>1, <1>2, <1>3, <1>4, <1>5

LEMMA ServeIInv ==
  ASSUME IInv, NEW x \in Hosts, Serve(x) PROVE IInv'
<1>1. /\ member' = member /\ up' = up \cup {x} /\ published' = published \cup {x}
      /\ x \in member /\ UNCHANGED <<pc, tries, omems, conf, faults, stops>>
  BY DEF Serve, Membership!StartMember, joinVars
<1>2. TypeOK'
  BY <1>1 DEF IInv, TypeOK
<1>3. ASSUME NEW j \in Joiners PROVE JoinerInv(j)'
  <2>1. pc[j] \in Early => x # j
    BY DEF IInv, JoinerInv, Serve, Early
  <2> QED
    BY <1>1, <2>1 DEF IInv, JoinerInv
<1> QED
  BY <1>1, <1>2, <1>3 DEF IInv

LEMMA StopIInv ==
  ASSUME IInv, NEW x \in Hosts, Stop(x) PROVE IInv'
<1>1. /\ member' = member /\ up' = up \ {x} /\ stops' \in 0..MaxStops
      /\ UNCHANGED <<published, pc, tries, omems, conf, faults>>
  BY JoinAssumption DEF Stop, Membership!StopMembers, joinVars, IInv, TypeOK
<1>2. TypeOK'
  BY <1>1 DEF IInv, TypeOK
<1> QED
  BY <1>1, <1>2 DEF IInv, JoinerInv

LEMMA NextIInv == IInv /\ [Next]_vars => IInv'
<1> SUFFICES ASSUME IInv, [Next]_vars PROVE IInv'
  OBVIOUS
<1>1. ASSUME NEW j \in Joiners, Join(j) PROVE IInv'
  BY <1>1, ListIInv, AddIInv, RemoveIInv, FlushIInv, QuietIInv DEF Join
<1>2. CASE UNCHANGED vars
  BY <1>2 DEF vars, joinVars, IInv, TypeOK, JoinerInv
<1> QED
  BY <1>1, <1>2, ServeIInv, StopIInv DEF Next, Finished

LEMMA Inductive == Spec => []IInv
  BY InitIInv, NextIInv, PTL DEF Spec

(***************************************************************************)
(* Theorems                                                                *)
(***************************************************************************)
\* Every variable keeps its type: no joiner polls beyond its timeout, and
\* only members serve.
THEOREM TypeCorrect == Spec => []TypeOK
<1>1. IInv => TypeOK
  BY DEF IInv
<1> QED
  BY <1>1, Inductive, PTL

\* The unit file FlushEtcdContent writes still lists the membership when
\* etcd starts with it, whatever the other joiners do in between.
THEOREM UnitFileAligned == Spec => []StartsAligned
<1>1. IInv => StartsAligned
  BY DEF IInv, JoinerInv, StartsAligned
<1> QED
  BY <1>1, Inductive, PTL

\* Comparing the numbers of members before and after is enough: the members
\* listed first all stay, so one more member is the joiner itself.
THEOREM CountsSuffice == Spec => JoinsAlone
<1>1. ASSUME IInv, [Next]_vars, NEW j \in Joiners, pc[j] = "relist", pc'[j] = "flush"
      PROVE  member = omems[j] \cup {j} /\ j \notin omems[j]
  <2>1. /\ omems[j] \subseteq published /\ published \subseteq member
        /\ j \in member /\ j \notin published
    BY <1>1 DEF IInv, JoinerInv, Early, Listed, Added
  <2>2. Relist(j)
    <3>1. pc \in [Joiners -> Steps] /\ j \in DOMAIN pc
      BY <1>1 DEF IInv, TypeOK
    <3>2. ASSUME NEW k \in Joiners, Join(k) PROVE k = j
      <4>1. SUFFICES ASSUME k # j PROVE pc'[j] = pc[j]
        BY <1>1
      <4> QED
        BY <3>1, <3>2, <4>1 DEF Join, ListMembers, WaitEndpoints, FindMe, AddMe, Relist,
           RemoveMe, Flush, StartUnit, WaitMe, Goto, Again
    <3>3. \E k \in Joiners : Join(k)
      BY <1>1, Zenon DEF Next, Serve, Stop, Finished, vars, joinVars
    <3>4. Join(j)
      BY <3>2, <3>3
    <3> QED
      BY <1>1, <3>4 DEF Join, ListMembers, WaitEndpoints, FindMe, AddMe, RemoveMe, Flush,
         StartUnit, WaitMe
  <2>3. ~(Cardinality(omems[j]) + 1 < Cardinality(member))
    <3>1. pc \in [Joiners -> Steps]
      BY <1>1 DEF IInv, TypeOK
    <3> QED
      BY <1>1, <2>2, <3>1 DEF Relist, Goto, Again
  <2>4. IsFiniteSet(member) /\ IsFiniteSet(omems[j])
    <3>1. IsFiniteSet(Hosts) /\ member \subseteq Hosts
      BY <1>1, JoinAssumption DEF IInv, TypeOK, Hosts
    <3> QED
      BY <2>1, <3>1, FS_Subset
  <2>5. /\ IsFiniteSet(omems[j] \cup {j})
        /\ Cardinality(omems[j] \cup {j}) = Cardinality(omems[j]) + 1
    BY <2>1, <2>4, FS_AddElement
  <2>6. Cardinality(member) \in Nat /\ Cardinality(omems[j]) \in Nat
    BY <2>4, FS_CardinalityType
  <2>7. Cardinality(omems[j] \cup {j}) <= Cardinality(member)
        /\ (Cardinality(member) = Cardinality(omems[j] \cup {j}) => member = omems[j] \cup {j})
    BY <2>1, <2>4, FS_Subset
  <2> QED
    BY <2>1, <2>3, <2>5, <2>6, <2>7
<1>2. IInv /\ [Next]_vars => [\A j \in Joiners : (pc[j] = "relist" /\ pc'[j] = "flush") =>
                                (member = omems[j] \cup {j} /\ j \notin omems[j])]_vars
  BY <1>1
<1> QED
  BY <1>2, Inductive, PTL DEF Spec, JoinsAlone

\* However the joins, back-offs and lost replies of any number of masters
\* interleave, they change the membership one member at a time: the next one is
\* added only when the last one has served or is withdrawn, and a back-off takes
\* nobody away that has served.
THEOREM JoinsOneByOne == Spec => GrowsOneByOne
<1> DEFINE st == member \cap published
           pd == member \ published
<1>1. Init => OneByOne!Init
  BY DEF Init, OneByOne!Init, Hosts
<1>2. IInv /\ IInv' /\ [Next]_vars => [OneByOne!Next]_<<st, pd>>
  <2> SUFFICES ASSUME IInv, IInv', Next, ~(st' = st /\ pd' = pd) PROVE OneByOne!Next
    BY DEF vars
  <2>0. up \subseteq published /\ published \subseteq member /\ member \subseteq Hosts
        /\ \A x, y \in pd : x = y
    BY DEF IInv, TypeOK
  <2>1. ASSUME NEW j \in Joiners, RemoveMe(j) PROVE OneByOne!Next
    <3>1. j \notin published /\ published' = published
      BY <2>1 DEF IInv, JoinerInv, RemoveMe, Early
    <3>2. j \in member /\ member' = member \ {j}
      BY <2>1, <3>1 DEF RemoveMe, Membership!RemoveMember, Membership!CanRemove
    <3>3. pd # {} /\ pd' = {} /\ st' = st
      BY <2>0, <3>1, <3>2
    <3> QED
      BY <3>3 DEF OneByOne!Next, OneByOne!Withdraw
  <2>2. ASSUME NEW j \in Joiners, AddMe(j) PROVE OneByOne!Next
    <3>1. published' = published /\ j \notin member /\ member \subseteq up /\ member' = member \cup {j}
      BY <2>2 DEF AddMe, Membership!AddMember, Membership!CanAdd
    <3>2. pd = {} /\ pd' = {j} /\ st' = st /\ j \in Hosts \ st
      BY <2>0, <3>1 DEF Hosts
    <3> QED
      BY <3>2 DEF OneByOne!Next, OneByOne!Propose
  <2>3. ASSUME NEW j \in Joiners, Join(j), ~RemoveMe(j), ~AddMe(j) PROVE FALSE
    BY <2>3 DEF Join, ListMembers, WaitEndpoints, FindMe, Relist, Flush, StartUnit, WaitMe
  <2>4. ASSUME NEW x \in Hosts, Serve(x) PROVE OneByOne!Next
    <3>1. x \in member /\ member' = member /\ published' = published \cup {x}
      BY <2>4 DEF Serve, Membership!StartMember
    <3>2. pd = {x} /\ pd' = {} /\ st' = st \cup {x}
      BY <2>0, <3>1
    <3> QED
      BY <3>2 DEF OneByOne!Next, OneByOne!Promote
  <2>5. ASSUME NEW x \in Hosts, Stop(x) PROVE FALSE
    BY <2>5 DEF Stop, Membership!StopMembers
  <2>6. ~Finished
    BY DEF Finished, vars
  <2> QED
    BY <2>1, <2>2, <2>3, <2>4, <2>5, <2>6 DEF Next
<1> QED
  BY <1>1, <1>2, Inductive, PTL DEF Spec, GrowsOneByOne, OneByOne!Spec
=============================================================================
