------------------------------ MODULE EtcdJoin ------------------------------
(***************************************************************************)
(* Masters that join a running etcd at the same time: the etcd action of   *)
(* each one's "wdrip init" (action.Execute with boot type operator),       *)
(* BackOffJoinMember and Etcd.Join of pkg/actions/etcd/etcd.go.  Every     *)
(* etcdctl call is a step; it may fail, and a change may be applied        *)
(* although its reply is lost.  TryEachPeer repeats a call on every peer:  *)
(* the attempts before the last that change nothing are stuttering steps.  *)
(***************************************************************************)
EXTENDS Integers, FiniteSets

CONSTANTS Seeds,      \* the peers handed to a joiner, some of them the running etcd
          Joiners,
          MaxTries,   \* calls of Join that fit into the five minutes of the poll
          MaxFaults, MaxStops     \* bounds: failing calls, members that stop

ASSUME JoinAssumption ==
  /\ Seeds # {} /\ Seeds \cap Joiners = {} /\ IsFiniteSet(Seeds \cup Joiners)
  /\ MaxTries \in Nat \ {0} /\ MaxFaults \in Nat /\ MaxStops \in Nat

VARIABLES
  member, up,     \* etcd: membership and serving members
  published,      \* members that have served and so published their client URLs
  pc, tries,      \* per joiner: step, calls of Join begun
  omems,          \* per joiner: the members listed when Join began
  conf,           \* per joiner: the members written to the unit file
  faults, stops

joinVars == <<pc, tries, omems, conf>>
vars == <<member, up, published, joinVars, faults, stops>>

Hosts == Seeds \cup Joiners

Membership == INSTANCE EtcdMembership WITH Ids <- Hosts

Steps == {"list", "wait", "me", "add", "relist", "remove", "flush", "start",
          "waitme", "done", "failed", "gaveup", "panic"}

Init ==
  /\ member \in SUBSET Seeds \ {{}} /\ up = member /\ published = member
  /\ pc = [j \in Joiners |-> "list"] /\ tries = [j \in Joiners |-> 1]
  /\ omems = [j \in Joiners |-> {}] /\ conf = [j \in Joiners |-> {}]
  /\ faults = 0 /\ stops = 0

\* Some peer answers a listing.
Answers == Seeds \cap up # {}

Goto(j, step) == pc' = [pc EXCEPT ![j] = step] /\ UNCHANGED tries

\* Join returned an error: BackOffJoinMember polls again until it times out.
Again(j) ==
  IF tries[j] < MaxTries
    THEN pc' = [pc EXCEPT ![j] = "list"] /\ tries' = [tries EXCEPT ![j] = @ + 1]
    ELSE Goto(j, "gaveup")

Fault == faults < MaxFaults /\ faults' = faults + 1

\* A call fails: the state explains it, or it is an injected fault.
CallFails(explained) == Fault \/ (explained /\ UNCHANGED faults)

(***************************************************************************)
(* Etcd.Join                                                               *)
(***************************************************************************)
\* MemberList; memAdvertise then takes the first client URL of each member,
\* which a member that never served does not have.
ListMembers(j) ==
  /\ pc[j] = "list"
  /\ \/ /\ Answers /\ omems' = [omems EXCEPT ![j] = member]
        /\ Goto(j, IF member \subseteq published THEN "wait" ELSE "panic")
        /\ UNCHANGED faults
     \/ CallFails(~Answers) /\ Again(j) /\ UNCHANGED omems
  /\ UNCHANGED <<member, up, published, conf, stops>>

\* WaitEndpoints: three healthy answers of all listed members, or a timeout.
WaitEndpoints(j) ==
  LET healthy == omems[j] \subseteq up /\ Membership!Quorate IN
  /\ pc[j] = "wait"
  /\ \/ healthy /\ Goto(j, "me") /\ UNCHANGED faults
     \/ CallFails(~healthy) /\ Again(j)
  /\ UNCHANGED <<member, up, published, omems, conf, stops>>

\* JoinMe lists the members again and skips the add if it is one already.
FindMe(j) ==
  /\ pc[j] = "me"
  /\ \/ /\ Answers /\ Goto(j, IF j \in member THEN "relist" ELSE "add")
        /\ UNCHANGED faults
     \/ CallFails(~Answers) /\ Again(j)
  /\ UNCHANGED <<member, up, published, omems, conf, stops>>

\* member add: done; done but the reply lost; or refused.
AddMe(j) ==
  /\ pc[j] = "add"
  /\ \/ /\ Membership!AddMember(j)
        /\ \/ Goto(j, "relist") /\ UNCHANGED faults
           \/ Fault /\ (Goto(j, "me") \/ Again(j))
     \/ /\ CallFails(~Membership!CanAdd(j)) /\ UNCHANGED <<member, up>>
        /\ Goto(j, "me") \/ Again(j)
  /\ UNCHANGED <<published, omems, conf, stops>>

\* Mutants of Relist: one concurrent member is tolerated; the joiner's own
\* addition is taken for a concurrent one.
RelistTolerant(j) ==
  /\ pc[j] = "relist" /\ Answers /\ UNCHANGED faults
  /\ Goto(j, IF Cardinality(omems[j]) + 2 < Cardinality(member) THEN "remove" ELSE "flush")
  /\ UNCHANGED <<member, up, published, omems, conf, stops>>

RelistAnxious(j) ==
  /\ pc[j] = "relist" /\ Answers /\ UNCHANGED faults
  /\ Goto(j, IF Cardinality(omems[j]) < Cardinality(member) THEN "remove" ELSE "flush")
  /\ UNCHANGED <<member, up, published, omems, conf, stops>>

\* More than one member came since the first listing: back off.
Relist(j) ==
  /\ pc[j] = "relist"
  /\ \/ /\ Answers /\ UNCHANGED faults
        /\ Goto(j, IF Cardinality(omems[j]) + 1 < Cardinality(member) THEN "remove" ELSE "flush")
     \/ CallFails(~Answers) /\ Again(j)
  /\ UNCHANGED <<member, up, published, omems, conf, stops>>

\* Mutant of RemoveMe: the member found is any of the listed ones.
RemoveAny(j) ==
  /\ pc[j] = "remove" /\ Again(j) /\ UNCHANGED faults
  /\ \E x \in member : Membership!RemoveMember(x)
  /\ UNCHANGED <<published, omems, conf, stops>>

\* FindMemberByIP and RemoveMember.
RemoveMe(j) ==
  /\ pc[j] = "remove" /\ Again(j)
  /\ \/ Membership!RemoveMember(j) /\ UNCHANGED faults
     \/ CallFails(~Membership!CanRemove(j)) /\ UNCHANGED <<member, up>>
  /\ UNCHANGED <<published, omems, conf, stops>>

(***************************************************************************)
(* The rest of action.Execute                                              *)
(***************************************************************************)
\* Mutant of Flush: the members of the first listing are written.
FlushListed(j) ==
  /\ pc[j] = "flush" /\ conf' = [conf EXCEPT ![j] = omems[j]]
  /\ Goto(j, "start") /\ UNCHANGED <<member, up, published, omems, faults, stops>>

\* FlushEtcdContent lists the members once more into the unit file.
Flush(j) ==
  /\ pc[j] = "flush"
  /\ \/ /\ Answers /\ conf' = [conf EXCEPT ![j] = member]
        /\ Goto(j, "start") /\ UNCHANGED faults
     \/ CallFails(~Answers) /\ Goto(j, "failed") /\ UNCHANGED conf
  /\ UNCHANGED <<member, up, published, omems, stops>>

\* systemctl restart returns at once; WaitEndpoints on the own address may
\* time out if etcd cannot start.
StartUnit(j) ==
  /\ pc[j] = "start"
  /\ (Goto(j, "waitme") /\ UNCHANGED faults) \/ (Fault /\ Goto(j, "failed"))
  /\ UNCHANGED <<member, up, published, omems, conf, stops>>

WaitMe(j) ==
  /\ pc[j] = "waitme"
  /\ \/ j \in up /\ Membership!Quorate /\ Goto(j, "done") /\ UNCHANGED faults
     \/ CallFails(j \notin published /\ conf[j] # member) /\ Goto(j, "failed")
  /\ UNCHANGED <<member, up, published, omems, conf, stops>>

\* etcd starts, again and again under systemd: a new member compares its
\* unit file with the membership, an old one has its data.
Serve(x) ==
  /\ \/ x \in published
     \/ x \in Joiners /\ pc[x] \in {"waitme", "failed"} /\ conf[x] = member
  /\ Membership!StartMember(x)
  /\ published' = published \cup {x}
  /\ UNCHANGED <<joinVars, faults, stops>>

Stop(x) ==
  /\ x \in up /\ stops < MaxStops /\ stops' = stops + 1
  /\ Membership!StopMembers({x})
  /\ UNCHANGED <<published, joinVars, faults>>

Join(j) ==
  \/ ListMembers(j) \/ WaitEndpoints(j) \/ FindMe(j) \/ AddMe(j) \/ Relist(j) \/ RemoveMe(j)
  \/ Flush(j) \/ StartUnit(j) \/ WaitMe(j)

Ended == \A j \in Joiners : pc[j] \in {"done", "failed", "gaveup", "panic"}

\* Every init has ended.
Finished == Ended /\ UNCHANGED vars

Next == \/ \E j \in Joiners : Join(j)
        \/ \E x \in Hosts : Serve(x) \/ Stop(x)
        \/ Finished

Spec == Init /\ [][Next]_vars

\* Each host runs its init, and systemd restarts etcd.
FairSpec ==
  /\ Spec
  /\ \A j \in Joiners : WF_vars(Join(j))
  /\ \A x \in Hosts : WF_vars(Serve(x))

(***************************************************************************)
(* Properties                                                              *)
(***************************************************************************)
TypeOK ==
  /\ member \subseteq Hosts /\ up \subseteq member
  /\ published \subseteq Hosts
  /\ pc \in [Joiners -> Steps] /\ tries \in [Joiners -> 1..MaxTries]
  /\ omems \in [Joiners -> SUBSET Hosts]
  /\ conf \in [Joiners -> SUBSET Hosts]
  /\ faults \in 0..MaxFaults /\ stops \in 0..MaxStops

\* The unit file a joiner starts etcd with lists exactly the membership; a
\* different one makes etcd exit for ever.  No other join, back-off or lost
\* reply may come between FlushEtcdContent and the start.
StartsAligned ==
  \A j \in Joiners :
    (pc[j] \in {"start", "waitme"} /\ j \notin published) => conf[j] = member

\* A joiner takes its join for finished only if nobody but itself came since
\* its first listing, although it compares counts only.
JoinsAlone ==
  [][\A j \in Joiners : (pc[j] = "relist" /\ pc'[j] = "flush") =>
        (member = omems[j] \cup {j} /\ j \notin omems[j])]_vars

\* Joins, back-offs and lost replies together change the membership one member
\* at a time: the next one is added only when the last one serves or is gone,
\* and no member that has served is removed.
OneByOne == INSTANCE JoinOneByOne
              WITH Ids <- Hosts, started <- member \cap published, pending <- member \ published
GrowsOneByOne == OneByOne!Spec

\* The second member of a one-member etcd takes the quorum away until it serves:
\* unless a call fails or a member stops, the quorum always comes back.
QuorumReturns ==
  [](faults = 0 /\ stops = 0) => []<>Membership!Quorate

\* Concurrent joiners do not back off from each other for ever: unless a
\* call fails or a member stops one of them gets in.
SomeoneJoins ==
  [](faults = 0 /\ stops = 0) => <>(\E j \in Joiners : pc[j] = "done")

(***************************************************************************)
(* What the comment of BackOffJoinMember says and the code does not do.    *)
(***************************************************************************)
\* "1. list all members and wait for them all ready"
ListWaitsForAll == \A j \in Joiners : pc[j] # "panic"
=============================================================================
