---------------------------- MODULE JoinOneByOne ----------------------------
(***************************************************************************)
(* What Etcd.Join and BackOffJoinMember promise: the membership grows by   *)
(* one member at a time.  A new one is proposed while all the others have  *)
(* served, it either serves or is withdrawn before the next one comes, and *)
(* a member that has served stays.                                         *)
(***************************************************************************)
CONSTANT Ids
VARIABLES started,    \* members that have served
          pending     \* the member that has not yet, if there is one

Init == started \in SUBSET Ids \ {{}} /\ pending = {}

Propose ==
  /\ pending = {} /\ UNCHANGED started
  /\ \E x \in Ids \ started : pending' = {x}

Withdraw == pending # {} /\ pending' = {} /\ UNCHANGED started

Promote == pending # {} /\ started' = started \cup pending /\ pending' = {}

Next == Propose \/ Withdraw \/ Promote

Spec == Init /\ [][Next]_<<started, pending>>
=============================================================================
