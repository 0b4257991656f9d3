------------------------------ MODULE Delivery -----------------------------
(***************************************************************************)
(* What the transporter promises its user, with nothing of how: a message  *)
(* that arrived is held until Gmail has it, may be delivered more than     *)
(* once, and is let go only when at least one copy is in Gmail.  Its owner *)
(* may withdraw it at any time.                                            *)
(***************************************************************************)
EXTENDS Messages

VARIABLES
    stage,     \* "expected", "held", "released" or "withdrawn"
    delivered  \* how many copies Gmail holds

Stage == {"expected", "held", "released", "withdrawn"}

(* Every variable has its type.                                             *)
TypeOK == stage \in [Uid -> Stage] /\ delivered \in [Uid -> Nat]

Init == stage = [u \in Uid |-> "expected"] /\ delivered = [u \in Uid |-> 0]

Accept(u) ==
    /\ stage[u] = "expected"
    /\ stage' = [stage EXCEPT ![u] = "held"]
    /\ UNCHANGED delivered

(* Delivery may be repeated, also of mail that is not held any more: a      *)
(* second process may have fetched it before.                               *)
Deliver(u) ==
    /\ stage[u] # "expected"
    /\ delivered'[u] > delivered[u]
    /\ delivered' = [delivered EXCEPT ![u] = delivered'[u]]
    /\ UNCHANGED stage

Release(u) ==
    /\ stage[u] = "held"
    /\ delivered[u] > 0
    /\ stage' = [stage EXCEPT ![u] = "released"]
    /\ UNCHANGED delivered

Withdraw(u) ==
    /\ stage[u] = "held"
    /\ stage' = [stage EXCEPT ![u] = "withdrawn"]
    /\ UNCHANGED delivered

Next == \E u \in Uid : Accept(u) \/ Deliver(u) \/ Release(u) \/ Withdraw(u)

vars == <<stage, delivered>>
Spec == Init /\ [][Next]_vars

(* Nothing is lost: what is neither held nor withdrawn any more is in Gmail *)
NothingLost ==
    \A u \in Uid : stage[u] = "released" => delivered[u] > 0

=============================================================================
