------------------------- MODULE ForwarderDelivers -------------------------
(***************************************************************************)
(* The forwarder implements Delivery.  A message is held as long as a copy *)
(* of it lies where its owner or the next run can find it although Gmail   *)
(* may not have it: in the INBOX or in the folder for failed mail.  One    *)
(* whose only copies lie in the Trash or in the folder for unverified mail *)
(* has been released.                                                      *)
(***************************************************************************)
EXTENDS Forwarder

StageOf(u) ==
    IF place[u] = {} THEN "expected"
    ELSE IF "Elsewhere" \in place[u] THEN "withdrawn"
    ELSE IF place[u] \intersect {"INBOX", "Failed"} # {} THEN "held"
    ELSE "released"

D == INSTANCE Delivery WITH
        stage <- [u \in Uid |-> StageOf(u)], delivered <- copies

(* Every behaviour of the forwarder is one the promise allows: whatever     *)
(* fails, is repeated, or overlaps, no message is let go before Gmail has   *)
(* it.                                                                      *)
ImplementsDelivery == D!Spec
=============================================================================
