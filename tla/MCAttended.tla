----------------------------- MODULE MCAttended -----------------------------
(* Values for the constants of Attended.                                    *)
EXTENDS Attended, TLC

\* one instance
Single == [p \in Proc |-> "svc"]
\* the second message may also be rejected
SecondMayFail == 1 :> {200} @@ 2 :> {200, 400}
\* every operation takes one unit of time
Brisk == [o \in {"connect", "list", "call", "idle"} |-> {1}]
=============================================================================
