------------------------------ MODULE MCSystem ------------------------------
(* Values for the constants of System.                                      *)
EXTENDS System, TLC

\* one instance with two threads
Single == "t1" :> "svc" @@ "t2" :> "svc"
\* the oldest message is too large for Gmail, the next one is accepted
LargeFirst == 1 :> {413} @@ 2 :> {200}
\* every operation takes one unit of time
Brisk == [o \in {"connect", "list", "call", "idle"} |-> {1}]
=============================================================================
