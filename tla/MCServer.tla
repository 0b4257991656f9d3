------------------------------ MODULE MCServer ------------------------------
(* Values for the constants of Server.                                      *)
EXTENDS Server, ForwarderDelivers, TLC

CONSTANTS old, new1, new2    \* threads

\* the classes of answers that change what happens to the message itself
AnyFate == [u \in Uid |-> {200, 400, 413}]

\* the old revision still serves one request, the new one has two threads,
\* which nothing tells apart
Rollout == old :> "old" @@ new1 :> "new" @@ new2 :> "new"
NewThreads == Permutations({new1, new2})
=============================================================================
