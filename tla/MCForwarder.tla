---------------------------- MODULE MCForwarder ----------------------------
(* Values for the constants of Forwarder that a .cfg cannot spell.          *)
EXTENDS ForwarderDelivers, TLC

\* every class of answer: accepted, rejected, too large, bad credentials, try later
AnyVerdict == [u \in Uid |-> {200, 400, 413, 401, 503}]
\* the classes that change what happens to the message itself
AnyFate    == [u \in Uid |-> {200, 400, 413}]

\* a head that can never be delivered now, a good message, one that cannot be
\* fetched (see the .cfg), and one that is too large behind it
SlowHead   == 1 :> {503} @@ 2 :> {200} @@ 3 :> {200} @@ 4 :> {413}
\* as many rejected messages as the breaker's threshold, a good one behind them
BadHead    == 1 :> {400} @@ 2 :> {400} @@ 3 :> {400} @@ 4 :> {200}
=============================================================================
