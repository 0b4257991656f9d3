---------------------------- MODULE MCHeartbeat ----------------------------
(* Values for the constants of Heartbeat.                                   *)
EXTENDS Heartbeat, TLC

\* thirty seconds, or as long as the timeouts of the operation allow: five round
\* trips of a connect, four of a listing, an answer after 900 s and the token
\* before it, and an IDLE with three round trips around it
Slow == "connect" :> {1, 10} @@ "list" :> {1, 8} @@ "call" :> {1, 33}
        @@ "idle" :> {1, 14}

\* the operations of the run are slow within what the health check tolerates
ASSUME SlowIsTolerated == Tolerated
=============================================================================
