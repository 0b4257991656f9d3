----------------------------- MODULE Heartbeat -----------------------------
(***************************************************************************)
(* mailtransporter/health.py, and the watcher as the VM's health check     *)
(* sees it.  Before each blocking operation the loop calls touch() with    *)
(* the longest time the operation may take; a probe of /healthz fails once *)
(* that time has passed.  An operation may also hang for ever, and the VM  *)
(* may stop; after UnhealthyAfter failed probes in a row it is replaced    *)
(* (deploy/01_infra.sh).  Probes come CheckInterval apart.                 *)
(***************************************************************************)
EXTENDS Watcher, FiniteSets

CONSTANTS
    ImapTimeout,      \* icloud.timeout
    IdleTimeout,      \* idle_timeout
    RequestTimeout,   \* request_timeout
    Margin,           \* HEARTBEAT_MARGIN
    CheckInterval,    \* --check-interval
    UnhealthyAfter    \* --unhealthy-threshold

ASSUME HeartbeatAssumption ==
    /\ {ImapTimeout, IdleTimeout, RequestTimeout, Margin} \subseteq Nat
    /\ {CheckInterval, UnhealthyAfter} \subseteq Nat \ {0}

VARIABLES
    life,     \* whether the loop goes on, hangs in its operation, or is gone with the VM
    ran,      \* for how long it has hung
    phase,    \* how long ago the last probe was
    bad       \* how many probes have failed in a row

health == <<life, ran, phase, bad>>
heartVars == <<watchVars, health>>

HeartbeatInit ==
    /\ WatchInit
    /\ life = "alive"
    /\ ran = 0
    /\ phase = 0
    /\ bad = 0

(* touch(): the deadline of the operation the loop is in, as seconds after  *)
(* its start.                                                               *)
BudgetForAnswer ==           \* mutant: the call of /sync gets the margin only
    CASE doing = "connect" -> 3 * ImapTimeout + Margin
      [] doing = "list"    -> ImapTimeout + Margin
      [] doing = "call"    -> Margin
      [] doing = "idle"    -> IdleTimeout + ImapTimeout + Margin
      [] OTHER             -> timer + Margin
Budget ==
    CASE doing = "connect" -> 3 * ImapTimeout + Margin
      [] doing = "list"    -> ImapTimeout + Margin
      [] doing = "call"    -> RequestTimeout + Margin
      [] doing = "idle"    -> IdleTimeout + ImapTimeout + Margin
      [] OTHER             -> timer + Margin

(* ok(): what a probe finds t seconds after the operation began.            *)
OkWhileUp(t) == life # "dead"    \* mutant: any process that answers is healthy
Ok(t) == life # "dead" /\ t <= Budget

(* The probes that fall into d seconds of an operation after the first t.   *)
Probes(t, d) == {k \in t + 1 .. t + d : (phase + k - t) % CheckInterval = 0}

(* A probe that passes makes the VM healthy again (--healthy-threshold 1);  *)
(* none passes after one that failed in the same operation.                 *)
Probed(t, d) ==
    LET failed == {k \in Probes(t, d) : ~Ok(k)}
    IN  /\ phase' = (phase + d) % CheckInterval
        /\ bad' = Least(UnhealthyAfter,
                        Cardinality(failed) + (IF Probes(t, d) \subseteq failed THEN bad ELSE 0))

(* The operation of the loop ends after d seconds.                          *)
Operation(d) ==
    \/ d \in Took["connect"] /\ ConnectSession(d)
    \/ d \in Took["list"] /\ ListInbox(d)
    \/ d \in Took["call"] /\ CallForwarder(d)
    \/ d \in Took["idle"] /\ IdleWait(d)
    \/ d = timer /\ WakeUp

Beat ==
    /\ life = "alive"
    /\ \E d \in UNION {Took[o] : o \in DOMAIN Took} \union {timer} :
          Operation(d) /\ Probed(0, d)
    /\ UNCHANGED <<life, ran>>

(* The operation never ends (a half-open connection no timeout applies to), *)
(* or the VM is preempted or stopped.                                       *)
Hang(how) ==
    /\ life = "alive"
    /\ how = "hung" => timer = 0
    /\ Fault
    /\ life' = how
    /\ UNCHANGED <<ran, phase, bad, inbox, doing, timer, backoff, quiet, loopVars>>

(* Time passes while nothing happens.                                       *)
LongestBudget == 3 * ImapTimeout + IdleTimeout + RequestTimeout + Margin
Tick ==
    /\ life # "alive"
    /\ bad < UnhealthyAfter
    /\ ran' = Least(ran + CheckInterval, LongestBudget)
    /\ Probed(ran, CheckInterval)
    /\ UNCHANGED <<life, watchVars>>

(* The instance group replaces the VM; it judges the new one only after an  *)
(* initial delay in which it has started (HEALTH_INITIAL_DELAY).            *)
Replace ==
    /\ bad >= UnhealthyAfter
    /\ Afresh
    /\ life' = "alive"
    /\ ran' = 0
    /\ phase' = 0
    /\ bad' = 0
    /\ UNCHANGED faults

HeartbeatNext ==
    \/ Beat
    \/ Tick
    \/ Replace
    \/ \E how \in {"hung", "dead"} : Hang(how)
    \/ (RestartWatcher \/ InboxChanges) /\ life = "alive" /\ UNCHANGED health

HeartbeatSpec == HeartbeatInit /\ [][HeartbeatNext]_heartVars

(* The loop goes on while it can, and time and the health check always do.  *)
FairHeartbeat == HeartbeatSpec /\ WF_heartVars(Beat \/ Tick \/ Replace)

---------------------------------------------------------------------------
(* A watcher that works, however slowly its operations end within their     *)
(* timeouts, is not replaced by the health check.  (A single probe may      *)
(* fail: a listing that uses up the timeout of each of its commands takes   *)
(* longer than its budget.)                                                 *)
WorkingIsNotReplaced == life = "alive" => bad < UnhealthyAfter

(* What that takes of the operations: one ends within its budget, or the    *)
(* budget spans a probe and it exceeds it by less than the probes it takes  *)
(* to replace the VM.                                                       *)
Tolerated ==
    \A o \in DOMAIN Took : \A d \in Took[o] :
       LET budget == CASE o = "connect" -> 3 * ImapTimeout + Margin
                       [] o = "list"    -> ImapTimeout + Margin
                       [] o = "call"    -> RequestTimeout + Margin
                       [] OTHER         -> IdleTimeout + ImapTimeout + Margin
       IN  \/ d <= budget
           \/ /\ CheckInterval <= budget
              /\ d <= budget + (UnhealthyAfter - 1) * CheckInterval

(* "A stuck process turns unhealthy shortly after the budget expires, while *)
(* a stopped VM simply refuses the connection" (health.py:7-8): in both     *)
(* cases the watcher works again in the end.                                *)
StuckIsReplaced == life # "alive" ~> life = "alive"

=============================================================================
