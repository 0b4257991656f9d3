------------------------------ MODULE Watcher ------------------------------
(***************************************************************************)
(* mailtransporter/watcher.py: run_forever and WatchLoop.step.  One action *)
(* is one blocking operation (a connect, a listing, a call of /sync, an    *)
(* IDLE, a sleep) with the decision that follows it; d is how many seconds *)
(* it took.  Moments are kept relative to the present: hold is how far     *)
(* _not_before lies ahead, age how long ago _last_trigger_at was.          *)
(***************************************************************************)
EXTENDS Messages

CONSTANTS
    RetriggerInterval,   \* retrigger_interval
    SupportsIdle,        \* the server has the capability IDLE
    PollInterval,        \* poll_interval, the sleep without IDLE
    ShortDelay, BusyDelay, BaseBackoff, MaxBackoff,
    FirstReconnect, MaxReconnect,   \* the backoff of run_forever: 5.0 and 300.0
    FloatBits,           \* 2 ** FloatBits is the first power no float can hold
    Took,                \* Took[o]: how long operation o may take; none takes no time
    MaxFailures,         \* bound: failures are counted up to here
    MaxFaults            \* bound: lost sessions and restarts in a behaviour

ASSUME WatcherAssumption ==
    /\ {RetriggerInterval, PollInterval, ShortDelay, BusyDelay, BaseBackoff,
        MaxBackoff, FirstReconnect, MaxReconnect, FloatBits, MaxFailures,
        MaxFaults} \subseteq Nat
    /\ SupportsIdle \in BOOLEAN
    /\ Took \in [{"connect", "list", "call", "idle"} -> SUBSET (Nat \ {0})]
    /\ BaseBackoff <= MaxBackoff
    /\ MaxFailures > 0

VARIABLES
    inbox,      \* the uids list_inbox_uids would return
    doing,      \* the operation the loop is blocked in
    timer,      \* how long the sleep it is in will take
    seen,       \* the uids the current step has listed
    elapsed,    \* how long ago the current step read the clock
    notified,   \* _notified
    age,        \* now - _last_trigger_at; RetriggerInterval: that long, or None
    hold,       \* _not_before - now, or 0
    failures,   \* _failures
    backoff,    \* backoff of run_forever
    quiet,      \* history: seconds since the step whose call failed last
    faults      \* how many faults have happened

loopVars == <<seen, elapsed, notified, age, hold, failures>>
watchVars == <<inbox, doing, timer, backoff, quiet, faults, loopVars>>

Blocked == {"connect", "list", "call", "sleep", "idle", "poll", "reconnect"}

Least(a, b) == IF a <= b THEN a ELSE b
Minus(a, b) == IF a <= b THEN 0 ELSE a - b

WatchInit ==
    /\ inbox = {}
    /\ doing = "connect"
    /\ timer = 0
    /\ seen = {}
    /\ elapsed = 0
    /\ notified = {}
    /\ age = RetriggerInterval
    /\ hold = 0
    /\ failures = 0
    /\ backoff = FirstReconnect
    /\ quiet = MaxBackoff
    /\ faults = 0

Older(a, d) == Least(a + d, RetriggerInterval)

(* d seconds pass, and nothing is decided about the next trigger.           *)
Elapse(d) ==
    /\ age' = Older(age, d)
    /\ hold' = Minus(hold, d)
    /\ quiet' = Least(quiet + d, MaxBackoff)

(* A step is over: the loop sleeps, or blocks in IDLE (or the poll sleep).  *)
SleepFor(delay) == doing' = "sleep" /\ timer' = delay
WaitForMail ==
    \/ SupportsIdle /\ doing' = "idle" /\ timer' = 0
    \/ ~SupportsIdle /\ doing' = "poll" /\ timer' = PollInterval
ForgetNothing == UNCHANGED <<seen, elapsed>>        \* mutant: the listing outlives its step
Forget == seen' = {} /\ elapsed' = 0

(* The session is lost, or a step raised: sleep(backoff), then reconnect.   *)
LoseSession ==
    /\ doing' = "reconnect"
    /\ timer' = backoff
    /\ backoff' = Least(2 * backoff, MaxReconnect)
    /\ Forget

Fault == faults < MaxFaults /\ faults' = faults + 1

ConnectSession(d) ==
    /\ doing = "connect"
    /\ Elapse(d)
    /\ \/ /\ doing' = "list"
          /\ backoff' = FirstReconnect
          /\ UNCHANGED <<timer, seen, elapsed, faults>>
       \/ LoseSession /\ Fault
    /\ UNCHANGED <<inbox, notified, failures>>

(* step() up to the call of the forwarder.  It decides by the clock as it   *)
(* was before the listing.                                                  *)
StaleOnlyAtFirst == age >= RetriggerInterval /\ notified = {}   \* mutant: no re-trigger
Stale == age >= RetriggerInterval

ListInbox(d) ==
    /\ doing = "list"
    /\ Elapse(d)
    /\ \/ /\ notified' = notified \intersect inbox
          /\ \/ /\ inbox \subseteq notified
                /\ inbox = {} \/ ~Stale
                /\ WaitForMail
                /\ UNCHANGED <<seen, elapsed>>
             \/ /\ inbox # {}
                /\ ~ (inbox \subseteq notified) \/ Stale
                /\ \/ hold > 0 /\ SleepFor(hold) /\ UNCHANGED <<seen, elapsed>>
                   \/ /\ hold = 0
                      /\ doing' = "call"
                      /\ seen' = inbox
                      /\ elapsed' = d
                      /\ UNCHANGED timer
          /\ UNCHANGED <<backoff, faults>>
       \/ LoseSession /\ Fault /\ UNCHANGED notified
    /\ UNCHANGED <<inbox, failures>>

(* The rest of step(): /sync has answered after d seconds.                  *)
Triggered(d, remaining) ==
    /\ failures' = 0
    /\ notified' = seen
    /\ age' = IF remaining THEN RetriggerInterval ELSE Older(elapsed, d)
    /\ hold' = 0
    /\ quiet' = Least(quiet + d, MaxBackoff)
    /\ IF remaining THEN SleepFor(ShortDelay) ELSE WaitForMail
    /\ Forget
    /\ UNCHANGED backoff

ForwarderBusy(d) ==
    /\ hold' = Minus(BusyDelay, elapsed + d)
    /\ age' = Older(age, d)
    /\ quiet' = Least(quiet + d, MaxBackoff)
    /\ SleepFor(BusyDelay)
    /\ Forget
    /\ UNCHANGED <<failures, notified, backoff>>

(* min(BASE_BACKOFF * 2 ** (k - 1), MAX_BACKOFF) for k failures in a row;   *)
(* the power is not even computed once it exceeds the maximum anyway.       *)
Doublings == 16
ASSUME PowersAreNatural == \A k \in 1 .. Doublings : 2 ^ (k - 1) \in Nat
ASSUME MaximumIsReached == BaseBackoff * 2 ^ Doublings >= MaxBackoff
Delay(k) == IF k > Doublings THEN MaxBackoff
            ELSE Least(BaseBackoff * 2 ^ (k - 1), MaxBackoff)

(* From 2 ** FloatBits on the multiplication raises OverflowError instead:  *)
(* run_forever takes it for a lost session, and _not_before stays behind.   *)
TriggerFailedAsBusy(d) ==      \* mutant: a failure is retried like a busy forwarder
    /\ failures' = Least(failures + 1, MaxFailures)
    /\ hold' = Minus(BusyDelay, elapsed + d)
    /\ age' = Older(age, d)
    /\ quiet' = Least(elapsed + d, MaxBackoff)
    /\ SleepFor(BusyDelay)
    /\ Forget
    /\ UNCHANGED <<notified, backoff>>
TriggerFailed(d) ==
    /\ failures' = Least(failures + 1, MaxFailures)
    /\ age' = Older(age, d)
    /\ quiet' = Least(elapsed + d, MaxBackoff)
    /\ \/ /\ failures < FloatBits
          /\ hold' = Minus(Delay(failures'), elapsed + d)
          /\ SleepFor(Delay(failures'))
          /\ Forget
          /\ UNCHANGED backoff
       \/ /\ failures >= FloatBits
          /\ hold' = Minus(hold, d)
          /\ LoseSession
    /\ UNCHANGED notified

CallForwarder(d) ==
    /\ doing = "call"
    /\ \/ \E remaining \in BOOLEAN : Triggered(d, remaining)
       \/ ForwarderBusy(d)
       \/ TriggerFailed(d)
    /\ UNCHANGED <<inbox, faults>>

(* The sleep of a step, of the polling, or of a reconnect, ends.            *)
WakeUp ==
    /\ doing \in {"sleep", "poll", "reconnect"}
    /\ Elapse(timer)
    /\ doing' = IF doing = "reconnect" THEN "connect" ELSE "list"
    /\ timer' = 0
    /\ UNCHANGED <<inbox, seen, elapsed, notified, failures, backoff, faults>>

(* idle_wait returns (a push, or its timeout), or loses the session.  A     *)
(* message that came between the listing and the IDLE is not pushed.        *)
IdleWait(d) ==
    /\ doing = "idle"
    /\ Elapse(d)
    /\ \/ doing' = "list" /\ UNCHANGED <<timer, seen, elapsed, backoff, faults>>
       \/ LoseSession /\ Fault
    /\ UNCHANGED <<inbox, notified, failures>>

(* The VM is started again: nothing of WatchLoop survives.                  *)
Afresh ==
    /\ doing' = "connect"
    /\ timer' = 0
    /\ Forget
    /\ notified' = {}
    /\ age' = RetriggerInterval
    /\ hold' = 0
    /\ failures' = 0
    /\ backoff' = FirstReconnect
    /\ quiet' = MaxBackoff
    /\ UNCHANGED inbox

RestartWatcher == Afresh /\ Fault

WatchStep ==
    \/ \E d \in Took["connect"] : ConnectSession(d)
    \/ \E d \in Took["list"] : ListInbox(d)
    \/ \E d \in Took["call"] : CallForwarder(d)
    \/ \E d \in Took["idle"] : IdleWait(d)
    \/ WakeUp

(* Mail arrives; the forwarder or the owner takes it out of the queue.  A   *)
(* uid may come back as another message before the loop has listed its      *)
(* absence: under a new UIDVALIDITY, which nobody compares, the uids start  *)
(* from 1 again.                                                            *)
InboxChanges ==
    /\ \E u \in Uid : inbox' = inbox \union {u} \/ inbox' = inbox \ {u}
    /\ UNCHANGED <<doing, timer, backoff, quiet, faults, loopVars>>

WatchNext == WatchStep \/ RestartWatcher \/ InboxChanges

WatchSpec == WatchInit /\ [][WatchNext]_watchVars

(* The loop as a part of something larger: its mail comes and goes in any   *)
(* way, its calls also fail for the faults of others, and its VM is also    *)
(* replaced.                                                                *)
MoreFaults == faults' = faults \/ faults' \in faults .. MaxFaults
Elsewhere ==
    /\ inbox' \subseteq Uid
    /\ UNCHANGED <<doing, timer, backoff, quiet, loopVars>>
FailsElsewhere ==
    /\ doing = "call"
    /\ \E d \in Took["call"] : TriggerFailed(d)
    /\ UNCHANGED inbox
OpenNext == WatchNext \/ (MoreFaults /\ (Elsewhere \/ FailsElsewhere \/ Afresh))

OpenSpec == WatchInit /\ [][OpenNext]_watchVars

---------------------------------------------------------------------------
(* Every variable has its type, and a call has listed something.            *)
WatcherTypeOK ==
    /\ inbox \subseteq Uid
    /\ doing \in Blocked
    /\ timer \in Nat
    /\ seen \subseteq Uid
    /\ elapsed \in Nat
    /\ notified \subseteq Uid
    /\ age \in 0 .. RetriggerInterval
    /\ hold \in Nat
    /\ failures \in 0 .. MaxFailures
    /\ backoff \in Nat
    /\ quiet \in 0 .. MaxBackoff
    /\ faults \in 0 .. MaxFaults
    /\ doing = "call" <=> seen # {}
    /\ timer > 0 => doing \in {"sleep", "poll", "reconnect"}

(* "Failures back off exponentially" (tests/test_watcher.py:78): after k    *)
(* failed calls in a row the forwarder is not called again before the k-th  *)
(* delay has passed, whatever mail arrives and however often the session    *)
(* is lost and opened in between.                                           *)
BacksOff == doing = "call" /\ failures > 0 => quiet >= Delay(failures)

(* Mail that stays in the INBOX makes the watcher call again and again, new *)
(* or not, however often calls fail ("an outage simply delays delivery",    *)
(* watcher.py:8-11); a message that arrives between a listing and the IDLE  *)
(* is not forgotten.                                                        *)
EveryMailIsReported ==
    \A u \in Uid : u \in inbox ~> (u \notin inbox \/ (doing = "call" /\ u \in seen))

=============================================================================
