------------------------------- MODULE System -------------------------------
(***************************************************************************)
(* The whole system: the watcher on its VM calls /sync of the forwarder's  *)
(* instances, and both look at the same INBOX.  A call of Watcher becomes  *)
(* a request, a run of the forwarder and an answer here; the watcher waits *)
(* for it, or gives up while the run goes on.                              *)
(***************************************************************************)
EXTENDS Server

CONSTANTS
    RetriggerInterval, SupportsIdle, PollInterval, ShortDelay, BusyDelay,
    BaseBackoff, MaxBackoff, FirstReconnect, MaxReconnect, FloatBits, Took,
    MaxFailures    \* the constants of Watcher

VARIABLES
    doing, timer, seen, elapsed, notified, age, hold, failures, backoff,
    quiet,         \* the variables of Watcher; its faults are those of Forwarder
    asked,         \* the thread whose answer the watcher waits for
    left,          \* result.remaining > 0 in the run of a thread
    later          \* the messages result.retry_later counts in that run

watcher == <<doing, timer, seen, elapsed, notified, age, hold, failures, backoff, quiet>>
calls == <<asked, left, later>>
systemVars == <<serverVars, watcher, calls>>

(* The watcher skips the quarantine keywords it read from its environment,  *)
(* which are the forwarder's.                                               *)
WatcherListedAll == {u \in Uid : InInbox(u) /\ "deleted" \notin flags[u]}  \* mutant: no skip_keywords
WatcherListed == Listed

W == INSTANCE Watcher WITH inbox <- WatcherListed

SystemInit ==
    /\ ServerInit
    /\ W!WatchInit
    /\ asked = Nobody
    /\ left = [p \in Proc |-> FALSE]
    /\ later = [p \in Proc |-> {}]

(* trigger(): the token, and the request on its way to a thread.            *)
Request(p) ==
    /\ doing = "call"
    /\ asked = Nobody
    /\ Call(p, "watcher")
    /\ asked' = p
    /\ UNCHANGED <<watcher, left, later>>

(* trigger() returns: what the status says to WatchLoop.step.               *)
HearsBusyAsDone(d, status, remaining) ==     \* mutant: a busy forwarder sees to the mail
    \/ status \in {200, 409} /\ W!Triggered(d, status = 200 /\ remaining)
    \/ status \notin {200, 409} /\ W!TriggerFailed(d)
Hears(d, status, remaining) ==
    \/ status = 200 /\ W!Triggered(d, remaining)
    \/ status = 409 /\ W!ForwarderBusy(d)
    \/ status \notin {200, 409} /\ W!TriggerFailed(d)

Response(p, d) ==
    /\ asked = p
    /\ at[p] = "answered"
    /\ asked' = Nobody
    /\ Hears(d, reply[p], left[p])
    /\ Hear(p)
    /\ UNCHANGED <<left, later>>

(* No token, no free thread, or no connection.                              *)
NoRequest(d) ==
    /\ doing = "call"
    /\ asked = Nobody
    /\ \/ faults < MaxFaults /\ faults' = faults + 1
       \/ (\A p \in Proc : at[p] # "free") /\ UNCHANGED faults
    /\ W!TriggerFailed(d)
    /\ UNCHANGED <<handler, place, flags, copies, label, jobs, calls>>

(* The request times out, or its answer is lost, while the run goes on; or  *)
(* the instance died with it.                                               *)
GiveUp(d) ==
    /\ asked # Nobody
    /\ asked' = Nobody
    /\ \/ faults < MaxFaults /\ faults' = faults + 1
       \/ at[asked] = "free" /\ UNCHANGED faults
    /\ W!TriggerFailed(d)
    /\ UNCHANGED <<handler, place, flags, copies, label, jobs, left, later>>

(* The rest of the watcher's loop.                                          *)
Watch ==
    /\ UNCHANGED <<handler, place, flags, copies, label, jobs, calls>>
    /\ \/ \E d \in Took["connect"] : W!ConnectSession(d)
       \/ \E d \in Took["list"] : W!ListInbox(d)
       \/ \E d \in Took["idle"] : W!IdleWait(d)
       \/ W!WakeUp

Watcher ==
    \/ Watch
    \/ \E p \in Proc : Request(p) \/ \E d \in Took["call"] : Response(p, d)
    \/ \E d \in Took["call"] : NoRequest(d) \/ GiveUp(d)

RestartWatch ==
    /\ UNCHANGED <<handler, place, flags, copies, label, jobs, left, later>>
    /\ asked' = Nobody
    /\ W!RestartWatcher

(* A thread goes on; the run counts what its time budget left over, and     *)
(* what Gmail has put off.  Nobody hears an answer the watcher does not     *)
(* wait for.                                                                *)
RemainingUncounted(p) == UNCHANGED left      \* mutant: the budget's end is not reported
Remaining(p) ==
    left' = IF pc[p] = "next" /\ pc'[p] = "settle" THEN [left EXCEPT ![p] = todo[p] # {}]
            ELSE left
PutOff(p) == /\ pc[p] = "insert" /\ pc'[p] = "next"
             /\ cur[p] \notin suspicious'[p] \union oversized'[p]
RetryLater(p) ==
    later' = [later EXCEPT ![p] = IF at[p] = "locked" THEN {}
                                  ELSE IF PutOff(p) THEN @ \union {cur[p]} ELSE @]
Serve(p) ==
    /\ Handle(p)
    /\ at[p] = "answered" => asked # p
    /\ Remaining(p)
    /\ RetryLater(p)
    /\ UNCHANGED <<watcher, asked>>

Fail(p) == Raise(p) /\ UNCHANGED <<watcher, calls>>

SystemNext ==
    \/ Watcher
    \/ RestartWatch
    \/ \E p \in Proc : Serve(p) \/ Fail(p)
    \/ \E i \in Instance : Restart(i) /\ UNCHANGED <<watcher, calls>>
    \/ (NewMail \/ Owner) /\ UNCHANGED <<handler, watcher, calls>>

SystemSpec == SystemInit /\ [][SystemNext]_systemVars

(* The watcher's loop and the threads go on; nothing else has to happen.    *)
FairSystem ==
    /\ SystemSpec
    /\ WF_systemVars(Watcher)
    /\ \A p \in Proc : WF_systemVars(Serve(p))

---------------------------------------------------------------------------
(* Mail Gmail accepts is delivered although nobody but the watcher calls    *)
(* the forwarder, whatever happens to sessions, calls, runs, instances and  *)
(* the VM ("an outage simply delays delivery instead of losing mail",       *)
(* watcher.py:9): the fairness FairSpec of Forwarder assumes is what the    *)
(* watcher provides.                                                        *)
MailIsDelivered ==
    \A u \in Uid : Good(u) => (Queued(u) ~> (copies[u] > 0 /\ ~Queued(u)))

(* When no mail waits any more, the watcher stops calling, although mail it *)
(* has given up on stays in the INBOX (watcher.py:152-155): the service can *)
(* scale to zero.                                                           *)
QuietWhenDone ==
    <>[](\A u \in Uid : ~Queued(u)) => <>[](doing # "call")

(* When the answer makes the watcher wait for new mail ("fine to block in   *)
(* IDLE", watcher.py:102), every message it had reported has left the       *)
(* queue, but those Gmail put off in the very run that answered: nothing    *)
(* else is left to the re-trigger, whatever calls were given up on before,  *)
(* whichever runs they left behind, and whoever died meanwhile.             *)
Waits == {"idle", "poll"}
AnsweredMailIsSettled ==
    [][asked # Nobody /\ doing = "call" /\ doing' \in Waits
       => {u \in seen : Queued(u)} \subseteq later[asked]]_systemVars

=============================================================================
