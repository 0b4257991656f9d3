--------------------------- MODULE WatcherProofs ---------------------------
(***************************************************************************)
(* Proofs about the watcher, for all delays, timeouts and durations: its   *)
(* types, that failing calls back off, also when its VM is replaced, and   *)
(* that operations the health check tolerates never get it replaced.       *)
(***************************************************************************)
EXTENDS Heartbeat, FiniteSetTheorems, TLAPS

(* What the prover is told of the arithmetic of the delays.                 *)
LEMMA WaitedAndLeft ==
    ASSUME NEW delay \in Nat, NEW waited \in Nat, NEW max \in Nat, delay <= max
    PROVE  /\ Minus(delay, waited) \in Nat
           /\ Least(waited, max) + Minus(delay, waited) >= delay
BY DEF Least, Minus

(* Every delay is a number up to the maximum.                               *)
LEMMA DelayIsBounded ==
    ASSUME NEW k \in Nat \ {0}
    PROVE  Delay(k) \in Nat /\ Delay(k) <= MaxBackoff
<1> USE WatcherAssumption
<1>1. CASE k > Doublings
  BY <1>1 DEF Delay
<1>2. CASE ~ (k > Doublings)
  <2>1. k \in 1 .. Doublings
    BY <1>2 DEF Doublings
  <2> DEFINE power == 2 ^ (k - 1)
  <2>2. power \in Nat
    BY <2>1, PowersAreNatural
  <2> HIDE DEF power
  <2>3. BaseBackoff * power \in Nat
    BY <2>2
  <2>4. Least(BaseBackoff * power, MaxBackoff) \in Nat
        /\ Least(BaseBackoff * power, MaxBackoff) <= MaxBackoff
    BY <2>3 DEF Least
  <2> QED
    BY <1>2, <2>4 DEF Delay, power
<1> QED
  BY <1>1, <1>2

(* The time since the last failing call and the time still to wait make up  *)
(* the delay, until the failures in a row overflow the float; and nothing   *)
(* is left to wait when the forwarder is called.                            *)
Counted == failures > 0 /\ failures < FloatBits
Owed    == Counted => quiet + hold >= Delay(failures)
Backing == Owed /\ (doing = "call" => hold = 0)

WInv == WatcherTypeOK /\ Backing

(* Waiting d seconds keeps the account.                                     *)
LEMMA ElapseKeeps ==
    ASSUME WInv, NEW d \in Nat, Elapse(d), failures' = failures
    PROVE  /\ age' \in 0 .. RetriggerInterval
           /\ hold' \in Nat /\ (hold = 0 => hold' = 0)
           /\ quiet' \in 0 .. MaxBackoff
           /\ Owed'
<1> USE WatcherAssumption
<1>1. /\ age \in Nat /\ quiet \in Nat /\ hold \in Nat /\ failures \in Nat
      /\ age' = Least(age + d, RetriggerInterval)
      /\ hold' = Minus(hold, d)
      /\ quiet' = Least(quiet + d, MaxBackoff)
  BY DEF WInv, WatcherTypeOK, Elapse, Older
<1>2. /\ age' \in 0 .. RetriggerInterval
      /\ hold' \in Nat /\ (hold = 0 => hold' = 0)
      /\ quiet' \in 0 .. MaxBackoff
  BY <1>1 DEF Least, Minus
<1>3. ASSUME Counted PROVE quiet' + hold' >= Delay(failures)
  <2> DEFINE delay == Delay(failures)
  <2>1. delay \in Nat /\ delay <= MaxBackoff /\ quiet + hold >= delay
    BY <1>1, <1>3, DelayIsBounded DEF WInv, Backing, Owed, Counted
  <2> HIDE DEF delay
  <2>2. CASE quiet + d <= MaxBackoff
    <3>1. quiet' = quiet + d /\ hold' \in Nat /\ hold' + d >= hold
      BY <1>1, <2>2 DEF Least, Minus
    <3> QED
      BY <1>1, <2>1, <3>1 DEF delay
  <2>3. CASE ~ (quiet + d <= MaxBackoff)
    <3>1. quiet' = MaxBackoff /\ hold' \in Nat
      BY <1>1, <2>3 DEF Least, Minus
    <3> QED
      BY <2>1, <3>1 DEF delay
  <2> QED
    BY <2>2, <2>3
<1>4. Owed'
  BY <1>3 DEF Owed, Counted
<1> QED
  BY <1>2, <1>4

(* Losing the session leaves the loop in its reconnecting sleep.            *)
LEMMA LoseSessionType ==
    ASSUME WatcherTypeOK, LoseSession
    PROVE  /\ doing' = "reconnect" /\ timer' \in Nat /\ backoff' \in Nat
           /\ seen' = {} /\ elapsed' = 0
<1>1. 2 * backoff \in Nat /\ MaxReconnect \in Nat /\ backoff \in Nat
  BY WatcherAssumption DEF WatcherTypeOK
<1> QED
  BY <1>1 DEF LoseSession, Forget, Least

(* One lemma per operation of the loop.                                     *)
LEMMA ConnectKeeps ==
    ASSUME WInv, NEW d \in Nat, ConnectSession(d)
    PROVE  WInv'
<1> USE WatcherAssumption
<1>1. /\ age' \in 0 .. RetriggerInterval /\ hold' \in Nat /\ quiet' \in 0 .. MaxBackoff
      /\ Owed'
      /\ UNCHANGED <<notified, failures>>
  BY ElapseKeeps DEF ConnectSession
<1>2. CASE doing' = "list" /\ backoff' = FirstReconnect /\ UNCHANGED <<timer, seen, elapsed, faults>>
  BY <1>1, <1>2 DEF WInv, WatcherTypeOK, Backing, ConnectSession, Blocked
<1>3. CASE LoseSession /\ Fault
  BY <1>1, <1>3, LoseSessionType DEF WInv, WatcherTypeOK, Backing, ConnectSession, Blocked, Fault
<1> QED
  BY <1>2, <1>3 DEF ConnectSession

(* A listing: the forwarder is called only when nothing is left to wait.    *)
LEMMA ListKeeps ==
    ASSUME WInv, NEW d \in Nat, ListInbox(d)
    PROVE  WInv'
<1> USE WatcherAssumption
<1>1. /\ age' \in 0 .. RetriggerInterval /\ hold' \in Nat /\ quiet' \in 0 .. MaxBackoff
      /\ hold = 0 => hold' = 0
      /\ Owed'
      /\ UNCHANGED <<inbox, failures>>
  BY ElapseKeeps DEF ListInbox
<1>2. CASE LoseSession /\ Fault /\ UNCHANGED notified
  BY <1>1, <1>2, LoseSessionType DEF WInv, WatcherTypeOK, Backing, ListInbox, Blocked, Fault
<1>3. CASE notified' = notified \cap inbox /\ UNCHANGED <<backoff, faults>>
  <2>1. CASE WaitForMail /\ UNCHANGED <<seen, elapsed>>
    BY <1>1, <1>3, <2>1 DEF WInv, WatcherTypeOK, Backing, ListInbox, Blocked, WaitForMail
  <2>2. CASE SleepFor(hold) /\ UNCHANGED <<seen, elapsed>>
    BY <1>1, <1>3, <2>2 DEF WInv, WatcherTypeOK, Backing, ListInbox, Blocked, SleepFor
  <2>3. CASE inbox # {} /\ hold = 0 /\ doing' = "call" /\ seen' = inbox /\ elapsed' = d /\ UNCHANGED timer
    BY <1>1, <1>3, <2>3 DEF WInv, WatcherTypeOK, Backing, ListInbox, Blocked
  <2> QED
    BY <1>2, <1>3, <2>1, <2>2, <2>3 DEF ListInbox
<1> QED
  BY <1>2, <1>3 DEF ListInbox

(* What the loop makes of a call.                                           *)
Called(d) ==
    \/ \E remaining \in BOOLEAN : Triggered(d, remaining)
    \/ ForwarderBusy(d)
    \/ TriggerFailed(d)

(* A call: a failure begins a delay, a busy forwarder shortens none.        *)
LEMMA CallKeeps ==
    ASSUME WInv, NEW d \in Nat, doing = "call", Called(d),
           UNCHANGED inbox, faults' \in 0 .. MaxFaults
    PROVE  WInv'
<1> USE WatcherAssumption
<1>1. /\ failures \in 0 .. MaxFailures /\ elapsed \in Nat /\ age \in 0 .. RetriggerInterval
      /\ quiet \in 0 .. MaxBackoff /\ elapsed + d \in Nat /\ hold = 0 /\ hold \in Nat
      /\ Counted => quiet >= Delay(failures)
  <2>1. hold = 0
    BY DEF WInv, Backing
  <2>2. failures \in Nat /\ quiet \in Nat
    BY DEF WInv, WatcherTypeOK
  <2>3. Counted => quiet >= Delay(failures)
    <3> DEFINE delay == Delay(failures)
    <3> HIDE DEF delay
    <3>1. Counted => quiet + hold >= delay
      BY DEF WInv, Backing, Owed, delay
    <3> QED
      BY <2>1, <2>2, <3>1 DEF delay
  <2> QED
    BY <2>1, <2>3 DEF WInv, WatcherTypeOK
<1>2. /\ Least(quiet + d, MaxBackoff) \in 0 .. MaxBackoff
      /\ Least(quiet + d, MaxBackoff) >= quiet
      /\ Least(elapsed + d, MaxBackoff) \in 0 .. MaxBackoff
      /\ Older(age, d) \in 0 .. RetriggerInterval
      /\ Older(elapsed, d) \in 0 .. RetriggerInterval
      /\ Minus(BusyDelay, elapsed + d) \in Nat
  BY <1>1 DEF Least, Minus, Older
<1>3. CASE \E remaining \in BOOLEAN : Triggered(d, remaining)
  <2>1. /\ failures' = 0 /\ notified' = seen /\ hold' = 0
        /\ age' \in 0 .. RetriggerInterval
        /\ quiet' \in 0 .. MaxBackoff
        /\ seen' = {} /\ elapsed' = 0 /\ backoff' = backoff
    BY <1>1, <1>2, <1>3 DEF Triggered, Forget
  <2>2. /\ doing' \in {"sleep", "idle", "poll"} /\ timer' \in Nat
        /\ timer' > 0 => doing' \in {"sleep", "poll"}
    BY <1>3 DEF Triggered, SleepFor, WaitForMail
  <2> QED
    BY <1>1, <2>1, <2>2 DEF WInv, WatcherTypeOK, Backing, Owed, Counted, Blocked
<1>4. CASE ForwarderBusy(d)
  <2>1. /\ UNCHANGED <<failures, notified, backoff>>
        /\ hold' \in Nat /\ age' \in 0 .. RetriggerInterval
        /\ quiet' \in 0 .. MaxBackoff /\ quiet' >= quiet
        /\ seen' = {} /\ elapsed' = 0 /\ doing' = "sleep" /\ timer' = BusyDelay
    BY <1>1, <1>2, <1>4 DEF ForwarderBusy, Forget, SleepFor
  <2>2. Counted => quiet' + hold' >= Delay(failures)
    <3> DEFINE delay == Delay(failures)
    <3>1. Counted => delay \in Nat /\ quiet >= delay
      BY <1>1, DelayIsBounded DEF Counted
    <3> HIDE DEF delay
    <3>2. Counted => quiet' + hold' >= delay
      BY <1>1, <2>1, <3>1
    <3> QED
      BY <3>2 DEF delay
  <2>3. Owed'
    BY <2>1, <2>2 DEF Owed, Counted
  <2> QED
    BY <1>1, <2>1, <2>3 DEF WInv, WatcherTypeOK, Backing, Blocked
<1>5. CASE TriggerFailed(d) /\ failures < FloatBits
  <2> DEFINE delay == Delay(failures')
  <2>1. failures' \in 1 .. MaxFailures
    BY <1>1, <1>5 DEF TriggerFailed, Least
  <2>2. /\ hold' = Minus(delay, elapsed + d)
        /\ SleepFor(delay) /\ Forget /\ UNCHANGED <<notified, backoff>>
        /\ age' = Older(age, d)
        /\ quiet' = Least(elapsed + d, MaxBackoff)
    BY <1>1, <1>5 DEF TriggerFailed
  <2>3. delay \in Nat /\ delay <= MaxBackoff
    BY <2>1, DelayIsBounded, WatcherAssumption
  <2> HIDE DEF delay
  <2>4. hold' \in Nat /\ quiet' + hold' >= delay
    BY <1>1, <2>2, <2>3, WaitedAndLeft
  <2>5. /\ seen' = {} /\ elapsed' = 0 /\ doing' = "sleep" /\ timer' = delay
    BY <2>2 DEF SleepFor, Forget
  <2>6. Backing'
    BY <2>4, <2>5 DEF Backing, Owed, delay
  <2> QED
    BY <1>1, <1>2, <2>1, <2>2, <2>3, <2>4, <2>5, <2>6 DEF WInv, WatcherTypeOK, Blocked
<1>6. CASE TriggerFailed(d) /\ ~ (failures < FloatBits)
  <2>1. /\ failures' = Least(failures + 1, MaxFailures) /\ LoseSession
        /\ hold' = Minus(hold, d) /\ age' = Older(age, d)
        /\ quiet' = Least(elapsed + d, MaxBackoff) /\ notified' = notified
    BY <1>1, <1>6 DEF TriggerFailed
  <2>2. failures' \in 0 .. MaxFailures /\ ~ (failures' < FloatBits) /\ hold' = 0
    BY <1>1, <1>6, <2>1 DEF Least, Minus
  <2>3. Backing'
    BY <2>2 DEF Backing, Owed, Counted
  <2> QED
    BY <1>1, <1>2, <2>1, <2>2, <2>3, LoseSessionType DEF WInv, WatcherTypeOK, Blocked
<1> QED
  BY <1>3, <1>4, <1>5, <1>6 DEF Called

(* An IDLE, ended by a push, by its timeout or by a lost session.           *)
LEMMA IdleKeeps ==
    ASSUME WInv, NEW d \in Nat, IdleWait(d)
    PROVE  WInv'
<1> USE WatcherAssumption
<1>1. /\ age' \in 0 .. RetriggerInterval /\ hold' \in Nat /\ quiet' \in 0 .. MaxBackoff
      /\ Owed'
      /\ UNCHANGED <<inbox, notified, failures>>
  BY ElapseKeeps DEF IdleWait
<1>2. CASE doing' = "list" /\ UNCHANGED <<timer, seen, elapsed, backoff, faults>>
  BY <1>1, <1>2 DEF WInv, WatcherTypeOK, Backing, IdleWait, Blocked
<1>3. CASE LoseSession /\ Fault
  BY <1>1, <1>3, LoseSessionType DEF WInv, WatcherTypeOK, Backing, IdleWait, Blocked, Fault
<1> QED
  BY <1>2, <1>3 DEF IdleWait

(* The end of a sleep.                                                      *)
LEMMA WakeUpKeeps == ASSUME WInv, WakeUp PROVE WInv'
<1> USE WatcherAssumption
<1>1. timer \in Nat
  BY DEF WInv, WatcherTypeOK
<1>2. /\ age' \in 0 .. RetriggerInterval /\ hold' \in Nat /\ quiet' \in 0 .. MaxBackoff
      /\ Owed'
      /\ UNCHANGED <<inbox, seen, elapsed, notified, failures, backoff, faults>>
  BY <1>1, ElapseKeeps DEF WakeUp
<1> QED
  BY <1>2 DEF WInv, WatcherTypeOK, Backing, WakeUp, Blocked

(* A new VM has counted no failures.                                        *)
LEMMA AfreshKeeps ==
    ASSUME WInv, Afresh, faults' \in 0 .. MaxFaults
    PROVE  WInv'
BY WatcherAssumption
   DEF WInv, WatcherTypeOK, Backing, Owed, Counted, Afresh, Blocked, Forget

(* What happens in the INBOX concerns no delay.                             *)
LEMMA InboxKeeps == ASSUME WInv, InboxChanges PROVE WInv'
BY DEF WInv, WatcherTypeOK, Backing, Owed, Counted, InboxChanges, loopVars

(* At first no call has failed.                                             *)
LEMMA StartIsSound == WatchInit => WInv
BY WatcherAssumption DEF WatchInit, WInv, WatcherTypeOK, Backing, Owed, Counted, Blocked

(* The account of the delays is what BacksOff asks for, as long as the      *)
(* failures in a row stay below the power no float can hold.                *)
LEMMA WInvBacksOff == WInv => (failures < FloatBits => BacksOff)
<1> SUFFICES ASSUME WInv, doing = "call", failures > 0, failures < FloatBits
             PROVE  quiet >= Delay(failures)
  BY DEF BacksOff
<1> DEFINE delay == Delay(failures)
<1>1. quiet + hold >= delay /\ hold = 0 /\ quiet \in Nat
  BY DEF WInv, Backing, Owed, Counted, WatcherTypeOK
<1> HIDE DEF delay
<1>2. quiet >= delay
  BY <1>1
<1> QED
  BY <1>2 DEF delay

(* Every step of the loop, of its environment, and of what it is a part of. *)
LEMMA StepKeeps ==
    ASSUME WInv, OpenNext
    PROVE  WInv'
<1> USE WatcherAssumption
<1>0. faults \in 0 .. MaxFaults
  BY DEF WInv, WatcherTypeOK
<1>1. CASE \E d \in Took["connect"] : ConnectSession(d)
  BY <1>1, ConnectKeeps
<1>2. CASE \E d \in Took["list"] : ListInbox(d)
  BY <1>2, ListKeeps
<1>3. CASE \E d \in Took["call"] : CallForwarder(d)
  BY <1>0, <1>3, CallKeeps DEF CallForwarder, Called
<1>4. CASE \E d \in Took["idle"] : IdleWait(d)
  BY <1>4, IdleKeeps
<1>5. CASE RestartWatcher
  <2>1. faults' \in 0 .. MaxFaults
    BY <1>0, <1>5 DEF RestartWatcher, Fault
  <2> QED
    BY <1>5, <2>1, AfreshKeeps DEF RestartWatcher
<1>6. CASE MoreFaults /\ (Elsewhere \/ FailsElsewhere \/ Afresh)
  <2>1. faults' \in 0 .. MaxFaults
    BY <1>0, <1>6 DEF MoreFaults
  <2>2. CASE Elsewhere
    BY <2>1, <2>2 DEF WInv, WatcherTypeOK, Backing, Owed, Counted, Elsewhere, loopVars
  <2>3. CASE FailsElsewhere
    BY <2>1, <2>3, CallKeeps DEF FailsElsewhere, Called
  <2>4. CASE Afresh
    BY <2>1, <2>4, AfreshKeeps
  <2> QED
    BY <1>6, <2>2, <2>3, <2>4
<1> QED
  BY <1>1, <1>2, <1>3, <1>4, <1>5, <1>6, WakeUpKeeps, InboxKeeps DEF OpenNext, WatchNext, WatchStep

(* The inductive invariant of the watcher.                                  *)
LEMMA OpenKeeps == WInv /\ [OpenNext]_watchVars => WInv'
<1>1. ASSUME WInv, UNCHANGED watchVars PROVE WInv'
  BY <1>1 DEF WInv, WatcherTypeOK, Backing, Owed, Counted, watchVars, loopVars
<1> QED
  BY <1>1, StepKeeps

(* It holds for ever.                                                       *)
LEMMA WInvAlways == OpenSpec => []WInv
BY StartIsSound, OpenKeeps, PTL DEF OpenSpec

(* The watcher by itself is one of those.                                   *)
LEMMA WatchIsOpen == WatchSpec => OpenSpec
<1>1. [WatchNext]_watchVars => [OpenNext]_watchVars
  BY DEF OpenNext
<1> QED
  BY <1>1, PTL DEF WatchSpec, OpenSpec

(* Every variable of the watcher has its type, whatever overflows, and a    *)
(* call has listed something.                                               *)
THEOREM WatcherTypeCorrect == WatchSpec => []WatcherTypeOK
<1>1. WInv => WatcherTypeOK
  BY DEF WInv
<1> QED
  BY <1>1, WInvAlways, WatchIsOpen, PTL

(* Failing calls back off, for all delays, timeouts and durations, until    *)
(* the failures in a row reach the power no float can hold, in everything   *)
(* the watcher is a part of.                                                *)
THEOREM WatcherBacksOffUntilOverflow ==
    OpenSpec => [](WatcherTypeOK /\ (failures < FloatBits => BacksOff))
<1>1. WInv => WatcherTypeOK /\ (failures < FloatBits => BacksOff)
  BY WInvBacksOff DEF WInv
<1> QED
  BY <1>1, WInvAlways, PTL

---------------------------------------------------------------------------
(* The watcher under its health check.                                     *)

(* What the health check adds to the loop are hangs and fresh starts.       *)
LEMMA HeartbeatStep ==
    ASSUME faults \in 0 .. MaxFaults, inbox \subseteq Uid, [HeartbeatNext]_heartVars
    PROVE  [OpenNext]_watchVars
<1>1. ASSUME NEW d, Operation(d) PROVE WatchStep
  BY <1>1 DEF Operation, WatchStep
<1>2. CASE Beat
  BY <1>1, <1>2 DEF Beat, WatchNext, OpenNext
<1>3. CASE Tick
  BY <1>3 DEF Tick
<1>4. CASE Replace
  BY <1>4 DEF Replace, OpenNext, MoreFaults
<1>5. ASSUME NEW how, Hang(how) PROVE OpenNext
  <2>1. faults' \in faults .. MaxFaults
    BY <1>5, WatcherAssumption DEF Hang, Fault
  <2>2. Elsewhere
    BY <1>5 DEF Hang, Elsewhere
  <2> QED
    BY <2>1, <2>2 DEF OpenNext, MoreFaults
<1>6. CASE RestartWatcher \/ InboxChanges
  BY <1>6 DEF WatchNext, OpenNext
<1>7. CASE UNCHANGED heartVars
  BY <1>7 DEF heartVars
<1> QED
  BY <1>2, <1>3, <1>4, <1>5, <1>6, <1>7 DEF HeartbeatNext

(* The watcher under its health check is a watcher: so whatever hangs, dies *)
(* and is replaced, the account of the delays stays right.                  *)
THEOREM HeartbeatImplementsWatcher == HeartbeatSpec => OpenSpec
<1>1. HeartbeatInit => WInv
  BY StartIsSound DEF HeartbeatInit
<1>2. WInv /\ [HeartbeatNext]_heartVars => [OpenNext]_watchVars
  BY HeartbeatStep DEF WInv, WatcherTypeOK
<1>3. HeartbeatInit => WatchInit
  BY DEF HeartbeatInit
<1> QED
  BY <1>1, <1>2, <1>3, OpenKeeps, PTL DEF HeartbeatSpec, OpenSpec

(* Failing calls back off also while the VM hangs, dies and is replaced.    *)
THEOREM HeartbeatBacksOff ==
    HeartbeatSpec => [](WatcherTypeOK /\ (failures < FloatBits => BacksOff))
BY HeartbeatImplementsWatcher, WatcherBacksOffUntilOverflow, PTL

---------------------------------------------------------------------------
(* What the prover is told of a division.                                   *)
LEMMA DivMod ==
    ASSUME NEW x \in Nat, NEW c \in Nat \ {0}
    PROVE  /\ x % c \in 0 .. c - 1
           /\ x \div c \in Nat
           /\ c * (x \div c) <= x /\ x < c * (x \div c) + c
           /\ x % c = 0 => x = c * (x \div c)
OBVIOUS

(* And of a product.                                                        *)
LEMMA Cancel ==
    ASSUME NEW a \in Nat, NEW b \in Nat, NEW c \in Nat \ {0}, c * a < c * b
    PROVE  a < b
<1> SUFFICES ASSUME b <= a PROVE FALSE
  OBVIOUS
<1>1. PICK e \in Nat : a = b + e
  <2>1. a - b \in Nat /\ a = b + (a - b)
    OBVIOUS
  <2> QED
    BY <2>1
<1>2. c * e \in Nat
  OBVIOUS
<1>3. c * a = c * b + c * e
  BY <1>1
<1> QED
  BY <1>2, <1>3

(* At most n of the moments that lie c apart fall into n * c seconds.       *)
LEMMA FewMoments ==
    ASSUME NEW c \in Nat \ {0}, NEW p \in Nat, NEW b \in Nat, NEW d \in Nat, NEW n \in Nat,
           d <= b + n * c
    PROVE  LET S == {k \in b + 1 .. d : (p + k) % c = 0}
           IN  IsFiniteSet(S) /\ Cardinality(S) <= n
<1> DEFINE S == {k \in b + 1 .. d : (p + k) % c = 0}
           q == (p + b) \div c
           T == q + 1 .. q + n
           f == [k \in S |-> (p + k) \div c]
<1>1. q \in Nat /\ c * q <= p + b /\ p + b < c * q + c
  BY p + b \in Nat, DivMod
<1>2. ASSUME NEW k \in S
      PROVE  /\ f[k] \in Nat /\ p + k = c * f[k]
             /\ k \in Nat /\ b < k /\ k <= d
  <2>1. k \in Nat /\ b < k /\ k <= d /\ (p + k) % c = 0
    OBVIOUS
  <2>2. p + k \in Nat
    BY <2>1
  <2> QED
    BY <2>1, <2>2, DivMod
<1> HIDE DEF q
<1>3. ASSUME NEW k \in S PROVE f[k] \in T
  <2> DEFINE v == f[k]
  <2>1. v \in Nat /\ p + k = c * v /\ k \in Nat /\ b < k /\ k <= d
    BY <1>2
  <2> HIDE DEF v, f
  <2>2. q < v
    <3>1. c * q < c * v
      BY <1>1, <2>1
    <3> QED
      BY <1>1, <2>1, <3>1, Cancel
  <2>3. v < q + 1 + n
    <3>1. q + 1 + n \in Nat /\ c * (q + 1 + n) = c * q + c + n * c
      BY <1>1
    <3>2. c * v < c * q + c + n * c
      <4> DEFINE cv == c * v
                 cq == c * q
                 nc == n * c
      <4>1. cv \in Nat /\ cq \in Nat /\ nc \in Nat
        BY <1>1, <2>1
      <4>2. p + k = cv /\ p + b < cq + c /\ d <= b + nc
        BY <1>1, <2>1
      <4> HIDE DEF cv, cq, nc
      <4>3. cv < cq + c + nc
        BY <2>1, <4>1, <4>2
      <4> QED
        BY <4>3 DEF cv, cq, nc
    <3>3. c * v < c * (q + 1 + n)
      BY <3>1, <3>2
    <3> QED
      BY <2>1, <3>1, <3>3, Cancel
  <2>4. v \in T
    BY <1>1, <2>1, <2>2, <2>3
  <2> QED
    BY <2>4 DEF v
<1>4. f \in Injection(S, T)
  <2>1. ASSUME NEW k \in S, NEW j \in S, f[k] = f[j] PROVE k = j
    <3>1. p + k = p + j /\ k \in Nat /\ j \in Nat
      BY <1>2, <2>1
    <3> QED
      BY <3>1
  <2>2. f \in [S -> T]
    BY <1>3
  <2> QED
    BY <2>1, <2>2 DEF Injection, IsInjective
<1>5. IsFiniteSet(T) /\ Cardinality(T) = n
  <2>1. q + 1 \in Int /\ q + n \in Int
    BY <1>1
  <2>2. IsFiniteSet(T) /\ Cardinality(T) = IF q + 1 > q + n THEN 0 ELSE (q + n) - (q + 1) + 1
    BY <2>1, FS_Interval
  <2> QED
    BY <1>1, <2>2
<1>6. IsFiniteSet(S) /\ Cardinality(S) <= Cardinality(T)
  BY <1>4, <1>5, FS_Injection
<1> QED
  BY <1>5, <1>6

(* The loop is in an operation whose duration the health check tolerates.   *)
LEMMA OperationIsTolerated ==
    ASSUME Tolerated, timer \in Nat, NEW d, Operation(d)
    PROVE  /\ d \in Nat /\ Budget \in Nat
           /\ \/ d <= Budget
              \/ /\ CheckInterval <= Budget
                 /\ d <= Budget + (UnhealthyAfter - 1) * CheckInterval
<1> USE WatcherAssumption, HeartbeatAssumption
<1>1. CASE d \in Took["connect"] /\ ConnectSession(d)
  BY <1>1 DEF ConnectSession, Tolerated, Budget
<1>2. CASE d \in Took["list"] /\ ListInbox(d)
  BY <1>2 DEF ListInbox, Tolerated, Budget
<1>3. CASE d \in Took["call"] /\ CallForwarder(d)
  BY <1>3 DEF CallForwarder, Tolerated, Budget
<1>4. CASE d \in Took["idle"] /\ IdleWait(d)
  BY <1>4 DEF IdleWait, Tolerated, Budget
<1>5. CASE d = timer /\ WakeUp
  BY <1>5 DEF WakeUp, Budget
<1> QED
  BY <1>1, <1>2, <1>3, <1>4, <1>5 DEF Operation

(* Probes keep coming CheckInterval apart, and too few have failed in a row *)
(* to replace a watcher that works.                                         *)
Healthy ==
    /\ phase \in 0 .. CheckInterval - 1
    /\ life = "alive" => bad \in 0 .. UnhealthyAfter - 1

(* The probes of an operation that fail are the ones past its budget: none, *)
(* or fewer than it takes and one before them passes.                       *)
LEMMA BeatIsHealthy ==
    ASSUME Tolerated, Healthy, WatcherTypeOK, Beat
    PROVE  Healthy'
<1> USE HeartbeatAssumption
<1>1. PICK d : Operation(d) /\ Probed(0, d)
  BY DEF Beat
<1>2. life = "alive" /\ life' = "alive" /\ timer \in Nat
  BY DEF Beat, WatcherTypeOK
<1>3. /\ d \in Nat /\ Budget \in Nat
      /\ \/ d <= Budget
         \/ CheckInterval <= Budget /\ d <= Budget + (UnhealthyAfter - 1) * CheckInterval
  BY <1>1, <1>2, OperationIsTolerated
<1>4. phase \in Nat /\ phase < CheckInterval /\ bad \in Nat /\ bad < UnhealthyAfter
  BY <1>2 DEF Healthy
<1> DEFINE failed == {k \in Probes(0, d) : ~Ok(k)}
           late   == {k \in Budget + 1 .. d : (phase + k) % CheckInterval = 0}
<1>5. failed = late
  <2>1. Probes(0, d) = {k \in 1 .. d : (phase + k) % CheckInterval = 0}
    BY <1>3, <1>4 DEF Probes
  <2>2. \A k \in 1 .. d : ~Ok(k) <=> Budget < k
    BY <1>2, <1>3 DEF Ok
  <2>3. \A k : k \in Budget + 1 .. d <=> k \in 1 .. d /\ Budget < k
    BY <1>3
  <2> QED
    BY <2>1, <2>2, <2>3
<1>6. /\ bad' = Least(UnhealthyAfter,
                      Cardinality(failed) + (IF Probes(0, d) \subseteq failed THEN bad ELSE 0))
      /\ phase' = (phase + d) % CheckInterval
  BY <1>1 DEF Probed
<1>7. phase' \in 0 .. CheckInterval - 1
  BY <1>3, <1>4, <1>6, DivMod, phase + d \in Nat
<1>8. bad' \in 0 .. UnhealthyAfter - 1
  <2>1. CASE d <= Budget
    <3>1. late = {}
      BY <1>3, <2>1
    <3>2. Cardinality(failed) = 0
      BY <1>5, <3>1, FS_EmptySet
    <3> HIDE DEF failed
    <3> QED
      BY <1>4, <1>6, <3>2 DEF Least
  <2>2. CASE CheckInterval <= Budget /\ d > Budget
    <3>1. Cardinality(failed) \in Nat /\ Cardinality(failed) <= UnhealthyAfter - 1
      <4>1. UnhealthyAfter - 1 \in Nat /\ d <= Budget + (UnhealthyAfter - 1) * CheckInterval
        BY <1>3, <2>2
      <4>2. IsFiniteSet(late) /\ Cardinality(late) <= UnhealthyAfter - 1
        BY <1>3, <1>4, <4>1, FewMoments
      <4> HIDE DEF late, failed
      <4> QED
        BY <1>5, <4>2, FS_CardinalityType
    <3>2. ~ (Probes(0, d) \subseteq failed)
      <4> DEFINE k == CheckInterval - phase
      <4>1. k \in 1 .. d /\ k <= Budget /\ phase + k - 0 = CheckInterval
        BY <1>3, <1>4, <2>2
      <4>2. CheckInterval % CheckInterval = 0
        OBVIOUS
      <4>3. k \in Probes(0, d)
        <5>1. k \in 0 + 1 .. 0 + d /\ (phase + k - 0) % CheckInterval = 0
          BY <1>3, <4>1, <4>2
        <5> HIDE DEF k
        <5> QED
          BY <5>1 DEF Probes
      <4>4. k \notin late
        BY <1>3, <4>1
      <4> HIDE DEF k, late, failed
      <4> QED
        BY <1>5, <4>3, <4>4
    <3> HIDE DEF failed
    <3> QED
      BY <1>6, <3>1, <3>2 DEF Least
  <2> QED
    BY <1>3, <2>1, <2>2
<1> QED
  BY <1>2, <1>7, <1>8 DEF Healthy

(* WorkingIsNotReplaced for all timeouts, check intervals and thresholds:   *)
(* an operation may exceed the budget touch() gave it by less than the      *)
(* probes it takes to replace the VM.                                       *)
THEOREM WorkingIsKept ==
    ASSUME Tolerated
    PROVE  HeartbeatSpec => []WorkingIsNotReplaced
<1> USE HeartbeatAssumption
<1>1. HeartbeatInit => Healthy
  BY DEF HeartbeatInit, Healthy
<1>2. Healthy /\ WatcherTypeOK /\ [HeartbeatNext]_heartVars => Healthy'
  <2> SUFFICES ASSUME Healthy, WatcherTypeOK, [HeartbeatNext]_heartVars
               PROVE  Healthy'
    OBVIOUS
  <2>1. CASE Beat
    BY <2>1, BeatIsHealthy
  <2>2. CASE Tick
    <3>1. phase' = (phase + CheckInterval) % CheckInterval /\ life' = life /\ life # "alive"
      BY <2>2 DEF Tick, Probed
    <3>2. phase + CheckInterval \in Nat
      BY DEF Healthy
    <3>3. phase' \in 0 .. CheckInterval - 1
      BY <3>1, <3>2, DivMod
    <3> QED
      BY <3>1, <3>3 DEF Healthy
  <2>3. CASE \E how \in {"hung", "dead"} : Hang(how)
    BY <2>3 DEF Hang, Healthy
  <2>4. CASE Replace
    BY <2>4 DEF Replace, Healthy
  <2>5. CASE UNCHANGED health
    BY <2>5 DEF Healthy, health
  <2> QED
    BY <2>1, <2>2, <2>3, <2>4, <2>5 DEF HeartbeatNext, heartVars
<1>3. Healthy => WorkingIsNotReplaced
  BY DEF Healthy, WorkingIsNotReplaced
<1>4. HeartbeatSpec => []WatcherTypeOK
  BY HeartbeatBacksOff, PTL
<1> QED
  BY <1>1, <1>2, <1>3, <1>4, PTL DEF HeartbeatSpec

=============================================================================
