# A verification of mail-transporter in TLA+

mail-transporter moves mail from an iCloud INBOX to Gmail. A *watcher* (one small
VM) watches the INBOX over IMAP and calls the *forwarder* (`POST /sync` on Cloud
Run), which inserts every message into Gmail and moves it to the iCloud Trash.
There is no database: what has been done to a message is recorded on the message,
as an IMAP keyword or by the folder it lies in. The hard part of the program is
therefore what this directory is about: every step is one network round trip that
may fail before or after its effect, a run may die between any two of them, two
revisions or the operator may be at work on the same messages, and still no mail
may be lost, nothing may be misreported, and duplicates have to stay bounded.

## Inventory

| component | state it keeps | operations | hard about it | what makes it correct |
|---|---|---|---|---|
| `forwarder.py` | locals of one run: listing, rejections, counters, error | `run`, `_process`, `_quarantine`, `_settle_rejections` | crash or error between any two round trips; overlapping runs; abort and settle; breaker and time budget; mail that cannot be fetched | nothing lost, markers true, duplicates bounded, rejections settled, good mail delivered |
| `imap_client.py` | IMAP session; keywords and folders on the server | listings, `fetch_message`, `add_keyword`, `remove_keyword`, `move_to_folder`, `idle_wait` | three-command move, lost replies, vanished uids, servers that ignore criteria | only its own copies are expunged; what is hidden is kept |
| `gmail_client.py` | label cache; the Gmail mailbox | `insert_raw`, `ensure_label`, error classes | retries of a request that was already executed; two runs creating one label | the classes lead to the right handler; no label keeps runs from working |
| `cli.py` | none | `list`, `retry`, `mark-failed` | acts on flags read earlier, beside a running forwarder | what it prints is true; no duplicate without `--yes` |
| `server.py` | `_run_lock`, `_forwarder` of one instance | `sync`, `verify_invoker`, `get_forwarder` | concurrent requests, exceptions, restarts, two revisions | one run at a time; the lock comes back; answers carry no credential |
| `watcher.py` | `_notified`, `_last_trigger_at`, `_not_before`, `_failures`; reconnect backoff | `step`, `run_forever`, `trigger` | lost wake-ups, lost sessions, busy and failing forwarder, calls given up on, restarts | waiting mail is reported again and again; failures back off; silence when nothing waits |
| `health.py` | deadline | `touch`, `ok`, `status` | budgets against real durations; operations that never return | what works is not replaced, what is stuck is |
| `config.py`, `runtime.py` | the settings, read at each start | `keywords_from_env`, `from_env`, `build_forwarder` | keywords of earlier starts are still on the mail | a keyword keeps its meaning |
| `secrets.py` | the registered secrets | `register_secret`, `redact`, `resolve_secret_env` | credentials inside credentials, cut texts, settings that fail half-way | nothing of a credential leaves the process |
| `deploy/`, `cloudbuild.yaml`, `.github/`, `scripts/` | none of the program's | run by hand or by GitHub | | |

How they interact: the watcher lists the INBOX in a read-only session and calls
`/sync` over HTTPS; `/sync` runs the forwarder under a lock of the process; the
forwarder and the command line share the INBOX (flags and folders) and nothing
else; the owner of the mailbox and the mail server change the INBOX at any time;
the instance group probes the watcher's `/healthz` and replaces its VM.

## Modules

| module | models |
|---|---|
| `Messages` | the uids by which all components name messages |
| `Mailbox` | the iCloud account: `place` (folders that hold a copy) and `flags` of every message, one operator per IMAP command, with the three ways a command can end for its client (done; refused; done but the client saw an error) |
| `GmailClient` | the classification of HTTP answers, `insert_raw` with lost replies and repeated requests, the label; `copies` in Gmail |
| `Forwarder` | `run()` as a process: `pc` names the round trip it is about to make |
| `Delivery` | abstract specification: held, delivered (perhaps more than once), released only once delivered |
| `ForwarderDelivers` | the refinement mapping from `Forwarder` to `Delivery` |
| `Cli` | the operator's commands beside `Forwarder` |
| `Server` | `/sync`: threads, instances, the run lock, around `Forwarder` |
| `Watcher` | `WatchLoop.step` and `run_forever`, with time |
| `System` | `Watcher` (by INSTANCE) calling `Server`, both on one INBOX |
| `Attended` | `System` with the operator's commands of `Cli` beside it |
| `Heartbeat` | `Watcher` with its deadlines, hanging operations, stopped VMs, probes and replacement |
| `Secrets` | registering, masking and cutting texts, as operators on sequences |
| `Settings` | the forwarder started again and again with other environments; the keywords on a message; the errors it answers |
| `MCForwarder`, `MCCli`, `MCServer`, `MCSystem`, `MCAttended`, `MCWatcher`, `MCHeartbeat`, `MCSettings` | values for constants a `.cfg` cannot spell |
| `ForwarderProofs`, `ForwarderSafety`, `PromiseProofs`, `DuplicateProofs` (of `Forwarder`), `ServerProofs` (of `Server` and `System`), `CliProofs` (of `Cli` and `Attended`), `WatcherProofs` (of `Watcher` and `Heartbeat`), `SettingsProofs` | theorems and their proofs |

### Correspondence with the code

* `Forwarder`: `todo` is the rest of `uids`, `spent` the number of messages begun
  (the time budget is at least `MinPerRun` messages and may end a run after any
  further one), `suspicious`/`oversized` are `rejected` split by `per_message`,
  `settling` what `_settle_rejections` has left, `forwarded` is
  `result.forwarded > 0`, `link` whether the IMAP session still works. The actions
  follow the code in order: `Connect`, `EnsureLabel` (and `CreateLabel`, when the
  listing of the labels did not have it), `List`, then per message
  `Fetch`, `Insert`, `Tag`, `Move` (or `Move`, `Delete`, `Expunge` without MOVE),
  `Mark` for a quarantine keyword; `LeaveLoop` is the end of the loop with the
  circuit breaker, `Settle` takes the next rejection, `Close` returns. `AbortRun`
  is `Abort`: from the listing's loop it leads to the settling, from the settling
  to the end. `Crash` is the death of the process, or an exception that is neither
  a `MailboxError` nor a `GmailError`.
* A failing IMAP command may leave the session usable or not (`Command`); in a
  dead session every later command of the run is refused. The FETCH of a message in
  `Unfetchable` fails as long as the message is in the INBOX (`FetchEnds`).
* `label` says whether Gmail has the label, and in which case. Gmail refuses to
  create one that differs only in case; of two runs that find none one is refused
  and ends, as a run does whose request was repeated after a lost reply.
* `Cli`: `retry` and `mark-failed` read the flags once (`Retry`, `MarkFailed`) and
  then act message by message (`Clear`, `MarkOneFailed`), while anything else may
  happen; `list` is the operator `Collected`. A command may be interrupted (`Exit`).
* `Server`: `at` is where a request is in `sync()`. The forwarder's actions happen
  only inside `Run`/`Work`/`Raise`, that is with `_run_lock` held. `Restart` ends an
  instance with all its threads and gives the next one a fresh lock. Callers call
  at any time, so a client that gave up on a running call and calls again is there.
* `Watcher`: one action per blocking operation, which takes some `d` time units.
  Moments are relative (`hold` is `_not_before - now`, `age` is
  `now - _last_trigger_at`), which keeps the state finite without bounding time.
  As in the code, decisions and deadlines use the clock as read before the listing.
  A uid may vanish from the INBOX and come back before the next listing, which is
  what a new UIDVALIDITY amounts to, since nobody compares it. `OpenSpec` is the same
  loop as a part of something larger: mail comes and goes in any way, calls also fail
  because of others, and the VM is also replaced. `Heartbeat` and `System` implement it.
* `System`: the watcher's call is split into `Request` (the POST reaches a thread),
  the run in `Server`, and `Response` (what the status means to `step`); `GiveUp` is
  the timeout, the lost answer or the dead instance, after which the run may go on.
  `remaining` is computed where the loop over the listing ends; `later` holds the
  messages that `result.retry_later` counts in the run of a thread. The watcher's
  INBOX is `Listed`, since it skips the forwarder's keywords.
* `Attended`: a step of a command (`Operator`) is one of `Cli`, at any time; the
  service and the watcher notice it only by what it leaves on the mail. A `sync` by
  hand takes no lock and is no part of it: it is one more process of `Forwarder`.
* `Heartbeat`: `Budget` is what `touch()` was given before the operation the loop is
  in; an operation may also never end (`Hang`). `Probed` evaluates the probes that
  fall into the operation's duration. `UnhealthyAfter` failed probes in a row
  replace the VM (`Replace`), which starts with nothing remembered.
* `Settings`: an environment is a record of the three keywords and of what else may
  be wrong with it. `StartForwarder` reads it in the order of
  `ForwarderSettings.from_env` and `build_forwarder` and stops where they raise.
  `Resolves` are the secrets read from the environment by then, `Parses` what
  `json.loads` has found in one of them. `known` is what of it has been registered:
  the former at once, the latter only when no key is missing, so that an incomplete
  `GMAIL_OAUTH_JSON` leaves credentials parsed that `redact` does not know. `exposed`
  is what an exception may echo: before the forwarder is built nothing but the text
  given to `json.loads`, and everything afterwards; the two can differ.
  `names` is history: every name a marker has had. `RunForwarder` is a run as far as
  keywords decide, `ClientMarks` a mail client that sets a keyword of its own.

## Runs

| run | checks | result |
|---|---|---|
| `fwd_single` | type, `TrashIsInGmail`, `MarkersAreTrue`, `HiddenIsKept`, `DuplicatesArePaid`, `NothingVanishes`, `NeverResent`, `SettledAtReturn`, `BlamedOnlyOnVerdict`, `ImplementsDelivery` | hold |
| `fwd_live` | `GoodMailIsDelivered`, `OversizedMailIsParked` under fairness | hold |
| `fwd_starved` | `GoodMailIsDelivered` with a head of rejected mail | violated: finding 3 |
| `fwd_failed_in_gmail` | `FailedIsNotInGmail` | violated: finding 4 |
| `cli_retry` | `RetryRequeues` | violated: finding 1 |
| `cli_list` | `ListIsRight` | violated: finding 2 |
| `srv_rollout` | type, `LockIsHeld`, `OneRunAtATime`, `DuplicatesPerInstance`, `BlamedOnlyOnVerdict`, `ImplementsDelivery`, with runs of two instances that overlap | hold |
| `system` | `LockIsHeld`, `OneRunAtATime`, `AnsweredMailIsSettled`; `MailIsDelivered`, `QuietWhenDone`, `LockIsReturned` under fairness | hold |
| `attended` | type, `DuplicatesArePaid`, `MarkersAreTrue`, `NotInGmailIsPaid`, `ProofIsKept` beside the watcher and the operator; `RequeuedMailIsPickedUp` under fairness | hold |
| `watch` | type, `BacksOff`, `WorkingIsNotReplaced`, `EveryMailIsReported`, `StuckIsReplaced` under fairness | hold |
| `watch_overflow` | `BacksOff` with the program's own delays | violated: finding 5 |
| `settings` | `KeywordsKeepTheirMeaning`, `SentOnce`, `NothingLeaks` | hold |

Bounds. Three messages in `fwd_single` are the fewest with one that its owner
takes away, one he flags `\Deleted` and one in between, and reach the breaker's
threshold of 2 with one accepted message beside it.
`MaxFaults` counts errors, lost replies and crashes together: two allow every pair
(lost reply then failing keyword, failing keyword then crash, two lost replies).
What is proved (below) has no such limit. `fwd_live` has four messages, one of each kind that
could block the queue: always to be retried, accepted, not to be fetched (until its
owner takes it) and too large, with a budget of two messages per run and two
processes that may race to create the label. `srv_rollout` has a message that may be
accepted, rejected or too large, two instances, two threads on one of them (which are
interchangeable, hence the symmetry) and two faults, so that a restart can meet an
exception and an overlapping run a lost reply; with a single message the breaker's
threshold is 1, which one rejection reaches. `system` has one oversized and one good message, one instance with two
threads (so that a call can meet the run of a call that was given up on) and two
faults anywhere, and polls instead of using IDLE. `attended` has
a good message and one that Gmail may reject, an instance with one thread (how
calls on two threads meet is the subject of `system`), one fault, and a budget of two
messages per run; with a budget of one, an operator who marks and clears the first
message for ever could keep every run busy with it. `watch` uses a unit of thirty
seconds, the program's timeouts, operations that take one unit or as long as the
timeouts of their round trips allow, counts failures up to 5 and has two faults;
`watch_overflow` uses the program's numbers in seconds and counts up to 1030.
`settings` has seventeen environments over any number of starts: three that are
accepted and differ in the case or the name of a keyword, and fourteen that are
refused, each for a reason of its own (a `GMAIL_OAUTH_JSON` that lacks either of its
credentials, or `client_id`, among them). Of the four credentials one contains two
others, and one begins like another; texts are cut at every place.

Servers. `fwd_single` has a server without MOVE that ignores NOT KEYWORD,
`srv_rollout` one with MOVE that ignores it too, `system` and `attended` one with MOVE
that honours it, `fwd_live` quarantines into folders, so the
alternatives of `move_to_folder`, `list_inbox_uids` and `_quarantine` are all met.
A server with neither MOVE nor UIDPLUS only ever aborts and is left to the proofs,
which hold for every value of these constants.

Fairness. `FairSpec`: a run once started goes on, and is started again while mail
waits: every socket has a timeout, and the watcher calls again. That this is what
the watcher provides is checked in `system`, whose `FairSystem` assumes only that
the watcher's loop and the threads of the service go on; so does `FairAttended`,
where the operator may do anything or nothing. `FairHeartbeat`: the loop
goes on unless it hangs, and time and the health check always do. Crashes, lost
sessions, hangs and restarts are never fair and bounded by `MaxFaults`; failing
`/sync` calls are not bounded in `watch`. Nothing is assumed about arrivals. In
`Watcher` no operation takes no time at all, else a behaviour could consist of
infinitely many pushes in one instant.

## Findings

1. `retry` on a message with both quarantine keywords clears one, prints "cleared;
   it will be picked up by the next run", and the message stays quarantined. It gets
   both when `mark-failed` marks a message the forwarder has just fetched and the
   inserted keyword then cannot be confirmed.
2. Of such a message `list` says "not in Gmail": it takes the first quarantine
   keyword it finds, the failed one, and then asks only for the inserted keyword
   (`cli.py:45-51`), although the unverified keyword beside it says that the message
   is in Gmail.
3. "Never block the queue" (`forwarder.py:17-18`) does not hold together with the
   breaker and the time budget: as many rejected messages as the threshold, when a
   run's budget is used up on them, starve the mail behind them for ever. (That the
   breaker stays tripped while only rejected mail is there is documented; that mail
   behind it is not tried either is not.)
4. `$GmailFailed` does not imply "NOT in Gmail": a lost reply followed by a
   permanent rejection of the same message marks a message Gmail holds.
5. `BASE_BACKOFF * 2 ** (failures - 1)` is computed before it is capped and raises
   `OverflowError` at the 1025th failure in a row, after about a week of outage:
   from then on the watcher reconnects after five seconds and calls again, without
   any backoff.

Observations that are no findings:

* `mark-failed` prints "it will be skipped from now on" also for a message a running
  forwarder has fetched and then delivers.
* The test of `_not_before` in `step` never decides anything in `run_forever`, which
  always sleeps through the delay it was given.
* A listing is four round trips when the server refuses its criteria and the session
  is then lost, each with a timeout of its own: up to 240 s against a budget of
  180 s. `/healthz` may then answer 503 to one probe, not to the three in a row that
  replace the VM (`WorkingIsNotReplaced`). In general an operation may exceed its
  budget by two check intervals without harm (`Tolerated`).
* As many messages that Gmail always puts off (5xx, 429) as a time budget lasts for
  keep the mail behind them from being tried, since every run starts at the oldest
  message and nothing remembers how often one was tried. It is finding 3 with another
  cause; `GoodMailIsDelivered` is checked with fewer such messages.
* "Every secret value this process has loaded" (`secrets.py:8`) is not quite true of
  the credentials of a `GMAIL_OAUTH_JSON` that lacks a key: they are parsed and not
  registered (`config.py:137-142`). No text shows them, which is what `NothingLeaks`
  rests on there.
* A message that cannot be fetched aborts every run at its place; the mail behind it
  waits until its owner removes it. `GoodMailIsDelivered` says so.
* With `TIME_BUDGET_SECONDS` 0, which no check refuses, or a session that opens more
  slowly than the budget lasts, every run ends before its first message.
* Against a server that ignores NOT KEYWORD the watcher never sees an empty INBOX
  while there is quarantined mail, and calls for ever; the forwarder then skips it.
* Renaming a keyword makes the forwarder send again what carries the old name
  (`SentOnce`); giving a marker the old name of another one would make it misread
  older mail, which nothing in the program could notice (`NotReused`).

## Proofs

Everything is proved by TLAPS for all values of the constants allowed by the named
assumptions (`UidAssumption`, `MailboxAssumption`, `GmailAssumption`,
`ForwarderAssumption`, `CliAssumption`, `ServerAssumption`, `WatcherAssumption`,
`HeartbeatAssumption`, `SettingsAssumption`), that is for any number of messages,
processes, threads, instances, environments and faults, and all delays.
`PowersAreNatural` states for the prover, which has no rule for `^`, that the sixteen
powers of two the backoff uses are numbers; TLC evaluates it.

* `ForwarderProofs!TypeCorrect`: `Spec => []TypeOK`. The conjunct "a process that is
  working has a message" makes it inductive and is used everywhere else.
* `ForwarderSafety`: the inductive invariant is `Safe == TypeOK /\ Truth /\ Custody`.
  - `Truth` is `MarkersAreTrue`, `TrashIsInGmail` and `WorkIsTrue`: the first two say
    something of markers already set, the third of a process on its way to set one
    (between the accepted insert and the keyword, or towards any folder but the one
    for failed mail), which is what their preservation needs.
  - `Custody` is `HiddenIsKept` and `WorkIsKept`: every message a run remembers has
    arrived, and one about to be hidden or expunged already lies in another folder.
    It carries `HiddenIsKept` and the action property `NothingVanishes`.

  The theorems are `OnlyDeliveredMailIsTrashed`, `MarkersTellTheTruth`,
  `HiddenMailIsKept` and `NoMailVanishes`. The key lemma for overlapping processes
  is `StepAlone`: a step of one run leaves the variables of all others alone.
* `PromiseProofs`: `ForwarderImplementsDelivery` (every step of the forwarder is a
  step of `Delivery` or none, given `Safe`) and `NothingIsLost`. For
  `OnlyTheRejectedIsBlamed` and `RejectionsAreSettled` the invariant is `Judged`, what
  a run remembers of its rejections: on its way to "Failed", or with something left
  to settle, it is at the settling, what is left and what it works on was
  `Condemned` there, and everything condemned is left, worked on or out of the
  queue. The last part needs `Fades`: what has once left the queue never comes back,
  whatever other runs do to it.
* `DuplicateProofs`: the bound on copies. What is inductive is an account
  (`Ledger`): while a message in the INBOX is without the inserted keyword (`Open`),
  its copies are paid for by faults, but for one of each run that has yet to mark it
  (`Taggers`); and its copies together with the runs about to send it (`Senders`)
  never exceed faults plus the number of runs that may be at work (`cap`). A fetch
  admits a run only to an open message, an accepted insert moves it from one set to
  the other (`Books`), a keyword closes the message or is a fault, and nothing that
  was closed opens again (`OpenFades`). `LinkUp` is needed because a keyword that
  failed in a dead session would cost no fault. `Open` ignores the quarantine
  keywords on purpose: a message with one is not sent, but its account goes on, so
  that the operator who clears the keyword finds it right. For the forwarder `cap` is
  the number of processes (`ForwarderPaysDuplicates`); processes have to be finite.
  `OneProcessNeverResends` is about a single process: what it is about to send
  carries no keyword (`Unmarked`), since it saw none when it fetched the message and
  there is no other run (`Lone`) to set one.
* `ServerProofs`: `LockIsHeldExactly` is the inductive invariant of the lock, and
  `RunsExclude` follows: two runs of one instance never overlap. All the rest is
  proved once of `ServiceSpec`, what the mail and the runs can see of the service:
  steps of the forwarder, the deaths of instances, faults of the other parts, and
  that runs of one instance exclude each other. `ServerSpec` and `SystemSpec` both
  imply it (`ServiceImplemented`), so that each of these holds for the server and for
  the whole system with its watcher: the promises of the forwarder
  (`ServerKeepsPromises`, `SystemKeepsPromises`), the refinement
  (`SystemImplementsDelivery`), and the two that rest on the lock.
  `ServerPaysDuplicates` and `SystemPaysDuplicates` have the number of instances for
  `cap`, by `RunsExclude` and the pigeonhole principle (a restart is a fault and takes
  one run with it; threads and instances have to be finite).
  `OneInstanceNeverResends` says that with one instance a message with a keyword is
  never sent again, however many threads it has.
* `ServerProofs!AnswersAreTrue` is `AnsweredMailIsSettled`. The invariant `Heeding`
  says of the run the watcher waits for that whatever it had reported and is still
  queued is accounted for (`Accounted`): in what is left of the listing, among the
  rejections, put off, or worked on; and once rejections are settled, in what is left
  to settle, unless the answer will be an error or say that mail remains (`Admits`).
  It needs `Fades`, so that nothing an overlapping run has dealt with comes back, that
  what the watcher lists has arrived, and `Waiting`, that the loop is blocked in its
  call while an answer is due. With the operator beside it the property is not
  claimed: `retry` puts mail back that a run has skipped.
* `ServerProofs!SystemIsWatched` (and `CliProofs!AttendedIsWatched`): the watcher inside
  the system is the open loop of `Watcher`. Since `System` is built from the actions of
  `Watcher` this says little of the code by itself; it is what carries `BacksOff` to the
  system. Nobody's steps exceed the faults the loop is prepared for (`RunFaults`,
  `ServerFaults`), and a request, a run and a restart of an instance are no more to it
  than mail that comes and goes.
* `CliProofs`: the operator. All is proved once of `ManagedSpec`, the commands beside
  whatever steps the mail sees of a service (`ServiceNext`), which both `CliSystem`
  (any number of overlapping runs) and `AttendedSpec` (the whole system) imply
  (`ManagedImplemented`). The invariant `CliInv` adds to `Safe` that an unverified
  keyword is being cleared only once the operator has confirmed (`Confirmation`). A
  step of a command touches nothing but quarantine keywords (`OnlyKeywords`), and never
  sets "unverified". Hence `OperatorKeepsMarkersTrue`, `OperatorKeepsMail`,
  `OperatorKeepsDelivery` and `ProofIsKeptFromOperators`, of both; and with the account
  of `DuplicateProofs` `OperatorPaysDuplicates` and `NotInGmailButForFaults` (with
  processes for `cap`), `AttendedPaysDuplicates` and `AttendedNotInGmailButForFaults`
  (with instances, since the lock excludes runs there too: `AttendedRunsExclude`). The
  two about `NotInGmailIsPaid` say what can be relied on when `list` prints "not in
  Gmail", for mail without a marker that contradicts it (finding 2 is about mail with
  one).
  `BlamedOnlyOnVerdict` and `SettledAtReturn` are not claimed here: `mark-failed`
  blames whatever the operator names, and `retry` puts rejected mail back on purpose.
* `WatcherProofs`: `WatcherTypeCorrect` and `WatcherBacksOffUntilOverflow`. The
  inductive invariant is `Backing`: the time since the last failing call and the time
  still to wait make up the delay (`Owed`) as long as the failures in a row stay below
  the power no float holds (`Counted`), and nothing is left to wait when the
  forwarder is called. The bound on the failures is part of what is proved, since the
  program counts them without any; finding 5 is what happens beyond it. All this is
  proved of `OpenSpec`, so that it holds wherever the loop is a part:
  `HeartbeatImplementsWatcher` gives `HeartbeatBacksOff` (with hangs and replaced VMs),
  and `SystemIsWatched` and `AttendedIsWatched` carry it to the system.
  This last step is made here and not by the prover, which cannot cite a theorem of an
  instantiated module that has assumptions: `WatcherAssumption`, of the delays the
  system gives its watcher, is then an assumption too.
* `WatcherProofs!WorkingIsKept`: `WorkingIsNotReplaced`, if each operation that exceeds
  its budget does so by at most `UnhealthyAfter - 1` check intervals and a budget spans
  at least one (`Tolerated`, which TLC evaluates for the operations of `watch`). The
  invariant `Healthy` says that probes keep coming a check interval apart and that
  fewer failed in a row than replace a VM. A slow operation has a probe within its
  budget that passes, and the failing ones after it are too few (`FewMoments`, which
  counts the multiples of an interval in a stretch of time by an injection).
* `SettingsProofs`: `MeaningIsKept` and `SentOnceIsKept`, for any keywords and
  environments. The invariant `Meaning` says that the names markers have had are
  apart from each other and from the reserved ones, that every flag is a name or
  reserved, and that names of "inserted" and "unverified" are on the message only if
  it is in Gmail and at least one is if it is. It rests on `NotReused`.

Only model-checked: the liveness properties (`GoodMailIsDelivered`,
`OversizedMailIsParked`, `MailIsDelivered`, `QuietWhenDone`, `LockIsReturned`,
`RequeuedMailIsPickedUp`, `EveryMailIsReported`, `StuckIsReplaced`), which are out of
the prover's reach, and `NothingLeaks`, since what `redact` leaves of a text is defined
by recursion over it.

## Not modelled

Contents, headers and Gmail flags of a message; `fetch_headers` and all printing;
the choice of the Trash folder by its special use; `WatcherSettings.from_env`, which
makes the same checks as the forwarder's; `RedactingFilter`, which applies the
`redact` of `Secrets` to log records; fetching a secret from Secret Manager; the
startup grace of `Heartbeat`, which spans only the moments before the first
`touch()`; deployment, workflows and the OAuth helper, which are run by hand or by
GitHub. A server that forgets a keyword it confirmed, or Gmail losing a message it
accepted, is outside what the code can defend against.

## Plan

The modules are complete as far as the code has state that matters, and every
safety and action property of a passing run but `NothingLeaks` is a theorem. What
could still be added:

1. A `sync` by hand inside `Attended`: a run without the lock, which `DuplicateProofs`
   allows for with one more entry of the account.
2. The safety half of the liveness properties: what `MailIsDelivered` rests on in
   each state, such as that a free lock and waiting mail always leave a step to take.
