-------------------------------- MODULE Cli --------------------------------
(***************************************************************************)
(* mailtransporter/cli.py: the operator's list, retry and mark-failed      *)
(* commands, run by hand while the forwarder works on the same INBOX.      *)
(* retry and mark-failed decide by what they read at their start and act   *)
(* message by message afterwards.                                          *)
(***************************************************************************)
EXTENDS Forwarder

CONSTANT MaxRequeues    \* bound: "retry --unverified --yes" commands in a behaviour

ASSUME CliAssumption == MaxRequeues \in Nat

VARIABLES
    command,   \* "none", "retry" or "mark-failed"
    keyword,   \* the keyword retry clears
    work,      \* the uids the command has still to treat
    requeues   \* how many times the operator asked for a possible duplicate

cliVars == <<command, keyword, work, requeues>>

CliInit ==
    /\ command = "none"
    /\ keyword = "failed"
    /\ work = {}
    /\ requeues = 0

(* inbox_flags leaves \Deleted mail out.                                    *)
Visible(u) == InInbox(u) /\ "deleted" \notin flags[u]

(* _collect: what "list" shows, and what it says about Gmail.               *)
ListKeyword(u) == IF "failed" \in flags[u] THEN "failed" ELSE "unverified"
SaysInGmail(u) == ListKeyword(u) = "unverified" \/ "inserted" \in flags[u]
Collected == {u \in Uid : Visible(u) /\ flags[u] \intersect Quarantine # {}}

(* _cmd_retry up to its loop: search_keyword; --all or some --uid arguments.*)
(* An argument that does not carry the keyword is skipped.                  *)
Retry(k, args) ==
    /\ command = "none"
    /\ command' = "retry"
    /\ keyword' = k
    /\ work' = {u \in args : Visible(u) /\ k \in flags[u]}
    /\ k = "unverified" => requeues < MaxRequeues
    /\ requeues' = IF k = "unverified" THEN requeues + 1 ELSE requeues

(* One turn of retry's loop: remove_keyword, confirmed by the server.  A    *)
(* uid that has left the INBOX counts as cleared.                           *)
ClearTwice(u, reply) ==                  \* mutant: every quarantine keyword goes
    flags' = IF InInbox(u) /\ reply # "refused"
             THEN [flags EXCEPT ![u] = @ \ Quarantine] ELSE flags
RemoveKeyword(u, reply) ==
    flags' = IF InInbox(u) /\ reply # "refused"
             THEN [flags EXCEPT ![u] = @ \ {keyword}] ELSE flags

Answered(reply) ==
    \/ reply = "ok" /\ UNCHANGED faults
    \/ reply # "ok" /\ faults < MaxFaults /\ faults' = faults + 1

Clear(u, reply) ==
    /\ command = "retry"
    /\ u \in work
    /\ Answered(reply)
    /\ RemoveKeyword(u, reply)
    /\ work' = IF reply = "ok" THEN work \ {u} ELSE {}
    /\ UNCHANGED <<command, keyword, requeues>>

(* _cmd_mark_failed up to its loop: the flags of the INBOX are read once,   *)
(* and a message that carries the inserted keyword is refused.              *)
MarkFailed(args) ==
    /\ command = "none"
    /\ KeywordsPersist
    /\ command' = "mark-failed"
    /\ work' = {u \in args : ~(Visible(u) /\ "inserted" \in flags[u])}
    /\ UNCHANGED <<keyword, requeues>>

(* One turn of its loop: add_keyword; a MailboxError ends the command.      *)
MarkOneUnverified(u, reply) ==           \* mutant: the other keyword
    /\ command = "mark-failed"
    /\ u \in work
    /\ Answered(reply)
    /\ AddFlag(u, "unverified", reply)
    /\ work' = IF Confirmed(u, reply) THEN work \ {u} ELSE {}
    /\ UNCHANGED <<command, keyword, requeues>>
MarkOneFailed(u, reply) ==
    /\ command = "mark-failed"
    /\ u \in work
    /\ Answered(reply)
    /\ AddFlag(u, "failed", reply)
    /\ work' = IF Confirmed(u, reply) THEN work \ {u} ELSE {}
    /\ UNCHANGED <<command, keyword, requeues>>

(* The command returns, or its operator interrupts it.                      *)
ExitUnreset ==                           \* mutant: what is left is kept
    /\ command # "none"
    /\ command' = "none"
    /\ keyword' = "failed"
    /\ UNCHANGED <<work, requeues, flags, faults>>
Exit ==
    /\ command # "none"
    /\ command' = "none"
    /\ keyword' = "failed"
    /\ work' = {}
    /\ UNCHANGED <<requeues, flags, faults>>

CliStep ==
    /\ \/ /\ \E args \in SUBSET Uid : (\E k \in Quarantine : Retry(k, args)) \/ MarkFailed(args)
          /\ UNCHANGED <<flags, faults>>
       \/ \E u \in Uid, reply \in Reply : Clear(u, reply) \/ MarkOneFailed(u, reply)
       \/ Exit
    /\ UNCHANGED <<place, copies, label, jobs>>

CliSystemInit == Init /\ CliInit
CliSystemNext == CliStep \/ (Next /\ UNCHANGED cliVars)
CliSystem == CliSystemInit /\ [][CliSystemNext]_<<vars, cliVars>>

---------------------------------------------------------------------------
(* Every variable has its type, and no work outlives its command.           *)
CliTypeOK ==
    /\ command \in {"none", "retry", "mark-failed"}
    /\ keyword \in Quarantine
    /\ work \subseteq Uid
    /\ command = "none" => work = {}
    /\ requeues \in 0 .. MaxRequeues

(* What "list" prints (cli.py:48-51, 71) agrees with the markers: a message *)
(* that carries one of the two that say "it IS in Gmail" (forwarder.py:9    *)
(* and 95) is never shown as "not in Gmail".                                *)
InGmailByMarker(u) == flags[u] \intersect {"inserted", "unverified"} # {}
ListIsRight == \A u \in Collected : InGmailByMarker(u) => SaysInGmail(u)

(* "Not in Gmail" is true of mail that is quarantined and carries neither   *)
(* of these markers: Gmail holds no copy but those a fault kept from being  *)
(* recorded and those a run has inserted and is about to record, even when  *)
(* the operator marks a message as failed while it is being inserted, and   *)
(* whatever he marks and clears afterwards.                                 *)
NotInGmailIsPaid ==
    \A u \in Collected :
        InGmailByMarker(u)
        \/ copies[u] <= faults + Cardinality({p \in Proc : pc[p] = "tag" /\ cur[p] = u})

(* The proof that a message is in Gmail (inserted or unverified) is taken   *)
(* from a message of the INBOX only after the operator has confirmed with   *)
(* --yes that a duplicate is fine (cli.py:81-87), whatever else he clears.  *)
ProofIsKept ==
    [][\A u \in Uid : InGmailByMarker(u) /\ InInbox(u)'
                      => InGmailByMarker(u)' \/ requeues > 0]_<<vars, cliVars>>

(* "retry" prints that the message "will be picked up by the next run"      *)
(* (cli.py:103): once the keyword is cleared the message is queued again.   *)
RetryRequeues ==
    [][\A u \in Uid : Clear(u, "ok") => (Queued(u)' \/ ~InInbox(u)')]_<<vars, cliVars>>

=============================================================================
