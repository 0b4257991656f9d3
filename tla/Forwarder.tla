----------------------------- MODULE Forwarder -----------------------------
(***************************************************************************)
(* mailtransporter/forwarder.py: Forwarder.run() and what it calls, as one *)
(* or more processes (two revisions of the service, or the command line    *)
(* beside the service) working on the same INBOX and the same Gmail        *)
(* account.  One step is one network round trip or one decision of the     *)
(* loop; between two steps anything else may happen, a crash included.     *)
(***************************************************************************)
EXTENDS Mailbox, GmailClient, FiniteSets

CONSTANTS
    Proc,            \* the processes that run the forwarder
    Threshold,       \* rejection_threshold (0: no circuit breaker)
    QuarantineMode,  \* "keyword" or "folder"
    MinPerRun,       \* the time budget lasts at least this many messages
    Unfetchable,     \* messages whose FETCH always fails while they are in the INBOX
    OwnerTakes,      \* messages their owner may take out of the INBOX
    OwnerDeletes,    \* messages their owner may flag \Deleted
    MaxFaults        \* bound: errors, lost replies and crashes in a behaviour

ASSUME ForwarderAssumption ==
    /\ Threshold \in Nat
    /\ QuarantineMode \in {"keyword", "folder"}
    /\ MinPerRun \in Nat
    /\ MaxFaults \in Nat

VARIABLES
    pc,          \* where a process is
    todo,        \* uids: what is left of the listing
    spent,       \* how many messages of the listing the run has begun
    cur,         \* the message being worked on
    dest,        \* the folder cur is on its way to
    suspicious,  \* rejected, the entries that are not per_message
    oversized,   \* rejected, the per_message entries
    settling,    \* what _settle_rejections has still to quarantine
    forwarded,   \* result.forwarded > 0
    error,       \* result.error is set
    link,        \* the IMAP connection works
    faults       \* how many faults have happened

env == <<place, flags, copies, label, faults>>
jobs == <<pc, todo, spent, cur, dest, suspicious, oversized, settling,
          forwarded, error, link>>
vars == <<env, jobs>>

Location == {"idle", "label", "create", "list", "next", "insert", "tag", "mark", "move",
             "delete", "expunge", "settle"}

Init ==
    /\ MailboxInit
    /\ GmailInit
    /\ faults = 0
    /\ pc = [p \in Proc |-> "idle"]
    /\ todo = [p \in Proc |-> {}]
    /\ spent = [p \in Proc |-> 0]
    /\ cur = [p \in Proc |-> NoUid]
    /\ dest = [p \in Proc |-> "Trash"]
    /\ suspicious = [p \in Proc |-> {}]
    /\ oversized = [p \in Proc |-> {}]
    /\ settling = [p \in Proc |-> {}]
    /\ forwarded = [p \in Proc |-> FALSE]
    /\ error = [p \in Proc |-> FALSE]
    /\ link = [p \in Proc |-> FALSE]

---------------------------------------------------------------------------
(* How the next IMAP command of p ends.  After an error the session may be  *)
(* unusable ("the caller should assume the connection is unusable"): then   *)
(* every later command of the run is refused.                               *)
Command(p, reply) ==
    \/ /\ link[p] /\ reply = "ok"
       /\ UNCHANGED <<faults, link>>
    \/ /\ ~link[p] /\ reply = "refused"
       /\ UNCHANGED <<faults, link>>
    \/ /\ link[p] /\ reply # "ok"
       /\ faults < MaxFaults
       /\ faults' = faults + 1
       /\ \E up \in BOOLEAN : link' = [link EXCEPT ![p] = up]

Next1(S, u) == u \in S /\ \A v \in S : u <= v     \* u is the first uid of S

Goto(p, l) == pc' = [pc EXCEPT ![p] = l]

AimBlindly(p, u, l) == UNCHANGED cur /\ Goto(p, l)     \* mutant: the message is not remembered
Aim(p, u, l) == cur' = [cur EXCEPT ![p] = u] /\ Goto(p, l)

(* run() returns, or the process dies: its local variables are gone.        *)
Finish(p, err) ==
    /\ Aim(p, NoUid, "idle")
    /\ todo' = [todo EXCEPT ![p] = {}]
    /\ spent' = [spent EXCEPT ![p] = 0]
    /\ dest' = [dest EXCEPT ![p] = "Trash"]
    /\ suspicious' = [suspicious EXCEPT ![p] = {}]
    /\ oversized' = [oversized EXCEPT ![p] = {}]
    /\ settling' = [settling EXCEPT ![p] = {}]
    /\ forwarded' = [forwarded EXCEPT ![p] = FALSE]
    /\ error' = [error EXCEPT ![p] = err]

(* The circuit breaker of _settle_rejections.                               *)
Tripped(p) ==
    /\ Threshold > 0
    /\ Cardinality(suspicious[p]) >= Threshold
    /\ ~forwarded[p]

(* The loop over the listing is left (done, out of time, or AbortRun): what *)
(* was rejected is settled now, unless the breaker spares it.               *)
LeaveLoopUnsettled(p, err) ==        \* mutant: an aborted run settles nothing
    /\ Aim(p, NoUid, "settle")
    /\ todo' = [todo EXCEPT ![p] = {}]
    /\ settling' = [settling EXCEPT ![p] =
           IF err THEN {} ELSE oversized[p] \union (IF Tripped(p) THEN {} ELSE suspicious[p])]
    /\ error' = [error EXCEPT ![p] = err \/ Tripped(p)]
    /\ UNCHANGED <<spent, dest, suspicious, oversized, forwarded>>
LeaveLoopUnbroken(p, err) ==         \* mutant: the breaker only reports, it spares nothing
    /\ Aim(p, NoUid, "settle")
    /\ todo' = [todo EXCEPT ![p] = {}]
    /\ settling' = [settling EXCEPT ![p] = oversized[p] \union suspicious[p]]
    /\ error' = [error EXCEPT ![p] = err \/ Tripped(p)]
    /\ UNCHANGED <<spent, dest, suspicious, oversized, forwarded>>
LeaveLoop(p, err) ==
    /\ Aim(p, NoUid, "settle")
    /\ todo' = [todo EXCEPT ![p] = {}]
    /\ settling' = [settling EXCEPT ![p] =
           oversized[p] \union (IF Tripped(p) THEN {} ELSE suspicious[p])]
    /\ error' = [error EXCEPT ![p] = err \/ Tripped(p)]
    /\ UNCHANGED <<spent, dest, suspicious, oversized, forwarded>>

---------------------------------------------------------------------------
(* run(): open a session, require_keywords.                                 *)
Connect(p) ==
    /\ pc[p] = "idle"
    /\ \/ /\ KeywordsPersist
          /\ Goto(p, "label")
          /\ error' = [error EXCEPT ![p] = FALSE]
          /\ link' = [link EXCEPT ![p] = TRUE]
          /\ UNCHANGED faults
       \/ /\ KeywordsPersist => faults < MaxFaults
          /\ faults' = IF KeywordsPersist THEN faults + 1 ELSE faults
          /\ error' = [error EXCEPT ![p] = TRUE]
          /\ UNCHANGED <<pc, link>>
    /\ UNCHANGED <<place, flags, copies, label, todo, spent, cur, dest, suspicious,
                   oversized, settling, forwarded>>

(* run(): gmail_factory and ensure_label, up to the listing of the labels;  *)
(* a GmailError ends the run here.                                          *)
EnsureLabel(p) ==
    /\ pc[p] = "label"
    /\ \/ /\ Goto(p, IF LabelWanted => LabelFound THEN "list" ELSE "create")
          /\ UNCHANGED <<faults, todo, spent, cur, dest, suspicious, oversized,
                         settling, forwarded, error>>
       \/ /\ faults < MaxFaults
          /\ faults' = faults + 1
          /\ Finish(p, TRUE)
    /\ UNCHANGED <<place, flags, copies, label, link>>

(* ensure_label when there was none: somebody else may have been faster, or *)
(* the reply is lost although the label was made (a repeated request then   *)
(* finds it there): both end the run.                                       *)
CreateLabel(p) ==
    /\ pc[p] = "create"
    /\ \/ /\ label = "absent"
          /\ label' = CreatedLabel
          /\ Goto(p, "list")
          /\ UNCHANGED <<faults, todo, spent, cur, dest, suspicious, oversized,
                         settling, forwarded, error>>
       \/ /\ label # "absent"
          /\ Finish(p, TRUE)
          /\ UNCHANGED <<label, faults>>
       \/ /\ faults < MaxFaults
          /\ faults' = faults + 1
          /\ label' \in {label, CreatedLabel}
          /\ Finish(p, TRUE)
    /\ UNCHANGED <<place, flags, copies, link>>

(* run(): list_inbox_uids.                                                  *)
List(p) ==
    /\ pc[p] = "list"
    /\ \E reply \in {"ok", "refused"} :
          /\ Command(p, reply)
          /\ \/ /\ reply = "ok"
                /\ Goto(p, "next")
                /\ todo' = [todo EXCEPT ![p] = Listed]
                /\ UNCHANGED <<spent, cur, dest, suspicious, oversized,
                               settling, forwarded, error>>
             \/ /\ reply = "refused"
                /\ Finish(p, TRUE)
    /\ UNCHANGED <<place, flags, copies, label>>

(* The head of the loop: nothing left, or the time budget is used up.       *)
EndOfList(p) ==
    /\ pc[p] = "next"
    /\ todo[p] = {} \/ spent[p] >= MinPerRun
    /\ LeaveLoop(p, FALSE)
    /\ UNCHANGED <<env, link>>

(* _process up to the insert: fetch_message and what its flags decide.      *)
(* A message that is gone or quarantined is skipped; one that is inserted   *)
(* only needs trashing.                                                     *)
SkippedIfGone(u) == ~InInbox(u)       \* mutant: no second look at the quarantine keywords
Skipped(u) == ~InInbox(u) \/ flags[u] \intersect Quarantine # {}

HasAnyFlag(u)  == flags[u] # {}      \* mutant: any flag is taken for the keyword
HasInserted(u) == "inserted" \in flags[u]

(* How FETCH ends.  Of a message that cannot be fetched it always fails,    *)
(* which is no fault of the moment, and may leave the session unusable.     *)
FetchEnds(p, u, reply) ==
    \/ /\ u \notin Unfetchable \/ ~InInbox(u)
       /\ Command(p, reply)
    \/ /\ u \in Unfetchable /\ InInbox(u)
       /\ reply = "refused"
       /\ \E up \in {link[p], FALSE} : link' = [link EXCEPT ![p] = up]
       /\ UNCHANGED faults

Fetch(p) ==
    /\ pc[p] = "next"
    /\ \E u \in Uid, reply \in {"ok", "refused"} :
          /\ Next1(todo[p], u)
          /\ FetchEnds(p, u, reply)
          /\ \/ /\ reply = "refused"
                /\ LeaveLoop(p, TRUE)
             \/ /\ reply = "ok"
                /\ todo' = [todo EXCEPT ![p] = @ \ {u}]
                /\ spent' = [spent EXCEPT ![p] = @ + 1]
                /\ \/ Skipped(u) /\ UNCHANGED <<pc, cur, dest>>
                   \/ /\ ~Skipped(u)
                      /\ ~HasInserted(u)
                      /\ Aim(p, u, "insert")
                      /\ UNCHANGED dest
                   \/ /\ ~Skipped(u)
                      /\ HasInserted(u)
                      /\ Aim(p, u, "move")
                      /\ dest' = [dest EXCEPT ![p] = "Trash"]
                /\ UNCHANGED <<suspicious, oversized, settling, forwarded, error>>
    /\ UNCHANGED <<place, flags, copies, label>>

(* _process: gmail.insert_raw and the handlers of its errors.               *)
Insert(p) ==
    /\ pc[p] = "insert"
    /\ \E e \in Ending(cur[p]) :
          /\ faults + Cost(e) <= MaxFaults
          /\ faults' = faults + Cost(e)
          /\ InsertRaw(cur[p], e[1], e[2])
          /\ \/ /\ Accepted(e[2])
                /\ Goto(p, "tag")
                /\ forwarded' = [forwarded EXCEPT ![p] = TRUE]
                /\ UNCHANGED <<todo, spent, cur, dest, suspicious, oversized, settling, error>>
             \/ /\ Auth(e[2])
                /\ LeaveLoop(p, TRUE)
             \/ /\ Retryable(e[2])
                /\ Aim(p, NoUid, "next")
                /\ UNCHANGED <<todo, spent, dest, suspicious, oversized, settling, forwarded, error>>
             \/ /\ Permanent(e[2])
                /\ Aim(p, NoUid, "next")
                /\ suspicious' = IF PerMessage(e[2]) THEN suspicious
                                 ELSE [suspicious EXCEPT ![p] = @ \union {cur[p]}]
                /\ oversized' = IF PerMessage(e[2])
                                THEN [oversized EXCEPT ![p] = @ \union {cur[p]}] ELSE oversized
                /\ UNCHANGED <<todo, spent, dest, settling, forwarded, error>>
    /\ UNCHANGED <<place, flags, label, link>>

(* Where _quarantine begins: with the keyword, or with the folder.          *)
QuarantineStart == IF QuarantineMode = "keyword" THEN "mark" ELSE "move"

(* _process: add_keyword(inserted); if that fails, _quarantine as unverified *)
Tag(p) ==
    /\ pc[p] = "tag"
    /\ \E reply \in Reply :
          /\ Command(p, reply)
          /\ AddFlag(cur[p], "inserted", reply)
          /\ IF Confirmed(cur[p], reply)
             THEN Goto(p, "move") /\ dest' = [dest EXCEPT ![p] = "Trash"]
             ELSE Goto(p, QuarantineStart) /\ dest' = [dest EXCEPT ![p] = "Unverified"]
    /\ UNCHANGED <<place, copies, label, todo, spent, cur, suspicious, oversized,
                   settling, forwarded, error>>

(* cur is dealt with: back to the loop it belongs to.                       *)
Done(p) ==
    /\ Aim(p, NoUid, IF dest[p] = "Failed" THEN "settle" ELSE "next")
    /\ UNCHANGED <<todo, spent, dest, suspicious, oversized, settling, forwarded, error>>

(* AbortRun: it leaves the loop over the listing, or _settle_rejections.    *)
Abort(p) == IF dest[p] = "Failed" THEN Finish(p, TRUE) ELSE LeaveLoop(p, TRUE)

(* _quarantine: add_keyword; if that fails, the folder is the fallback.     *)
QuarantineKeywordSwapped(p) == IF dest[p] = "Failed" THEN "unverified" ELSE "failed"  \* mutant
QuarantineKeyword(p) == IF dest[p] = "Failed" THEN "failed" ELSE "unverified"

Mark(p) ==
    /\ pc[p] = "mark"
    /\ \E reply \in Reply :
          /\ Command(p, reply)
          /\ AddFlag(cur[p], QuarantineKeyword(p), reply)
          /\ \/ /\ Confirmed(cur[p], reply)
                /\ Done(p)
             \/ /\ ~Confirmed(cur[p], reply)
                /\ Goto(p, "move")
                /\ UNCHANGED <<todo, spent, cur, dest, suspicious, oversized,
                               settling, forwarded, error>>
    /\ UNCHANGED <<place, copies, label>>

(* move_to_folder (and move_to_trash): the lookups and the first command.   *)
Move(p) ==
    /\ pc[p] = "move"
    /\ \E reply \in Reply :
          /\ Command(p, reply)
          /\ \/ /\ MoveSupport = "MOVE"
                /\ MoveMessage(cur[p], dest[p], reply)
                /\ \/ reply = "ok" /\ Done(p)
                   \/ reply # "ok" /\ Abort(p)
             \/ /\ MoveSupport = "UIDPLUS"
                /\ CopyMessage(cur[p], dest[p], reply)
                /\ \/ /\ reply = "ok"
                      /\ Goto(p, "delete")
                      /\ UNCHANGED <<todo, spent, cur, dest, suspicious, oversized,
                                     settling, forwarded, error>>
                   \/ reply # "ok" /\ Abort(p)
             \/ /\ MoveSupport = "none"
                /\ Abort(p)
                /\ UNCHANGED place
    /\ UNCHANGED <<flags, copies, label>>

(* move_to_folder with UIDPLUS: add_flags \Deleted, then uid_expunge.       *)
Delete(p) ==
    /\ pc[p] = "delete"
    /\ \E reply \in Reply :
          /\ Command(p, reply)
          /\ AddFlag(cur[p], "deleted", reply)
          /\ \/ /\ reply = "ok"
                /\ Goto(p, "expunge")
                /\ UNCHANGED <<todo, spent, cur, dest, suspicious, oversized,
                               settling, forwarded, error>>
             \/ reply # "ok" /\ Abort(p)
    /\ UNCHANGED <<place, copies, label>>

Expunge(p) ==
    /\ pc[p] = "expunge"
    /\ \E reply \in Reply :
          /\ Command(p, reply)
          /\ UidExpunge(cur[p], reply)
          /\ \/ reply = "ok" /\ Done(p)
             \/ reply # "ok" /\ Abort(p)
    /\ UNCHANGED <<flags, copies, label>>

(* _settle_rejections: the next rejected message, or the end of the run.    *)
SettleMisfiled(p) ==                 \* mutant: the folder for unverified mail
    /\ pc[p] = "settle"
    /\ \E u \in Uid :
          /\ Next1(settling[p], u)
          /\ settling' = [settling EXCEPT ![p] = @ \ {u}]
          /\ Aim(p, u, QuarantineStart)
    /\ dest' = [dest EXCEPT ![p] = "Unverified"]
    /\ UNCHANGED <<env, todo, spent, suspicious, oversized, forwarded, error, link>>
Settle(p) ==
    /\ pc[p] = "settle"
    /\ \E u \in Uid :
          /\ Next1(settling[p], u)
          /\ settling' = [settling EXCEPT ![p] = @ \ {u}]
          /\ Aim(p, u, QuarantineStart)
    /\ dest' = [dest EXCEPT ![p] = "Failed"]
    /\ UNCHANGED <<env, todo, spent, suspicious, oversized, forwarded, error, link>>

Close(p) ==
    /\ pc[p] = "settle"
    /\ settling[p] = {}
    /\ Finish(p, error[p])
    /\ UNCHANGED <<env, link>>

(* The process dies, or an exception nobody handles ends the run unsettled. *)
Crash(p) ==
    /\ pc[p] # "idle"
    /\ faults < MaxFaults
    /\ faults' = faults + 1
    /\ Finish(p, TRUE)
    /\ UNCHANGED <<place, flags, copies, label, link>>

Step(p) ==
    \/ Connect(p) \/ EnsureLabel(p) \/ CreateLabel(p) \/ List(p) \/ EndOfList(p) \/ Fetch(p)
    \/ Insert(p) \/ Tag(p) \/ Mark(p) \/ Move(p) \/ Delete(p) \/ Expunge(p)
    \/ Settle(p) \/ Close(p)

NewMail == \E u \in Uid : Arrive(u) /\ UNCHANGED <<copies, label, faults, jobs>>

Owner ==
    \/ \E u \in OwnerTakes \intersect Uid : TakeAway(u) /\ UNCHANGED <<copies, label, faults, jobs>>
    \/ \E u \in OwnerDeletes \intersect Uid : FlagDeleted(u) /\ UNCHANGED <<copies, label, faults, jobs>>

Next ==
    \/ \E p \in Proc : Step(p) \/ Crash(p)
    \/ NewMail
    \/ Owner

Spec == Init /\ [][Next]_vars

(* A run is started again and again (the watcher re-triggers while mail is  *)
(* left) and, once started, keeps going; crashes and new mail are not fair. *)
FairSpec == Spec /\ \A p \in Proc : WF_vars(Step(p))

---------------------------------------------------------------------------
(* Every variable has its type; a process that works on a message has one.  *)
WorldTypeOK ==
    /\ place \in [Uid -> SUBSET Place]
    /\ flags \in [Uid -> SUBSET Flag]
    /\ copies \in [Uid -> Nat]

ChanceTypeOK ==
    /\ faults \in Nat
    /\ link \in [Proc -> BOOLEAN]

RunTypeOK ==
    /\ todo \in [Proc -> SUBSET Uid]
    /\ spent \in [Proc -> Nat]
    /\ suspicious \in [Proc -> SUBSET Uid]
    /\ oversized \in [Proc -> SUBSET Uid]
    /\ settling \in [Proc -> SUBSET Uid]
    /\ forwarded \in [Proc -> BOOLEAN]
    /\ error \in [Proc -> BOOLEAN]

Working == {"insert", "tag", "mark", "move", "delete", "expunge"}

StepTypeOK ==
    /\ pc \in [Proc -> Location]
    /\ cur \in [Proc -> Uid \union {NoUid}]
    /\ dest \in [Proc -> Folder]
    /\ \A p \in Proc : pc[p] \in Working => cur[p] \in Uid

LabelTypeOK == label \in Spelling

TypeOK == WorldTypeOK /\ ChanceTypeOK /\ RunTypeOK /\ StepTypeOK /\ LabelTypeOK

(* "Only mail confirmed to be in Gmail goes to the Trash" (README, 3.): a   *)
(* message in the Trash has a copy in Gmail, whatever failed on the way and *)
(* however many processes worked on it.                                     *)
TrashIsInGmail == \A u \in Uid : "Trash" \in place[u] => copies[u] > 0

(* The markers of forwarder.py:92-97 and 9: a message that carries the      *)
(* inserted or the unverified keyword, or lies in the unverified folder, is *)
(* in Gmail, so that skipping its insert can never lose it.                 *)
MarkersAreTrue ==
    \A u \in Uid : \/ flags[u] \intersect {"inserted", "unverified"} # {}
                   \/ "Unverified" \in place[u]
                   => copies[u] > 0

(* The forwarder hides a message from its owner's INBOX (sets \Deleted on   *)
(* it) only when move_to_folder has already copied it into a folder: a      *)
(* crash or an error between the commands of a UIDPLUS move leaves no mail  *)
(* behind that nobody lists and nobody kept.                                *)
HiddenIsKept ==
    \A u \in Uid \ OwnerDeletes :
        "deleted" \in flags[u] => place[u] \ {"INBOX"} # {}

(* What makes the two invariants above inductive: a process on its way to   *)
(* a marker or a folder other than the one for failed mail has seen its     *)
(* message accepted, or read the inserted keyword on it.                    *)
Moving == {"mark", "move", "delete", "expunge"}
TrueAt(l, u, f) == l = "tag" \/ (l \in Moving /\ f # "Failed") => copies[u] > 0
WorkIsTrue == \A p \in Proc : TrueAt(pc[p], cur[p], dest[p])

Truth == MarkersAreTrue /\ TrashIsInGmail /\ WorkIsTrue

(* What makes HiddenIsKept inductive: every message a process knows of has  *)
(* arrived, and one about to be hidden or expunged lies elsewhere too.      *)
Arrived(u) == place[u] # {}
Kept(u)    == place[u] \ {"INBOX"} # {}
Known(p)   == todo[p] \union suspicious[p] \union oversized[p] \union settling[p]
WorkIsKept ==
    \A p \in Proc : /\ \A u \in Known(p) : Arrived(u)
                    /\ pc[p] \in Working => Arrived(cur[p])
                    /\ pc[p] \in {"delete", "expunge"} => Kept(cur[p])

Custody == HiddenIsKept /\ WorkIsKept

(* No step makes the last copy of a message leave the account: UID EXPUNGE  *)
(* purges only what this program copied, never mail its owner has flagged   *)
(* \Deleted himself.                                                        *)
NothingVanishes == [][\A u \in Uid : place[u] # {} => place'[u] # {}]_vars

(* Duplicates are paid for (forwarder.py:8-16): Gmail never holds more      *)
(* copies of a message than processes that may overlap plus faults that     *)
(* happened.  In particular one process without a fault never duplicates.   *)
DuplicatesArePaid ==
    \A u \in Uid : copies[u] <= Cardinality(Proc) + faults

(* One process never sends a message to Gmail again once the message        *)
(* carries any of the three keywords, even if the server ignores the        *)
(* NOT KEYWORD part of the listing.  (With overlapping processes only the   *)
(* bound above holds: the flags were read before the other one set them.)   *)
NeverResent ==
    [][\A u \in Uid : copies'[u] > copies[u]
                      => flags[u] \intersect {"inserted", "failed", "unverified"} = {}]_vars

(* A message is marked or filed as failed only by a run in which Gmail      *)
(* rejected that very message, and, when the rejections look like a broken  *)
(* account (as many as the threshold, nothing accepted), only if the        *)
(* rejection was about the message alone.                                   *)
BlamedOnlyOnVerdict ==
    [][\A u \in Uid :
          \/ "failed" \in flags'[u] \ flags[u]
          \/ "Failed" \in place'[u] \ place[u]
          => \E p \in Proc : /\ cur[p] = u
                             /\ u \in oversized[p] \/ (u \in suspicious[p] /\ ~Tripped(p))]_vars

(* u waits in the INBOX for the next run.                                   *)
Queued(u) == /\ InInbox(u)
             /\ flags[u] \intersect (Quarantine \union {"deleted"}) = {}

(* A run that returns through the end of _settle_rejections, even one that  *)
(* was aborted before, leaves no message it saw rejected in the queue; only *)
(* the breaker spares the suspicious ones, and then the result says so.     *)
SettledAtReturn ==
    [][\A p \in Proc :
          pc[p] = "settle" /\ pc'[p] = "idle" /\ faults' = faults
          => /\ \A u \in oversized[p] : ~Queued(u)
             /\ \/ \A u \in suspicious[p] : ~Queued(u)
                \/ Tripped(p) /\ error'[p]]_vars

(* The keyword $GmailFailed says what forwarder.py:92 says of it: "Gmail    *)
(* rejected the message; it is NOT in Gmail".                               *)
FailedIsNotInGmail == \A u \in Uid : "failed" \in flags[u] => copies[u] = 0

(* Mail Gmail accepts does not stay queued for ever, whatever mail is in    *)
(* front of it: mail to be retried, mail that is rejected, and, once its    *)
(* owner has taken it out of the queue, mail that cannot be fetched.  Mail  *)
(* before such a message is delivered although every run is aborted at it.  *)
Good(u) == Answer[u] = {200} /\ u \notin Unfetchable
Reachable(u) == Queued(u) /\ \A v \in Unfetchable \intersect Uid : v < u => ~Queued(v)
GoodMailIsDelivered ==
    \A u \in Uid :
        Good(u) => (Reachable(u) ~> (~Queued(u) /\ (copies[u] > 0 \/ "Elsewhere" \in place[u])))

(* Mail Gmail always rejects for itself alone (413) does not stay queued,   *)
(* unless mail that cannot be fetched aborts every run.                     *)
OversizedMailIsParked ==
    \A u \in Uid :
        Answer[u] = {413}
        => (Queued(u) ~> (~Queued(u) \/ \E v \in Unfetchable \intersect Uid : Queued(v)))

=============================================================================
