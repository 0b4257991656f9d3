------------------------------ MODULE Mailbox ------------------------------
(***************************************************************************)
(* The iCloud account as mailtransporter/imap_client.py sees and changes   *)
(* it.  A message is named by its INBOX uid for its whole life; "place"    *)
(* says which folders hold a copy of it, "flags" which of the IMAP flags   *)
(* this program reads or writes its INBOX copy carries.                    *)
(*                                                                         *)
(* Every operator below is one IMAP command.  Its last parameter is how    *)
(* the command ended for the client: "ok", "refused" (an error, and the    *)
(* server changed nothing) or "lost" (the server did the work, the client  *)
(* saw an error).  IMAPClient raises in both of the last two cases, and    *)
(* ICloudMailbox turns whatever was raised into a MailboxError.            *)
(***************************************************************************)
EXTENDS Messages

CONSTANTS
    MoveSupport,       \* the capability move_to_folder finds: "MOVE", "UIDPLUS" or "none"
    KeywordsPersist,   \* PERMANENTFLAGS contains \* : custom keywords are kept
    SearchHonoured     \* SEARCH honours NOT KEYWORD (or fails, and is filtered here)

ASSUME MailboxAssumption ==
    /\ MoveSupport \in {"MOVE", "UIDPLUS", "none"}
    /\ KeywordsPersist \in BOOLEAN
    /\ SearchHonoured \in BOOLEAN

VARIABLES
    place,    \* place[u]: the folders that hold a copy of u ({}: not arrived)
    flags     \* flags[u]: the flags of the INBOX copy of u

Quarantine == {"failed", "unverified"}             \* the two quarantine keywords
Flag       == Quarantine \union {"inserted", "deleted"}
Folder     == {"Trash", "Failed", "Unverified"}    \* where move_to_folder moves
Place      == Folder \union {"INBOX", "Elsewhere"} \* Elsewhere: taken by its owner
Reply      == {"ok", "refused", "lost"}

MailboxInit == place = [u \in Uid |-> {}] /\ flags = [u \in Uid |-> {}]

InInbox(u) == "INBOX" \in place[u]

(* list_inbox_uids: NOT DELETED and no quarantine keyword.  A server that   *)
(* ignores the NOT KEYWORD criteria also answers with quarantined mail.     *)
Listed == {u \in Uid : /\ InInbox(u)
                       /\ "deleted" \notin flags[u]
                       /\ SearchHonoured => flags[u] \intersect Quarantine = {}}

(* STORE +FLAGS.  A uid that has left the INBOX is silently ignored.        *)
AddFlag(u, f, reply) ==
    flags' = IF InInbox(u) /\ reply # "refused"
             THEN [flags EXCEPT ![u] = @ \union {f}] ELSE flags

(* add_keyword returns only when the server confirmed the keyword.          *)
Confirmed(u, reply) == reply = "ok" /\ InInbox(u)

(* UID MOVE, atomic on the server; nothing happens to a uid that is gone.   *)
MoveMessage(u, folder, reply) ==
    place' = IF InInbox(u) /\ reply # "refused"
             THEN [place EXCEPT ![u] = (@ \ {"INBOX"}) \union {folder}] ELSE place

(* The three commands move_to_folder uses with UIDPLUS instead: COPY, STORE *)
(* +FLAGS \Deleted (AddFlag) and UID EXPUNGE, which removes this uid only.  *)
CopyMessageNowhere(u, folder, reply) == UNCHANGED place     \* mutant: the copy is not made
CopyMessage(u, folder, reply) ==
    place' = IF InInbox(u) /\ reply # "refused"
             THEN [place EXCEPT ![u] = @ \union {folder}] ELSE place

ExpungeAll(u, reply) ==                                     \* mutant: a plain EXPUNGE
    place' = [v \in Uid |-> IF "deleted" \in flags[v] THEN place[v] \ {"INBOX"} ELSE place[v]]
UidExpunge(u, reply) ==
    place' = IF "deleted" \in flags[u] /\ reply # "refused"
             THEN [place EXCEPT ![u] = @ \ {"INBOX"}] ELSE place

---------------------------------------------------------------------------
(* What other parties do to the INBOX: mail arrives with an ascending uid,  *)
(* its owner files or deletes a message with another mail client.           *)
Arrive(u) ==
    /\ place[u] = {}
    /\ \A v \in Uid : v < u => place[v] # {}
    /\ place' = [place EXCEPT ![u] = {"INBOX"}]
    /\ UNCHANGED flags

TakeAway(u) ==
    /\ InInbox(u)
    /\ place' = [place EXCEPT ![u] = (@ \ {"INBOX"}) \union {"Elsewhere"}]
    /\ UNCHANGED flags

(* The owner's client marks a message \Deleted and expunges it later, maybe *)
FlagDeleted(u) ==
    /\ InInbox(u)
    /\ "deleted" \notin flags[u]
    /\ flags' = [flags EXCEPT ![u] = @ \union {"deleted"}]
    /\ UNCHANGED place

=============================================================================
