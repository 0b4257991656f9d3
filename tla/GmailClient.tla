---------------------------- MODULE GmailClient ----------------------------
(***************************************************************************)
(* Gmail as mailtransporter/gmail_client.py uses it: messages.insert adds  *)
(* a copy of a message to the mailbox, and nothing tells two copies apart. *)
(* The label the copies get is looked up, or created, once per run.        *)
(***************************************************************************)
EXTENDS Messages

CONSTANTS
    Answer,      \* Answer[u]: the HTTP statuses Gmail may answer an insert of u with
    NumRetries,  \* num_retries: how often execute() repeats a request that failed
    LabelWanted  \* GMAIL_LABEL is not empty

NoAnswer == 0    \* the transport failed: no HTTP status at all

ASSUME GmailAssumption ==
    /\ Answer \in [Uid -> SUBSET (Nat \ {NoAnswer})]
    /\ NumRetries \in Nat
    /\ LabelWanted \in BOOLEAN

VARIABLES
    copies,  \* copies[u]: how many copies of u Gmail holds
    label    \* whether Gmail has the label, and how it is spelt there

Spelling == {"absent", "same", "othercase"}   \* "othercase": made by the owner as "icloud"

GmailInit ==
    /\ copies = [u \in Uid |-> 0]
    /\ label \in (IF LabelWanted THEN Spelling ELSE {"absent"})

(* ensure_label looks the name up in any case, as Gmail does when it refuses *)
(* (409) to create a label that exists.                                      *)
LabelFoundExactly == label = "same"     \* mutant: the case must match
LabelFound == label # "absent"

(* labels.create                                                             *)
CreatedLabel == IF label = "absent" THEN "same" ELSE label

(* classify_http_error, and the classes of _execute's other handlers        *)
Accepted(status) == status \in 200 .. 299

Auth(status) == status = 401

Permanent(status) == status \in {400, 404, 409, 410, 412, 413, 422}

RetryableCatchAll(status) == ~ (Auth(status) \/ Permanent(status))   \* mutant: retries a success
Retryable(status) == ~ (Accepted(status) \/ Auth(status) \/ Permanent(status))

(* GmailError.per_message: the status can only be about this one message    *)
PerMessageNever(status) == FALSE                 \* mutant: 413 counts against the account
PerMessage(status) == status = 413

(* insert_raw: "lost" of its attempts stored the message although their     *)
(* reply never came back (each was repeated by execute(num_retries), up to  *)
(* the last), then the call ended with "status".                            *)
InsertRaw(u, lost, status) ==
    copies' = [copies EXCEPT ![u] = @ + lost + (IF Accepted(status) THEN 1 ELSE 0)]

(* The ways a call can end, with the number of lost replies it took.        *)
Ending(u) == {e \in (0 .. NumRetries + 1) \X (Answer[u] \union {NoAnswer}) :
                  e[2] # NoAnswer => e[1] <= NumRetries}

(* A lost reply costs one fault, and so does a request that never arrives.  *)
Cost(e) == IF e[2] = NoAnswer /\ e[1] = 0 THEN 1 ELSE e[1]

=============================================================================
