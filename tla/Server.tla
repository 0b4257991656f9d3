------------------------------- MODULE Server -------------------------------
(***************************************************************************)
(* mailtransporter/server.py: POST /sync around Forwarder.run().  Flask    *)
(* serves each request on a thread of its own, here an element of Proc;    *)
(* threads of one instance share its _run_lock and its forwarder, but two  *)
(* instances (two revisions during a rollout) share nothing.               *)
(***************************************************************************)
EXTENDS Forwarder

CONSTANTS
    Instance,      \* the Cloud Run instances that may be up at once
    InstanceOf,    \* InstanceOf[p]: the instance p is a thread of
    Nobody,        \* holder of a lock that is free
    InvokerSet,    \* ALLOWED_INVOKER_SA is configured
    AudienceSet    \* EXPECTED_AUDIENCE is configured

ASSUME ServerAssumption ==
    /\ InstanceOf \in [Proc -> Instance]
    /\ Nobody \notin Proc
    /\ InvokerSet \in BOOLEAN
    /\ AudienceSet \in BOOLEAN

VARIABLES
    at,        \* where the handler of p is in sync()
    caller,    \* whose identity token the request of p carries
    reply,     \* the HTTP status on its way back to the caller of p
    runLock,   \* _run_lock of an instance: the thread that holds it
    built      \* the instance has built its _forwarder

handler == <<at, caller, reply, runLock, built>>

At     == {"free", "called", "locked", "running", "ran", "answered"}
Caller == {"watcher", "other"}
Status == {0, 200, 403, 409, 500}     \* 0: none

ServerInit ==
    /\ Init
    /\ at = [p \in Proc |-> "free"]
    /\ caller = [p \in Proc |-> "other"]
    /\ reply = [p \in Proc |-> 0]
    /\ runLock = [i \in Instance |-> Nobody]
    /\ built = [i \in Instance |-> FALSE]

LockOf(p) == runLock[InstanceOf[p]]

(* verify_invoker: without an allowed account everybody may call; with one, *)
(* only its token counts, and none at all while the audience is not known.  *)
Verified(c) == InvokerSet => AudienceSet /\ c = "watcher"

(* Somebody posts to /sync, at any time and however often.                  *)
Call(p, c) ==
    /\ at[p] = "free"
    /\ at' = [at EXCEPT ![p] = "called"]
    /\ caller' = [caller EXCEPT ![p] = c]
    /\ UNCHANGED <<reply, runLock, built, vars>>

Respond(p, status) ==
    /\ at' = [at EXCEPT ![p] = "answered"]
    /\ reply' = [reply EXCEPT ![p] = status]
    /\ caller' = [caller EXCEPT ![p] = "other"]

(* 403; a token that cannot be verified for any other reason is denied too. *)
Forbid(p) ==
    /\ at[p] = "called"
    /\ \/ ~Verified(caller[p]) /\ UNCHANGED faults
       \/ InvokerSet /\ faults < MaxFaults /\ faults' = faults + 1
    /\ Respond(p, 403)
    /\ UNCHANGED <<runLock, built, place, flags, copies, label, jobs>>

(* _run_lock.acquire(blocking=False): 409 when another thread has it.       *)
Busy(p) ==
    /\ at[p] = "called"
    /\ Verified(caller[p])
    /\ LockOf(p) # Nobody
    /\ Respond(p, 409)
    /\ UNCHANGED <<runLock, built, vars>>

AcquireAnyway(p) ==           \* mutant: the result of acquire() is ignored
    /\ at[p] = "called"
    /\ Verified(caller[p])
    /\ runLock' = [runLock EXCEPT ![InstanceOf[p]] = p]
    /\ at' = [at EXCEPT ![p] = "locked"]
    /\ UNCHANGED <<caller, reply, built, vars>>
Acquire(p) ==
    /\ at[p] = "called"
    /\ Verified(caller[p])
    /\ LockOf(p) = Nobody
    /\ runLock' = [runLock EXCEPT ![InstanceOf[p]] = p]
    /\ at' = [at EXCEPT ![p] = "locked"]
    /\ UNCHANGED <<caller, reply, built, vars>>

ReleaseOnSuccess(p, status) ==     \* mutant: no finally
    runLock' = IF status = 200 THEN [runLock EXCEPT ![InstanceOf[p]] = Nobody] ELSE runLock
Release(p, status) == runLock' = [runLock EXCEPT ![InstanceOf[p]] = Nobody]

(* get_forwarder: the first request of an instance builds its forwarder,    *)
(* which may raise: 500, and the lock is released.                          *)
BuildFails(p) ==
    /\ at[p] = "locked"
    /\ ~built[InstanceOf[p]]
    /\ faults < MaxFaults
    /\ faults' = faults + 1
    /\ Respond(p, 500)
    /\ Release(p, 500)
    /\ UNCHANGED <<built, place, flags, copies, label, jobs>>

(* Forwarder.run() begins, and may fail at once.                            *)
Run(p) ==
    /\ at[p] = "locked"
    /\ Connect(p)
    /\ at' = [at EXCEPT ![p] = IF pc'[p] = "idle" THEN "ran" ELSE "running"]
    /\ built' = [built EXCEPT ![InstanceOf[p]] = TRUE]
    /\ UNCHANGED <<caller, reply, runLock>>

(* ... goes on, until it returns or raises.                                 *)
Work(p) ==
    /\ at[p] = "running"
    /\ Step(p)
    /\ at' = [at EXCEPT ![p] = IF pc'[p] = "idle" THEN "ran" ELSE "running"]
    /\ UNCHANGED <<caller, reply, runLock, built>>

Raise(p) ==
    /\ at[p] = "running"
    /\ Crash(p)
    /\ at' = [at EXCEPT ![p] = "ran"]
    /\ UNCHANGED <<caller, reply, runLock, built>>

(* The result is turned into the answer and "finally" releases the lock.    *)
AnswersUnavailable(p) == IF error[p] THEN 503 ELSE 200   \* mutant: a status of its own
Answers(p) == IF error[p] THEN 500 ELSE 200
Return(p) ==
    /\ at[p] = "ran"
    /\ Respond(p, Answers(p))
    /\ Release(p, Answers(p))
    /\ UNCHANGED <<built, vars>>

(* The answer reaches its caller, or nobody waits for it any more.          *)
Hear(p) ==
    /\ at[p] = "answered"
    /\ at' = [at EXCEPT ![p] = "free"]
    /\ reply' = [reply EXCEPT ![p] = 0]
    /\ UNCHANGED <<caller, runLock, built, vars>>

(* The instance dies with all its threads; a new one starts afresh.         *)
Lost(f, i, zero) == [p \in Proc |-> IF InstanceOf[p] = i THEN zero ELSE f[p]]
Restart(i) ==
    /\ faults < MaxFaults
    /\ faults' = faults + 1
    /\ at' = Lost(at, i, "free")
    /\ caller' = Lost(caller, i, "other")
    /\ reply' = Lost(reply, i, 0)
    /\ runLock' = [runLock EXCEPT ![i] = Nobody]
    /\ built' = [built EXCEPT ![i] = FALSE]
    /\ pc' = Lost(pc, i, "idle")
    /\ todo' = Lost(todo, i, {})
    /\ spent' = Lost(spent, i, 0)
    /\ cur' = Lost(cur, i, NoUid)
    /\ dest' = Lost(dest, i, "Trash")
    /\ suspicious' = Lost(suspicious, i, {})
    /\ oversized' = Lost(oversized, i, {})
    /\ settling' = Lost(settling, i, {})
    /\ forwarded' = Lost(forwarded, i, FALSE)
    /\ error' = Lost(error, i, FALSE)
    /\ link' = Lost(link, i, FALSE)
    /\ UNCHANGED <<place, flags, copies, label>>

Handle(p) ==
    \/ Forbid(p) \/ Busy(p) \/ Acquire(p) \/ BuildFails(p)
    \/ Run(p) \/ Work(p) \/ Return(p) \/ Hear(p)

ServerNext ==
    \/ \E p \in Proc : (\E c \in Caller : Call(p, c)) \/ Handle(p) \/ Raise(p)
    \/ \E i \in Instance : Restart(i)
    \/ (NewMail \/ Owner) /\ UNCHANGED handler

serverVars == <<vars, handler>>
ServerSpec == ServerInit /\ [][ServerNext]_serverVars

---------------------------------------------------------------------------
(* Every variable has its type.                                             *)
HandlerTypeOK ==
    /\ at \in [Proc -> At]
    /\ caller \in [Proc -> Caller]
    /\ reply \in [Proc -> Status]
    /\ runLock \in [Instance -> Proc \union {Nobody}]
    /\ built \in [Instance -> BOOLEAN]

ServerTypeOK == TypeOK /\ HandlerTypeOK

(* "Two overlapping passes would fight over the same UIDs" (server.py:96):  *)
(* at most one thread of an instance is inside Forwarder.run(), also after  *)
(* failed builds, exceptions and restarts.                                  *)
OneRunAtATime ==
    \A p, q \in Proc :
        InstanceOf[p] = InstanceOf[q] /\ pc[p] # "idle" /\ pc[q] # "idle" => p = q

(* What makes it inductive: the lock belongs to the one thread between its  *)
(* acquire and its release, and only there does a run exist.                *)
Holding == {"locked", "running", "ran"}
LockIsHeld ==
    \A p \in Proc : /\ at[p] \in Holding <=> LockOf(p) = p
                    /\ pc[p] # "idle" <=> at[p] = "running"

(* Threads do not multiply mail: Gmail holds no more copies of a message    *)
(* than instances that overlap plus faults, however often /sync is called.  *)
DuplicatesPerInstance ==
    \A u \in Uid : copies[u] <= Cardinality(Instance) + faults

(* The lock always comes back, whatever ended the run: the service never    *)
(* answers 409 for ever.                                                    *)
LockIsReturned ==
    \A i \in Instance : runLock[i] # Nobody ~> runLock[i] = Nobody

=============================================================================
