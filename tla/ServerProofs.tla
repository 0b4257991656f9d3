---------------------------- MODULE ServerProofs ----------------------------
(***************************************************************************)
(* The service and the whole system, for any number of threads and         *)
(* instances and whatever fails: the lock of /sync excludes overlapping    *)
(* runs of one instance, which bounds the duplicates, and everything the   *)
(* forwarder promises survives the restarts and the watcher, whose answers *)
(* mean that the mail it reported has been treated.                        *)
(***************************************************************************)
EXTENDS System, DuplicateProofs, PromiseProofs

LockOK == ServerTypeOK /\ LockIsHeld

(* The initial state is typed and nobody holds a lock.                      *)
LEMMA ServerInitOK == ServerInit => LockOK
<1> SUFFICES ASSUME ServerInit PROVE LockOK
  OBVIOUS
<1>1. TypeOK
  BY InitTypeOK DEF ServerInit
<1>2. HandlerTypeOK
  BY DEF ServerInit, HandlerTypeOK, At, Caller, Status
<1>3. LockIsHeld
  BY ServerAssumption DEF ServerInit, Init, LockIsHeld, LockOf, Holding
<1> QED
  BY <1>1, <1>2, <1>3 DEF LockOK, ServerTypeOK

(* What a handler does to the forwarder's variables is a step of Forwarder, *)
(* except for the restart of an instance.                                   *)
LEMMA RestartTypeOK ==
    ASSUME TypeOK, NEW i \in Instance, Restart(i) PROVE TypeOK'
<1>1. WorldTypeOK'
  BY DEF Restart, TypeOK, WorldTypeOK
<1>2. ChanceTypeOK'
  <2>1. faults' \in Nat /\ link \in [Proc -> BOOLEAN]
    BY DEF Restart, TypeOK, ChanceTypeOK
  <2>2. Lost(link, i, FALSE) \in [Proc -> BOOLEAN]
    BY <2>1, Zenon DEF Lost
  <2> QED
    BY <2>1, <2>2 DEF Restart, ChanceTypeOK
<1>3. RunTypeOK'
  BY DEF Restart, Lost, TypeOK, RunTypeOK
<1>4. StepTypeOK'
  BY DEF Restart, Lost, TypeOK, StepTypeOK, Location, Folder, Working
<1>5. LabelTypeOK'
  BY DEF Restart, TypeOK, LabelTypeOK
<1> QED
  BY <1>1, <1>2, <1>3, <1>4, <1>5 DEF TypeOK

(* A fault that is not one of Forwarder's leaves its variables typed.       *)
LEMMA FaultTypeOK ==
    ASSUME TypeOK, faults' \in Nat, UNCHANGED <<place, flags, copies, label, jobs>> PROVE TypeOK'
BY DEF TypeOK, WorldTypeOK, ChanceTypeOK, RunTypeOK, StepTypeOK, LabelTypeOK, jobs

---------------------------------------------------------------------------
(* What the mail and the runs see of the service, and of the whole system:  *)
(* steps of the forwarder, instances that die, and faults of the rest.  Of  *)
(* the lock they see that runs of one instance do not overlap.              *)
Calm ==
    /\ faults' \in {faults, faults + 1}
    /\ UNCHANGED <<place, flags, copies, label, jobs>>

ServiceNext == Next \/ (\E i \in Instance : Restart(i)) \/ Calm

ServiceSpec == Init /\ [][ServiceNext]_vars /\ []OneRunAtATime

(* Every step of the service is one of these.                               *)
LEMMA ServerIsService == [ServerNext]_serverVars => [ServiceNext]_vars
<1> SUFFICES ASSUME [ServerNext]_serverVars PROVE [ServiceNext]_vars
  OBVIOUS
<1>1. ASSUME NEW p \in Proc, Forbid(p) \/ BuildFails(p) PROVE Calm
  BY <1>1 DEF Forbid, BuildFails, Calm
<1>2. ASSUME NEW p \in Proc,
             \/ \E c \in Caller : Call(p, c)
             \/ Busy(p) \/ Acquire(p) \/ Return(p) \/ Hear(p)
      PROVE  UNCHANGED vars
  BY <1>2 DEF Call, Busy, Acquire, Return, Hear
<1>3. ASSUME NEW p \in Proc, Run(p) \/ Work(p) \/ Raise(p) PROVE Next
  BY <1>3 DEF Run, Work, Raise, Next, Step
<1>4. CASE NewMail \/ Owner
  BY <1>4 DEF Next, ServiceNext
<1>5. CASE UNCHANGED serverVars
  BY <1>5 DEF serverVars
<1> QED
  BY <1>1, <1>2, <1>3, <1>4, <1>5 DEF ServerNext, Handle, ServiceNext

(* Every step of the whole system is one of the service, or a fault of the  *)
(* watcher or of its call, which no handler sees.                           *)
LEMMA SystemStep ==
    [SystemNext]_systemVars => [ServerNext]_serverVars \/ (Calm /\ UNCHANGED handler)
<1> SUFFICES ASSUME [SystemNext]_systemVars
             PROVE  [ServerNext]_serverVars \/ (Calm /\ UNCHANGED handler)
  OBVIOUS
<1>1. CASE Watch
  <2>1. faults' \in {faults, faults + 1}
    BY <1>1 DEF Watch, W!ConnectSession, W!ListInbox, W!IdleWait, W!WakeUp, W!Fault
  <2> QED
    BY <1>1, <2>1 DEF Watch, Calm
<1>2. CASE RestartWatch
  BY <1>2 DEF RestartWatch, W!RestartWatcher, W!Fault, Calm
<1>3. ASSUME NEW d, NoRequest(d) \/ GiveUp(d) PROVE Calm /\ UNCHANGED handler
  BY <1>3 DEF NoRequest, GiveUp, Calm
<1>4. ASSUME NEW p \in Proc, NEW d, Request(p) \/ Response(p, d) PROVE ServerNext
  BY <1>4 DEF Request, Response, ServerNext, Handle, Caller
<1>5. ASSUME NEW p \in Proc, Request(p) PROVE ServerNext
  BY <1>5 DEF Request, ServerNext, Caller
<1>6. ASSUME NEW p \in Proc, Serve(p) \/ Fail(p) PROVE ServerNext
  BY <1>6 DEF Serve, Fail, ServerNext
<1>7. CASE \E i \in Instance : Restart(i)
  BY <1>7 DEF ServerNext
<1>8. CASE (NewMail \/ Owner) /\ UNCHANGED <<handler, watcher, calls>>
  BY <1>8 DEF ServerNext
<1>9. CASE UNCHANGED systemVars
  BY <1>9 DEF systemVars
<1> QED
  BY <1>1, <1>2, <1>3, <1>4, <1>5, <1>6, <1>7, <1>8, <1>9 DEF SystemNext, Watcher

(* Hence the mail and the runs see no more of the system than of a service. *)
LEMMA SystemIsService == [SystemNext]_systemVars => [ServiceNext]_vars
BY SystemStep, ServerIsService DEF ServiceNext

(* Every step they see keeps the forwarder typed.                           *)
LEMMA ServiceKeepsTypes == TypeOK /\ [ServiceNext]_vars => TypeOK'
<1> SUFFICES ASSUME TypeOK, [ServiceNext]_vars PROVE TypeOK'
  OBVIOUS
<1>1. CASE [Next]_vars
  BY <1>1, NextTypeOK
<1>2. CASE \E i \in Instance : Restart(i)
  BY <1>2, RestartTypeOK
<1>3. CASE Calm
  <2>1. faults' \in Nat
    BY <1>3 DEF Calm, TypeOK, ChanceTypeOK
  <2> QED
    BY <1>3, <2>1, FaultTypeOK DEF Calm
<1> QED
  BY <1>1, <1>2, <1>3 DEF ServiceNext

---------------------------------------------------------------------------
(* The lock.                                                                *)

(* What a step of the service does to the handlers, the locks and the       *)
(* whereabouts of the runs: all that matters for the exclusion.             *)
LEMMA ServerNextLock == LockOK /\ [ServerNext]_serverVars => HandlerTypeOK' /\ LockIsHeld'
<1> SUFFICES ASSUME LockOK, [ServerNext]_serverVars PROVE HandlerTypeOK' /\ LockIsHeld'
  OBVIOUS
<1> USE ServerAssumption DEF LockOK, ServerTypeOK, HandlerTypeOK, LockIsHeld, LockOf,
        Holding, At, Caller, Status
<1>0. pc \in [Proc -> Location]
  BY DEF TypeOK, StepTypeOK
<1>1. CASE UNCHANGED <<pc, handler>>
  BY <1>1 DEF handler
<1>2. ASSUME NEW p \in Proc, NEW c \in Caller, Call(p, c) PROVE HandlerTypeOK' /\ LockIsHeld'
  BY <1>2, <1>0 DEF Call, vars, jobs
<1>3. ASSUME NEW p \in Proc, Forbid(p) PROVE HandlerTypeOK' /\ LockIsHeld'
  BY <1>3, <1>0 DEF Forbid, Respond, jobs
<1>4. ASSUME NEW p \in Proc, Busy(p) PROVE HandlerTypeOK' /\ LockIsHeld'
  BY <1>4, <1>0 DEF Busy, Respond, vars, jobs
<1>5. ASSUME NEW p \in Proc, Acquire(p) PROVE HandlerTypeOK' /\ LockIsHeld'
  BY <1>5, <1>0 DEF Acquire, vars, jobs
<1>6. ASSUME NEW p \in Proc, BuildFails(p) PROVE HandlerTypeOK' /\ LockIsHeld'
  BY <1>6, <1>0 DEF BuildFails, Respond, Release, jobs
<1>7. ASSUME NEW p \in Proc, Return(p) PROVE HandlerTypeOK' /\ LockIsHeld'
  BY <1>7, <1>0 DEF Return, Respond, Release, Answers, vars, jobs
<1>8. ASSUME NEW p \in Proc, Hear(p) PROVE HandlerTypeOK' /\ LockIsHeld'
  BY <1>8, <1>0 DEF Hear, vars, jobs
<1>9. ASSUME NEW p \in Proc, Run(p) PROVE HandlerTypeOK' /\ LockIsHeld'
  <2>1. Step(p)
    BY <1>9 DEF Run, Step
  <2>2. \A q \in Proc \ {p} : pc'[q] = pc[q]
    BY <2>1, StepAlone DEF Alone
  <2> QED
    BY <1>9, <2>2 DEF Run
<1>10. ASSUME NEW p \in Proc, Work(p) PROVE HandlerTypeOK' /\ LockIsHeld'
  <2>1. \A q \in Proc \ {p} : pc'[q] = pc[q]
    BY <1>10, StepAlone DEF Alone, Work
  <2> QED
    BY <1>10, <2>1 DEF Work
<1>11. ASSUME NEW p \in Proc, Raise(p) PROVE HandlerTypeOK' /\ LockIsHeld'
  <2>1. \A q \in Proc \ {p} : pc'[q] = pc[q]
    BY <1>11, StepAlone DEF Alone, Raise
  <2>2. pc'[p] = "idle"
    BY <1>11, <1>0 DEF Raise, Crash, Finish, Aim, Goto
  <2> QED
    BY <1>11, <2>1, <2>2 DEF Raise
<1>12. ASSUME NEW i \in Instance, Restart(i) PROVE HandlerTypeOK' /\ LockIsHeld'
  BY <1>12, <1>0 DEF Restart, Lost
<1>13. CASE (NewMail \/ Owner) /\ UNCHANGED handler
  BY <1>13, <1>1 DEF NewMail, Owner, jobs
<1>14. CASE UNCHANGED serverVars
  BY <1>14, <1>1 DEF serverVars, vars, jobs
<1> QED
  BY <1>2, <1>3, <1>4, <1>5, <1>6, <1>7, <1>8, <1>9, <1>10, <1>11, <1>12, <1>13, <1>14
     DEF ServerNext, Handle

(* The inductive invariant of the service is kept by every step of it.      *)
LEMMA ServerKeepsLock == LockOK /\ [ServerNext]_serverVars => LockOK'
BY ServerIsService, ServiceKeepsTypes, ServerNextLock DEF LockOK, ServerTypeOK

(* And by every step of the whole system.                                   *)
LEMMA SystemKeepsLock == LockOK /\ [SystemNext]_systemVars => LockOK'
<1>1. ASSUME LockOK, Calm, UNCHANGED handler PROVE LockOK'
  <2>1. TypeOK'
    BY <1>1, ServiceKeepsTypes DEF LockOK, ServerTypeOK, ServiceNext
  <2>2. UNCHANGED <<at, caller, reply, runLock, built, pc>>
    BY <1>1 DEF handler, Calm, jobs
  <2>3. HandlerTypeOK' /\ LockIsHeld'
    BY <1>1, <2>2 DEF LockOK, ServerTypeOK, HandlerTypeOK, LockIsHeld, LockOf
  <2> QED
    BY <2>1, <2>3 DEF LockOK, ServerTypeOK
<1> QED
  BY <1>1, ServerKeepsLock, SystemStep

(* So it holds for ever in both.                                            *)
LEMMA LockOKAlways == (ServerSpec => []LockOK) /\ (SystemSpec => []LockOK)
<1>1. SystemInit => LockOK
  BY ServerInitOK DEF SystemInit
<1> QED
  BY <1>1, ServerInitOK, ServerKeepsLock, SystemKeepsLock, PTL DEF ServerSpec, SystemSpec

(* Every variable of the service has its type.                              *)
THEOREM ServerTypeCorrect == ServerSpec => []ServerTypeOK
<1>1. LockOK => ServerTypeOK
  BY DEF LockOK
<1> QED
  BY <1>1, LockOKAlways, PTL

(* A lock is held exactly by the thread between acquire and release.        *)
THEOREM LockIsHeldExactly == ServerSpec => []LockIsHeld
<1>1. LockOK => LockIsHeld
  BY DEF LockOK
<1> QED
  BY <1>1, LockOKAlways, PTL

(* What the lock is for.                                                    *)
LEMMA LockExcludes == LockOK => OneRunAtATime
BY DEF LockOK, LockIsHeld, OneRunAtATime, LockOf, Holding

(* Two runs of one instance never overlap.                                  *)
THEOREM RunsExclude == ServerSpec => []OneRunAtATime
BY LockExcludes, LockOKAlways, PTL

(* Nor do they when the watcher calls /sync, gives up waiting for a run     *)
(* that goes on, and calls again.                                           *)
THEOREM SystemRunsExclude == SystemSpec => []OneRunAtATime
BY LockExcludes, LockOKAlways, PTL

(* All that is shown of the service below is shown of the server and of the *)
(* whole system.                                                            *)
LEMMA ServiceImplemented == (ServerSpec => ServiceSpec) /\ (SystemSpec => ServiceSpec)
<1>1. ServerInit => Init
  BY DEF ServerInit
<1>2. SystemInit => ServerInit
  BY DEF SystemInit
<1> QED
  BY <1>1, <1>2, ServerIsService, SystemIsService, RunsExclude, SystemRunsExclude, PTL
     DEF ServerSpec, SystemSpec, ServiceSpec

---------------------------------------------------------------------------
(* The watcher inside the system.  To its loop a fault of anybody else is   *)
(* one of the bounded faults, and mail of the forwarder's INBOX is mail.    *)

(* A fault is one of MaxFaults.                                             *)
LEMMA OneMoreFault ==
    ASSUME TypeOK, faults < MaxFaults, faults' = faults + 1 PROVE W!MoreFaults
<1>1. faults \in Nat /\ MaxFaults \in Nat
  BY ForwarderAssumption DEF TypeOK, ChanceTypeOK
<1> QED
  BY <1>1 DEF W!MoreFaults

(* So are the faults of an IMAP command.                                    *)
LEMMA CommandFaults ==
    ASSUME TypeOK, NEW p \in Proc, NEW ending, Command(p, ending) PROVE W!MoreFaults
BY OneMoreFault DEF Command, W!MoreFaults

(* And those of an insert, which may be several.                            *)
LEMMA InsertFaults ==
    ASSUME TypeOK, NEW p \in Proc, Insert(p) PROVE W!MoreFaults
<1>1. cur[p] \in Uid
  BY DEF Insert, TypeOK, StepTypeOK, Working
<1>2. PICK e \in Ending(cur[p]) : Insert(p)!2!(e)
  BY DEF Insert
<1>3. faults + Cost(e) <= MaxFaults /\ faults' = faults + Cost(e)
  BY <1>2
<1>4. Cost(e) \in Nat
  BY <1>1, GmailAssumption DEF Ending, Cost, Accepted, NoAnswer
<1>5. faults \in Nat /\ MaxFaults \in Nat
  BY ForwarderAssumption DEF TypeOK, ChanceTypeOK
<1> QED
  BY <1>3, <1>4, <1>5 DEF W!MoreFaults

(* No run has more faults than are left.                                    *)
LEMMA RunFaults ==
    ASSUME TypeOK, NEW p \in Proc, Step(p) \/ Crash(p) PROVE W!MoreFaults
<1>1. CASE Connect(p)
  BY <1>1, OneMoreFault DEF Connect, W!MoreFaults
<1>2. CASE EnsureLabel(p)
  BY <1>2, OneMoreFault DEF EnsureLabel, W!MoreFaults
<1>3. CASE CreateLabel(p)
  BY <1>3, OneMoreFault DEF CreateLabel, W!MoreFaults
<1>4. CASE List(p)
  BY <1>4, CommandFaults DEF List
<1>5. CASE Fetch(p)
  <2>1. PICK u \in Uid, ending \in {"ok", "refused"} : FetchEnds(p, u, ending)
    BY <1>5 DEF Fetch
  <2> QED
    BY <2>1, CommandFaults DEF FetchEnds, W!MoreFaults
<1>6. CASE Insert(p)
  BY <1>6, InsertFaults
<1>7. CASE Tag(p)
  BY <1>7, CommandFaults DEF Tag
<1>8. CASE Mark(p)
  BY <1>8, CommandFaults DEF Mark
<1>9. CASE Move(p)
  BY <1>9, CommandFaults DEF Move
<1>10. CASE Delete(p)
  BY <1>10, CommandFaults DEF Delete
<1>11. CASE Expunge(p)
  BY <1>11, CommandFaults DEF Expunge
<1>12. CASE EndOfList(p) \/ Settle(p) \/ Close(p)
  BY <1>12 DEF EndOfList, Settle, Close, env, W!MoreFaults
<1>13. CASE Crash(p)
  BY <1>13, OneMoreFault DEF Crash
<1> QED
  BY <1>1, <1>2, <1>3, <1>4, <1>5, <1>6, <1>7, <1>8, <1>9, <1>10, <1>11, <1>12, <1>13
     DEF Step

(* Neither has the service around it.                                       *)
LEMMA ServerFaults ==
    ASSUME TypeOK, ServerNext PROVE W!MoreFaults
<1>1. ASSUME NEW p \in Proc, Run(p) \/ Work(p) \/ Raise(p) PROVE W!MoreFaults
  BY <1>1, RunFaults DEF Run, Work, Raise, Step
<1>2. ASSUME NEW p \in Proc, Forbid(p) \/ BuildFails(p) PROVE W!MoreFaults
  BY <1>2, OneMoreFault DEF Forbid, BuildFails, W!MoreFaults
<1>3. ASSUME NEW p \in Proc,
             \/ \E c \in Caller : Call(p, c)
             \/ Busy(p) \/ Acquire(p) \/ Return(p) \/ Hear(p)
      PROVE  W!MoreFaults
  BY <1>3 DEF Call, Busy, Acquire, Return, Hear, vars, env, W!MoreFaults
<1>4. ASSUME NEW i \in Instance, Restart(i) PROVE W!MoreFaults
  BY <1>4, OneMoreFault DEF Restart
<1>5. CASE NewMail \/ Owner
  BY <1>5 DEF NewMail, Owner, W!MoreFaults
<1> QED
  BY <1>1, <1>2, <1>3, <1>4, <1>5 DEF ServerNext, Handle

(* While an answer is due the loop is blocked in its call, and what a run   *)
(* has left is a yes or a no.                                               *)
Waiting ==
    /\ asked # Nobody => doing = "call"
    /\ left \in [Proc -> BOOLEAN]

(* What the loop sees of the mailbox is the forwarder's listing.            *)
LEMMA ListedIsMail == WatcherListed \subseteq Uid /\ WatcherListed' \subseteq Uid
BY DEF WatcherListed, Listed

(* No step of the watcher's own touches the mailbox.                        *)
LEMMA SameListing == UNCHANGED <<place, flags>> => UNCHANGED WatcherListed
BY DEF WatcherListed, Listed, InInbox

(* Every step of the system is one of the open loop, and keeps Waiting.     *)
LEMMA SystemWatches ==
    TypeOK /\ Waiting /\ [SystemNext]_systemVars => [W!OpenNext]_(W!watchVars) /\ Waiting'
<1> SUFFICES ASSUME TypeOK, Waiting, [SystemNext]_systemVars
             PROVE  [W!OpenNext]_(W!watchVars) /\ Waiting'
  OBVIOUS
<1> USE DEF W!OpenNext, W!WatchNext
<1>1. CASE Watch
  <2>1. W!WatchStep
    BY <1>1 DEF Watch, W!WatchStep
  <2>2. asked = Nobody
    BY <1>1 DEF Watch, Waiting, W!ConnectSession, W!ListInbox, W!IdleWait, W!WakeUp
  <2> QED
    BY <1>1, <2>1, <2>2 DEF Watch, calls, Waiting
<1>2. CASE RestartWatch
  BY <1>2 DEF RestartWatch, Waiting
<1>3. ASSUME NEW p \in Proc, NEW d \in Took["call"], Response(p, d)
      PROVE  W!OpenNext /\ Waiting'
  <2>1. doing = "call" /\ left[p] \in BOOLEAN
    BY <1>3, ServerAssumption DEF Response, Waiting
  <2>2. UNCHANGED <<WatcherListed, faults>>
    BY <1>3, SameListing DEF Response, Hear, vars, env
  <2>3. W!CallForwarder(d)
    BY <1>3, <2>1, <2>2 DEF Response, Hears, W!CallForwarder
  <2>4. Waiting'
    BY <1>3 DEF Response, Waiting
  <2> QED
    BY <2>3, <2>4 DEF W!WatchStep
<1>4. ASSUME NEW d \in Took["call"], NoRequest(d) \/ GiveUp(d)
      PROVE  W!OpenNext /\ Waiting'
  <2>1. doing = "call"
    BY <1>4 DEF NoRequest, GiveUp, Waiting
  <2>2. UNCHANGED WatcherListed /\ W!TriggerFailed(d)
    BY <1>4, SameListing DEF NoRequest, GiveUp
  <2>3. W!MoreFaults
    BY <1>4, OneMoreFault DEF NoRequest, GiveUp, W!MoreFaults
  <2>4. Waiting'
    BY <1>4 DEF NoRequest, GiveUp, Waiting, calls
  <2> QED
    BY <2>1, <2>2, <2>3, <2>4 DEF W!FailsElsewhere
<1>5. ASSUME ServerNext, UNCHANGED watcher, Waiting' PROVE W!OpenNext /\ Waiting'
  <2>1. W!Elsewhere
    BY <1>5, ListedIsMail DEF watcher, W!Elsewhere, W!loopVars
  <2> QED
    BY <1>5, <2>1, ServerFaults
<1>6. ASSUME NEW p \in Proc, Request(p) PROVE W!OpenNext /\ Waiting'
  <2>1. ServerNext /\ UNCHANGED watcher /\ Waiting'
    BY <1>6 DEF Request, ServerNext, Caller, watcher, Waiting
  <2> QED
    BY <2>1, <1>5
<1>7. ASSUME NEW p \in Proc, Serve(p) PROVE W!OpenNext /\ Waiting'
  <2>1. ServerNext /\ UNCHANGED watcher
    BY <1>7 DEF Serve, ServerNext
  <2>2. left' \in [Proc -> BOOLEAN]
    BY <1>7 DEF Serve, Remaining, Waiting
  <2>3. UNCHANGED <<asked, doing>>
    BY <1>7 DEF Serve, watcher
  <2>4. Waiting'
    BY <2>2, <2>3 DEF Waiting
  <2> QED
    BY <2>1, <2>4, <1>5
<1>8. CASE \/ \E p \in Proc : Fail(p)
           \/ \E i \in Instance : Restart(i) /\ UNCHANGED <<watcher, calls>>
           \/ (NewMail \/ Owner) /\ UNCHANGED <<handler, watcher, calls>>
  <2>1. ServerNext /\ UNCHANGED <<watcher, calls>>
    BY <1>8 DEF Fail, ServerNext
  <2>2. Waiting'
    BY <2>1 DEF watcher, calls, Waiting
  <2> QED
    BY <2>1, <2>2, <1>5
<1>9. CASE UNCHANGED systemVars
  <2>1. UNCHANGED <<vars, watcher, calls>>
    BY <1>9 DEF systemVars, serverVars
  <2>2. UNCHANGED W!watchVars
    BY <2>1, SameListing DEF vars, env, watcher, W!watchVars, W!loopVars
  <2> QED
    BY <2>1, <2>2 DEF watcher, calls, Waiting
<1> QED
  BY <1>1, <1>2, <1>3, <1>4, <1>6, <1>7, <1>8, <1>9 DEF SystemNext, Watcher

(* At first nothing is in the INBOX, and nothing has been asked.            *)
LEMMA SystemWatchesFirst == SystemInit => W!WatchInit /\ Waiting
BY DEF SystemInit, Waiting

(* Whatever the calls meet, the watcher is the loop of Watcher, so that all *)
(* that WatcherProofs shows of OpenSpec is true of it in the system.        *)
LEMMA SystemIsWatched == SystemSpec => W!OpenSpec
<1>1. LockOK => TypeOK
  BY DEF LockOK, ServerTypeOK
<1> QED
  BY <1>1, SystemWatchesFirst, SystemWatches, LockOKAlways, PTL
     DEF SystemSpec, W!OpenSpec

---------------------------------------------------------------------------
(* The promises.  They do not even rest on the lock.                        *)

(* The runs an instance loses have marked nothing and know of nothing.      *)
LEMMA LostRuns ==
    ASSUME NEW i \in Instance, Restart(i), NEW p \in Proc
    PROVE  \/ /\ pc'[p] = pc[p] /\ cur'[p] = cur[p] /\ dest'[p] = dest[p] /\ link'[p] = link[p]
              /\ todo'[p] = todo[p] /\ suspicious'[p] = suspicious[p]
              /\ oversized'[p] = oversized[p] /\ settling'[p] = settling[p]
              /\ forwarded'[p] = forwarded[p] /\ error'[p] = error[p]
           \/ /\ pc'[p] = "idle" /\ dest'[p] = "Trash"
              /\ todo'[p] = {} /\ suspicious'[p] = {} /\ oversized'[p] = {} /\ settling'[p] = {}
BY DEF Restart, Lost

(* An instance that dies, or a fault elsewhere, falsifies no marker and     *)
(* hides no message.                                                        *)
LEMMA QuietSafe ==
    ASSUME Safe, (\E i \in Instance : Restart(i)) \/ Calm PROVE Safe'
<1> TypeOK /\ Truth /\ Custody
  BY DEF Safe
<1>1. TypeOK'
  BY ServiceKeepsTypes DEF ServiceNext
<1>2. UNCHANGED <<place, flags, copies>>
  BY DEF Restart, Calm
<1>3. MarkersAreTrue' /\ TrashIsInGmail' /\ HiddenIsKept'
  BY <1>2 DEF Truth, MarkersAreTrue, TrashIsInGmail, Custody, HiddenIsKept
<1>4. \A p \in Proc :
        \/ /\ pc'[p] = pc[p] /\ cur'[p] = cur[p] /\ dest'[p] = dest[p]
           /\ todo'[p] = todo[p] /\ suspicious'[p] = suspicious[p]
           /\ oversized'[p] = oversized[p] /\ settling'[p] = settling[p]
        \/ /\ pc'[p] = "idle"
           /\ todo'[p] = {} /\ suspicious'[p] = {} /\ oversized'[p] = {} /\ settling'[p] = {}
  BY LostRuns DEF Calm, jobs
<1>5. WorkIsTrue'
  BY <1>2, <1>4 DEF Truth, WorkIsTrue, TrueAt, Moving
<1>6. WorkIsKept'
  BY <1>2, <1>4 DEF Custody, WorkIsKept, Known, Working, Arrived, Kept
<1> QED
  BY <1>1, <1>3, <1>5, <1>6 DEF Safe, Truth, Custody

(* Nor does it change a verdict but by forgetting it.                       *)
LEMMA QuietJudged ==
    ASSUME Safe, Judged, (\E i \in Instance : Restart(i)) \/ Calm PROVE Judged'
<1> SUFFICES ASSUME NEW p \in Proc PROVE JudgedAt(p)'
  BY DEF Judged
<1>1. UNCHANGED <<place, flags>>
  BY DEF Restart, Calm
<1>2. \/ /\ pc'[p] = pc[p] /\ cur'[p] = cur[p] /\ dest'[p] = dest[p]
         /\ settling'[p] = settling[p] /\ SameVerdict(p)
      \/ pc'[p] = "idle" /\ dest'[p] = "Trash" /\ settling'[p] = {}
  BY LostRuns DEF Calm, jobs, SameVerdict
<1>3. CASE pc'[p] = "idle" /\ dest'[p] = "Trash" /\ settling'[p] = {}
  BY <1>3, LoopJudged
<1>4. CASE /\ pc'[p] = pc[p] /\ cur'[p] = cur[p] /\ dest'[p] = dest[p]
           /\ settling'[p] = settling[p] /\ SameVerdict(p)
  <2>1. Condemned(p)' = Condemned(p) /\ (Tripped(p)' <=> Tripped(p)) /\ error'[p] = error[p]
    BY <1>4, VerdictStands DEF SameVerdict
  <2>2. Settles(p)' <=> Settles(p)
    BY <1>4 DEF Settles
  <2>3. \A u : Queued(u)' <=> Queued(u)
    BY <1>1 DEF Queued, InInbox
  <2>4. Queued(cur[p])' <=> Queued(cur[p])
    <3>1. PICK v : v = cur[p]
      OBVIOUS
    <3>2. cur'[p] = v
      BY <1>4, <3>1
    <3> QED
      BY <1>1, <3>1, <3>2 DEF Queued, InInbox
  <2> QED
    BY <1>4, <2>1, <2>2, <2>3, <2>4 DEF Judged, JudgedAt
<1> QED
  BY <1>2, <1>3, <1>4

(* The inductive invariant of the promises.                                 *)
LEMMA ServiceSafe == ServiceSpec => [](Safe /\ Judged)
<1>1. Init => Safe /\ Judged
  BY InitTypeOK, InitSafe, InitJudged DEF Safe
<1>2. Safe /\ Judged /\ [ServiceNext]_vars => Safe' /\ Judged'
  <2>1. Safe /\ Judged /\ [Next]_vars => Safe' /\ Judged'
    BY NextTypeOK, NextTruth, NextCustody, NextJudged DEF Safe
  <2> QED
    BY <2>1, QuietSafe, QuietJudged DEF ServiceNext
<1> QED
  BY <1>1, <1>2, PTL DEF ServiceSpec

(* Every step keeps the mail in the account, blames no message without a    *)
(* verdict, and lets no run return that has not settled its rejections.     *)
LEMMA ServiceStepPromises ==
    Safe /\ Judged /\ [ServiceNext]_vars => Safekept /\ BlamesOnVerdict /\ SettlesAtReturn
<1> SUFFICES ASSUME Safe, Judged, [ServiceNext]_vars
             PROVE  Safekept /\ BlamesOnVerdict /\ SettlesAtReturn
  OBVIOUS
<1>1. CASE [Next]_vars
  BY <1>1, NextCustody, NextBlames, NextSettles DEF Safe
<1>2. CASE (\E i \in Instance : Restart(i)) \/ Calm
  <2>1. UNCHANGED <<place, flags>>
    BY <1>2 DEF Restart, Calm
  <2>2. Safekept /\ BlamesOnVerdict
    BY <1>2, <2>1, QuietSafe DEF Safekept, BlamesOnVerdict, Arrived, Kept
  <2>3. SettlesAtReturn
    <3>1. CASE Calm
      BY <3>1 DEF Calm, jobs, SettlesAtReturn
    <3>2. CASE \E i \in Instance : Restart(i)
      <4>1. faults' = faults + 1 /\ faults \in Nat
        BY <3>2 DEF Restart, Safe, TypeOK, ChanceTypeOK
      <4>2. faults' # faults
        BY <4>1
      <4> QED
        BY <4>2 DEF SettlesAtReturn
    <3> QED
      BY <1>2, <3>1, <3>2
  <2> QED
    BY <2>2, <2>3
<1> QED
  BY <1>1, <1>2 DEF ServiceNext

(* The promises of ForwarderSafety and PromiseProofs, of the service.       *)
Promises ==
    /\ [](TrashIsInGmail /\ MarkersAreTrue /\ HiddenIsKept)
    /\ NothingVanishes
    /\ BlamedOnlyOnVerdict
    /\ SettledAtReturn

(* The service keeps them, since a restart only stops a run.                *)
LEMMA ServicePromises == ServiceSpec => Promises
<1>1. Safe => TrashIsInGmail /\ MarkersAreTrue /\ HiddenIsKept
  BY DEF Safe, Truth, Custody
<1>2. Safe /\ Judged /\ [ServiceNext]_vars
      => /\ [\A u \in Uid : place[u] # {} => place'[u] # {}]_vars
         /\ [BlamesOnVerdict]_vars
         /\ [SettlesAtReturn]_vars
  BY ServiceStepPromises DEF Safekept, Arrived
<1> QED
  BY <1>1, <1>2, ServiceSafe, PTL
     DEF ServiceSpec, Promises, NothingVanishes, BlamedOnlyOnVerdict, SettledAtReturn,
         BlamesOnVerdict, SettlesAtReturn

(* What the forwarder promises of the Trash, of the markers and of the      *)
(* verdicts holds in the service too, although instances restart in the     *)
(* middle of a run.                                                         *)
THEOREM ServerKeepsPromises ==
    ServerSpec => /\ [](TrashIsInGmail /\ MarkersAreTrue /\ HiddenIsKept)
                  /\ NothingVanishes
                  /\ BlamedOnlyOnVerdict
                  /\ SettledAtReturn
BY ServicePromises, ServiceImplemented DEF Promises

(* And in the whole system, although calls time out, their answers get      *)
(* lost, and the watcher restarts.                                          *)
THEOREM SystemKeepsPromises ==
    SystemSpec => /\ [](TrashIsInGmail /\ MarkersAreTrue /\ HiddenIsKept)
                  /\ NothingVanishes
                  /\ BlamedOnlyOnVerdict
                  /\ SettledAtReturn
BY ServicePromises, ServiceImplemented DEF Promises

(* Every step of the service is one of Delivery, or none.                   *)
LEMMA ServiceRefines ==
    Safe /\ ReleasedIsInGmail' /\ [ServiceNext]_vars => [D!Next]_(D!vars)
<1>1. ASSUME (\E i \in Instance : Restart(i)) \/ Calm PROVE UNCHANGED <<place, copies>>
  BY <1>1 DEF Restart, Calm
<1>2. UNCHANGED <<place, copies>> => [D!Next]_(D!vars)
  BY SameStages DEF D!vars, stages
<1> QED
  BY <1>1, <1>2, NextRefines DEF ServiceNext

(* The service and the whole system implement Delivery: a message is held,  *)
(* in Gmail before it is let go, or taken away by its owner, whatever       *)
(* restarts on the way.                                                     *)
THEOREM SystemImplementsDelivery ==
    (ServerSpec => ImplementsDelivery) /\ (SystemSpec => ImplementsDelivery)
<1>1. ServiceSpec => ImplementsDelivery
  BY ServiceRefines, SafeReleases, InitRefines, ServiceSafe, PTL
     DEF ServiceSpec, ImplementsDelivery, D!Spec
<1> QED
  BY <1>1, ServiceImplemented

---------------------------------------------------------------------------
(* The duplicates.  The threads of an instance are runs that never overlap, *)
(* so that the copies are bounded by the instances, not by the threads.     *)

(* A fault that concerns no run pays for nothing and costs nothing.         *)
LEMMA CalmPaid ==
    ASSUME IsFiniteSet(Proc), NEW cap \in Nat, Paid(cap), Calm PROVE Paid(cap)'
<1> TypeOK /\ LinkUp /\ Unborn /\ Ledger(cap) /\ Safe
  BY DEF Paid, Safe
<1>1. Safe'
  BY QuietSafe
<1>2. LinkUp' /\ Unborn'
  BY DEF Calm, jobs, LinkUp, Unborn, Arrived
<1>3. Ledger(cap)'
  <2>1. \A p \in Proc : Unmoved(p)
    BY DEF Calm, jobs, Unmoved
  <2>2. \A u \in Uid : Open(u)' => Open(u)
    BY DEF Calm, Open, InInbox
  <2>3. faults' \in Nat /\ faults <= faults'
    BY DEF Calm, TypeOK, ChanceTypeOK
  <2> QED
    BY <2>1, <2>2, <2>3, LedgerSame DEF Calm
<1> QED
  BY <1>1, <1>2, <1>3 DEF Paid

(* An instance that dies takes at most one run with it, and that is a fault *)
(* which pays for what the run had sent and not marked.                     *)
LEMMA RestartPaid ==
    ASSUME IsFiniteSet(Proc), NEW cap \in Nat, Paid(cap), Crowd(cap)', OneRunAtATime,
           NEW i \in Instance, Restart(i)
    PROVE  Paid(cap)'
<1> TypeOK /\ LinkUp /\ Unborn /\ Ledger(cap) /\ Safe
  BY DEF Paid, Safe
<1>1. TypeOK'
  BY RestartTypeOK
<1>2. /\ faults' \in Nat /\ faults \in Nat /\ faults' = faults + 1
      /\ copies' \in [Uid -> Nat] /\ copies \in [Uid -> Nat] /\ copies' = copies
  BY <1>1 DEF Restart, TypeOK, ChanceTypeOK, WorldTypeOK
<1>3. \A p \in Proc : \/ InstanceOf[p] = i /\ pc'[p] = "idle"
                      \/ InstanceOf[p] # i /\ pc'[p] = pc[p] /\ cur'[p] = cur[p]
  BY DEF Restart, Lost
<1>4. \A u \in Uid : Open(u)' => Open(u)
  BY DEF Restart, Open, InInbox
<1>5. Ledger(cap)'
  <2>1. CASE \E p \in Proc : InstanceOf[p] = i /\ pc[p] # "idle"
    <3>1. PICK p \in Proc : InstanceOf[p] = i /\ pc[p] # "idle"
      BY <2>1
    <3>2. \A q \in Proc \ {p} : InstanceOf[q] = i => pc[q] = "idle"
      BY <3>1 DEF OneRunAtATime
    <3>3. \A u \in Uid : Books(p, u)
      BY <1>2, <1>3, <3>1 DEF Books, Senders, Taggers
    <3>4. \A q \in Proc \ {p} : Unmoved(q)
      BY <1>3, <3>2 DEF Unmoved, Elsewhere
    <3> QED
      BY <1>2, <1>4, <3>3, <3>4, LedgerStep
  <2>2. CASE \A p \in Proc : InstanceOf[p] = i => pc[p] = "idle"
    <3>1. \A p \in Proc : Unmoved(p)
      BY <1>3, <2>2 DEF Unmoved, Elsewhere
    <3>2. faults <= faults'
      BY <1>2
    <3> QED
      BY <1>2, <1>4, <3>1, <3>2, LedgerSame
  <2> QED
    BY <2>1, <2>2
<1>6. LinkUp'
  BY LostRuns DEF LinkUp
<1>7. Unborn'
  BY DEF Restart, Unborn, Arrived
<1> QED
  BY <1>5, <1>6, <1>7, QuietSafe DEF Paid

(* Runs that exclude each other are no more than the instances.             *)
LEMMA ExclusionCrowd ==
    ASSUME IsFiniteSet(Instance), OneRunAtATime PROVE Crowd(Cardinality(Instance))
<1> SUFFICES ASSUME NEW u \in Uid
             PROVE  Cardinality(Senders(u) \union Taggers(u)) <= Cardinality(Instance)
  BY DEF Crowd
<1> DEFINE R == Senders(u) \union Taggers(u)
           f == [p \in R |-> InstanceOf[p]]
<1>1. \A p \in R : p \in Proc /\ pc[p] # "idle" /\ InstanceOf[p] \in Instance
  BY ServerAssumption DEF Senders, Taggers
<1>2. f \in [R -> Instance] /\ \A p, q \in R : f[p] = f[q] => p = q
  BY <1>1 DEF OneRunAtATime
<1> HIDE DEF R, f
<1>3. f \in Injection(R, Instance)
  BY <1>2 DEF Injection, IsInjective
<1> QED
  BY <1>3, FS_Injection DEF R

(* The account with one entry for each instance holds for ever.             *)
LEMMA ServicePaid ==
    ASSUME IsFiniteSet(Proc), IsFiniteSet(Instance)
    PROVE  ServiceSpec => []Paid(Cardinality(Instance))
<1> DEFINE cap == Cardinality(Instance)
<1>0. cap \in Nat
  BY FS_CardinalityType
<1>1. OneRunAtATime => Crowd(cap)
  BY ExclusionCrowd
<1>2. OneRunAtATime' => Crowd(cap)'
  BY <1>1, PTL
<1> HIDE DEF cap
<1>3. Init => Paid(cap)
  BY <1>0, InitPaid
<1>4. Paid(cap) /\ OneRunAtATime /\ OneRunAtATime' /\ [ServiceNext]_vars => Paid(cap)'
  BY <1>0, <1>2, PaidNext, RestartPaid, CalmPaid DEF ServiceNext
<1>5. ServiceSpec => []Paid(cap)
  BY <1>3, <1>4, PTL DEF ServiceSpec
<1> QED
  BY <1>5 DEF cap

(* Gmail never holds more copies of a message than instances that overlap   *)
(* plus faults, however many threads call /sync and whatever restarts.      *)
LEMMA ServicePaysDuplicates ==
    ASSUME IsFiniteSet(Proc), IsFiniteSet(Instance) PROVE ServiceSpec => []DuplicatesPerInstance
<1>1. Paid(Cardinality(Instance)) => DuplicatesPerInstance
  BY FS_CardinalityType, PaidBounds DEF DuplicatesPerInstance
<1> QED
  BY <1>1, ServicePaid, PTL

(* So it is in the server.                                                  *)
THEOREM ServerPaysDuplicates ==
    ASSUME IsFiniteSet(Proc), IsFiniteSet(Instance) PROVE ServerSpec => []DuplicatesPerInstance
BY ServicePaysDuplicates, ServiceImplemented

(* And in the whole system, although the watcher calls /sync again whenever *)
(* it has given up waiting for a run.                                       *)
THEOREM SystemPaysDuplicates ==
    ASSUME IsFiniteSet(Proc), IsFiniteSet(Instance) PROVE SystemSpec => []DuplicatesPerInstance
BY ServicePaysDuplicates, ServiceImplemented

(* NeverResent of one instance with any number of threads, and of the       *)
(* system around it: once a keyword is on a message it is never sent again, *)
(* whatever restarts, and however often /sync is called.                    *)
THEOREM OneInstanceNeverResends ==
    ASSUME \A i, j \in Instance : i = j
    PROVE  (ServerSpec => NeverResent) /\ (SystemSpec => NeverResent)
<1> DEFINE Inv == Safe /\ Unmarked
<1>1. OneRunAtATime => Lone
  BY ServerAssumption DEF OneRunAtATime, Lone
<1>2. Init => Inv
  BY InitTypeOK, InitSafe DEF Init, Safe, Unmarked
<1>3. ASSUME Inv, (\E i \in Instance : Restart(i)) \/ Calm PROVE Inv' /\ SendsUnmarked
  <2>1. UNCHANGED <<flags, copies>>
    BY <1>3 DEF Restart, Calm
  <2>2. \A p \in Proc : pc'[p] = "insert" => pc[p] = "insert" /\ cur'[p] = cur[p]
    BY <1>3, LostRuns DEF Calm, jobs
  <2>3. SendsUnmarked
    <3>1. \A u \in Uid : ~ (copies[u] > copies[u])
      BY <1>3 DEF Safe, TypeOK, WorldTypeOK
    <3> QED
      BY <2>1, <3>1 DEF SendsUnmarked
  <2> QED
    BY <1>3, <2>1, <2>2, <2>3, QuietSafe DEF Unmarked
<1>4. Inv /\ OneRunAtATime /\ [ServiceNext]_vars => Inv' /\ [SendsUnmarked]_vars
  <2>1. Inv /\ OneRunAtATime /\ [Next]_vars => Inv' /\ SendsUnmarked
    BY <1>1, NextTypeOK, NextTruth, NextCustody, UnmarkedNext, SendingStep DEF Safe
  <2> QED
    BY <1>3, <2>1 DEF ServiceNext
<1>5. ServiceSpec => NeverResent
  BY <1>2, <1>4, PTL DEF ServiceSpec, NeverResent, SendsUnmarked
<1> QED
  BY <1>5, ServiceImplemented

---------------------------------------------------------------------------
(* The answers.  What the watcher has reported and what is still queued.    *)
Reported == {u \in seen : Queued(u)}

(* p is in the loop over its listing, or at work on a message of it.        *)
Loops(p) == pc[p] \in {"next", "insert", "tag"} \/ (pc[p] \in Moving /\ dest[p] # "Failed")
AtWork(p) == IF pc[p] \in Working THEN {cur[p]} ELSE {}

(* The answer of p will be an error, or say that mail remains.              *)
Admits(p) == error[p] \/ left[p]

(* Until its run answers so, all that the watcher has reported is still to  *)
(* be treated by the run, or was put off by it, or has left the queue.      *)
Accounted(p) ==
    /\ Loops(p) => Reported \subseteq todo[p] \union suspicious[p] \union oversized[p]
                                      \union later[p] \union AtWork(p)
    /\ Settles(p) => Admits(p) \/ Reported \subseteq settling[p] \union later[p] \union AtWork(p)
    /\ pc[p] = "idle" => Admits(p) \/ Reported \subseteq later[p]
    /\ pc[p] = "expunge" => ~Queued(cur[p])

Answering(p) ==
    /\ at[p] \in {"running", "ran"} => Accounted(p)
    /\ at[p] = "answered" /\ reply[p] = 200 /\ ~left[p] => Reported \subseteq later[p]

(* What the watcher has reported has arrived; its call is answered so.      *)
Heeding ==
    /\ seen \subseteq Uid /\ \A u \in seen : Arrived(u)
    /\ asked \in Proc \union {Nobody}
    /\ later \in [Proc -> SUBSET Uid]
    /\ asked # Nobody => Answering(asked)

(* Nothing the watcher has reported comes back to the queue.                *)
LEMMA ReportedFades ==
    ASSUME seen \subseteq Uid, \A u \in seen : Arrived(u), Fades, UNCHANGED seen
    PROVE  Reported' \subseteq Reported
BY DEF Reported, Fades

(* The books of the system only grow during a run.                          *)
LEMMA BooksDuringRun ==
    ASSUME TypeOK, Waiting, later \in [Proc -> SUBSET Uid], NEW p \in Proc, at[p] # "locked",
           Remaining(p), RetryLater(p)
    PROVE  /\ later' \in [Proc -> SUBSET Uid]
           /\ later[p] \subseteq later'[p]
           /\ PutOff(p) => cur[p] \in later'[p]
           /\ ~ (pc[p] = "next" /\ pc'[p] = "settle") => left'[p] = left[p]
           /\ pc[p] = "next" /\ pc'[p] = "settle" /\ todo[p] # {} => left'[p]
<1>1. PutOff(p) => cur[p] \in Uid
  BY DEF PutOff, TypeOK, StepTypeOK, Working
<1> QED
  BY <1>1 DEF RetryLater, Remaining, Waiting

(* The end of a run.                                                        *)
LEMMA FinishAccounted ==
    ASSUME TypeOK, NEW p \in Proc, NEW err \in BOOLEAN, Finish(p, err),
           err \/ left'[p] \/ Reported' \subseteq later'[p]
    PROVE  Accounted(p)'
<1>1. pc'[p] = "idle" /\ error'[p] = err
  BY DEF Finish, Aim, Goto, TypeOK, StepTypeOK, RunTypeOK
<1> QED
  BY <1>1 DEF Accounted, Loops, Settles, Moving, Admits

(* The end of the loop: what was rejected is settled, or the breaker has    *)
(* tripped and the answer is an error.                                      *)
LEMMA LeaveLoopAccounted ==
    ASSUME TypeOK, NEW p \in Proc, NEW err \in BOOLEAN, LeaveLoop(p, err),
           \/ err
           \/ left'[p]
           \/ Reported' \subseteq suspicious[p] \union oversized[p] \union later'[p]
    PROVE  Accounted(p)'
<1>1. /\ pc'[p] = "settle" /\ settling'[p] = Condemned(p) /\ (error'[p] <=> err \/ Tripped(p))
  BY DEF LeaveLoop, Aim, Goto, TypeOK, StepTypeOK, RunTypeOK, Condemned
<1>2. Admits(p)' \/ Reported' \subseteq settling'[p] \union later'[p]
  BY <1>1 DEF Condemned, Admits
<1> QED
  BY <1>1, <1>2 DEF Accounted, Loops, Settles, Moving

(* A step of the run that has been asked.                                   *)
LEMMA RunAccounted ==
    ASSUME Safe, Fades, Waiting, later \in [Proc -> SUBSET Uid],
           seen \subseteq Uid, \A u \in seen : Arrived(u), UNCHANGED seen,
           NEW p \in Proc, at[p] # "locked", pc[p] # "idle", Accounted(p),
           Step(p), Remaining(p), RetryLater(p)
    PROVE  Accounted(p)'
<1>0. /\ TypeOK /\ WorldTypeOK
      /\ pc \in [Proc -> Location] /\ dest \in [Proc -> Folder]
      /\ cur \in [Proc -> Uid \union {NoUid}]
      /\ todo \in [Proc -> SUBSET Uid] /\ settling \in [Proc -> SUBSET Uid]
      /\ suspicious \in [Proc -> SUBSET Uid] /\ oversized \in [Proc -> SUBSET Uid]
      /\ pc[p] \in Working => cur[p] \in Uid
  BY DEF Safe, TypeOK, StepTypeOK, RunTypeOK
<1>1. Reported' \subseteq Reported
  BY ReportedFades
<1>2. /\ later[p] \subseteq later'[p]
      /\ PutOff(p) => cur[p] \in later'[p]
      /\ ~ (pc[p] = "next" /\ pc'[p] = "settle") => left'[p] = left[p]
      /\ pc[p] = "next" /\ pc'[p] = "settle" /\ todo[p] # {} => left'[p]
  BY <1>0, BooksDuringRun
<1>v. PICK v : v = cur[p]
  OBVIOUS
<1>a. ASSUME Finish(p, TRUE) \/ LeaveLoop(p, TRUE) PROVE Accounted(p)'
  BY <1>0, <1>a, FinishAccounted, LeaveLoopAccounted
<1>b. ASSUME Abort(p) PROVE Accounted(p)'
  BY <1>a, <1>b DEF Abort
(* Work on a message goes on, or ends when it has left the queue.           *)
<1>c. ASSUME pc[p] \in Moving, Done(p), ~Queued(v)' PROVE Accounted(p)'
  <2>1. /\ pc'[p] = IF dest[p] = "Failed" THEN "settle" ELSE "next"
        /\ UNCHANGED <<todo, dest, suspicious, oversized, settling, error>>
    BY <1>0, <1>c DEF Done, Aim, Goto
  <2>2. v \notin Reported' /\ AtWork(p) = {v} /\ AtWork(p)' = {} /\ left'[p] = left[p]
    BY <1>2, <1>c, <1>v, <2>1 DEF Reported, AtWork, Working, Moving
  <2>3. Loops(p)' => Loops(p)
    BY <1>c, <2>1 DEF Loops, Moving
  <2>4. Settles(p)' => Settles(p)
    BY <1>c, <2>1 DEF Settles, Moving
  <2>5. Loops(p)' => Reported' \subseteq todo[p] \union suspicious[p] \union oversized[p] \union later'[p]
    BY <1>1, <1>2, <2>2, <2>3 DEF Accounted
  <2>6. Settles(p)' => Admits(p)' \/ Reported' \subseteq settling[p] \union later'[p]
    BY <1>1, <1>2, <2>1, <2>2, <2>4 DEF Accounted, Admits
  <2> QED
    BY <2>1, <2>2, <2>5, <2>6 DEF Accounted
<1>d. ASSUME pc[p] \in Working, NEW l \in Working, Goto(p, l), l = "expunge" => ~Queued(v)',
             UNCHANGED <<todo, cur, suspicious, oversized, settling, error>>,
             \/ dest' = dest /\ pc[p] \in Moving /\ l \in Moving
             \/ dest'[p] # "Failed" /\ Loops(p)
      PROVE  Accounted(p)'
  <2>1. pc'[p] = l /\ cur'[p] = v /\ AtWork(p) = {v} /\ AtWork(p)' = {v} /\ left'[p] = left[p]
    BY <1>0, <1>2, <1>d, <1>v DEF Goto, AtWork, Working
  <2>2. Loops(p)' => Loops(p)
    BY <1>d, <2>1 DEF Loops, Moving
  <2>3. Settles(p)' => Settles(p)
    BY <1>d, <2>1 DEF Settles, Moving, Working
  <2>4. Loops(p)' => Reported' \subseteq todo[p] \union suspicious[p] \union oversized[p]
                                        \union later'[p] \union {v}
    BY <1>1, <1>2, <2>1, <2>2 DEF Accounted
  <2>5. Settles(p)' => Admits(p)' \/ Reported' \subseteq settling[p] \union later'[p] \union {v}
    BY <1>1, <1>2, <1>d, <2>1, <2>3 DEF Accounted, Admits
  <2>6. pc'[p] = "expunge" => ~Queued(cur[p])'
    BY <1>d, <1>v, <2>1 DEF Queued, InInbox
  <2> QED
    BY <1>d, <2>1, <2>4, <2>5, <2>6 DEF Accounted, Working
<1>3. CASE Connect(p)
  BY <1>3 DEF Connect
<1>4. CASE EnsureLabel(p) \/ CreateLabel(p)
  <2>1. ASSUME NEW l \in {"create", "list"}, Goto(p, l) PROVE Accounted(p)'
    <3>1. pc'[p] = l
      BY <1>0, <2>1 DEF Goto
    <3> QED
      BY <3>1 DEF Accounted, Loops, Settles, Moving
  <2> QED
    BY <1>4, <1>a, <2>1 DEF EnsureLabel, CreateLabel
<1>5. CASE List(p)
  <2>1. CASE Finish(p, TRUE)
    BY <1>a, <2>1
  <2>2. CASE ~Finish(p, TRUE)
    <3>1. pc'[p] = "next" /\ todo'[p] = Listed /\ UNCHANGED <<place, flags>>
      BY <1>0, <1>5, <2>2 DEF List, Goto
    <3>2. Reported \subseteq Listed
      BY DEF Reported, Listed, Queued
    <3>3. Reported' \subseteq todo'[p]
      BY <1>1, <3>1, <3>2
    <3> QED
      BY <3>1, <3>3 DEF Accounted, Loops, Settles, Moving
  <2> QED
    BY <2>1, <2>2
<1>6. CASE EndOfList(p)
  <2>1. LeaveLoop(p, FALSE) /\ pc[p] = "next" /\ pc'[p] = "settle"
    BY <1>0, <1>6 DEF EndOfList, LeaveLoop, Aim, Goto
  <2>2. AtWork(p) = {}
    BY <2>1 DEF AtWork, Working
  <2>3. left'[p] \/ todo[p] = {}
    BY <1>2, <2>1
  <2>4. Reported \subseteq todo[p] \union suspicious[p] \union oversized[p] \union later[p]
    BY <2>1, <2>2 DEF Accounted, Loops
  <2>5. left'[p] \/ Reported' \subseteq suspicious[p] \union oversized[p] \union later'[p]
    BY <1>1, <1>2, <2>3, <2>4
  <2> QED
    BY <1>0, <2>1, <2>5, LeaveLoopAccounted
<1>7. CASE Fetch(p)
  <2>1. CASE LeaveLoop(p, TRUE)
    BY <1>a, <2>1
  <2>2. CASE ~LeaveLoop(p, TRUE)
    <3>1. PICK u \in Uid :
             /\ todo' = [todo EXCEPT ![p] = @ \ {u}]
             /\ \/ Skipped(u) /\ UNCHANGED <<pc, cur, dest>>
                \/ Aim(p, u, "insert") /\ UNCHANGED dest
                \/ Aim(p, u, "move") /\ dest' = [dest EXCEPT ![p] = "Trash"]
             /\ UNCHANGED <<suspicious, oversized, settling, forwarded, error>>
      BY <1>7, <2>2 DEF Fetch
    <3>2. pc[p] = "next" /\ UNCHANGED <<place, flags>>
      BY <1>7 DEF Fetch
    <3>3. Reported' \subseteq todo[p] \union suspicious[p] \union oversized[p] \union later'[p]
      BY <1>1, <1>2, <3>2 DEF Accounted, Loops, AtWork, Working
    <3>4. CASE Skipped(u) /\ UNCHANGED <<pc, cur, dest>>
      <4>1. u \notin Reported'
        BY <3>2, <3>4 DEF Skipped, Reported, Queued, InInbox
      <4>2. Reported' \subseteq todo'[p] \union suspicious'[p] \union oversized'[p] \union later'[p]
        BY <1>0, <3>1, <3>3, <4>1
      <4> QED
        BY <3>2, <3>4, <4>2 DEF Accounted, Loops, Settles, Moving
    <3>5. CASE \E l \in {"insert", "move"} : Aim(p, u, l)
      <4>1. pc'[p] \in {"insert", "move"} /\ cur'[p] = u /\ (pc'[p] = "move" => dest'[p] = "Trash" \/ UNCHANGED dest)
        BY <1>0, <3>1, <3>5 DEF Aim, Goto
      <4>2. AtWork(p)' = {u}
        BY <4>1 DEF AtWork, Working
      <4>3. Reported' \subseteq todo'[p] \union suspicious'[p] \union oversized'[p] \union later'[p] \union {u}
        BY <1>0, <3>1, <3>3
      <4>4. ~Settles(p)'
        <5>1. pc'[p] = "move" => dest'[p] = "Trash"
          BY <1>0, <3>1, <3>2, <4>1 DEF Aim, Goto
        <5> QED
          BY <4>1, <5>1 DEF Settles, Moving
      <4> QED
        BY <4>1, <4>2, <4>3, <4>4 DEF Accounted
    <3> QED
      BY <3>1, <3>4, <3>5
  <2> QED
    BY <2>1, <2>2
<1>8. CASE Insert(p)
  <2>0. pc[p] = "insert" /\ AtWork(p) = {v} /\ v \in Uid
    BY <1>0, <1>8, <1>v DEF Insert, AtWork, Working
  <2>1. CASE LeaveLoop(p, TRUE)
    BY <1>a, <2>1
  <2>2. CASE Goto(p, "tag") /\ UNCHANGED <<todo, spent, cur, dest, suspicious, oversized, settling, error>>
    <3>1. pc'[p] = "tag" /\ cur'[p] = v
      BY <1>0, <1>v, <2>2 DEF Goto
    <3>2. AtWork(p)' = {v}
      BY <3>1 DEF AtWork, Working
    <3>3. Reported' \subseteq todo'[p] \union suspicious'[p] \union oversized'[p] \union later'[p] \union {v}
      BY <1>1, <1>2, <2>0, <2>2 DEF Accounted, Loops
    <3> QED
      BY <3>1, <3>2, <3>3 DEF Accounted, Settles, Moving
  <2>3. CASE /\ Aim(p, NoUid, "next")
             /\ UNCHANGED todo
             /\ \/ UNCHANGED <<suspicious, oversized>>
                \/ UNCHANGED suspicious /\ oversized' = [oversized EXCEPT ![p] = @ \union {cur[p]}]
                \/ UNCHANGED oversized /\ suspicious' = [suspicious EXCEPT ![p] = @ \union {cur[p]}]
    <3>1. pc'[p] = "next"
      BY <1>0, <2>3 DEF Aim, Goto
    <3>2. suspicious[p] \subseteq suspicious'[p] /\ oversized[p] \subseteq oversized'[p]
      BY <1>0, <2>3
    <3>3. v \in suspicious'[p] \union oversized'[p] \union later'[p]
      BY <1>2, <1>v, <2>0, <3>1 DEF PutOff
    <3>4. Reported \subseteq todo[p] \union suspicious[p] \union oversized[p] \union later[p] \union {v}
      BY <2>0 DEF Accounted, Loops
    <3>5. Reported' \subseteq todo'[p] \union suspicious'[p] \union oversized'[p] \union later'[p]
      BY <1>1, <1>2, <2>3, <3>2, <3>3, <3>4
    <3> QED
      BY <3>1, <3>5 DEF Accounted, Settles, Moving
  <2> QED
    BY <1>8, <2>1, <2>2, <2>3 DEF Insert
<1>9. CASE Tag(p)
  <2>1. pc[p] = "tag" /\ pc[p] \in Working /\ Loops(p)
    BY <1>9 DEF Tag, Working, Loops
  <2>2. \E l \in {"move", "mark"} : Goto(p, l)
    BY <1>9 DEF Tag, QuarantineStart
  <2>3. dest'[p] # "Failed" /\ UNCHANGED <<todo, cur, suspicious, oversized, settling, error>>
    BY <1>0, <1>9 DEF Tag
  <2> QED
    BY <1>d, <2>1, <2>2, <2>3 DEF Working
<1>10. CASE Mark(p)
  <2>1. PICK ending \in Reply : Mark(p)!2!(ending)
    BY <1>10 DEF Mark
  <2>2. pc[p] \in Moving /\ pc[p] \in Working /\ place' = place
    BY <1>10 DEF Mark, Moving, Working
  <2>3. CASE Confirmed(v, ending) /\ Done(p)
    <3>1. QuarantineKeyword(p) \in Quarantine
      BY DEF QuarantineKeyword, Quarantine
    <3>2. ~Queued(v)'
      BY <1>0, <1>v, <2>1, <2>2, <2>3, <3>1 DEF Confirmed, AddFlag, Queued, InInbox, WorldTypeOK
    <3> QED
      BY <1>c, <2>2, <2>3, <3>2
  <2>4. CASE ~Confirmed(v, ending)
    BY <1>d, <1>v, <2>1, <2>2, <2>4 DEF Moving, Working
  <2> QED
    BY <1>v, <2>1, <2>3, <2>4
<1>11. CASE Move(p)
  <2>1. PICK ending \in Reply : Move(p)!2!(ending)
    BY <1>11 DEF Move
  <2>2. pc[p] \in Moving /\ pc[p] \in Working /\ flags' = flags
    BY <1>11 DEF Move, Moving, Working
  <2>3. CASE MoveMessage(v, dest[p], ending) /\ ending = "ok" /\ Done(p)
    <3>1. "INBOX" \notin place'[v]
      BY <1>0, <1>v, <2>2, <2>3 DEF MoveMessage, InInbox, WorldTypeOK, Folder
    <3>2. ~Queued(v)'
      BY <3>1 DEF Queued, InInbox
    <3> QED
      BY <1>c, <2>2, <2>3, <3>2
  <2>4. CASE Abort(p)
    BY <1>b, <2>4
  <2>5. CASE /\ Goto(p, "delete")
             /\ UNCHANGED <<todo, spent, cur, dest, suspicious, oversized, settling, forwarded, error>>
    BY <1>d, <2>2, <2>5 DEF Moving, Working
  <2> QED
    BY <1>v, <2>1, <2>3, <2>4, <2>5
<1>12. CASE Delete(p)
  <2>1. PICK ending \in Reply : Delete(p)!2!(ending)
    BY <1>12 DEF Delete
  <2>2. pc[p] \in Moving /\ pc[p] \in Working /\ place' = place
    BY <1>12 DEF Delete, Moving, Working
  <2>3. CASE /\ ending = "ok" /\ Goto(p, "expunge")
             /\ UNCHANGED <<todo, spent, cur, dest, suspicious, oversized, settling, forwarded, error>>
    <3>1. ~Queued(v)'
      BY <1>0, <1>v, <2>1, <2>2, <2>3 DEF AddFlag, Queued, InInbox, WorldTypeOK
    <3> QED
      BY <1>d, <2>2, <2>3, <3>1 DEF Moving, Working
  <2>4. CASE Abort(p)
    BY <1>b, <2>4
  <2> QED
    BY <1>v, <2>1, <2>3, <2>4
<1>13. CASE Expunge(p)
  <2>1. pc[p] = "expunge" /\ pc[p] \in Moving /\ (Done(p) \/ Abort(p))
    BY <1>13 DEF Expunge, Moving
  <2>2. v \in Uid /\ Arrived(v) /\ ~Queued(v)
    BY <1>0, <1>v, <2>1 DEF Accounted, Safe, Custody, WorkIsKept, Working
  <2>3. ~Queued(v)'
    BY <2>2 DEF Fades
  <2> QED
    BY <1>b, <1>c, <2>1, <2>3
<1>14. CASE Settle(p)
  <2>1. PICK u \in Uid : Settle(p)!2!(u)
    BY <1>14 DEF Settle
  <2>2. /\ pc[p] = "settle" /\ settling'[p] = settling[p] \ {u}
        /\ cur'[p] = u /\ pc'[p] \in {"mark", "move"} /\ dest'[p] = "Failed"
        /\ error' = error
    BY <1>0, <1>14, <2>1 DEF Settle, Next1, Aim, Goto, QuarantineStart
  <2>3. AtWork(p) = {} /\ AtWork(p)' = {u} /\ left'[p] = left[p]
    BY <1>2, <2>2 DEF AtWork, Working
  <2>4. Admits(p)' \/ Reported' \subseteq settling'[p] \union later'[p] \union {u}
    BY <1>1, <1>2, <2>2, <2>3 DEF Accounted, Settles, Admits
  <2> QED
    BY <2>2, <2>3, <2>4 DEF Accounted, Loops, Moving
<1>15. CASE Close(p)
  <2>1. pc[p] = "settle" /\ settling[p] = {} /\ Finish(p, error[p]) /\ error[p] \in BOOLEAN
    BY <1>15 DEF Close, Safe, TypeOK, RunTypeOK
  <2>2. AtWork(p) = {} /\ left'[p] = left[p]
    <3>1. pc'[p] = "idle"
      BY <1>0, <2>1 DEF Finish, Aim, Goto
    <3> QED
      BY <1>2, <2>1, <3>1 DEF AtWork, Working
  <2>3. error[p] \/ left'[p] \/ Reported' \subseteq later'[p]
    BY <1>1, <1>2, <2>1, <2>2 DEF Accounted, Settles, Admits
  <2> QED
    BY <1>0, <2>1, <2>3, FinishAccounted
<1> QED
  BY <1>3, <1>4, <1>5, <1>6, <1>7, <1>8, <1>9, <1>10, <1>11, <1>12, <1>13, <1>14, <1>15 DEF Step

(* A step that leaves the run that has been asked alone.                    *)
LEMMA OthersAccounted ==
    ASSUME Safe, Fades, seen \subseteq Uid, \A u \in seen : Arrived(u), UNCHANGED seen,
           NEW p \in Proc, Answering(p),
           pc'[p] = pc[p], cur'[p] = cur[p], dest'[p] = dest[p], todo'[p] = todo[p],
           suspicious'[p] = suspicious[p], oversized'[p] = oversized[p],
           settling'[p] = settling[p], error'[p] = error[p], at'[p] = at[p],
           reply'[p] = reply[p], left'[p] = left[p], later'[p] = later[p]
    PROVE  Answering(p)'
<1>1. Reported' \subseteq Reported
  BY ReportedFades
<1>2. (Loops(p)' <=> Loops(p)) /\ (Settles(p)' <=> Settles(p)) /\ (Admits(p)' <=> Admits(p))
      /\ AtWork(p)' = AtWork(p)
  BY DEF Loops, Settles, Admits, AtWork
<1>3. ASSUME pc[p] = "expunge", ~Queued(cur[p]) PROVE ~Queued(cur[p])'
  <2>1. PICK v : v = cur[p]
    OBVIOUS
  <2>2. v \in Uid /\ Arrived(v)
    BY <1>3, <2>1 DEF Safe, TypeOK, StepTypeOK, Custody, WorkIsKept, Working
  <2>3. ~Queued(v)' /\ cur'[p] = v
    BY <1>3, <2>1, <2>2 DEF Fades
  <2> QED
    BY <2>3 DEF Queued, InInbox
<1>4. Accounted(p) => Accounted(p)'
  BY <1>1, <1>2, <1>3 DEF Accounted
<1> QED
  BY <1>1, <1>4 DEF Answering

(* An answer that leaves nothing reported but what was put off.             *)
LEMMA ServeAnswers ==
    ASSUME LockOK, Safe, Fades, Waiting, Heeding, NEW p \in Proc, Serve(p), asked = p
    PROVE  Answering(p)'
<1>0. /\ TypeOK /\ HandlerTypeOK /\ LockIsHeld /\ UNCHANGED seen
      /\ seen \subseteq Uid /\ (\A u \in seen : Arrived(u)) /\ later \in [Proc -> SUBSET Uid]
      /\ Answering(p) /\ at[p] # "answered" /\ Remaining(p) /\ RetryLater(p)
      /\ Reported' \subseteq Reported
  BY ReportedFades, ServerAssumption DEF LockOK, ServerTypeOK, Heeding, Serve, watcher, Waiting
<1>1. CASE Forbid(p) \/ Busy(p) \/ BuildFails(p)
  <2>1. at'[p] = "answered" /\ reply'[p] # 200
    BY <1>0, <1>1 DEF Forbid, Busy, BuildFails, Respond, HandlerTypeOK
  <2> QED
    BY <2>1 DEF Answering
<1>2. CASE Acquire(p)
  <2>1. at'[p] = "locked"
    BY <1>0, <1>2 DEF Acquire, HandlerTypeOK
  <2> QED
    BY <2>1 DEF Answering
<1>3. CASE Run(p)
  <2>1. /\ at[p] = "locked" /\ at'[p] \in {"running", "ran"}
        /\ pc'[p] = "label" \/ (pc[p] = "idle" /\ pc'[p] = "idle" /\ error'[p])
    BY <1>0, <1>3 DEF Run, Connect, Goto, HandlerTypeOK, TypeOK, StepTypeOK, RunTypeOK
  <2>2. Accounted(p)'
    BY <2>1 DEF Accounted, Loops, Settles, Moving, Admits
  <2> QED
    BY <2>1, <2>2 DEF Answering
<1>4. CASE Work(p)
  <2>1. at[p] = "running" /\ at'[p] \in {"running", "ran"} /\ pc[p] # "idle" /\ Step(p)
    BY <1>0, <1>4 DEF Work, HandlerTypeOK, LockIsHeld
  <2>2. Accounted(p)'
    BY <1>0, <2>1, RunAccounted DEF Answering
  <2> QED
    BY <2>1, <2>2 DEF Answering
<1>5. CASE Return(p)
  <2>1. /\ at[p] = "ran" /\ at'[p] = "answered" /\ pc[p] = "idle"
        /\ reply'[p] = 200 => ~error[p]
        /\ UNCHANGED vars
    BY <1>0, <1>5 DEF Return, Respond, Answers, HandlerTypeOK, LockIsHeld
  <2>2. left'[p] = left[p] /\ later[p] \subseteq later'[p]
    BY <1>0, <2>1, BooksDuringRun
  <2>3. error[p] \/ left[p] \/ Reported \subseteq later[p]
    BY <1>0, <2>1 DEF Answering, Accounted, Admits
  <2> QED
    BY <1>0, <2>1, <2>2, <2>3 DEF Answering
<1>6. ~Hear(p)
  BY <1>0 DEF Hear
<1> QED
  BY <1>1, <1>2, <1>3, <1>4, <1>5, <1>6 DEF Serve, Handle

(* Every step of the system keeps it that way.                              *)
LEMMA SystemHeeds ==
    LockOK /\ Safe /\ Judged /\ Waiting /\ Heeding /\ [SystemNext]_systemVars => Heeding'
<1> SUFFICES ASSUME LockOK, Safe, Judged, Waiting, Heeding, [SystemNext]_systemVars
             PROVE  Heeding'
  OBVIOUS
<1>0. /\ TypeOK /\ HandlerTypeOK /\ LockIsHeld
      /\ later \in [Proc -> SUBSET Uid] /\ left \in [Proc -> BOOLEAN]
      /\ seen \subseteq Uid /\ (\A u \in seen : Arrived(u)) /\ asked \in Proc \union {Nobody}
  BY DEF LockOK, ServerTypeOK, Heeding, Waiting
<1>1. [ServiceNext]_vars
  BY SystemIsService
<1>2. Safekept
  BY <1>1, ServiceStepPromises
<1>3. Fades
  <2>1. UNCHANGED <<place, flags>> => Fades
    BY DEF Fades, Queued, InInbox
  <2> QED
    BY <1>0, <1>1, <2>1, NextFades DEF ServiceNext, Restart, Calm
<1>a. ASSUME UNCHANGED seen PROVE seen' \subseteq Uid /\ \A u \in seen' : Arrived(u)'
  BY <1>0, <1>2, <1>a DEF Safekept
(* A step that asks for nothing, or stops waiting.                          *)
<1>b. ASSUME asked' = Nobody, UNCHANGED later, seen' \in {seen, {}} PROVE Heeding'
  <2>1. seen' \subseteq Uid /\ \A u \in seen' : Arrived(u)'
    BY <1>a, <1>b
  <2> QED
    BY <1>0, <1>b, <2>1 DEF Heeding
(* A step that leaves the watcher and the run it has asked alone.           *)
<1>c. ASSUME UNCHANGED <<seen, asked, left>>, later' \in [Proc -> SUBSET Uid],
             asked # Nobody => Answering(asked)'
      PROVE  Heeding'
  BY <1>0, <1>a, <1>c DEF Heeding
<1>d. ASSUME UNCHANGED <<seen, asked>>, NEW p \in Proc, asked = p, later'[p] = later[p], left'[p] = left[p],
             pc'[p] = pc[p], cur'[p] = cur[p], dest'[p] = dest[p], todo'[p] = todo[p],
             suspicious'[p] = suspicious[p], oversized'[p] = oversized[p],
             settling'[p] = settling[p], error'[p] = error[p], at'[p] = at[p],
             reply'[p] = reply[p]
      PROVE  Answering(p)'
  <2>1. Answering(p)
    BY <1>d, ServerAssumption DEF Heeding
  <2> QED
    BY <1>0, <1>3, <1>d, <2>1, OthersAccounted
<1>4. CASE Watch
  <2>1. asked = Nobody /\ asked' = Nobody /\ UNCHANGED <<place, later>>
    BY <1>4 DEF Watch, Waiting, calls, W!ConnectSession, W!ListInbox, W!IdleWait, W!WakeUp
  <2>2. seen' \in {seen, {}, WatcherListed}
    BY <1>4 DEF Watch, W!ConnectSession, W!ListInbox, W!IdleWait, W!WakeUp, W!LoseSession, W!Forget
  <2>3. CASE seen' = WatcherListed
    <3>1. seen' \subseteq Uid /\ \A u \in seen' : Arrived(u)'
      BY <2>1, <2>3 DEF WatcherListed, Listed, InInbox, Arrived
    <3> QED
      BY <1>0, <2>1, <3>1 DEF Heeding
  <2> QED
    BY <1>b, <2>1, <2>2, <2>3
<1>5. CASE RestartWatch
  BY <1>5, <1>b DEF RestartWatch, W!RestartWatcher, W!Afresh, W!Forget
<1>6. ASSUME NEW d, NoRequest(d) \/ GiveUp(d) PROVE Heeding'
  <2>1. asked' = Nobody /\ UNCHANGED later
    BY <1>6 DEF NoRequest, GiveUp, calls
  <2>2. seen' \in {seen, {}}
    BY <1>6 DEF NoRequest, GiveUp, W!TriggerFailed, W!LoseSession, W!Forget
  <2> QED
    BY <1>b, <2>1, <2>2
<1>7. ASSUME NEW p \in Proc, NEW d, Response(p, d) PROVE Heeding'
  <2>1. asked' = Nobody /\ UNCHANGED later
    BY <1>7 DEF Response
  <2>2. seen' \in {seen, {}}
    BY <1>7 DEF Response, Hears, W!Triggered, W!ForwarderBusy, W!TriggerFailed, W!LoseSession, W!Forget
  <2> QED
    BY <1>b, <2>1, <2>2
<1>8. ASSUME NEW p \in Proc, Request(p) PROVE Heeding'
  <2>1. asked' = p /\ at'[p] = "called" /\ UNCHANGED <<seen, later>>
    BY <1>0, <1>8 DEF Request, Call, HandlerTypeOK, watcher
  <2>2. Answering(p)'
    BY <2>1 DEF Answering
  <2> QED
    BY <1>0, <1>a, <2>1, <2>2 DEF Heeding
<1>9. ASSUME NEW p \in Proc, Serve(p) PROVE Heeding'
  <2>1. UNCHANGED <<seen, asked>>
    BY <1>9 DEF Serve, watcher
  <2>2. later' \in [Proc -> SUBSET Uid]
    <3>1. PutOff(p) => cur[p] \in Uid
      BY <1>0 DEF PutOff, TypeOK, StepTypeOK, Working
    <3> QED
      BY <1>0, <1>9, <3>1 DEF Serve, RetryLater
  <2>3. asked = p => Answering(p)'
    BY <1>3, <1>9, ServeAnswers
  <2>4. ASSUME NEW q \in Proc, q # p, asked = q PROVE Answering(q)'
    <3>1. at'[q] = at[q] /\ reply'[q] = reply[q]
      BY <1>0, <1>9, <2>4 DEF Serve, Handle, Forbid, Busy, Acquire, BuildFails, Run, Work, Return,
                             Hear, Respond, HandlerTypeOK
    <3>2. left'[q] = left[q] /\ later'[q] = later[q]
      BY <1>0, <1>9, <2>4 DEF Serve, Remaining, RetryLater
    <3>3. Alone(p)
      <4>1. Step(p) \/ UNCHANGED jobs
        BY <1>9 DEF Serve, Handle, Forbid, Busy, Acquire, BuildFails, Run, Work, Return, Hear,
                    vars, Step
      <4> QED
        BY <1>0, <4>1, StepAlone DEF Alone, jobs
    <3> QED
      BY <1>d, <2>1, <2>4, <3>1, <3>2, <3>3 DEF Alone
  <2>5. seen' \subseteq Uid /\ (\A u \in seen' : Arrived(u)') /\ asked' = asked
    BY <1>a, <2>1
  <2>6. asked # Nobody => Answering(asked)'
    BY <1>0, <2>1, <2>3, <2>4, <2>5 DEF Heeding
  <2> QED
    BY <1>0, <2>1, <2>2, <2>5, <2>6 DEF Heeding
<1>10. ASSUME NEW p \in Proc, Fail(p) PROVE Heeding'
  <2>1. Raise(p) /\ UNCHANGED <<seen, asked, left, later>>
    BY <1>10 DEF Fail, watcher, calls
  <2>2. ASSUME asked = p PROVE Answering(p)'
    <3>1. at'[p] = "ran" /\ pc'[p] = "idle" /\ error'[p]
      BY <1>0, <2>1 DEF Raise, Crash, Finish, Aim, Goto, HandlerTypeOK, TypeOK, StepTypeOK, RunTypeOK
    <3> QED
      BY <3>1 DEF Answering, Accounted, Loops, Settles, Moving, Admits
  <2>3. ASSUME NEW q \in Proc, q # p, asked = q PROVE Answering(q)'
    <3>1. at'[q] = at[q] /\ reply'[q] = reply[q]
      BY <1>0, <2>1, <2>3 DEF Raise, HandlerTypeOK
    <3>2. Alone(p)
      BY <1>0, <2>1, StepAlone DEF Raise
    <3> QED
      BY <1>d, <2>1, <2>3, <3>1, <3>2 DEF Alone
  <2>4. asked # Nobody => Answering(asked)'
    BY <1>0, <2>1, <2>2, <2>3
  <2> QED
    BY <1>0, <1>c, <2>1, <2>4
<1>11. ASSUME NEW i \in Instance, Restart(i), UNCHANGED <<watcher, calls>> PROVE Heeding'
  <2>1. UNCHANGED <<seen, asked, left, later>>
    BY <1>11 DEF watcher, calls
  <2>2. ASSUME NEW q \in Proc, asked = q PROVE Answering(q)'
    <3>1. CASE InstanceOf[q] = i
      <4>1. at'[q] = "free"
        BY <1>11, <3>1 DEF Restart, Lost
      <4> QED
        BY <4>1 DEF Answering
    <3>2. CASE InstanceOf[q] # i
      <4>1. /\ pc'[q] = pc[q] /\ cur'[q] = cur[q] /\ dest'[q] = dest[q] /\ todo'[q] = todo[q]
            /\ suspicious'[q] = suspicious[q] /\ oversized'[q] = oversized[q]
            /\ settling'[q] = settling[q] /\ error'[q] = error[q]
            /\ at'[q] = at[q] /\ reply'[q] = reply[q]
        BY <1>11, <3>2 DEF Restart, Lost
      <4> QED
        BY <1>d, <2>1, <2>2, <4>1
    <3> QED
      BY <3>1, <3>2
  <2>3. asked # Nobody => Answering(asked)'
    BY <1>0, <2>1, <2>2
  <2> QED
    BY <1>0, <1>c, <2>1, <2>3
<1>12. CASE UNCHANGED <<jobs, handler, watcher, calls>>
  <2>1. UNCHANGED <<seen, asked, left, later>>
    BY <1>12 DEF watcher, calls
  <2>2. ASSUME NEW q \in Proc, asked = q PROVE Answering(q)'
    BY <1>12, <1>d, <2>1, <2>2 DEF jobs, handler
  <2>3. asked # Nobody => Answering(asked)'
    BY <1>0, <2>1, <2>2
  <2> QED
    BY <1>0, <1>c, <2>1, <2>3
<1>13. CASE (NewMail \/ Owner) /\ UNCHANGED <<handler, watcher, calls>>
  BY <1>12, <1>13 DEF NewMail, Owner
<1>14. CASE UNCHANGED systemVars
  BY <1>12, <1>14 DEF systemVars, serverVars, vars
<1> QED
  BY <1>4, <1>5, <1>6, <1>7, <1>8, <1>9, <1>10, <1>11, <1>13, <1>14 DEF SystemNext, Watcher

(* What AnsweredMailIsSettled asks of a step.                               *)
AnswerSettles ==
    asked # Nobody /\ doing = "call" /\ doing' \in Waits
    => {u \in seen : Queued(u)} \subseteq later[asked]

(* Only an answer without an error or a remainder lets the watcher wait.    *)
LEMMA SystemAnswers ==
    TypeOK /\ Waiting /\ Heeding /\ [SystemNext]_systemVars => AnswerSettles
<1> SUFFICES ASSUME TypeOK, Waiting, Heeding, [SystemNext]_systemVars,
                    asked # Nobody, doing = "call", doing' \in Waits
             PROVE  Reported \subseteq later[asked]
  BY DEF AnswerSettles, Reported
<1>1. ASSUME NEW p \in Proc, NEW d, Response(p, d) PROVE Reported \subseteq later[asked]
  <2>1. asked = p /\ at[p] = "answered" /\ Hears(d, reply[p], left[p])
    BY <1>1 DEF Response
  <2>2. reply[p] = 200 /\ ~left[p]
    BY <2>1 DEF Hears, W!Triggered, W!ForwarderBusy, W!TriggerFailed, W!SleepFor, W!LoseSession, Waits
  <2> QED
    BY <2>1, <2>2 DEF Heeding, Answering
<1>2. ASSUME NEW d, NoRequest(d) \/ GiveUp(d) PROVE FALSE
  BY <1>2 DEF NoRequest, GiveUp, W!TriggerFailed, W!SleepFor, W!LoseSession, Waits
<1>3. ASSUME Watch \/ RestartWatch PROVE FALSE
  BY <1>3 DEF Watch, RestartWatch, W!ConnectSession, W!ListInbox, W!IdleWait, W!WakeUp,
              W!RestartWatcher, W!Afresh, Waits
<1>4. ASSUME UNCHANGED doing PROVE FALSE
  BY <1>4 DEF Waits
<1> QED
  BY <1>1, <1>2, <1>3, <1>4 DEF SystemNext, Watcher, Request, Serve, Fail, watcher, systemVars

(* AnsweredMailIsSettled: when an answer lets the watcher wait for new     *)
(* mail, all that it had reported has left the queue, or was put off by    *)
(* Gmail in the very run that answers.                                     *)
THEOREM AnswersAreTrue == SystemSpec => AnsweredMailIsSettled
<1> DEFINE Inv == LockOK /\ Safe /\ Judged /\ Waiting /\ Heeding
<1>1. SystemInit => Waiting /\ Heeding
  BY ServerAssumption DEF SystemInit, W!WatchInit, Waiting, Heeding
<1>2. LockOK => TypeOK
  BY DEF LockOK, ServerTypeOK
<1>3. LockOK /\ Waiting /\ [SystemNext]_systemVars => Waiting'
  BY <1>2, SystemWatches
<1>4. SystemSpec => [](Safe /\ Judged)
  BY ServiceImplemented, ServiceSafe
<1>5. LockOK /\ Waiting /\ Heeding /\ [SystemNext]_systemVars => [AnswerSettles]_systemVars
  BY <1>2, SystemAnswers
<1> QED
  BY <1>1, <1>3, <1>4, <1>5, LockOKAlways, SystemHeeds, PTL
     DEF SystemSpec, AnsweredMailIsSettled, AnswerSettles

=============================================================================
