----------------------------- MODULE CliProofs -----------------------------
(***************************************************************************)
(* What the operator's commands leave of the promises, whatever the        *)
(* forwarder does between two of their round trips, alone or as part of    *)
(* the whole system: the markers stay true, mail stays safe, "list" tells  *)
(* what Gmail has, and clearing a keyword costs no duplicate that was not  *)
(* paid for.                                                               *)
(***************************************************************************)
EXTENDS Attended, ServerProofs

(* Only a keyword of the quarantine comes or goes with a step of a command. *)
OnlyKeywords ==
    \A u \in Uid : flags[u] \ Quarantine = flags'[u] \ Quarantine

(* What a step of a command does to what the forwarder works on.            *)
LEMMA CliStepShape ==
    ASSUME TypeOK, CliTypeOK, CliStep
    PROVE  /\ UNCHANGED <<place, copies, label, jobs>>
           /\ flags' \in [Uid -> SUBSET Flag]
           /\ faults' \in Nat /\ faults <= faults'
           /\ OnlyKeywords
           /\ \A u \in Uid : "unverified" \in flags'[u] => "unverified" \in flags[u]
           /\ \A u \in Uid : \/ flags[u] \subseteq flags'[u]
                             \/ flags'[u] = flags[u] \ {keyword}
<1>0. flags \in [Uid -> SUBSET Flag] /\ faults \in Nat /\ keyword \in Quarantine
  BY DEF TypeOK, WorldTypeOK, ChanceTypeOK, CliTypeOK
<1>1. UNCHANGED <<place, copies, label, jobs>>
  BY DEF CliStep
<1>2. CASE UNCHANGED <<flags, faults>>
  BY <1>0, <1>1, <1>2 DEF OnlyKeywords
<1>3. ASSUME NEW u \in Uid, NEW ending \in Reply, Clear(u, ending) \/ MarkOneFailed(u, ending)
      PROVE  faults' \in Nat /\ faults <= faults'
  BY <1>0, <1>3 DEF Clear, MarkOneFailed, Answered
<1>4. ASSUME NEW u \in Uid, NEW ending \in Reply, Clear(u, ending)
      PROVE  /\ flags' \in [Uid -> SUBSET Flag] /\ OnlyKeywords
             /\ \A v \in Uid : flags'[v] = flags[v] \/ flags'[v] = flags[v] \ {keyword}
  BY <1>0, <1>4 DEF Clear, RemoveKeyword, OnlyKeywords
<1>5. ASSUME NEW u \in Uid, NEW ending \in Reply, MarkOneFailed(u, ending)
      PROVE  /\ flags' \in [Uid -> SUBSET Flag] /\ OnlyKeywords
             /\ \A v \in Uid : flags'[v] = flags[v] \/ flags'[v] = flags[v] \union {"failed"}
  BY <1>0, <1>5 DEF MarkOneFailed, AddFlag, OnlyKeywords, Flag, Quarantine
<1>6. CASE \E u \in Uid, ending \in Reply : Clear(u, ending)
  BY <1>1, <1>3, <1>4, <1>6
<1>7. CASE \E u \in Uid, ending \in Reply : MarkOneFailed(u, ending)
  BY <1>1, <1>3, <1>5, <1>7
<1> QED
  BY <1>2, <1>6, <1>7 DEF CliStep, Exit

(* The commands keep their own variables typed.                             *)
LEMMA CliStepTypeOK == ASSUME CliTypeOK, CliStep PROVE CliTypeOK'
<1> USE CliAssumption DEF CliTypeOK
<1>1. ASSUME NEW args \in SUBSET Uid, NEW k \in Quarantine, Retry(k, args) PROVE CliTypeOK'
  BY <1>1 DEF Retry
<1>2. ASSUME NEW args \in SUBSET Uid, MarkFailed(args) PROVE CliTypeOK'
  BY <1>2 DEF MarkFailed
<1>3. ASSUME NEW u \in Uid, NEW ending, Clear(u, ending) \/ MarkOneFailed(u, ending)
      PROVE  CliTypeOK'
  BY <1>3 DEF Clear, MarkOneFailed
<1>4. CASE Exit
  BY <1>4 DEF Exit, Quarantine
<1> QED
  BY <1>1, <1>2, <1>3, <1>4 DEF CliStep

(* They leave the forwarder typed, its markers true and its mail kept.      *)
LEMMA CliStepSafe == ASSUME Safe, CliTypeOK, CliStep PROVE Safe'
<1> TypeOK /\ Truth /\ Custody
  BY DEF Safe
<1>1. /\ UNCHANGED <<place, copies, label, jobs>>
      /\ flags' \in [Uid -> SUBSET Flag] /\ faults' \in Nat
      /\ OnlyKeywords
      /\ \A u \in Uid : "unverified" \in flags'[u] => "unverified" \in flags[u]
  BY CliStepShape
<1>2. TypeOK'
  BY <1>1 DEF TypeOK, WorldTypeOK, ChanceTypeOK, RunTypeOK, StepTypeOK, LabelTypeOK, jobs
<1>3. \A u \in Uid : /\ "inserted" \in flags'[u] => "inserted" \in flags[u]
                     /\ "deleted" \in flags'[u] => "deleted" \in flags[u]
  BY <1>1 DEF OnlyKeywords, Quarantine
<1>4. MarkersAreTrue' /\ TrashIsInGmail'
  BY <1>1, <1>3 DEF Truth, MarkersAreTrue, TrashIsInGmail
<1>5. WorkIsTrue'
  BY <1>1 DEF Truth, WorkIsTrue, TrueAt, jobs
<1>6. HiddenIsKept'
  BY <1>1, <1>3 DEF Custody, HiddenIsKept
<1>7. WorkIsKept'
  BY <1>1 DEF Custody, WorkIsKept, Known, Arrived, Kept, jobs
<1> QED
  BY <1>2, <1>4, <1>5, <1>6, <1>7 DEF Safe, Truth, Custody

(* An unverified keyword is cleared only after a confirmed requeue.         *)
Confirmation == keyword = "unverified" => requeues > 0

(* The inductive invariant.                                                 *)
CliInv == Safe /\ CliTypeOK /\ Confirmation

(* The operator beside all that the forwarder may be a part of.             *)
ManagedVars == <<vars, cliVars>>
ManagedNext == CliStep \/ (ServiceNext /\ UNCHANGED cliVars)
ManagedSpec == Init /\ CliInit /\ [][ManagedNext]_ManagedVars

(* It is the forwarder itself, or the whole system.                         *)
LEMMA ManagedImplemented == (CliSystem => ManagedSpec) /\ (AttendedSpec => ManagedSpec)
<1>1. CliSystemInit => Init /\ CliInit
  BY DEF CliSystemInit
<1>2. AttendedInit => Init /\ CliInit
  BY DEF AttendedInit, SystemInit, ServerInit
<1>3. [CliSystemNext]_<<vars, cliVars>> => [ManagedNext]_ManagedVars
  BY DEF CliSystemNext, ManagedNext, ServiceNext, ManagedVars
<1>4. [AttendedNext]_attendedVars => [ManagedNext]_ManagedVars
  <2>1. UNCHANGED systemVars => UNCHANGED vars
    BY DEF systemVars, serverVars
  <2> QED
    BY <2>1, SystemIsService
       DEF AttendedNext, attendedVars, Operator, ManagedNext, ManagedVars
<1> QED
  BY <1>1, <1>2, <1>3, <1>4, PTL DEF CliSystem, AttendedSpec, ManagedSpec

(* The invariant holds at first, and every step of a command and of the     *)
(* rest keeps it.                                                           *)
LEMMA CliInvAlways == ManagedSpec => []CliInv
<1>1. Init /\ CliInit => CliInv
  BY InitTypeOK, InitSafe, CliAssumption
     DEF CliInit, CliInv, CliTypeOK, Confirmation, Safe, Quarantine
<1>2. ASSUME CliInv, CliStep PROVE CliInv'
  <2>1. CliTypeOK'
    BY <1>2, CliStepTypeOK DEF CliInv
  <2>2. Confirmation'
    <3>1. ASSUME NEW k, NEW args, Retry(k, args) PROVE Confirmation'
      BY <1>2, <3>1 DEF Retry, Confirmation, CliInv, CliTypeOK
    <3>2. CASE UNCHANGED <<keyword, requeues>>
      BY <1>2, <3>2 DEF Confirmation, CliInv
    <3>3. CASE Exit
      BY <3>3 DEF Exit, Confirmation
    <3> QED
      BY <1>2, <3>1, <3>2, <3>3 DEF CliStep, MarkFailed, Clear, MarkOneFailed
  <2> QED
    BY <1>2, <2>1, <2>2, CliStepSafe DEF CliInv
<1>3. ASSUME CliInv, UNCHANGED cliVars, [ServiceNext]_vars PROVE CliInv'
  <2>1. Safe'
    BY <1>3, NextTypeOK, NextTruth, NextCustody, QuietSafe DEF CliInv, Safe, ServiceNext
  <2> QED
    BY <1>3, <2>1 DEF CliInv, CliTypeOK, Confirmation, cliVars
<1>4. CliInv /\ [ManagedNext]_ManagedVars => CliInv'
  BY <1>2, <1>3 DEF ManagedNext, ManagedVars
<1> QED
  BY <1>1, <1>4, PTL DEF ManagedSpec

(* Every variable of the commands has its type, and no work outlives its    *)
(* command.                                                                 *)
THEOREM CliTypeCorrect == (CliSystem => []CliTypeOK) /\ (AttendedSpec => []CliTypeOK)
<1>1. CliInv => CliTypeOK
  BY DEF CliInv
<1> QED
  BY <1>1, CliInvAlways, ManagedImplemented, PTL

(* The markers and the Trash tell the truth also while the operator clears  *)
(* keywords and marks messages as failed that a run is at work on, be it    *)
(* the forwarder alone or the whole system.                                 *)
THEOREM OperatorKeepsMarkersTrue ==
    /\ CliSystem => [](TrashIsInGmail /\ MarkersAreTrue /\ HiddenIsKept)
    /\ AttendedSpec => [](TrashIsInGmail /\ MarkersAreTrue /\ HiddenIsKept)
<1>1. CliInv => TrashIsInGmail /\ MarkersAreTrue /\ HiddenIsKept
  BY DEF CliInv, Safe, Truth, Custody
<1> QED
  BY <1>1, CliInvAlways, ManagedImplemented, PTL

(* Beside the operator, too, no step takes the last copy of a message from  *)
(* the account.                                                             *)
THEOREM OperatorKeepsMail ==
    (CliSystem => NothingVanishes) /\ (AttendedSpec => NothingVanishes)
<1>1. CliInv /\ [ManagedNext]_ManagedVars
      => [\A u \in Uid : place[u] # {} => place'[u] # {}]_vars
  <2>1. ASSUME CliStep PROVE UNCHANGED place
    BY <2>1 DEF CliStep
  <2>2. ASSUME CliInv, [Next]_vars PROVE Safekept
    BY <2>2, NextCustody DEF CliInv, Safe
  <2>3. ASSUME (\E i \in Instance : Restart(i)) \/ Calm PROVE UNCHANGED place
    BY <2>3 DEF Restart, Calm
  <2> QED
    BY <2>1, <2>2, <2>3 DEF ManagedNext, ManagedVars, ServiceNext, Safekept, Arrived
<1> QED
  BY <1>1, CliInvAlways, ManagedImplemented, PTL DEF ManagedSpec, NothingVanishes

(* The forwarder and the whole system beside the operator still implement   *)
(* Delivery.                                                                *)
THEOREM OperatorKeepsDelivery ==
    (CliSystem => ImplementsDelivery) /\ (AttendedSpec => ImplementsDelivery)
<1>1. CliInv /\ ReleasedIsInGmail' /\ [ManagedNext]_ManagedVars => [D!Next]_(D!vars)
  <2>1. ASSUME CliStep PROVE [D!Next]_(D!vars)
    BY <2>1, SameStages DEF CliStep, D!vars, stages
  <2> QED
    BY <2>1, ServiceRefines DEF ManagedNext, ManagedVars, CliInv
<1>2. CliInv => ReleasedIsInGmail
  BY SafeReleases DEF CliInv
<1>3. ManagedSpec => ImplementsDelivery
  BY <1>1, <1>2, InitRefines, CliInvAlways, PTL DEF ManagedSpec, ImplementsDelivery, D!Spec
<1> QED
  BY <1>3, ManagedImplemented

---------------------------------------------------------------------------
(* No step of the forwarder takes a flag away.                              *)
LEMMA NextKeepsFlags ==
    ASSUME TypeOK, [Next]_vars, NEW u \in Uid PROVE flags[u] \subseteq flags'[u]
<1>1. CASE UNCHANGED flags
  BY <1>1
<1>2. ASSUME NEW v, NEW f, NEW ending, AddFlag(v, f, ending) PROVE flags[u] \subseteq flags'[u]
  BY <1>2 DEF AddFlag, TypeOK, WorldTypeOK
<1>3. ASSUME NEW p \in Proc, Tag(p) \/ Mark(p) \/ Delete(p) PROVE flags[u] \subseteq flags'[u]
  BY <1>2, <1>3 DEF Tag, Mark, Delete
<1>4. ASSUME NEW p \in Proc,
             \/ Connect(p) \/ EnsureLabel(p) \/ CreateLabel(p) \/ List(p) \/ EndOfList(p)
             \/ Fetch(p) \/ Insert(p) \/ Move(p) \/ Expunge(p) \/ Settle(p) \/ Close(p)
             \/ Crash(p)
      PROVE  UNCHANGED flags
  BY <1>4 DEF Connect, EnsureLabel, CreateLabel, List, EndOfList, Fetch, Insert, Move,
              Expunge, Settle, Close, Crash, env
<1>5. CASE NewMail \/ Owner
  BY <1>5 DEF NewMail, Owner, Arrive, TakeAway, FlagDeleted, TypeOK, WorldTypeOK
<1>6. CASE UNCHANGED vars
  BY <1>6 DEF vars, env
<1> QED
  BY <1>1, <1>3, <1>4, <1>5, <1>6 DEF Next, Step

(* The proof that a message is in Gmail is taken from a message of the      *)
(* INBOX only after the operator has confirmed that a duplicate is fine.    *)
THEOREM ProofIsKeptFromOperators ==
    (CliSystem => ProofIsKept) /\ (AttendedSpec => ProofIsKept)
<1>1. ASSUME CliInv, CliStep, NEW u \in Uid, InGmailByMarker(u)
      PROVE  InGmailByMarker(u)' \/ requeues > 0
  <2>1. OnlyKeywords /\ (flags[u] \subseteq flags'[u] \/ flags'[u] = flags[u] \ {keyword})
    BY <1>1, CliStepShape DEF CliInv, Safe
  <2>2. CASE keyword = "unverified"
    BY <1>1, <2>2 DEF CliInv, Confirmation
  <2>3. CASE keyword # "unverified"
    BY <1>1, <2>1, <2>3 DEF InGmailByMarker, OnlyKeywords, Quarantine
  <2> QED
    BY <2>2, <2>3
<1>2. ASSUME CliInv, [Next]_vars, NEW u \in Uid, InGmailByMarker(u) PROVE InGmailByMarker(u)'
  BY <1>2, NextKeepsFlags DEF CliInv, Safe, InGmailByMarker
<1>3. ASSUME (\E i \in Instance : Restart(i)) \/ Calm PROVE UNCHANGED flags
  BY <1>3 DEF Restart, Calm
<1>4. CliInv /\ [ManagedNext]_ManagedVars
      => [\A u \in Uid : InGmailByMarker(u) /\ InInbox(u)'
                         => InGmailByMarker(u)' \/ requeues > 0]_<<vars, cliVars>>
  BY <1>1, <1>2, <1>3 DEF ManagedNext, ManagedVars, ServiceNext, InGmailByMarker
<1> QED
  BY <1>4, CliInvAlways, ManagedImplemented, PTL DEF ManagedSpec, ProofIsKept

---------------------------------------------------------------------------
(* The account of the duplicates beside the operator.  Clearing a keyword   *)
(* opens no message that the account did not already count as open.         *)
LEMMA CliStepPaid ==
    ASSUME IsFiniteSet(Proc), NEW cap \in Nat, Paid(cap), CliTypeOK, CliStep PROVE Paid(cap)'
<1> TypeOK /\ LinkUp /\ Unborn /\ Ledger(cap) /\ Safe
  BY DEF Paid, Safe
<1>1. /\ UNCHANGED <<place, copies, label, jobs>>
      /\ faults' \in Nat /\ faults <= faults' /\ OnlyKeywords
  BY CliStepShape
<1>2. LinkUp' /\ Unborn'
  BY <1>1 DEF jobs, LinkUp, Unborn, Arrived
<1>3. Ledger(cap)'
  <2>1. \A p \in Proc : Unmoved(p)
    BY <1>1 DEF jobs, Unmoved
  <2>2. \A u \in Uid : Open(u)' => Open(u)
    BY <1>1 DEF Open, InInbox, OnlyKeywords, Quarantine
  <2> QED
    BY <1>1, <2>1, <2>2, LedgerSame
<1> QED
  BY <1>2, <1>3, CliStepSafe DEF Paid

(* The account holds for ever beside any number of overlapping runs.        *)
LEMMA CliPaid ==
    ASSUME IsFiniteSet(Proc) PROVE CliSystem => []Paid(Cardinality(Proc))
<1> DEFINE cap == Cardinality(Proc)
<1>0. cap \in Nat
  BY FS_CardinalityType
<1>1. Crowd(cap)'
  BY ProcCrowd
<1> HIDE DEF cap
<1>2. CliSystemInit => Paid(cap)
  BY <1>0, InitPaid DEF CliSystemInit
<1>3. Paid(cap) /\ CliInv /\ [CliSystemNext]_<<vars, cliVars>> => Paid(cap)'
  BY <1>0, <1>1, PaidNext, CliStepPaid DEF CliSystemNext, CliInv
<1>4. CliSystem => []Paid(cap)
  BY <1>2, <1>3, CliInvAlways, ManagedImplemented, PTL DEF CliSystem
<1> QED
  BY <1>4 DEF cap

(* The lock of the whole system does not depend on its operator either.     *)
LEMMA AttendedLock == AttendedSpec => []LockOK
<1>1. ASSUME LockOK, CliInv, Operator PROVE LockOK'
  <2>1. TypeOK'
    BY <1>1, CliStepSafe DEF Operator, CliInv, Safe
  <2>2. UNCHANGED <<at, caller, reply, runLock, built, pc>>
    BY <1>1 DEF Operator, CliStep, handler, jobs
  <2>3. HandlerTypeOK' /\ LockIsHeld'
    BY <1>1, <2>2 DEF LockOK, ServerTypeOK, HandlerTypeOK, LockIsHeld, LockOf
  <2> QED
    BY <2>1, <2>3 DEF LockOK, ServerTypeOK
<1>2. LockOK /\ CliInv /\ [AttendedNext]_attendedVars => LockOK'
  BY <1>1, SystemKeepsLock DEF AttendedNext, attendedVars
<1>3. AttendedInit => LockOK
  BY ServerInitOK DEF AttendedInit, SystemInit
<1> QED
  BY <1>2, <1>3, CliInvAlways, ManagedImplemented, PTL DEF AttendedSpec

(* Runs of one instance exclude each other in it, as they do without him.   *)
THEOREM AttendedRunsExclude == AttendedSpec => []OneRunAtATime
BY LockExcludes, AttendedLock, PTL

(* Hence its account has one entry for each instance, not for each thread.  *)
LEMMA AttendedPaid ==
    ASSUME IsFiniteSet(Proc), IsFiniteSet(Instance)
    PROVE  AttendedSpec => []Paid(Cardinality(Instance))
<1> DEFINE cap == Cardinality(Instance)
<1>0. cap \in Nat
  BY FS_CardinalityType
<1>1. OneRunAtATime => Crowd(cap)
  BY ExclusionCrowd
<1>2. OneRunAtATime' => Crowd(cap)'
  BY <1>1, PTL
<1> HIDE DEF cap
<1>3. Init => Paid(cap)
  BY <1>0, InitPaid
<1>4. Paid(cap) /\ CliInv /\ OneRunAtATime /\ OneRunAtATime' /\ [ManagedNext]_ManagedVars
      => Paid(cap)'
  <2>1. ASSUME Paid(cap), OneRunAtATime, OneRunAtATime', [ServiceNext]_vars PROVE Paid(cap)'
    BY <2>1, <1>0, <1>2, PaidNext, RestartPaid, CalmPaid DEF ServiceNext
  <2>2. ASSUME Paid(cap), CliInv, CliStep PROVE Paid(cap)'
    BY <2>2, <1>0, CliStepPaid DEF CliInv
  <2> QED
    BY <2>1, <2>2 DEF ManagedNext, ManagedVars
<1>5. AttendedSpec => []Paid(cap)
  BY <1>3, <1>4, CliInvAlways, AttendedRunsExclude, ManagedImplemented, PTL DEF ManagedSpec
<1> QED
  BY <1>5 DEF cap

(* Gmail holds no more copies of a message than processes that may overlap  *)
(* plus faults, although the operator has messages sent again that may      *)
(* already be there.                                                        *)
THEOREM OperatorPaysDuplicates ==
    ASSUME IsFiniteSet(Proc) PROVE CliSystem => []DuplicatesArePaid
<1>1. Paid(Cardinality(Proc)) => DuplicatesArePaid
  BY FS_CardinalityType, PaidBounds DEF DuplicatesArePaid
<1> QED
  BY <1>1, CliPaid, PTL

(* In the whole system instances take the place of processes, whatever the  *)
(* operator does, however often the watcher calls, and whatever restarts.   *)
THEOREM AttendedPaysDuplicates ==
    ASSUME IsFiniteSet(Proc), IsFiniteSet(Instance)
    PROVE  AttendedSpec => []DuplicatesPerInstance
<1>1. Paid(Cardinality(Instance)) => DuplicatesPerInstance
  BY FS_CardinalityType, PaidBounds DEF DuplicatesPerInstance
<1> QED
  BY <1>1, AttendedPaid, PTL

(* Of mail that is quarantined without a marker that says "in Gmail", Gmail *)
(* holds no copy but those a fault kept from being recorded and those about *)
(* to be recorded.                                                          *)
THEOREM NotInGmailButForFaults ==
    ASSUME IsFiniteSet(Proc) PROVE CliSystem => []NotInGmailIsPaid
<1>1. Paid(Cardinality(Proc)) => NotInGmailIsPaid
  BY DEF Paid, Ledger, NotInGmailIsPaid, InGmailByMarker, Collected, Visible, Open, Taggers
<1> QED
  BY <1>1, CliPaid, PTL

(* So it is in the whole system, although "list" asks neither the service   *)
(* nor Gmail.                                                               *)
THEOREM AttendedNotInGmailButForFaults ==
    ASSUME IsFiniteSet(Proc), IsFiniteSet(Instance)
    PROVE  AttendedSpec => []NotInGmailIsPaid
<1>1. Paid(Cardinality(Instance)) => NotInGmailIsPaid
  BY DEF Paid, Ledger, NotInGmailIsPaid, InGmailByMarker, Collected, Visible, Open, Taggers
<1> QED
  BY <1>1, AttendedPaid, PTL

---------------------------------------------------------------------------
(* To the watcher the operator is one who makes mail come and go.           *)
LEMMA AttendedWatches ==
    TypeOK /\ Waiting /\ CliTypeOK /\ [AttendedNext]_attendedVars
    => [W!OpenNext]_(W!watchVars) /\ Waiting'
<1> SUFFICES ASSUME TypeOK, Waiting, CliTypeOK, [AttendedNext]_attendedVars
             PROVE  [W!OpenNext]_(W!watchVars) /\ Waiting'
  OBVIOUS
<1>1. CASE Operator
  <2>1. UNCHANGED <<watcher, calls>>
    BY <1>1 DEF Operator
  <2>2. W!MoreFaults
    <3>1. ASSUME NEW ending, Answered(ending) PROVE W!MoreFaults
      BY <3>1, OneMoreFault DEF Answered, W!MoreFaults
    <3> QED
      BY <1>1, <3>1 DEF Operator, CliStep, Clear, MarkOneFailed, Exit, W!MoreFaults
  <2>3. W!Elsewhere
    BY <2>1, ListedIsMail DEF watcher, W!Elsewhere, W!loopVars
  <2> QED
    BY <2>1, <2>2, <2>3 DEF W!OpenNext, watcher, calls, Waiting
<1>2. CASE [SystemNext]_systemVars
  BY <1>2, SystemWatches
<1> QED
  BY <1>1, <1>2 DEF AttendedNext, attendedVars

(* Whatever he does, the watcher does what it does in Watcher.              *)
LEMMA AttendedIsWatched == AttendedSpec => W!OpenSpec
<1>1. AttendedInit => W!WatchInit /\ Waiting
  BY SystemWatchesFirst DEF AttendedInit
<1>2. CliInv => TypeOK /\ CliTypeOK
  BY DEF CliInv, Safe
<1> QED
  BY <1>1, <1>2, AttendedWatches, CliInvAlways, ManagedImplemented, PTL
     DEF AttendedSpec, W!OpenSpec

=============================================================================
