-------------------------- MODULE ForwarderProofs --------------------------
(***************************************************************************)
(* Theorems about Forwarder, for any set of messages, any number of         *)
(* processes, any answers of Gmail and any number of faults.                *)
(***************************************************************************)
EXTENDS Forwarder, TLAPS

USE UidAssumption, MailboxAssumption, GmailAssumption, ForwarderAssumption

(* An IMAP command leaves the fault counter and the connections typed.      *)
LEMMA CommandType ==
    ASSUME ChanceTypeOK, NEW p \in Proc, NEW reply, Command(p, reply)
    PROVE  ChanceTypeOK'
BY DEF ChanceTypeOK, Command

(* So does a FETCH, of a message that can be fetched or not.                *)
LEMMA FetchEndsType ==
    ASSUME ChanceTypeOK, NEW p \in Proc, NEW u \in Uid, NEW reply, FetchEnds(p, u, reply)
    PROVE  ChanceTypeOK'
<1>1. CASE Command(p, reply)
  BY <1>1, CommandType
<1>2. CASE ~Command(p, reply)
  <2>1. PICK up \in {link[p], FALSE} : link' = [link EXCEPT ![p] = up] /\ UNCHANGED faults
    BY <1>2 DEF FetchEnds
  <2>2. up \in BOOLEAN
    BY DEF ChanceTypeOK
  <2> QED
    BY <2>1, <2>2 DEF ChanceTypeOK
<1> QED
  BY <1>1, <1>2

(* STORE +FLAGS leaves the mailbox typed.                                   *)
LEMMA AddFlagType ==
    ASSUME WorldTypeOK, NEW u \in Uid, NEW f \in Flag, NEW reply,
           AddFlag(u, f, reply), UNCHANGED <<place, copies>>
    PROVE  WorldTypeOK'
BY DEF WorldTypeOK, AddFlag

(* A move, a copy or an expunge leaves the mailbox typed.                   *)
LEMMA RelocateType ==
    ASSUME WorldTypeOK, NEW u \in Uid, NEW f \in Folder, NEW reply,
           \/ MoveMessage(u, f, reply)
           \/ CopyMessage(u, f, reply)
           \/ UidExpunge(u, reply),
           UNCHANGED <<flags, copies>>
    PROVE  WorldTypeOK'
<1>1. f \in Place /\ "INBOX" \in Place
  BY DEF Place
<1> QED
  BY <1>1 DEF WorldTypeOK, MoveMessage, CopyMessage, UidExpunge

(* The end of a run leaves its variables typed.                             *)
LEMMA FinishType ==
    ASSUME RunTypeOK, StepTypeOK, NEW p \in Proc, NEW err \in BOOLEAN, Finish(p, err)
    PROVE  RunTypeOK' /\ StepTypeOK'
<1>1. RunTypeOK'
  BY DEF RunTypeOK, Finish
<1>2. pc' \in [Proc -> Location] /\ cur' \in [Proc -> Uid \union {NoUid}] /\ dest' \in [Proc -> Folder]
  BY DEF StepTypeOK, Finish, Aim, Goto, Location, Folder
<1>3. \A q \in Proc : pc'[q] \in Working => cur'[q] \in Uid
  BY DEF StepTypeOK, Finish, Aim, Goto, Working
<1> QED
  BY <1>1, <1>2, <1>3 DEF StepTypeOK

(* The breaker is a Boolean.                                                *)
LEMMA TrippedType == \A p \in Proc : Tripped(p) \in BOOLEAN
BY DEF Tripped

(* Leaving the loop over the listing leaves the run typed.                  *)
LEMMA LeaveLoopType ==
    ASSUME RunTypeOK, StepTypeOK, NEW p \in Proc, NEW err \in BOOLEAN, LeaveLoop(p, err)
    PROVE  RunTypeOK' /\ StepTypeOK'
<1>1. RunTypeOK'
  <2> DEFINE spared == IF Tripped(p) THEN {} ELSE suspicious[p]
  <2>1. oversized[p] \union spared \in SUBSET Uid
    BY DEF RunTypeOK
  <2>2. (err \/ Tripped(p)) \in BOOLEAN
    BY TrippedType
  <2> QED
    BY <2>1, <2>2 DEF RunTypeOK, LeaveLoop
<1>2. pc' \in [Proc -> Location] /\ cur' \in [Proc -> Uid \union {NoUid}] /\ dest' \in [Proc -> Folder]
  BY DEF StepTypeOK, LeaveLoop, Aim, Goto, Location, Folder
<1>3. \A q \in Proc : pc'[q] \in Working => cur'[q] \in Uid
  BY DEF StepTypeOK, LeaveLoop, Aim, Goto, Working
<1> QED
  BY <1>1, <1>2, <1>3 DEF StepTypeOK

(* A step inside one run: it goes on to l with message u, towards f.        *)
LEMMA GoOnType ==
    ASSUME StepTypeOK, NEW p \in Proc, NEW l \in Location, NEW u \in Uid \union {NoUid},
           NEW f \in Folder, l \in Working => u \in Uid,
           pc' = [pc EXCEPT ![p] = l], cur' = [cur EXCEPT ![p] = u],
           dest' = [dest EXCEPT ![p] = f]
    PROVE  StepTypeOK'
BY DEF StepTypeOK

(* A step that keeps where every process is keeps that typed.               *)
LEMMA SameType ==
    ASSUME StepTypeOK, NEW p \in Proc
    PROVE  /\ cur = [cur EXCEPT ![p] = cur[p]] /\ cur[p] \in Uid \union {NoUid}
           /\ dest = [dest EXCEPT ![p] = dest[p]] /\ dest[p] \in Folder
           /\ pc = [pc EXCEPT ![p] = pc[p]] /\ pc[p] \in Location
           /\ pc[p] \in Working => cur[p] \in Uid
BY DEF StepTypeOK

(* The step after a message that is dealt with leaves the run typed.        *)
LEMMA DoneType ==
    ASSUME RunTypeOK, StepTypeOK, NEW p \in Proc, Done(p)
    PROVE  RunTypeOK' /\ StepTypeOK'
<1>1. RunTypeOK'
  BY DEF RunTypeOK, Done
<1>2. StepTypeOK'
  BY DEF StepTypeOK, Done, Aim, Goto, Location, Working
<1> QED
  BY <1>1, <1>2

(* AbortRun leaves the run typed, whichever loop it leaves.                 *)
LEMMA AbortType ==
    ASSUME RunTypeOK, StepTypeOK, NEW p \in Proc, Abort(p)
    PROVE  RunTypeOK' /\ StepTypeOK'
BY FinishType, LeaveLoopType DEF Abort

---------------------------------------------------------------------------
(* The initial state is typed.                                              *)
LEMMA InitTypeOK == Init => TypeOK
BY DEF Init, TypeOK, WorldTypeOK, ChanceTypeOK, RunTypeOK, StepTypeOK, LabelTypeOK,
       MailboxInit, GmailInit, Spelling, Folder, Location, Working

(* Nothing but ensure_label changes the label of Gmail.                     *)
LEMMA NextLabelType == LabelTypeOK /\ [Next]_vars => LabelTypeOK'
<1> SUFFICES ASSUME LabelTypeOK, [Next]_vars PROVE LabelTypeOK'
  OBVIOUS
<1>1. ASSUME NEW p \in Proc, CreateLabel(p) PROVE LabelTypeOK'
  BY <1>1 DEF CreateLabel, CreatedLabel, LabelTypeOK, Spelling
<1>2. CASE UNCHANGED label
  BY <1>2 DEF LabelTypeOK
<1>3. ASSUME NEW p \in Proc, Step(p) \/ Crash(p), ~CreateLabel(p) PROVE UNCHANGED label
  BY <1>3 DEF Step, Crash, Connect, EnsureLabel, List, EndOfList, Fetch, Insert, Tag, Mark,
              Move, Delete, Expunge, Settle, Close, env
<1>4. CASE NewMail \/ Owner \/ UNCHANGED vars
  BY <1>4, <1>2 DEF NewMail, Owner, vars, env
<1> QED
  BY <1>1, <1>2, <1>3, <1>4 DEF Next

(* Every step keeps the type invariant, one step of the proof per action.   *)
LEMMA NextTypeOK == TypeOK /\ [Next]_vars => TypeOK'
<1> SUFFICES ASSUME TypeOK, [Next]_vars PROVE TypeOK'
  OBVIOUS
<1> WorldTypeOK /\ ChanceTypeOK /\ RunTypeOK /\ StepTypeOK
  BY DEF TypeOK
<1> LabelTypeOK'
  BY NextLabelType DEF TypeOK
<1>1. ASSUME NEW p \in Proc, Connect(p) PROVE TypeOK'
  <2>1. WorldTypeOK'
    BY <1>1 DEF Connect, WorldTypeOK
  <2>2. ChanceTypeOK'
    <3>1. faults' = faults \/ faults' = faults + 1
      BY <1>1 DEF Connect
    <3>2. link' = link \/ link' = [link EXCEPT ![p] = TRUE]
      BY <1>1 DEF Connect
    <3>3. faults' \in Nat
      BY <3>1 DEF ChanceTypeOK
    <3>4. link' \in [Proc -> BOOLEAN]
      BY <3>2 DEF ChanceTypeOK
    <3> QED
      BY <3>3, <3>4 DEF ChanceTypeOK
  <2>3. RunTypeOK'
    BY <1>1 DEF Connect, RunTypeOK
  <2>4. StepTypeOK'
    BY <1>1 DEF Connect, StepTypeOK, Goto, Location, Working
  <2> QED
    BY <2>1, <2>2, <2>3, <2>4 DEF TypeOK
<1>2. ASSUME NEW p \in Proc, EnsureLabel(p) PROVE TypeOK'
  <2>1. WorldTypeOK' /\ ChanceTypeOK'
    <3>1. WorldTypeOK'
      BY <1>2 DEF EnsureLabel, WorldTypeOK
    <3>2. faults' = faults \/ faults' = faults + 1
      BY <1>2 DEF EnsureLabel
    <3>3. UNCHANGED link
      BY <1>2 DEF EnsureLabel
    <3> QED
      BY <3>1, <3>2, <3>3 DEF ChanceTypeOK
  <2>2. CASE Finish(p, TRUE)
    BY <2>1, <2>2, FinishType DEF TypeOK
  <2>3. CASE ~Finish(p, TRUE)
    <3>1. RunTypeOK'
      BY <1>2, <2>3 DEF EnsureLabel, RunTypeOK
    <3>2. StepTypeOK'
      BY <1>2, <2>3 DEF EnsureLabel, StepTypeOK, Goto, Location, Working
    <3> QED
      BY <2>1, <3>1, <3>2 DEF TypeOK
  <2> QED
    BY <2>2, <2>3
<1>2a. ASSUME NEW p \in Proc, CreateLabel(p) PROVE TypeOK'
  <2>1. WorldTypeOK' /\ ChanceTypeOK'
    <3>1. WorldTypeOK'
      BY <1>2a DEF CreateLabel, WorldTypeOK
    <3>2. faults' = faults \/ faults' = faults + 1
      BY <1>2a DEF CreateLabel
    <3>3. UNCHANGED link
      BY <1>2a DEF CreateLabel
    <3> QED
      BY <3>1, <3>2, <3>3 DEF ChanceTypeOK
  <2>2. CASE Finish(p, TRUE)
    BY <2>1, <2>2, FinishType DEF TypeOK
  <2>3. CASE ~Finish(p, TRUE)
    <3>1. RunTypeOK'
      BY <1>2a, <2>3 DEF CreateLabel, RunTypeOK
    <3>2. StepTypeOK'
      BY <1>2a, <2>3 DEF CreateLabel, StepTypeOK, Goto, Location, Working
    <3> QED
      BY <2>1, <3>1, <3>2 DEF TypeOK
  <2> QED
    BY <2>2, <2>3
<1>3. ASSUME NEW p \in Proc, List(p) PROVE TypeOK'
  <2>1. WorldTypeOK'
    BY <1>3 DEF List, WorldTypeOK
  <2>2. ChanceTypeOK'
    BY <1>3, CommandType DEF List
  <2>3. CASE Finish(p, TRUE)
    BY <2>1, <2>2, <2>3, FinishType DEF TypeOK
  <2>4. CASE ~Finish(p, TRUE)
    <3>1. RunTypeOK'
      BY <1>3, <2>4 DEF List, RunTypeOK, Listed
    <3>2. StepTypeOK'
      BY <1>3, <2>4 DEF List, StepTypeOK, Goto, Location, Working
    <3> QED
      BY <2>1, <2>2, <3>1, <3>2 DEF TypeOK
  <2> QED
    BY <2>3, <2>4
<1>4. ASSUME NEW p \in Proc, EndOfList(p) PROVE TypeOK'
  <2>1. WorldTypeOK' /\ ChanceTypeOK'
    BY <1>4 DEF EndOfList, env, WorldTypeOK, ChanceTypeOK
  <2> QED
    BY <1>4, <2>1, LeaveLoopType DEF EndOfList, TypeOK
<1>5. ASSUME NEW p \in Proc, Fetch(p) PROVE TypeOK'
  <2>1. WorldTypeOK'
    BY <1>5 DEF Fetch, WorldTypeOK
  <2>2. ChanceTypeOK'
    BY <1>5, FetchEndsType DEF Fetch
  <2>3. CASE LeaveLoop(p, TRUE)
    BY <2>1, <2>2, <2>3, LeaveLoopType DEF TypeOK
  <2>4. CASE ~LeaveLoop(p, TRUE)
    <3>1. PICK u \in Uid, reply \in {"ok", "refused"} : Fetch(p)!2!(u, reply)
      BY <1>5 DEF Fetch
    <3>2. RunTypeOK'
      <4>1. /\ todo' = [todo EXCEPT ![p] = @ \ {u}]
            /\ spent' = [spent EXCEPT ![p] = @ + 1]
            /\ UNCHANGED <<suspicious, oversized, settling, forwarded, error>>
        BY <2>4, <3>1
      <4> QED
        BY <4>1 DEF RunTypeOK
    <3>3. StepTypeOK'
      <4>1. \/ UNCHANGED <<pc, cur, dest>>
            \/ Aim(p, u, "insert") /\ UNCHANGED dest
            \/ Aim(p, u, "move") /\ dest' = [dest EXCEPT ![p] = "Trash"]
        BY <2>4, <3>1
      <4> QED
        BY <4>1 DEF StepTypeOK, Aim, Goto, Location, Working, Folder
    <3> QED
      BY <2>1, <2>2, <3>2, <3>3 DEF TypeOK
  <2> QED
    BY <2>3, <2>4
<1>6. ASSUME NEW p \in Proc, Insert(p) PROVE TypeOK'
  <2> cur[p] \in Uid
    BY <1>6 DEF Insert, StepTypeOK, Working
  <2>1. PICK e \in Ending(cur[p]) : Insert(p)!2!(e)
    BY <1>6 DEF Insert
  <2>2. e[1] \in Nat
    BY <2>1 DEF Ending
  <2>3. copies' \in [Uid -> Nat]
    <3> DEFINE n == copies[cur[p]] + e[1] + (IF Accepted(e[2]) THEN 1 ELSE 0)
    <3>1. copies \in [Uid -> Nat]
      BY DEF WorldTypeOK
    <3>2. n \in Nat
      <4>1. (IF Accepted(e[2]) THEN 1 ELSE 0) \in Nat
        OBVIOUS
      <4>2. copies[cur[p]] \in Nat
        BY <3>1
      <4> QED
        BY <2>2, <4>1, <4>2
    <3>3. copies' = [copies EXCEPT ![cur[p]] = n]
      BY <2>1 DEF InsertRaw
    <3> QED
      BY <3>1, <3>2, <3>3
  <2>4. WorldTypeOK'
    BY <1>6, <2>3 DEF Insert, WorldTypeOK
  <2>5. ChanceTypeOK'
    BY <1>6, <2>1, <2>2 DEF Insert, ChanceTypeOK, Cost
  <2>6. CASE LeaveLoop(p, TRUE)
    BY <2>4, <2>5, <2>6, LeaveLoopType DEF TypeOK
  <2>7. CASE ~LeaveLoop(p, TRUE)
    <3>1. RunTypeOK'
      <4>1. \/ UNCHANGED forwarded
            \/ forwarded' = [forwarded EXCEPT ![p] = TRUE]
        BY <2>1, <2>7
      <4>2. \/ UNCHANGED suspicious
            \/ suspicious' = [suspicious EXCEPT ![p] = @ \union {cur[p]}]
        BY <2>1, <2>7
      <4>3. \/ UNCHANGED oversized
            \/ oversized' = [oversized EXCEPT ![p] = @ \union {cur[p]}]
        BY <2>1, <2>7
      <4>4. UNCHANGED <<todo, spent, settling, error>>
        BY <2>1, <2>7
      <4>5. forwarded' \in [Proc -> BOOLEAN]
        BY <4>1 DEF RunTypeOK
      <4>6. suspicious' \in [Proc -> SUBSET Uid]
        BY <4>2 DEF RunTypeOK
      <4>7. oversized' \in [Proc -> SUBSET Uid]
        BY <4>3 DEF RunTypeOK
      <4> QED
        BY <4>4, <4>5, <4>6, <4>7 DEF RunTypeOK
    <3>2. StepTypeOK'
      BY <2>1, <2>7 DEF StepTypeOK, Aim, Goto, Location, Working
    <3> QED
      BY <2>4, <2>5, <3>1, <3>2 DEF TypeOK
  <2> QED
    BY <2>6, <2>7
<1>7. ASSUME NEW p \in Proc, Tag(p) PROVE TypeOK'
  <2> cur[p] \in Uid
    BY <1>7 DEF Tag, StepTypeOK, Working
  <2>1. WorldTypeOK'
    BY <1>7, AddFlagType DEF Tag, Flag
  <2>2. ChanceTypeOK'
    BY <1>7, CommandType DEF Tag
  <2>3. RunTypeOK'
    BY <1>7 DEF Tag, RunTypeOK
  <2>4. StepTypeOK'
    BY <1>7 DEF Tag, StepTypeOK, Goto, QuarantineStart, Location, Working, Folder
  <2> QED
    BY <2>1, <2>2, <2>3, <2>4 DEF TypeOK
<1>8. ASSUME NEW p \in Proc, Mark(p) PROVE TypeOK'
  <2> cur[p] \in Uid
    BY <1>8 DEF Mark, StepTypeOK, Working
  <2>1. WorldTypeOK'
    BY <1>8, AddFlagType DEF Mark, Flag, Quarantine, QuarantineKeyword
  <2>2. ChanceTypeOK'
    BY <1>8, CommandType DEF Mark
  <2>3. CASE Done(p)
    BY <2>1, <2>2, <2>3, DoneType DEF TypeOK
  <2>4. CASE ~Done(p)
    <3>1. RunTypeOK'
      BY <1>8, <2>4 DEF Mark, RunTypeOK
    <3>2. StepTypeOK'
      BY <1>8, <2>4 DEF Mark, StepTypeOK, Goto, Location, Working
    <3> QED
      BY <2>1, <2>2, <3>1, <3>2 DEF TypeOK
  <2> QED
    BY <2>3, <2>4
<1>9. ASSUME NEW p \in Proc, Move(p) PROVE TypeOK'
  <2> cur[p] \in Uid /\ dest[p] \in Folder
    BY <1>9 DEF Move, StepTypeOK, Working
  <2>1. WorldTypeOK'
    <3>1. CASE UNCHANGED place
      BY <1>9, <3>1 DEF Move, WorldTypeOK
    <3>2. CASE ~UNCHANGED place
      BY <1>9, <3>2, RelocateType DEF Move
    <3> QED
      BY <3>1, <3>2
  <2>2. ChanceTypeOK'
    BY <1>9, CommandType DEF Move
  <2>3. CASE Done(p) \/ Abort(p)
    BY <2>1, <2>2, <2>3, DoneType, AbortType DEF TypeOK
  <2>4. CASE ~(Done(p) \/ Abort(p))
    <3>1. RunTypeOK'
      BY <1>9, <2>4 DEF Move, RunTypeOK
    <3>2. StepTypeOK'
      BY <1>9, <2>4 DEF Move, StepTypeOK, Goto, Location, Working
    <3> QED
      BY <2>1, <2>2, <3>1, <3>2 DEF TypeOK
  <2> QED
    BY <2>3, <2>4
<1>10. ASSUME NEW p \in Proc, Delete(p) PROVE TypeOK'
  <2> cur[p] \in Uid
    BY <1>10 DEF Delete, StepTypeOK, Working
  <2>1. WorldTypeOK'
    BY <1>10, AddFlagType DEF Delete, Flag
  <2>2. ChanceTypeOK'
    BY <1>10, CommandType DEF Delete
  <2>3. CASE Abort(p)
    BY <2>1, <2>2, <2>3, AbortType DEF TypeOK
  <2>4. CASE ~Abort(p)
    <3>1. RunTypeOK'
      BY <1>10, <2>4 DEF Delete, RunTypeOK
    <3>2. StepTypeOK'
      BY <1>10, <2>4 DEF Delete, StepTypeOK, Goto, Location, Working
    <3> QED
      BY <2>1, <2>2, <3>1, <3>2 DEF TypeOK
  <2> QED
    BY <2>3, <2>4
<1>11. ASSUME NEW p \in Proc, Expunge(p) PROVE TypeOK'
  <2> cur[p] \in Uid
    BY <1>11 DEF Expunge, StepTypeOK, Working
  <2>1. WorldTypeOK'
    BY <1>11, RelocateType DEF Expunge, Folder
  <2>2. ChanceTypeOK'
    BY <1>11, CommandType DEF Expunge
  <2> QED
    BY <1>11, <2>1, <2>2, DoneType, AbortType DEF Expunge, TypeOK
<1>12. ASSUME NEW p \in Proc, Settle(p) PROVE TypeOK'
  <2>1. WorldTypeOK' /\ ChanceTypeOK' /\ RunTypeOK'
    BY <1>12 DEF Settle, env, WorldTypeOK, ChanceTypeOK, RunTypeOK
  <2>2. StepTypeOK'
    BY <1>12 DEF Settle, StepTypeOK, Aim, Goto, QuarantineStart, Location, Working, Folder
  <2> QED
    BY <2>1, <2>2 DEF TypeOK
<1>13. ASSUME NEW p \in Proc, Close(p) PROVE TypeOK'
  <2>1. WorldTypeOK' /\ ChanceTypeOK'
    BY <1>13 DEF Close, env, WorldTypeOK, ChanceTypeOK
  <2>2. error[p] \in BOOLEAN
    BY DEF RunTypeOK
  <2> QED
    BY <1>13, <2>1, <2>2, FinishType DEF Close, TypeOK
<1>14. ASSUME NEW p \in Proc, Crash(p) PROVE TypeOK'
  <2>1. WorldTypeOK' /\ ChanceTypeOK'
    BY <1>14 DEF Crash, WorldTypeOK, ChanceTypeOK
  <2> QED
    BY <1>14, <2>1, FinishType DEF Crash, TypeOK
<1>15. ASSUME UNCHANGED <<copies, faults, jobs>>, WorldTypeOK' PROVE TypeOK'
  BY <1>15 DEF jobs, TypeOK, ChanceTypeOK, RunTypeOK, StepTypeOK
<1>16. ASSUME NewMail \/ Owner PROVE TypeOK'
  <2>1. WorldTypeOK'
    BY <1>16 DEF NewMail, Owner, Arrive, TakeAway, FlagDeleted, WorldTypeOK, Place, Flag
  <2> QED
    BY <1>15, <1>16, <2>1 DEF NewMail, Owner
<1>17. CASE UNCHANGED vars
  BY <1>17 DEF vars, env, jobs, TypeOK, WorldTypeOK, ChanceTypeOK, RunTypeOK, StepTypeOK
<1> QED
  BY <1>1, <1>2, <1>2a, <1>3, <1>4, <1>5, <1>6, <1>7, <1>8, <1>9, <1>10, <1>11,
     <1>12, <1>13, <1>14, <1>16, <1>17 DEF Next, Step

(* Type correctness of the forwarder.                                       *)
THEOREM TypeCorrect == Spec => []TypeOK
<1>1. Init => TypeOK
  BY InitTypeOK
<1>2. TypeOK /\ [Next]_vars => TypeOK'
  BY NextTypeOK
<1> QED
  BY <1>1, <1>2, PTL DEF Spec

=============================================================================
