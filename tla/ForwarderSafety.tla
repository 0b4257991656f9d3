-------------------------- MODULE ForwarderSafety --------------------------
(***************************************************************************)
(* Nothing is lost: the markers and the Trash tell the truth about Gmail,   *)
(* and no step makes the last copy of a message disappear.                  *)
(***************************************************************************)
EXTENDS ForwarderProofs

(* A step of p leaves the other runs alone.                                 *)
Alone(p) ==
    \A q \in Proc \ {p} :
        /\ pc'[q] = pc[q] /\ cur'[q] = cur[q] /\ dest'[q] = dest[q]
        /\ todo'[q] = todo[q] /\ suspicious'[q] = suspicious[q]
        /\ oversized'[q] = oversized[q] /\ settling'[q] = settling[q]
        /\ forwarded'[q] = forwarded[q] /\ error'[q] = error[q]

(* Between two messages: nothing is on its way.                             *)
Still(p) == pc'[p] \in {"idle", "next", "settle"}

(* The end of a run concerns that run only, which then works on nothing.    *)
LEMMA FinishAlone ==
    ASSUME TypeOK, NEW p \in Proc, NEW err, Finish(p, err) PROVE Alone(p) /\ Still(p)
<1>1. Still(p)
  BY DEF Finish, Aim, Goto, Still, TypeOK, StepTypeOK
<1>2. Alone(p)
  BY DEF Finish, Aim, Goto, Alone, TypeOK, StepTypeOK, RunTypeOK
<1> QED
  BY <1>1, <1>2

(* So does leaving the loop over the listing.                               *)
LEMMA LeaveLoopAlone ==
    ASSUME TypeOK, NEW p \in Proc, NEW err, LeaveLoop(p, err) PROVE Alone(p) /\ Still(p)
<1>1. Still(p)
  BY DEF LeaveLoop, Aim, Goto, Still, TypeOK, StepTypeOK
<1>2. Alone(p)
  BY DEF LeaveLoop, Aim, Goto, Alone, TypeOK, StepTypeOK, RunTypeOK
<1> QED
  BY <1>1, <1>2

(* So does finishing a message.                                             *)
LEMMA DoneAlone ==
    ASSUME TypeOK, NEW p \in Proc, Done(p) PROVE Alone(p) /\ Still(p)
<1>1. Still(p)
  BY DEF Done, Aim, Goto, Still, TypeOK, StepTypeOK
<1>2. Alone(p)
  BY DEF Done, Aim, Goto, Alone
<1> QED
  BY <1>1, <1>2

(* So does AbortRun.                                                        *)
LEMMA AbortAlone ==
    ASSUME TypeOK, NEW p \in Proc, Abort(p) PROVE Alone(p) /\ Still(p)
BY FinishAlone, LeaveLoopAlone DEF Abort

(* Every step of a process leaves the runs of the others alone.             *)
LEMMA StepAlone ==
    ASSUME TypeOK, NEW p \in Proc, Step(p) \/ Crash(p) PROVE Alone(p)
<1>1. CASE Connect(p)
  BY <1>1 DEF Connect, Alone, Goto, TypeOK, StepTypeOK, RunTypeOK
<1>2. CASE EnsureLabel(p)
  <2>1. CASE Finish(p, TRUE)
    BY <2>1, FinishAlone
  <2>2. CASE ~Finish(p, TRUE)
    BY <1>2, <2>2 DEF EnsureLabel, Alone, Goto, TypeOK, StepTypeOK
  <2> QED
    BY <2>1, <2>2
<1>2a. CASE CreateLabel(p)
  <2>1. CASE Finish(p, TRUE)
    BY <2>1, FinishAlone
  <2>2. CASE ~Finish(p, TRUE)
    BY <1>2a, <2>2 DEF CreateLabel, Alone, Goto, TypeOK, StepTypeOK
  <2> QED
    BY <2>1, <2>2
<1>3. CASE List(p)
  <2>1. CASE Finish(p, TRUE)
    BY <2>1, FinishAlone
  <2>2. CASE ~Finish(p, TRUE)
    BY <1>3, <2>2 DEF List, Alone, Goto, TypeOK, StepTypeOK, RunTypeOK
  <2> QED
    BY <2>1, <2>2
<1>4. CASE EndOfList(p)
  BY <1>4, LeaveLoopAlone DEF EndOfList
<1>5. CASE Fetch(p)
  <2>1. CASE LeaveLoop(p, TRUE)
    BY <2>1, LeaveLoopAlone
  <2>2. CASE ~LeaveLoop(p, TRUE)
    <3>1. PICK u \in Uid :
             /\ todo' = [todo EXCEPT ![p] = @ \ {u}]
             /\ \/ UNCHANGED <<pc, cur, dest>>
                \/ Aim(p, u, "insert") /\ UNCHANGED dest
                \/ Aim(p, u, "move") /\ dest' = [dest EXCEPT ![p] = "Trash"]
             /\ UNCHANGED <<suspicious, oversized, settling, forwarded, error>>
      BY <1>5, <2>2 DEF Fetch
    <3>2. \A q \in Proc \ {p} : todo'[q] = todo[q]
      BY <3>1 DEF TypeOK, RunTypeOK
    <3>3. \A q \in Proc \ {p} : pc'[q] = pc[q] /\ cur'[q] = cur[q] /\ dest'[q] = dest[q]
      BY <3>1 DEF Aim, Goto, TypeOK, StepTypeOK
    <3> QED
      BY <3>1, <3>2, <3>3 DEF Alone
  <2> QED
    BY <2>1, <2>2
<1>6. CASE Insert(p)
  <2>1. CASE LeaveLoop(p, TRUE)
    BY <2>1, LeaveLoopAlone
  <2>2. CASE ~LeaveLoop(p, TRUE)
    <3>1. /\ (Goto(p, "tag") /\ UNCHANGED cur) \/ Aim(p, NoUid, "next")
          /\ UNCHANGED <<todo, dest, settling, error>>
          /\ \/ UNCHANGED forwarded
             \/ forwarded' = [forwarded EXCEPT ![p] = TRUE]
          /\ \/ UNCHANGED suspicious
             \/ suspicious' = [suspicious EXCEPT ![p] = @ \cup {cur[p]}]
          /\ \/ UNCHANGED oversized
             \/ oversized' = [oversized EXCEPT ![p] = @ \cup {cur[p]}]
      BY <1>6, <2>2 DEF Insert
    <3>2. \A q \in Proc \ {p} : pc'[q] = pc[q] /\ cur'[q] = cur[q]
      BY <3>1 DEF Aim, Goto, TypeOK, StepTypeOK
    <3>3. \A q \in Proc \ {p} : /\ suspicious'[q] = suspicious[q]
                              /\ oversized'[q] = oversized[q]
                              /\ forwarded'[q] = forwarded[q]
      BY <3>1 DEF TypeOK, RunTypeOK
    <3> QED
      BY <3>1, <3>2, <3>3 DEF Alone
  <2> QED
    BY <2>1, <2>2
<1>7. CASE Tag(p)
  BY <1>7 DEF Tag, Alone, Goto, TypeOK, StepTypeOK
<1>8. CASE Mark(p)
  BY <1>8, DoneAlone DEF Mark, Alone, Goto, TypeOK, StepTypeOK
<1>9. CASE Move(p)
  BY <1>9, DoneAlone, AbortAlone DEF Move, Alone, Goto, TypeOK, StepTypeOK
<1>10. CASE Delete(p)
  BY <1>10, AbortAlone DEF Delete, Alone, Goto, TypeOK, StepTypeOK
<1>11. CASE Expunge(p)
  BY <1>11, DoneAlone, AbortAlone DEF Expunge
<1>12. CASE Settle(p)
  BY <1>12 DEF Settle, Alone, Aim, Goto, TypeOK, StepTypeOK, RunTypeOK
<1>13. CASE Close(p)
  BY <1>13, FinishAlone DEF Close
<1>14. CASE Crash(p)
  BY <1>14, FinishAlone DEF Crash
<1> QED
  BY <1>1, <1>2, <1>2a, <1>3, <1>4, <1>5, <1>6, <1>7, <1>8, <1>9, <1>10, <1>11,
     <1>12, <1>13, <1>14 DEF Step

---------------------------------------------------------------------------
(* Truth.  Gmail never forgets a copy, so every step that changes no        *)
(* marker and starts nothing new keeps it.                                  *)
Grows == \A u \in Uid : copies[u] > 0 => copies'[u] > 0

(* More mail in Gmail does not falsify a marker.                            *)
LEMMA MarkersKept ==
    ASSUME Truth, Grows, UNCHANGED <<place, flags>>
    PROVE  MarkersAreTrue' /\ TrashIsInGmail'
BY DEF Truth, Grows, MarkersAreTrue, TrashIsInGmail

(* Setting a flag keeps the markers true if it is the failed keyword, the   *)
(* \Deleted flag, or the message is in Gmail.                               *)
LEMMA AddFlagTrue ==
    ASSUME WorldTypeOK, Truth, NEW u \in Uid, NEW f \in Flag, NEW reply,
           AddFlag(u, f, reply), UNCHANGED <<place, copies>>,
           f \in {"failed", "deleted"} \/ copies[u] > 0
    PROVE  MarkersAreTrue' /\ TrashIsInGmail'
<1>1. TrashIsInGmail'
  BY DEF Truth, TrashIsInGmail
<1>2. \A v \in Uid : \/ flags'[v] = flags[v]
                     \/ v = u /\ flags'[v] = flags[v] \union {f}
  BY DEF AddFlag, WorldTypeOK
<1>3. MarkersAreTrue'
  BY <1>2 DEF Truth, MarkersAreTrue
<1> QED
  BY <1>1, <1>3

(* A move, copy or expunge keeps the markers true if it aims at the folder  *)
(* for failed mail or the message is in Gmail.                              *)
LEMMA RelocateTrue ==
    ASSUME WorldTypeOK, Truth, NEW u \in Uid, NEW f \in Folder, NEW reply,
           \/ UNCHANGED place
           \/ MoveMessage(u, f, reply)
           \/ CopyMessage(u, f, reply)
           \/ UidExpunge(u, reply),
           UNCHANGED <<flags, copies>>,
           f = "Failed" \/ copies[u] > 0
    PROVE  MarkersAreTrue' /\ TrashIsInGmail'
<1>1. \A v \in Uid : \/ place'[v] \subseteq place[v]
                     \/ v = u /\ place'[v] \subseteq place[v] \union {f}
  BY DEF MoveMessage, CopyMessage, UidExpunge, WorldTypeOK
<1> QED
  BY <1>1 DEF Truth, MarkersAreTrue, TrashIsInGmail, Folder

(* Steps of p keep WorkIsTrue if p itself works on mail that is in Gmail    *)
(* wherever it has to be.                                                   *)
LEMMA WorkTrue ==
    ASSUME TypeOK, Truth, Grows, NEW p \in Proc, Alone(p),
           TrueAt(pc[p], cur[p], dest[p])'
    PROVE  WorkIsTrue'
<1>1. \A q \in Proc \ {p} : TrueAt(pc[q], cur[q], dest[q])'
  <2> TAKE q \in Proc \ {p}
  <2>1. TrueAt(pc[q], cur[q], dest[q])
    BY DEF Truth, WorkIsTrue
  <2>2. pc[q] \in Working => cur[q] \in Uid
    BY DEF TypeOK, StepTypeOK
  <2> QED
    BY <2>1, <2>2 DEF Alone, Grows, TrueAt, Moving, Working
<1> QED
  BY <1>1 DEF WorkIsTrue

(* A process that works on nothing claims nothing.                          *)
LEMMA StillTrue ==
    ASSUME NEW p \in Proc, Still(p) PROVE TrueAt(pc[p], cur[p], dest[p])'
BY DEF Still, TrueAt, Moving

(* The step of an action of p, given what it does to p and to the world.    *)
LEMMA TruthFrom ==
    ASSUME TypeOK, Truth, Grows, NEW p \in Proc, Alone(p),
           Still(p) \/ TrueAt(pc[p], cur[p], dest[p])',
           MarkersAreTrue' /\ TrashIsInGmail'
    PROVE  Truth'
BY WorkTrue, StillTrue DEF Truth

(* The insert keeps the truth: only an accepted message goes on to be tagged. *)
LEMMA InsertTruth ==
    ASSUME TypeOK, Truth, NEW p \in Proc, Insert(p) PROVE Truth'
<1> DEFINE u == cur[p]
<1>0. u \in Uid /\ pc[p] = "insert"
  BY DEF Insert, TypeOK, StepTypeOK, Working
<1>1. PICK e \in Ending(u) : Insert(p)!2!(e)
  BY DEF Insert
<1>2. e[1] \in Nat /\ copies \in [Uid -> Nat]
  BY <1>1 DEF Ending, TypeOK, WorldTypeOK
<1> DEFINE one == IF Accepted(e[2]) THEN 1 ELSE 0
<1>3. copies' = [copies EXCEPT ![u] = copies[u] + e[1] + one]
  BY <1>1 DEF InsertRaw
<1>4. one \in {0, 1} /\ (Accepted(e[2]) => one = 1)
  OBVIOUS
<1>5. copies'[u] = copies[u] + e[1] + one /\ copies[u] \in Nat
  BY <1>0, <1>2, <1>3
<1>6. \A v \in Uid : v # u => copies'[v] = copies[v]
  BY <1>2, <1>3
<1>7. copies[u] > 0 => copies'[u] > 0
  BY <1>2, <1>4, <1>5
<1>8. Grows
  BY <1>6, <1>7 DEF Grows
<1>9. Alone(p)
  BY StepAlone DEF Step
<1>10. Still(p) \/ TrueAt(pc[p], cur[p], dest[p])'
  <2>1. CASE Accepted(e[2]) /\ Goto(p, "tag") /\ UNCHANGED <<cur, dest>>
    <3>1. copies'[u] > 0
      BY <1>2, <1>4, <1>5, <2>1
    <3>2. cur'[p] = u
      BY <2>1
    <3> QED
      BY <3>1, <3>2 DEF TrueAt
  <2>2. CASE LeaveLoop(p, TRUE)
    BY <2>2, LeaveLoopAlone
  <2>3. CASE Aim(p, NoUid, "next")
    BY <2>3 DEF Aim, Goto, Still, TypeOK, StepTypeOK
  <2> QED
    BY <1>1, <2>1, <2>2, <2>3
<1>11. UNCHANGED <<place, flags>>
  BY DEF Insert
<1> QED
  BY <1>8, <1>9, <1>10, <1>11, MarkersKept, TruthFrom

(* Every step keeps the markers true.                                       *)
LEMMA NextTruth == TypeOK /\ Truth /\ [Next]_vars => Truth'
<1> SUFFICES ASSUME TypeOK, Truth, [Next]_vars PROVE Truth'
  OBVIOUS
<1> WorldTypeOK /\ StepTypeOK
  BY DEF TypeOK
<1>a. UNCHANGED copies => Grows
  BY DEF Grows
<1>b. \A p \in Proc : TrueAt(pc[p], cur[p], dest[p])
  BY DEF Truth, WorkIsTrue
(* The steps that change neither a folder nor a flag.                       *)
<1>1. ASSUME NEW p \in Proc, Step(p) \/ Crash(p), UNCHANGED <<place, flags, copies>>,
             Still(p) \/ pc'[p] \in {"label", "create", "list", "insert"}
      PROVE  Truth'
  <2>1. TrueAt(pc[p], cur[p], dest[p])' \/ Still(p)
    BY <1>1 DEF TrueAt, Moving
  <2> QED
    BY <1>1, <1>a, <2>1, StepAlone, MarkersKept, TruthFrom
<1>2. ASSUME NEW p \in Proc, Connect(p) \/ EnsureLabel(p) \/ CreateLabel(p) \/ List(p)
                             \/ EndOfList(p) \/ Close(p) \/ Crash(p)
      PROVE  Truth'
  <2>1. UNCHANGED <<place, flags, copies>>
    BY <1>2 DEF Connect, EnsureLabel, CreateLabel, List, EndOfList, Close, Crash, env
  <2>2. Still(p) \/ pc'[p] \in {"label", "create", "list", "insert"}
    <3>1. ASSUME NEW err, Finish(p, err) PROVE Still(p)
      BY <3>1, FinishAlone
    <3>2. CASE Connect(p)
      BY <3>2 DEF Connect, Goto, Still, StepTypeOK
    <3>3. CASE EnsureLabel(p)
      BY <3>1, <3>3 DEF EnsureLabel, Goto, StepTypeOK
    <3>3a. CASE CreateLabel(p)
      BY <3>1, <3>3a DEF CreateLabel, Goto, StepTypeOK
    <3>4. CASE List(p)
      BY <3>1, <3>4 DEF List, Goto, StepTypeOK, Still
    <3>5. CASE EndOfList(p)
      BY <3>5, LeaveLoopAlone DEF EndOfList
    <3>6. CASE Close(p) \/ Crash(p)
      BY <3>1, <3>6 DEF Close, Crash
    <3> QED
      BY <1>2, <3>2, <3>3, <3>3a, <3>4, <3>5, <3>6
  <2> QED
    BY <1>1, <1>2, <2>1, <2>2 DEF Step
<1>3. ASSUME NEW p \in Proc, Fetch(p) PROVE Truth'
  <2>1. UNCHANGED <<place, flags, copies>>
    BY <1>3 DEF Fetch
  <2>2. PICK u \in Uid, reply \in {"ok", "refused"} : Fetch(p)!2!(u, reply)
    BY <1>3 DEF Fetch
  <2>3. Still(p) \/ TrueAt(pc[p], cur[p], dest[p])'
    <3>1. CASE LeaveLoop(p, TRUE)
      BY <3>1, LeaveLoopAlone
    <3>2. CASE UNCHANGED <<pc, cur, dest>>
      BY <1>3, <3>2 DEF Fetch, Still
    <3>3. CASE Aim(p, u, "insert")
      BY <3>3 DEF Aim, Goto, StepTypeOK, TrueAt, Moving
    <3>4. CASE HasInserted(u) /\ Aim(p, u, "move")
      <4>1. copies[u] > 0
        BY <3>4 DEF Truth, MarkersAreTrue, HasInserted
      <4>2. cur'[p] = u
        BY <3>4 DEF Aim, StepTypeOK
      <4> QED
        BY <2>1, <4>1, <4>2 DEF TrueAt
    <3> QED
      BY <2>2, <3>1, <3>2, <3>3, <3>4
  <2> QED
    BY <1>3, <1>a, <2>1, <2>3, StepAlone, MarkersKept, TruthFrom DEF Step
<1>4. ASSUME NEW p \in Proc, Insert(p) PROVE Truth'
  BY <1>4, InsertTruth
<1>5. ASSUME NEW p \in Proc, Tag(p) PROVE Truth'
  <2>1. copies[cur[p]] > 0 /\ cur[p] \in Uid /\ UNCHANGED <<place, copies>>
    BY <1>5, <1>b DEF Tag, TrueAt, StepTypeOK, Working
  <2>2. MarkersAreTrue' /\ TrashIsInGmail'
    BY <1>5, <2>1, AddFlagTrue DEF Tag, Flag
  <2>3. TrueAt(pc[p], cur[p], dest[p])'
    BY <1>5, <2>1 DEF Tag, TrueAt
  <2> QED
    BY <1>5, <1>a, <2>1, <2>2, <2>3, StepAlone, TruthFrom DEF Step
(* The steps towards a marker or a folder, all of the same message.         *)
<1>6. ASSUME NEW p \in Proc, pc[p] \in Moving PROVE
          cur[p] \in Uid /\ dest[p] \in Folder /\ (dest[p] = "Failed" \/ copies[cur[p]] > 0)
  BY <1>6, <1>b DEF TrueAt, StepTypeOK, Working, Moving
<1>7. ASSUME NEW p \in Proc, pc[p] \in Moving, pc'[p] # "tag", UNCHANGED <<copies, cur, dest>>
      PROVE  TrueAt(pc[p], cur[p], dest[p])'
  BY <1>6, <1>7 DEF TrueAt
<1>8. ASSUME NEW p \in Proc, Mark(p) PROVE Truth'
  <2>0. pc[p] \in Moving /\ UNCHANGED <<place, copies>>
    BY <1>8 DEF Mark, Moving
  <2>1. MarkersAreTrue' /\ TrashIsInGmail'
    BY <1>6, <1>8, <2>0, AddFlagTrue DEF Mark, Flag, Quarantine, QuarantineKeyword
  <2>2. Still(p) \/ TrueAt(pc[p], cur[p], dest[p])'
    BY <1>7, <1>8, <2>0, DoneAlone DEF Mark, Goto, StepTypeOK
  <2> QED
    BY <1>8, <1>a, <2>0, <2>1, <2>2, StepAlone, TruthFrom DEF Step
<1>9. ASSUME NEW p \in Proc, Move(p) PROVE Truth'
  <2>0. pc[p] \in Moving /\ UNCHANGED <<flags, copies>>
    BY <1>9 DEF Move, Moving
  <2>1. MarkersAreTrue' /\ TrashIsInGmail'
    BY <1>6, <1>9, <2>0, RelocateTrue DEF Move
  <2>2. Still(p) \/ TrueAt(pc[p], cur[p], dest[p])'
    BY <1>7, <1>9, <2>0, DoneAlone, AbortAlone DEF Move, Goto, StepTypeOK
  <2> QED
    BY <1>9, <1>a, <2>0, <2>1, <2>2, StepAlone, TruthFrom DEF Step
<1>10. ASSUME NEW p \in Proc, Delete(p) PROVE Truth'
  <2>0. pc[p] \in Moving /\ UNCHANGED <<place, copies>>
    BY <1>10 DEF Delete, Moving
  <2>1. MarkersAreTrue' /\ TrashIsInGmail'
    BY <1>6, <1>10, <2>0, AddFlagTrue DEF Delete, Flag
  <2>2. Still(p) \/ TrueAt(pc[p], cur[p], dest[p])'
    BY <1>7, <1>10, <2>0, AbortAlone DEF Delete, Goto, StepTypeOK
  <2> QED
    BY <1>10, <1>a, <2>0, <2>1, <2>2, StepAlone, TruthFrom DEF Step
<1>11. ASSUME NEW p \in Proc, Expunge(p) PROVE Truth'
  <2>0. pc[p] \in Moving /\ UNCHANGED <<flags, copies>>
    BY <1>11 DEF Expunge, Moving
  <2>1. MarkersAreTrue' /\ TrashIsInGmail'
    BY <1>6, <1>11, <2>0, RelocateTrue DEF Expunge
  <2>2. Still(p)
    BY <1>11, DoneAlone, AbortAlone DEF Expunge
  <2> QED
    BY <1>11, <1>a, <2>0, <2>1, <2>2, StepAlone, TruthFrom DEF Step
<1>12. ASSUME NEW p \in Proc, Settle(p) PROVE Truth'
  <2>1. UNCHANGED <<place, flags, copies>>
    BY <1>12 DEF Settle, env
  <2>2. pc'[p] # "tag" /\ dest'[p] = "Failed"
    BY <1>12 DEF Settle, Aim, Goto, QuarantineStart, StepTypeOK
  <2>3. TrueAt(pc[p], cur[p], dest[p])'
    BY <2>2 DEF TrueAt
  <2> QED
    BY <1>12, <1>a, <2>1, <2>3, StepAlone, MarkersKept, TruthFrom DEF Step
<1>13. ASSUME NewMail \/ Owner PROVE Truth'
  <2>1. UNCHANGED <<copies, pc, cur, dest>>
    BY <1>13 DEF NewMail, Owner, jobs
  <2>2. \A u \in Uid : /\ place'[u] \subseteq place[u] \union {"INBOX", "Elsewhere"}
                       /\ flags'[u] \subseteq flags[u] \union {"deleted"}
    BY <1>13 DEF NewMail, Owner, Arrive, TakeAway, FlagDeleted, WorldTypeOK
  <2>3. MarkersAreTrue' /\ TrashIsInGmail'
    BY <2>1, <2>2 DEF Truth, MarkersAreTrue, TrashIsInGmail
  <2>4. WorkIsTrue'
    BY <2>1 DEF Truth, WorkIsTrue, TrueAt
  <2> QED
    BY <2>3, <2>4 DEF Truth
<1>14. CASE UNCHANGED vars
  BY <1>14 DEF vars, env, jobs, Truth, MarkersAreTrue, TrashIsInGmail, WorkIsTrue, TrueAt
<1> QED
  BY <1>2, <1>3, <1>4, <1>5, <1>8, <1>9, <1>10, <1>11, <1>12, <1>13, <1>14 DEF Next, Step

---------------------------------------------------------------------------
(* Custody.  What a step may do to the folders: nothing leaves the account, *)
(* and what lies outside the INBOX stays there.                             *)
Safekept == \A u \in Uid : /\ Arrived(u) => Arrived(u)'
                           /\ Kept(u) => Kept(u)'

(* No message but u is newly hidden.                                        *)
HidesOnly(S) == \A v \in Uid \ S : "deleted" \in flags'[v] => "deleted" \in flags[v]

CustodyAt(p) == /\ \A u \in Known(p) : Arrived(u)
                /\ pc[p] \in Working => Arrived(cur[p])
                /\ pc[p] \in {"delete", "expunge"} => Kept(cur[p])

(* A step of p keeps the custody of all runs if it drops no message, keeps  *)
(* the custody of p, and hides only what lies elsewhere too.                *)
LEMMA CustodyFrom ==
    ASSUME TypeOK, Custody, Safekept, NEW p \in Proc, Alone(p), CustodyAt(p)',
           NEW S, HidesOnly(S), \A u \in S : Kept(u) \/ u \in OwnerDeletes
    PROVE  Custody'
<1>1. HiddenIsKept'
  BY DEF Custody, HiddenIsKept, Safekept, HidesOnly, Kept
<1>2. ASSUME NEW q \in Proc \ {p} PROVE CustodyAt(q)'
  <2>1. CustodyAt(q)
    BY DEF Custody, WorkIsKept, CustodyAt
  <2>2. Known(q)' = Known(q) /\ Known(q) \subseteq Uid
    BY DEF Alone, Known, TypeOK, RunTypeOK
  <2>3. pc[q] \in {"delete", "expunge"} => pc[q] \in Working
    BY DEF Working
  <2>4. pc[q] \in Working => cur[q] \in Uid
    BY DEF TypeOK, StepTypeOK
  <2>5. pc'[q] = pc[q] /\ cur'[q] = cur[q]
    BY DEF Alone
  <2>6. \A u \in Known(q)' : Arrived(u)'
    BY <2>1, <2>2 DEF CustodyAt, Safekept
  <2>7. pc'[q] \in Working => Arrived(cur[q])'
    BY <2>1, <2>4, <2>5 DEF CustodyAt, Safekept, Arrived
  <2>8. pc'[q] \in {"delete", "expunge"} => Kept(cur[q])'
    BY <2>1, <2>3, <2>4, <2>5 DEF CustodyAt, Safekept, Kept
  <2> QED
    BY <2>6, <2>7, <2>8 DEF CustodyAt
<1>3. WorkIsKept'
  BY <1>2 DEF WorkIsKept, CustodyAt
<1> QED
  BY <1>1, <1>3 DEF Custody

(* p stops working on its message and learns of none.                       *)
LEMMA StillCustody ==
    ASSUME TypeOK, Custody, Safekept, NEW p \in Proc, Still(p), Known(p)' \subseteq Known(p)
    PROVE  CustodyAt(p)'
<1>1. Known(p) \subseteq Uid
  BY DEF Known, TypeOK, RunTypeOK
<1>2. \A u \in Known(p) : Arrived(u)
  BY DEF Custody, WorkIsKept
<1>3. \A u \in Known(p)' : Arrived(u)'
  BY <1>1, <1>2 DEF Safekept
<1> QED
  BY <1>3 DEF CustodyAt, Still, Working

(* A run that ends knows of no message.                                     *)
LEMMA FinishKnows ==
    ASSUME TypeOK, NEW p \in Proc, NEW err, Finish(p, err)
    PROVE  Still(p) /\ Known(p)' \subseteq Known(p)
BY FinishAlone DEF Finish, Known, TypeOK, RunTypeOK

(* Leaving the loop adds no message to those the run knows.                 *)
LEMMA LeaveLoopKnows ==
    ASSUME TypeOK, NEW p \in Proc, NEW err, LeaveLoop(p, err)
    PROVE  Still(p) /\ Known(p)' \subseteq Known(p)
<1>1. settling'[p] \subseteq oversized[p] \union suspicious[p] /\ todo'[p] = {}
  BY DEF LeaveLoop, TypeOK, RunTypeOK
<1>2. UNCHANGED <<suspicious, oversized>>
  BY DEF LeaveLoop
<1> QED
  BY <1>1, <1>2, LeaveLoopAlone DEF Known

(* Finishing a message adds none either.                                    *)
LEMMA DoneKnows ==
    ASSUME TypeOK, NEW p \in Proc, Done(p)
    PROVE  Still(p) /\ Known(p)' \subseteq Known(p)
BY DoneAlone DEF Done, Known

(* Nor does AbortRun.                                                       *)
LEMMA AbortKnows ==
    ASSUME TypeOK, NEW p \in Proc, Abort(p)
    PROVE  Still(p) /\ Known(p)' \subseteq Known(p)
BY FinishKnows, LeaveLoopKnows DEF Abort

(* The operators of the mailbox keep messages safe.                         *)
LEMMA SafeFlag ==
    ASSUME WorldTypeOK, NEW u \in Uid, NEW f, NEW reply, AddFlag(u, f, reply), UNCHANGED place
    PROVE  Safekept /\ HidesOnly({u})
BY DEF Safekept, Arrived, Kept, HidesOnly, AddFlag, WorldTypeOK

(* Setting a keyword hides no message.                                      *)
LEMMA SafeKeyword ==
    ASSUME WorldTypeOK, NEW u \in Uid, NEW f \in Flag \ {"deleted"}, NEW reply,
           AddFlag(u, f, reply), UNCHANGED place
    PROVE  Safekept /\ HidesOnly({})
BY DEF Safekept, Arrived, Kept, HidesOnly, AddFlag, WorldTypeOK

(* A move or a copy leaves its message somewhere.                           *)
LEMMA SafeRelocate ==
    ASSUME WorldTypeOK, NEW u \in Uid, NEW f \in Folder, NEW reply, UNCHANGED flags,
           \/ UNCHANGED place
           \/ MoveMessage(u, f, reply)
           \/ CopyMessage(u, f, reply)
           \/ UidExpunge(u, reply) /\ Kept(u)
    PROVE  Safekept /\ HidesOnly({})
<1>1. \A v \in Uid : \/ place'[v] = place[v]
                     \/ v = u /\ place'[v] = (place[v] \ {"INBOX"}) \union {f}
                     \/ v = u /\ place'[v] = place[v] \union {f}
                     \/ v = u /\ Kept(u) /\ place'[v] = place[v] \ {"INBOX"}
  BY DEF MoveMessage, CopyMessage, UidExpunge, WorldTypeOK
<1>2. f # "INBOX"
  BY DEF Folder
<1>3. Safekept
  BY <1>1, <1>2 DEF Safekept, Arrived, Kept
<1> QED
  BY <1>3 DEF HidesOnly

(* A mailbox nobody touches is safe.                                        *)
LEMMA SafeSame ==
    ASSUME UNCHANGED <<place, flags>> PROVE Safekept /\ HidesOnly({})
BY DEF Safekept, HidesOnly, Arrived, Kept

(* Every step keeps the custody of all messages, and drops none.            *)
LEMMA NextCustody == TypeOK /\ Custody /\ [Next]_vars => Custody' /\ Safekept
<1> SUFFICES ASSUME TypeOK, Custody, [Next]_vars PROVE Custody' /\ Safekept
  OBVIOUS
<1> WorldTypeOK /\ StepTypeOK /\ RunTypeOK
  BY DEF TypeOK
<1>a. ASSUME NEW p \in Proc
      PROVE  /\ \A u \in Known(p) : u \in Uid /\ Arrived(u)
             /\ pc[p] \in Working => cur[p] \in Uid /\ Arrived(cur[p])
             /\ pc[p] \in {"delete", "expunge"} => Kept(cur[p])
  BY <1>a DEF Custody, WorkIsKept, Known, RunTypeOK, StepTypeOK
(* A step that changes no folder and no flag and lets p know of no message  *)
(* but arrived ones.                                                        *)
<1>b. ASSUME NEW p \in Proc, Step(p) \/ Crash(p), UNCHANGED <<place, flags>>, CustodyAt(p)'
      PROVE  Custody' /\ Safekept
  BY <1>b, SafeSame, StepAlone, CustodyFrom
<1>c. ASSUME NEW p \in Proc, Step(p) \/ Crash(p), UNCHANGED <<place, flags>>,
             Still(p), Known(p)' \subseteq Known(p)
      PROVE  Custody' /\ Safekept
  BY <1>b, <1>c, SafeSame, StillCustody
<1>1. ASSUME NEW p \in Proc, Connect(p) PROVE Custody' /\ Safekept
  <2>1. CustodyAt(p)'
    BY <1>1, <1>a DEF Connect, Goto, StepTypeOK, CustodyAt, Known, Arrived, Working
  <2> QED
    BY <1>1, <1>b, <2>1 DEF Connect, Step
<1>2. ASSUME NEW p \in Proc, EnsureLabel(p) PROVE Custody' /\ Safekept
  <2>1. CASE Finish(p, TRUE)
    BY <1>2, <1>c, <2>1, FinishKnows DEF EnsureLabel, Step
  <2>2. CASE ~Finish(p, TRUE)
    <3>1. CustodyAt(p)'
      BY <1>2, <2>2, <1>a DEF EnsureLabel, Goto, StepTypeOK, CustodyAt, Known, Arrived, Working
    <3> QED
      BY <1>2, <1>b, <3>1 DEF EnsureLabel, Step
  <2> QED
    BY <2>1, <2>2
<1>2a. ASSUME NEW p \in Proc, CreateLabel(p) PROVE Custody' /\ Safekept
  <2>1. CASE Finish(p, TRUE)
    BY <1>2a, <1>c, <2>1, FinishKnows DEF CreateLabel, Step
  <2>2. CASE ~Finish(p, TRUE)
    <3>1. CustodyAt(p)'
      BY <1>2a, <2>2, <1>a DEF CreateLabel, Goto, StepTypeOK, CustodyAt, Known, Arrived, Working
    <3> QED
      BY <1>2a, <1>b, <3>1 DEF CreateLabel, Step
  <2> QED
    BY <2>1, <2>2
<1>3. ASSUME NEW p \in Proc, List(p) PROVE Custody' /\ Safekept
  <2>1. CASE Finish(p, TRUE)
    BY <1>3, <1>c, <2>1, FinishKnows DEF List, Step
  <2>2. CASE ~Finish(p, TRUE)
    <3>1. todo'[p] = Listed /\ UNCHANGED <<suspicious, oversized, settling, place>> /\ pc'[p] = "next"
      BY <1>3, <2>2 DEF List, Goto, StepTypeOK, RunTypeOK
    <3>2. \A u \in Listed : place[u] # {}
      BY DEF Listed, InInbox
    <3>3. \A u \in Known(p)' : Arrived(u)'
      BY <1>a, <3>1, <3>2 DEF Known, Arrived
    <3>4. CustodyAt(p)'
      BY <3>1, <3>3 DEF CustodyAt, Working
    <3> QED
      BY <1>3, <1>b, <3>4 DEF List, Step
  <2> QED
    BY <2>1, <2>2
<1>4. ASSUME NEW p \in Proc, EndOfList(p) PROVE Custody' /\ Safekept
  BY <1>4, <1>c, LeaveLoopKnows DEF EndOfList, env, Step
<1>5. ASSUME NEW p \in Proc, Fetch(p) PROVE Custody' /\ Safekept
  <2>1. UNCHANGED <<place, flags>> /\ pc[p] = "next"
    BY <1>5 DEF Fetch
  <2>2. PICK u \in Uid, reply \in {"ok", "refused"} : Fetch(p)!2!(u, reply)
    BY <1>5 DEF Fetch
  <2>3. CASE LeaveLoop(p, TRUE)
    BY <1>5, <1>c, <2>1, <2>3, LeaveLoopKnows DEF Step
  <2>4. CASE ~LeaveLoop(p, TRUE)
    <3>1. todo'[p] \subseteq todo[p] /\ UNCHANGED <<suspicious, oversized, settling>>
      BY <2>2, <2>4 DEF RunTypeOK
    <3>2. \/ pc'[p] = "next"
          \/ pc'[p] \in {"insert", "move"} /\ cur'[p] = u
      <4>1. UNCHANGED pc \/ Aim(p, u, "insert") \/ Aim(p, u, "move")
        BY <2>2, <2>4
      <4> QED
        BY <2>1, <4>1 DEF Aim, Goto, StepTypeOK
    <3>3. Arrived(u)
      BY <1>a, <2>2 DEF Next1, Known
    <3>4. CustodyAt(p)'
      BY <1>a, <2>1, <3>1, <3>2, <3>3 DEF CustodyAt, Known, Arrived, Working
    <3> QED
      BY <1>5, <1>b, <2>1, <3>4 DEF Step
  <2> QED
    BY <2>3, <2>4
<1>6. ASSUME NEW p \in Proc, Insert(p) PROVE Custody' /\ Safekept
  <2>1. UNCHANGED <<place, flags>> /\ pc[p] \in Working
    BY <1>6 DEF Insert, Working
  <2>2. PICK e \in Ending(cur[p]) : Insert(p)!2!(e)
    BY <1>6 DEF Insert
  <2>3. CASE LeaveLoop(p, TRUE)
    BY <1>6, <1>c, <2>1, <2>3, LeaveLoopKnows DEF Step
  <2>4. CASE ~LeaveLoop(p, TRUE)
    <3>1. UNCHANGED <<todo, settling>>
      BY <2>2, <2>4
    <3>2. \/ UNCHANGED suspicious
          \/ suspicious' = [suspicious EXCEPT ![p] = @ \union {cur[p]}]
      BY <2>2, <2>4
    <3>3. \/ UNCHANGED oversized
          \/ oversized' = [oversized EXCEPT ![p] = @ \union {cur[p]}]
      BY <2>2, <2>4
    <3>4. Known(p)' \subseteq Known(p) \union {cur[p]}
      BY <3>1, <3>2, <3>3 DEF Known, RunTypeOK
    <3>5. pc'[p] = "next" \/ (pc'[p] = "tag" /\ UNCHANGED cur)
      BY <2>2, <2>4 DEF Aim, Goto, StepTypeOK
    <3>6. \A u \in Known(p)' : Arrived(u)'
      BY <1>a, <2>1, <3>4 DEF Arrived
    <3>7. CustodyAt(p)'
      BY <1>a, <2>1, <3>5, <3>6 DEF CustodyAt, Arrived, Working
    <3> QED
      BY <1>6, <1>b, <2>1, <3>7 DEF Step
  <2> QED
    BY <2>3, <2>4
(* The steps that set a flag or move the message p works on.                *)
<1>d. ASSUME NEW p \in Proc, Step(p), pc[p] \in Working,
             Safekept, HidesOnly({}) \/ (HidesOnly({cur[p]}) /\ Kept(cur[p])),
             \/ Still(p) /\ Known(p)' \subseteq Known(p)
             \/ /\ UNCHANGED <<cur, todo, suspicious, oversized, settling>>
                /\ pc'[p] \in {"delete", "expunge"} => Kept(cur[p])'
      PROVE  Custody' /\ Safekept
  <2>1. CustodyAt(p)'
    <3>1. CASE Still(p) /\ Known(p)' \subseteq Known(p)
      BY <1>d, <3>1, StillCustody
    <3>2. CASE UNCHANGED <<cur, todo, suspicious, oversized, settling>>
      <4>1. Known(p)' = Known(p)
        BY <3>2 DEF Known
      <4>2. \A u \in Known(p)' : Arrived(u)'
        BY <1>a, <1>d, <4>1 DEF Safekept
      <4>3. Arrived(cur[p])'
        BY <1>a, <1>d, <3>2 DEF Safekept, Arrived
      <4>4. pc'[p] \in {"delete", "expunge"} => Kept(cur[p])'
        BY <1>d DEF Still
      <4> QED
        BY <4>2, <4>3, <4>4 DEF CustodyAt
    <3> QED
      BY <1>d, <3>1, <3>2
  <2> QED
    BY <1>d, <2>1, StepAlone, CustodyFrom
<1>7. ASSUME NEW p \in Proc, Tag(p) PROVE Custody' /\ Safekept
  <2>0. pc[p] \in Working /\ cur[p] \in Uid
    BY <1>7, <1>a DEF Tag, Working
  <2>1. Safekept /\ HidesOnly({})
    <3>1. PICK reply \in Reply : AddFlag(cur[p], "inserted", reply) /\ UNCHANGED place
      BY <1>7 DEF Tag
    <3>2. "inserted" \in Flag \ {"deleted"}
      BY DEF Flag
    <3> QED
      BY <2>0, <3>1, <3>2, SafeKeyword
  <2>2. /\ UNCHANGED <<cur, todo, suspicious, oversized, settling>>
        /\ pc'[p] \in {"mark", "move"}
    BY <1>7 DEF Tag, Goto, QuarantineStart, StepTypeOK
  <2> QED
    BY <1>7, <1>d, <2>0, <2>1, <2>2 DEF Step
<1>8. ASSUME NEW p \in Proc, Mark(p) PROVE Custody' /\ Safekept
  <2>0. pc[p] \in Working /\ cur[p] \in Uid
    BY <1>8, <1>a DEF Mark, Working
  <2>1. Safekept /\ HidesOnly({})
    <3>1. PICK reply \in Reply : AddFlag(cur[p], QuarantineKeyword(p), reply) /\ UNCHANGED place
      BY <1>8 DEF Mark
    <3>2. QuarantineKeyword(p) \in Flag \ {"deleted"}
      BY DEF QuarantineKeyword, Flag, Quarantine
    <3> QED
      BY <2>0, <3>1, <3>2, SafeKeyword
  <2>2. CASE Done(p)
    BY <1>8, <1>d, <2>0, <2>1, <2>2, DoneKnows DEF Step
  <2>3. CASE ~Done(p)
    <3>1. /\ UNCHANGED <<cur, todo, suspicious, oversized, settling>>
          /\ pc'[p] = "move"
      BY <1>8, <2>3 DEF Mark, Goto, StepTypeOK
    <3> QED
      BY <1>8, <1>d, <2>0, <2>1, <3>1 DEF Step
  <2> QED
    BY <2>2, <2>3
<1>9. ASSUME NEW p \in Proc, Move(p) PROVE Custody' /\ Safekept
  <2>0. pc[p] \in Working /\ cur[p] \in Uid /\ Arrived(cur[p]) /\ dest[p] \in Folder
    BY <1>9, <1>a DEF Move, Working, StepTypeOK
  <2>1. Safekept /\ HidesOnly({})
    BY <1>9, <2>0, SafeRelocate DEF Move
  <2>2. CASE Done(p) \/ Abort(p)
    BY <1>9, <1>d, <2>0, <2>1, <2>2, DoneKnows, AbortKnows DEF Step
  <2>3. CASE ~(Done(p) \/ Abort(p))
    <3>1. /\ UNCHANGED <<cur, todo, suspicious, oversized, settling>>
          /\ CopyMessage(cur[p], dest[p], "ok")
      BY <1>9, <2>3 DEF Move
    <3>2. Kept(cur[p])'
      BY <2>0, <3>1 DEF CopyMessage, InInbox, Kept, Arrived, WorldTypeOK, Folder
    <3> QED
      BY <1>9, <1>d, <2>0, <2>1, <3>1, <3>2 DEF Step
  <2> QED
    BY <2>2, <2>3
<1>10. ASSUME NEW p \in Proc, Delete(p) PROVE Custody' /\ Safekept
  <2>0. pc[p] \in Working /\ cur[p] \in Uid /\ Kept(cur[p])
    BY <1>10, <1>a DEF Delete, Working
  <2>1. Safekept /\ HidesOnly({cur[p]})
    BY <1>10, <2>0, SafeFlag DEF Delete
  <2>2. CASE Abort(p)
    BY <1>10, <1>d, <2>0, <2>1, <2>2, AbortKnows DEF Step
  <2>3. CASE ~Abort(p)
    <3>1. UNCHANGED <<place, cur, todo, suspicious, oversized, settling>>
      BY <1>10, <2>3 DEF Delete
    <3>2. Kept(cur[p])'
      BY <2>0, <3>1 DEF Kept
    <3> QED
      BY <1>10, <1>d, <2>0, <2>1, <3>1, <3>2 DEF Step
  <2> QED
    BY <2>2, <2>3
<1>11. ASSUME NEW p \in Proc, Expunge(p) PROVE Custody' /\ Safekept
  <2>0. pc[p] \in Working /\ cur[p] \in Uid /\ Kept(cur[p])
    BY <1>11, <1>a DEF Expunge, Working
  <2>1. Safekept /\ HidesOnly({})
    BY <1>11, <2>0, SafeRelocate DEF Expunge, Folder
  <2> QED
    BY <1>11, <1>d, <2>0, <2>1, DoneKnows, AbortKnows DEF Expunge, Step
<1>12. ASSUME NEW p \in Proc, Settle(p) PROVE Custody' /\ Safekept
  <2>1. PICK u \in Uid : Settle(p)!2!(u)
    BY <1>12 DEF Settle
  <2>2. UNCHANGED <<place, flags, todo, suspicious, oversized>>
    BY <1>12 DEF Settle, env
  <2>3. settling'[p] \subseteq settling[p] /\ cur'[p] = u /\ pc'[p] \in {"mark", "move"}
    BY <2>1 DEF Aim, Goto, QuarantineStart, StepTypeOK, RunTypeOK
  <2>4. Arrived(u)
    BY <1>a, <2>1 DEF Next1, Known
  <2>5. CustodyAt(p)'
    BY <1>a, <2>2, <2>3, <2>4 DEF CustodyAt, Known, Arrived
  <2> QED
    BY <1>12, <1>b, <2>2, <2>5 DEF Step
<1>13. ASSUME NEW p \in Proc, Close(p) \/ Crash(p) PROVE Custody' /\ Safekept
  <2>1. \E err \in BOOLEAN : Finish(p, err)
    BY <1>13 DEF Close, Crash, RunTypeOK
  <2>2. UNCHANGED <<place, flags>>
    BY <1>13 DEF Close, Crash, env
  <2> QED
    BY <1>13, <1>c, <2>1, <2>2, FinishKnows DEF Step
<1>14. ASSUME NewMail \/ Owner PROVE Custody' /\ Safekept
  <2>1. UNCHANGED <<pc, cur, todo, suspicious, oversized, settling>>
    BY <1>14 DEF NewMail, Owner, jobs
  <2>2. Safekept /\ \A u \in Uid \ OwnerDeletes : "deleted" \in flags'[u] => "deleted" \in flags[u]
    BY <1>14 DEF NewMail, Owner, Arrive, TakeAway, FlagDeleted, WorldTypeOK, Safekept, Arrived, Kept
  <2>3. HiddenIsKept'
    BY <2>2 DEF Custody, HiddenIsKept, Safekept, Kept
  <2>4. ASSUME NEW p \in Proc PROVE CustodyAt(p)'
    <3>1. Known(p)' = Known(p)
      BY <2>1 DEF Known
    <3>2. \A u \in Known(p)' : Arrived(u)'
      BY <1>a, <2>2, <3>1 DEF Safekept
    <3>3. pc[p] \in Working => Arrived(cur[p])'
      BY <1>a, <2>1, <2>2 DEF Safekept, Arrived
    <3>4. pc[p] \in {"delete", "expunge"} => Kept(cur[p])'
      BY <1>a, <2>1, <2>2 DEF Safekept, Kept, Working
    <3> QED
      BY <2>1, <3>2, <3>3, <3>4 DEF CustodyAt
  <2> QED
    BY <2>2, <2>3, <2>4 DEF Custody, WorkIsKept, CustodyAt
<1>15. CASE UNCHANGED vars
  BY <1>15 DEF vars, env, jobs, Custody, HiddenIsKept, WorkIsKept, Known, Arrived, Kept, Safekept
<1> QED
  BY <1>1, <1>2, <1>2a, <1>3, <1>4, <1>5, <1>6, <1>7, <1>8, <1>9, <1>10, <1>11, <1>12,
     <1>13, <1>14, <1>15 DEF Next, Step

(* The safety invariants hold initially.                                    *)
LEMMA InitSafe == Init => Truth /\ Custody
<1> SUFFICES ASSUME Init PROVE Truth /\ Custody
  OBVIOUS
<1>1. Truth
  BY DEF Init, MailboxInit, Truth, MarkersAreTrue, TrashIsInGmail, WorkIsTrue, TrueAt, Moving
<1>2. Custody
  BY DEF Init, MailboxInit, Custody, HiddenIsKept, WorkIsKept, Known, Working
<1> QED
  BY <1>1, <1>2

Safe == TypeOK /\ Truth /\ Custody

(* The inductive invariant of the forwarder.                                *)
LEMMA SafeAlways == Spec => []Safe
<1>1. Init => Safe
  BY InitTypeOK, InitSafe DEF Safe
<1>2. Safe /\ [Next]_vars => Safe'
  BY NextTypeOK, NextTruth, NextCustody DEF Safe
<1> QED
  BY <1>1, <1>2, PTL DEF Spec

(* Only mail that is in Gmail is ever moved to the Trash.                   *)
THEOREM OnlyDeliveredMailIsTrashed == Spec => []TrashIsInGmail
<1>1. Safe => TrashIsInGmail
  BY DEF Safe, Truth
<1> QED
  BY <1>1, SafeAlways, PTL

(* A message that carries the inserted or the unverified keyword, or lies   *)
(* in the folder for unverified mail, is in Gmail.                          *)
THEOREM MarkersTellTheTruth == Spec => []MarkersAreTrue
<1>1. Safe => MarkersAreTrue
  BY DEF Safe, Truth
<1> QED
  BY <1>1, SafeAlways, PTL

(* A message the forwarder flagged \Deleted lies in another folder too.     *)
THEOREM HiddenMailIsKept == Spec => []HiddenIsKept
<1>1. Safe => HiddenIsKept
  BY DEF Safe, Custody
<1> QED
  BY <1>1, SafeAlways, PTL

(* No step takes the last copy of a message out of the iCloud account.      *)
THEOREM NoMailVanishes == Spec => NothingVanishes
<1>1. Safe /\ [Next]_vars => [\A u \in Uid : place[u] # {} => place'[u] # {}]_vars
  BY NextCustody DEF Safe, Safekept, Arrived
<1> QED
  BY <1>1, SafeAlways, PTL DEF Spec, NothingVanishes

=============================================================================
