--------------------------- MODULE PromiseProofs ---------------------------
(***************************************************************************)
(* What the forwarder promises of each message, with any number of         *)
(* processes and faults: it implements Delivery, every step of it being a  *)
(* step the promise allows or none at all; and a message is treated as     *)
(* failed exactly on Gmail's verdict about it.                             *)
(***************************************************************************)
EXTENDS ForwarderSafety, ForwarderDelivers

stages == [u \in Uid |-> StageOf(u)]

(* A message that is released lies in the Trash or the unverified folder.   *)
ReleasedIsInGmail == \A u \in Uid : StageOf(u) = "released" => copies[u] > 0

(* What is released is in Gmail: the one fact about the forwarder that the  *)
(* promise of Delivery rests on.                                            *)
LEMMA SafeReleases == Safe => ReleasedIsInGmail
<1> SUFFICES ASSUME Safe, NEW u \in Uid, StageOf(u) = "released" PROVE copies[u] > 0
  BY DEF ReleasedIsInGmail
<1>1. place[u] \in SUBSET Place /\ place[u] # {}
  BY DEF Safe, TypeOK, WorldTypeOK, StageOf
<1>2. "Trash" \in place[u] \/ "Unverified" \in place[u]
  BY <1>1 DEF StageOf, Place, Folder
<1> QED
  BY <1>2 DEF Safe, Truth, TrashIsInGmail, MarkersAreTrue

(* The initial states of the forwarder are initial states of Delivery.      *)
LEMMA InitRefines == Init => D!Init
BY DEF Init, MailboxInit, GmailInit, D!Init, StageOf

(* A step that leaves the folders alone does not change a stage.            *)
LEMMA SameStages == UNCHANGED place => UNCHANGED stages
BY DEF stages, StageOf

(* A step that changes the folders of u only.                               *)
LEMMA OneStage ==
    ASSUME NEW u \in Uid, \A v \in Uid \ {u} : place'[v] = place[v]
    PROVE  stages' = [stages EXCEPT ![u] = StageOf(u)']
BY DEF stages, StageOf

(* An insert delivers the message it was called for, or nothing.            *)
LEMMA InsertRefines ==
    ASSUME Safe, NEW p \in Proc, Insert(p)
    PROVE  UNCHANGED copies \/ D!Deliver(cur[p])
<1> DEFINE u == cur[p]
<1>1. u \in Uid /\ Arrived(u)
  BY DEF Insert, Safe, TypeOK, StepTypeOK, Working, Custody, WorkIsKept
<1>2. PICK e \in Ending(u) : InsertRaw(u, e[1], e[2])
  BY DEF Insert
<1> DEFINE n == e[1] + (IF Accepted(e[2]) THEN 1 ELSE 0)
<1>3. e[1] \in Nat
  BY <1>2 DEF Ending
<1>4. n \in Nat
  <2>1. (IF Accepted(e[2]) THEN 1 ELSE 0) \in Nat
    OBVIOUS
  <2> QED
    BY <1>3, <2>1
<1>5. copies \in [Uid -> Nat]
  BY DEF Safe, TypeOK, WorldTypeOK
<1>6. copies' = [copies EXCEPT ![u] = copies[u] + n]
  <2>1. copies[u] \in Nat
    BY <1>1, <1>5
  <2>2. copies[u] + e[1] + (IF Accepted(e[2]) THEN 1 ELSE 0) = copies[u] + n
    BY <1>3, <2>1
  <2> QED
    BY <1>2, <2>2 DEF InsertRaw
<1>7. CASE n = 0
  <2>1. copies[u] + n = copies[u]
    BY <1>1, <1>5, <1>7
  <2> QED
    BY <1>5, <1>6, <2>1
<1>8. CASE n # 0
  <2>1. copies'[u] = copies[u] + n /\ copies[u] \in Nat
    BY <1>1, <1>5, <1>6
  <2>2. copies'[u] > copies[u]
    BY <1>4, <1>8, <2>1
  <2>3. copies' = [copies EXCEPT ![u] = copies'[u]]
    BY <1>6, <2>1
  <2>4. stages[u] # "expected"
    BY <1>1 DEF stages, StageOf, Arrived
  <2>5. UNCHANGED stages
    BY SameStages DEF Insert
  <2> QED
    BY <2>2, <2>3, <2>4, <2>5 DEF D!Deliver, stages
<1> QED
  BY <1>7, <1>8

(* Where one message moves from folder to folder, Gmail unchanged.          *)
LEMMA PlaceRefines ==
    ASSUME ReleasedIsInGmail', UNCHANGED copies, NEW u \in Uid,
           \A v \in Uid \ {u} : place'[v] = place[v],
           \/ place[u] = {} /\ StageOf(u)' = "held"
           \/ /\ StageOf(u) \in {"held", "withdrawn"}
              /\ StageOf(u)' \in {"held", "released", "withdrawn"}
              /\ StageOf(u) = "withdrawn" => StageOf(u)' = "withdrawn"
           \/ StageOf(u)' = StageOf(u)
    PROVE  [D!Next]_(D!vars)
<1>1. stages' = [stages EXCEPT ![u] = StageOf(u)'] /\ stages[u] = StageOf(u)
  BY OneStage DEF stages
<1>2. CASE StageOf(u)' = StageOf(u)
  <2>1. UNCHANGED stages
    BY <1>1, <1>2 DEF stages
  <2> QED
    BY <2>1 DEF D!vars, stages
<1>3. CASE place[u] = {} /\ StageOf(u)' = "held"
  <2>1. D!Accept(u)
    BY <1>1, <1>3 DEF D!Accept, stages, StageOf
  <2> QED
    BY <2>1 DEF D!Next
<1>4. CASE StageOf(u) = "held" /\ StageOf(u)' = "released"
  <2>1. copies[u] > 0
    BY <1>4 DEF ReleasedIsInGmail
  <2>2. D!Release(u)
    BY <1>1, <1>4, <2>1 DEF D!Release, stages
  <2> QED
    BY <2>2 DEF D!Next
<1>5. CASE StageOf(u) = "held" /\ StageOf(u)' = "withdrawn"
  <2>1. D!Withdraw(u)
    BY <1>1, <1>5 DEF D!Withdraw, stages
  <2> QED
    BY <2>1 DEF D!Next
<1> QED
  BY <1>2, <1>3, <1>4, <1>5

(* Every step of the forwarder is a step of Delivery or changes nothing there. *)
LEMMA NextRefines == Safe /\ ReleasedIsInGmail' /\ [Next]_vars => [D!Next]_(D!vars)
<1> SUFFICES ASSUME Safe, ReleasedIsInGmail', [Next]_vars PROVE [D!Next]_(D!vars)
  OBVIOUS
<1> WorldTypeOK /\ StepTypeOK
  BY DEF Safe, TypeOK
<1>a. ASSUME UNCHANGED <<place, copies>> PROVE [D!Next]_(D!vars)
  BY <1>a, SameStages DEF D!vars, stages
(* COPY, MOVE and UID EXPUNGE of a message in the INBOX.                    *)
<1>b. ASSUME NEW u \in Uid, NEW f \in Folder, NEW reply, UNCHANGED copies,
             \/ MoveMessage(u, f, reply)
             \/ CopyMessage(u, f, reply)
             \/ UidExpunge(u, reply) /\ Kept(u)
      PROVE  [D!Next]_(D!vars)
  <2>1. CASE UNCHANGED place
    BY <1>a, <1>b, <2>1
  <2>2. CASE ~UNCHANGED place
    <3>1. \A v \in Uid \ {u} : place'[v] = place[v]
      BY <1>b DEF MoveMessage, CopyMessage, UidExpunge, WorldTypeOK
    <3>2. "INBOX" \in place[u]
      BY <1>b, <2>2 DEF MoveMessage, CopyMessage, UidExpunge, WorldTypeOK, InInbox
    <3>3. \/ place'[u] = (place[u] \ {"INBOX"}) \union {f}
          \/ place'[u] = place[u] \union {f}
          \/ place'[u] = place[u] \ {"INBOX"} /\ Kept(u)
      BY <1>b, <2>2 DEF MoveMessage, CopyMessage, UidExpunge, WorldTypeOK
    <3>4. f \notin {"INBOX", "Elsewhere"}
      BY DEF Folder
    <3>5. StageOf(u) = IF "Elsewhere" \in place[u] THEN "withdrawn" ELSE "held"
      BY <3>2 DEF StageOf
    <3>6. place'[u] # {} /\ ("Elsewhere" \in place'[u] <=> "Elsewhere" \in place[u])
      BY <3>3, <3>4 DEF Kept
    <3>7. /\ StageOf(u)' \in {"held", "released", "withdrawn"}
          /\ StageOf(u) = "withdrawn" => StageOf(u)' = "withdrawn"
      BY <3>5, <3>6 DEF StageOf
    <3>8. StageOf(u) \in {"held", "withdrawn"}
      BY <3>5
    <3> QED
      BY <1>b, <3>1, <3>7, <3>8, PlaceRefines
  <2> QED
    BY <2>1, <2>2
<1>1. ASSUME NEW p \in Proc, Connect(p) \/ EnsureLabel(p) \/ CreateLabel(p) \/ List(p)
             \/ EndOfList(p) \/ Fetch(p) \/ Tag(p) \/ Mark(p) \/ Delete(p) \/ Settle(p) \/ Close(p) \/ Crash(p)
      PROVE  [D!Next]_(D!vars)
  BY <1>1, <1>a DEF Connect, EnsureLabel, CreateLabel, List, EndOfList, Fetch, Tag, Mark, Delete,
                    Settle, Close, Crash, env
<1>2. ASSUME NEW p \in Proc, Insert(p) PROVE [D!Next]_(D!vars)
  <2>1. cur[p] \in Uid
    BY <1>2 DEF Insert, StepTypeOK, Working
  <2>2. CASE UNCHANGED copies
    BY <1>2, <1>a, <2>2 DEF Insert
  <2>3. CASE D!Deliver(cur[p])
    BY <2>1, <2>3 DEF D!Next
  <2> QED
    BY <1>2, <2>2, <2>3, InsertRefines
<1>3. ASSUME NEW p \in Proc, Move(p) PROVE [D!Next]_(D!vars)
  <2>1. cur[p] \in Uid /\ dest[p] \in Folder
    BY <1>3 DEF Move, StepTypeOK, Working
  <2>2. PICK reply \in Reply : \/ MoveMessage(cur[p], dest[p], reply)
                               \/ CopyMessage(cur[p], dest[p], reply)
                               \/ UNCHANGED place
    BY <1>3 DEF Move
  <2>3. UNCHANGED copies
    BY <1>3 DEF Move
  <2> QED
    BY <1>a, <1>b, <2>1, <2>2, <2>3
<1>4. ASSUME NEW p \in Proc, Expunge(p) PROVE [D!Next]_(D!vars)
  <2>1. cur[p] \in Uid /\ Kept(cur[p])
    BY <1>4 DEF Expunge, StepTypeOK, Working, Safe, Custody, WorkIsKept
  <2>2. PICK reply \in Reply : UidExpunge(cur[p], reply)
    BY <1>4 DEF Expunge
  <2>3. UNCHANGED copies /\ "Trash" \in Folder
    BY <1>4 DEF Expunge, Folder
  <2> QED
    BY <1>b, <2>1, <2>2, <2>3
<1>5. ASSUME NewMail PROVE [D!Next]_(D!vars)
  <2>1. PICK u \in Uid : Arrive(u) /\ UNCHANGED copies
    BY <1>5 DEF NewMail
  <2>2. \A v \in Uid \ {u} : place'[v] = place[v]
    BY <2>1 DEF Arrive, WorldTypeOK
  <2>3. place[u] = {} /\ place'[u] = {"INBOX"}
    BY <2>1 DEF Arrive, WorldTypeOK
  <2>4. StageOf(u)' = "held"
    BY <2>3 DEF StageOf
  <2> QED
    BY <2>1, <2>2, <2>3, <2>4, PlaceRefines
<1>6. ASSUME Owner PROVE [D!Next]_(D!vars)
  <2>1. CASE UNCHANGED <<place, copies>>
    BY <1>a, <2>1
  <2>2. CASE ~UNCHANGED <<place, copies>>
    <3>1. PICK u \in Uid : TakeAway(u) /\ UNCHANGED copies
      BY <1>6, <2>2 DEF Owner, FlagDeleted
    <3>2. \A v \in Uid \ {u} : place'[v] = place[v]
      BY <3>1 DEF TakeAway, WorldTypeOK
    <3>3. "INBOX" \in place[u] /\ "Elsewhere" \in place'[u]
      BY <3>1 DEF TakeAway, InInbox, WorldTypeOK
    <3>4. StageOf(u) \in {"held", "withdrawn"} /\ StageOf(u)' = "withdrawn"
      BY <3>3 DEF StageOf
    <3> QED
      BY <3>1, <3>2, <3>4, PlaceRefines
  <2> QED
    BY <2>1, <2>2
<1>7. CASE UNCHANGED vars
  BY <1>7, <1>a DEF vars, env
<1> QED
  BY <1>1, <1>2, <1>3, <1>4, <1>5, <1>6, <1>7 DEF Next, Step

(* The forwarder implements Delivery.                                       *)
THEOREM ForwarderImplementsDelivery == Spec => ImplementsDelivery
<1>1. Safe => ReleasedIsInGmail
  BY SafeReleases
<1> QED
  BY <1>1, InitRefines, NextRefines, SafeAlways, PTL DEF Spec, ImplementsDelivery, D!Spec

(* Nothing is lost: a message that is neither held for its owner nor taken  *)
(* away by him is in Gmail.                                                 *)
THEOREM NothingIsLost == Spec => []D!NothingLost
<1>1. ReleasedIsInGmail => D!NothingLost
  BY DEF ReleasedIsInGmail, D!NothingLost
<1> QED
  BY <1>1, SafeReleases, SafeAlways, PTL

---------------------------------------------------------------------------
(* The verdict.                                                              *)

(* p is in _settle_rejections, or at work on a message for it.              *)
Settles(p) == pc[p] = "settle" \/ (pc[p] \in Moving /\ dest[p] = "Failed")

(* What p has seen rejected and does not spare.                             *)
Condemned(p) == oversized[p] \union (IF Tripped(p) THEN {} ELSE suspicious[p])

(* What is inductive about a run: it heads for the folder for failed mail,  *)
(* and has something left to settle, only while it settles; then what is    *)
(* left and what it works on was condemned, what was condemned is left, or  *)
(* worked on, or out of the queue, and a breaker that tripped was reported. *)
JudgedAt(p) ==
    /\ dest[p] = "Failed" \/ settling[p] # {} => Settles(p)
    /\ Settles(p) =>
        /\ settling[p] \subseteq Condemned(p)
        /\ pc[p] # "settle" => cur[p] \in Condemned(p)
        /\ Tripped(p) => error[p]
        /\ \A u \in Condemned(p) :
              u \in settling[p] \/ (pc[p] # "settle" /\ u = cur[p]) \/ ~Queued(u)
        /\ pc[p] = "expunge" => ~Queued(cur[p])

Judged == \A p \in Proc : JudgedAt(p)

---------------------------------------------------------------------------
(* What has left the queue once never comes back to it.                     *)
Fades == \A u \in Uid : Arrived(u) /\ Queued(u)' => Queued(u)

(* Setting a flag puts nothing into the queue.                              *)
LEMMA FlagDequeues ==
    ASSUME WorldTypeOK, NEW u \in Uid, NEW f, NEW reply, AddFlag(u, f, reply), UNCHANGED place
    PROVE  Fades
BY DEF WorldTypeOK, AddFlag, Fades, Queued, InInbox

(* Nor does a move, a copy or an expunge.                                   *)
LEMMA RelocateDequeues ==
    ASSUME WorldTypeOK, NEW u \in Uid, NEW f \in Folder, NEW reply, UNCHANGED flags,
           \/ UNCHANGED place
           \/ MoveMessage(u, f, reply)
           \/ CopyMessage(u, f, reply)
           \/ UidExpunge(u, reply)
    PROVE  Fades
<1>1. "INBOX" \notin Folder
  BY DEF Folder
<1> QED
  BY <1>1 DEF WorldTypeOK, MoveMessage, CopyMessage, UidExpunge, Fades, Queued, InInbox

(* No step puts mail that has arrived back into the queue.                  *)
LEMMA NextFades == TypeOK /\ [Next]_vars => Fades
<1> SUFFICES ASSUME TypeOK, [Next]_vars PROVE Fades
  OBVIOUS
<1>0. /\ WorldTypeOK
      /\ \A p \in Proc : (pc[p] \in Working => cur[p] \in Uid) /\ dest[p] \in Folder
  BY DEF TypeOK, StepTypeOK
<1>1. CASE UNCHANGED <<place, flags>>
  BY <1>1 DEF Fades, Queued, InInbox
<1>2. ASSUME NEW p \in Proc, Tag(p) \/ Mark(p) \/ Delete(p) PROVE Fades
  BY <1>0, <1>2, FlagDequeues DEF Tag, Mark, Delete, Working
<1>3. ASSUME NEW p \in Proc, Move(p) PROVE Fades
  BY <1>0, <1>3, RelocateDequeues DEF Move, Working
<1>4. ASSUME NEW p \in Proc, Expunge(p) PROVE Fades
  BY <1>0, <1>4, RelocateDequeues DEF Expunge, Working
<1>5. ASSUME NEW p \in Proc,
             \/ Connect(p) \/ EnsureLabel(p) \/ CreateLabel(p) \/ List(p) \/ EndOfList(p)
             \/ Fetch(p) \/ Insert(p) \/ Settle(p) \/ Close(p) \/ Crash(p)
      PROVE  Fades
  BY <1>5, <1>1 DEF Connect, EnsureLabel, CreateLabel, List, EndOfList, Fetch, Insert,
                    Settle, Close, Crash, env
<1>6. CASE NewMail \/ Owner
  BY <1>0, <1>6 DEF NewMail, Owner, Arrive, TakeAway, FlagDeleted, WorldTypeOK, Fades,
                    Queued, InInbox, Arrived
<1>7. CASE UNCHANGED vars
  BY <1>7, <1>1 DEF vars, env
<1> QED
  BY <1>2, <1>3, <1>4, <1>5, <1>6, <1>7 DEF Next, Step

---------------------------------------------------------------------------
(* A run that neither settles nor has anything to settle.                   *)
LEMMA LoopJudged ==
    ASSUME NEW p \in Proc, pc'[p] # "settle", dest'[p] # "Failed", settling'[p] = {}
    PROVE  JudgedAt(p)'
BY DEF JudgedAt, Settles

(* The end of a run.                                                        *)
LEMMA FinishJudged ==
    ASSUME TypeOK, NEW p \in Proc, NEW err, Finish(p, err) PROVE JudgedAt(p)'
BY LoopJudged DEF Finish, Aim, Goto, TypeOK, StepTypeOK, RunTypeOK

(* The end of the loop condemns what the breaker does not spare.            *)
LEMMA LeaveLoopJudged ==
    ASSUME TypeOK, NEW p \in Proc, NEW err, LeaveLoop(p, err) PROVE JudgedAt(p)'
<1>1. /\ pc'[p] = "settle" /\ settling'[p] = Condemned(p)
      /\ Tripped(p) => error'[p]
  BY DEF LeaveLoop, Aim, Goto, TypeOK, StepTypeOK, RunTypeOK, Condemned
<1>2. Condemned(p)' = Condemned(p) /\ (Tripped(p)' <=> Tripped(p))
  BY DEF LeaveLoop, Condemned, Tripped
<1> QED
  BY <1>1, <1>2 DEF JudgedAt, Settles

(* What the verdict of a run on its rejections is made of.                  *)
SameVerdict(p) ==
    /\ suspicious'[p] = suspicious[p] /\ oversized'[p] = oversized[p]
    /\ forwarded'[p] = forwarded[p] /\ error'[p] = error[p]

(* It stands as long as that does not change.                               *)
LEMMA VerdictStands ==
    ASSUME NEW p \in Proc, SameVerdict(p)
    PROVE  Condemned(p)' = Condemned(p) /\ (Tripped(p)' <=> Tripped(p))
BY DEF SameVerdict, Condemned, Tripped

(* All that a run condemns has arrived.                                     *)
LEMMA CondemnedArrived ==
    ASSUME Safe, NEW p \in Proc, NEW u \in Condemned(p) PROVE u \in Uid /\ Arrived(u)
<1>1. u \in Known(p) /\ u \in Uid
  BY DEF Condemned, Known, Safe, TypeOK, RunTypeOK
<1> QED
  BY <1>1 DEF Safe, Custody, WorkIsKept

(* The runs a step is not about.                                            *)
LEMMA OthersJudged ==
    ASSUME Safe, Fades, NEW p \in Proc, JudgedAt(p), SameVerdict(p),
           pc'[p] = pc[p], cur'[p] = cur[p], dest'[p] = dest[p], settling'[p] = settling[p]
    PROVE  JudgedAt(p)'
<1>1. Condemned(p)' = Condemned(p) /\ (Tripped(p)' <=> Tripped(p)) /\ (Settles(p)' <=> Settles(p))
  BY VerdictStands DEF Settles
<1>2. \A u \in Condemned(p) : Queued(u)' => Queued(u)
  BY CondemnedArrived DEF Fades
<1>3. pc[p] = "expunge" /\ Settles(p) => cur[p] \in Condemned(p)
  BY DEF JudgedAt
<1> QED
  BY <1>1, <1>2, <1>3 DEF JudgedAt, SameVerdict

(* A step inside _settle_rejections: the message worked on stays the same,  *)
(* or is dealt with and out of the queue.                                   *)
LEMMA SettlingJudged ==
    ASSUME Safe, Fades, NEW p \in Proc, JudgedAt(p), SameVerdict(p),
           pc[p] \in Moving, dest[p] = "Failed", dest'[p] = "Failed", settling'[p] = settling[p],
           NEW v, v = cur[p],
           \/ /\ pc'[p] \in Moving /\ cur'[p] = v
              /\ pc'[p] = "expunge" => ~Queued(v)'
           \/ pc'[p] = "settle" /\ ~Queued(v)'
    PROVE  JudgedAt(p)'
<1>1. Condemned(p)' = Condemned(p) /\ (Tripped(p)' <=> Tripped(p)) /\ Settles(p)' /\ Settles(p)
  BY VerdictStands DEF Settles
<1>2. \A u \in Condemned(p) : Queued(u)' => Queued(u)
  BY CondemnedArrived DEF Fades
<1>3. pc[p] # "settle" /\ (pc'[p] \in Moving => pc'[p] # "settle")
  BY DEF Moving
<1>4. \A u \in Condemned(p) :
         u \in settling'[p] \/ (pc'[p] # "settle" /\ u = cur'[p]) \/ ~Queued(u)'
  BY <1>1, <1>2, <1>3 DEF JudgedAt
<1>5. pc'[p] = "expunge" => ~Queued(cur[p])'
  BY <1>3 DEF Queued, InInbox
<1> QED
  BY <1>1, <1>3, <1>4, <1>5 DEF JudgedAt, SameVerdict

(* A step of the loop over the listing settles nothing.                     *)
LEMMA UnsettledStep ==
    ASSUME TypeOK, NEW p \in Proc, JudgedAt(p), ~Settles(p), Step(p) \/ Crash(p)
    PROVE  JudgedAt(p)'
<1>0. /\ pc \in [Proc -> Location] /\ dest \in [Proc -> Folder]
      /\ settling \in [Proc -> SUBSET Uid]
  BY DEF TypeOK, StepTypeOK, RunTypeOK
<1>1. pc[p] # "settle" /\ dest[p] # "Failed" /\ settling[p] = {}
  BY DEF JudgedAt, Settles
<1>a. ASSUME \E err : Finish(p, err) \/ LeaveLoop(p, err) PROVE JudgedAt(p)'
  BY <1>a, FinishJudged, LeaveLoopJudged
<1>b. ASSUME UNCHANGED <<dest, settling>>, pc'[p] # "settle" PROVE JudgedAt(p)'
  BY <1>1, <1>b, LoopJudged
<1>c. ASSUME Done(p) PROVE JudgedAt(p)'
  BY <1>0, <1>1, <1>b, <1>c DEF Done, Aim, Goto
<1>d. ASSUME Abort(p) PROVE JudgedAt(p)'
  BY <1>a, <1>d DEF Abort
<1>2. CASE Connect(p)
  BY <1>0, <1>1, <1>b, <1>2 DEF Connect, Goto
<1>3. CASE EnsureLabel(p)
  BY <1>0, <1>a, <1>b, <1>3 DEF EnsureLabel, Goto
<1>4. CASE CreateLabel(p)
  BY <1>0, <1>a, <1>b, <1>4 DEF CreateLabel, Goto
<1>5. CASE List(p)
  BY <1>0, <1>a, <1>b, <1>5 DEF List, Goto
<1>6. CASE EndOfList(p)
  BY <1>a, <1>6 DEF EndOfList
<1>7. CASE Fetch(p)
  <2>1. CASE LeaveLoop(p, TRUE)
    BY <1>a, <2>1
  <2>2. CASE ~LeaveLoop(p, TRUE)
    <3>1. /\ UNCHANGED settling
          /\ dest' = dest \/ dest' = [dest EXCEPT ![p] = "Trash"]
          /\ pc' = pc \/ \E l \in {"insert", "move"} : Goto(p, l)
      BY <1>7, <2>2 DEF Fetch, Aim
    <3>2. pc'[p] # "settle" /\ dest'[p] # "Failed" /\ settling'[p] = {}
      BY <1>0, <1>1, <3>1 DEF Goto
    <3> QED
      BY <3>2, LoopJudged
  <2> QED
    BY <2>1, <2>2
<1>8. CASE Insert(p)
  <2>1. CASE LeaveLoop(p, TRUE)
    BY <1>a, <2>1
  <2>2. CASE ~LeaveLoop(p, TRUE)
    <3>1. UNCHANGED <<dest, settling>> /\ \E l \in {"tag", "next"} : Goto(p, l)
      BY <1>8, <2>2 DEF Insert, Aim
    <3> QED
      BY <1>0, <1>b, <3>1 DEF Goto
  <2> QED
    BY <2>1, <2>2
<1>9. CASE Tag(p)
  <2>1. pc'[p] # "settle" /\ dest'[p] # "Failed" /\ settling'[p] = {}
    BY <1>0, <1>1, <1>9 DEF Tag, Goto, QuarantineStart
  <2> QED
    BY <2>1, LoopJudged
<1>10. CASE Mark(p)
  BY <1>0, <1>b, <1>c, <1>10 DEF Mark, Goto
<1>11. CASE Move(p)
  BY <1>0, <1>b, <1>c, <1>d, <1>11 DEF Move, Goto
<1>12. CASE Delete(p)
  BY <1>0, <1>b, <1>d, <1>12 DEF Delete, Goto
<1>13. CASE Expunge(p)
  BY <1>c, <1>d, <1>13 DEF Expunge
<1>14. CASE Settle(p) \/ Close(p)
  BY <1>1, <1>14 DEF Settle, Close
<1>15. CASE Crash(p)
  BY <1>a, <1>15 DEF Crash
<1> QED
  BY <1>2, <1>3, <1>4, <1>5, <1>6, <1>7, <1>8, <1>9, <1>10, <1>11, <1>12, <1>13, <1>14,
     <1>15 DEF Step

(* A step of _settle_rejections: a message leaves what is left only to be   *)
(* worked on, and that work only when it has left the queue.                *)
LEMMA SettlingStep ==
    ASSUME Safe, Fades, NEW p \in Proc, JudgedAt(p), Settles(p), Step(p) \/ Crash(p)
    PROVE  JudgedAt(p)'
<1>0. /\ TypeOK /\ WorldTypeOK
      /\ pc \in [Proc -> Location] /\ dest \in [Proc -> Folder]
      /\ cur \in [Proc -> Uid \union {NoUid}]
      /\ settling \in [Proc -> SUBSET Uid]
      /\ pc[p] \in Moving => cur[p] \in Uid
  BY DEF Safe, TypeOK, StepTypeOK, RunTypeOK, Moving, Working
<1>1. pc[p] = "settle" \/ (pc[p] \in Moving /\ dest[p] = "Failed")
  BY DEF Settles
<1>a. ASSUME \E err : Finish(p, err) PROVE JudgedAt(p)'
  BY <1>0, <1>a, FinishJudged
<1>v. PICK v : v = cur[p]
  OBVIOUS
<1>c. ASSUME pc[p] \in Moving, Done(p), ~Queued(v)' PROVE JudgedAt(p)'
  <2>1. /\ SameVerdict(p) /\ dest[p] = "Failed" /\ dest'[p] = "Failed"
        /\ settling'[p] = settling[p] /\ pc'[p] = "settle"
    BY <1>0, <1>1, <1>c DEF Done, Aim, Goto, SameVerdict, Moving
  <2> QED
    BY <1>c, <1>v, <2>1, SettlingJudged
<1>d. ASSUME pc[p] \in Moving, Abort(p) PROVE JudgedAt(p)'
  BY <1>1, <1>a, <1>d DEF Abort, Moving
<1>e. ASSUME pc[p] \in Moving, NEW l \in Moving, Goto(p, l), l = "expunge" => ~Queued(v)',
             UNCHANGED <<cur, dest, suspicious, oversized, settling, forwarded, error>>
      PROVE  JudgedAt(p)'
  <2>1. /\ SameVerdict(p) /\ dest[p] = "Failed" /\ dest'[p] = "Failed"
        /\ settling'[p] = settling[p] /\ pc'[p] = l /\ cur'[p] = v
    BY <1>0, <1>1, <1>e, <1>v DEF Goto, SameVerdict, Moving
  <2> QED
    BY <1>e, <1>v, <2>1, SettlingJudged
<1>2. CASE Mark(p)
  <2>1. PICK reply \in Reply : Mark(p)!2!(reply)
    BY <1>2 DEF Mark
  <2>2. pc[p] \in Moving /\ place' = place
    BY <1>2 DEF Mark, Moving
  <2>3. CASE Confirmed(v, reply) /\ Done(p)
    <3>1. QuarantineKeyword(p) \in Quarantine
      BY DEF QuarantineKeyword, Quarantine
    <3>2. ~Queued(v)'
      BY <1>0, <1>v, <2>1, <2>2, <2>3, <3>1 DEF Confirmed, AddFlag, Queued, InInbox, WorldTypeOK
    <3> QED
      BY <1>c, <2>2, <2>3, <3>2
  <2>4. CASE ~Confirmed(v, reply)
    BY <1>e, <1>v, <2>1, <2>2, <2>4 DEF Moving
  <2> QED
    BY <1>v, <2>1, <2>3, <2>4
<1>3. CASE Move(p)
  <2>1. PICK reply \in Reply : Move(p)!2!(reply)
    BY <1>3 DEF Move
  <2>2. pc[p] \in Moving /\ flags' = flags
    BY <1>3 DEF Move, Moving
  <2>3. CASE MoveMessage(v, dest[p], reply) /\ reply = "ok" /\ Done(p)
    <3>1. ~Queued(v)'
      <4>1. "INBOX" \notin place'[v]
        BY <1>0, <1>v, <2>2, <2>3 DEF MoveMessage, InInbox, WorldTypeOK, Folder
      <4> QED
        BY <4>1 DEF Queued, InInbox
    <3> QED
      BY <1>c, <2>2, <2>3, <3>1
  <2>4. CASE Abort(p)
    BY <1>d, <2>2, <2>4
  <2>5. CASE Goto(p, "delete") /\ UNCHANGED <<cur, dest, suspicious, oversized, settling, forwarded, error>>
    BY <1>e, <2>2, <2>5 DEF Moving
  <2> QED
    BY <1>v, <2>1, <2>3, <2>4, <2>5
<1>4. CASE Delete(p)
  <2>1. PICK reply \in Reply : Delete(p)!2!(reply)
    BY <1>4 DEF Delete
  <2>2. pc[p] \in Moving /\ place' = place
    BY <1>4 DEF Delete, Moving
  <2>3. CASE reply = "ok" /\ Goto(p, "expunge")
             /\ UNCHANGED <<cur, dest, suspicious, oversized, settling, forwarded, error>>
    <3>1. ~Queued(v)'
      BY <1>0, <1>v, <2>1, <2>2, <2>3 DEF AddFlag, Queued, InInbox, WorldTypeOK
    <3> QED
      BY <1>e, <2>2, <2>3, <3>1 DEF Moving
  <2>4. CASE Abort(p)
    BY <1>d, <2>2, <2>4
  <2> QED
    BY <1>v, <2>1, <2>3, <2>4
<1>5. CASE Expunge(p)
  <2>1. pc[p] = "expunge" /\ pc[p] \in Moving /\ (Done(p) \/ Abort(p))
    BY <1>5 DEF Expunge, Moving
  <2>2. v \in Uid /\ Arrived(v) /\ ~Queued(v)
    BY <1>0, <1>v, <2>1 DEF JudgedAt, Settles, Safe, Custody, WorkIsKept, Working
  <2>3. ~Queued(v)'
    BY <2>2 DEF Fades
  <2> QED
    BY <1>c, <1>d, <2>1, <2>3
<1>6. CASE Settle(p)
  <2>1. PICK u \in Uid : Settle(p)!2!(u)
    BY <1>6 DEF Settle
  <2>2. /\ pc[p] = "settle" /\ u \in settling[p] /\ settling'[p] = settling[p] \ {u}
        /\ cur'[p] = u /\ pc'[p] \in {"mark", "move"} /\ dest'[p] = "Failed"
        /\ SameVerdict(p) /\ UNCHANGED <<place, flags>>
    BY <1>0, <1>6, <2>1 DEF Settle, Next1, Aim, Goto, QuarantineStart, SameVerdict, env
  <2>3. Condemned(p)' = Condemned(p) /\ (Tripped(p)' <=> Tripped(p))
    BY <2>2, VerdictStands
  <2>4. \A w \in Condemned(p) : w \in settling[p] \/ ~Queued(w)'
    BY <2>2 DEF JudgedAt, Settles, Queued, InInbox
  <2>5. u \in Condemned(p) /\ settling[p] \subseteq Condemned(p) /\ (Tripped(p) => error[p])
    BY <2>2 DEF JudgedAt, Settles
  <2> QED
    BY <2>2, <2>3, <2>4, <2>5 DEF JudgedAt, Settles, Moving, SameVerdict
<1>7. CASE Close(p) \/ Crash(p)
  BY <1>a, <1>7 DEF Close, Crash
<1>8. CASE \/ Connect(p) \/ EnsureLabel(p) \/ CreateLabel(p) \/ List(p) \/ EndOfList(p)
           \/ Fetch(p) \/ Insert(p) \/ Tag(p)
  BY <1>1, <1>8 DEF Connect, EnsureLabel, CreateLabel, List, EndOfList, Fetch, Insert, Tag, Moving
<1> QED
  BY <1>2, <1>3, <1>4, <1>5, <1>6, <1>7, <1>8 DEF Step

(* Every step keeps what is known of every run's verdict.                   *)
LEMMA NextJudged == Safe /\ Judged /\ [Next]_vars => Judged'
<1> SUFFICES ASSUME Safe, Judged, [Next]_vars PROVE Judged'
  OBVIOUS
<1>0. TypeOK /\ Fades
  BY NextFades DEF Safe
<1>1. ASSUME NEW p \in Proc, Step(p) \/ Crash(p) PROVE Judged'
  <2>1. JudgedAt(p)'
    BY <1>0, <1>1, UnsettledStep, SettlingStep DEF Judged
  <2>2. ASSUME NEW q \in Proc \ {p} PROVE JudgedAt(q)'
    <3>1. /\ pc'[q] = pc[q] /\ cur'[q] = cur[q] /\ dest'[q] = dest[q]
          /\ settling'[q] = settling[q] /\ SameVerdict(q)
      BY <1>0, <1>1, StepAlone DEF Alone, SameVerdict
    <3> QED
      BY <1>0, <3>1, OthersJudged DEF Judged
  <2> QED
    BY <2>1, <2>2 DEF Judged
<1>2. CASE UNCHANGED jobs
  <2> SUFFICES ASSUME NEW q \in Proc PROVE JudgedAt(q)'
    BY DEF Judged
  <2>1. /\ pc'[q] = pc[q] /\ cur'[q] = cur[q] /\ dest'[q] = dest[q]
        /\ settling'[q] = settling[q] /\ SameVerdict(q)
    BY <1>2 DEF jobs, SameVerdict
  <2> QED
    BY <1>0, <2>1, OthersJudged DEF Judged
<1> QED
  BY <1>1, <1>2 DEF Next, NewMail, Owner, vars

(* At first no run has judged anything.                                     *)
LEMMA InitJudged == Init => Judged
BY DEF Init, Judged, JudgedAt, Settles, Moving

(* The rejections of every run, for ever.                                   *)
LEMMA JudgedAlways == Spec => [](Safe /\ Judged)
<1>1. Init => Judged
  BY InitJudged
<1>2. Safe /\ Judged /\ [Next]_vars => Judged'
  BY NextJudged
<1> QED
  BY <1>1, <1>2, SafeAlways, PTL DEF Spec

---------------------------------------------------------------------------
Blamed(u) == "failed" \in flags'[u] \ flags[u] \/ "Failed" \in place'[u] \ place[u]

(* Only a run that works on a message for _settle_rejections blames it.     *)
LEMMA BlamedBySettling ==
    ASSUME TypeOK, NEW u \in Uid, Next, Blamed(u)
    PROVE  \E p \in Proc : cur[p] = u /\ pc[p] \in Moving /\ dest[p] = "Failed"
<1>0. /\ WorldTypeOK
      /\ \A p \in Proc : (pc[p] \in Working => cur[p] \in Uid) /\ dest[p] \in Folder
  BY DEF TypeOK, StepTypeOK
<1>a. ASSUME NEW v \in Uid, NEW f \in Flag, NEW reply, AddFlag(v, f, reply), UNCHANGED place
      PROVE  u = v /\ f = "failed"
  BY <1>0, <1>a DEF AddFlag, WorldTypeOK, Blamed
<1>b. ASSUME NEW v \in Uid, NEW f \in Folder, NEW reply, UNCHANGED flags,
             MoveMessage(v, f, reply) \/ CopyMessage(v, f, reply)
      PROVE  u = v /\ f = "Failed"
  BY <1>0, <1>b DEF MoveMessage, CopyMessage, WorldTypeOK, Blamed
<1>1. ASSUME UNCHANGED <<place, flags>> PROVE FALSE
  BY <1>1 DEF Blamed
<1>2. ASSUME NEW p \in Proc, Tag(p) \/ Delete(p) PROVE FALSE
  <2>1. cur[p] \in Uid /\ UNCHANGED place
    BY <1>0, <1>2 DEF Tag, Delete, Working
  <2>2. \E f \in {"inserted", "deleted"}, reply \in Reply : AddFlag(cur[p], f, reply)
    BY <1>2 DEF Tag, Delete
  <2> QED
    BY <1>a, <2>1, <2>2 DEF Flag
<1>3. ASSUME NEW p \in Proc, Mark(p) PROVE cur[p] = u /\ pc[p] \in Moving /\ dest[p] = "Failed"
  <2>1. cur[p] \in Uid /\ pc[p] \in Moving /\ UNCHANGED place
    BY <1>0, <1>3 DEF Mark, Working, Moving
  <2>2. \E reply \in Reply : AddFlag(cur[p], QuarantineKeyword(p), reply)
    BY <1>3 DEF Mark
  <2>3. QuarantineKeyword(p) \in Flag /\ (QuarantineKeyword(p) = "failed" => dest[p] = "Failed")
    BY DEF QuarantineKeyword, Flag, Quarantine
  <2> QED
    BY <1>a, <2>1, <2>2, <2>3
<1>4. ASSUME NEW p \in Proc, Move(p) PROVE cur[p] = u /\ pc[p] \in Moving /\ dest[p] = "Failed"
  <2>1. cur[p] \in Uid /\ pc[p] \in Moving /\ dest[p] \in Folder /\ UNCHANGED flags
    BY <1>0, <1>4 DEF Move, Working, Moving
  <2>2. \/ UNCHANGED place
        \/ \E reply \in Reply : \/ MoveMessage(cur[p], dest[p], reply)
                                \/ CopyMessage(cur[p], dest[p], reply)
    BY <1>4 DEF Move
  <2> QED
    BY <1>1, <1>b, <2>1, <2>2
<1>5. ASSUME NEW p \in Proc, Expunge(p) PROVE FALSE
  BY <1>0, <1>5 DEF Expunge, Working, UidExpunge, WorldTypeOK, Blamed
<1>6. ASSUME NEW p \in Proc,
             \/ Connect(p) \/ EnsureLabel(p) \/ CreateLabel(p) \/ List(p) \/ EndOfList(p)
             \/ Fetch(p) \/ Insert(p) \/ Settle(p) \/ Close(p) \/ Crash(p)
      PROVE  FALSE
  BY <1>6, <1>1 DEF Connect, EnsureLabel, CreateLabel, List, EndOfList, Fetch, Insert,
                    Settle, Close, Crash, env
<1>7. ASSUME NewMail \/ Owner PROVE FALSE
  BY <1>0, <1>7 DEF NewMail, Owner, Arrive, TakeAway, FlagDeleted, WorldTypeOK, Blamed
<1> QED
  BY <1>2, <1>3, <1>4, <1>5, <1>6, <1>7 DEF Next, Step

(* What BlamedOnlyOnVerdict asks of a step.                                 *)
BlamesOnVerdict ==
    \A u \in Uid :
        \/ "failed" \in flags'[u] \ flags[u]
        \/ "Failed" \in place'[u] \ place[u]
        => \E p \in Proc : /\ cur[p] = u
                           /\ u \in oversized[p] \/ (u \in suspicious[p] /\ ~Tripped(p))

(* Every step of the forwarder does.                                        *)
LEMMA NextBlames == Safe /\ Judged /\ [Next]_vars => BlamesOnVerdict
<1>1. ASSUME Safe, Judged, Next, NEW u \in Uid, Blamed(u)
      PROVE  \E p \in Proc : cur[p] = u /\ (u \in oversized[p] \/ (u \in suspicious[p] /\ ~Tripped(p)))
  <2>1. PICK p \in Proc : cur[p] = u /\ pc[p] \in Moving /\ dest[p] = "Failed"
    BY <1>1, BlamedBySettling DEF Safe
  <2>2. u \in Condemned(p)
    BY <1>1, <2>1 DEF Judged, JudgedAt, Settles, Moving
  <2> QED
    BY <2>1, <2>2 DEF Condemned
<1>2. CASE UNCHANGED vars
  BY <1>2 DEF vars, env, BlamesOnVerdict
<1> QED
  BY <1>1, <1>2 DEF Blamed, BlamesOnVerdict

(* BlamedOnlyOnVerdict: a message is marked or filed as failed only by a    *)
(* run in which Gmail rejected that very message, and, when the rejections  *)
(* look like a broken account, only for what is wrong with it alone.        *)
THEOREM OnlyTheRejectedIsBlamed == Spec => BlamedOnlyOnVerdict
<1>1. Safe /\ Judged /\ [Next]_vars => [BlamesOnVerdict]_vars
  BY NextBlames
<1> QED
  BY <1>1, JudgedAlways, PTL DEF Spec, BlamedOnlyOnVerdict, BlamesOnVerdict

(* What SettledAtReturn asks of a step.                                     *)
SettlesAtReturn ==
    \A p \in Proc :
        pc[p] = "settle" /\ pc'[p] = "idle" /\ faults' = faults
        => /\ \A u \in oversized[p] : ~Queued(u)
           /\ \/ \A u \in suspicious[p] : ~Queued(u)
              \/ Tripped(p) /\ error'[p]

(* Every step of the forwarder does.                                        *)
LEMMA NextSettles == Safe /\ Judged /\ [Next]_vars => SettlesAtReturn
<1>1. ASSUME Safe, Judged, Next, NEW p \in Proc,
             pc[p] = "settle", pc'[p] = "idle", faults' = faults
      PROVE  /\ \A u \in oversized[p] : ~Queued(u)
             /\ \/ \A u \in suspicious[p] : ~Queued(u)
                \/ Tripped(p) /\ error'[p]
  <2>0. TypeOK /\ pc \in [Proc -> Location] /\ error \in [Proc -> BOOLEAN] /\ faults \in Nat
    BY <1>1 DEF Safe, TypeOK, StepTypeOK, RunTypeOK, ChanceTypeOK
  <2>1. Step(p)
    <3>1. ASSUME NEW q \in Proc \ {p}, Step(q) \/ Crash(q) PROVE FALSE
      BY <1>1, <2>0, <3>1, StepAlone DEF Alone
    <3>2. CASE NewMail \/ Owner
      BY <1>1, <3>2 DEF NewMail, Owner, jobs
    <3>3. ~Crash(p)
      <4>1. faults + 1 # faults
        BY <2>0
      <4> QED
        BY <1>1, <4>1 DEF Crash
    <3> QED
      BY <1>1, <3>1, <3>2, <3>3 DEF Next
  <2>2. Close(p)
    <3>1. ~Settle(p)
      BY <1>1, <2>0 DEF Settle, Aim, Goto, QuarantineStart
    <3> QED
      BY <1>1, <2>1, <3>1 DEF Step, Connect, EnsureLabel, CreateLabel, List, EndOfList, Fetch,
                              Insert, Tag, Mark, Move, Delete, Expunge
  <2>3. settling[p] = {} /\ error'[p] = error[p]
    BY <2>0, <2>2 DEF Close, Finish
  <2>4. /\ \A u \in Condemned(p) : ~Queued(u)
        /\ Tripped(p) => error[p]
    BY <1>1, <2>3 DEF Judged, JudgedAt, Settles
  <2> QED
    BY <2>3, <2>4 DEF Condemned
<1>2. CASE UNCHANGED vars
  BY <1>2 DEF vars, jobs, SettlesAtReturn
<1> QED
  BY <1>1, <1>2 DEF SettlesAtReturn

(* SettledAtReturn: a run that returns through the end of                   *)
(* _settle_rejections leaves nothing it saw rejected in the queue, but what *)
(* the breaker spares, and then its result says so.                         *)
THEOREM RejectionsAreSettled == Spec => SettledAtReturn
<1>1. Safe /\ Judged /\ [Next]_vars => [SettlesAtReturn]_vars
  BY NextSettles
<1> QED
  BY <1>1, JudgedAlways, PTL DEF Spec, SettledAtReturn, SettlesAtReturn

=============================================================================
