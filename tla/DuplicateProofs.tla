-------------------------- MODULE DuplicateProofs --------------------------
(***************************************************************************)
(* Duplicates are paid for: Gmail holds no more copies of a message than   *)
(* runs that may overlap plus faults that happened; and one run at a time  *)
(* never sends again what a keyword is on.                                 *)
(***************************************************************************)
EXTENDS ForwarderSafety, FiniteSetTheorems

(* u may be sent: by the next run that lists it or, when it is quarantined, *)
(* once its operator has cleared the keyword.                               *)
Open(u) == InInbox(u) /\ "inserted" \notin flags[u]

(* The runs that are about to send u, and those that have just done so.     *)
Senders(u) == {p \in Proc : pc[p] = "insert" /\ cur[p] = u}
Taggers(u) == {p \in Proc : pc[p] = "tag" /\ cur[p] = u}

(* Copies are paid for by faults; one more is allowed to each run that has  *)
(* yet to mark the message, and to each that can still send it.             *)
Ledger(cap) ==
    \A u \in Uid :
        /\ Open(u) => copies[u] <= faults + Cardinality(Taggers(u))
        /\ copies[u] + Cardinality(Senders(u)) <= faults + cap

Crowd(cap) == \A u \in Uid : Cardinality(Senders(u) \union Taggers(u)) <= cap

(* Between the fetch and the keyword the session is known to work, so that  *)
(* a keyword that fails there is a fault of its own.                        *)
LinkUp == \A p \in Proc : pc[p] \in {"insert", "tag"} => link[p]

Unborn == \A u \in Uid : ~Arrived(u) => copies[u] = 0

Paid(cap) == Safe /\ LinkUp /\ Unborn /\ Ledger(cap)

---------------------------------------------------------------------------
(* What a step of p books for message u: an accepted insert, the end of     *)
(* tagging, a fetch, or nothing that is not paid for.                       *)
Books(p, u) ==
    \/ /\ p \in Senders(u) /\ p \notin Senders(u)'
       /\ p \notin Taggers(u) /\ p \in Taggers(u)'
       /\ copies'[u] + faults <= copies[u] + faults' + 1
    \/ /\ p \in Taggers(u) /\ p \notin Taggers(u)'
       /\ p \notin Senders(u) /\ p \notin Senders(u)'
       /\ copies'[u] = copies[u] /\ faults <= faults'
       /\ Open(u)' => faults < faults'
    \/ /\ p \notin Senders(u) /\ p \in Senders(u)'
       /\ p \notin Taggers(u) /\ p \notin Taggers(u)'
       /\ copies'[u] = copies[u] /\ faults <= faults'
       /\ Open(u)'
    \/ /\ p \notin Senders(u)'
       /\ p \notin Taggers(u) /\ p \notin Taggers(u)'
       /\ copies'[u] + faults <= copies[u] + faults'

(* A step that neither begins nor ends at the insert or the tag.            *)
LEMMA OtherBooks ==
    ASSUME TypeOK, NEW p \in Proc, NEW u \in Uid,
           pc[p] \notin {"insert", "tag"}, pc'[p] \notin {"insert", "tag"},
           copies' = copies, faults <= faults', faults' \in Nat
    PROVE  Books(p, u)
BY DEF Books, Senders, Taggers, TypeOK, WorldTypeOK, ChanceTypeOK

(* Faults are only ever added.                                              *)
LEMMA CommandCosts ==
    ASSUME TypeOK, NEW p \in Proc, NEW ending, Command(p, ending)
    PROVE  /\ faults <= faults' /\ faults' \in Nat
           /\ link[p] /\ ending # "ok" => faults < faults'
BY DEF Command, TypeOK, ChanceTypeOK

(* An insert books a copy against the run, or against faults.               *)
LEMMA InsertBooks ==
    ASSUME TypeOK, NEW p \in Proc, NEW u \in Uid, Insert(p) PROVE Books(p, u)
<1>0. /\ cur[p] \in Uid /\ pc[p] = "insert" /\ pc \in [Proc -> Location]
      /\ cur \in [Proc -> Uid \union {NoUid}] /\ copies \in [Uid -> Nat] /\ faults \in Nat
  BY DEF Insert, TypeOK, WorldTypeOK, ChanceTypeOK, StepTypeOK, Working
<1>a. PICK e \in Ending(cur[p]) : Insert(p)!2!(e)
  BY DEF Insert
<1>1. /\ faults' = faults + Cost(e)
      /\ InsertRaw(cur[p], e[1], e[2])
      /\ \/ Accepted(e[2]) /\ Goto(p, "tag") /\ UNCHANGED cur
         \/ ~Accepted(e[2]) /\ LeaveLoop(p, TRUE)
         \/ ~Accepted(e[2]) /\ Aim(p, NoUid, "next")
  <2>1. Auth(e[2]) \/ Retryable(e[2]) \/ Permanent(e[2]) => ~Accepted(e[2])
    BY DEF Accepted, Auth, Retryable, Permanent
  <2> QED
    BY <1>a, <2>1
<1>2. e[1] \in Nat /\ (Accepted(e[2]) => Cost(e) = e[1]) /\ Cost(e) \in Nat /\ e[1] <= Cost(e)
  BY <1>0, GmailAssumption DEF Ending, Cost, Accepted, NoAnswer
<1>3. copies'[u] = IF u = cur[p] THEN copies[u] + e[1] + (IF Accepted(e[2]) THEN 1 ELSE 0)
                   ELSE copies[u]
  BY <1>0, <1>1, <1>2 DEF InsertRaw
<1>4. CASE Accepted(e[2])
  <2>1. pc'[p] = "tag" /\ cur' = cur
    BY <1>0, <1>1, <1>4 DEF Goto
  <2>2. faults' = faults + e[1]
    BY <1>1, <1>2, <1>4
  <2>3. CASE u = cur[p]
    BY <1>0, <1>2, <1>3, <1>4, <2>1, <2>2, <2>3 DEF Books, Senders, Taggers
  <2>4. CASE u # cur[p]
    BY <1>0, <1>2, <1>3, <2>1, <2>2, <2>4 DEF Books, Senders, Taggers
  <2> QED
    BY <2>3, <2>4
<1>5. CASE ~Accepted(e[2])
  <2>1. pc'[p] \in {"settle", "next"}
    BY <1>0, <1>1, <1>5 DEF LeaveLoop, Aim, Goto
  <2>2. copies'[u] + faults <= copies[u] + faults'
    BY <1>0, <1>1, <1>2, <1>3, <1>5
  <2> QED
    BY <1>0, <2>1, <2>2 DEF Books, Senders, Taggers
<1> QED
  BY <1>4, <1>5

(* The end of tagging frees the run of its copy: the keyword is there, or   *)
(* it failed, which is a fault.                                             *)
LEMMA TagBooks ==
    ASSUME TypeOK, LinkUp, NEW p \in Proc, NEW u \in Uid, Tag(p) PROVE Books(p, u)
<1>0. /\ cur[p] \in Uid /\ pc[p] = "tag" /\ link[p] /\ pc \in [Proc -> Location]
      /\ flags \in [Uid -> SUBSET Flag] /\ copies \in [Uid -> Nat] /\ faults \in Nat
  BY DEF Tag, LinkUp, TypeOK, WorldTypeOK, ChanceTypeOK, StepTypeOK, Working
<1>1. PICK ending \in Reply :
         /\ Command(p, ending)
         /\ AddFlag(cur[p], "inserted", ending)
         /\ \/ Confirmed(cur[p], ending) /\ Goto(p, "move")
            \/ ~Confirmed(cur[p], ending) /\ Goto(p, QuarantineStart)
  BY DEF Tag
<1>2. pc'[p] \notin {"insert", "tag"} /\ copies' = copies /\ place' = place /\ cur' = cur
  BY <1>0, <1>1 DEF Tag, Goto, QuarantineStart
<1>3. faults <= faults' /\ (ending # "ok" => faults < faults') /\ faults' \in Nat
  BY <1>0, <1>1, CommandCosts
<1>4. CASE u = cur[p]
  <2>1. ending = "ok" => ~Open(u)'
    BY <1>0, <1>1, <1>2, <1>4 DEF AddFlag, Open, InInbox
  <2> QED
    BY <1>0, <1>2, <1>3, <1>4, <2>1 DEF Books, Senders, Taggers
<1>5. CASE u # cur[p]
  BY <1>0, <1>2, <1>3, <1>5 DEF Books, Senders, Taggers
<1> QED
  BY <1>4, <1>5

(* A fetch lets the run send only what is open.                             *)
LEMMA FetchBooks ==
    ASSUME TypeOK, NEW p \in Proc, NEW u \in Uid, Fetch(p)
    PROVE  Books(p, u)
<1>0. pc[p] = "next" /\ pc \in [Proc -> Location] /\ cur \in [Proc -> Uid \union {NoUid}]
      /\ faults \in Nat /\ copies \in [Uid -> Nat]
  BY DEF Fetch, TypeOK, WorldTypeOK, ChanceTypeOK, StepTypeOK
<1>1. PICK v \in Uid, ending \in {"ok", "refused"} :
         /\ FetchEnds(p, v, ending)
         /\ \/ LeaveLoop(p, TRUE)
            \/ UNCHANGED <<pc, cur>>
            \/ ~Skipped(v) /\ ~HasInserted(v) /\ Aim(p, v, "insert")
            \/ Aim(p, v, "move")
  BY DEF Fetch
<1>2. faults <= faults' /\ faults' \in Nat
  BY <1>0, <1>1, CommandCosts DEF FetchEnds
<1>3. UNCHANGED <<place, flags, copies>>
  BY DEF Fetch
<1>4. CASE LeaveLoop(p, TRUE) \/ UNCHANGED <<pc, cur>> \/ Aim(p, v, "move")
  <2>1. pc'[p] \notin {"insert", "tag"}
    BY <1>0, <1>4 DEF LeaveLoop, Aim, Goto
  <2> QED
    BY <1>0, <1>2, <1>3, <2>1, OtherBooks
<1>5. CASE ~Skipped(v) /\ ~HasInserted(v) /\ Aim(p, v, "insert")
  <2>1. pc'[p] = "insert" /\ cur'[p] = v
    BY <1>0, <1>5 DEF Aim, Goto
  <2>2. Open(v)'
    BY <1>3, <1>5 DEF Open, Skipped, HasInserted, InInbox, Quarantine
  <2> QED
    BY <1>0, <1>2, <1>3, <2>1, <2>2 DEF Books, Senders, Taggers
<1> QED
  BY <1>1, <1>4, <1>5

(* A crash is a fault, which pays for a copy that was never marked.         *)
LEMMA CrashBooks ==
    ASSUME TypeOK, NEW p \in Proc, NEW u \in Uid, Crash(p) PROVE Books(p, u)
<1>1. /\ pc'[p] = "idle" /\ copies' = copies /\ faults' = faults + 1
      /\ faults \in Nat /\ copies[u] \in Nat
  BY DEF Crash, Finish, Aim, Goto, TypeOK, WorldTypeOK, ChanceTypeOK, StepTypeOK
<1>2. p \notin Senders(u)' /\ p \notin Taggers(u)' /\ (p \in Taggers(u) => p \notin Senders(u))
  BY <1>1 DEF Senders, Taggers
<1> QED
  BY <1>1, <1>2 DEF Books

(* Where the runs are that are neither before the insert nor the tag.       *)
Elsewhere(p) ==
    pc[p] \notin {"insert", "tag"} /\ pc'[p] \notin {"insert", "tag"}

(* The ends of a run, and of its work on a message, lead elsewhere.         *)
LEMMA FinishElsewhere ==
    ASSUME TypeOK, NEW p \in Proc, NEW err,
           Finish(p, err) \/ LeaveLoop(p, err) \/ Done(p) \/ Abort(p)
    PROVE  pc'[p] \notin {"insert", "tag"}
BY FinishAlone, LeaveLoopAlone, DoneAlone, AbortAlone DEF Still

(* Every step but these three leaves a run there.                           *)
LEMMA StepElsewhere ==
    ASSUME TypeOK, NEW p \in Proc, Step(p), ~Fetch(p), ~Insert(p), ~Tag(p)
    PROVE  Elsewhere(p) /\ copies' = copies /\ faults <= faults' /\ faults' \in Nat
<1>0. /\ pc \in [Proc -> Location] /\ faults \in Nat
  BY DEF TypeOK, ChanceTypeOK, StepTypeOK
<1>1. CASE Connect(p)
  <2>1. Elsewhere(p) /\ copies' = copies /\ faults <= faults' /\ faults' \in Nat
    BY <1>0, <1>1 DEF Connect, Goto, Elsewhere
  <2> QED
    BY <2>1, <1>0
<1>2. CASE EnsureLabel(p)
  <2>1. Elsewhere(p) /\ copies' = copies /\ faults <= faults' /\ faults' \in Nat
    <3>1. /\ pc[p] = "label" /\ copies' = copies
          /\ faults' = faults \/ faults' = faults + 1
          /\ Finish(p, TRUE) \/ \E l \in {"list", "create"} : Goto(p, l)
      BY <1>2 DEF EnsureLabel
    <3>2. pc'[p] \notin {"insert", "tag"}
      BY <1>0, <3>1, FinishElsewhere DEF Goto
    <3> QED
      BY <1>0, <3>1, <3>2 DEF Elsewhere
  <2> QED
    BY <2>1, <1>0
<1>3. CASE CreateLabel(p)
  <2>1. Elsewhere(p) /\ copies' = copies /\ faults <= faults' /\ faults' \in Nat
    <3>1. /\ pc[p] = "create" /\ copies' = copies
          /\ faults' = faults \/ faults' = faults + 1
          /\ Finish(p, TRUE) \/ Goto(p, "list")
      BY <1>3 DEF CreateLabel
    <3>2. pc'[p] \notin {"insert", "tag"}
      BY <1>0, <3>1, FinishElsewhere DEF Goto
    <3> QED
      BY <1>0, <3>1, <3>2 DEF Elsewhere
  <2> QED
    BY <2>1, <1>0
<1>4. CASE List(p)
  <2>1. Elsewhere(p) /\ copies' = copies /\ faults <= faults' /\ faults' \in Nat
    <3>1. PICK ending \in {"ok", "refused"} :
             Command(p, ending) /\ (Goto(p, "next") \/ Finish(p, TRUE))
      BY <1>4 DEF List
    <3>2. pc'[p] \notin {"insert", "tag"}
      BY <1>0, <3>1, FinishElsewhere DEF Goto
    <3> QED
      BY <1>4, <3>1, <3>2, CommandCosts DEF List, Elsewhere
  <2> QED
    BY <2>1, <1>0
<1>5. CASE EndOfList(p)
  <2>1. Elsewhere(p) /\ copies' = copies /\ faults' = faults
    <3>1. pc[p] = "next" /\ LeaveLoop(p, FALSE) /\ UNCHANGED env
      BY <1>5 DEF EndOfList
    <3> QED
      BY <3>1, FinishElsewhere DEF Elsewhere, env
  <2> QED
    BY <2>1, <1>0
<1>7. CASE Mark(p)
  <2>1. Elsewhere(p) /\ copies' = copies /\ faults <= faults' /\ faults' \in Nat
    BY <1>0, <1>7, FinishElsewhere, CommandCosts DEF Mark, Goto, Elsewhere
  <2> QED
    BY <2>1, <1>0
<1>8. CASE Move(p)
  <2>1. Elsewhere(p) /\ copies' = copies /\ faults <= faults' /\ faults' \in Nat
    BY <1>0, <1>8, FinishElsewhere, CommandCosts DEF Move, Goto, Elsewhere
  <2> QED
    BY <2>1, <1>0
<1>9. CASE Delete(p)
  <2>1. Elsewhere(p) /\ copies' = copies /\ faults <= faults' /\ faults' \in Nat
    BY <1>0, <1>9, FinishElsewhere, CommandCosts DEF Delete, Goto, Elsewhere
  <2> QED
    BY <2>1, <1>0
<1>10. CASE Expunge(p)
  <2>1. Elsewhere(p) /\ copies' = copies /\ faults <= faults' /\ faults' \in Nat
    BY <1>0, <1>10, FinishElsewhere, CommandCosts DEF Expunge, Elsewhere
  <2> QED
    BY <2>1, <1>0
<1>11. CASE Settle(p)
  <2>1. pc[p] = "settle" /\ pc'[p] = QuarantineStart /\ copies' = copies /\ faults' = faults
    BY <1>0, <1>11 DEF Settle, Aim, Goto, env
  <2> QED
    BY <2>1, <1>0 DEF Elsewhere, QuarantineStart
<1>12. CASE Close(p)
  <2>1. Elsewhere(p) /\ copies' = copies /\ faults' = faults
    BY <1>12, FinishElsewhere DEF Close, Elsewhere, env
  <2> QED
    BY <2>1, <1>0
<1> QED
  BY <1>1, <1>2, <1>3, <1>4, <1>5, <1>7, <1>8, <1>9, <1>10, <1>11, <1>12 DEF Step

(* Every step of a run keeps its books.                                     *)
LEMMA StepBooks ==
    ASSUME TypeOK, LinkUp, NEW p \in Proc, NEW u \in Uid, Step(p) \/ Crash(p)
    PROVE  Books(p, u)
<1>1. CASE Fetch(p) \/ Insert(p) \/ Tag(p) \/ Crash(p)
  BY <1>1, FetchBooks, InsertBooks, TagBooks, CrashBooks
<1>2. CASE Step(p) /\ ~Fetch(p) /\ ~Insert(p) /\ ~Tag(p)
  <2>1. Elsewhere(p) /\ copies' = copies /\ faults <= faults' /\ faults' \in Nat
    BY <1>2, StepElsewhere
  <2> QED
    BY <2>1, OtherBooks DEF Elsewhere
<1> QED
  BY <1>1, <1>2

---------------------------------------------------------------------------
(* What is not going to be sent any more is never sent again, except for    *)
(* mail that has just arrived.                                              *)
LEMMA FlagFades ==
    ASSUME TypeOK, NEW u \in Uid, NEW v \in Uid, NEW f, NEW ending,
           AddFlag(v, f, ending), place' = place, Open(u)'
    PROVE  Open(u)
BY DEF TypeOK, WorldTypeOK, AddFlag, Open, InInbox

(* No move, copy or expunge makes a message one that will be sent.          *)
LEMMA RelocateFades ==
    ASSUME TypeOK, NEW u \in Uid, NEW v \in Uid, NEW f \in Folder, NEW ending, flags' = flags,
           \/ place' = place \/ MoveMessage(v, f, ending)
           \/ CopyMessage(v, f, ending) \/ UidExpunge(v, ending),
           Open(u)'
    PROVE  Open(u)
<1>1. "INBOX" \notin Folder
  BY DEF Folder
<1> QED
  BY <1>1 DEF TypeOK, WorldTypeOK, MoveMessage, CopyMessage, UidExpunge, Open, InInbox

(* No step of a run makes a message one that will be sent.                  *)
LEMMA OpenFades ==
    ASSUME TypeOK, NEW u \in Uid, NEW p \in Proc, Step(p) \/ Crash(p), Open(u)' PROVE Open(u)
<1>0. (pc[p] \in Working => cur[p] \in Uid) /\ dest[p] \in Folder
  BY DEF TypeOK, StepTypeOK
<1>1. CASE UNCHANGED <<place, flags>>
  BY <1>1 DEF Open, InInbox
<1>2. CASE Tag(p)
  BY <1>0, <1>2, FlagFades DEF Tag, Working
<1>3. CASE Mark(p)
  BY <1>0, <1>3, FlagFades DEF Mark, Working
<1>4. CASE Delete(p)
  BY <1>0, <1>4, FlagFades DEF Delete, Working
<1>5. CASE Move(p)
  BY <1>0, <1>5, RelocateFades DEF Move, Working
<1>6. CASE Expunge(p)
  BY <1>0, <1>6, RelocateFades DEF Expunge, Working
<1>7. CASE \/ Connect(p) \/ EnsureLabel(p) \/ CreateLabel(p) \/ List(p) \/ EndOfList(p)
           \/ Fetch(p) \/ Insert(p) \/ Settle(p) \/ Close(p) \/ Crash(p)
  BY <1>7, <1>1 DEF Connect, EnsureLabel, CreateLabel, List, EndOfList, Fetch, Insert,
                    Settle, Close, Crash, env
<1> QED
  BY <1>2, <1>3, <1>4, <1>5, <1>6, <1>7 DEF Step

---------------------------------------------------------------------------
(* Two sets that differ in one element only.                                *)
LEMMA OneMoreOrLess ==
    ASSUME NEW X, NEW Y, NEW x, IsFiniteSet(X), IsFiniteSet(Y), X \ {x} = Y \ {x}
    PROVE  /\ Cardinality(X) \in Nat /\ Cardinality(Y) \in Nat
           /\ (x \in X <=> x \in Y) => Cardinality(Y) = Cardinality(X)
           /\ x \in X /\ x \notin Y => Cardinality(Y) = Cardinality(X) - 1
           /\ x \notin X /\ x \in Y => Cardinality(Y) = Cardinality(X) + 1
<1>1. Cardinality(X) \in Nat /\ Cardinality(Y) \in Nat
  BY FS_CardinalityType
<1>2. Cardinality(X \ {x}) = IF x \in X THEN Cardinality(X) - 1 ELSE Cardinality(X)
  BY FS_RemoveElement
<1>3. Cardinality(Y \ {x}) = IF x \in Y THEN Cardinality(Y) - 1 ELSE Cardinality(Y)
  BY FS_RemoveElement
<1>4. (IF x \in X THEN Cardinality(X) - 1 ELSE Cardinality(X))
        = (IF x \in Y THEN Cardinality(Y) - 1 ELSE Cardinality(Y))
  BY <1>2, <1>3
<1> QED
  BY <1>1, <1>4

(* What a step does to the runs it is not about.                            *)
Unmoved(p) == (pc'[p] = pc[p] /\ cur'[p] = cur[p]) \/ Elsewhere(p)

(* A step of p keeps the account of every message.                          *)
LEMMA LedgerStep ==
    ASSUME IsFiniteSet(Proc), NEW cap \in Nat, TypeOK, Ledger(cap), Crowd(cap)',
           NEW p \in Proc, \A q \in Proc \ {p} : Unmoved(q),
           \A u \in Uid : Books(p, u) /\ (Open(u)' => Open(u)), faults' \in Nat, copies' \in [Uid -> Nat]
    PROVE  Ledger(cap)'
<1> SUFFICES ASSUME NEW u \in Uid
             PROVE  /\ Open(u)' => copies'[u] <= faults' + Cardinality(Taggers(u)')
                    /\ copies'[u] + Cardinality(Senders(u)') <= faults' + cap
  BY DEF Ledger
<1> DEFINE s == Cardinality(Senders(u))
           t == Cardinality(Taggers(u))
           s1 == Cardinality(Senders(u)')
           t1 == Cardinality(Taggers(u)')
<1>1. /\ Senders(u) \in SUBSET Proc /\ Taggers(u) \in SUBSET Proc
      /\ Senders(u)' \in SUBSET Proc /\ Taggers(u)' \in SUBSET Proc
  BY DEF Senders, Taggers
<1>2. /\ IsFiniteSet(Senders(u)) /\ IsFiniteSet(Taggers(u))
      /\ IsFiniteSet(Senders(u)') /\ IsFiniteSet(Taggers(u)')
  BY <1>1, FS_Subset
<1>3. /\ Senders(u) \ {p} = Senders(u)' \ {p}
      /\ Taggers(u) \ {p} = Taggers(u)' \ {p}
  BY DEF Senders, Taggers, Unmoved, Elsewhere
<1>4. /\ s \in Nat /\ s1 \in Nat
      /\ (p \in Senders(u) <=> p \in Senders(u)') => s1 = s
      /\ p \in Senders(u) /\ p \notin Senders(u)' => s1 = s - 1
      /\ p \notin Senders(u) /\ p \in Senders(u)' => s1 = s + 1
  BY <1>2, <1>3, OneMoreOrLess
<1>5. /\ t \in Nat /\ t1 \in Nat
      /\ (p \in Taggers(u) <=> p \in Taggers(u)') => t1 = t
      /\ p \in Taggers(u) /\ p \notin Taggers(u)' => t1 = t - 1
      /\ p \notin Taggers(u) /\ p \in Taggers(u)' => t1 = t + 1
  BY <1>2, <1>3, OneMoreOrLess
<1>6. s1 + t1 <= cap
  <2>1. Senders(u)' \cap Taggers(u)' = {}
    BY DEF Senders, Taggers
  <2>2. Cardinality(Senders(u)' \cap Taggers(u)') = 0
    BY <2>1, FS_EmptySet
  <2>3. Cardinality(Senders(u)' \union Taggers(u)')
           = s1 + t1 - Cardinality(Senders(u)' \cap Taggers(u)')
    BY <1>2, FS_Union
  <2>4. Cardinality(Senders(u)' \union Taggers(u)') <= cap
    BY DEF Crowd
  <2> QED
    BY <1>4, <1>5, <2>2, <2>3, <2>4
<1>7. /\ Open(u) => copies[u] <= faults + t
      /\ copies[u] + s <= faults + cap
      /\ copies[u] \in Nat /\ copies'[u] \in Nat /\ faults \in Nat
      /\ Open(u)' => Open(u)
  BY DEF Ledger, TypeOK, WorldTypeOK, ChanceTypeOK
<1>8. \/ /\ s1 = s - 1 /\ t1 = t + 1
         /\ copies'[u] + faults <= copies[u] + faults' + 1
      \/ /\ t1 = t - 1 /\ s1 = s
         /\ copies'[u] = copies[u] /\ faults <= faults'
         /\ Open(u)' => faults < faults'
      \/ /\ s1 = s + 1 /\ t1 = t
         /\ copies'[u] = copies[u] /\ faults <= faults'
         /\ Open(u)'
      \/ /\ s1 = s \/ s1 = s - 1
         /\ t1 = t
         /\ copies'[u] + faults <= copies[u] + faults'
  BY <1>4, <1>5 DEF Books
<1> HIDE DEF s, t, s1, t1
<1>9. /\ Open(u)' => copies'[u] <= faults' + t1
      /\ copies'[u] + s1 <= faults' + cap
  BY <1>4, <1>5, <1>6, <1>7, <1>8
<1> QED
  BY <1>9 DEF s1, t1

(* A step that sends, marks and fetches nothing keeps it as well.           *)
LEMMA LedgerSame ==
    ASSUME IsFiniteSet(Proc), NEW cap \in Nat, TypeOK, Ledger(cap),
           copies' = copies, faults <= faults', faults' \in Nat,
           \A p \in Proc : Unmoved(p),
           \A u \in Uid : Open(u)' => Open(u) \/ copies[u] = 0
    PROVE  Ledger(cap)'
<1> SUFFICES ASSUME NEW u \in Uid
             PROVE  /\ Open(u)' => copies'[u] <= faults' + Cardinality(Taggers(u)')
                    /\ copies'[u] + Cardinality(Senders(u)') <= faults' + cap
  BY DEF Ledger
<1>1. Taggers(u)' = Taggers(u) /\ Senders(u)' = Senders(u)
  BY DEF Taggers, Senders, Unmoved, Elsewhere
<1>2. faults \in Nat /\ copies[u] \in Nat
  BY DEF TypeOK, ChanceTypeOK, WorldTypeOK
<1>3. Cardinality(Taggers(u)) \in Nat /\ Cardinality(Senders(u)) \in Nat
  <2>1. Taggers(u) \in SUBSET Proc /\ Senders(u) \in SUBSET Proc
    BY DEF Taggers, Senders
  <2> QED
    BY <2>1, FS_Subset, FS_CardinalityType
<1> QED
  BY <1>1, <1>2, <1>3 DEF Ledger

---------------------------------------------------------------------------
(* The session of a run that is about to insert or to tag works.            *)
LEMMA LinkStep ==
    ASSUME TypeOK, LinkUp, NEW p \in Proc, Step(p) \/ Crash(p) PROVE LinkUp'
<1>0. pc \in [Proc -> Location] /\ link \in [Proc -> BOOLEAN]
  BY DEF TypeOK, ChanceTypeOK, StepTypeOK
<1>1. \A q \in Proc \ {p} : pc'[q] = pc[q] /\ link'[q] = link[q]
  <2>1. \A q \in Proc \ {p} : pc'[q] = pc[q]
    BY StepAlone DEF Alone
  <2>2. link' = link \/ \E up : link' = [link EXCEPT ![p] = up]
    BY DEF Step, Connect, EnsureLabel, CreateLabel, List, EndOfList, Fetch, FetchEnds, Insert,
           Tag, Mark, Move, Delete, Expunge, Settle, Close, Crash, Command
  <2> QED
    BY <1>0, <2>1, <2>2
<1>2. pc'[p] \in {"insert", "tag"} => link'[p]
  <2>1. CASE Fetch(p)
    BY <1>0, <2>1 DEF Fetch, FetchEnds, Command, LeaveLoop, Aim, Goto
  <2>2. CASE Insert(p)
    BY <1>0, <2>2 DEF Insert, LinkUp
  <2>3. CASE Tag(p)
    BY <1>0, <2>3 DEF Tag, Goto, QuarantineStart
  <2>4. CASE Crash(p)
    BY <1>0, <2>4, FinishElsewhere DEF Crash
  <2>5. CASE Step(p) /\ ~Fetch(p) /\ ~Insert(p) /\ ~Tag(p)
    BY <2>5, StepElsewhere DEF Elsewhere
  <2> QED
    BY <2>1, <2>2, <2>3, <2>4, <2>5
<1> QED
  BY <1>1, <1>2 DEF LinkUp

(* Only mail that has arrived is ever sent.                                 *)
LEMMA UnbornStep ==
    ASSUME Safe, Unborn, Safekept, NEW p \in Proc, Step(p) \/ Crash(p) PROVE Unborn'
<1>1. \A u \in Uid : ~Arrived(u)' => ~Arrived(u)
  BY DEF Safekept
<1>2. CASE copies' = copies
  BY <1>1, <1>2 DEF Unborn
<1>3. CASE Insert(p)
  <2>1. cur[p] \in Uid /\ Arrived(cur[p])
    BY <1>3 DEF Safe, Custody, WorkIsKept, Insert, Working, TypeOK, StepTypeOK
  <2>2. \A u \in Uid \ {cur[p]} : copies'[u] = copies[u]
    BY <1>3 DEF Insert, InsertRaw, Safe, TypeOK, WorldTypeOK
  <2> QED
    BY <1>1, <2>1, <2>2 DEF Unborn
<1>4. CASE Fetch(p) \/ Tag(p) \/ Crash(p)
  BY <1>4, <1>2 DEF Fetch, Tag, Crash
<1>5. CASE Step(p) /\ ~Fetch(p) /\ ~Insert(p) /\ ~Tag(p)
  BY <1>5, <1>2, StepElsewhere DEF Safe
<1> QED
  BY <1>3, <1>4, <1>5

(* What the owner and the arrival of mail do opens no message but new ones. *)
LEMMA MailOpens ==
    ASSUME TypeOK, Unborn, NewMail \/ Owner, NEW u \in Uid, Open(u)'
    PROVE  Open(u) \/ copies[u] = 0
<1>1. CASE NewMail
  <2>1. PICK v \in Uid : Arrive(v)
    BY <1>1 DEF NewMail
  <2>2. CASE u = v
    BY <2>1, <2>2 DEF Arrive, Unborn, Arrived
  <2>3. CASE u # v
    BY <2>1, <2>3 DEF Arrive, Open, InInbox, TypeOK, WorldTypeOK
  <2> QED
    BY <2>2, <2>3
<1>2. CASE Owner
  BY <1>2 DEF Owner, TakeAway, FlagDeleted, Open, InInbox, TypeOK, WorldTypeOK
<1> QED
  BY <1>1, <1>2

(* The account is kept by everything the forwarder, new mail and the owner  *)
(* do, as long as no more runs are at work on a message than "cap".         *)
LEMMA PaidNext ==
    ASSUME IsFiniteSet(Proc), NEW cap \in Nat, Paid(cap), Crowd(cap)', [Next]_vars
    PROVE  Paid(cap)'
<1> TypeOK /\ LinkUp /\ Unborn /\ Ledger(cap) /\ Safe
  BY DEF Paid, Safe
<1>1. Safe' /\ Safekept
  BY NextTypeOK, NextTruth, NextCustody DEF Safe
<1>2. faults' \in Nat /\ copies' \in [Uid -> Nat]
  BY <1>1 DEF Safe, TypeOK, ChanceTypeOK, WorldTypeOK
<1>3. ASSUME NEW p \in Proc, Step(p) \/ Crash(p) PROVE LinkUp' /\ Unborn' /\ Ledger(cap)'
  <2>1. \A q \in Proc \ {p} : Unmoved(q)
    BY <1>3, StepAlone DEF Alone, Unmoved
  <2>2. \A u \in Uid : Books(p, u) /\ (Open(u)' => Open(u))
    BY <1>3, StepBooks, OpenFades
  <2>3. Ledger(cap)'
    BY <1>2, <2>1, <2>2, LedgerStep
  <2> QED
    BY <1>1, <1>3, <2>3, LinkStep, UnbornStep
<1>4. CASE NewMail \/ Owner
  <2>1. UNCHANGED <<copies, faults, jobs>>
    BY <1>4 DEF NewMail, Owner
  <2>2. Ledger(cap)'
    <3>1. \A u \in Uid : Open(u)' => Open(u) \/ copies[u] = 0
      BY <1>4, MailOpens
    <3>2. copies' = copies /\ faults' = faults /\ pc' = pc /\ cur' = cur
      BY <2>1 DEF jobs
    <3>3. faults <= faults'
      BY <1>2, <3>2
    <3>4. \A p \in Proc : Unmoved(p)
      BY <3>2 DEF Unmoved
    <3> QED
      BY <1>2, <3>1, <3>2, <3>3, <3>4, LedgerSame
  <2>3. LinkUp'
    BY <2>1 DEF LinkUp, jobs
  <2>4. Unborn'
    BY <1>1, <2>1 DEF Unborn, Safekept
  <2> QED
    BY <1>1, <2>2, <2>3, <2>4 DEF Paid
<1>5. CASE UNCHANGED vars
  <2>1. UNCHANGED <<place, flags, copies, faults, pc, cur, link>>
    BY <1>5 DEF vars, env, jobs
  <2>2. LinkUp' /\ Unborn'
    BY <2>1 DEF LinkUp, Unborn, Arrived
  <2>3. Ledger(cap)'
    BY <2>1 DEF Ledger, Open, InInbox, Taggers, Senders
  <2> QED
    BY <1>1, <2>2, <2>3 DEF Paid
<1> QED
  BY <1>1, <1>3, <1>4, <1>5 DEF Next, Paid

(* Nothing is owed at first.                                                *)
LEMMA InitPaid ==
    ASSUME NEW cap \in Nat, Init PROVE Paid(cap)
<1>1. LinkUp
  BY DEF Init, LinkUp
<1>2. Unborn
  BY DEF Init, GmailInit, Unborn
<1>3. Ledger(cap)
  <2> SUFFICES ASSUME NEW u \in Uid
               PROVE  /\ copies[u] <= faults + Cardinality(Taggers(u))
                      /\ copies[u] + Cardinality(Senders(u)) <= faults + cap
    BY DEF Ledger
  <2>1. Taggers(u) = {} /\ Senders(u) = {}
    BY DEF Init, Taggers, Senders
  <2>2. Cardinality(Taggers(u)) = 0 /\ Cardinality(Senders(u)) = 0
    BY <2>1, FS_EmptySet
  <2>3. faults = 0 /\ copies[u] = 0
    BY DEF Init, GmailInit
  <2> QED
    BY <2>2, <2>3
<1>4. Safe
  BY InitTypeOK, InitSafe DEF Safe
<1> QED
  BY <1>1, <1>2, <1>3, <1>4 DEF Paid

(* The account bounds the copies.                                           *)
LEMMA PaidBounds ==
    ASSUME IsFiniteSet(Proc), NEW cap \in Nat, Paid(cap), NEW u \in Uid
    PROVE  copies[u] <= cap + faults
<1>1. Senders(u) \in SUBSET Proc
  BY DEF Senders
<1>2. Cardinality(Senders(u)) \in Nat
  BY <1>1, FS_Subset, FS_CardinalityType
<1>3. copies[u] \in Nat /\ faults \in Nat /\ copies[u] + Cardinality(Senders(u)) <= faults + cap
  BY DEF Paid, Ledger, Safe, TypeOK, WorldTypeOK, ChanceTypeOK
<1> QED
  BY <1>2, <1>3

(* The runs at work on a message are never more than the processes.         *)
LEMMA ProcCrowd == ASSUME IsFiniteSet(Proc) PROVE Crowd(Cardinality(Proc))'
<1>1. \A u \in Uid : (Senders(u)' \union Taggers(u)') \in SUBSET Proc
  BY DEF Senders, Taggers
<1> QED
  BY <1>1, FS_Subset DEF Crowd

(* Gmail never holds more copies of a message than processes that may       *)
(* overlap plus faults that happened, whatever the processes do.            *)
THEOREM ForwarderPaysDuplicates ==
    ASSUME IsFiniteSet(Proc) PROVE Spec => []DuplicatesArePaid
<1> DEFINE cap == Cardinality(Proc)
<1>0. cap \in Nat
  BY FS_CardinalityType
<1>2. Crowd(cap)'
  BY ProcCrowd
<1> HIDE DEF cap
<1>3. Init => Paid(cap)
  BY <1>0, InitPaid
<1>4. Paid(cap) /\ [Next]_vars => Paid(cap)'
  BY <1>0, <1>2, PaidNext
<1>5. Paid(cap) => DuplicatesArePaid
  BY <1>0, PaidBounds DEF cap, DuplicatesArePaid
<1> QED
  BY <1>3, <1>4, <1>5, PTL DEF Spec

---------------------------------------------------------------------------
(* One run at a time.                                                       *)
Lone == \A p, q \in Proc : pc[p] # "idle" /\ pc[q] # "idle" => p = q

Keywords == {"inserted", "failed", "unverified"}

(* What a run is about to send carries no keyword.  It saw none when it     *)
(* fetched the message, and nobody but another run could set one since.     *)
Unmarked == \A p \in Proc : pc[p] = "insert" => flags[cur[p]] \intersect Keywords = {}

(* A run comes to the insert only by a fetch that finds no keyword.         *)
LEMMA FetchUnmarked ==
    ASSUME TypeOK, NEW p \in Proc, Fetch(p), pc'[p] = "insert"
    PROVE  flags'[cur'[p]] \intersect Keywords = {}
<1>0. pc[p] = "next" /\ pc \in [Proc -> Location] /\ cur \in [Proc -> Uid \union {NoUid}]
  BY DEF Fetch, TypeOK, StepTypeOK
<1>1. PICK v \in Uid :
         \/ LeaveLoop(p, TRUE)
         \/ UNCHANGED <<pc, cur>>
         \/ ~Skipped(v) /\ ~HasInserted(v) /\ Aim(p, v, "insert")
         \/ Aim(p, v, "move")
  BY DEF Fetch
<1>2. ~Skipped(v) /\ ~HasInserted(v) /\ Aim(p, v, "insert")
  BY <1>0, <1>1 DEF LeaveLoop, Aim, Goto
<1>3. cur'[p] = v /\ flags' = flags
  BY <1>0, <1>2 DEF Fetch, Aim
<1> QED
  BY <1>2, <1>3 DEF Skipped, HasInserted, Quarantine, Keywords

(* A step of one run sets no keyword on what another is about to send,      *)
(* there being no other.                                                    *)
LEMMA UnmarkedStep ==
    ASSUME TypeOK, Lone, Unmarked, NEW p \in Proc, Step(p) \/ Crash(p) PROVE Unmarked'
<1> SUFFICES ASSUME NEW q \in Proc, pc'[q] = "insert"
             PROVE  flags'[cur'[q]] \intersect Keywords = {}
  BY DEF Unmarked
<1>0. pc \in [Proc -> Location]
  BY DEF TypeOK, StepTypeOK
<1>1. CASE q # p
  <2>1. pc[q] = "insert" /\ cur'[q] = cur[q]
    BY <1>1, StepAlone DEF Alone
  <2>2. pc[p] = "idle"
    BY <1>1, <2>1 DEF Lone
  <2>3. Connect(p)
    BY <2>2 DEF Step, Connect, EnsureLabel, CreateLabel, List, EndOfList, Fetch, Insert,
                Tag, Mark, Move, Delete, Expunge, Settle, Close, Crash
  <2> QED
    BY <2>1, <2>3 DEF Connect, Unmarked
<1>2. CASE q = p
  <2>1. CASE Fetch(p)
    BY <1>2, <2>1, FetchUnmarked
  <2>2. CASE Insert(p)
    BY <1>0, <1>2, <2>2 DEF Insert, LeaveLoop, Aim, Goto
  <2>3. CASE Tag(p)
    BY <1>0, <1>2, <2>3 DEF Tag, Goto, QuarantineStart
  <2>4. CASE Crash(p)
    BY <1>2, <2>4, FinishElsewhere DEF Crash
  <2>5. CASE Step(p) /\ ~Fetch(p) /\ ~Insert(p) /\ ~Tag(p)
    BY <1>2, <2>5, StepElsewhere DEF Elsewhere
  <2> QED
    BY <2>1, <2>2, <2>3, <2>4, <2>5
<1> QED
  BY <1>1, <1>2

(* Neither new mail nor the owner sets a keyword.                           *)
LEMMA MailUnmarked ==
    ASSUME TypeOK, Unmarked, NewMail \/ Owner PROVE Unmarked'
<1>1. pc' = pc /\ cur' = cur
  BY DEF NewMail, Owner, jobs
<1>2. \A u \in Uid : flags'[u] \intersect Keywords = flags[u] \intersect Keywords
  BY DEF NewMail, Owner, Arrive, TakeAway, FlagDeleted, TypeOK, WorldTypeOK, Keywords
<1>3. \A p \in Proc : pc[p] = "insert" => cur[p] \in Uid
  BY DEF TypeOK, StepTypeOK, Working
<1> QED
  BY <1>1, <1>2, <1>3 DEF Unmarked

(* Every step of the forwarder, one run at a time.                          *)
LEMMA UnmarkedNext == TypeOK /\ Lone /\ Unmarked /\ [Next]_vars => Unmarked'
<1> SUFFICES ASSUME TypeOK, Lone, Unmarked, [Next]_vars PROVE Unmarked'
  OBVIOUS
<1>1. CASE UNCHANGED vars
  BY <1>1 DEF vars, env, jobs, Unmarked
<1> QED
  BY <1>1, UnmarkedStep, MailUnmarked DEF Next

(* What NeverResent forbids.                                                *)
SendsUnmarked ==
    \A u \in Uid : copies'[u] > copies[u]
                   => flags[u] \intersect {"inserted", "failed", "unverified"} = {}

(* Only an insert adds a copy.                                              *)
LEMMA SendingStep == TypeOK /\ Unmarked /\ [Next]_vars => SendsUnmarked
<1> SUFFICES ASSUME TypeOK, Unmarked, [Next]_vars PROVE SendsUnmarked
  OBVIOUS
<1>0. copies \in [Uid -> Nat]
  BY DEF TypeOK, WorldTypeOK
<1>1. CASE copies' = copies
  BY <1>0, <1>1 DEF SendsUnmarked
<1>2. ASSUME NEW p \in Proc, Insert(p) PROVE SendsUnmarked
  <2>1. pc[p] = "insert" /\ \A u \in Uid \ {cur[p]} : copies'[u] = copies[u]
    BY <1>0, <1>2 DEF Insert, InsertRaw
  <2>2. \A u \in Uid \ {cur[p]} : ~ (copies'[u] > copies[u])
    BY <1>0, <2>1
  <2> QED
    BY <2>1, <2>2 DEF SendsUnmarked, Unmarked, Keywords
<1>3. ASSUME NEW p \in Proc, Step(p) \/ Crash(p), ~Insert(p) PROVE copies' = copies
  BY <1>3, StepElsewhere DEF Fetch, Tag, Crash
<1>4. CASE NewMail \/ Owner
  BY <1>4, <1>1 DEF NewMail, Owner
<1>5. CASE UNCHANGED vars
  BY <1>5, <1>1 DEF vars, env
<1> QED
  BY <1>1, <1>2, <1>3, <1>4, <1>5 DEF Next

(* A single process never sends a message to Gmail again once one of the    *)
(* three keywords is on it, whatever fails and whatever SEARCH ignores.     *)
THEOREM OneProcessNeverResends ==
    ASSUME \A p, q \in Proc : p = q PROVE Spec => NeverResent
<1> DEFINE Inv == TypeOK /\ Unmarked
<1>0. Lone
  BY DEF Lone
<1>1. Init => Inv
  BY InitTypeOK DEF Init, Unmarked
<1>2. Inv /\ [Next]_vars => Inv'
  BY <1>0, NextTypeOK, UnmarkedNext
<1>3. Inv /\ [Next]_vars => [SendsUnmarked]_vars
  BY SendingStep
<1> QED
  BY <1>1, <1>2, <1>3, PTL DEF Spec, NeverResent, SendsUnmarked

=============================================================================
