----------------------- MODULE EventAttendanceProofs -----------------------
(***************************************************************************)
(* Theorems about EventAttendance, for any number of persons, workers,     *)
(* events and requests, and, after them, about the letters people and the  *)
(* site write (Letters, Notices), for any number of people and letters.    *)
(***************************************************************************)
EXTENDS EventAttendance, Notices, FiniteSetTheorems, TLAPS

(***************************************************************************)
(* Types.                                                                  *)
(***************************************************************************)

LEMMA DefaultTypes ==
  /\ NoRow \in Row
  /\ NoJob \in Job
  /\ NoJob.ev \in Events
  /\ NoJob.who \in Emails
  /\ NoQueue \in [Emails -> Row]
<1>1. NoRow \in Row BY DEF NoRow, Row, States
<1>2. (CHOOSE e \in Events : TRUE) \in Events BY ParamAssumption
<1>3. (CHOOSE p \in Emails : TRUE) \in Emails BY ParamAssumption
<1>4. NoJob \in Job BY <1>2, <1>3 DEF NoJob, Job, Wants, AllKinds
<1>5. NoJob.ev \in Events /\ NoJob.who \in Emails BY <1>2, <1>3 DEF NoJob
<1>6. NoQueue \in [Emails -> Row] BY <1>1 DEF NoQueue
<1>7. QED BY <1>1, <1>4, <1>5, <1>6

\* A finished request leaves well-typed defaults behind.
LEMMA FinishTypes ==
  ASSUME TypeOK, NEW w \in Workers, Finish(w)
  PROVE  /\ pc' \in [Workers -> Labels]
         /\ job' \in [Workers -> Job]
         /\ row' \in [Workers -> Row]
         /\ cap' \in [Workers -> [Events -> Nat]]
         /\ cur' \in [Workers -> Events]
         /\ del' \in [Workers -> Nat]
         /\ todo' \in [Workers -> SUBSET Events]
         /\ wl' \in [Workers -> [Emails -> Row]]
         /\ head' \in [Workers -> Emails]
BY DefaultTypes DEF TypeOK, Finish, Goto, Labels

\* Which requests can be at a statement that saves the requester's row: those
\* that change a state carry the state they ask for.
FlowOf(w) ==
  /\ job[w].kind \in {"attend", "confirm"} => job[w].want \in Inputs \cup {"none"}
  /\ job[w].kind = "edit" => job[w].want \in {"in", "out"}
  /\ pc[w] \in {"again", "state"} =>
       job[w].kind \in {"attend", "confirm"} /\ job[w].want # "none"
  /\ pc[w] \in {"clean", "write"} =>
       /\ job[w].kind \in {"attend", "confirm", "add", "edit", "scan", "code"}
       /\ job[w].kind \in {"attend", "confirm"} => job[w].want # "none"

Flow == \A w \in Workers : FlowOf(w)

LEMMA InitType == Init => TypeOK
<1> SUFFICES ASSUME Init PROVE TypeOK OBVIOUS
<1>1. rows \in [Events -> [Emails -> Row]] /\ maxAtt \in [Events -> Nat] BY ParamAssumption DEF Init
<1>2. asks \in [Events -> [Emails -> SUBSET Nat]] /\ now \in Nat /\ left \in Nat BY ParamAssumption DEF Init
<1>3. /\ pc \in [Workers -> Labels]
      /\ job \in [Workers -> Job]
      /\ row \in [Workers -> Row]
      /\ cur \in [Workers -> Events]
      /\ del \in [Workers -> Nat]
  BY DefaultTypes DEF Init, Labels
<1>4. /\ cap \in [Workers -> [Events -> Nat]]
      /\ todo \in [Workers -> SUBSET Events]
      /\ wl \in [Workers -> [Emails -> Row]]
      /\ head \in [Workers -> Emails]
  BY DefaultTypes DEF Init
<1>5. QED BY <1>1, <1>2, <1>3, <1>4 DEF TypeOK

LEMMA FoundType ==
  ASSUME TypeOK, NEW w \in Workers
  PROVE  Found(w) \in Row /\ job[w] \in Job /\ job[w].ev \in Events
         /\ job[w].who \in Emails /\ job[w].want \in Wants /\ job[w].code \in Nat
BY DefaultTypes DEF TypeOK, Job, Found

LEMMA NewRowType ==
  ASSUME TypeOK, NEW s \in States, NEW b \in {"user", "email"}
  PROVE  NewRow(s, b) \in Row
BY DEF TypeOK, NewRow, Row

\* Updating a copy of a row keeps it a row.
LEMMA RowFields ==
  ASSUME NEW r \in Row
  PROVE  r.id \in Nat /\ r.state \in States /\ r.at \in Nat /\ r.desk \in {"in", "out"}
BY DEF Row

LEMMA SetState ==
  ASSUME NEW r \in Row, NEW s \in States
  PROVE  [r EXCEPT !.state = s] \in Row
BY DEF Row

LEMMA SetStateAt ==
  ASSUME NEW r \in Row, NEW s \in States, NEW t \in Nat
  PROVE  [r EXCEPT !.state = s, !.at = t] \in Row
BY DEF Row

LEMMA SetDesk ==
  ASSUME NEW r \in Row, NEW d \in {"in", "out"}, NEW t \in Nat
  PROVE  [r EXCEPT !.desk = d, !.at = t] \in Row
BY DEF Row

LEMMA StartType ==
  ASSUME TypeOK, NEW w \in Workers, NEW k \in AllKinds, NEW e \in Events,
         NEW p \in Emails, NEW x \in Wants, NEW c \in Nat,
         NEW limits \in [Events -> Nat], NEW label \in Labels,
         Start(w, k, e, p, x, c, limits, label)
  PROVE  TypeOK'
BY DEF Job, TypeOK, Start, Goto

LEMMA AsksType ==
  ASSUME NEW k, NEW p, NEW x \in Asks(k, p)
  PROVE  x \in Wants
<1> USE ParamAssumption DEF Wants
<1>1. CASE k = "attend" BY <1>1 DEF Asks
<1>2. CASE k = "confirm" BY <1>2 DEF Asks
<1>3. CASE k = "edit" BY <1>3 DEF Asks
<1>4. CASE k = "add" BY <1>4 DEF Asks
<1>5. CASE k \notin {"attend", "confirm", "edit", "add"} BY <1>5 DEF Asks
<1>6. QED BY <1>1, <1>2, <1>3, <1>4, <1>5

LEMMA ArriveType ==
  ASSUME TypeOK, NEW w \in Workers, Arrive(w)
  PROVE  TypeOK'
<1>0. "get" \in Labels /\ "list" \in Labels /\ "none" \in Wants BY DEF Labels, Wants
<1>1. CASE Request(w)
  BY <1>1, AsksType, ParamAssumption, <1>0, StartType DEF Request, TypeOK
<1>2. CASE Confirm(w)
  <2>0. PICK e \in Events, p \in Emails :
               \E x \in Asks("confirm", p), c \in asks[e][p] :
                 Start(w, "confirm", e, p, x, c, maxAtt, "get")
    BY <1>2 DEF Confirm
  <2>1. PICK x \in Asks("confirm", p), c \in asks[e][p] :
               Start(w, "confirm", e, p, x, c, maxAtt, "get")
    BY <2>0
  <2>2. /\ "confirm" \in AllKinds /\ x \in Wants /\ c \in Nat
        /\ maxAtt \in [Events -> Nat]
    BY AsksType DEF TypeOK, AllKinds
  <2>3. QED BY <2>1, <2>2, <1>0, StartType
<1>3. CASE EditCapacity(w)
  <2>1. PICK e \in Events, n \in Capacities :
               Start(w, "capacity", e, NoJob.who, "none", 0, [maxAtt EXCEPT ![e] = n], "list")
    BY <1>3 DEF EditCapacity
  <2>2. [maxAtt EXCEPT ![e] = n] \in [Events -> Nat] /\ "capacity" \in AllKinds
    BY ParamAssumption DEF TypeOK, AllKinds
  <2>3. QED BY <2>1, <2>2, <1>0, StartType, DefaultTypes
<1>4. QED BY <1>1, <1>2, <1>3 DEF Arrive

LEMMA StepType ==
  ASSUME TypeOK, Flow, NEW w \in Workers, Step(w)
  PROVE  TypeOK'
<1> USE FoundType
<1>1. CASE NothingToDo(w) BY <1>1, FinishTypes DEF NothingToDo, db, TypeOK
<1>2. CASE LoadOrCreate(w)
  <2>. DEFINE r == NewRow("blank", IF job[w].kind = "attend" THEN "user" ELSE "email")
  <2>1. r \in Row BY NewRowType DEF States
  <2>2. CASE Found(w) # NoRow BY <1>2, <2>2 DEF LoadOrCreate, Goto, TypeOK, Labels
  <2>3. CASE Found(w) = NoRow
    <3>1. /\ row' = [row EXCEPT ![w] = r]
          /\ Goto(w, "write")
          /\ now' = now + 1
          /\ UNCHANGED <<rows, maxAtt, asks, left, job, cap, cur, del, todo, wl, head>>
      BY <1>2, <2>3 DEF LoadOrCreate
    <3>2. QED BY <2>1, <3>1 DEF Goto, TypeOK, Labels
  <2>4. QED BY <2>2, <2>3
<1>3. CASE LookAgain(w) BY <1>3 DEF LookAgain, Goto, TypeOK, Labels, db, local
<1>4. CASE AddByEmail(w)
  <2>1. NewRow("accept", IF job[w].who \in Accounts THEN "user" ELSE "email") \in Row BY NewRowType DEF States
  <2>2. QED BY <1>4, <2>1 DEF AddByEmail, Goto, TypeOK, Labels, SaveLabel
<1>5. CASE LoadForEdit(w)
  <2>. DEFINE j == job[w]
              d == CASE j.kind = "edit" -> j.want
                     [] j.kind = "scan" -> "in"
                     [] OTHER           -> Found(w).desk
              t == IF j.kind = "edit" THEN now + 1 ELSE Found(w).at
              s == [Found(w) EXCEPT !.desk = d, !.at = t]
  <2>1. d \in {"in", "out"} /\ t \in Nat BY RowFields DEF Flow, FlowOf, TypeOK
  <2>2. s \in Row BY <2>1, SetDesk
  <2>3. /\ row' = [row EXCEPT ![w] = s]
        /\ Goto(w, SaveLabel(j.ev, s))
        /\ now' = IF j.kind = "edit" THEN now + 1 ELSE now
        /\ UNCHANGED <<rows, maxAtt, asks, left, job, cap, cur, del, todo, wl, head>>
    BY <1>5 DEF LoadForEdit
  <2>4. QED BY <2>2, <2>3 DEF Goto, TypeOK, Labels, SaveLabel
<1>6. CASE LoadForDelete(w)
  BY <1>6 DEF Row, LoadForDelete, Goto, TypeOK, Labels, db
<1>7. CASE Refuse(w) BY <1>7, FinishTypes DEF Refuse, db, TypeOK
<1>8. CASE ChangeState(w)
  <2>. DEFINE j == job[w]
              t == IF j.kind = "attend" THEN now + 1 ELSE row[w].at
              r == [row[w] EXCEPT !.state = j.want, !.at = t]
  <2>1. j.want \in States BY <1>8, ParamAssumption DEF ChangeState, Flow, FlowOf, States
  <2>2. row[w] \in Row /\ t \in Nat BY RowFields DEF TypeOK
  <2>3. r \in Row BY <2>1, <2>2, SetStateAt
  <2>4. /\ row' = [row EXCEPT ![w] = r]
        /\ now' = IF j.kind = "attend" THEN now + 1 ELSE now
        /\ Goto(w, SaveLabel(j.ev, r))
        /\ UNCHANGED <<rows, maxAtt, asks, left, job, cap, cur, del, todo, wl, head>>
    BY <1>8 DEF ChangeState
  <2>5. QED BY <2>3, <2>4 DEF Goto, TypeOK, Labels, SaveLabel
<1>9. CASE Clean(w) BY <1>9, FinishTypes DEF Clean, Goto, db, local, TypeOK, Labels
<1>10. CASE Write(w) BY <1>10, FinishTypes DEF Write, Goto, local, TypeOK, Labels, AfterWrite
<1>11. CASE WriteConflict(w) BY <1>11, FinishTypes DEF WriteConflict, db, TypeOK
<1>12. CASE LoadChildren(w) BY <1>12, ParamAssumption DEF LoadChildren, Goto, db, TypeOK, Labels
<1>13. CASE NextChild(w)
  <2>1. PICK c \in todo[w] :
          LET r == rows[c][job[w].who]
          IN  /\ todo' = [todo EXCEPT ![w] = @ \ {c}]
              /\ IF r = NoRow
                   THEN UNCHANGED <<pc, cur, del>>
                   ELSE /\ Goto(w, "del")
                        /\ cur' = [cur EXCEPT ![w] = c]
                        /\ del' = [del EXCEPT ![w] = r.id]
    BY <1>13 DEF NextChild
  <2>2. c \in Events /\ rows[c][job[w].who].id \in Nat BY RowFields DEF TypeOK
  <2>3. todo' \in [Workers -> SUBSET Events] /\ pc' \in [Workers -> Labels] BY <2>1 DEF TypeOK, Goto, Labels
  <2>4. cur' \in [Workers -> Events] /\ del' \in [Workers -> Nat] BY <2>1, <2>2 DEF TypeOK
  <2>5. QED BY <1>13, <2>3, <2>4 DEF NextChild, TypeOK, db
<1>14. CASE ChildrenDone(w) BY <1>14 DEF ChildrenDone, Goto, db, TypeOK, Labels, Row
<1>15. CASE DeleteRow(w) BY <1>15, DefaultTypes DEF DeleteRow, Goto, TypeOK, Labels
<1>16. CASE ListWaiting(w) BY <1>16, DefaultTypes DEF ListWaiting, Goto, db, TypeOK, Labels
<1>17. CASE Offer(w) BY <1>17 DEF Offer, Goto, db, TypeOK, Labels
<1>18. CASE CleanOffer(w) BY <1>18, FinishTypes DEF CleanOffer, Goto, db, local, TypeOK, Labels
<1>19. CASE Promote(w)
  <2>1. Promoted(w) \in Row
    <3>1. wl[w][head[w]] \in Row /\ "accept" \in States BY DEF TypeOK, States
    <3>2. QED BY <3>1, SetState DEF Promoted
  <2>2. QED BY <1>19, <2>1, DefaultTypes DEF Promote, Goto, TypeOK, Labels
<1>20. CASE PromoteConflict(w) BY <1>20, FinishTypes DEF PromoteConflict, db, TypeOK
<1>21. CASE LoopEnds(w) BY <1>21, FinishTypes DEF LoopEnds, Goto, db, local, TypeOK, Labels
<1>22. CASE Forget(w) BY <1>22, FinishTypes DEF Forget, TypeOK
<1>23. CASE StoreCapacity(w) BY <1>23, FinishTypes DEF StoreCapacity, TypeOK
<1>24. CASE EditRefused(w) BY <1>24, FinishTypes DEF EditRefused, db, TypeOK
<1>25. CASE FindNoAsk(w) BY <1>25 DEF FindNoAsk, Goto, db, local, TypeOK, Labels
<1>26. CASE CreateAsk(w) BY <1>26, FinishTypes DEF CreateAsk, TypeOK
<1>27. QED BY <1>1, <1>2, <1>3, <1>4, <1>5, <1>6, <1>7, <1>8, <1>9, <1>10, <1>11, <1>12,
     <1>13, <1>14, <1>15, <1>16, <1>17, <1>18, <1>19, <1>20, <1>21, <1>22,
     <1>23, <1>24, <1>25, <1>26
  DEF Step

\* The worker that just took a request.
LEMMA FlowStart ==
  ASSUME TypeOK, Flow, NEW w \in Workers, NEW k \in AllKinds, NEW e \in Events,
         NEW p \in Emails, NEW x \in Wants, NEW c \in Nat, NEW limits,
         NEW label \in {"get", "list"},
         Start(w, k, e, p, x, c, limits, label),
         k \in {"attend", "confirm"} => x \in Inputs \cup {"none"},
         k = "edit" => x \in {"in", "out"}
  PROVE  Flow'
BY DEF Start, Goto, Flow, FlowOf, TypeOK

\* A worker that only moves on, and whose new statement may follow the old one.
LEMMA FlowGoto ==
  ASSUME TypeOK, Flow, NEW w \in Workers, NEW label, Goto(w, label), job' = job,
         label \in {"again", "state"} =>
           job[w].kind \in {"attend", "confirm"} /\ job[w].want # "none",
         label \in {"clean", "write"} =>
           /\ job[w].kind \in {"attend", "confirm", "add", "edit", "scan", "code"}
           /\ job[w].kind \in {"attend", "confirm"} => job[w].want # "none"
  PROVE  Flow'
BY DEF Flow, FlowOf, Goto, TypeOK

LEMMA FlowFinish ==
  ASSUME TypeOK, Flow, NEW w \in Workers, Finish(w)
  PROVE  Flow'
BY DEF Finish, Goto, Flow, FlowOf, TypeOK, NoJob

LEMMA ArriveFlow ==
  ASSUME TypeOK, Flow, NEW w \in Workers, Arrive(w)
  PROVE  Flow'
<1>0. "none" \in Wants BY DEF Wants
<1>1. CASE Request(w)
  BY <1>1, AsksType, ParamAssumption, FlowStart DEF Request, Asks
<1>2. CASE Confirm(w)
  <2>0. PICK e \in Events, p \in Emails :
               \E x \in Asks("confirm", p), c \in asks[e][p] :
                 Start(w, "confirm", e, p, x, c, maxAtt, "get")
    BY <1>2 DEF Confirm
  <2>1. PICK x \in Asks("confirm", p), c \in asks[e][p] :
               Start(w, "confirm", e, p, x, c, maxAtt, "get")
    BY <2>0
  <2>2. "confirm" \in AllKinds /\ x \in Wants /\ c \in Nat BY AsksType DEF TypeOK, AllKinds
  <2>3. x \in Inputs \cup {"none"} BY DEF Asks
  <2>4. QED BY <2>1, <2>2, <2>3, FlowStart
<1>3. CASE EditCapacity(w)
  BY <1>3, <1>0, FlowStart, DefaultTypes DEF EditCapacity, AllKinds
<1>4. QED BY <1>1, <1>2, <1>3 DEF Arrive

LEMMA StepFlow ==
  ASSUME TypeOK, Flow, NEW w \in Workers, Step(w)
  PROVE  Flow'
<1>0. FlowOf(w) BY DEF Flow
<1>1. CASE NothingToDo(w) \/ Refuse(w) \/ WriteConflict(w) \/ PromoteConflict(w)
           \/ Forget(w) \/ StoreCapacity(w) \/ EditRefused(w) \/ CreateAsk(w)
  BY <1>1, FlowFinish
  DEF NothingToDo, Refuse, WriteConflict, PromoteConflict, Forget,
      StoreCapacity, EditRefused, CreateAsk
<1>2. CASE LoadOrCreate(w)
  BY <1>0, <1>2, FlowGoto DEF LoadOrCreate, FlowOf
<1>3. CASE LookAgain(w)
  BY <1>3, FlowGoto DEF LookAgain, local
<1>4. CASE AddByEmail(w)
  BY <1>4, FlowGoto DEF AddByEmail, SaveLabel
<1>5. CASE LoadForEdit(w)
  BY <1>5, FlowGoto DEF LoadForEdit, SaveLabel
<1>6. CASE LoadForDelete(w)
  BY <1>6, FlowGoto DEF LoadForDelete
<1>7. CASE ChangeState(w)
  BY <1>0, <1>7, FlowGoto DEF ChangeState, SaveLabel, FlowOf
<1>8. CASE Clean(w)
  BY FlowFinish, <1>8, <1>0, FlowGoto DEF Clean, local, FlowOf
<1>9. CASE Write(w)
  <2>1. CASE Finish(w) BY <2>1, FlowFinish
  <2>2. CASE Goto(w, AfterWrite(w)) /\ UNCHANGED local
    <3>1. /\ job' = job
          /\ Goto(w, "list") \/ Goto(w, "idle")
             \/ (Goto(w, "state") /\ job[w].kind \in {"attend", "confirm"})
      BY <2>2 DEF AfterWrite, local
    <3>2. pc[w] = "write" BY <1>9 DEF Write
    <3>3. QED BY <1>0, <3>1, <3>2, FlowGoto DEF FlowOf
  <2>3. QED BY <1>9, <2>1, <2>2 DEF Write
<1>10. CASE NextChild(w)
  BY <1>10, FlowGoto DEF NextChild, Flow, FlowOf
<1>11. CASE LoadChildren(w) \/ ChildrenDone(w) \/ DeleteRow(w)
            \/ ListWaiting(w) \/ Offer(w) \/ Promote(w) \/ FindNoAsk(w)
  <2>1. job' = job /\ \E l \in {"child", "del", "list", "seat", "offer", "promote", "ask"} :
                        Goto(w, l)
    BY <1>11 DEF LoadChildren, ChildrenDone, DeleteRow, ListWaiting, Offer,
                 Promote, FindNoAsk, local
  <2>2. QED BY <2>1, FlowGoto
<1>12. CASE CleanOffer(w)
  BY <1>12, FlowFinish, FlowGoto DEF CleanOffer, local
<1>13. CASE LoopEnds(w)
  BY <1>13, FlowFinish, FlowGoto DEF LoopEnds, local
<1>14. QED
  BY <1>1, <1>2, <1>3, <1>4, <1>5, <1>6, <1>7, <1>8, <1>9, <1>10, <1>11, <1>12, <1>13
  DEF Step

\* Every variable keeps its type, whatever requests arrive, interleave or die.
THEOREM TypeCorrect == Spec => []TypeOK
<1>1. Init => TypeOK /\ Flow
  <2>1. Init => Flow BY DEF Init, Flow, FlowOf, NoJob
  <2>2. QED BY <2>1, InitType
<1>2. TypeOK /\ Flow /\ [Next]_vars => TypeOK' /\ Flow'
  <2> SUFFICES ASSUME TypeOK, Flow, [Next]_vars
               PROVE  TypeOK' /\ Flow'
    OBVIOUS
  <2>1. CASE UNCHANGED vars BY <2>1 DEF vars, TypeOK, Flow, FlowOf
  <2>2. ASSUME NEW w \in Workers, Crash(w)
        PROVE  TypeOK' /\ Flow'
    BY <2>2, FinishTypes, FlowFinish DEF Crash, db, TypeOK
  <2>3. QED BY <2>1, <2>2, ArriveType, StepType, ArriveFlow, StepFlow DEF Next
<1>3. QED BY <1>1, <1>2, PTL DEF Spec

(***************************************************************************)
(* Overbooking.  Every worker carries at most one person past is_full.     *)
(***************************************************************************)

\* Nobody adds an address by hand and no maximum is edited.
NoOrganiserEdits == Kinds \cap {"add", "capacity"} = {}

\* The row w has in memory takes, or keeps, a seat of e when w saves it.
Holding(w, e) ==
  \/ pc[w] \in {"offer", "promote"} /\ cur[w] = e
  \/ pc[w] \in {"state", "clean", "write"} /\ job[w].ev = e /\ row[w].state = "accept"

Holder(w) == IF pc[w] \in {"offer", "promote"} THEN head[w] ELSE job[w].who

Claims(e) == {Holder(w) : w \in {v \in Workers : Holding(v, e)}}

\* Those who have a seat and those who are about to get one.
Bounded(e) ==
  maxAtt[e] # 0 =>
    Cardinality(Seated(e) \cup Claims(e)) <= maxAtt[e] + Cardinality(Workers) - 1

\* Without edits a worker knows the stored maximum throughout its request.
SteadyOf(w) ==
  /\ job[w].kind \in Kinds \cup {"none"}
  /\ pc[w] # "store"
  /\ pc[w] # "idle" => \A e \in Events : cap[w][e] = maxAtt[e]

Steady == \A w \in Workers : SteadyOf(w)

LEMMA Finite ==
  ASSUME NEW S \in SUBSET Emails
  PROVE  IsFiniteSet(S) /\ Cardinality(S) \in Nat
BY ParamAssumption, FS_Subset, FS_CardinalityType

LEMMA SomeWorker == Cardinality(Workers) \in Nat /\ Cardinality(Workers) >= 1
BY ParamAssumption, FS_CardinalityType, FS_EmptySet

LEMMA ClaimsType ==
  ASSUME TypeOK, NEW e \in Events
  PROVE  Seated(e) \cup Claims(e) \in SUBSET Emails
BY FoundType DEF Seated, Claims, Holder, TypeOK

\* No more claims than workers.
LEMMA ClaimsBound ==
  ASSUME TypeOK, NEW e \in Events
  PROVE  IsFiniteSet(Claims(e)) /\ Cardinality(Claims(e)) <= Cardinality(Workers)
<1>. DEFINE H == {v \in Workers : Holding(v, e)}
            f == [v \in H |-> Holder(v)]
<1>1. IsFiniteSet(H) /\ Cardinality(H) <= Cardinality(Workers) BY ParamAssumption, FS_Subset
<1>2. f \in Surjection(H, Claims(e)) BY DEF Surjection, Claims
<1>3. IsFiniteSet(Claims(e)) /\ Cardinality(Claims(e)) <= Cardinality(H) BY <1>1, <1>2, FS_Surjection
<1>4. QED BY <1>1, <1>3, FS_CardinalityType, ParamAssumption

\* With a seat left, one claim more for every worker stays within the bound.
LEMMA FreeSeatBounds ==
  ASSUME TypeOK, NEW e \in Events,
         maxAtt[e] # 0 => Cardinality(Seated(e)) <= maxAtt[e] - 1
  PROVE  Bounded(e)
<1>1. Seated(e) \in SUBSET Emails /\ maxAtt[e] \in Nat BY DEF Seated, TypeOK
<1>2. IsFiniteSet(Seated(e)) /\ Cardinality(Seated(e)) \in Nat BY <1>1, Finite
<1>3. /\ IsFiniteSet(Claims(e))
      /\ Cardinality(Claims(e)) <= Cardinality(Workers)
      /\ Cardinality(Claims(e)) \in Nat
  BY ClaimsBound, FS_CardinalityType
<1>4. /\ Cardinality(Seated(e) \cup Claims(e))
           = Cardinality(Seated(e)) + Cardinality(Claims(e))
             - Cardinality(Seated(e) \cap Claims(e))
      /\ Cardinality(Seated(e) \cap Claims(e)) \in Nat
  BY <1>2, <1>3, FS_Union, FS_Intersection, FS_CardinalityType
<1>5. QED BY <1>1, <1>2, <1>3, <1>4, SomeWorker DEF Bounded

\* A step that seats nobody but a claimant and lets no worker claim for a
\* person without a seat or claim keeps the bound.
LEMMA NoNewClaims ==
  ASSUME TypeOK, TypeOK', NEW e \in Events, Bounded(e), maxAtt' = maxAtt,
         \A p \in Emails : rows'[e][p].state = "accept" => p \in Seated(e) \cup Claims(e),
         \A v \in Workers : Holding(v, e)' => Holder(v)' \in Seated(e) \cup Claims(e)
  PROVE  Bounded(e)'
<1>. DEFINE S == Seated(e) \cup Claims(e)
            T == (Seated(e) \cup Claims(e))'
<1>1. T \subseteq S BY DEF Seated, Claims
<1>2. S \in SUBSET Emails BY ClaimsType
<1>3. Cardinality(T) <= Cardinality(S) /\ Cardinality(S) \in Nat /\ Cardinality(T) \in Nat
  BY <1>1, <1>2, Finite, FS_Subset
<1>4. QED BY <1>3, SomeWorker DEF Bounded, TypeOK

\* A worker changes nothing another worker has in memory.
Frame(w) ==
  \A v \in Workers \ {w} :
    /\ pc'[v] = pc[v] /\ job'[v] = job[v] /\ row'[v] = row[v]
    /\ cap'[v] = cap[v] /\ cur'[v] = cur[v] /\ head'[v] = head[v]
    /\ del'[v] = del[v] /\ todo'[v] = todo[v] /\ wl'[v] = wl[v]

LEMMA FinishFrame ==
  ASSUME TypeOK, NEW w \in Workers, Finish(w)
  PROVE  Frame(w)
BY DEF Finish, Goto, Frame, TypeOK

LEMMA ArriveFrame ==
  ASSUME TypeOK, NEW w \in Workers, Arrive(w)
  PROVE  Frame(w)
BY DEF Arrive, Request, Confirm, EditCapacity, Start, Goto, Frame, TypeOK

LEMMA StepFrame ==
  ASSUME TypeOK, NEW w \in Workers, Step(w)
  PROVE  Frame(w)
<1>1. CASE NothingToDo(w) \/ Refuse(w) \/ WriteConflict(w) \/ PromoteConflict(w)
           \/ Forget(w) \/ StoreCapacity(w) \/ EditRefused(w) \/ CreateAsk(w)
  BY <1>1, FinishFrame
  DEF NothingToDo, Refuse, WriteConflict, PromoteConflict, Forget,
      StoreCapacity, EditRefused, CreateAsk
<1>2. CASE LoadOrCreate(w) \/ AddByEmail(w) \/ LoadForEdit(w) \/ ChangeState(w)
  BY <1>2 DEF LoadOrCreate, AddByEmail, LoadForEdit, ChangeState, Goto, Frame, TypeOK
<1>3. CASE LookAgain(w) \/ LoadForDelete(w) \/ FindNoAsk(w)
  BY <1>3 DEF LookAgain, LoadForDelete, FindNoAsk, local, Goto, Frame, TypeOK
<1>4. CASE Clean(w) \/ Write(w) \/ CleanOffer(w) \/ LoopEnds(w)
  <2>1. Finish(w) \/ (\E l : Goto(w, l) /\ UNCHANGED local) BY <1>4 DEF Clean, Write, CleanOffer, LoopEnds
  <2>2. QED BY <2>1, FinishFrame DEF local, Goto, Frame, TypeOK
<1>5. CASE LoadChildren(w) \/ NextChild(w) \/ ChildrenDone(w) \/ DeleteRow(w)
  BY <1>5 DEF LoadChildren, NextChild, ChildrenDone, DeleteRow, Goto, Frame, TypeOK
<1>6. CASE ListWaiting(w) \/ Offer(w) \/ Promote(w) BY <1>6 DEF ListWaiting, Offer, Promote, Goto, Frame, TypeOK
<1>7. QED BY <1>1, <1>2, <1>3, <1>4, <1>5, <1>6 DEF Step

\* Every worker but w is steady if it was.
LEMMA SteadyFrame ==
  ASSUME TypeOK, Steady, NEW w \in Workers, Frame(w), maxAtt' = maxAtt, SteadyOf(w)'
  PROVE  Steady'
BY DEF Steady, SteadyOf, Frame

LEMMA FinishSteady ==
  ASSUME TypeOK, Steady, NEW w \in Workers, Finish(w), maxAtt' = maxAtt
  PROVE  Steady'
BY FinishFrame, SteadyFrame DEF Finish, Goto, TypeOK, SteadyOf, NoJob

LEMMA ArriveSteady ==
  ASSUME NoOrganiserEdits, TypeOK, Steady, NEW w \in Workers, Arrive(w)
  PROVE  Steady' /\ maxAtt' = maxAtt
<1>1. PICK k \in Kinds, e \in Events, p \in Emails, x \in Wants, c \in Nat :
             Start(w, k, e, p, x, c, maxAtt, "get")
  BY AsksType DEF EditCapacity, NoOrganiserEdits, Request, Confirm, TypeOK, Arrive
<1>2. maxAtt' = maxAtt /\ job'[w].kind = k /\ pc'[w] = "get" /\ cap'[w] = maxAtt BY <1>1 DEF Start, Goto, TypeOK
<1>3. SteadyOf(w)' BY <1>2 DEF SteadyOf
<1>4. QED BY <1>2, <1>3, ArriveFrame, SteadyFrame

LEMMA StepSteady ==
  ASSUME NoOrganiserEdits, TypeOK, Steady, NEW w \in Workers, Step(w)
  PROVE  Steady' /\ maxAtt' = maxAtt
<1>0. SteadyOf(w) BY DEF Steady
<1>1. ~StoreCapacity(w) BY <1>0 DEF StoreCapacity, SteadyOf
<1>2. maxAtt' = maxAtt
  <2>1. CASE UNCHANGED db BY <2>1 DEF db
  <2>2. CASE LoadOrCreate(w) \/ AddByEmail(w) \/ LoadForEdit(w) \/ ChangeState(w)
             \/ Write(w) \/ DeleteRow(w) \/ Promote(w) \/ Forget(w) \/ CreateAsk(w)
    BY <2>2 DEF LoadOrCreate, AddByEmail, LoadForEdit, ChangeState, Write,
                DeleteRow, Promote, Forget, CreateAsk
  <2>3. QED
    BY <1>1, <2>1, <2>2
    DEF Step, NothingToDo, LookAgain, LoadForDelete, Refuse, Clean, WriteConflict,
        LoadChildren, NextChild, ChildrenDone, ListWaiting, Offer, CleanOffer,
        PromoteConflict, LoopEnds, EditRefused, FindNoAsk
<1>3. CASE Finish(w) BY <1>2, <1>3, FinishSteady
<1>4. CASE job'[w] = job[w] /\ cap'[w] = cap[w] /\ pc[w] # "idle" /\ pc'[w] # "store"
  <2>1. SteadyOf(w)' BY <1>0, <1>2, <1>4 DEF SteadyOf
  <2>2. QED BY <1>2, <2>1, StepFrame, SteadyFrame
<1>5. CASE LoadChildren(w) \/ DeleteRow(w)
  <2>1. /\ job'[w] = job[w] /\ pc[w] # "idle" /\ pc'[w] # "store"
        /\ \A e \in Events : cap'[w][e] \in {cap[w][e], maxAtt[e]}
    BY <1>5, FoundType DEF LoadChildren, DeleteRow, Goto, TypeOK
  <2>2. SteadyOf(w)' BY <1>0, <1>2, <2>1 DEF SteadyOf
  <2>3. QED BY <1>2, <2>2, StepFrame, SteadyFrame
<1>6. CASE LoadOrCreate(w) \/ AddByEmail(w) \/ LoadForEdit(w) \/ ChangeState(w)
  <2>1. \/ pc[w] \in {"get", "state"} \/ pc[w] = "again"
    BY <1>6 DEF LoadOrCreate, AddByEmail, LoadForEdit, ChangeState
  <2>2. /\ job' = job /\ cap' = cap
        /\ \E l \in {"state", "write", "clean"} : Goto(w, l)
    BY <1>6 DEF LoadOrCreate, AddByEmail, LoadForEdit, ChangeState, SaveLabel
  <2>3. QED BY <1>4, <2>1, <2>2 DEF Goto, TypeOK
<1>7. CASE LookAgain(w) \/ LoadForDelete(w) \/ FindNoAsk(w) \/ ChildrenDone(w)
           \/ ListWaiting(w) \/ Offer(w) \/ Promote(w)
  BY <1>4, <1>7 DEF LookAgain, LoadForDelete, FindNoAsk, ChildrenDone, ListWaiting,
                    Offer, Promote, local, Goto, TypeOK
<1>8. CASE NextChild(w) BY <1>4, <1>8 DEF NextChild, Goto, TypeOK
<1>9. CASE Clean(w) \/ Write(w) \/ CleanOffer(w) \/ LoopEnds(w)
  <2>1. pc[w] # "idle" BY <1>9 DEF Clean, Write, CleanOffer, LoopEnds
  <2>2. Finish(w) \/ (UNCHANGED local /\ \E l \in {"write", "state", "list", "idle",
                                   "promote", "child", "forget"} : Goto(w, l))
    <3>1. job[w].kind # "capacity" BY <1>0, ParamAssumption DEF SteadyOf, NoOrganiserEdits
    <3>2. QED BY <1>9, <3>1 DEF Clean, Write, AfterWrite, CleanOffer, LoopEnds
  <2>3. QED BY <1>3, <1>4, <2>1, <2>2 DEF local, Goto, TypeOK
<1>10. CASE NothingToDo(w) \/ Refuse(w) \/ WriteConflict(w) \/ PromoteConflict(w)
           \/ Forget(w) \/ EditRefused(w) \/ CreateAsk(w)
  BY <1>3, <1>10
  DEF NothingToDo, Refuse, WriteConflict, PromoteConflict, Forget, EditRefused, CreateAsk
<1>11. QED BY <1>1, <1>2, <1>5, <1>6, <1>7, <1>8, <1>9, <1>10 DEF Step

\* What one worker's step must satisfy for the bound of one event to hold.
LEMMA OneClaim ==
  ASSUME TypeOK, TypeOK', NEW w \in Workers, NEW e \in Events,
         Frame(w), Bounded(e), maxAtt' = maxAtt,
         \A p \in Emails : rows'[e][p].state = "accept" => p \in Seated(e) \cup Claims(e),
         Holding(w, e)' => Holder(w)' \in Seated(e) \cup Claims(e)
  PROVE  Bounded(e)'
BY NoNewClaims DEF Frame, Holding, Holder, Claims

\* A step that seats nobody and leaves the worker without a row to save.
LEMMA LetsGo ==
  ASSUME TypeOK, TypeOK', NEW w \in Workers, NEW e \in Events,
         Frame(w), Bounded(e), maxAtt' = maxAtt, rows' = rows,
         pc'[w] \notin {"offer", "promote", "state", "clean", "write"}
  PROVE  Bounded(e)'
BY OneClaim DEF Holding, Seated

\* The copy w took of a row that is stored claims nothing new.
LEMMA CopiesSeat ==
  ASSUME TypeOK, TypeOK', NEW w \in Workers, NEW e \in Events,
         Frame(w), Bounded(e), maxAtt' = maxAtt, rows' = rows, job' = job,
         pc'[w] \in {"state", "clean", "write"},
         row'[w].state = "accept" => rows[job[w].ev][job[w].who].state = "accept"
  PROVE  Bounded(e)'
BY FoundType, OneClaim DEF Holding, Holder, Seated

\* is_full was asked: the event has a seat left when the claim is made.
LEMMA AsksFull ==
  ASSUME TypeOK, TypeOK', NEW e \in Events, NEW limit \in Nat, limit = maxAtt[e],
         ~Full(limit, e), maxAtt' = maxAtt, rows' = rows
  PROVE  Bounded(e)'
<1>1. Seated(e)' = Seated(e) /\ Seated(e) \in SUBSET Emails BY DEF Seated
<1>2. Cardinality(Seated(e)) \in Nat BY <1>1, Finite
<1>3. maxAtt[e] # 0 => Cardinality(Seated(e)) <= maxAtt[e] - 1 BY <1>2 DEF Full, TypeOK
<1>4. (maxAtt[e] # 0 => Cardinality(Seated(e)) <= maxAtt[e] - 1)' BY <1>1, <1>3
<1>5. QED BY <1>4, FreeSeatBounds, PTL

LEMMA StepBounded ==
  ASSUME NoOrganiserEdits, TypeOK, TypeOK', Steady, NEW e \in Events, Bounded(e),
         NEW w \in Workers, Step(w)
  PROVE  Bounded(e)'
<1>0. SteadyOf(w) /\ Frame(w) /\ maxAtt' = maxAtt BY StepFrame, StepSteady DEF Steady
<1> USE <1>0
<1>1. CASE rows' = rows /\ Finish(w) BY <1>1, LetsGo DEF Finish, Goto, TypeOK
<1>2. CASE NothingToDo(w) \/ Refuse(w) \/ WriteConflict(w) \/ PromoteConflict(w)
           \/ Forget(w) \/ StoreCapacity(w) \/ EditRefused(w) \/ CreateAsk(w)
  BY <1>1, <1>2
  DEF NothingToDo, Refuse, WriteConflict, PromoteConflict, Forget, StoreCapacity,
      EditRefused, CreateAsk, db
<1>3. CASE LookAgain(w) \/ LoadForDelete(w) \/ LoadChildren(w) \/ ChildrenDone(w)
           \/ ListWaiting(w) \/ FindNoAsk(w)
  <2>1. /\ rows' = rows
        /\ \E l \in {"again", "kids", "del", "child", "seat", "ask"} : pc'[w] = l
    BY <1>3 DEF LookAgain, LoadForDelete, LoadChildren, ChildrenDone, ListWaiting,
                FindNoAsk, db, Goto, TypeOK
  <2>2. QED BY <2>1, LetsGo
<1>4. CASE NextChild(w)
  <2>1. rows' = rows /\ (pc'[w] = "del" \/ pc'[w] = "child") BY <1>4 DEF NextChild, db, Goto, TypeOK
  <2>2. QED BY <2>1, LetsGo
<1>5. CASE LoopEnds(w)
  <2>1. rows' = rows /\ \E l \in {"child", "forget", "store", "idle"} : pc'[w] = l
    BY <1>5 DEF LoopEnds, db, Goto, Finish, TypeOK
  <2>2. QED BY <2>1, LetsGo
<1>6. CASE AddByEmail(w) BY <1>6 DEF AddByEmail, SteadyOf, NoOrganiserEdits
<1>7. CASE LoadOrCreate(w)
  <2>1. rows' = rows /\ job' = job /\ pc'[w] \in {"state", "write"} BY <1>7 DEF LoadOrCreate, Goto, TypeOK
  <2>2. row'[w].state = "accept" => rows[job[w].ev][job[w].who].state = "accept"
    BY <1>7 DEF LoadOrCreate, TypeOK, Found, NewRow, NoRow
  <2>3. QED BY <2>1, <2>2, CopiesSeat
<1>8. CASE LoadForEdit(w)
  <2>1. rows' = rows /\ job' = job /\ pc'[w] \in {"clean", "write"} BY <1>8 DEF LoadForEdit, SaveLabel, Goto, TypeOK
  <2>2. row'[w].state = Found(w).state BY <1>8, FoundType DEF LoadForEdit, TypeOK, Row
  <2>3. row'[w].state = "accept" => rows[job[w].ev][job[w].who].state = "accept" BY <2>2 DEF Found, NoRow
  <2>4. QED BY <2>1, <2>3, CopiesSeat
<1>9. CASE ChangeState(w)
  <2>1. /\ rows' = rows /\ job' = job /\ pc'[w] \in {"clean", "write"}
        /\ pc[w] = "state"
    BY <1>9 DEF ChangeState, SaveLabel, Goto, TypeOK
  <2>2. row'[w].state = job[w].want BY <1>9, FoundType DEF ChangeState, TypeOK, Row
  <2>3. \A p \in Emails : rows'[e][p].state = "accept" => p \in Seated(e) BY <2>1 DEF Seated
  <2>4. CASE job[w].want # "accept" \/ job[w].ev # e
    <3>1. ~Holding(w, e)' BY <2>1, <2>2, <2>4 DEF Holding
    <3>2. QED BY <2>3, <3>1, OneClaim
  <2>5. CASE row[w].state = "accept" /\ job[w].ev = e
    BY <2>1, <2>5, <2>3, OneClaim DEF Holding, Holder, Claims
  <2>6. CASE ~Full(cap[w][e], e)
    BY <2>1, <2>6, AsksFull DEF SteadyOf, TypeOK
  <2>7. QED BY <1>9, <2>4, <2>5, <2>6 DEF ChangeState, SeatIsFree
<1>10. CASE Clean(w)
  <2>1. CASE Goto(w, "write") /\ UNCHANGED <<db, local>>
    <3>1. Holding(w, e)' => Holding(w, e) /\ Holder(w)' = Holder(w)
      BY <1>10, <2>1 DEF Clean, Goto, local, Holding, Holder, TypeOK
    <3>2. Holding(w, e)' => Holder(w)' \in Claims(e) BY <3>1 DEF Claims
    <3>3. \A p \in Emails : rows'[e][p].state = "accept" => p \in Seated(e) BY <2>1 DEF Seated, db
    <3>4. QED BY <3>2, <3>3, OneClaim
  <2>2. QED BY <1>1, <1>10, <2>1 DEF Clean, db
<1>11. CASE Write(w)
  <2>1. rows' = [rows EXCEPT ![job[w].ev][job[w].who] = row[w]] /\ pc[w] = "write" BY <1>11 DEF Write
  <2>2. ASSUME NEW p \in Emails, rows'[e][p].state = "accept"
        PROVE  p \in Seated(e) \cup Claims(e)
    BY <2>1, <2>2 DEF TypeOK, Holding, Holder, Claims, Seated
  <2>3. ~Holding(w, e)'
    <3>1. \/ pc'[w] \in {"idle", "list"}
          \/ pc'[w] = "state" /\ row'[w] = row[w] /\ row[w].state = "blank"
      BY <1>11 DEF Write, AfterWrite, Finish, Goto, local, TypeOK
    <3>2. QED BY <3>1 DEF Holding
  <2>4. QED BY <2>2, <2>3, OneClaim
<1>12. CASE DeleteRow(w)
  <2>1. pc'[w] = "list" BY <1>12 DEF DeleteRow, Goto, TypeOK
  <2>2. ~Holding(w, e)' BY <2>1 DEF Holding
  <2>3. ASSUME NEW p \in Emails, rows'[e][p].state = "accept"
        PROVE  p \in Seated(e)
    BY <1>12, FoundType, <2>3 DEF DeleteRow, TypeOK, NoRow, Seated
  <2>4. QED BY <2>2, <2>3, OneClaim
<1>13. CASE Offer(w)
  <2>1. /\ rows' = rows /\ cur' = cur /\ pc[w] = "seat"
        /\ pc'[w] \in {"offer", "promote"}
        /\ ~Full(cap[w][cur[w]], cur[w])
    BY <1>13 DEF Offer, db, Goto, TypeOK
  <2>2. CASE cur[w] = e
    BY <2>1, <2>2, AsksFull DEF SteadyOf, TypeOK
  <2>3. CASE cur[w] # e
    BY <2>1, <2>3, OneClaim DEF Holding, Seated
  <2>4. QED BY <2>2, <2>3
<1>14. CASE CleanOffer(w)
  <2>1. CASE Goto(w, "promote") /\ UNCHANGED <<db, local>>
    <3>1. Holding(w, e)' => Holding(w, e) /\ Holder(w)' = Holder(w)
      BY <1>14, <2>1 DEF CleanOffer, Goto, local, Holding, Holder, TypeOK
    <3>2. Holding(w, e)' => Holder(w)' \in Claims(e) BY <3>1 DEF Claims
    <3>3. \A p \in Emails : rows'[e][p].state = "accept" => p \in Seated(e) BY <2>1 DEF Seated, db
    <3>4. QED BY <3>2, <3>3, OneClaim
  <2>2. QED BY <1>1, <1>14, <2>1 DEF CleanOffer, db
<1>15. CASE Promote(w)
  <2>1. /\ rows' = [rows EXCEPT ![cur[w]][head[w]] = Promoted(w)]
        /\ pc[w] = "promote" /\ pc'[w] = "seat"
    BY <1>15 DEF Promote, Goto, TypeOK
  <2>2. ASSUME NEW p \in Emails, rows'[e][p].state = "accept"
        PROVE  p \in Seated(e) \cup Claims(e)
    BY <2>1, <2>2 DEF Holding, Holder, Claims, TypeOK, Seated
  <2>3. ~Holding(w, e)' BY <2>1 DEF Holding
  <2>4. QED BY <2>2, <2>3, OneClaim
<1>16. QED BY <1>2, <1>3, <1>4, <1>5, <1>6, <1>7, <1>8, <1>9, <1>10, <1>11, <1>12, <1>13,
     <1>14, <1>15 DEF Step

\* However many workers race for the last seat, crash, or write stale copies
\* back, each of them overbooks an event by one attendee at most, and one
\* worker alone never does - as long as no organiser edits the maximum or adds
\* addresses by hand, neither of which asks is_full.
THEOREM OverbookingBounded ==
  ASSUME NoOrganiserEdits
  PROVE  Spec => []OverbookingBound
<1>. DEFINE Inv == TypeOK /\ Flow /\ Steady /\ \A e \in Events : Bounded(e)
<1>1. Init => Inv
  <2> SUFFICES ASSUME Init PROVE Inv OBVIOUS
  <2>1. TypeOK /\ Flow BY InitType DEF Init, Flow, FlowOf, NoJob
  <2>2. Steady BY DEF Init, Steady, SteadyOf, NoJob
  <2>3. ASSUME NEW e \in Events
        PROVE  Bounded(e)
    <3>1. Claims(e) = {} BY DEF Claims, Holding, Init
    <3>2. Settled(e) /\ Seated(e) \in SUBSET Emails BY DEF Init, Seated
    <3>3. Seated(e) \cup Claims(e) = Seated(e) /\ Cardinality(Seated(e)) \in Nat BY <3>1, <3>2, Finite
    <3>4. maxAtt[e] \in Nat /\ (maxAtt[e] # 0 => Cardinality(Seated(e)) <= maxAtt[e])
      BY <2>1, <3>2 DEF Settled, TypeOK
    <3>5. Cardinality(Seated(e) \cup Claims(e)) = Cardinality(Seated(e)) BY <3>3
    <3>6. QED BY <3>3, <3>4, <3>5, SomeWorker DEF Bounded
  <2>4. QED BY <2>1, <2>2, <2>3
<1>2. Inv /\ [Next]_vars => Inv'
  <2> SUFFICES ASSUME Inv, [Next]_vars
               PROVE  Inv'
    OBVIOUS
  <2>1. CASE UNCHANGED vars
    <3>1. TypeOK' /\ Flow' /\ Steady' BY <2>1 DEF vars, TypeOK, Flow, FlowOf, Steady, SteadyOf
    <3>2. maxAtt' = maxAtt /\ \A e \in Events : Seated(e)' = Seated(e) BY <2>1 DEF vars, Seated
    <3>3. \A e \in Events : Claims(e)' = Claims(e) BY <2>1 DEF vars, Claims, Holding, Holder
    <3>4. QED BY <3>1, <3>2, <3>3 DEF Bounded
  <2>2. ASSUME NEW w \in Workers, Arrive(w)
        PROVE  Inv'
    <3>1. TypeOK' /\ Flow' /\ Steady' /\ maxAtt' = maxAtt /\ Frame(w)
      BY <2>2, ArriveType, ArriveFlow, ArriveSteady, ArriveFrame
    <3>2. rows' = rows /\ pc'[w] \in {"get", "list"}
      BY <2>2 DEF Arrive, Request, Confirm, EditCapacity, Start, Goto, TypeOK
    <3>3. QED BY <3>1, <3>2, LetsGo
  <2>3. ASSUME NEW w \in Workers, Step(w)
        PROVE  Inv'
    BY <2>3, StepType, StepFlow, StepSteady, StepBounded
  <2>4. ASSUME NEW w \in Workers, Crash(w)
        PROVE  Inv'
    <3>1. Finish(w) /\ UNCHANGED db /\ maxAtt' = maxAtt /\ rows' = rows BY <2>4 DEF Crash, db
    <3>2. TypeOK' /\ Flow' /\ Steady' /\ Frame(w)
      BY <3>1, FinishTypes, FlowFinish, FinishSteady, FinishFrame DEF db, TypeOK
    <3>3. pc'[w] = "idle" BY <3>1 DEF Finish, Goto, TypeOK
    <3>4. QED BY <3>1, <3>2, <3>3, LetsGo
  <2>5. QED BY <2>1, <2>2, <2>3, <2>4 DEF Next
<1>3. Inv => OverbookingBound
  <2> SUFFICES ASSUME Inv, NEW e \in Events, maxAtt[e] # 0
               PROVE  Cardinality(Seated(e)) <= maxAtt[e] + Cardinality(Workers) - 1
    BY DEF OverbookingBound
  <2>1. /\ Cardinality(Seated(e)) <= Cardinality(Seated(e) \cup Claims(e))
        /\ Cardinality(Seated(e)) \in Nat
        /\ Cardinality(Seated(e) \cup Claims(e)) \in Nat
    BY ClaimsType, Finite, FS_Subset
  <2>2. maxAtt[e] \in Nat BY DEF TypeOK
  <2>3. Cardinality(Seated(e) \cup Claims(e)) <= maxAtt[e] + Cardinality(Workers) - 1 BY DEF Bounded
  <2>4. QED BY <2>1, <2>2, <2>3, SomeWorker
<1>4. QED BY <1>1, <1>2, <1>3, PTL DEF Spec

(***************************************************************************)
(* Seats that are free while somebody waits.  Whoever frees a seat or      *)
(* starts to wait has a request behind it that still has to read the       *)
(* waiting list, or that holds a copy of all of it.                        *)
(***************************************************************************)
OneWorker == \A v, w \in Workers : v = w
NoCrash   == "crash" \notin Kinds

\* No row is written back that says what a state was, and no maximum changes.
Calm == Kinds \cap {"edit", "scan", "code", "capacity"} = {}

Looping == {"seat", "offer", "promote"}

Rowed == \A e \in Events, p \in Emails : rows[e][p].id <= now /\ (rows[e][p].id = 0 => rows[e][p] = NoRow)

\* w holds a copy of every row that waits, and its copies are of rows that stand.
Tracks(w) ==
  /\ Waiting(cur[w]) \subseteq Queue(w)
  /\ \A p \in Queue(w) : rows[cur[w]][p].id = wl[w][p].id

Copied(w) ==
  /\ row[w].id <= now
  /\ \A p \in Emails : wl[w][p].id <= now /\ (wl[w][p].id = 0 => wl[w][p] = NoRow)
  /\ pc[w] \in {"state", "clean", "write"} => row[w].id # 0

Saving(w) ==
  LET j == job[w]
      r == row[w]
      x == rows[j.ev][j.who]
  IN  /\ pc[w] = "clean" => r.state = "accept"
      /\ pc[w] \in {"clean", "write"} =>
           /\ j.kind \in {"attend", "confirm"} => r.state \in {"blank", j.want}
           /\ j.kind = "add" => r.state = "accept"
           /\ j.kind \in {"edit", "scan", "code"} => r.state = x.state /\ r.id = x.id
      /\ pc[w] \in {"get", "again", "state", "clean", "write"} => cur[w] = j.ev

Filling(w) ==
  LET j == job[w]
  IN  /\ pc[w] \in {"offer", "promote"} => head[w] \in Queue(w)
      /\ pc[w] = "offer" => SlotMates[cur[w]] # {}
      /\ pc[w] # "idle" /\ j.kind # "capacity" => cap[w] = maxAtt
      /\ pc[w] # "idle" /\ j.kind = "capacity" => cur[w] = j.ev /\ pc[w] \in Looping \cup {"list", "store"}
      /\ pc[w] = "store" => j.kind = "capacity"
      /\ pc[w] \in Looping /\ j.kind = "capacity" => Tracks(w)
      /\ pc[w] = "store" /\ Plain(j.ev) /\ Waiting(j.ev) # {} => Full(cap[w][j.ev], j.ev)

Sane(w) == job[w].kind \in Kinds \cup {"none"} /\ Copied(w) /\ Saving(w) /\ Filling(w)

\* The key of a row that is about to be created is nowhere yet.
Fresh(w) ==
  pc[w] = "write" /\ row[w].state = "blank" /\ job[w].kind \in {"attend", "confirm"} =>
    /\ \A e \in Events, p \in Emails : rows[e][p].id # row[w].id
    /\ \A v \in Workers : (v # w => row[v].id # row[w].id) /\ \A p \in Emails : wl[v][p].id # row[w].id

Owes(w, e) ==
  /\ cur[w] = e /\ job[w].kind # "capacity"
  /\ pc[w] = "list" \/ (pc[w] \in Looping /\ Tracks(w))

Served == \A e \in Events : Plain(e) /\ Waiting(e) # {} /\ ~Full(maxAtt[e], e) => \E w \in Workers : Owes(w, e)

\* What holds of the copies in memory, crashes or not.
CopyInv == TypeOK /\ Flow /\ Rowed /\ \A w \in Workers : Sane(w) /\ Fresh(w)
SeatInv == CopyInv /\ Served

LEMMA StepClock ==
  ASSUME TypeOK, NEW w \in Workers, Step(w)
  PROVE  now' \in {now, now + 1} /\ (maxAtt' = maxAtt \/ StoreCapacity(w))
<1>1. CASE UNCHANGED db BY <1>1 DEF db
<1>2. CASE LoadOrCreate(w) \/ AddByEmail(w) \/ LoadForEdit(w) \/ ChangeState(w)
           \/ Write(w) \/ DeleteRow(w) \/ Promote(w) \/ Forget(w) \/ CreateAsk(w) \/ StoreCapacity(w)
  BY <1>2 DEF LoadOrCreate, AddByEmail, LoadForEdit, ChangeState, Write, DeleteRow, Promote, Forget, CreateAsk, StoreCapacity
<1> QED
  BY <1>1, <1>2
  DEF Step, NothingToDo, LookAgain, LoadForDelete, Refuse, Clean, WriteConflict, LoadChildren, NextChild, ChildrenDone,
      ListWaiting, Offer, CleanOffer, PromoteConflict, LoopEnds, EditRefused, FindNoAsk

\* A worker stays sane while another one takes a step.
LEMMA OthersSane ==
  ASSUME CopyInv, OneWorker \/ Calm, NEW w \in Workers, Frame(w), now' \in {now, now + 1},
         maxAtt' = maxAtt \/ job[w].kind = "capacity", NEW v \in Workers, v # w
  PROVE  Sane(v)'
<1>1. Calm BY DEF OneWorker
<1>2. job[w].kind # "capacity" /\ job[v].kind \notin {"edit", "scan", "code", "capacity"}
  BY <1>1 DEF CopyInv, Sane, Calm
<1>3. /\ pc'[v] = pc[v] /\ job'[v] = job[v] /\ row'[v] = row[v] /\ cap'[v] = cap[v] /\ cur'[v] = cur[v]
      /\ head'[v] = head[v] /\ wl'[v] = wl[v] /\ maxAtt' = maxAtt
  BY <1>2 DEF Frame
<1>4. Sane(v) BY DEF CopyInv
<1>5. Copied(v)'
  BY <1>3, <1>4 DEF CopyInv, TypeOK, Row, Sane, Copied
<1>6. Saving(v)' BY <1>2, <1>3, <1>4 DEF Sane, Saving
<1>7. Filling(v)' BY <1>2, <1>3, <1>4 DEF Sane, Filling, Queue
<1> QED BY <1>3, <1>4, <1>5, <1>6, <1>7 DEF Sane

\* An idle worker is sane and owes nothing.
LEMMA FinishSane ==
  ASSUME TypeOK, NEW w \in Workers, Finish(w), now' \in Nat
  PROVE  Sane(w)' /\ Fresh(w)' /\ pc'[w] = "idle" /\ row'[w].id = 0 /\ \A p \in Emails : wl'[w][p].id = 0
<1>1. pc'[w] = "idle" /\ row'[w] = NoRow /\ wl'[w] = NoQueue /\ job'[w] = NoJob BY DEF Finish, Goto, TypeOK
<1>2. NoRow.id = 0 /\ NoJob.kind = "none" /\ \A p \in Emails : NoQueue[p] = NoRow BY DEF NoRow, NoJob, NoQueue
<1> QED BY <1>1, <1>2 DEF Sane, Copied, Saving, Filling, Fresh, Looping

LEMMA FoundRow ==
  ASSUME CopyInv, NEW w \in Workers
  PROVE  /\ Found(w).id <= now /\ (Found(w) # NoRow => Found(w).id # 0 /\ Found(w) = rows[job[w].ev][job[w].who])
         /\ NoRow.id = 0 /\ NoRow.state = "absent" /\ now \in Nat
         /\ job[w].ev \in Events /\ job[w].who \in Emails
BY FoundType DEF CopyInv, Rowed, Found, NoRow, TypeOK

LEMMA StepCopied ==
  ASSUME CopyInv, NEW w \in Workers, Step(w)
  PROVE  Copied(w)'
<1>0. TypeOK /\ Rowed /\ Copied(w) /\ now' \in {now, now + 1} /\ now \in Nat BY StepClock DEF CopyInv, Sane, TypeOK
<1>1. CASE Finish(w) BY <1>0, <1>1, FinishSane DEF Sane
<1>2. ASSUME row'[w].id <= now', row'[w].id # 0 \/ pc'[w] \notin {"state", "clean", "write"}, wl'[w] = wl[w]
      PROVE  Copied(w)'
  BY <1>0, <1>2 DEF TypeOK, Row, Copied
<1>3. ASSUME row'[w] = row[w], pc'[w] \in {"state", "clean", "write"} => pc[w] \in {"state", "clean", "write"}, wl'[w] = wl[w]
      PROVE  Copied(w)'
  BY <1>0, <1>2, <1>3 DEF TypeOK, Row, Copied
<1>4. CASE LoadOrCreate(w) \/ AddByEmail(w) \/ LoadForEdit(w) \/ LoadForDelete(w)
  <2>1. wl'[w] = wl[w] BY <1>4 DEF LoadOrCreate, AddByEmail, LoadForEdit, LoadForDelete
  <2>2. \A s, b : NewRow(s, b).id = now + 1 BY DEF NewRow
  <2>3. CASE LoadOrCreate(w) BY <1>0, <1>2, <2>1, <2>2, <2>3, FoundRow DEF LoadOrCreate, TypeOK
  <2>4. CASE AddByEmail(w) BY <1>0, <1>2, <2>1, <2>2, <2>4, FoundRow DEF AddByEmail, TypeOK
  <2>5. CASE LoadForEdit(w)
    <3>1. row'[w].id = Found(w).id /\ Found(w) # NoRow BY <1>0, <2>5, FoundType DEF LoadForEdit, TypeOK, Row
    <3>2. Found(w).id \in Nat BY <1>0, FoundType DEF Row
    <3> QED BY <1>0, <1>2, <2>1, <3>1, <3>2, FoundRow
  <2>6. CASE LoadForDelete(w)
    <3>1. row'[w] = Found(w) /\ now' = now /\ pc'[w] \in {"kids", "del"}
      BY <1>0, <2>6 DEF LoadForDelete, TypeOK, Goto, db
    <3> QED BY <1>2, <2>1, <3>1, FoundRow
  <2> QED BY <1>4, <2>3, <2>4, <2>5, <2>6
<1>5. CASE ChangeState(w)
  BY <1>0, <1>5, <1>2 DEF ChangeState, TypeOK, Row, Copied
<1>6. CASE ListWaiting(w)
  <2>1. /\ \A p \in Emails : wl'[w][p] = IF p \in Waiting(cur[w]) THEN rows[cur[w]][p] ELSE NoRow
        /\ row'[w] = row[w] /\ pc'[w] = "seat" /\ now' = now
    BY <1>0, <1>6 DEF ListWaiting, TypeOK, Goto, db
  <2> QED BY <1>0, <2>1, FoundRow DEF Copied, Rowed, TypeOK
<1>7. CASE Promote(w)
  BY <1>0, <1>7, FoundRow DEF Promote, TypeOK, Goto, Copied
<1>8. CASE LookAgain(w) \/ LoadChildren(w) \/ NextChild(w) \/ ChildrenDone(w) \/ DeleteRow(w) \/ Offer(w) \/ FindNoAsk(w)
  BY <1>0, <1>3, <1>8 DEF LookAgain, LoadChildren, NextChild, ChildrenDone, DeleteRow, Offer, FindNoAsk, local, Goto, TypeOK
<1>9. CASE Clean(w) \/ Write(w) \/ CleanOffer(w) \/ LoopEnds(w)
  <2>1. CASE UNCHANGED local /\ ~Finish(w)
    <3>1. row'[w] = row[w] /\ wl'[w] = wl[w] BY <2>1 DEF local
    <3>2. pc'[w] \in {"state", "clean", "write"} => pc[w] \in {"state", "clean", "write"}
      BY <1>0, <1>9, <2>1 DEF Clean, Write, CleanOffer, LoopEnds, Goto, TypeOK
    <3> QED BY <1>3, <3>1, <3>2
  <2> QED BY <1>1, <1>9, <2>1 DEF Clean, Write, CleanOffer, LoopEnds
<1>10. CASE NothingToDo(w) \/ Refuse(w) \/ WriteConflict(w) \/ PromoteConflict(w)
           \/ Forget(w) \/ StoreCapacity(w) \/ EditRefused(w) \/ CreateAsk(w)
  BY <1>1, <1>10 DEF NothingToDo, Refuse, WriteConflict, PromoteConflict, Forget, StoreCapacity, EditRefused, CreateAsk
<1> QED BY <1>4, <1>5, <1>6, <1>7, <1>8, <1>9, <1>10 DEF Step

LEMMA StepSaving ==
  ASSUME CopyInv, NEW w \in Workers, Step(w)
  PROVE  Saving(w)'
<1>0. /\ TypeOK /\ Saving(w) /\ FlowOf(w)
      /\ job[w].kind \in AllKinds \cup {"none"}
  BY FoundType DEF CopyInv, Sane, Flow, Job
<1>1. CASE Finish(w)
  <2>1. now' \in {now, now + 1} BY <1>0, StepClock
  <2>2. now' \in Nat BY <1>0, <2>1 DEF TypeOK
  <2> QED BY <1>0, <1>1, <2>2, FinishSane DEF Sane
<1>2. ASSUME job'[w] = job[w], cur'[w] = cur[w], cur[w] = job[w].ev, pc'[w] \notin {"clean", "write"}
      PROVE  Saving(w)'
  BY <1>2 DEF Saving
<1>3. ASSUME pc'[w] \notin {"get", "again", "state", "clean", "write"}
      PROVE  Saving(w)'
  BY <1>3 DEF Saving
<1>4. CASE LoadOrCreate(w)
  <2>1. /\ cur[w] = job[w].ev /\ cur'[w] = cur[w] /\ job'[w] = job[w] /\ job[w].kind \in {"attend", "confirm"}
        /\ pc'[w] = "state" \/ (pc'[w] = "write" /\ row'[w].state = "blank")
    BY <1>0, <1>4 DEF LoadOrCreate, Saving, FlowOf, Goto, TypeOK, NewRow
  <2> QED BY <2>1 DEF Saving
<1>5. CASE AddByEmail(w)
  BY <1>0, <1>5 DEF AddByEmail, Saving, Goto, TypeOK, NewRow
<1>6. CASE LoadForEdit(w)
  <2>1. /\ cur[w] = job[w].ev /\ cur'[w] = cur[w] /\ job'[w] = job[w] /\ job[w].kind \in {"edit", "scan", "code"}
        /\ rows' = rows /\ Found(w) # NoRow
    BY <1>0, <1>6 DEF LoadForEdit, Saving, TypeOK
  <2>2. Found(w) \in Row BY <1>0, FoundType
  <2>3. row'[w].state = Found(w).state /\ row'[w].id = Found(w).id /\ Found(w) = rows[job[w].ev][job[w].who]
    BY <1>0, <1>6, <2>1, <2>2, FoundRow DEF LoadForEdit, TypeOK, Row
  <2>4. pc'[w] = "write" \/ (pc'[w] = "clean" /\ row'[w].state = "accept")
    BY <1>0, <1>6 DEF LoadForEdit, SaveLabel, NeedsClean, Goto, TypeOK
  <2> QED BY <2>1, <2>3, <2>4 DEF Saving
<1>7. CASE ChangeState(w)
  <2>1. /\ cur[w] = job[w].ev /\ cur'[w] = cur[w] /\ job'[w] = job[w] /\ job[w].kind \in {"attend", "confirm"}
    BY <1>0, <1>7 DEF ChangeState, Saving, FlowOf, TypeOK
  <2>2. row[w] \in Row BY <1>0 DEF TypeOK
  <2>3. row'[w].state = job[w].want BY <1>0, <1>7, <2>2 DEF ChangeState, TypeOK, Row
  <2>4. pc'[w] = "write" \/ (pc'[w] = "clean" /\ row'[w].state = "accept")
    BY <1>0, <1>7 DEF ChangeState, SaveLabel, NeedsClean, Goto, TypeOK
  <2> QED BY <2>1, <2>3, <2>4 DEF Saving
<1>8. CASE Clean(w)
  <2>1. CASE Goto(w, "write") /\ UNCHANGED <<db, local>>
    <3>1. /\ pc[w] = "clean" /\ pc'[w] = "write" /\ job' = job /\ row' = row /\ rows' = rows /\ cur' = cur
      BY <1>0, <1>8, <2>1 DEF Clean, Goto, TypeOK, db, local
    <3> QED BY <1>0, <3>1 DEF Saving
  <2> QED BY <1>1, <1>8, <2>1 DEF Clean
<1>9. CASE Write(w)
  <2>1. CASE Goto(w, AfterWrite(w)) /\ UNCHANGED local
    <3>1. pc[w] = "write" /\ pc'[w] \in {"state", "list", "idle"} /\ job' = job /\ cur' = cur
      BY <1>0, <1>9, <2>1 DEF Write, AfterWrite, Goto, TypeOK, local
    <3> QED BY <1>0, <1>2, <3>1 DEF Saving
  <2> QED BY <1>1, <1>9, <2>1 DEF Write
<1>10. CASE LookAgain(w) BY <1>0, <1>2, <1>10 DEF LookAgain, Goto, TypeOK, local, Saving
<1>11. CASE LoadForDelete(w) \/ LoadChildren(w) \/ ChildrenDone(w) \/ DeleteRow(w)
            \/ ListWaiting(w) \/ Offer(w) \/ Promote(w) \/ FindNoAsk(w)
  BY <1>0, <1>3, <1>11 DEF LoadForDelete, LoadChildren, ChildrenDone, DeleteRow, ListWaiting, Offer, Promote, FindNoAsk, Goto, TypeOK
<1>12. CASE NextChild(w) BY <1>0, <1>3, <1>12 DEF NextChild, Goto, TypeOK
<1>13. CASE CleanOffer(w) \/ LoopEnds(w)
  <2>1. Finish(w) \/ \E l \in {"promote", "child", "forget", "store"} : Goto(w, l) BY <1>13 DEF CleanOffer, LoopEnds
  <2> QED BY <1>0, <1>1, <1>3, <2>1 DEF Goto, TypeOK
<1>14. CASE NothingToDo(w) \/ Refuse(w) \/ WriteConflict(w) \/ PromoteConflict(w)
           \/ Forget(w) \/ StoreCapacity(w) \/ EditRefused(w) \/ CreateAsk(w)
  BY <1>1, <1>14 DEF NothingToDo, Refuse, WriteConflict, PromoteConflict, Forget, StoreCapacity, EditRefused, CreateAsk
<1> QED BY <1>4, <1>5, <1>6, <1>7, <1>8, <1>9, <1>10, <1>11, <1>12, <1>13, <1>14 DEF Step

\* The promoted row keeps its key: whoever holds all waiting rows still does.
LEMMA PromoteTracks ==
  ASSUME CopyInv, NEW w \in Workers, Promote(w), NEW v \in Workers, cur[v] = cur[w], cur'[v] = cur[v], Tracks(v),
         \A p \in Emails : wl'[v][p] = IF v = w /\ p = head[w] THEN NoRow ELSE wl[v][p]
  PROVE  Tracks(v)'
<1>0. TypeOK /\ Rowed /\ Copied(v) /\ Copied(w) /\ Filling(w) BY DEF CopyInv, Sane
<1>1. PICK e, p : e = cur[w] /\ p = head[w] OBVIOUS
<1>2. e \in Events /\ p \in Emails /\ wl[w][p] \in Row /\ p \in Queue(w) /\ NoRow.id = 0
  BY <1>0, <1>1 DEF TypeOK, Promote, Filling, NoRow
<1>3. Promoted(w).state = "accept" /\ Promoted(w).id = wl[w][p].id BY <1>1, <1>2 DEF Promoted, Row
<1>4. /\ rows'[e][p] = Promoted(w) /\ \A q \in Emails : q # p => rows'[e][q] = rows[e][q]
      /\ rows[e][p].id \in {wl[w][p].id, 0}
  BY <1>0, <1>1, <1>2, <1>3 DEF Promote, TypeOK, Saves
<1>5. Waiting(e)' = Waiting(e) \ {p} BY <1>3, <1>4 DEF Waiting
<1>6. Queue(v)' \subseteq Queue(v) /\ \A q \in Queue(v) : q \in Queue(v)' \/ (v = w /\ q = p) BY <1>1 DEF Queue
<1>7. \A q \in Queue(v)' : q \in Queue(v) /\ wl'[v][q] = wl[v][q] /\ wl[v][q].id # 0 /\ q \in Emails
  BY <1>0, <1>1 DEF Queue, Copied
<1>8. ASSUME NEW q \in Queue(v)'
      PROVE  rows'[e][q].id = wl'[v][q].id
  <2>1. rows[e][q].id = wl[v][q].id BY <1>1, <1>7, <1>8 DEF Tracks
  <2>2. CASE q = p BY <1>3, <1>4, <1>7, <1>8, <2>1, <2>2
  <2>3. CASE q # p BY <1>4, <1>7, <1>8, <2>1, <2>3
  <2> QED BY <2>2, <2>3
<1> QED BY <1>1, <1>5, <1>6, <1>8 DEF Tracks

\* The list that was just read holds everybody who waits.
LEMMA ListTracks ==
  ASSUME CopyInv, NEW w \in Workers, ListWaiting(w)
  PROVE  Tracks(w)'
<1>0. TypeOK /\ Rowed /\ cur[w] \in Events /\ NoRow.state = "absent" BY DEF CopyInv, TypeOK, NoRow
<1>1. /\ \A p \in Emails : wl'[w][p] = IF p \in Waiting(cur[w]) THEN rows[cur[w]][p] ELSE NoRow
      /\ cur' = cur /\ rows' = rows
  BY <1>0 DEF ListWaiting, TypeOK, db
<1>2. Waiting(cur[w])' = Waiting(cur[w]) /\ \A p \in Waiting(cur[w]) : p \in Emails /\ rows[cur[w]][p] # NoRow
  BY <1>0, <1>1 DEF Waiting
<1>3. Queue(w)' = Waiting(cur[w]) BY <1>1, <1>2 DEF Queue
<1> QED BY <1>1, <1>2, <1>3 DEF Tracks

\* Where the loop ends, nobody waits or no seat is free.
LEMMA LoopSettles ==
  ASSUME CopyInv, NEW w \in Workers, LoopEnds(w), Tracks(w), Waiting(cur[w]) # {}
  PROVE  Full(cap[w][cur[w]], cur[w])
BY DEF LoopEnds, Tracks

LEMMA StepFilling ==
  ASSUME CopyInv, NEW w \in Workers, Step(w)
  PROVE  Filling(w)'
<1>0. /\ TypeOK /\ Filling(w) /\ FlowOf(w) /\ job[w].ev \in Events /\ cur[w] \in Events
      /\ job[w].kind \in AllKinds \cup {"none"} /\ maxAtt \in [Events -> Nat]
  BY FoundType DEF CopyInv, Sane, Flow, Job, TypeOK
<1>1. CASE Finish(w)
  <2>1. now' \in {now, now + 1} BY <1>0, StepClock
  <2>2. now' \in Nat BY <1>0, <2>1 DEF TypeOK
  <2> QED BY <1>0, <1>1, <2>2, FinishSane DEF Sane
\* Outside of the loop.
<1>2. ASSUME pc[w] \notin Looping \cup {"list", "store", "idle"}, job'[w] = job[w], cap'[w] = cap[w], maxAtt' = maxAtt,
             pc'[w] \notin Looping \cup {"store"}
      PROVE  Filling(w)'
  BY <1>0, <1>2 DEF Filling, Looping
<1>3. CASE LoadOrCreate(w) \/ LookAgain(w) \/ AddByEmail(w) \/ LoadForEdit(w) \/ LoadForDelete(w) \/ ChangeState(w)
           \/ NextChild(w) \/ ChildrenDone(w) \/ FindNoAsk(w)
  <2>1. pc[w] \in {"get", "again", "state", "child"}
    BY <1>3 DEF LoadOrCreate, LookAgain, AddByEmail, LoadForEdit, LoadForDelete, ChangeState, NextChild, ChildrenDone, FindNoAsk
  <2>2. job' = job /\ cap' = cap /\ maxAtt' = maxAtt
    BY <1>3 DEF LoadOrCreate, LookAgain, AddByEmail, LoadForEdit, LoadForDelete, ChangeState, NextChild, ChildrenDone, FindNoAsk,
                db, local
  <2>3. pc' = pc \/ \E l \in {"state", "write", "again", "clean", "kids", "del", "ask"} : Goto(w, l)
    BY <1>3 DEF LoadOrCreate, LookAgain, AddByEmail, LoadForEdit, LoadForDelete, ChangeState, NextChild, ChildrenDone, FindNoAsk,
                SaveLabel
  <2> QED BY <1>0, <1>2, <2>1, <2>2, <2>3 DEF Goto, TypeOK, Looping
<1>4. CASE Clean(w) \/ Write(w)
  <2>1. CASE UNCHANGED local /\ (Goto(w, "write") \/ Goto(w, "state") \/ Goto(w, "list") \/ Goto(w, "idle"))
    <3>1. pc[w] \in {"clean", "write"} /\ job' = job /\ cap' = cap /\ maxAtt' = maxAtt
      BY <1>4, <2>1, StepClock DEF Clean, Write, local, db
    <3> QED BY <1>0, <1>2, <2>1, <3>1 DEF Goto, TypeOK, Looping
  <2> QED BY <1>1, <1>4, <2>1 DEF Clean, Write, AfterWrite
<1>5. CASE LoadChildren(w) \/ DeleteRow(w)
  <2>1. /\ pc[w] \in {"kids", "del"} /\ pc'[w] \in {"child", "list"} /\ job' = job /\ maxAtt' = maxAtt
        /\ \A e \in Events : cap'[w][e] \in {cap[w][e], maxAtt[e]}
    BY <1>0, <1>5 DEF LoadChildren, DeleteRow, Goto, TypeOK, db
  <2>2. cap[w] = maxAtt BY <1>0, <2>1 DEF Filling, Looping
  <2>3. cap'[w] \in [Events -> Nat] BY StepType DEF CopyInv, TypeOK
  <2>4. cap'[w] = maxAtt BY <1>0, <2>1, <2>2, <2>3
  <2> QED BY <1>0, <2>1, <2>4 DEF Filling, Looping
<1>6. CASE ListWaiting(w)
  <2>1. pc[w] = "list" /\ pc'[w] = "seat" /\ job' = job /\ cap' = cap /\ cur' = cur /\ maxAtt' = maxAtt
    BY <1>0, <1>6 DEF ListWaiting, Goto, TypeOK, db
  <2> QED BY <1>0, <1>6, <2>1, ListTracks DEF Filling, Looping
<1>7. CASE Offer(w)
  <2>1. /\ pc[w] = "seat" /\ UNCHANGED <<rows, maxAtt, job, cap, cur, wl>>
        /\ head'[w] \in Queue(w) /\ pc'[w] = IF SlotMates[cur[w]] # {} THEN "offer" ELSE "promote"
    BY <1>0, <1>7 DEF Offer, Goto, TypeOK, db, IsFirst
  <2>2. Queue(w)' = Queue(w) /\ (Tracks(w) => Tracks(w)') BY <2>1 DEF Queue, Tracks, Waiting
  <2> QED BY <1>0, <2>1, <2>2 DEF Filling, Looping
<1>8. CASE CleanOffer(w)
  <2>1. CASE Goto(w, "promote") /\ UNCHANGED <<db, local>>
    <3>1. pc[w] = "offer" /\ pc'[w] = "promote" /\ UNCHANGED <<rows, maxAtt, job, cap, cur, wl, head>>
      BY <1>0, <1>8, <2>1 DEF CleanOffer, Goto, TypeOK, db, local
    <3>2. Queue(w)' = Queue(w) /\ (Tracks(w) => Tracks(w)') BY <3>1 DEF Queue, Tracks, Waiting
    <3> QED BY <1>0, <3>1, <3>2 DEF Filling, Looping
  <2> QED BY <1>1, <1>8, <2>1 DEF CleanOffer
<1>9. CASE Promote(w)
  <2>1. /\ pc[w] = "promote" /\ pc'[w] = "seat" /\ UNCHANGED <<maxAtt, job, cap, cur>>
        /\ \A p \in Emails : wl'[w][p] = IF p = head[w] THEN NoRow ELSE wl[w][p]
    BY <1>0, <1>9 DEF Promote, Goto, TypeOK
  <2>2. Tracks(w) => Tracks(w)' BY <1>9, <2>1, PromoteTracks
  <2> QED BY <1>0, <2>1, <2>2 DEF Filling, Looping
<1>10. CASE LoopEnds(w)
  <2>0. pc[w] = "seat" /\ UNCHANGED <<rows, maxAtt>> BY <1>10 DEF LoopEnds, db
  <2>1. CASE Goto(w, "child") /\ UNCHANGED local /\ cur[w] # job[w].ev
    <3>1. pc'[w] = "child" /\ job' = job /\ cap' = cap /\ job[w].kind # "capacity"
      BY <1>0, <2>0, <2>1 DEF Filling, local, Goto, TypeOK
    <3> QED BY <1>0, <2>0, <3>1 DEF Filling, Looping
  <2>2. CASE Goto(w, "forget") /\ UNCHANGED local /\ job[w].kind = "confirm"
    <3>1. pc'[w] = "forget" /\ job' = job /\ cap' = cap BY <1>0, <2>2 DEF local, Goto, TypeOK
    <3> QED BY <1>0, <2>0, <2>2, <3>1 DEF Filling, Looping
  <2>3. CASE Goto(w, "store") /\ UNCHANGED local /\ job[w].kind = "capacity"
    <3>1. pc'[w] = "store" /\ job' = job /\ cap' = cap /\ cur' = cur BY <1>0, <2>3 DEF local, Goto, TypeOK
    <3>2. Tracks(w) /\ cur[w] = job[w].ev BY <1>0, <2>0, <2>3 DEF Filling, Looping
    <3>3. Waiting(job[w].ev) # {} => Full(cap[w][job[w].ev], job[w].ev) BY <1>10, <3>2, LoopSettles
    <3> QED BY <1>0, <2>0, <2>3, <3>1, <3>2, <3>3 DEF Filling, Looping, Waiting, Full, Seated
  <2> QED BY <1>1, <1>10, <2>1, <2>2, <2>3 DEF LoopEnds
<1>11. CASE NothingToDo(w) \/ Refuse(w) \/ WriteConflict(w) \/ PromoteConflict(w)
           \/ Forget(w) \/ StoreCapacity(w) \/ EditRefused(w) \/ CreateAsk(w)
  BY <1>1, <1>11 DEF NothingToDo, Refuse, WriteConflict, PromoteConflict, Forget, StoreCapacity, EditRefused, CreateAsk
<1> QED BY <1>3, <1>4, <1>5, <1>6, <1>7, <1>8, <1>9, <1>10, <1>11 DEF Step

LEMMA StepRowed ==
  ASSUME CopyInv, NEW w \in Workers, Step(w)
  PROVE  Rowed'
<1>0. /\ TypeOK /\ Rowed /\ Copied(w) /\ Filling(w) /\ now' \in {now, now + 1} /\ now \in Nat /\ NoRow.id = 0
      /\ job[w].ev \in Events /\ job[w].who \in Emails /\ cur[w] \in Events /\ head[w] \in Emails
  BY StepClock, FoundType DEF CopyInv, Sane, TypeOK, NoRow
<1>1. \A e \in Events, p \in Emails : rows[e][p].id \in Nat BY <1>0 DEF TypeOK, Row
<1>2. CASE rows' = rows BY <1>0, <1>1, <1>2 DEF Rowed
<1>3. ASSUME NEW e \in Events, NEW p \in Emails, NEW r, rows' = [rows EXCEPT ![e][p] = r],
             r = NoRow \/ (r.id # 0 /\ r.id <= now), now' = now
      PROVE  Rowed'
  BY <1>0, <1>1, <1>3 DEF Rowed, TypeOK
<1>4. CASE Write(w)
  BY <1>0, <1>4, <1>3 DEF Write, Copied
<1>5. CASE DeleteRow(w)
  BY <1>5, <1>0, <1>2, <1>3 DEF DeleteRow
<1>6. CASE Promote(w)
  <2>1. rows' = [rows EXCEPT ![cur[w]][head[w]] = Promoted(w)] /\ now' = now /\ head[w] \in Queue(w)
    BY <1>0, <1>6 DEF Promote, Filling
  <2>2. Promoted(w).id = wl[w][head[w]].id BY <1>0 DEF Promoted, TypeOK, Row
  <2>3. Promoted(w).id # 0 /\ Promoted(w).id <= now BY <1>0, <2>1, <2>2 DEF Queue, Copied
  <2> QED BY <1>0, <1>3, <2>1, <2>3
<1> QED
  BY <1>2, <1>4, <1>5, <1>6
  DEF Step, NothingToDo, LoadOrCreate, LookAgain, AddByEmail, LoadForEdit, LoadForDelete, Refuse, ChangeState, Clean,
      WriteConflict, LoadChildren, NextChild, ChildrenDone, ListWaiting, Offer, CleanOffer, PromoteConflict, LoopEnds,
      Forget, StoreCapacity, EditRefused, FindNoAsk, CreateAsk, db

\* A key that neither the rows nor w have is not the key of anything after w's step.
Nowhere(w, n) ==
  /\ \A e \in Events, p \in Emails : rows[e][p].id # n
  /\ row[w].id # n /\ \A p \in Emails : wl[w][p].id # n

LEMMA KeysMove ==
  ASSUME CopyInv, NEW w \in Workers, Step(w), NEW n \in Nat, n # 0, n <= now, Nowhere(w, n)
  PROVE  Nowhere(w, n)'
<1>0. /\ TypeOK /\ now \in Nat /\ NoRow.id = 0 /\ Found(w) \in Row /\ Found(w).id # n
      /\ job[w].ev \in Events /\ job[w].who \in Emails /\ cur[w] \in Events /\ head[w] \in Emails /\ row[w] \in Row
  BY FoundType DEF Found, CopyInv, TypeOK, NoRow, Nowhere
<1>1. CASE Finish(w) /\ rows' = rows
  BY <1>0, StepClock, <1>1, FinishSane DEF Nowhere
<1>2. ASSUME rows' = rows, row'[w].id \in {row[w].id, Found(w).id, now + 1}, wl' = wl
      PROVE  Nowhere(w, n)'
  BY <1>0, <1>2 DEF Nowhere
<1>3. CASE LoadOrCreate(w) \/ AddByEmail(w) \/ LoadForEdit(w) \/ LoadForDelete(w) \/ ChangeState(w)
  <2>1. \A s, b : NewRow(s, b).id = now + 1 BY DEF NewRow
  <2>2. rows' = rows /\ wl' = wl BY <1>3 DEF LoadOrCreate, AddByEmail, LoadForEdit, LoadForDelete, ChangeState, db
  <2>3. row'[w].id \in {row[w].id, Found(w).id, now + 1}
    <3>1. CASE LoadOrCreate(w) BY <1>0, <2>1, <3>1 DEF LoadOrCreate, TypeOK
    <3>2. CASE AddByEmail(w) BY <1>0, <2>1, <3>2 DEF AddByEmail, TypeOK
    <3>3. CASE LoadForEdit(w) BY <1>0, <3>3 DEF LoadForEdit, TypeOK, Row
    <3>4. CASE LoadForDelete(w) BY <1>0, <3>4 DEF LoadForDelete, TypeOK
    <3>5. CASE ChangeState(w) BY <1>0, <3>5 DEF ChangeState, TypeOK, Row
    <3> QED BY <1>3, <3>1, <3>2, <3>3, <3>4, <3>5
  <2> QED BY <1>2, <2>2, <2>3
<1>4. CASE ListWaiting(w)
  BY <1>0, <1>4 DEF ListWaiting, TypeOK, db, Nowhere
<1>5. CASE Promote(w)
  BY <1>0, <1>5 DEF Promoted, TypeOK, Row, Promote, Nowhere
<1>6. CASE DeleteRow(w)
  BY <1>0, <1>6 DEF DeleteRow, TypeOK, Nowhere
<1>7. CASE Write(w)
  BY <1>0, <1>7, FinishSane DEF Write, TypeOK, local, Nowhere
<1>8. CASE LookAgain(w) \/ LoadChildren(w) \/ NextChild(w) \/ ChildrenDone(w) \/ Offer(w) \/ FindNoAsk(w)
  BY <1>2, <1>8 DEF LookAgain, LoadChildren, NextChild, ChildrenDone, Offer, FindNoAsk, local, db
<1>9. CASE Clean(w) \/ CleanOffer(w) \/ LoopEnds(w)
  <2>1. rows' = rows /\ (Finish(w) \/ (row' = row /\ wl' = wl)) BY <1>9 DEF Clean, CleanOffer, LoopEnds, db, local
  <2> QED BY <1>1, <1>2, <2>1
<1>10. CASE NothingToDo(w) \/ Refuse(w) \/ WriteConflict(w) \/ PromoteConflict(w)
           \/ Forget(w) \/ StoreCapacity(w) \/ EditRefused(w) \/ CreateAsk(w)
  BY <1>1, <1>10 DEF NothingToDo, Refuse, WriteConflict, PromoteConflict, Forget, StoreCapacity, EditRefused, CreateAsk, db
<1> QED BY <1>3, <1>4, <1>5, <1>6, <1>7, <1>8, <1>9, <1>10 DEF Step

LEMMA StepFresh ==
  ASSUME CopyInv, NEW w \in Workers, Step(w), NEW v \in Workers
  PROVE  Fresh(v)'
<1>0. TypeOK /\ Rowed /\ Frame(w) /\ FlowOf(w) /\ Saving(w) /\ now \in Nat
  BY StepFrame DEF CopyInv, Flow, Sane, TypeOK
<1>1. CASE v # w
  <2> SUFFICES ASSUME pc[v] = "write", row[v].state = "blank", job[v].kind \in {"attend", "confirm"}
               PROVE  /\ \A e \in Events, p \in Emails : rows'[e][p].id # row[v].id
                      /\ \A u \in Workers : (u # v => row'[u].id # row[v].id) /\ \A p \in Emails : wl'[u][p].id # row[v].id
    BY <1>0, <1>1 DEF Frame, Fresh
  <2>1. row[v].id \in Nat /\ row[v].id # 0 /\ row[v].id <= now BY DEF CopyInv, Sane, Copied, TypeOK, Row
  <2>2. /\ \A e \in Events, p \in Emails : rows[e][p].id # row[v].id
        /\ \A u \in Workers : (u # v => row[u].id # row[v].id) /\ \A p \in Emails : wl[u][p].id # row[v].id
    BY DEF CopyInv, Fresh
  <2>3. PICK n : n = row[v].id OBVIOUS
  <2>4. Nowhere(w, n) BY <1>1, <2>2, <2>3 DEF Nowhere
  <2>5. Nowhere(w, n)' BY <2>1, <2>3, <2>4, KeysMove
  <2> QED BY <1>0, <1>1, <2>2, <2>3, <2>5 DEF Nowhere, Frame
<1>2. CASE v = w
  <2>1. CASE LoadOrCreate(w)
    <3>1. CASE Found(w) # NoRow BY <1>0, <1>2, <2>1, <3>1 DEF LoadOrCreate, Goto, TypeOK, Fresh
    <3>2. CASE Found(w) = NoRow
      <4>1. /\ row'[w].id = now + 1 /\ rows' = rows /\ wl' = wl
            /\ \A u \in Workers : u # w => row'[u] = row[u]
        BY <1>0, <2>1, <3>2 DEF LoadOrCreate, TypeOK, NewRow
      <4>2. /\ \A e \in Events, p \in Emails : rows[e][p].id <= now /\ rows[e][p].id \in Nat
            /\ \A u \in Workers : /\ row[u].id <= now /\ row[u].id \in Nat
                                  /\ \A p \in Emails : wl[u][p].id <= now /\ wl[u][p].id \in Nat
        BY <1>0 DEF CopyInv, Sane, Copied, Rowed, TypeOK, Row
      <4> QED BY <1>0, <1>2, <4>1, <4>2 DEF Fresh
    <3> QED BY <3>1, <3>2
  <2>2. ASSUME pc'[w] # "write" \/ row'[w].state # "blank" \/ job'[w].kind \notin {"attend", "confirm"}
        PROVE  Fresh(v)'
    BY <1>2, <2>2 DEF Fresh
  <2>3. CASE AddByEmail(w) BY <1>0, <2>2, <2>3 DEF AddByEmail, TypeOK, NewRow
  <2>4. CASE LoadForEdit(w) BY <1>0, <2>2, <2>4 DEF LoadForEdit
  <2>5. CASE ChangeState(w)
    <3>1. row'[w].state = job[w].want BY <1>0, <2>5 DEF ChangeState, TypeOK, Row
    <3>2. job[w].want # "blank" BY <1>0, <2>5, ParamAssumption DEF ChangeState, FlowOf
    <3> QED BY <2>2, <3>1, <3>2
  <2>6. CASE Clean(w)
    <3>1. pc'[w] = "idle" \/ (row' = row /\ row[w].state = "accept")
      BY <1>0, <2>6 DEF Clean, Finish, Goto, local, Saving, TypeOK
    <3> QED BY <2>2, <3>1
  <2>7. CASE Write(w) \/ CleanOffer(w) \/ LoopEnds(w)
    <3>1. Finish(w) \/ \E l \in {"state", "list", "idle", "promote", "child", "forget", "store"} : Goto(w, l)
      BY <2>7 DEF Write, AfterWrite, CleanOffer, LoopEnds
    <3> QED BY <1>0, <2>2, <3>1 DEF Finish, Goto, TypeOK
  <2>8. CASE LookAgain(w) \/ LoadForDelete(w) \/ LoadChildren(w) \/ ChildrenDone(w) \/ DeleteRow(w)
            \/ ListWaiting(w) \/ Offer(w) \/ Promote(w) \/ FindNoAsk(w)
    BY <1>0, <2>2, <2>8 DEF LookAgain, LoadForDelete, LoadChildren, ChildrenDone, DeleteRow, ListWaiting, Offer, Promote,
                            FindNoAsk, Goto, TypeOK
  <2>9. CASE NextChild(w) BY <1>0, <2>2, <2>9 DEF NextChild, Goto, TypeOK
  <2>10. CASE NothingToDo(w) \/ Refuse(w) \/ WriteConflict(w) \/ PromoteConflict(w)
           \/ Forget(w) \/ StoreCapacity(w) \/ EditRefused(w) \/ CreateAsk(w)
    BY <1>0, <2>2, <2>10 DEF NothingToDo, Refuse, WriteConflict, PromoteConflict, Forget, StoreCapacity, EditRefused, CreateAsk,
                             Finish, Goto, TypeOK
  <2> QED BY <2>1, <2>3, <2>4, <2>5, <2>6, <2>7, <2>8, <2>9, <2>10 DEF Step
<1> QED BY <1>1, <1>2

LEMMA OwesElsewhere ==
  ASSUME NEW w \in Workers, Frame(w), NEW v \in Workers, v # w, NEW e \in Events, rows'[e] = rows[e], Owes(v, e)
  PROVE  Owes(v, e)'
BY DEF Owes, Frame, Tracks, Waiting, Queue

\* An event with more seats taken was not full before, if it is not full now.
LEMMA MoreSeated ==
  ASSUME TypeOK, TypeOK', NEW e \in Events, Seated(e) \subseteq Seated(e)', maxAtt'[e] = maxAtt[e], ~Full(maxAtt[e], e)'
  PROVE  ~Full(maxAtt[e], e)
<1>1. Seated(e) \in SUBSET Emails /\ Seated(e)' \in SUBSET Emails BY DEF Seated
<1>2. /\ Cardinality(Seated(e)) <= Cardinality(Seated(e)')
      /\ Cardinality(Seated(e)) \in Nat /\ Cardinality(Seated(e)') \in Nat
  BY <1>1, Finite, FS_Subset
<1>3. maxAtt[e] \in Nat BY DEF TypeOK
<1>4. ~(maxAtt'[e] # 0 /\ Cardinality(Seated(e)') >= maxAtt'[e]) BY DEF Full
<1> QED BY <1>2, <1>3, <1>4 DEF Full

\* A worker that reads the waiting list offers the seat, and goes on to the next.
LEMMA OwesOn ==
  ASSUME CopyInv, NEW w \in Workers, Step(w), NEW e \in Events, Plain(e), Owes(w, e),
         Waiting(e) # {}, ~Full(maxAtt[e], e), rows'[e] = rows[e]
  PROVE  Owes(w, e)'
<1>0. /\ TypeOK /\ Filling(w) /\ cur[w] = e /\ job[w].kind # "capacity" /\ cap[w] = maxAtt
      /\ SlotMates[e] = {} /\ pc[w] \in {"list"} \cup Looping
  BY DEF CopyInv, Sane, Owes, Plain, Filling, Looping
<1>1. CASE ListWaiting(w)
  <2>1. cur' = cur /\ job' = job /\ pc'[w] = "seat" BY <1>0, <1>1 DEF ListWaiting, Goto, TypeOK
  <2> QED BY <1>0, <1>1, <2>1, ListTracks DEF Owes, Looping
<1>2. CASE Offer(w)
  <2>1. /\ pc[w] = "seat" /\ cur' = cur /\ job' = job /\ wl' = wl /\ rows' = rows /\ pc'[w] = "promote"
    BY <1>0, <1>2 DEF Offer, Goto, TypeOK, db
  <2>2. Tracks(w) BY <2>1 DEF Owes, Looping
  <2>3. Tracks(w)' BY <2>1, <2>2 DEF Tracks, Waiting, Queue
  <2> QED BY <1>0, <2>1, <2>3 DEF Owes, Looping
<1>3. CASE CleanOffer(w) BY <1>0, <1>3 DEF CleanOffer, Filling
<1>4. CASE Promote(w)
  <2>1. /\ cur' = cur /\ job' = job /\ pc'[w] = "seat" /\ pc[w] = "promote"
        /\ \A p \in Emails : wl'[w][p] = IF p = head[w] THEN NoRow ELSE wl[w][p]
    BY <1>0, <1>4 DEF Promote, Goto, TypeOK
  <2>2. Tracks(w) BY <2>1 DEF Owes, Looping
  <2>3. Tracks(w)' BY <1>4, <2>1, <2>2, PromoteTracks
  <2> QED BY <1>0, <2>1, <2>3 DEF Owes, Looping
<1>5. CASE PromoteConflict(w)
  <2>1. pc[w] = "promote" /\ ~Saves(cur[w], head[w], Promoted(w)) BY <1>5 DEF PromoteConflict
  <2>2. Tracks(w) /\ head[w] \in Queue(w) BY <1>0, <2>1 DEF Owes, Looping, Filling
  <2>3. Promoted(w).id = wl[w][head[w]].id BY <1>0 DEF Promoted, TypeOK, Row
  <2> QED BY <2>1, <2>2, <2>3 DEF Tracks, Saves
<1>6. CASE LoopEnds(w)
  <2>1. Tracks(w) BY <1>6 DEF LoopEnds, Owes
  <2> QED BY <1>0, <1>6, <2>1, LoopSettles
<1> QED
  BY <1>0, <1>1, <1>2, <1>3, <1>4, <1>5, <1>6
  DEF Step, Looping, NothingToDo, LoadOrCreate, LookAgain, AddByEmail, LoadForEdit, LoadForDelete, Refuse, ChangeState, Clean,
      Write, WriteConflict, LoadChildren, NextChild, ChildrenDone, DeleteRow, Forget, StoreCapacity, EditRefused, FindNoAsk,
      CreateAsk

\* Whoever owes e a reading still does after w saved the row of p for e in the
\* place of a row with the same key or of none, and put nobody on the list.
LEMMA OwesAfterWrite ==
  ASSUME CopyInv, NEW w \in Workers, Write(w), Frame(w), NEW v \in Workers, v # w,
         NEW e \in Events, e = job[w].ev, Owes(v, e), Waiting(e)' \subseteq Waiting(e)
  PROVE  Owes(v, e)'
<1>0. TypeOK /\ job[w].ev \in Events /\ job[w].who \in Emails BY FoundType DEF CopyInv
<1>1. rows' = [rows EXCEPT ![job[w].ev][job[w].who] = row[w]] /\ rows[job[w].ev][job[w].who].id \in {row[w].id, 0}
  BY DEF Write, Saves
<1>2. Queue(v)' = Queue(v) /\ wl'[v] = wl[v] /\ cur'[v] = cur[v] /\ pc'[v] = pc[v] /\ job'[v] = job[v]
  BY DEF Frame, Queue
<1>3. CASE pc[v] = "list" BY <1>2, <1>3 DEF Owes
<1>4. CASE Tracks(v)
  <2>1. \A p \in Queue(v) : wl[v][p].id # 0 BY DEF Queue, CopyInv, Sane, Copied
  <2>2. \A p \in Queue(v) : rows'[e][p].id = wl[v][p].id BY <1>0, <1>1, <1>4, <2>1 DEF Tracks, Owes, TypeOK, Queue
  <2>3. Tracks(v)' BY <1>2, <1>4, <2>2 DEF Tracks, Owes
  <2> QED BY <1>2, <2>3 DEF Owes
<1> QED BY <1>3, <1>4 DEF Owes

LEMMA StepServed ==
  ASSUME CopyInv, Served, NEW w \in Workers, Step(w), NEW e \in Events, Plain(e),
         Waiting(e)' # {}, ~Full(maxAtt[e], e)'
  PROVE  \E v \in Workers : Owes(v, e)'
<1>0. /\ TypeOK /\ TypeOK' /\ Frame(w) /\ Sane(w) /\ Fresh(w) /\ FlowOf(w)
      /\ job[w].ev \in Events /\ job[w].who \in Emails /\ row[w] \in Row /\ cur[w] \in Events
  BY StepType, StepFrame, FoundType DEF CopyInv, Flow, TypeOK
<1>1. CASE rows'[e] = rows[e] /\ maxAtt'[e] = maxAtt[e]
  <2>1. Waiting(e) # {} /\ ~Full(maxAtt[e], e) BY <1>1 DEF Waiting, Full, Seated
  <2>2. PICK v \in Workers : Owes(v, e) BY <2>1 DEF Served
  <2>3. CASE v # w BY <1>0, <1>1, <2>2, <2>3, OwesElsewhere
  <2>4. CASE v = w BY <1>1, <2>1, <2>2, <2>4, OwesOn
  <2> QED BY <2>3, <2>4
<1>2. CASE StoreCapacity(w)
  <2>1. /\ rows' = rows /\ pc[w] = "store" /\ maxAtt' = [maxAtt EXCEPT ![job[w].ev] = cap[w][job[w].ev]]
    BY <1>2 DEF StoreCapacity
  <2>2. CASE job[w].ev = e
    <3>1. Waiting(e) # {} /\ ~Full(cap[w][e], e) BY <1>0, <2>1, <2>2 DEF Waiting, Full, Seated, TypeOK
    <3> QED BY <1>0, <2>1, <2>2, <3>1 DEF Sane, Filling
  <2>3. CASE job[w].ev # e BY <1>0, <1>1, <2>1, <2>3 DEF TypeOK
  <2> QED BY <2>2, <2>3
<1>3. CASE Write(w)
  <2>0. /\ rows' = [rows EXCEPT ![job[w].ev][job[w].who] = row[w]] /\ maxAtt' = maxAtt /\ pc[w] = "write"
        /\ rows[job[w].ev][job[w].who].id \in {row[w].id, 0}
    BY <1>3 DEF Write, Saves
  <2>1. CASE job[w].ev # e
    BY <1>0, <2>0, <2>1, <1>1 DEF TypeOK
  <2>2. CASE job[w].ev = e /\ AfterWrite(w) = "list"
    <3>1. pc'[w] = "list" /\ cur' = cur /\ job' = job /\ cur[w] = job[w].ev /\ job[w].kind \in {"attend", "confirm"}
      BY <1>0, <1>3, <2>0, <2>2 DEF Write, AfterWrite, Goto, local, TypeOK, Sane, Saving
    <3> QED BY <2>2, <3>1 DEF Owes
  <2>3. ASSUME job[w].ev = e, Waiting(e)' \subseteq Waiting(e), Seated(e) \subseteq Seated(e)'
        PROVE  \E v \in Workers : Owes(v, e)'
    <3>1. Waiting(e) # {} /\ ~Full(maxAtt[e], e) BY <1>0, <2>0, <2>3, MoreSeated
    <3>2. PICK v \in Workers : Owes(v, e) BY <3>1 DEF Served
    <3>3. v # w BY <2>0, <3>2 DEF Owes, Looping
    <3> QED BY <1>0, <1>3, <2>3, <3>2, <3>3, OwesAfterWrite
  <2>4. ASSUME job[w].ev = e, row[w].state = rows[e][job[w].who].state \/ (row[w].state # "waitinglist" /\ rows[e][job[w].who].state # "accept")
                              \/ row[w].state = "accept"
        PROVE  \E v \in Workers : Owes(v, e)'
    BY <1>0, <2>0, <2>4, <2>3 DEF TypeOK, Waiting, Seated
  <2>5. CASE job[w].ev = e /\ job[w].kind \in {"attend", "confirm"} /\ row[w].state = "blank"
    <3>1. rows[e][job[w].who].id = 0 BY <1>0, <2>0, <2>5 DEF Fresh
    <3>2. rows[e][job[w].who].state = "absent" BY <1>0, <3>1 DEF CopyInv, Rowed, NoRow
    <3> QED BY <2>4, <2>5, <3>2
  <2>6. CASE job[w].ev = e /\ job[w].kind \in {"attend", "confirm"} /\ row[w].state # "blank" /\ AfterWrite(w) # "list"
    BY <1>0, <2>0, <2>6, <2>4 DEF AfterWrite, Sane, Saving
  <2>7. CASE job[w].ev = e /\ job[w].kind \notin {"attend", "confirm"}
    BY <1>0, <2>0, <2>7, <2>4 DEF FlowOf, Sane, Saving
  <2> QED BY <2>1, <2>2, <2>5, <2>6, <2>7
<1>4. CASE DeleteRow(w)
  <2>0. /\ rows' = rows \/ rows' = [rows EXCEPT ![cur[w]][job[w].who] = NoRow]
        /\ maxAtt' = maxAtt /\ pc[w] = "del" /\ pc'[w] = "list" /\ cur' = cur /\ job' = job
    BY <1>0, <1>4 DEF DeleteRow, Goto, TypeOK
  <2>1. CASE cur[w] # e
    BY <1>0, <2>0, <2>1, <1>1 DEF TypeOK
  <2>2. CASE cur[w] = e
    BY <1>0, <2>0, <2>2 DEF Sane, Filling, Looping, Owes
  <2> QED BY <2>1, <2>2
<1>5. CASE Promote(w)
  <2>0. /\ rows' = [rows EXCEPT ![cur[w]][head[w]] = Promoted(w)] /\ maxAtt' = maxAtt /\ cur' = cur /\ job' = job
        /\ \A v \in Workers, p \in Emails : wl'[v][p] = IF v = w /\ p = head[w] THEN NoRow ELSE wl[v][p]
        /\ pc[w] = "promote" /\ pc'[w] = "seat" /\ head[w] \in Emails
    BY <1>0, <1>5 DEF Promote, Goto, TypeOK
  <2>1. CASE cur[w] # e
    BY <1>0, <2>0, <2>1, <1>1 DEF TypeOK
  <2>2. CASE cur[w] = e
    <3>1. Promoted(w).state = "accept" BY <1>0, <2>0 DEF Promoted, TypeOK, Row
    <3>2. \A p \in Emails : rows'[e][p] = IF p = head[w] THEN Promoted(w) ELSE rows[e][p]
      BY <1>0, <2>0, <2>2 DEF TypeOK
    <3>3. Waiting(e)' \subseteq Waiting(e) /\ Seated(e) \subseteq Seated(e)' BY <3>1, <3>2 DEF Waiting, Seated
    <3>4. Waiting(e) # {} /\ ~Full(maxAtt[e], e) BY <1>0, <2>0, <3>3, MoreSeated
    <3>5. PICK v \in Workers : Owes(v, e) BY <3>4 DEF Served
    <3>6. cur[v] = e /\ cur'[v] = cur[v] /\ job'[v] = job[v] /\ (v # w => pc'[v] = pc[v])
      BY <1>0, <2>0, <3>5 DEF Owes, Frame
    <3>7. Tracks(v) => Tracks(v)' BY <1>5, <2>0, <2>2, <3>6, PromoteTracks
    <3> QED BY <2>0, <3>5, <3>6, <3>7 DEF Owes, Looping
  <2> QED BY <2>1, <2>2
<1>6. CASE UNCHANGED <<rows, maxAtt>> BY <1>1, <1>6
<1> QED
  BY <1>2, <1>3, <1>4, <1>5, <1>6
  DEF Step, NothingToDo, LoadOrCreate, LookAgain, AddByEmail, LoadForEdit, LoadForDelete, Refuse, ChangeState, Clean,
      WriteConflict, LoadChildren, NextChild, ChildrenDone, ListWaiting, Offer, CleanOffer, PromoteConflict, LoopEnds,
      Forget, EditRefused, FindNoAsk, CreateAsk, db

\* A request keeps its worker until it is answered.
LEMMA StepJob ==
  ASSUME TypeOK, NEW w \in Workers, Step(w)
  PROVE  job' = job \/ job'[w] = NoJob
<1>1. Finish(w) => job'[w] = NoJob BY DEF Finish, TypeOK
<1> QED
  BY <1>1 DEF Step, NothingToDo, LoadOrCreate, LookAgain, AddByEmail, LoadForEdit, LoadForDelete, Refuse, ChangeState, Clean,
      Write, WriteConflict, LoadChildren, NextChild, ChildrenDone, DeleteRow, ListWaiting, Offer, CleanOffer, Promote,
      PromoteConflict, LoopEnds, Forget, StoreCapacity, EditRefused, FindNoAsk, CreateAsk, local

LEMMA ArriveSeats ==
  ASSUME CopyInv, NEW w \in Workers, Arrive(w)
  PROVE  /\ pc[w] = "idle" /\ pc'[w] \in {"get", "list"} /\ UNCHANGED <<rows, maxAtt, now, row, wl>>
         /\ job'[w].kind \in Kinds /\ cur'[w] = job'[w].ev
         /\ IF job'[w].kind = "capacity" THEN pc'[w] = "list" ELSE pc'[w] = "get" /\ cap'[w] = maxAtt
<1>0. TypeOK BY DEF CopyInv
<1>1. PICK k, e, p, x, c, limits, label :
        /\ k \in Kinds
        /\ Start(w, k, e, p, x, c, limits, label)
        /\ IF k = "capacity" THEN label = "list" ELSE label = "get" /\ limits = maxAtt
  BY DEF Arrive, Request, Confirm, EditCapacity
<1> QED BY <1>0, <1>1 DEF Start, Goto, TypeOK

LEMMA ArriveCopyInv ==
  ASSUME CopyInv, OneWorker \/ Calm, NEW w \in Workers, Arrive(w)
  PROVE  CopyInv' /\ (Served => Served')
<1>0. /\ TypeOK /\ TypeOK' /\ Flow' /\ Frame(w) /\ now \in Nat
      /\ pc[w] = "idle" /\ pc'[w] \in {"get", "list"} /\ UNCHANGED <<rows, maxAtt, now, row, wl>>
      /\ job'[w].kind \in Kinds /\ cur'[w] = job'[w].ev
      /\ IF job'[w].kind = "capacity" THEN pc'[w] = "list" ELSE pc'[w] = "get" /\ cap'[w] = maxAtt
  BY ArriveType, ArriveFlow, ArriveFrame, ArriveSeats DEF CopyInv, TypeOK
<1>1. Rowed' BY <1>0 DEF CopyInv, Rowed
<1>2. Sane(w)'
  BY <1>0 DEF CopyInv, Sane, Copied, Saving, Filling, Looping
<1>3. ASSUME NEW v \in Workers
      PROVE  Sane(v)' /\ Fresh(v)'
  BY <1>0, <1>2, OthersSane DEF Fresh, CopyInv, Frame
<1>4. ASSUME Served, NEW e \in Events, Plain(e), Waiting(e)' # {}, ~Full(maxAtt[e], e)'
      PROVE  \E v \in Workers : Owes(v, e)'
  <2>1. Waiting(e) # {} /\ ~Full(maxAtt[e], e) BY <1>0, <1>4 DEF Waiting, Full, Seated
  <2>2. PICK v \in Workers : Owes(v, e) BY <1>4, <2>1 DEF Served
  <2>3. v # w BY <1>0, <2>2 DEF Owes, Looping
  <2> QED BY <1>0, <2>2, <2>3, OwesElsewhere
<1>5. Served => Served' BY <1>4 DEF Served, Plain
<1> QED BY <1>0, <1>1, <1>3, <1>5 DEF CopyInv

LEMMA StepCopyInv ==
  ASSUME CopyInv, OneWorker \/ Calm, NEW w \in Workers, Step(w)
  PROVE  CopyInv'
<1>0. /\ TypeOK /\ Flow /\ TypeOK' /\ Flow' /\ Frame(w) /\ now' \in {now, now + 1} /\ Sane(w)
  BY StepType, StepFlow, StepFrame, StepClock DEF CopyInv
<1>1. maxAtt' = maxAtt \/ job[w].kind = "capacity" BY <1>0, StepClock DEF StoreCapacity, Sane, Filling
<1>2. Sane(w)'
  <2>1. job'[w].kind \in Kinds \cup {"none"}
    <3>1. job' = job \/ job'[w] = NoJob BY <1>0, StepJob
    <3> QED BY <1>0, <3>1 DEF Sane, NoJob
  <2> QED BY <2>1, StepCopied, StepSaving, StepFilling DEF Sane
<1>3. \A v \in Workers : Sane(v)' /\ Fresh(v)' BY <1>0, <1>1, <1>2, OthersSane, StepFresh
<1> QED BY <1>0, <1>3, StepRowed DEF CopyInv

\* A killed worker drops its copies; the others keep theirs.
LEMMA CrashCopyInv ==
  ASSUME CopyInv, OneWorker \/ Calm, NEW w \in Workers, Crash(w)
  PROVE  CopyInv'
<1>0. /\ TypeOK /\ Finish(w) /\ UNCHANGED <<rows, maxAtt, asks, now, left>> /\ now \in Nat
  BY DEF Crash, db, CopyInv, TypeOK
<1>1. TypeOK' /\ Flow' /\ Frame(w) BY <1>0, FinishTypes, FlowFinish, FinishFrame DEF CopyInv, TypeOK
<1>2. Rowed' BY <1>0 DEF CopyInv, Rowed
<1>3. /\ Sane(w)' /\ Fresh(w)' /\ row'[w].id = 0 /\ \A p \in Emails : wl'[w][p].id = 0 BY <1>0, FinishSane
<1>4. ASSUME NEW v \in Workers, v # w
      PROVE  Sane(v)' /\ Fresh(v)'
  <2>1. Sane(v)' BY <1>0, <1>1, <1>4, OthersSane
  <2>2. Fresh(v) /\ row[v].id \in Nat /\ (pc[v] = "write" => row[v].id # 0) BY DEF CopyInv, Sane, Copied, TypeOK, Row
  <2>3. Fresh(v)' BY <1>0, <1>1, <1>3, <1>4, <2>2 DEF Fresh, Frame
  <2> QED BY <2>1, <2>3
<1> QED BY <1>1, <1>2, <1>3, <1>4 DEF CopyInv

LEMMA InitSeatInv == Init => SeatInv
<1> SUFFICES ASSUME Init PROVE SeatInv OBVIOUS
<1>1. TypeOK /\ Flow BY InitType DEF Init, Flow, FlowOf, NoJob
<1>2. Rowed BY DEF Init, Rowed
<1>3. ASSUME NEW w \in Workers
      PROVE  Sane(w) /\ Fresh(w)
  <2>1. pc[w] = "idle" /\ job[w] = NoJob /\ row[w] = NoRow /\ wl[w] = NoQueue /\ now \in Nat
    BY ParamAssumption DEF Init
  <2>2. NoRow.id = 0 /\ NoJob.kind = "none" /\ \A p \in Emails : NoQueue[p] = NoRow BY DEF NoRow, NoJob, NoQueue
  <2> QED BY <2>1, <2>2 DEF Sane, Copied, Saving, Filling, Fresh, Looping
<1>4. Served BY DEF Init, Settled, Served
<1> QED BY <1>1, <1>2, <1>3, <1>4 DEF CopyInv, SeatInv

LEMMA StutterCopyInv ==
  ASSUME CopyInv, UNCHANGED vars
  PROVE  CopyInv' /\ (Served => Served')
<1>1. TypeOK' /\ Flow' /\ Rowed' BY DEF vars, CopyInv, TypeOK, Flow, FlowOf, Rowed
<1>2. ASSUME NEW w \in Workers PROVE Sane(w)' /\ Fresh(w)'
  <2>1. Sane(w) /\ Fresh(w) BY DEF CopyInv
  <2>2. Copied(w)' /\ Saving(w)' /\ Fresh(w)' BY <2>1 DEF vars, Sane, Copied, Saving, Fresh
  <2>3. Filling(w)' BY <2>1 DEF vars, Sane, Filling, Tracks, Queue, Waiting, Full, Seated, Plain
  <2> QED BY <2>1, <2>2, <2>3 DEF vars, Sane
<1>3. Served => Served' BY DEF vars, Served, Owes, Tracks, Queue, Waiting, Full, Seated, Plain
<1> QED BY <1>1, <1>2, <1>3 DEF CopyInv

LEMMA SeatsQuiet == SeatInv => NoIdleSeat
BY DEF SeatInv, Served, NoIdleSeat, Quiet, Owes, Looping

LEMMA NextSeatInv ==
  ASSUME NoCrash, OneWorker \/ Calm, SeatInv, [Next]_vars
  PROVE  SeatInv'
<1>1. CASE UNCHANGED vars BY <1>1, StutterCopyInv DEF SeatInv
<1>2. ASSUME NEW w \in Workers, Arrive(w) PROVE SeatInv' BY <1>2, ArriveCopyInv DEF SeatInv
<1>3. ASSUME NEW w \in Workers, Step(w) PROVE SeatInv' BY <1>3, StepCopyInv, StepServed DEF SeatInv, Served, Plain
<1> QED BY <1>1, <1>2, <1>3 DEF Next, Crash, NoCrash

\* Whenever no request is being served, a plain event on whose waiting list
\* somebody stands is full: with one worker whatever is requested, and with any
\* number of workers as long as no row is saved from a copy that does not ask
\* for a state, and no maximum is edited.  No worker may be killed.
THEOREM SeatsNeverIdle ==
  ASSUME NoCrash, OneWorker \/ Calm
  PROVE  Spec => []NoIdleSeat
<1>1. SeatInv /\ [Next]_vars => SeatInv' BY NextSeatInv
<1> QED BY <1>1, InitSeatInv, SeatsQuiet, PTL DEF Spec

(***************************************************************************)
(* Requests served one after the other.                                    *)
(***************************************************************************)

\* A seat that is about to be saved clashes with no other of its slot.
KeepsSlots(w) ==
  /\ pc[w] = "write" /\ row[w].state = "accept" /\ SlotMates[job[w].ev] # {} => ~Clash(job[w].ev, job[w].who)
  /\ pc[w] = "promote" /\ SlotMates[cur[w]] # {} => ~Clash(cur[w], head[w])

\* w is busy with a sub-event of the event it deletes a row of.
InKids(w) == pc[w] = "child" \/ (pc[w] \in {"del", "list"} \cup Looping /\ cur[w] # job[w].ev)

\* The sub-events w is done with have no row of the person who leaves, and no
\* copy of one is left that could be saved again.
LeavesKids(w) ==
  LET j == job[w]
  IN  /\ InKids(w) => todo[w] \subseteq Children[j.ev]
      /\ InKids(w) => \A c \in Children[j.ev] \ todo[w] : (pc[w] = "del" /\ c = cur[w]) \/ rows[c][j.who] = NoRow
      /\ pc[w] \in {"del", "list"} \cup Looping /\ cur[w] # j.ev => cur[w] \in Children[j.ev] \ todo[w]
      /\ pc[w] \in Looping /\ cur[w] # j.ev => j.who \notin Queue(w)
      /\ pc[w] = "del" /\ cur[w] # j.ev => rows[cur[w]][j.who].id = del[w]

KeepsCode(w) == pc[w] = "ask" => asks[job[w].ev][job[w].who] = {}

FewCodes == \A e \in Events, p \in Emails : IsFiniteSet(asks[e][p]) /\ Cardinality(asks[e][p]) <= 1

AloneInv ==
  /\ \A w \in Workers : KeepsSlots(w) /\ LeavesKids(w) /\ KeepsCode(w)
  /\ SlotExclusive /\ LeavesSubEventsFirst /\ FewCodes

\* One more seat, that clashes with none, keeps the slots exclusive.
LEMMA OneMoreSeat ==
  ASSUME TypeOK, SlotExclusive, NEW f \in Events, NEW q \in Emails,
         \A e \in Events, p \in Emails :
           rows'[e][p].state = "accept" /\ ~(e = f /\ p = q) => rows[e][p].state = "accept",
         rows'[f][q].state = "accept" /\ SlotMates[f] # {} => ~Clash(f, q)
  PROVE  SlotExclusive'
BY ParamAssumption DEF SlotExclusive, Seated, Clash

LEMMA StepKeepsSlots ==
  ASSUME CopyInv, NEW w \in Workers, Step(w), KeepsSlots(w)
  PROVE  KeepsSlots(w)'
<1>0. TypeOK /\ TypeOK' /\ job[w].ev \in Events /\ Found(w) \in Row BY StepType, FoundType DEF CopyInv
<1>1. ASSUME pc'[w] \notin {"write", "promote"} PROVE KeepsSlots(w)' BY <1>1 DEF KeepsSlots
<1>2. ASSUME pc'[w] = "write", row'[w].state = "accept" => SlotMates[job[w].ev] = {}, job' = job PROVE KeepsSlots(w)'
  BY <1>2 DEF KeepsSlots
<1>3. ASSUME NEW r \in Row, Goto(w, SaveLabel(job[w].ev, r)), row' = [row EXCEPT ![w] = r], job' = job PROVE KeepsSlots(w)'
  BY <1>0, <1>1, <1>2, <1>3 DEF Goto, SaveLabel, NeedsClean, TypeOK
<1>4. CASE LoadOrCreate(w)
  <2>1. job' = job /\ (pc'[w] = "state" \/ (pc'[w] = "write" /\ row'[w].state = "blank"))
    BY <1>0, <1>4 DEF LoadOrCreate, Goto, TypeOK, NewRow
  <2> QED BY <1>1, <1>2, <2>1
<1>5. CASE AddByEmail(w) \/ LoadForEdit(w) \/ ChangeState(w)
  BY <1>5, <1>0, <1>3 DEF AddByEmail, LoadForEdit, ChangeState, TypeOK
<1>6. CASE Clean(w) BY <1>0, <1>6 DEF Clean, KeepsSlots, Clash, Goto, Finish, db, local, TypeOK
<1>7. CASE Offer(w) BY <1>0, <1>7 DEF Offer, KeepsSlots, Clash, Goto, db, TypeOK
<1>8. CASE CleanOffer(w) BY <1>0, <1>8 DEF CleanOffer, KeepsSlots, Clash, Goto, Finish, db, local, TypeOK
<1>9. CASE NextChild(w) BY <1>0, <1>1, <1>9 DEF NextChild, Goto, TypeOK
<1>10. CASE LookAgain(w) \/ LoadForDelete(w) \/ LoadChildren(w) \/ ChildrenDone(w) \/ DeleteRow(w) \/ ListWaiting(w)
           \/ Promote(w) \/ FindNoAsk(w) \/ LoopEnds(w) \/ Write(w)
  BY <1>0, <1>1, <1>10 DEF LookAgain, LoadForDelete, LoadChildren, ChildrenDone, DeleteRow, ListWaiting, Promote, FindNoAsk,
                           LoopEnds, Write, AfterWrite, Goto, Finish, TypeOK
<1>11. CASE NothingToDo(w) \/ Refuse(w) \/ WriteConflict(w) \/ PromoteConflict(w)
           \/ Forget(w) \/ StoreCapacity(w) \/ EditRefused(w) \/ CreateAsk(w)
  BY <1>0, <1>1, <1>11 DEF NothingToDo, Refuse, WriteConflict, PromoteConflict, Forget, StoreCapacity, EditRefused, CreateAsk,
                           Finish, Goto, TypeOK
<1> QED BY <1>4, <1>5, <1>6, <1>7, <1>8, <1>9, <1>10, <1>11 DEF Step

LEMMA StepExclusive ==
  ASSUME CopyInv, NEW w \in Workers, Step(w), KeepsSlots(w), SlotExclusive
  PROVE  SlotExclusive'
<1>0. TypeOK /\ job[w].ev \in Events /\ job[w].who \in Emails /\ cur[w] \in Events /\ head[w] \in Emails
  BY FoundType DEF CopyInv, TypeOK
<1>1. CASE rows' = rows BY <1>1 DEF SlotExclusive, Seated
<1>2. CASE Write(w)
  <2>1. rows' = [rows EXCEPT ![job[w].ev][job[w].who] = row[w]] /\ pc[w] = "write" BY <1>2 DEF Write
  <2>2. \A e \in Events, p \in Emails : ~(e = job[w].ev /\ p = job[w].who) => rows'[e][p] = rows[e][p]
    BY <1>0, <2>1 DEF TypeOK
  <2>3. rows'[job[w].ev][job[w].who] = row[w] BY <1>0, <2>1 DEF TypeOK
  <2> QED BY <1>0, <2>1, <2>2, <2>3, OneMoreSeat DEF KeepsSlots
<1>3. CASE Promote(w)
  <2>1. rows' = [rows EXCEPT ![cur[w]][head[w]] = Promoted(w)] /\ pc[w] = "promote" BY <1>3 DEF Promote
  <2>2. \A e \in Events, p \in Emails : ~(e = cur[w] /\ p = head[w]) => rows'[e][p] = rows[e][p]
    BY <1>0, <2>1 DEF TypeOK
  <2> QED BY <1>0, <2>1, <2>2, OneMoreSeat DEF KeepsSlots
<1>4. CASE DeleteRow(w)
  <2>1. \A e \in Events, p \in Emails : rows'[e][p] \in {rows[e][p], NoRow} BY <1>0, <1>4 DEF DeleteRow, TypeOK
  <2>2. \A e \in Events : Seated(e)' \subseteq Seated(e) BY <2>1 DEF Seated, NoRow
  <2>3. \A e \in Events : SlotMates[e] \subseteq Events BY ParamAssumption
  <2> QED BY <2>2, <2>3 DEF SlotExclusive
<1> QED
  BY <1>1, <1>2, <1>3, <1>4
  DEF Step, NothingToDo, LoadOrCreate, LookAgain, AddByEmail, LoadForEdit, LoadForDelete, Refuse, ChangeState, Clean,
      WriteConflict, LoadChildren, NextChild, ChildrenDone, ListWaiting, Offer, CleanOffer, PromoteConflict, LoopEnds,
      Forget, StoreCapacity, EditRefused, FindNoAsk, CreateAsk, db

LEMMA StepLeavesKids ==
  ASSUME CopyInv, NEW w \in Workers, Step(w), LeavesKids(w)
  PROVE  LeavesKids(w)'
<1>0. /\ TypeOK /\ job[w].ev \in Events /\ job[w].who \in Emails /\ cur[w] \in Events /\ head[w] \in Emails
      /\ Saving(w) /\ Filling(w)
  BY FoundType DEF CopyInv, Sane, TypeOK
<1>1. ASSUME pc'[w] \notin {"child", "del", "list"} \cup Looping PROVE LeavesKids(w)' BY <1>1 DEF LeavesKids, InKids
<1>2. ASSUME pc'[w] # "child", cur'[w] = job'[w].ev PROVE LeavesKids(w)' BY <1>2 DEF LeavesKids, InKids
<1>3. CASE Finish(w) BY <1>0, <1>1, <1>3 DEF Finish, Goto, TypeOK, Looping
<1>4. CASE LoadOrCreate(w) \/ LookAgain(w) \/ AddByEmail(w) \/ LoadForEdit(w) \/ ChangeState(w) \/ FindNoAsk(w)
  <2>1. \E l \in {"state", "write", "again", "clean", "ask"} : Goto(w, l)
    BY <1>4 DEF LoadOrCreate, LookAgain, AddByEmail, LoadForEdit, ChangeState, FindNoAsk, SaveLabel
  <2> QED BY <1>0, <1>1, <2>1 DEF Goto, TypeOK, Looping
<1>5. CASE Clean(w) BY <1>0, <1>1, <1>3, <1>5 DEF Clean, Goto, TypeOK, Looping
<1>6. CASE Write(w)
  <2>1. CASE UNCHANGED local /\ pc'[w] # "child" BY <1>0, <1>2, <1>6, <2>1 DEF Write, local, Saving
  <2> QED BY <1>0, <1>3, <1>6, <2>1 DEF Write, AfterWrite, Goto, TypeOK
<1>7. CASE LoadForDelete(w) BY <1>0, <1>2, <1>7 DEF LoadForDelete, Goto, Saving, TypeOK
<1>8. CASE LoadChildren(w)
  BY <1>0, <1>8 DEF LoadChildren, Goto, TypeOK, LeavesKids, Looping
<1>9. CASE NextChild(w)
  <2>1. PICK c \in todo[w] :
          /\ todo' = [todo EXCEPT ![w] = @ \ {c}]
          /\ IF rows[c][job[w].who] = NoRow
               THEN UNCHANGED <<pc, cur, del>>
               ELSE /\ Goto(w, "del")
                    /\ cur' = [cur EXCEPT ![w] = c]
                    /\ del' = [del EXCEPT ![w] = rows[c][job[w].who].id]
    BY <1>9 DEF NextChild
  <2>2. job' = job /\ rows' = rows /\ todo'[w] = todo[w] \ {c} /\ pc[w] = "child"
    BY <1>0, <1>9, <2>1 DEF NextChild, db, TypeOK
  <2>3. todo[w] \subseteq Children[job[w].ev] /\ \A b \in Children[job[w].ev] \ todo[w] : rows[b][job[w].who] = NoRow
    BY <2>2 DEF LeavesKids, InKids
  <2>4. CASE rows[c][job[w].who] = NoRow
    BY <2>1, <2>2, <2>4, <2>3 DEF LeavesKids, Looping
  <2>5. CASE rows[c][job[w].who] # NoRow
    <3>1. pc'[w] = "del" /\ cur'[w] = c /\ del'[w] = rows[c][job[w].who].id BY <1>0, <2>1, <2>5 DEF Goto, TypeOK
    <3> QED BY <2>1, <2>2, <2>3, <3>1 DEF LeavesKids, Looping
  <2> QED BY <2>4, <2>5
<1>10. CASE ChildrenDone(w) BY <1>0, <1>2, <1>10 DEF ChildrenDone, Goto, TypeOK
<1>11. ASSUME pc'[w] # "child", cur' = cur, job' = job, cur[w] = job[w].ev PROVE LeavesKids(w)' BY <1>2, <1>11
<1>12. CASE DeleteRow(w)
  <2>1. pc[w] = "del" /\ pc'[w] = "list" /\ cur' = cur /\ job' = job /\ todo' = todo
    BY <1>0, <1>12 DEF DeleteRow, Goto, TypeOK
  <2>2. CASE cur[w] # job[w].ev
    <3>1. /\ rows[cur[w]][job[w].who].id = del[w] /\ cur[w] \in Children[job[w].ev] \ todo[w]
          /\ todo[w] \subseteq Children[job[w].ev]
          /\ \A c \in Children[job[w].ev] \ todo[w] : c = cur[w] \/ rows[c][job[w].who] = NoRow
      BY <2>1, <2>2 DEF LeavesKids, InKids
    <3>2. rows' = [rows EXCEPT ![cur[w]][job[w].who] = NoRow] BY <1>12, <3>1 DEF DeleteRow
    <3>3. \A c \in Children[job[w].ev] \ todo[w] : rows'[c][job[w].who] = NoRow
      BY <1>0, ParamAssumption, <3>1, <3>2 DEF TypeOK
    <3> QED BY <2>1, <3>1, <3>3 DEF LeavesKids, Looping
  <2> QED BY <1>11, <2>1, <2>2
<1>13. CASE ListWaiting(w)
  <2>1. /\ pc[w] = "list" /\ pc'[w] = "seat" /\ cur' = cur /\ job' = job /\ todo' = todo /\ rows' = rows
        /\ \A p \in Emails : wl'[w][p] = IF p \in Waiting(cur[w]) THEN rows[cur[w]][p] ELSE NoRow
    BY <1>0, <1>13 DEF ListWaiting, Goto, TypeOK, db
  <2>2. CASE cur[w] # job[w].ev
    BY <2>1, <2>2, <1>0 DEF LeavesKids, InKids, Queue, Looping
  <2> QED BY <1>11, <2>1, <2>2
<1>14. CASE Offer(w) \/ (CleanOffer(w) /\ ~Finish(w)) \/ Promote(w)
  <2>1. /\ pc[w] \in Looping /\ pc'[w] \in Looping /\ cur' = cur /\ job' = job /\ todo' = todo
        /\ \A p \in Emails : wl'[w][p] \in {wl[w][p], NoRow}
        /\ rows' = rows \/ (pc[w] = "promote" /\ rows' = [rows EXCEPT ![cur[w]][head[w]] = Promoted(w)])
    BY <1>0, <1>14 DEF Offer, CleanOffer, Promote, Goto, TypeOK, db, local, Looping
  <2>2. CASE cur[w] # job[w].ev
    <3>1. /\ cur[w] \in Children[job[w].ev] \ todo[w] /\ todo[w] \subseteq Children[job[w].ev]
          /\ \A c \in Children[job[w].ev] \ todo[w] : rows[c][job[w].who] = NoRow
          /\ job[w].who \notin Queue(w)
      BY <2>1, <2>2 DEF LeavesKids, InKids, Looping
    <3>2. pc[w] = "promote" => head[w] # job[w].who BY <1>0, <3>1 DEF Filling
    <3>3. \A c \in Events : rows'[c][job[w].who] = rows[c][job[w].who]
      <4>1. CASE pc[w] = "promote" /\ rows' = [rows EXCEPT ![cur[w]][head[w]] = Promoted(w)]
        BY <1>0, <3>2, <4>1 DEF TypeOK
      <4> QED BY <2>1, <4>1
    <3>4. Children[job[w].ev] \subseteq Events /\ job[w].who \notin Queue(w)'
      BY <1>0, <2>1, <3>1, ParamAssumption DEF Queue
    <3> QED BY <2>1, <3>1, <3>3, <3>4 DEF LeavesKids, Looping
  <2> QED BY <1>11, <2>1, <2>2 DEF Looping
<1>15. CASE LoopEnds(w)
  <2>1. CASE Goto(w, "child") /\ UNCHANGED local /\ cur[w] # job[w].ev
    <3>1. pc[w] = "seat" /\ pc'[w] = "child" /\ rows' = rows /\ job' = job /\ todo' = todo
      BY <1>0, <1>15, <2>1 DEF LoopEnds, db, local, Goto, TypeOK
    <3>2. /\ todo[w] \subseteq Children[job[w].ev]
          /\ \A c \in Children[job[w].ev] \ todo[w] : rows[c][job[w].who] = NoRow
      BY <2>1, <3>1 DEF LeavesKids, InKids, Looping
    <3> QED BY <3>1, <3>2 DEF LeavesKids, Looping
  <2> QED BY <1>0, <1>1, <1>3, <1>15, <2>1 DEF LoopEnds, Goto, TypeOK, Looping
<1>16. CASE NothingToDo(w) \/ Refuse(w) \/ WriteConflict(w) \/ PromoteConflict(w)
           \/ Forget(w) \/ StoreCapacity(w) \/ EditRefused(w) \/ CreateAsk(w)
  BY <1>3, <1>16 DEF NothingToDo, Refuse, WriteConflict, PromoteConflict, Forget, StoreCapacity, EditRefused, CreateAsk
<1> QED BY <1>3, <1>4, <1>5, <1>6, <1>7, <1>8, <1>9, <1>10, <1>12, <1>13, <1>14, <1>15, <1>16 DEF Step

LEMMA StepLeavesFirst ==
  ASSUME CopyInv, NEW w \in Workers, Step(w), LeavesKids(w),
         pc'[w] = "del", cur'[w] = job'[w].ev, job'[w].kind # "confirm"
  PROVE  \A c \in Children[job'[w].ev] : rows'[c][job'[w].who] = NoRow
<1>0. TypeOK /\ job[w].ev \in Events BY FoundType DEF CopyInv
<1>1. CASE LoadForDelete(w)
  BY <1>0, <1>1 DEF LoadForDelete, Goto, TypeOK
<1>2. CASE NextChild(w)
  BY <1>2, <1>0, ParamAssumption DEF NextChild, TypeOK, LeavesKids, InKids
<1>3. CASE ChildrenDone(w)
  BY <1>3 DEF ChildrenDone, db, LeavesKids, InKids
<1>4. CASE LoadOrCreate(w) \/ LookAgain(w) \/ AddByEmail(w) \/ LoadForEdit(w) \/ ChangeState(w) \/ FindNoAsk(w)
           \/ LoadChildren(w) \/ DeleteRow(w) \/ ListWaiting(w) \/ Offer(w) \/ Promote(w)
  <2>1. \E l \in {"state", "write", "again", "clean", "ask", "child", "list", "seat", "offer", "promote"} : Goto(w, l)
    BY <1>4 DEF LoadOrCreate, LookAgain, AddByEmail, LoadForEdit, ChangeState, FindNoAsk, SaveLabel, LoadChildren, DeleteRow,
                ListWaiting, Offer, Promote
  <2> QED BY <1>0, <2>1 DEF Goto, TypeOK
<1>5. CASE Clean(w) \/ Write(w) \/ CleanOffer(w) \/ LoopEnds(w)
  BY <1>0, <1>5 DEF Clean, Write, AfterWrite, CleanOffer, LoopEnds, Goto, Finish, TypeOK
<1>6. CASE NothingToDo(w) \/ Refuse(w) \/ WriteConflict(w) \/ PromoteConflict(w)
           \/ Forget(w) \/ StoreCapacity(w) \/ EditRefused(w) \/ CreateAsk(w)
  BY <1>0, <1>6 DEF NothingToDo, Refuse, WriteConflict, PromoteConflict, Forget, StoreCapacity, EditRefused, CreateAsk,
                    Goto, Finish, TypeOK
<1> QED BY <1>1, <1>2, <1>3, <1>4, <1>5, <1>6 DEF Step

LEMMA StepCodes ==
  ASSUME CopyInv, NEW w \in Workers, Step(w), KeepsCode(w), FewCodes
  PROVE  KeepsCode(w)' /\ FewCodes'
<1>0. TypeOK /\ job[w].ev \in Events /\ job[w].who \in Emails BY FoundType DEF CopyInv
<1>1. ASSUME pc'[w] # "ask", asks' = asks PROVE KeepsCode(w)' /\ FewCodes' BY <1>1 DEF KeepsCode, FewCodes
<1>2. CASE FindNoAsk(w)
  BY <1>2 DEF FindNoAsk, db, local, KeepsCode, FewCodes
<1>3. CASE CreateAsk(w)
  <2>1. asks' = [asks EXCEPT ![job[w].ev][job[w].who] = @ \cup {now + 1}] /\ pc[w] = "ask" /\ pc'[w] = "idle"
    BY <1>0, <1>3 DEF CreateAsk, Finish, Goto, TypeOK
  <2>2. \A e \in Events, p \in Emails : asks'[e][p] \in {asks[e][p], {now + 1}} BY <1>0, <2>1 DEF KeepsCode, TypeOK
  <2>3. IsFiniteSet({now + 1}) /\ Cardinality({now + 1}) = 1 BY FS_Singleton
  <2>4. ASSUME NEW e \in Events, NEW p \in Emails
        PROVE  IsFiniteSet(asks'[e][p]) /\ Cardinality(asks'[e][p]) <= 1
    <3>1. CASE asks'[e][p] = asks[e][p] BY <3>1 DEF FewCodes
    <3>2. CASE asks'[e][p] = {now + 1} BY <2>3, <3>2
    <3> QED BY <2>2, <3>1, <3>2
  <2> QED BY <2>1, <2>4 DEF FewCodes, KeepsCode
<1>4. CASE Forget(w)
  <2>1. asks' = [asks EXCEPT ![job[w].ev][job[w].who] = @ \ {job[w].code}] /\ pc'[w] = "idle"
    BY <1>0, <1>4 DEF Forget, Finish, Goto, TypeOK
  <2>2. \A e \in Events, p \in Emails : asks'[e][p] \subseteq asks[e][p] BY <1>0, <2>1 DEF TypeOK
  <2>3. ASSUME NEW e \in Events, NEW p \in Emails
        PROVE  IsFiniteSet(asks'[e][p]) /\ Cardinality(asks'[e][p]) <= 1
    BY <2>2, FS_Subset, FS_CardinalityType DEF FewCodes
  <2> QED BY <2>1, <2>3 DEF FewCodes, KeepsCode
<1>5. CASE LoadOrCreate(w) \/ LookAgain(w) \/ AddByEmail(w) \/ LoadForEdit(w) \/ LoadForDelete(w) \/ ChangeState(w)
           \/ LoadChildren(w) \/ ChildrenDone(w) \/ DeleteRow(w) \/ ListWaiting(w) \/ Offer(w) \/ Promote(w)
  <2>1. /\ asks' = asks
        /\ \E l \in {"state", "write", "again", "clean", "kids", "del", "child", "list", "seat", "offer", "promote"} : Goto(w, l)
    BY <1>5 DEF LoadOrCreate, LookAgain, AddByEmail, LoadForEdit, LoadForDelete, ChangeState, SaveLabel, LoadChildren,
                ChildrenDone, DeleteRow, ListWaiting, Offer, Promote, db
  <2> QED BY <1>0, <1>1, <2>1 DEF Goto, TypeOK
<1>6. CASE Clean(w) \/ Write(w) \/ CleanOffer(w) \/ LoopEnds(w) \/ NextChild(w)
  BY <1>0, <1>1, <1>6 DEF Clean, Write, AfterWrite, CleanOffer, LoopEnds, NextChild, Goto, Finish, TypeOK, db
<1>7. CASE NothingToDo(w) \/ Refuse(w) \/ WriteConflict(w) \/ PromoteConflict(w) \/ StoreCapacity(w) \/ EditRefused(w)
  BY <1>0, <1>1, <1>7 DEF NothingToDo, Refuse, WriteConflict, PromoteConflict, StoreCapacity, EditRefused,
                    Goto, Finish, TypeOK, db
<1> QED BY <1>2, <1>3, <1>4, <1>5, <1>6, <1>7 DEF Step

\* What one worker that serves all requests keeps, even if it is killed.
SoundRows == TypeOK /\ OneCode /\ SlotExclusive /\ LeavesSubEventsFirst

\* One worker serves all requests and may be killed at any statement: nobody
\* holds two seats of a slot or two codes, and who leaves an event has left its
\* sub-events before.
THEOREM RowsSoundAlone ==
  ASSUME OneWorker
  PROVE  Spec => []SoundRows
<1>. DEFINE Inv == CopyInv /\ AloneInv
<1>1. Init => Inv
  <2> SUFFICES ASSUME Init PROVE AloneInv BY InitSeatInv DEF SeatInv
  <2>1. \A w \in Workers : KeepsSlots(w) /\ LeavesKids(w) /\ KeepsCode(w)
    BY DEF Init, KeepsSlots, LeavesKids, InKids, KeepsCode, Looping
  <2>2. SlotExclusive BY DEF Init, Settled, SlotExclusive
  <2>3. LeavesSubEventsFirst BY DEF Init, LeavesSubEventsFirst
  <2>4. FewCodes
    <3>1. \A e \in Events, p \in Emails : asks[e][p] = {0} \/ asks[e][p] = {} BY DEF Init
    <3>2. IsFiniteSet({0}) /\ Cardinality({0}) = 1 /\ IsFiniteSet({}) /\ Cardinality({}) = 0
      BY FS_Singleton, FS_EmptySet
    <3>3. ASSUME NEW e \in Events, NEW p \in Emails PROVE IsFiniteSet(asks[e][p]) /\ Cardinality(asks[e][p]) <= 1
      BY <3>2, <3>1
    <3> QED BY <3>3 DEF FewCodes
  <2> QED BY <2>1, <2>2, <2>3, <2>4 DEF AloneInv
<1>2. Inv /\ [Next]_vars => Inv'
  <2> SUFFICES ASSUME Inv, [Next]_vars PROVE Inv' OBVIOUS
  <2>1. CASE UNCHANGED vars
    <3>1. CopyInv' BY <2>1, StutterCopyInv
    <3>2. \A w \in Workers : KeepsSlots(w)' /\ LeavesKids(w)' /\ KeepsCode(w)'
      BY <2>1 DEF vars, AloneInv, KeepsSlots, Clash, LeavesKids, InKids, Queue, KeepsCode
    <3>3. SlotExclusive' /\ LeavesSubEventsFirst' /\ FewCodes'
      BY <2>1 DEF vars, AloneInv, SlotExclusive, Seated, LeavesSubEventsFirst, FewCodes
    <3> QED BY <3>1, <3>2, <3>3 DEF AloneInv
  \* A request that arrives, or is cut off, leaves the rows and the codes alone.
  <2>2. ASSUME NEW w \in Workers, CopyInv', rows' = rows, asks' = asks,
               pc'[w] = "idle" \/ (pc'[w] \in {"get", "list"} /\ cur'[w] = job'[w].ev)
        PROVE  Inv'
    <3>1. KeepsSlots(w)' /\ LeavesKids(w)' /\ KeepsCode(w)'
      BY <2>2 DEF KeepsSlots, LeavesKids, InKids, KeepsCode, Looping
    <3>2. SlotExclusive' /\ FewCodes' BY <2>2 DEF AloneInv, SlotExclusive, Seated, FewCodes
    <3>3. LeavesSubEventsFirst' BY <2>2 DEF OneWorker, LeavesSubEventsFirst
    <3> QED BY <2>2, <3>1, <3>2, <3>3 DEF AloneInv, OneWorker
  <2>3. ASSUME NEW w \in Workers, Arrive(w) PROVE Inv'
    <3>1. CopyInv' /\ pc'[w] \in {"get", "list"} /\ rows' = rows /\ asks' = asks /\ cur'[w] = job'[w].ev
      BY <2>3, ArriveCopyInv, ArriveSeats DEF Arrive, Request, Confirm, EditCapacity, Start
    <3> QED BY <2>2, <3>1
  <2>4. ASSUME NEW w \in Workers, Crash(w) PROVE Inv'
    <3>1. CopyInv' /\ pc'[w] = "idle" /\ rows' = rows /\ asks' = asks
      BY <2>4, CrashCopyInv DEF Crash, Finish, Goto, db, CopyInv, TypeOK
    <3> QED BY <2>2, <3>1
  <2>5. ASSUME NEW w \in Workers, Step(w) PROVE Inv'
    <3>1. CopyInv' BY <2>5, StepCopyInv
    <3>2. KeepsSlots(w)' /\ LeavesKids(w)' /\ KeepsCode(w)' /\ SlotExclusive' /\ FewCodes'
      BY <2>5, StepKeepsSlots, StepLeavesKids, StepCodes, StepExclusive DEF AloneInv
    <3>3. LeavesSubEventsFirst'
      BY <2>5, StepLeavesFirst DEF OneWorker, LeavesSubEventsFirst, AloneInv
    <3> QED BY <3>1, <3>2, <3>3 DEF AloneInv, OneWorker
  <2> QED BY <2>1, <2>3, <2>4, <2>5 DEF Next
<1>3. Inv => SoundRows BY DEF SoundRows, CopyInv, AloneInv, FewCodes, OneCode
<1> QED BY <1>1, <1>2, <1>3, PTL DEF Spec

\* One worker serves all requests and is not killed: in addition nobody waits
\* for a plain event with a free seat once the request is answered.
THEOREM SoundAlone ==
  ASSUME NoCrash, OneWorker
  PROVE  Spec => []AttendanceSound
<1>1. SoundRows /\ NoIdleSeat => AttendanceSound BY DEF SoundRows, AttendanceSound
<1> QED BY <1>1, RowsSoundAlone, SeatsNeverIdle, PTL

-----------------------------------------------------------------------------
-----------------------------------------------------------------------------
(***************************************************************************)
(* The letters the site and people write.                                  *)
(***************************************************************************)
\* An account has an address of its own, once it is deleted or before.
OwnBoxes ==
  /\ \A p \in Folk : account[p].box \in Boxes \cup {p}
  /\ \A p, q \in Folk : p # q => account[p].box # account[q].box

\* The number the letters of the next request get.
NextRequest == IF letter = <<>> THEN 1 ELSE letter[Len(letter)].request + 1

\* Letters of one request are told apart; one about a row is about a seat or an
\* invitation; a goodbye is about an account that is gone.
Farewell(l, people) == l.who = NoPerson /\ l.of \in Folk /\ ~people[l.of].active /\ people[l.of].box = l.of
LettersHeld ==
  \A k \in DOMAIN letter :
    /\ letter[k].request < NextRequest
    /\ letter[k].about.id # 0 => letter[k].kind \in OfSeat \cup {"reminder"}
    /\ letter[k].kind = "deleted" => Farewell(letter[k], account)

LettersInv == LettersTypeOK /\ OwnBoxes /\ LettersHeld /\ InvitedOnce /\ NeverTwice /\ HeardOnce

\* Two letters of a list are not one letter written twice.
Changes == {"admin", "noAdmin", "deleted"}
Apart(l, m) == l.who # m.who \/ l.box # m.box
Unrepeated(list) ==
  \A k, m \in DOMAIN list :
    /\ list[k].kind \in {"group", "event"} /\ ~list[k].copy /\ list[m].copy /\ list[k].about # Test => Apart(list[k], list[m])
    /\ k # m /\ list[k].kind \in Changes => Apart(list[k], list[m])

\* What a request writes.
Batch(list) ==
  /\ list \in Seq(LetterRow) /\ letter' = letter \o list
  /\ \A k \in DOMAIN list :
       /\ list[k].request = NextRequest
       /\ list[k].about.id # 0 => list[k].kind \in OfSeat \cup {"reminder"}
       /\ list[k].kind = "deleted" => Farewell(list[k], account')
       /\ list[k].state = "sent" =>
            /\ list[k].who = NoPerson
            /\ list[k].about.id # 0 => list[k].kind # "reminder" /\ list[k].about.id \in {seat[list[k].box].id, seat'[list[k].box].id}
  /\ Unrepeated(list)

\* A list of letters that wait, about no row, of kinds nobody could get twice.
Ordinary(list) ==
  /\ list \in Seq(LetterRow)
  /\ \A k \in DOMAIN list : /\ list[k].request = NextRequest /\ list[k].state = "waiting" /\ list[k].about = Nothing
                            /\ list[k].kind \notin Changes \cup {"group", "event", "welcome"}

-----------------------------------------------------------------------------
\* A set as a list names each member once.
LEMMA ListIs ==
  ASSUME NEW S, IsFiniteSet(S)
  PROVE  /\ SetToSeq(S) \in [1..Cardinality(S) -> S] /\ Cardinality(S) \in Nat /\ SetToSeq(S) \in Seq(S)
         /\ \A i, j \in DOMAIN SetToSeq(S) : SetToSeq(S)[i] = SetToSeq(S)[j] => i = j
<1>1. \E f \in [1..Cardinality(S) -> S] : IsInjective(f)
  BY FS_CardinalityType DEF ExistsBijection, Bijection, Injection
<1>2. SetToSeq(S) \in [1..Cardinality(S) -> S] /\ IsInjective(SetToSeq(S)) BY <1>1 DEF SetToSeq
<1>3. Cardinality(S) \in Nat BY FS_CardinalityType
<1>4. SetToSeq(S) \in Seq(S) BY <1>2, <1>3
<1> QED BY <1>2, <1>3, <1>4 DEF IsInjective

LEMMA FolkListed ==
  ASSUME NEW S \in SUBSET Folk
  PROVE  /\ SetToSeq(S) \in Seq(S) /\ SetToSeq(S) \in Seq(Folk)
         /\ \A i \in DOMAIN SetToSeq(S) : SetToSeq(S)[i] \in S
         /\ \A i, j \in DOMAIN SetToSeq(S) : SetToSeq(S)[i] = SetToSeq(S)[j] => i = j
BY LettersAssumption, FS_Subset, ListIs

LEMMA RequestIs == LettersTypeOK => NextRequest \in Nat
<1> SUFFICES ASSUME LettersTypeOK PROVE NextRequest \in Nat OBVIOUS
<1>1. CASE letter = <<>> BY <1>1 DEF NextRequest
<1>2. CASE letter # <<>>
  <2>1. letter \in Seq(LetterRow) /\ Len(letter) \in 1..Len(letter) BY <1>2 DEF LettersTypeOK
  <2>2. letter[Len(letter)] \in LetterRow BY <2>1
  <2> QED BY <1>2, <2>2 DEF NextRequest, LetterRow
<1> QED BY <1>1, <1>2

LEMMA NothingIs == /\ Nothing \in About /\ Nothing.id = 0
                   /\ Test \in About /\ Test.id = 0
                   /\ NoPerson \notin Folk /\ NoPerson \notin Boxes
BY LettersAssumption DEF Nothing, Test, About

\* A letter as it is written, and a copy of one.
LEMMA LetterIs ==
  ASSUME LettersTypeOK, NEW kind \in Mailers, NEW who \in Folk \cup {NoPerson}, NEW box \in Addresses \cup {NoPerson},
         NEW about \in About, NEW of \in Addresses \cup {NoPerson}, NEW by \in Folk \cup {NoPerson},
         NEW l, l = [kind |-> kind, who |-> who, box |-> box, copy |-> FALSE, about |-> about, of |-> of, by |-> by,
                     request |-> NextRequest, state |-> "waiting", at |-> NoPerson]
  PROVE  /\ l \in LetterRow /\ l.kind = kind /\ l.who = who /\ l.box = box /\ ~l.copy /\ l.about = about /\ l.of = of
         /\ l.request = NextRequest /\ l.state = "waiting"
<1>1. NextRequest \in Nat BY RequestIs
<1> HIDE DEF NextRequest
<1> QED BY <1>1 DEF LetterRow

LEMMA CopyIs ==
  ASSUME LettersTypeOK, NEW kind \in Mailers, NEW who \in Folk \cup {NoPerson}, NEW box \in Addresses \cup {NoPerson},
         NEW about \in About, NEW of \in Addresses \cup {NoPerson}, NEW by \in Folk \cup {NoPerson},
         NEW l, l = [kind |-> kind, who |-> who, box |-> box, copy |-> TRUE, about |-> about, of |-> of, by |-> by,
                     request |-> NextRequest, state |-> "waiting", at |-> NoPerson]
  PROVE  /\ l \in LetterRow /\ l.kind = kind /\ l.who = who /\ l.box = box /\ l.copy /\ l.about = about /\ l.of = of
         /\ l.request = NextRequest /\ l.state = "waiting"
<1>1. NextRequest \in Nat BY RequestIs
<1> HIDE DEF NextRequest
<1> QED BY <1>1 DEF LetterRow

\* A letter that is delivered stays what it was, but for its state and where it went.
LEMMA SentIs ==
  ASSUME LettersTypeOK, NEW l \in LetterRow, NEW s \in {Sent(l), Delivered(l)}
  PROVE  /\ s \in LetterRow
         /\ s.kind = l.kind /\ s.who = l.who /\ s.box = l.box /\ s.copy = l.copy /\ s.about = l.about /\ s.of = l.of /\ s.by = l.by
         /\ s.request = l.request /\ s.state \in {"sent", "dropped", "failed"}
         /\ s.state # "failed" => (s.state = "sent" <=> ~Withheld(l))
         /\ s = Sent(l) /\ s.state = "sent" => ~Unbuilt(l)
         /\ s = Sent(l) /\ s.state = "dropped" => Withheld(l)
         /\ s = Sent(l) /\ s.state = "failed" => Unbuilt(l)
<1>1. Address(l) \in Addresses \cup {NoPerson}
  BY DEF LetterRow, LettersTypeOK, Account, Address
<1>2. ASSUME NEW x \in {"sent", "dropped"}, NEW at \in Addresses \cup {NoPerson}
      PROVE  LET d == [l EXCEPT !.state = x, !.at = at] IN
             /\ d \in LetterRow
             /\ d.kind = l.kind /\ d.who = l.who /\ d.box = l.box /\ d.copy = l.copy /\ d.about = l.about /\ d.of = l.of /\ d.by = l.by
             /\ d.request = l.request /\ d.state = x
  BY DEF LetterRow
<1>3. LET d == [l EXCEPT !.state = "failed"] IN
      /\ d \in LetterRow
      /\ d.kind = l.kind /\ d.who = l.who /\ d.box = l.box /\ d.copy = l.copy /\ d.about = l.about /\ d.of = l.of /\ d.by = l.by
      /\ d.request = l.request /\ d.state = "failed"
  BY DEF LetterRow
<1> DEFINE x == IF Withheld(l) THEN "dropped" ELSE "sent"
           at == IF Withheld(l) THEN NoPerson ELSE Address(l)
           d == [l EXCEPT !.state = x, !.at = at]
<1>4. x \in {"sent", "dropped"} /\ at \in Addresses \cup {NoPerson} /\ (x = "sent" <=> ~Withheld(l)) BY <1>1
<1>5. Delivered(l) = d BY DEF Delivered
<1>6. /\ d \in LetterRow
      /\ d.kind = l.kind /\ d.who = l.who /\ d.box = l.box /\ d.copy = l.copy /\ d.about = l.about /\ d.of = l.of /\ d.by = l.by
      /\ d.request = l.request /\ d.state = x
  <2> HIDE DEF x, at
  <2> QED BY <1>2, <1>4
<1> HIDE DEF x, at, d
<1>7. Sent(l) = IF Unbuilt(l) THEN [l EXCEPT !.state = "failed"] ELSE d BY <1>5 DEF Sent
<1> DEFINE f == [l EXCEPT !.state = "failed"]
<1>8. /\ f \in LetterRow
      /\ f.kind = l.kind /\ f.who = l.who /\ f.box = l.box /\ f.copy = l.copy /\ f.about = l.about /\ f.of = l.of /\ f.by = l.by
      /\ f.request = l.request /\ f.state = "failed"
  BY <1>3
<1> HIDE DEF f
<1>9. Sent(l) = IF Unbuilt(l) THEN f ELSE d BY <1>7 DEF f
<1>10. CASE s = d /\ s # Sent(l) BY <1>4, <1>6, <1>10
<1>11. CASE s = Sent(l)
  BY <1>8, <1>9, <1>11, <1>4, <1>6
<1> QED BY <1>5, <1>10, <1>11

\* A plain list is a batch; so is one letter, whatever its kind.
LEMMA PlainIsBatch ==
  ASSUME LettersTypeOK, NEW list, Ordinary(list), letter' = letter \o list PROVE Batch(list)
BY NothingIs DEF Ordinary, Batch, Unrepeated, Changes

\* Lists of a request one after the other, where the first is plain or the second.
LEMMA PlainJoined ==
  ASSUME NEW a, NEW b, Ordinary(a), Ordinary(b) PROVE Ordinary(a \o b)
BY DEF Ordinary

-----------------------------------------------------------------------------
\* Accounts that are gone stay so.
GoneStays ==
  \A p \in Folk : ~account[p].active /\ account[p].box = p => ~account'[p].active /\ account'[p].box = p

LEMMA NextRequestPrimed == NextRequest' = IF letter' = <<>> THEN 1 ELSE letter'[Len(letter')].request + 1
BY DEF NextRequest

\* A new batch leaves the letters as they were, and follows them.
LEMMA BatchFollows ==
  ASSUME LettersTypeOK, NEW list, Batch(list)
  PROVE  /\ letter' \in Seq(LetterRow) /\ list \in Seq(LetterRow) /\ Len(letter') = Len(letter) + Len(list)
         /\ \A k \in 1..Len(letter) : k \in 1..Len(letter') /\ letter'[k] = letter[k]
         /\ \A k \in 1..Len(letter') : k > Len(letter) => k - Len(letter) \in DOMAIN list /\ letter'[k] = list[k - Len(letter)]
         /\ DOMAIN letter = 1..Len(letter) /\ DOMAIN letter' = 1..Len(letter') /\ DOMAIN list = 1..Len(list)
         /\ Len(letter) \in Nat /\ Len(list) \in Nat
BY DEF LettersTypeOK, Batch

LEMMA LettersKept ==
  ASSUME LettersTypeOK, LettersHeld, NeverTwice, HeardOnce, GoneStays,
         UNCHANGED letter \/ (\E k \in DOMAIN letter : SendMail(k)) \/ (\E list : Batch(list))
  PROVE  letter' \in Seq(LetterRow) /\ LettersHeld' /\ NeverTwice' /\ HeardOnce'
<1>0. letter \in Seq(LetterRow) /\ DOMAIN letter = 1..Len(letter) BY DEF LettersTypeOK
<1>g. \A l : Farewell(l, account) => Farewell(l, account') BY DEF GoneStays, Farewell
<1>1. CASE UNCHANGED letter
  <2>1. LettersHeld' BY <1>1, <1>g DEF LettersHeld, NextRequest
  <2> QED BY <1>0, <1>1, <2>1 DEF NeverTwice, HeardOnce
<1>2. CASE \E k \in DOMAIN letter : SendMail(k)
  <2>1. PICK n \in DOMAIN letter : letter' = [letter EXCEPT ![n] = Sent(letter[n])] BY <1>2 DEF SendMail
  <2>2. letter[n] \in LetterRow BY <1>0
  <2>3. PICK s \in LetterRow : /\ s = Sent(letter[n])
                               /\ s.kind = letter[n].kind /\ s.who = letter[n].who /\ s.box = letter[n].box
                               /\ s.copy = letter[n].copy /\ s.about = letter[n].about /\ s.of = letter[n].of
                               /\ s.request = letter[n].request
    BY <2>2, SentIs
  <2>4. letter' \in Seq(LetterRow) /\ DOMAIN letter' = DOMAIN letter /\ Len(letter') = Len(letter) BY <1>0, <2>1, <2>3
  <2>5. \A k \in DOMAIN letter : /\ letter'[k].kind = letter[k].kind /\ letter'[k].who = letter[k].who /\ letter'[k].box = letter[k].box
                                 /\ letter'[k].copy = letter[k].copy /\ letter'[k].about = letter[k].about /\ letter'[k].of = letter[k].of
                                 /\ letter'[k].request = letter[k].request
    BY <1>0, <2>1, <2>3
  <2>6. NextRequest' = NextRequest
    BY <1>0, <2>4, <2>5 DEF NextRequest
  <2>7. LettersHeld'
    BY <2>4, <2>5, <2>6 DEF LettersHeld, Farewell, GoneStays
  <2>8. NeverTwice' BY <2>4, <2>5 DEF NeverTwice
  <2>9. HeardOnce' BY <2>4, <2>5 DEF HeardOnce
  <2> QED BY <2>4, <2>7, <2>8, <2>9
<1>3. CASE \E list : Batch(list)
  <2>1. PICK list : Batch(list) BY <1>3
  <2> DEFINE n == Len(letter)
  <2>2. /\ letter' \in Seq(LetterRow) /\ list \in Seq(LetterRow) /\ Len(letter') = n + Len(list)
        /\ \A k \in 1..n : k \in 1..Len(letter') /\ letter'[k] = letter[k]
        /\ \A k \in 1..Len(letter') : k > n => k - n \in DOMAIN list /\ letter'[k] = list[k - n]
        /\ DOMAIN letter = 1..n /\ DOMAIN letter' = 1..Len(letter') /\ DOMAIN list = 1..Len(list)
        /\ n \in Nat /\ Len(list) \in Nat
    BY <2>1, BatchFollows
  <2>3. NextRequest \in Nat BY RequestIs
  <2> HIDE DEF n
  <2>4. \A k \in DOMAIN list :
          /\ list[k].request = NextRequest
          /\ list[k].about.id # 0 => list[k].kind \in OfSeat \cup {"reminder"}
          /\ list[k].kind = "deleted" => Farewell(list[k], account')
    BY <2>1 DEF Batch
  <2>5. \A k \in 1..n : /\ letter[k].request < NextRequest
                        /\ letter[k].about.id # 0 => letter[k].kind \in OfSeat \cup {"reminder"}
                        /\ letter[k].kind = "deleted" => Farewell(letter[k], account)
                        /\ letter[k].request \in Nat
    <3>1. \A k \in 1..n : letter[k] \in LetterRow BY <1>0, <2>2
    <3>2. \A k \in 1..n : letter[k].request \in Nat BY <3>1 DEF LetterRow
    <3> QED BY <2>2, <3>2 DEF LettersHeld
  <2>6. /\ Len(list) = 0 => NextRequest' = NextRequest
        /\ Len(list) # 0 => NextRequest' = NextRequest + 1
    <3>1. CASE Len(list) = 0
      BY <2>2, <3>1, <1>0 DEF NextRequest
    <3>2. CASE Len(list) # 0
      BY <2>2, <3>2, <2>4, NextRequestPrimed
    <3> QED BY <3>1, <3>2
  <2>7. ASSUME NEW k \in 1..Len(letter')
        PROVE  \/ k \in 1..n /\ letter'[k] = letter[k] /\ letter'[k].request < NextRequest
               \/ k - n \in DOMAIN list /\ letter'[k] = list[k - n] /\ letter'[k].request = NextRequest /\ k > n
    BY <2>2, <2>4, <2>5
  <2>8. LettersHeld'
    <3> SUFFICES ASSUME NEW k \in 1..Len(letter')
                 PROVE  /\ letter'[k].request < NextRequest'
                        /\ letter'[k].about.id # 0 => letter'[k].kind \in OfSeat \cup {"reminder"}
                        /\ letter'[k].kind = "deleted" => Farewell(letter'[k], account')
      BY <2>2 DEF LettersHeld
    <3>1. CASE k \in 1..n /\ letter'[k] = letter[k]
      BY <2>3, <2>5, <2>6, <3>1, <1>g DEF Farewell
    <3>2. CASE k - n \in DOMAIN list /\ letter'[k] = list[k - n]
      BY <2>2, <3>2, <2>3, <2>4, <2>6 DEF Farewell
    <3> QED BY <2>7, <3>1, <3>2
  <2>9. ASSUME NEW k \in 1..Len(letter'), NEW m \in 1..Len(letter'), letter'[k].request = letter'[m].request
        PROVE  \/ k \in 1..n /\ m \in 1..n /\ letter'[k] = letter[k] /\ letter'[m] = letter[m]
               \/ /\ k - n \in DOMAIN list /\ m - n \in DOMAIN list /\ letter'[k] = list[k - n] /\ letter'[m] = list[m - n]
                  /\ k # m => k - n # m - n
    BY <2>2, <2>3, <2>5, <2>7, <2>9
  <2>10. Unrepeated(list) BY <2>1 DEF Batch
  <2>11. NeverTwice'
    <3> SUFFICES ASSUME NEW k \in 1..Len(letter'), NEW m \in 1..Len(letter'), letter'[k].request = letter'[m].request,
                        letter'[k].kind \in {"group", "event"}, ~letter'[k].copy, letter'[m].copy, letter'[k].about # Test
                 PROVE  letter'[k].who # letter'[m].who \/ letter'[k].box # letter'[m].box
      BY <2>2 DEF NeverTwice
    <3>1. CASE k \in 1..n /\ m \in 1..n /\ letter'[k] = letter[k] /\ letter'[m] = letter[m]
      BY <2>2, <3>1 DEF NeverTwice
    <3>2. CASE k - n \in DOMAIN list /\ m - n \in DOMAIN list /\ letter'[k] = list[k - n] /\ letter'[m] = list[m - n]
      BY <2>10, <3>2 DEF Unrepeated, Apart
    <3> QED BY <2>9, <3>1, <3>2
  <2>12. HeardOnce'
    <3> SUFFICES ASSUME NEW k \in 1..Len(letter'), NEW m \in 1..Len(letter'), letter'[k].request = letter'[m].request,
                        k # m, letter'[k].kind \in Changes
                 PROVE  letter'[k].who # letter'[m].who \/ letter'[k].box # letter'[m].box
      BY <2>2 DEF HeardOnce, Changes
    <3>1. CASE k \in 1..n /\ m \in 1..n /\ letter'[k] = letter[k] /\ letter'[m] = letter[m]
      BY <2>2, <3>1 DEF HeardOnce, Changes
    <3>2. CASE k - n \in DOMAIN list /\ m - n \in DOMAIN list /\ letter'[k] = list[k - n] /\ letter'[m] = list[m - n] /\ k - n # m - n
      BY <2>10, <3>2 DEF Unrepeated, Apart
    <3> QED BY <2>9, <3>1, <3>2
  <2> QED BY <2>2, <2>8, <2>11, <2>12
<1> QED BY <1>1, <1>2, <1>3

-----------------------------------------------------------------------------
\* Lists of letters.
LEMMA ListsJoined ==
  ASSUME NEW a \in Seq(LetterRow), NEW b \in Seq(LetterRow)
  PROVE  /\ a \o b \in Seq(LetterRow)
         /\ \A k \in DOMAIN (a \o b) : \/ k \in DOMAIN a /\ (a \o b)[k] = a[k]
                                       \/ k \notin DOMAIN a /\ k - Len(a) \in DOMAIN b /\ (a \o b)[k] = b[k - Len(a)]
         /\ \A k \in DOMAIN a : k \in DOMAIN (a \o b) /\ (a \o b)[k] = a[k]
         /\ DOMAIN (a \o b) \subseteq Nat /\ Len(a) \in Nat
OBVIOUS

LEMMA Mapped ==
  ASSUME NEW S \in SUBSET Folk, NEW f \in [Folk -> LetterRow], NEW list, list = [i \in DOMAIN SetToSeq(S) |-> f[SetToSeq(S)[i]]]
  PROVE  /\ list \in Seq(LetterRow)
         /\ \A k \in DOMAIN list : \E q \in S : list[k] = f[q]
         /\ \A i, j \in DOMAIN list : i # j => \E q, r \in S : q # r /\ list[i] = f[q] /\ list[j] = f[r]
<1> DEFINE people == SetToSeq(S)
<1>1. /\ people \in Seq(Folk) /\ \A i \in DOMAIN people : people[i] \in S
      /\ \A i, j \in DOMAIN people : people[i] = people[j] => i = j
  BY FolkListed
<1> HIDE DEF people
<1>2. list = [i \in DOMAIN people |-> f[people[i]]] BY DEF people
<1>3. /\ DOMAIN people = 1..Len(people) /\ Len(people) \in Nat /\ \A i \in DOMAIN people : people[i] \in Folk BY <1>1
<1>4. \A i \in DOMAIN people : f[people[i]] \in LetterRow BY <1>3
<1>5. list \in Seq(LetterRow) BY <1>2, <1>3, <1>4
<1> QED BY <1>1, <1>2, <1>5

LEMMA TellIs ==
  ASSUME LettersTypeOK, NEW kind \in Mailers, NEW p \in Folk, NEW of \in Addresses \cup {NoPerson}, NEW by \in Folk \cup {NoPerson}
  PROVE  LET l == Tell(kind, p, of, by) IN
         /\ l \in LetterRow /\ l.kind = kind /\ l.who = p /\ l.about = Nothing /\ ~l.copy
         /\ l.request = NextRequest /\ l.state = "waiting"
<1>1. NextRequest \in Nat /\ Nothing \in About BY RequestIs, NothingIs
<1>2. Tell(kind, p, of, by) = [kind |-> kind, who |-> p, box |-> NoPerson, copy |-> FALSE, about |-> Nothing, of |-> of, by |-> by,
                           request |-> NextRequest, state |-> "waiting", at |-> NoPerson]
  BY DEF Tell, Letter, NextRequest
<1> HIDE DEF NextRequest
<1> QED BY <1>1, <1>2 DEF LetterRow

LEMMA TellAtIs ==
  ASSUME LettersTypeOK, NEW kind \in Mailers, NEW box \in Addresses, NEW of \in Addresses \cup {NoPerson}, NEW by \in Folk \cup {NoPerson}
  PROVE  LET l == TellAt(kind, box, of, by) IN
         /\ l \in LetterRow /\ l.kind = kind /\ l.who = NoPerson /\ l.box = box /\ l.about = Nothing /\ ~l.copy /\ l.of = of
         /\ l.request = NextRequest /\ l.state = "waiting"
<1>1. NextRequest \in Nat /\ Nothing \in About BY RequestIs, NothingIs
<1>2. TellAt(kind, box, of, by) = [kind |-> kind, who |-> NoPerson, box |-> box, copy |-> FALSE, about |-> Nothing, of |-> of, by |-> by,
                               request |-> NextRequest, state |-> "waiting", at |-> NoPerson]
  BY DEF TellAt, Letter, NextRequest
<1> HIDE DEF NextRequest
<1> QED BY <1>1, <1>2 DEF LetterRow

Special == Changes \cup {"group", "event", "welcome"}

LEMMA PlainTell ==
  ASSUME LettersTypeOK, NEW kind \in Mailers \ Special, NEW p \in Folk, NEW of \in Addresses \cup {NoPerson}, NEW by \in Folk \cup {NoPerson}
  PROVE  Ordinary(<<Tell(kind, p, of, by)>>)
BY TellIs DEF Ordinary, Special

LEMMA PlainTellAt ==
  ASSUME LettersTypeOK, NEW kind \in Mailers \ Special, NEW box \in Addresses, NEW of \in Addresses \cup {NoPerson}, NEW by \in Folk \cup {NoPerson}
  PROVE  Ordinary(<<TellAt(kind, box, of, by)>>)
BY TellAtIs DEF Ordinary, Special

LEMMA PlainEach ==
  ASSUME LettersTypeOK, NEW kind \in Mailers \ Special, NEW S \in SUBSET Folk, NEW of \in Addresses \cup {NoPerson}, NEW by \in Folk \cup {NoPerson},
         NEW list, list = [i \in DOMAIN SetToSeq(S) |-> Tell(kind, SetToSeq(S)[i], of, by)]
  PROVE  Ordinary(list)
<1>1. \A q \in Folk : /\ Tell(kind, q, of, by) \in LetterRow /\ Tell(kind, q, of, by).kind = kind /\ Tell(kind, q, of, by).about = Nothing
                      /\ Tell(kind, q, of, by).request = NextRequest /\ Tell(kind, q, of, by).state = "waiting"
  BY TellIs
<1>2. PICK f \in [Folk -> LetterRow] : \A q \in Folk : f[q] = Tell(kind, q, of, by)
  <2> DEFINE g == [q \in Folk |-> Tell(kind, q, of, by)]
  <2>1. g \in [Folk -> LetterRow] /\ \A q \in Folk : g[q] = Tell(kind, q, of, by) BY <1>1
  <2> QED BY <2>1
<1>3. list = [i \in DOMAIN SetToSeq(S) |-> f[SetToSeq(S)[i]]]
  BY FolkListed, <1>2
<1>4. list \in Seq(LetterRow) /\ \A k \in DOMAIN list : \E q \in S : list[k] = f[q]
  BY Mapped, <1>3
<1>5. ASSUME NEW k \in DOMAIN list PROVE \E q \in Folk : list[k] = Tell(kind, q, of, by)
  BY <1>4, <1>2
<1> QED BY <1>1, <1>4, <1>5 DEF Ordinary, Special

LEMMA PlainEmpty == Ordinary(<<>>)
BY DEF Ordinary

-----------------------------------------------------------------------------
\* Nobody comes to be a member, or whoever does is welcomed in this list, once.
Unwelcoming == \A p \in Folk : ~InFull(p) => membership'[p] # "member"
Welcoming(list) ==
  \A p \in Folk :
    /\ \A k \in DOMAIN list : list[k].kind = "welcome" /\ list[k].who = p => ~InFull(p)
    /\ \A k, m \in DOMAIN list :
         list[k].kind = "welcome" /\ list[k].who = p /\ list[m].kind = "welcome" /\ list[m].who = p => k = m
    /\ ~InFull(p) /\ membership'[p] = "member" /\ welcome => \E k \in DOMAIN list : list[k].kind = "welcome" /\ list[k].who = p

\* An applicant gets the type of a member, and nothing is written.
Promoting ==
  /\ UNCHANGED <<letter, invitation>>
  /\ \A p \in Folk : ~InFull(p) /\ membership'[p] = "member" => membership[p] = "pending"

\* What a step does with the letters.
Writes ==
  \/ letter' = letter /\ Unwelcoming
  \/ Promoting
  \/ (\E k \in DOMAIN letter : SendMail(k)) /\ Unwelcoming
  \/ \E list : Batch(list) /\ Welcoming(list)

LEMMA PlainWrites ==
  ASSUME LettersTypeOK, NEW list, Ordinary(list), Post(list), Unwelcoming
  PROVE  Writes
BY PlainIsBatch DEF Post, Ordinary, Welcoming, Unwelcoming, Writes

LEMMA StayingIsUnwelcoming == LettersTypeOK /\ UNCHANGED membership => Unwelcoming
BY DEF Unwelcoming, InFull

\* Whoever joins is welcomed, by a list that has the welcome and plain letters.
LEMMA JoiningWrites ==
  ASSUME LettersTypeOK, NEW p \in Folk, NEW list, Ordinary(list), Post(Welcomes(p) \o list), Joined(p)
  PROVE  Writes
<1>1. \A q \in Folk : q # p \/ InFull(p) => membership'[q] = membership[q] BY DEF Joined, LettersTypeOK
<1>2. CASE welcome /\ ~InFull(p)
  <2>1. PICK l \in LetterRow : /\ l = GroupWelcome(p) /\ l.kind = "welcome" /\ l.who = p /\ l.about = Nothing /\ ~l.copy
                               /\ l.request = NextRequest /\ l.state = "waiting"
    BY TellIs DEF Addresses, GroupWelcome, Mailers
  <2>2. Welcomes(p) = <<l>> BY <1>2, <2>1 DEF Welcomes
  <2>3. <<l>> \in Seq(LetterRow) /\ DOMAIN <<l>> = {1} /\ <<l>>[1] = l /\ list \in Seq(LetterRow) BY DEF Ordinary
  <2> DEFINE all == <<l>> \o list
  <2>4. /\ all \in Seq(LetterRow)
        /\ \A k \in DOMAIN all : (k = 1 /\ all[k] = l) \/ (k # 1 /\ \E i \in DOMAIN list : all[k] = list[i])
        /\ 1 \in DOMAIN all /\ all[1] = l
    BY <2>3, ListsJoined
  <2>5. letter' = letter \o all BY <2>2 DEF Post
  <2> HIDE DEF all
  <2>6. Batch(all)
    <3>1. \A k \in DOMAIN all : /\ all[k].request = NextRequest /\ all[k].state = "waiting" /\ all[k].about = Nothing
                                /\ all[k].kind \notin Changes \cup {"group", "event"}
      BY <2>1, <2>4 DEF Ordinary, Changes
    <3> QED BY <2>4, <2>5, <3>1, NothingIs DEF Batch, Unrepeated, Changes
  <2>7. \A k \in DOMAIN all : all[k].kind = "welcome" => k = 1 /\ all[k].who = p BY <2>1, <2>4 DEF Ordinary
  <2>8. Welcoming(all) BY <1>1, <1>2, <2>1, <2>4, <2>7 DEF Welcoming, InFull
  <2> QED BY <2>6, <2>8 DEF Writes
<1>3. CASE ~(welcome /\ ~InFull(p))
  <2>1. Welcomes(p) \o list = list BY <1>3 DEF Welcomes, Ordinary
  <2>2. Batch(list) BY <2>1, PlainIsBatch DEF Post
  <2>3. Welcoming(list) BY <1>1, <1>3 DEF Ordinary, Welcoming, InFull
  <2> QED BY <2>2, <2>3 DEF Writes
<1> QED BY <1>2, <1>3

-----------------------------------------------------------------------------
\* A letter of a kind nobody could get twice, as a request may write it.
Proper(l) ==
  /\ l \in LetterRow /\ l.request = NextRequest /\ l.kind \notin Special
  /\ l.about.id # 0 => l.kind \in OfSeat \cup {"reminder"}
  /\ l.state = "sent" => /\ l.who = NoPerson
                         /\ l.about.id # 0 => l.kind # "reminder" /\ l.about.id \in {seat[l.box].id, seat'[l.box].id}

LEMMA ProperWrites ==
  ASSUME LettersTypeOK, NEW list \in Seq(LetterRow), \A k \in DOMAIN list : Proper(list[k]), Post(list), Unwelcoming
  PROVE  Writes
<1>1. Batch(list) BY DEF Batch, Proper, Post, Unrepeated, Special, Changes
<1>2. Welcoming(list) BY DEF Proper, Special, Welcoming, Unwelcoming
<1> QED BY <1>1, <1>2 DEF Writes

LEMMA ProperJoined ==
  ASSUME NEW a \in Seq(LetterRow), NEW b \in Seq(LetterRow), \A k \in DOMAIN a : Proper(a[k]), \A k \in DOMAIN b : Proper(b[k])
  PROVE  a \o b \in Seq(LetterRow) /\ \A k \in DOMAIN (a \o b) : Proper((a \o b)[k])
BY ListsJoined

\* No letter, one or two, as a list.
LEMMA ProperFew ==
  ASSUME NEW l, NEW m, Proper(l), Proper(m), NEW list \in {<<>>, <<l>>, <<l, m>>}
  PROVE  list \in Seq(LetterRow) /\ \A k \in DOMAIN list : Proper(list[k])
<1>0. l \in LetterRow /\ m \in LetterRow BY DEF Proper
<1>1. CASE list = <<>> BY <1>1
<1>2. CASE list = <<l>> BY <1>0, <1>2
<1>3. CASE list = <<l, m>> BY <1>0, <1>3
<1> QED BY <1>1, <1>2, <1>3

\* One letter is sent.
LEMMA ProperOne ==
  ASSUME LettersTypeOK, NEW l, Proper(l), Unwelcoming, Post(<<l>>)
  PROVE  Writes
BY ProperFew, ProperWrites

LEMMA MessageToUserWrites ==
  ASSUME LettersTypeOK, NEW u \in Folk, NEW p \in Folk, NEW copy \in BOOLEAN, MessageToUser(u, p, copy) PROVE Writes
<1>1. ASSUME NEW q \in Folk, NEW l,
             \/ l = [kind |-> "user", who |-> q, box |-> NoPerson, copy |-> FALSE, about |-> Nothing, of |-> NoPerson, by |-> u,
                     request |-> NextRequest, state |-> "waiting", at |-> NoPerson]
             \/ l = [kind |-> "user", who |-> q, box |-> NoPerson, copy |-> TRUE, about |-> Nothing, of |-> NoPerson, by |-> u,
                     request |-> NextRequest, state |-> "waiting", at |-> NoPerson]
      PROVE  Proper(l)
  <2>1. "user" \in Mailers \ Special BY DEF Mailers, Special, Changes
  <2>2. /\ l \in LetterRow /\ l.kind = "user" /\ l.about = Nothing /\ l.request = NextRequest /\ l.state = "waiting"
    BY <1>1, <2>1, NothingIs, LetterIs, CopyIs
  <2> QED BY <2>1, <2>2, NothingIs DEF Proper
<1>2. PICK l : l = UserSendMessageMailer(u, p, FALSE) /\ Proper(l) BY <1>1 DEF UserSendMessageMailer, Letter, NextRequest
<1>3. PICK m : m = UserSendMessageMailer(u, u, TRUE) /\ Proper(m) BY <1>1 DEF UserSendMessageMailer, Letter, NextRequest
<1>4. PICK a, b : /\ Post(a \o b) /\ a \in Seq(LetterRow) /\ b \in Seq(LetterRow)
                  /\ (\A k \in DOMAIN a : Proper(a[k])) /\ \A k \in DOMAIN b : Proper(b[k])
  BY <1>2, <1>3, ProperFew DEF MessageToUser
<1>5. Unwelcoming BY StayingIsUnwelcoming DEF MessageToUser, folk
<1> QED BY <1>4, <1>5, ProperJoined, ProperWrites

LEMMA InviteWrites ==
  ASSUME LettersTypeOK, OwnBoxes, NEW u \in Folk, InviteSomeone(u) PROVE Writes
<1>1. ASSUME NEW who \in Folk \cup {NoPerson}, NEW box \in Addresses, Invite(u, who, box) PROVE Writes
  <2>1. PICK l : l = InviteToGroupMailer(u, who, box) OBVIOUS
  <2>2. PICK b \in Addresses \cup {NoPerson} : b = IF who = NoPerson THEN box ELSE NoPerson OBVIOUS
  <2>3. "invite" \in Mailers \ Special BY DEF Mailers, Special, Changes
  <2>4. l = [kind |-> "invite", who |-> who, box |-> b, copy |-> FALSE, about |-> Nothing, of |-> NoPerson, by |-> u,
             request |-> NextRequest, state |-> "waiting", at |-> NoPerson]
    BY <2>1, <2>2 DEF InviteToGroupMailer, Letter, NextRequest
  <2>5. /\ l \in LetterRow /\ l.kind = "invite" /\ l.about = Nothing /\ l.request = NextRequest /\ l.state = "waiting"
    BY <2>3, <2>4, NothingIs, LetterIs
  <2>6. Proper(l) BY <2>3, <2>5, NothingIs DEF Proper
  <2>7. Unwelcoming /\ Post(<<l>>) BY <1>1, <2>1, StayingIsUnwelcoming DEF Invite, folk
  <2> QED BY <2>6, <2>7, ProperOne
<1>2. \A p \in Folk : account[p].box \in Addresses BY DEF LettersTypeOK, Account
<1>3. \A a \in Boxes : a \in Addresses /\ OfAddress(a) \in Folk \cup {NoPerson} BY DEF OfAddress, Addresses
<1> QED BY <1>1, <1>2, <1>3 DEF InviteSomeone

LEMMA ResendWrites ==
  ASSUME LettersTypeOK, NEW u \in Folk, NEW i \in invitation, Resend(u, i) PROVE Writes
<1>1. PICK l : l = ResendGroupInvitationMailer(u, i) OBVIOUS
<1>2. i \in About /\ i.who \in Folk \cup {NoPerson} /\ i.box \in Addresses BY DEF LettersTypeOK, Invitation, About
<1>3. PICK b \in Addresses \cup {NoPerson} : b = IF i.who = NoPerson THEN i.box ELSE NoPerson BY <1>2
<1>4. "reminder" \in Mailers \ Special BY DEF Mailers, Special, Changes
<1> PICK w \in Folk \cup {NoPerson} : w = i.who BY <1>2
<1>5. l = [kind |-> "reminder", who |-> w, box |-> b, copy |-> FALSE, about |-> i, of |-> NoPerson, by |-> u,
           request |-> NextRequest, state |-> "waiting", at |-> NoPerson]
  BY <1>1, <1>3 DEF ResendGroupInvitationMailer, Letter, NextRequest
<1>9. "reminder" \in Mailers /\ u \in Folk \cup {NoPerson} /\ NoPerson \in Addresses \cup {NoPerson} BY <1>4
<1> HIDE DEF NextRequest
<1>6. /\ l \in LetterRow /\ l.kind = "reminder" /\ l.about = i /\ l.request = NextRequest /\ l.state = "waiting"
  BY <1>2, <1>9, <1>5, LetterIs, SMTT(30)
<1>7. Proper(l) BY <1>4, <1>6 DEF Proper
<1>8. Unwelcoming /\ Post(<<l>>) BY <1>1, StayingIsUnwelcoming DEF Resend, folk
<1> QED BY <1>7, <1>8, ProperOne

-----------------------------------------------------------------------------
\* A copy goes to who does not get the letter, told apart by who or by where.
LEMMA MessageWrites ==
  ASSUME LettersTypeOK, NEW a \in Seq(LetterRow), NEW b \in Seq(LetterRow), NEW kind \in {"group", "event"},
         \A l \in {a[k] : k \in DOMAIN a} \cup {b[k] : k \in DOMAIN b} :
           /\ l.kind = kind /\ l.request = NextRequest /\ l.about.id = 0 /\ (l.state = "sent" => l.who = NoPerson),
         \A k \in DOMAIN a : ~a[k].copy,
         \A m \in DOMAIN b : \A k \in DOMAIN a : a[k].about # Test => Apart(a[k], b[m]),
         \A m \in DOMAIN b : b[m].copy,
         Post(a \o b), Unwelcoming
  PROVE  Writes
<1> DEFINE all == a \o b
<1>1. /\ all \in Seq(LetterRow)
      /\ \A k \in DOMAIN all : (\E i \in DOMAIN a : all[k] = a[i]) \/ (\E i \in DOMAIN b : all[k] = b[i])
  BY ListsJoined
<1>2. letter' = letter \o all BY DEF Post
<1> HIDE DEF all
<1>3. \A k \in DOMAIN all : all[k].kind = kind /\ all[k].request = NextRequest /\ all[k].about.id = 0 /\ (all[k].state = "sent" => all[k].who = NoPerson)
  BY <1>1
<1>4. ASSUME NEW k \in DOMAIN all, NEW m \in DOMAIN all, ~all[k].copy, all[m].copy, all[k].about # Test
      PROVE  Apart(all[k], all[m])
  BY <1>1, <1>4
<1>5. Batch(all) BY <1>1, <1>2, <1>3, <1>4 DEF Batch, Unrepeated, Changes
<1>6. Welcoming(all) BY <1>3 DEF Welcoming, Unwelcoming
<1> QED BY <1>5, <1>6 DEF Writes

LEMMA ReceiversAre ==
  ASSUME LettersTypeOK, NEW u \in Folk, NEW want \in Recipients PROVE ReceiversOf(u, want) \in Seq(Folk)
<1>1. <<u>> \in Seq(Folk) OBVIOUS
<1>2. SetToSeq({p \in Folk : IsMember(p) /\ Awake(p)}) \in Seq(Folk) BY FolkListed
<1>3. {p \in insiders : want.subgroup /\ IsMember(p)} \in SUBSET Folk BY DEF LettersTypeOK
<1>4. {p \in want.chosen : IsMember(p) /\ Awake(p)} \in SUBSET Folk BY DEF Recipients
<1>5. SetToSeq({p \in insiders : want.subgroup /\ IsMember(p)}) \in Seq(Folk) /\ SetToSeq({p \in want.chosen : IsMember(p) /\ Awake(p)}) \in Seq(Folk)
  BY <1>3, <1>4, FolkListed
<1>6. ASSUME NEW s \in Seq(Folk), NEW t \in Seq(Folk) PROVE s \o t \in Seq(Folk) OBVIOUS
<1>7. SetToSeq({p \in insiders : want.subgroup /\ IsMember(p)}) \o SetToSeq({p \in want.chosen : IsMember(p) /\ Awake(p)}) \in Seq(Folk)
  BY <1>5, <1>6
<1> QED BY <1>1, <1>2, <1>7 DEF ReceiversOf

LEMMA MessageToGroupWrites ==
  ASSUME LettersTypeOK, NEW u \in Folk, NEW want \in Recipients, NEW copy \in BOOLEAN, MessageToGroup(u, want, copy) PROVE Writes
<1>1. PICK receivers \in Seq(Folk) : receivers = ReceiversOf(u, want) BY ReceiversAre
<1>2. "group" \in Mailers BY DEF Mailers
<1>3. ASSUME NEW p \in Folk
      PROVE  \E l \in LetterRow : /\ l = SendGroupMessageMailer(u, p, FALSE)
                                  /\ l.kind = "group" /\ l.who = p /\ ~l.copy /\ l.request = NextRequest /\ l.about.id = 0 /\ l.state = "waiting"
  <2>1. PICK l : l = SendGroupMessageMailer(u, p, FALSE) OBVIOUS
  <2>2. l = [kind |-> "group", who |-> p, box |-> NoPerson, copy |-> FALSE, about |-> Nothing, of |-> NoPerson, by |-> u,
             request |-> NextRequest, state |-> "waiting", at |-> NoPerson]
    BY <2>1 DEF SendGroupMessageMailer, Letter, NextRequest
  <2>3. l \in LetterRow /\ l.kind = "group" /\ l.who = p /\ ~l.copy /\ l.request = NextRequest /\ l.about = Nothing /\ l.state = "waiting"
    BY <1>2, <2>2, NothingIs, LetterIs
  <2> QED BY <2>1, <2>3, NothingIs
<1>4. PICK l \in LetterRow : /\ l = SendGroupMessageMailer(u, u, TRUE)
                             /\ l.kind = "group" /\ l.who = u /\ l.copy /\ l.request = NextRequest /\ l.about.id = 0 /\ l.state = "waiting"
  <2>1. PICK l : l = SendGroupMessageMailer(u, u, TRUE) OBVIOUS
  <2>2. l = [kind |-> "group", who |-> u, box |-> NoPerson, copy |-> TRUE, about |-> Nothing, of |-> NoPerson, by |-> u,
             request |-> NextRequest, state |-> "waiting", at |-> NoPerson]
    BY <2>1 DEF SendGroupMessageMailer, Letter, NextRequest
  <2>4. u \in Folk \cup {NoPerson} /\ NoPerson \in Addresses \cup {NoPerson} OBVIOUS
  <2>3. l \in LetterRow /\ l.kind = "group" /\ l.who = u /\ l.copy /\ l.request = NextRequest /\ l.about = Nothing /\ l.state = "waiting"
    BY <1>2, <2>2, <2>4, NothingIs, CopyIs, SMTT(30)
  <2> QED BY <2>1, <2>3, NothingIs
<1> DEFINE a == [i \in DOMAIN receivers |-> SendGroupMessageMailer(u, receivers[i], FALSE)]
<1>5. PICK b : b = IF copy /\ u \notin Range(receivers) THEN <<l>> ELSE <<>> OBVIOUS
<1>6. Post(a \o b) BY <1>1, <1>4, <1>5 DEF MessageToGroup, Written
<1>7. \A i \in DOMAIN receivers : receivers[i] \in Folk BY <1>1
<1>8. DOMAIN a = DOMAIN receivers /\ \A k \in DOMAIN a : a[k] = SendGroupMessageMailer(u, receivers[k], FALSE) OBVIOUS
<1>9. DOMAIN receivers = 1..Len(receivers) /\ Len(receivers) \in Nat BY <1>1
<1> HIDE DEF a
<1>10. ASSUME NEW k \in DOMAIN a
       PROVE  /\ a[k] \in LetterRow
              /\ a[k].kind = "group" /\ a[k].request = NextRequest /\ a[k].about.id = 0 /\ a[k].state = "waiting"
              /\ ~a[k].copy /\ a[k].who \in Range(receivers)
  <2>1. receivers[k] \in Folk /\ receivers[k] \in Range(receivers) BY <1>7, <1>8 DEF Range
  <2>2. PICK m \in LetterRow : /\ m = SendGroupMessageMailer(u, receivers[k], FALSE)
                               /\ m.kind = "group" /\ m.who = receivers[k] /\ ~m.copy /\ m.request = NextRequest
                               /\ m.about.id = 0 /\ m.state = "waiting"
    BY <1>3, <2>1
  <2>3. a[k] = m BY <1>8, <2>2
  <2> QED BY <2>1, <2>2, <2>3
<1>11. a \in Seq(LetterRow)
  <2>1. a = [i \in DOMAIN receivers |-> a[i]] BY DEF a
  <2> QED BY <1>8, <1>9, <1>10, <2>1
<1>12. /\ b \in Seq(LetterRow) /\ \A k \in DOMAIN b : b[k] = l /\ u \notin Range(receivers)
  <2>1. CASE copy /\ u \notin Range(receivers)
    <3>1. b = <<l>> BY <1>5, <2>1
    <3> QED BY <2>1, <3>1
  <2>2. CASE ~(copy /\ u \notin Range(receivers)) BY <1>5, <2>2
  <2> QED BY <2>1, <2>2
<1>13. \A k \in DOMAIN b : /\ b[k].kind = "group" /\ b[k].request = NextRequest /\ b[k].about.id = 0 /\ b[k].state = "waiting"
                           /\ b[k].copy /\ b[k].who = u /\ u \notin Range(receivers)
  BY <1>4, <1>12
<1>14. \A m \in DOMAIN b : \A k \in DOMAIN a : Apart(a[k], b[m]) BY <1>10, <1>13 DEF Apart
<1>15. Unwelcoming BY StayingIsUnwelcoming DEF MessageToGroup, folk
<1> QED BY <1>6, <1>10, <1>11, <1>12, <1>13, <1>14, <1>15, MessageWrites

LEMMA MessageToEventWrites ==
  ASSUME LettersTypeOK, NEW u \in Folk, NEW test \in BOOLEAN, NEW copy \in BOOLEAN, MessageToEvent(u, test, copy) PROVE Writes
<1> DEFINE going == {a \in Boxes : ~test /\ seat[a].state = "accept"}
           own   == account[u].box
           about == IF test THEN Test ELSE Nothing
           where == IF test THEN {own} ELSE going
           T     == {ToEvent(u, a, FALSE, about) : a \in where}
<1>1. own \in Addresses /\ about \in {Test, Nothing} /\ (about # Test => ~test) /\ where \subseteq Addresses /\ IsFiniteSet(where)
  BY LettersAssumption, FS_Subset, FS_Singleton DEF LettersTypeOK, Account, Addresses
<1>2. "event" \in Mailers /\ about \in About BY <1>1, NothingIs DEF Mailers
<1> HIDE DEF about
<1>3. ASSUME NEW box \in Addresses
      PROVE  \E s \in LetterRow : /\ s = ToEvent(u, box, FALSE, about)
                                  /\ s.kind = "event" /\ s.who = NoPerson /\ s.box = box /\ ~s.copy /\ s.request = NextRequest /\ s.about = about
  <2> DEFINE l == CustomMessageMailer(u, box, FALSE, about)
  <2>1. PICK s : s = ToEvent(u, box, FALSE, about) OBVIOUS
  <2>2. s \in {l, Sent(l)} BY <2>1 DEF ToEvent
  <2>3. l = [kind |-> "event", who |-> NoPerson, box |-> box, copy |-> FALSE, about |-> about, of |-> NoPerson, by |-> u,
             request |-> NextRequest, state |-> "waiting", at |-> NoPerson]
    BY DEF CustomMessageMailer, Letter, NextRequest
  <2> HIDE DEF l
  <2>4. l \in LetterRow /\ l.kind = "event" /\ l.who = NoPerson /\ l.box = box /\ ~l.copy /\ l.request = NextRequest /\ l.about = about
    BY <1>2, <2>3, NothingIs, LetterIs
  <2>5. l \in LetterRow BY <2>4
  <2>6. s = Sent(l) => /\ s \in LetterRow /\ s.kind = l.kind /\ s.who = l.who /\ s.box = l.box /\ s.copy = l.copy
                       /\ s.about = l.about /\ s.request = l.request
    BY <2>5, SentIs
  <2> QED BY <2>1, <2>2, <2>4, <2>6
<1>4. PICK s \in LetterRow : /\ s = ToEvent(u, own, TRUE, about)
                             /\ s.kind = "event" /\ s.who = NoPerson /\ s.box = own /\ s.copy /\ s.request = NextRequest /\ s.about = about
  <2> DEFINE l == CustomMessageMailer(u, own, TRUE, about)
  <2>1. PICK s : s = ToEvent(u, own, TRUE, about) OBVIOUS
  <2>2. s \in {l, Sent(l)} BY <2>1 DEF ToEvent
  <2>3. l = [kind |-> "event", who |-> NoPerson, box |-> own, copy |-> TRUE, about |-> about, of |-> NoPerson, by |-> u,
             request |-> NextRequest, state |-> "waiting", at |-> NoPerson]
    BY DEF CustomMessageMailer, Letter, NextRequest
  <2> HIDE DEF l
  <2>4. l \in LetterRow /\ l.kind = "event" /\ l.who = NoPerson /\ l.box = own /\ l.copy /\ l.request = NextRequest /\ l.about = about
    <3> HIDE DEF own
    <3> QED BY <1>1, <1>2, <2>3, NothingIs, CopyIs
  <2>5. l \in LetterRow BY <2>4
  <2>6. s = Sent(l) => /\ s \in LetterRow /\ s.kind = l.kind /\ s.who = l.who /\ s.box = l.box /\ s.copy = l.copy
                       /\ s.about = l.about /\ s.request = l.request
    BY <2>5, SentIs
  <2> QED BY <2>1, <2>2, <2>4, <2>6
<1>5. IsFiniteSet(T)
  <2> DEFINE f == [a \in where |-> ToEvent(u, a, FALSE, about)]
  <2>1. f \in Surjection(where, T) BY DEF Surjection
  <2> QED BY <1>1, <2>1, FS_Surjection
<1>6. ASSUME NEW l \in T
      PROVE  /\ l \in LetterRow /\ l.kind = "event" /\ l.who = NoPerson /\ l.box \in where /\ ~l.copy /\ l.request = NextRequest
             /\ l.about = about
  <2>1. PICK box \in where : l = ToEvent(u, box, FALSE, about) OBVIOUS
  <2>2. box \in Addresses BY <1>1
  <2> HIDE DEF where, T
  <2>3. PICK r \in LetterRow : /\ r = ToEvent(u, box, FALSE, about)
                               /\ r.kind = "event" /\ r.who = NoPerson /\ r.box = box /\ ~r.copy /\ r.request = NextRequest /\ r.about = about
    BY <1>3, <2>2
  <2>4. l = r BY <2>1, <2>3
  <2> QED BY <2>3, <2>4
<1>7. PICK b : b = IF copy /\ own \notin going THEN <<s>> ELSE <<>> OBVIOUS
<1>8. MessageToEvent(u, test, copy) =>
        Post(SetToSeq(T) \o (IF copy /\ own \notin going THEN <<ToEvent(u, own, TRUE, about)>> ELSE <<>>))
  BY DEF MessageToEvent, about
<1>10. about.id = 0 BY <1>1, NothingIs
<1> HIDE DEF T
<1>9. PICK a \in Seq(T) : a = SetToSeq(T) BY <1>5, ListIs
<1>11. a \in Seq(LetterRow) /\ \A k \in DOMAIN a : a[k] \in T
  <2>1. \A l \in T : l \in LetterRow BY <1>6
  <2> QED BY <2>1
<1>17. Post(a \o b) BY <1>4, <1>7, <1>8, <1>9
<1>12. \A k \in DOMAIN a : /\ a[k].kind = "event" /\ a[k].who = NoPerson /\ a[k].box \in where /\ ~a[k].copy /\ a[k].request = NextRequest
                           /\ a[k].about = about
  BY <1>6, <1>11
<1>13. b \in Seq(LetterRow) /\ \A k \in DOMAIN b : b[k] = s /\ own \notin going
  <2>1. CASE copy /\ own \notin going
    <3>1. b = <<s>> BY <1>7, <2>1
    <3> QED BY <2>1, <3>1
  <2>2. CASE ~(copy /\ own \notin going) BY <1>7, <2>2
  <2> QED BY <2>1, <2>2
<1>14. \A k \in DOMAIN b : /\ b[k].kind = "event" /\ b[k].who = NoPerson /\ b[k].box = own /\ b[k].copy /\ b[k].request = NextRequest
                           /\ b[k].about = about /\ own \notin going
  BY <1>4, <1>13
<1>15. \A m \in DOMAIN b : \A k \in DOMAIN a : a[k].about # Test => Apart(a[k], b[m]) BY <1>1, <1>12, <1>14 DEF Apart
<1>16. Unwelcoming BY StayingIsUnwelcoming DEF MessageToEvent, folk
<1> HIDE DEF own, where, going
<1> QED BY <1>10, <1>11, <1>12, <1>13, <1>14, <1>15, <1>16, <1>17, MessageWrites

-----------------------------------------------------------------------------
\* A letter about a seat.
LEMMA AtSeatIs ==
  ASSUME LettersTypeOK, NEW kind \in OfSeat, NEW a \in Boxes, NEW id \in Nat, NEW l, l = AtSeat(kind, a, id)
  PROVE  /\ l \in LetterRow /\ l.kind = kind /\ l.who = NoPerson /\ l.box = a /\ ~l.copy /\ l.about.id = id
         /\ l.request = NextRequest /\ l.state = "waiting"
<1> DEFINE about == [id |-> id, who |-> NoPerson, box |-> a]
<1>1. about \in About /\ about.id = id BY DEF About, Addresses
<1>2. kind \in Mailers /\ a \in Addresses BY DEF OfSeat, Mailers, Addresses
<1>3. l = [kind |-> kind, who |-> NoPerson, box |-> a, copy |-> FALSE, about |-> about, of |-> NoPerson, by |-> NoPerson,
           request |-> NextRequest, state |-> "waiting", at |-> NoPerson]
  BY DEF AtSeat, Letter, NextRequest
<1> HIDE DEF about
<1>4. /\ l \in LetterRow /\ l.kind = kind /\ l.who = NoPerson /\ l.box = a /\ ~l.copy /\ l.about = about
      /\ l.request = NextRequest /\ l.state = "waiting"
  BY <1>1, <1>2, <1>3, LetterIs
<1> QED BY <1>1, <1>4

\* It is proper, and so is what came of sending it at once, where the seat is that one.
LEMMA AtSeatProper ==
  ASSUME LettersTypeOK, NEW kind \in OfSeat, NEW a \in Boxes, NEW id \in Nat, NEW l, l = AtSeat(kind, a, id), NEW s \in {Sent(l), Delivered(l)}
  PROVE  Proper(l) /\ (id \in {seat[a].id, seat'[a].id} => Proper(s))
BY AtSeatIs, SentIs DEF OfSeat, Special, Changes, Proper

LEMMA RegisterWrites ==
  ASSUME LettersTypeOK, NEW a \in Boxes, NEW state \in {"accept", "waitinglist"}, Register(a, state) PROVE Writes
<1>1. PICK id \in Nat : id = lastKey' BY DEF LettersTypeOK, Register
<1>2. seat'[a].id = id BY <1>1 DEF LettersTypeOK, Register
<1> DEFINE l == AtSeat("greeting", a, lastKey')
           m == AtSeat("registered", a, lastKey')
<1>3. Post((IF state = "accept" THEN <<Delivered(l)>> ELSE <<>>) \o <<m>>)
  BY DEF Register, AttendeeWelcomeMailMailer, AttendEventWithoutAccountConfirmMailer
<1>4. l = AtSeat("greeting", a, id) /\ m = AtSeat("registered", a, id) BY <1>1 DEF AtSeat, Letter
<1> HIDE DEF l, m
<1>5. "greeting" \in OfSeat /\ "registered" \in OfSeat BY DEF OfSeat
<1>6. PICK s : s = Delivered(l) OBVIOUS
<1>7. Proper(s) /\ Proper(m) BY <1>2, <1>4, <1>5, <1>6, AtSeatProper
<1>8. PICK x : x = IF state = "accept" THEN <<s>> ELSE <<>> OBVIOUS
<1>9. x \in Seq(LetterRow) /\ \A k \in DOMAIN x : Proper(x[k])
  BY <1>8, <1>7, ProperFew
<1>10. PICK y : y = <<m>> /\ y \in Seq(LetterRow) /\ \A k \in DOMAIN y : Proper(y[k]) BY <1>7, ProperFew
<1>11. Post(x \o y) BY <1>3, <1>6, <1>8, <1>10
<1>12. Unwelcoming BY StayingIsUnwelcoming DEF Register, folk
<1> QED BY <1>9, <1>10, <1>11, <1>12, ProperJoined, ProperWrites

LEMMA UnseatWrites ==
  ASSUME LettersTypeOK, NEW a \in Boxes, Unseat(a) PROVE Writes
<1>1. PICK u : u = DeleteEventAttendeeMailer(a) OBVIOUS
<1>2. Proper(u)
  <2>1. "unseated" \in Mailers \ Special /\ a \in Addresses BY DEF Mailers, Special, Changes, Addresses
  <2>2. u = [kind |-> "unseated", who |-> NoPerson, box |-> a, copy |-> FALSE, about |-> Nothing, of |-> NoPerson, by |-> NoPerson,
             request |-> NextRequest, state |-> "waiting", at |-> NoPerson]
    BY <1>1 DEF DeleteEventAttendeeMailer, Letter, NextRequest
  <2>3. u \in LetterRow /\ u.kind = "unseated" /\ u.about = Nothing /\ u.request = NextRequest /\ u.state = "waiting"
    BY <2>1, <2>2, NothingIs, LetterIs
  <2> QED BY <2>1, <2>3, NothingIs DEF Proper
<1>3. Unwelcoming BY StayingIsUnwelcoming DEF Unseat, folk
<1>4. CASE Post(<<u>>) BY <1>2, <1>3, <1>4, ProperOne
<1>5. ASSUME NEW b \in Boxes, NEW saved \in BOOLEAN,
             Post(<<Sent(AttendeeWelcomeMailMailer(b, seat[b].id))>>
                    \o IF saved THEN <<FromWaitinglistToAccept(b, seat[b].id), DeleteEventAttendeeMailer(a)>> ELSE <<>>)
      PROVE  Writes
  <2>1. PICK id \in Nat : id = seat[b].id BY DEF LettersTypeOK
  <2> DEFINE l == AttendeeWelcomeMailMailer(b, seat[b].id)
             m == FromWaitinglistToAccept(b, seat[b].id)
  <2>2. l = AtSeat("greeting", b, id) /\ m = AtSeat("seated", b, id)
    BY <2>1 DEF AttendeeWelcomeMailMailer, FromWaitinglistToAccept, AtSeat, Letter
  <2>3. Post(<<Sent(l)>> \o IF saved THEN <<m, u>> ELSE <<>>) BY <1>1, <1>5
  <2> HIDE DEF l, m
  <2>4. "greeting" \in OfSeat /\ "seated" \in OfSeat BY DEF OfSeat
  <2>5. PICK s : s = Sent(l) OBVIOUS
  <2>6. Proper(s) /\ Proper(m) BY <2>1, <2>2, <2>4, <2>5, AtSeatProper
  <2>7. PICK x : x = <<s>> /\ x \in Seq(LetterRow) /\ \A k \in DOMAIN x : Proper(x[k]) BY <2>6, ProperFew
  <2>8. PICK y : y = IF saved THEN <<m, u>> ELSE <<>> OBVIOUS
  <2>9. y \in Seq(LetterRow) /\ \A k \in DOMAIN y : Proper(y[k])
    BY <2>8, <1>2, <2>6, ProperFew
  <2>10. Post(x \o y) BY <2>3, <2>5, <2>7, <2>8
  <2> QED BY <1>3, <2>7, <2>9, <2>10, ProperJoined, ProperWrites
<1> QED BY <1>1, <1>4, <1>5 DEF Unseat

-----------------------------------------------------------------------------
\* What the administrators are told of a change, each once.
ChangeNote(l) ==
  /\ l \in LetterRow /\ l.kind \in Changes /\ l.request = NextRequest /\ l.about = Nothing /\ l.state = "waiting"
  /\ l.kind = "deleted" => Farewell(l, account')

LEMMA ChangesWrite ==
  ASSUME LettersTypeOK, NEW list \in Seq(LetterRow), \A k \in DOMAIN list : ChangeNote(list[k]),
         \A i, j \in DOMAIN list : i # j => Apart(list[i], list[j]), Post(list), Unwelcoming
  PROVE  Writes
<1>1. Batch(list) BY NothingIs DEF Batch, ChangeNote, Post, Unrepeated, Changes
<1>2. Welcoming(list) BY DEF ChangeNote, Changes, Welcoming, Unwelcoming
<1> QED BY <1>1, <1>2 DEF Writes

LEMMA ApartJoined ==
  ASSUME NEW a \in Seq(LetterRow), NEW b \in Seq(LetterRow), \A k \in DOMAIN a : ChangeNote(a[k]), \A k \in DOMAIN b : ChangeNote(b[k]),
         \A i, j \in DOMAIN a : i # j => Apart(a[i], a[j]), \A i, j \in DOMAIN b : i # j => Apart(b[i], b[j]),
         \A i \in DOMAIN a : \A j \in DOMAIN b : Apart(a[i], b[j])
  PROVE  /\ a \o b \in Seq(LetterRow) /\ \A k \in DOMAIN (a \o b) : ChangeNote((a \o b)[k])
         /\ \A i, j \in DOMAIN (a \o b) : i # j => Apart((a \o b)[i], (a \o b)[j])
<1> DEFINE all == a \o b
<1>1. /\ all \in Seq(LetterRow)
      /\ \A k \in DOMAIN all : \/ k \in DOMAIN a /\ all[k] = a[k]
                               \/ k \notin DOMAIN a /\ k - Len(a) \in DOMAIN b /\ all[k] = b[k - Len(a)]
      /\ DOMAIN all \subseteq Nat /\ Len(a) \in Nat
  BY ListsJoined
<1> HIDE DEF all
<1>2. \A k \in DOMAIN all : ChangeNote(all[k]) BY <1>1
<1>3. \A l, m : Apart(l, m) => Apart(m, l) BY DEF Apart
<1>4. ASSUME NEW i \in DOMAIN all, NEW j \in DOMAIN all, i # j PROVE Apart(all[i], all[j])
  BY <1>1, <1>4, <1>3
<1> QED BY <1>1, <1>2, <1>4 DEF all

LEMMA OneChange ==
  ASSUME NEW l, ChangeNote(l)
  PROVE  \E list : /\ list = <<l>> /\ list \in Seq(LetterRow) /\ \A k \in DOMAIN list : list[k] = l /\ ChangeNote(list[k])
                   /\ \A i, j \in DOMAIN list : i # j => Apart(list[i], list[j])
<1>1. l \in LetterRow BY DEF ChangeNote
<1>2. <<l>> \in Seq(LetterRow) /\ DOMAIN <<l>> = {1} /\ <<l>>[1] = l BY <1>1
<1> QED BY <1>2

LEMMA ToggleRoleWrites ==
  ASSUME LettersTypeOK, NEW s \in Folk, NEW p \in Folk, ToggleRole(s, p) PROVE Writes
<1>1. ASSUME NEW kind \in {"admin", "noAdmin"}, NEW S \in SUBSET Folk, p \notin S,
             NEW a, a = [i \in DOMAIN SetToSeq(S) |-> Tell(kind, SetToSeq(S)[i], p, s)], Post(a \o <<Tell(kind, p, p, s)>>)
      PROVE  Writes
  <2>1. kind \in Mailers /\ p \in Addresses \cup {NoPerson} /\ kind \in Changes /\ kind # "deleted"
    BY DEF Mailers, Addresses, Changes
  <2>2. \A q \in Folk : /\ Tell(kind, q, p, s) \in LetterRow /\ Tell(kind, q, p, s).who = q /\ ChangeNote(Tell(kind, q, p, s))
    BY <2>1, TellIs DEF ChangeNote
  <2>3. PICK f \in [Folk -> LetterRow] : \A q \in Folk : f[q] = Tell(kind, q, p, s)
    <3> DEFINE g == [q \in Folk |-> Tell(kind, q, p, s)]
    <3>1. g \in [Folk -> LetterRow] /\ \A q \in Folk : g[q] = Tell(kind, q, p, s) BY <2>2
    <3> QED BY <3>1
  <2>4. a = [i \in DOMAIN SetToSeq(S) |-> f[SetToSeq(S)[i]]]
    BY FolkListed, <1>1, <2>3
  <2>5. /\ a \in Seq(LetterRow)
        /\ \A k \in DOMAIN a : \E q \in S : a[k] = f[q]
        /\ \A i, j \in DOMAIN a : i # j => \E q, r \in S : q # r /\ a[i] = f[q] /\ a[j] = f[r]
    BY <2>4, Mapped
  <2>6. \A q \in S : ChangeNote(f[q]) /\ f[q].who = q /\ q # p BY <1>1, <2>2, <2>3
  <2>7. \A k \in DOMAIN a : ChangeNote(a[k]) /\ a[k].who # p BY <2>5, <2>6
  <2>8. \A i, j \in DOMAIN a : i # j => Apart(a[i], a[j]) BY <2>5, <2>6 DEF Apart
  <2>9. PICK m : m = Tell(kind, p, p, s) /\ ChangeNote(m) /\ m.who = p BY <2>2
  <2>10. PICK b : /\ b = <<m>> /\ b \in Seq(LetterRow) /\ \A k \in DOMAIN b : b[k] = m /\ ChangeNote(b[k])
                  /\ \A i, j \in DOMAIN b : i # j => Apart(b[i], b[j])
    BY <2>9, OneChange
  <2>11. \A i \in DOMAIN a : \A j \in DOMAIN b : Apart(a[i], b[j]) BY <2>7, <2>9, <2>10 DEF Apart
  <2>12. Post(a \o b) BY <1>1, <2>9, <2>10
  <2>13. Unwelcoming BY StayingIsUnwelcoming DEF ToggleRole
  <2> HIDE DEF ToggleRole
  <2>14. /\ a \o b \in Seq(LetterRow) /\ \A k \in DOMAIN (a \o b) : ChangeNote((a \o b)[k])
         /\ \A i, j \in DOMAIN (a \o b) : i # j => Apart((a \o b)[i], (a \o b)[j])
    BY <2>5, <2>7, <2>8, <2>10, <2>11, ApartJoined
  <2> QED BY <2>12, <2>13, <2>14, ChangesWrite
<1>2. CASE p \in chiefs
  BY <1>2, <1>1 DEF ToggleRole, LettersTypeOK, Each, UserRevokeAdminForAdmin, UserRevokeAdminForSelf
<1>3. CASE p \notin chiefs
  BY <1>3, <1>1 DEF ToggleRole, LettersTypeOK, Each, UserAssignAdminForAdmin, UserAssignAdminForSelf
<1> QED BY <1>2, <1>3

LEMMA DeleteUserWrites ==
  ASSUME LettersTypeOK, OwnBoxes, NEW s \in Folk, NEW p \in Folk, DeleteUser(s, p) PROVE Writes
<1>1. "deleted" \in Mailers /\ "deleted" \in Changes /\ p \in Addresses \cup {NoPerson} /\ \A q \in Folk : account[q].box \in Addresses
  BY DEF Mailers, Changes, Addresses, LettersTypeOK, Account
<1>2. ~account'[p].active /\ account'[p].box = p BY DEF DeleteUser, Removed, LettersTypeOK, Account
<1>3. \A q \in Folk : /\ UserDeleteComplete(s, p, account[q].box) \in LetterRow /\ UserDeleteComplete(s, p, account[q].box).box = account[q].box
                      /\ ChangeNote(UserDeleteComplete(s, p, account[q].box))
  <2> SUFFICES ASSUME NEW q \in Folk
               PROVE  /\ UserDeleteComplete(s, p, account[q].box) \in LetterRow /\ UserDeleteComplete(s, p, account[q].box).box = account[q].box
                      /\ ChangeNote(UserDeleteComplete(s, p, account[q].box))
    OBVIOUS
  <2>1. PICK box \in Addresses : box = account[q].box BY <1>1
  <2>2. PICK l : l = TellAt("deleted", box, p, s) OBVIOUS
  <2>6. s \in Folk \cup {NoPerson} OBVIOUS
  <2>3. /\ l \in LetterRow /\ l.kind = "deleted" /\ l.who = NoPerson /\ l.box = box /\ l.about = Nothing /\ l.of = p
        /\ l.request = NextRequest /\ l.state = "waiting"
    BY <1>1, <2>2, <2>6, TellAtIs, SMTT(30)
  <2>4. ChangeNote(l) BY <1>1, <1>2, <2>3 DEF ChangeNote, Farewell
  <2>5. UserDeleteComplete(s, p, account[q].box) = l BY <2>1, <2>2 DEF UserDeleteComplete, TellAt, Letter
  <2> QED BY <2>1, <2>3, <2>4, <2>5
<1>4. PICK m : m = UserDeleteComplete(s, p, account[p].box) /\ m.box = account[p].box /\ ChangeNote(m) BY <1>3
<1>5. PICK a : /\ a = <<m>> /\ a \in Seq(LetterRow) /\ \A k \in DOMAIN a : a[k] = m /\ ChangeNote(a[k])
               /\ \A i, j \in DOMAIN a : i # j => Apart(a[i], a[j])
  BY <1>4, OneChange
<1> DEFINE S == chiefs \ {p}
           c == [i \in DOMAIN SetToSeq(S) |-> UserDeleteComplete(s, p, account[SetToSeq(S)[i]].box)]
<1>6. Each(S, LAMBDA q : UserDeleteComplete(s, p, account[q].box)) = c BY DEF Each
<1>7. /\ c \in Seq(LetterRow) /\ \A k \in DOMAIN c : ChangeNote(c[k]) /\ c[k].box # account[p].box
      /\ \A i, j \in DOMAIN c : i # j => Apart(c[i], c[j])
  <2>1. S \in SUBSET Folk /\ p \notin S BY DEF LettersTypeOK
  <2>2. PICK f \in [Folk -> LetterRow] : \A q \in Folk : f[q] = UserDeleteComplete(s, p, account[q].box)
    <3> DEFINE g == [q \in Folk |-> UserDeleteComplete(s, p, account[q].box)]
    <3>1. g \in [Folk -> LetterRow] /\ \A q \in Folk : g[q] = UserDeleteComplete(s, p, account[q].box) BY <1>3
    <3> QED BY <3>1
  <2> HIDE DEF S
  <2>3. \A i \in DOMAIN SetToSeq(S) : SetToSeq(S)[i] \in Folk BY <2>1, FolkListed
  <2>4. c = [i \in DOMAIN SetToSeq(S) |-> f[SetToSeq(S)[i]]] BY <2>2, <2>3
  <2> HIDE DEF c
  <2>5. /\ c \in Seq(LetterRow)
        /\ \A k \in DOMAIN c : \E q \in S : c[k] = f[q]
        /\ \A i, j \in DOMAIN c : i # j => \E q, r \in S : q # r /\ c[i] = f[q] /\ c[j] = f[r]
    BY <2>1, <2>4, Mapped
  <2>6. \A q \in S : q \in Folk /\ ChangeNote(f[q]) /\ f[q].box = account[q].box /\ q # p BY <1>3, <2>1, <2>2
  <2>7. \A q, r \in Folk : q # r => account[q].box # account[r].box BY DEF OwnBoxes
  <2>8. ASSUME NEW k \in DOMAIN c PROVE ChangeNote(c[k]) /\ c[k].box # account[p].box
    BY <2>5, <2>6, <2>7
  <2>9. ASSUME NEW i \in DOMAIN c, NEW j \in DOMAIN c, i # j PROVE Apart(c[i], c[j])
    BY <2>5, <2>9, <2>6, <2>7 DEF Apart
  <2> QED BY <2>5, <2>8, <2>9
<1> HIDE DEF c
<1>8. PICK b : b = IF p \in chiefs THEN c ELSE <<>> OBVIOUS
<1>9. Post(a \o b) BY <1>4, <1>5, <1>6, <1>8 DEF DeleteUser, Goodbyes
<1>10. /\ b \in Seq(LetterRow) /\ \A k \in DOMAIN b : ChangeNote(b[k]) /\ b[k].box # account[p].box
       /\ \A i, j \in DOMAIN b : i # j => Apart(b[i], b[j])
  <2>1. CASE p \in chiefs
    <3>1. b = c BY <1>8, <2>1
    <3> QED BY <1>7, <3>1
  <2>2. CASE p \notin chiefs BY <1>8, <2>2
  <2> QED BY <2>1, <2>2
<1>11. \A i \in DOMAIN a : \A j \in DOMAIN b : Apart(a[i], b[j]) BY <1>4, <1>5, <1>10 DEF Apart
<1>12. Unwelcoming BY DEF DeleteUser, Removed, LettersTypeOK, Unwelcoming, InFull
<1>13. /\ a \o b \in Seq(LetterRow) /\ \A k \in DOMAIN (a \o b) : ChangeNote((a \o b)[k])
       /\ \A i, j \in DOMAIN (a \o b) : i # j => Apart((a \o b)[i], (a \o b)[j])
  BY <1>5, <1>10, <1>11, ApartJoined
<1> QED BY <1>9, <1>12, <1>13, ChangesWrite

-----------------------------------------------------------------------------
\* The letters of which nothing more is to be said.
LEMMA PersonListed == \A p \in Folk : p \in Addresses \cup {NoPerson}
BY DEF Addresses

LEMMA ToggleRequestDeleteWrites ==
  ASSUME LettersTypeOK, NEW p \in Folk, ToggleRequestDelete(p) PROVE Writes
<1>1. ASSUME NEW mine \in Mailers \ Special, NEW theirs \in Mailers \ Special,
             NEW a, a = <<Tell(mine, p, p, NoPerson)>>, NEW b, b = [i \in DOMAIN SetToSeq(chiefs) |-> Tell(theirs, SetToSeq(chiefs)[i], p, NoPerson)], Post(a \o b)
      PROVE  Writes
  <2>1. Ordinary(a) BY <1>1, PersonListed, PlainTell
  <2>2. chiefs \in SUBSET Folk BY DEF LettersTypeOK
  <2>3. Ordinary(b) BY <1>1, <2>2, PersonListed, PlainEach
  <2>4. Unwelcoming BY StayingIsUnwelcoming DEF ToggleRequestDelete, folk
  <2> QED BY <1>1, <2>1, <2>3, <2>4, PlainJoined, PlainWrites
<1>2. {"stays", "staysAfterAll", "mayGo", "asksToGo"} \subseteq Mailers \ Special BY DEF Mailers, Special, Changes
<1>3. CASE p \in leaving
  BY <1>3, <1>1, <1>2 DEF UserCancelDeleteToSelf, Each, UserCancelDeleteToAdmin, ToggleRequestDelete
<1>4. CASE p \notin leaving
  BY <1>4, <1>1, <1>2 DEF UserRequestDeleteToSelf, Each, UserRequestDeleteToAdmin, ToggleRequestDelete
<1> QED BY <1>3, <1>4

\* Entering the group, by a welcome and nothing, or an approval, after it.
LEMMA EnteringWrites ==
  ASSUME LettersTypeOK, NEW s \in Folk, NEW p \in Folk, Joined(p), Post(Welcomes(p)) \/ Post(Welcomes(p) \o <<GroupMembershipApproved(s, p)>>) PROVE Writes
<1>1. CASE Post(Welcomes(p))
  <2>1. GroupWelcome(p) \in LetterRow
    BY PersonListed, TellIs DEF Mailers, GroupWelcome
  <2>2. Welcomes(p) \in Seq(LetterRow) BY <2>1 DEF Welcomes
  <2>3. Welcomes(p) \o <<>> = Welcomes(p) BY <2>2
  <2>4. \E list : list = <<>> /\ Ordinary(list) /\ Post(Welcomes(p) \o list) BY <1>1, <2>3, PlainEmpty
  <2> QED BY <2>4, JoiningWrites
<1>2. CASE Post(Welcomes(p) \o <<GroupMembershipApproved(s, p)>>)
  <2>1. "letIn" \in Mailers \ Special BY DEF Mailers, Special, Changes
  <2>2. PICK list : list = <<GroupMembershipApproved(s, p)>> /\ Ordinary(list)
    BY <2>1, PersonListed, PlainTell DEF GroupMembershipApproved
  <2> QED BY <1>2, <2>2, JoiningWrites
<1> QED BY <1>1, <1>2

LEMMA MembershipWrites ==
  ASSUME LettersTypeOK, NEW s \in Folk, NEW p \in Folk,
         \/ AcceptMembership(s, p) \/ RejectMembership(s, p) \/ DirectAdd(s, p) \/ MakeOwner(s, p) \/ JoinGroup(p)
         \/ \E i \in invitation : AcceptInvitation(p, i)
  PROVE  Writes
<1>1. {"turnedDown", "newOwner", "asksIn"} \subseteq Mailers \ Special BY DEF Mailers, Special, Changes
<1>2. CASE AcceptMembership(s, p) BY <1>2, EnteringWrites DEF AcceptMembership
<1>3. CASE RejectMembership(s, p)
  <2>1. Unwelcoming BY <1>3 DEF RejectMembership, Unwelcoming, InFull, LettersTypeOK
  <2>2. PICK list : list = <<RejectGroupMembership(s, p)>> /\ Ordinary(list)
    BY <1>1, PersonListed, PlainTell DEF RejectGroupMembership
  <2> QED BY <1>3, <2>1, <2>2, PlainWrites DEF RejectMembership
<1>4. CASE DirectAdd(s, p) BY <1>4, EnteringWrites DEF DirectAdd
<1>5. CASE MakeOwner(s, p)
  <2>1. Unwelcoming BY <1>5 DEF MakeOwner, Unwelcoming, InFull, LettersTypeOK
  <2>2. PICK list : list = <<ChangeGroupOwnership(s, p)>> /\ Ordinary(list)
    BY <1>1, PersonListed, PlainTell DEF ChangeGroupOwnership
  <2> QED BY <1>5, <2>1, <2>2, PlainWrites DEF MakeOwner
<1>6. CASE JoinGroup(p)
  <2>1. CASE LeadsGroup(p) BY <1>6, <2>1, EnteringWrites DEF JoinGroup
  <2>2. CASE ~LeadsGroup(p)
    <3>1. Unwelcoming BY <1>6, <2>2 DEF JoinGroup, Unwelcoming, InFull, LettersTypeOK
    <3>2. Leaders \in SUBSET Folk BY DEF Leaders
    <3>3. PICK list : list = [i \in DOMAIN SetToSeq(Leaders) |-> Tell("asksIn", SetToSeq(Leaders)[i], p, NoPerson)] OBVIOUS
    <3>4. Each(Leaders, LAMBDA q : GroupAccessRequest(p, q)) = list BY <3>3 DEF Each, GroupAccessRequest
    <3>5. Ordinary(list) BY <1>1, <3>2, <3>3, PersonListed, PlainEach
    <3>6. Post(Each(Leaders, LAMBDA q : GroupAccessRequest(p, q))) BY <1>6, <2>2 DEF JoinGroup, Each
    <3> QED BY <3>1, <3>4, <3>5, <3>6, PlainWrites
  <2> QED BY <2>1, <2>2
<1>7. CASE \E i \in invitation : AcceptInvitation(p, i) BY <1>7, EnteringWrites DEF AcceptInvitation
<1> QED BY <1>2, <1>3, <1>4, <1>5, <1>6, <1>7

LEMMA ChangeRoleWrites ==
  ASSUME LettersTypeOK, NEW s \in Folk, NEW p \in Folk, NEW role \in {"member", "admin", "none"}, ChangeRole(s, p, role) PROVE Writes
<1>1. \A q \in Folk : q # p => membership'[q] = membership[q] BY DEF ChangeRole, LettersTypeOK
<1>2. Promoting BY <1>1 DEF ChangeRole, Promoting, InFull
<1> QED BY <1>2 DEF Writes

LEMMA AskAccessWrites ==
  ASSUME LettersTypeOK, NEW a \in Boxes, AskAccess(a) PROVE Writes
<1>1. {"asks"} \subseteq Mailers \ Special /\ chiefs \in SUBSET Folk /\ a \in Addresses \cup {NoPerson}
  BY DEF Mailers, Special, Changes, LettersTypeOK, Addresses
<1>2. Unwelcoming BY StayingIsUnwelcoming DEF AskAccess, folk
<1>3. PICK list : list = [i \in DOMAIN SetToSeq(chiefs) |-> Tell("asks", SetToSeq(chiefs)[i], a, NoPerson)] OBVIOUS
<1>4. Each(chiefs, LAMBDA q : SiteAccessRequested(a, q)) = list BY <1>3 DEF Each, SiteAccessRequested
<1>5. Ordinary(list) BY <1>1, <1>3, PlainEach
<1>6. Post(Each(chiefs, LAMBDA q : SiteAccessRequested(a, q))) BY DEF AskAccess, Each
<1> QED BY <1>2, <1>4, <1>5, <1>6, PlainWrites

LEMMA SetWallsWrites ==
  ASSUME LettersTypeOK, NEW s \in Folk, SetWalls(s) PROVE Writes
<1>1. {"walls"} \subseteq Mailers \ Special /\ chiefs \in SUBSET Folk BY DEF Mailers, Special, Changes, LettersTypeOK
<1>2. Unwelcoming BY StayingIsUnwelcoming DEF SetWalls, folk
<1>3. PICK list : list = [i \in DOMAIN SetToSeq(chiefs) |-> Tell("walls", SetToSeq(chiefs)[i], NoPerson, s)] OBVIOUS
<1>4. Each(chiefs, LAMBDA q : SiteAccessChanged(s, q)) = list BY <1>3 DEF Each, SiteAccessChanged
<1>5. Ordinary(list) BY <1>1, <1>3, PlainEach
<1>6. Post(Each(chiefs, LAMBDA q : SiteAccessChanged(s, q))) BY DEF SetWalls, Each
<1> QED BY <1>2, <1>4, <1>5, <1>6, PlainWrites

LEMMA HandleAccessWrites ==
  ASSUME LettersTypeOK, NEW s \in Folk, NEW a \in Boxes, NEW accept \in BOOLEAN, NEW silent \in BOOLEAN,
         HandleAccessRequest(s, a, accept, silent)
  PROVE  Writes
<1>1. {"accepted", "denied"} \subseteq Mailers \ Special /\ a \in Addresses
  BY DEF Mailers, Special, Changes, Addresses
<1>2. Unwelcoming BY StayingIsUnwelcoming DEF HandleAccessRequest, folk
<1>3. Post(<<>>) \/ Post(<<SiteAccessRequestAccepted(s, a)>>) \/ Post(<<SiteAccessRequestDenied(s, a)>>)
  BY DEF HandleAccessRequest
<1>4. Ordinary(<<>>) BY PlainEmpty
<1>5. Ordinary(<<SiteAccessRequestAccepted(s, a)>>) BY <1>1, PlainTellAt DEF SiteAccessRequestAccepted
<1>6. Ordinary(<<SiteAccessRequestDenied(s, a)>>) BY <1>1, PlainTellAt DEF SiteAccessRequestDenied
<1> QED BY <1>2, <1>3, <1>4, <1>5, <1>6, PlainWrites

LEMMA TaskWrites ==
  ASSUME LettersTypeOK, NEW p \in Folk, ExportAvatars(p) \/ ExportMyContent(p) \/ ImportUsers(p)
  PROVE  Writes
<1>1. ASSUME NEW kind \in Mailers \ Special, Told(p, <<Tell(kind, p, p, NoPerson)>>) PROVE Writes
  BY <1>1, StayingIsUnwelcoming, PersonListed, PlainTell, PlainWrites DEF Told, folk
<1>2. {"avatars", "content", "noContent", "imported", "notImported"} \subseteq Mailers \ Special
  BY DEF Mailers, Special, Changes
<1>3. PICK a, b, c, d, e : /\ a = AvatarExportReady(p) /\ b = ContentExportReady(p) /\ c = ContentExportEmpty(p)
                           /\ d = UserImportSuccess(p) /\ e = UserImportFailed(p)
  OBVIOUS
<1>4. Told(p, <<a>>) \/ Told(p, <<b>>) \/ Told(p, <<c>>) \/ Told(p, <<d>>) \/ Told(p, <<e>>)
  BY <1>3 DEF ExportAvatars, ExportMyContent, ImportUsers
<1>5. /\ a = Tell("avatars", p, p, NoPerson) /\ b = Tell("content", p, p, NoPerson) /\ c = Tell("noContent", p, p, NoPerson)
      /\ d = Tell("imported", p, p, NoPerson) /\ e = Tell("notImported", p, p, NoPerson)
  BY <1>3 DEF AvatarExportReady, ContentExportReady, ContentExportEmpty, UserImportSuccess, UserImportFailed
<1> QED BY <1>1, <1>2, <1>4, <1>5

\* Every step writes so.
LEMMA StepWrites ==
  ASSUME LettersTypeOK, OwnBoxes, NoticesNext PROVE Writes
<1>1. CASE LettersStep
  <2>1. CASE \E u \in Folk, want \in Recipients, copy \in BOOLEAN : MessageToGroup(u, want, copy)
    BY <2>1, MessageToGroupWrites
  <2>2. CASE \E u, p \in Folk, copy \in BOOLEAN : MessageToUser(u, p, copy) BY <2>2, MessageToUserWrites
  <2>3. CASE \E u \in Folk, test, copy \in BOOLEAN : MessageToEvent(u, test, copy) BY <2>3, MessageToEventWrites
  <2>4. CASE \E u \in Folk : InviteSomeone(u) BY <2>4, InviteWrites
  <2>5. CASE \E u \in Folk : \E i \in invitation : Resend(u, i) BY <2>5, ResendWrites
  <2>6. CASE \E u \in Folk : \E i \in invitation : DeleteInvitation(u, i)
    BY <2>6, StayingIsUnwelcoming DEF DeleteInvitation, folk, Writes
  <2>7. CASE \E k \in DOMAIN letter : SendMail(k) BY <2>7, StayingIsUnwelcoming DEF SendMail, folk, Writes
  <2>8. CASE \E p \in Folk : Ban(p) \/ \E a \in Boxes : Moves(p, a)
    BY <2>8, StayingIsUnwelcoming DEF Ban, Moves, Writes
  <2>9. CASE \E p \in Folk : Leaves(p) BY <2>9 DEF Leaves, Writes, Unwelcoming, InFull, LettersTypeOK
  <2>10. CASE \E a \in Boxes : Unseat(a) BY <2>10, UnseatWrites
  <2>11. CASE \E a \in Boxes : \E state \in {"accept", "waitinglist"} : Register(a, state) BY <2>11, RegisterWrites
  <2>12. CASE DeleteEvent \/ EditWelcome BY <2>12, StayingIsUnwelcoming DEF DeleteEvent, EditWelcome, folk, Writes
  <2>13. CASE DeleteGroup BY <2>13 DEF DeleteGroup, Writes, Unwelcoming
  <2> QED BY <1>1, <2>1, <2>2, <2>3, <2>4, <2>5, <2>6, <2>7, <2>8, <2>9, <2>10, <2>11, <2>12, <2>13 DEF LettersStep
<1>2. ASSUME NEW s \in Folk, NEW p \in Folk, NEW accept \in BOOLEAN, HandleDeleteRequest(s, p, accept) PROVE Writes
  BY DeleteUserWrites, <1>2, StayingIsUnwelcoming DEF HandleDeleteRequest, folk, Writes
<1>3. CASE \E s, p \in Folk : ToggleRole(s, p) BY <1>3, ToggleRoleWrites
<1>4. CASE \E s, p \in Folk : DeleteUser(s, p) BY <1>4, DeleteUserWrites
<1>5. CASE \E s, p \in Folk : \/ AcceptMembership(s, p) \/ RejectMembership(s, p) \/ DirectAdd(s, p) \/ MakeOwner(s, p) \/ JoinGroup(p)
                              \/ \E i \in invitation : AcceptInvitation(p, i)
  BY <1>5, MembershipWrites
<1>6. CASE \E s \in Folk, a \in Boxes, accept, silent \in BOOLEAN : HandleAccessRequest(s, a, accept, silent)
  BY <1>6, HandleAccessWrites
<1>7. CASE \E s \in Folk : SetWalls(s) BY <1>7, SetWallsWrites
<1>8. CASE \E a \in Boxes : AskAccess(a) BY <1>8, AskAccessWrites
<1>9. CASE \E p \in Folk : ToggleRequestDelete(p) BY <1>9, ToggleRequestDeleteWrites
<1>10. CASE \E p \in Folk : ExportAvatars(p) \/ ExportMyContent(p) \/ ImportUsers(p) BY <1>10, TaskWrites
<1>11. CASE \E s, p \in Folk : \E role \in {"member", "admin", "none"} : ChangeRole(s, p, role) BY <1>11, ChangeRoleWrites
<1> QED BY <1>1, <1>2, <1>3, <1>4, <1>5, <1>6, <1>7, <1>8, <1>9, <1>10, <1>11 DEF NoticesNext

-----------------------------------------------------------------------------
\* The rows that are no letters.
PeopleTypeOK ==
  /\ account \in [Folk -> Account]
  /\ membership \in [Folk -> {"none", "pending", "member", "admin", "owner"}]
  /\ insiders \subseteq Folk /\ chiefs \subseteq Folk /\ {standing, welcome} \subseteq BOOLEAN
InvitedTypeOK == invitation \subseteq Invitation /\ \A i \in invitation : i.id \in 1..lastKey
SeatTypeOK    == held \in BOOLEAN /\ seat \in [Boxes -> [state : {"none", "accept", "waitinglist"}, id : 0..lastKey]] /\ lastKey \in Nat

LEMMA TypeIs == LettersTypeOK <=> PeopleTypeOK /\ InvitedTypeOK /\ SeatTypeOK /\ letter \in Seq(LetterRow) /\ turns \in 0..MaxTurns
BY DEF LettersTypeOK, PeopleTypeOK, InvitedTypeOK, SeatTypeOK

LEMMA TypePrimedIs ==
  PeopleTypeOK' /\ InvitedTypeOK' /\ SeatTypeOK' /\ letter' \in Seq(LetterRow) /\ turns' \in 0..MaxTurns => LettersTypeOK'
BY DEF LettersTypeOK, PeopleTypeOK, InvitedTypeOK, SeatTypeOK

\* What a step does with the people: nothing to the accounts, or a ban, a move, a deletion.
AccountsStep ==
  \/ UNCHANGED account
  \/ \E p \in Folk : account' = [account EXCEPT ![p].active = FALSE]
  \/ \E p \in Folk, a \in Boxes : account[p].active /\ (\A q \in Folk : account[q].box # a) /\ account' = [account EXCEPT ![p].box = a]
  \/ \E p \in Folk : account' = [account EXCEPT ![p].active = FALSE, ![p].box = p]
\* To the invitations: nothing, some withdrawn, or a new one of who was not invited.
InvitationsStep ==
  \/ invitation' \subseteq invitation /\ lastKey' \in {lastKey, lastKey + 1}
  \/ \E who \in Folk \cup {NoPerson}, box \in Addresses :
       /\ Invited(who, box) = {} /\ lastKey' = lastKey + 1
       /\ invitation' = invitation \cup {[id |-> lastKey', who |-> who, box |-> box]}
SeatsStep ==
  /\ held' \in {held, FALSE}
  /\ lastKey' \in {lastKey, lastKey + 1}
  /\ seat' \in [Boxes -> [state : {"none", "accept", "waitinglist"}, id : 0..lastKey']]
GroupStep ==
  /\ membership' \in [Folk -> {"none", "pending", "member", "admin", "owner"}]
  /\ insiders' \subseteq Folk /\ chiefs' \subseteq Folk /\ {standing', welcome'} \subseteq BOOLEAN
  /\ turns' \in {turns, turns + 1} /\ turns' <= MaxTurns

Rows == AccountsStep /\ InvitationsStep /\ SeatsStep /\ GroupStep

LEMMA SameIsRows ==
  ASSUME LettersTypeOK, UNCHANGED <<folk, booking, invitation, lastKey>>, UNCHANGED turns \/ Turn PROVE Rows
<1>1. AccountsStep BY DEF AccountsStep, folk
<1>2. InvitationsStep BY DEF InvitationsStep
<1>3. SeatsStep BY DEF SeatsStep, booking, LettersTypeOK
<1>4. GroupStep BY LettersAssumption DEF GroupStep, folk, LettersTypeOK, Turn
<1> QED BY <1>1, <1>2, <1>3, <1>4 DEF Rows

\* A step that leaves the seats and the invitations, and changes the group or the people.
LEMMA FolkRows ==
  ASSUME LettersTypeOK, AccountsStep, UNCHANGED <<seat, held, lastKey>>, invitation' \subseteq invitation, UNCHANGED turns \/ Turn,
         membership' \in [Folk -> {"none", "pending", "member", "admin", "owner"}],
         insiders' \subseteq Folk, chiefs' \subseteq Folk, {standing', welcome'} \subseteq BOOLEAN
  PROVE  Rows
BY LettersAssumption DEF InvitationsStep, SeatsStep, LettersTypeOK, GroupStep, Turn, Rows

LEMMA SeatRows ==
  ASSUME LettersTypeOK, UNCHANGED <<folk, invitation>>, Turn, SeatsStep PROVE Rows
<1>1. AccountsStep BY DEF AccountsStep, folk
<1>2. InvitationsStep BY DEF InvitationsStep, SeatsStep
<1>3. GroupStep BY LettersAssumption DEF GroupStep, folk, LettersTypeOK, Turn
<1> QED BY <1>1, <1>2, <1>3 DEF Rows

LEMMA LettersRows ==
  ASSUME LettersTypeOK, LettersStep PROVE Rows
<1>1. CASE \E u \in Folk, want \in Recipients, copy \in BOOLEAN : MessageToGroup(u, want, copy)
  BY <1>1, SameIsRows DEF MessageToGroup
<1>2. CASE \E u, p \in Folk, copy \in BOOLEAN : MessageToUser(u, p, copy) BY <1>2, SameIsRows DEF MessageToUser
<1>3. CASE \E u \in Folk, test, copy \in BOOLEAN : MessageToEvent(u, test, copy)
  BY <1>3, SameIsRows DEF MessageToEvent
<1>4. ASSUME NEW u \in Folk, InviteSomeone(u) PROVE Rows
  <2>1. ASSUME NEW who \in Folk \cup {NoPerson}, NEW box \in Addresses, Invite(u, who, box) PROVE Rows
    <3>1. CASE Invited(who, box) # {} BY <2>1, <3>1, SameIsRows DEF Invite
    <3>2. CASE Invited(who, box) = {}
      <4>1. AccountsStep BY <2>1 DEF AccountsStep, Invite, folk
      <4>2. InvitationsStep BY <2>1, <3>2 DEF InvitationsStep, Invite
      <4>3. lastKey' = lastKey + 1 /\ lastKey \in Nat /\ UNCHANGED <<seat, held>>
        BY <2>1, <3>2 DEF Invite, booking, LettersTypeOK
      <4>4. SeatsStep BY <4>3 DEF SeatsStep, LettersTypeOK
      <4>5. GroupStep BY <2>1 DEF Invite, GroupStep, folk, LettersTypeOK
      <4> QED BY <4>1, <4>2, <4>4, <4>5 DEF Rows
    <3> QED BY <3>1, <3>2
  <2>2. \A p \in Folk : account[p].box \in Addresses BY DEF LettersTypeOK, Account
  <2>3. \A a \in Boxes : a \in Addresses /\ OfAddress(a) \in Folk \cup {NoPerson} BY DEF OfAddress, Addresses
  <2> QED BY <1>4, <2>1, <2>2, <2>3 DEF InviteSomeone
<1>5. CASE \E u \in Folk : \E i \in invitation : Resend(u, i) BY <1>5, SameIsRows DEF Resend
<1>6. CASE \E u \in Folk : \E i \in invitation : DeleteInvitation(u, i)
  BY <1>6, FolkRows DEF DeleteInvitation, folk, booking, AccountsStep, LettersTypeOK
<1>7. CASE \E k \in DOMAIN letter : SendMail(k) BY <1>7, SameIsRows DEF SendMail
<1>8. ASSUME NEW p \in Folk, Ban(p) PROVE Rows
  BY <1>8, FolkRows DEF Ban, AccountsStep, booking, LettersTypeOK
<1>9. ASSUME NEW p \in Folk, NEW a \in Boxes, Moves(p, a) PROVE Rows
  BY <1>9, FolkRows DEF Moves, AccountsStep, booking, LettersTypeOK
<1>10. ASSUME NEW p \in Folk, Leaves(p) PROVE Rows BY <1>10, FolkRows DEF Leaves, booking, AccountsStep, LettersTypeOK
<1>11. ASSUME NEW a \in Boxes, Unseat(a) PROVE Rows
  <2>1. NoSeat \in [state : {"none", "accept", "waitinglist"}, id : 0..lastKey] /\ lastKey' = lastKey
    BY <1>11 DEF NoSeat, Unseat, LettersTypeOK
  <2> DEFINE gone == [seat EXCEPT ![a] = NoSeat]
  <2>2. gone \in [Boxes -> [state : {"none", "accept", "waitinglist"}, id : 0..lastKey]] BY <2>1 DEF LettersTypeOK
  <2>3. \/ seat' = gone
        \/ \E b \in Boxes : seat' = [gone EXCEPT ![b].state = "accept"]
    BY <1>11 DEF Unseat
  <2> HIDE DEF gone
  <2>4. \A b \in Boxes : [gone EXCEPT ![b].state = "accept"] \in [Boxes -> [state : {"none", "accept", "waitinglist"}, id : 0..lastKey]]
    BY <2>2
  <2>5. SeatsStep BY <1>11, <2>1, <2>2, <2>3, <2>4 DEF Unseat, SeatsStep
  <2> QED BY <1>11, <2>5, SeatRows DEF Unseat
<1>12. ASSUME NEW a \in Boxes, NEW state \in {"accept", "waitinglist"}, Register(a, state) PROVE Rows
  BY <1>12, SeatRows DEF Register, LettersTypeOK, SeatsStep
<1>13. CASE DeleteEvent
  <2>1. NoSeat \in [state : {"none", "accept", "waitinglist"}, id : 0..lastKey] /\ lastKey' = lastKey
    BY <1>13 DEF NoSeat, DeleteEvent, LettersTypeOK
  <2>2. SeatsStep BY <1>13, <2>1 DEF DeleteEvent, SeatsStep
  <2> QED BY <1>13, <2>2, SeatRows DEF DeleteEvent
<1>14. CASE DeleteGroup BY <1>14, FolkRows DEF DeleteGroup, booking, AccountsStep, LettersTypeOK
<1>15. CASE EditWelcome BY <1>15, FolkRows DEF EditWelcome, booking, AccountsStep, LettersTypeOK
<1> QED BY <1>1, <1>2, <1>3, <1>4, <1>5, <1>6, <1>7, <1>8, <1>9, <1>10, <1>11, <1>12, <1>13, <1>14, <1>15 DEF LettersStep

LEMMA DeleteUserRows ==
  ASSUME LettersTypeOK, NEW s \in Folk, NEW p \in Folk, DeleteUser(s, p) PROVE Rows
BY FolkRows DEF DeleteUser, Removed, AccountsStep, booking, LettersTypeOK

LEMMA StepRows ==
  ASSUME LettersTypeOK, NoticesNext PROVE Rows
<1>1. CASE LettersStep BY <1>1, LettersRows
<1>2. ASSUME NEW s \in Folk, NEW p \in Folk, NEW accept \in BOOLEAN, HandleDeleteRequest(s, p, accept) PROVE Rows
  BY DeleteUserRows, <1>2, SameIsRows DEF HandleDeleteRequest
<1>3. ASSUME NEW s \in Folk, NEW p \in Folk, ToggleRole(s, p) PROVE Rows
  BY <1>3, FolkRows DEF ToggleRole, LettersTypeOK, booking, AccountsStep
<1>4. CASE \E s, p \in Folk : DeleteUser(s, p) BY <1>4, DeleteUserRows
<1>5. ASSUME NEW s \in Folk, NEW p \in Folk,
             \/ AcceptMembership(s, p) \/ RejectMembership(s, p) \/ DirectAdd(s, p) \/ MakeOwner(s, p) \/ JoinGroup(p)
             \/ \E i \in invitation : AcceptInvitation(p, i)
      PROVE  Rows
  <2>1. membership' \in [Folk -> {"none", "pending", "member", "admin", "owner"}]
    <3>1. CASE Joined(p) BY <3>1 DEF Joined, LettersTypeOK
    <3>2. CASE MakeOwner(s, p) BY <3>2 DEF MakeOwner, LettersTypeOK
    <3>3. CASE RejectMembership(s, p) \/ (JoinGroup(p) /\ ~Joined(p))
      BY <3>3 DEF RejectMembership, JoinGroup, LettersTypeOK
    <3> QED BY <1>5, <3>1, <3>2, <3>3 DEF AcceptMembership, DirectAdd, AcceptInvitation
  <2>2. UNCHANGED <<account, chiefs, insiders, standing, welcome, booking, lastKey>> /\ Turn /\ invitation' \subseteq invitation
    BY <1>5 DEF AcceptMembership, RejectMembership, DirectAdd, MakeOwner, JoinGroup, AcceptInvitation
  <2> QED BY <2>1, <2>2, FolkRows DEF booking, AccountsStep, LettersTypeOK
<1>6. CASE \E s \in Folk, a \in Boxes, accept, silent \in BOOLEAN : HandleAccessRequest(s, a, accept, silent)
  BY <1>6, SameIsRows DEF HandleAccessRequest
<1>7. CASE \E s \in Folk : SetWalls(s) BY <1>7, SameIsRows DEF SetWalls
<1>8. CASE \E a \in Boxes : AskAccess(a) BY <1>8, SameIsRows DEF AskAccess
<1>9. CASE \E p \in Folk : ToggleRequestDelete(p) BY <1>9, SameIsRows DEF ToggleRequestDelete
<1>10. CASE \E p \in Folk : ExportAvatars(p) \/ ExportMyContent(p) \/ ImportUsers(p)
  BY <1>10, SameIsRows DEF ExportAvatars, ExportMyContent, ImportUsers, Told
<1>11. ASSUME NEW s \in Folk, NEW p \in Folk, NEW role \in {"member", "admin", "none"}, ChangeRole(s, p, role) PROVE Rows
  <2>1. membership' \in [Folk -> {"none", "pending", "member", "admin", "owner"}] BY <1>11 DEF ChangeRole, LettersTypeOK
  <2> QED BY <1>11, <2>1, FolkRows DEF ChangeRole, booking, AccountsStep, LettersTypeOK
<1> QED BY <1>1, <1>2, <1>3, <1>4, <1>5, <1>6, <1>7, <1>8, <1>9, <1>10, <1>11 DEF NoticesNext

-----------------------------------------------------------------------------
\* What follows of the rows.
LEMMA AccountsFollow ==
  ASSUME LettersTypeOK, OwnBoxes, AccountsStep
  PROVE  account' \in [Folk -> Account] /\ OwnBoxes' /\ GoneStays
<1>0. account \in [Folk -> Account] /\ \A p \in Folk : p \in Addresses BY DEF LettersTypeOK, Addresses
<1>1. CASE UNCHANGED account BY <1>0, <1>1 DEF OwnBoxes, GoneStays
<1>2. ASSUME NEW p \in Folk, account' = [account EXCEPT ![p].active = FALSE] PROVE account' \in [Folk -> Account] /\ OwnBoxes' /\ GoneStays
  <2>1. account' \in [Folk -> Account] /\ ~account'[p].active /\ account'[p].box = account[p].box /\ \A q \in Folk : q # p => account'[q] = account[q]
    BY <1>0, <1>2 DEF Account
  <2> QED BY <2>1 DEF OwnBoxes, GoneStays
<1>3. ASSUME NEW p \in Folk, NEW a \in Boxes, account[p].active, \A q \in Folk : account[q].box # a, account' = [account EXCEPT ![p].box = a]
      PROVE  account' \in [Folk -> Account] /\ OwnBoxes' /\ GoneStays
  BY <1>0, <1>3 DEF Addresses, Account, OwnBoxes, GoneStays
<1>4. ASSUME NEW p \in Folk, account' = [account EXCEPT ![p].active = FALSE, ![p].box = p]
      PROVE  account' \in [Folk -> Account] /\ OwnBoxes' /\ GoneStays
  <2>1. account' \in [Folk -> Account] /\ ~account'[p].active /\ account'[p].box = p /\ \A q \in Folk : q # p => account'[q] = account[q]
    BY <1>0, <1>4 DEF Account
  <2>2. \A q \in Folk : q # p => account[q].box # p BY LettersAssumption DEF OwnBoxes
  <2>3. OwnBoxes' BY <2>1, <2>2 DEF OwnBoxes
  <2>4. GoneStays BY <2>1 DEF GoneStays
  <2> QED BY <2>1, <2>3, <2>4
<1> QED BY <1>1, <1>2, <1>3, <1>4 DEF AccountsStep

LEMMA InvitationsFollow ==
  ASSUME LettersTypeOK, InvitedOnce, InvitationsStep PROVE InvitedTypeOK' /\ InvitedOnce'
BY DEF LettersTypeOK, InvitedTypeOK, InvitedOnce, Invitation, Invited, InvitationsStep

LEMMA LettersInvKept == LettersInv /\ [NoticesNext]_notices => LettersInv'
<1> SUFFICES ASSUME LettersInv, [NoticesNext]_notices PROVE LettersInv' OBVIOUS
<1>0. LettersTypeOK /\ OwnBoxes /\ LettersHeld /\ InvitedOnce /\ NeverTwice /\ HeardOnce BY DEF LettersInv
<1>1. CASE NoticesNext
  <2>1. Writes BY <1>0, <1>1, StepWrites
  <2>2. AccountsStep /\ InvitationsStep /\ SeatsStep /\ GroupStep BY <1>0, <1>1, StepRows DEF Rows
  <2>3. account' \in [Folk -> Account] /\ OwnBoxes' /\ GoneStays BY <1>0, <2>2, AccountsFollow
  <2>4. UNCHANGED letter \/ (\E k \in DOMAIN letter : SendMail(k)) \/ (\E list : Batch(list)) BY <2>1 DEF Writes, Promoting
  <2>5. letter' \in Seq(LetterRow) /\ LettersHeld' /\ NeverTwice' /\ HeardOnce' BY <1>0, <2>3, <2>4, LettersKept
  <2>6. InvitedTypeOK' /\ InvitedOnce' BY <1>0, <2>2, InvitationsFollow
  <2>7. PeopleTypeOK' BY <2>2, <2>3 DEF PeopleTypeOK, GroupStep
  <2>8. SeatTypeOK'
    <3>1. held' \in BOOLEAN
      <4>1. held \in BOOLEAN BY <1>0 DEF LettersTypeOK
      <4> QED BY <2>2, <4>1 DEF SeatsStep
    <3>2. lastKey' \in Nat BY <1>0, <2>2 DEF SeatsStep, LettersTypeOK
    <3> QED BY <2>2, <3>1, <3>2 DEF SeatTypeOK, SeatsStep
  <2>9. turns' \in 0..MaxTurns BY <1>0, <2>2, LettersAssumption DEF GroupStep, LettersTypeOK
  <2> QED BY <2>3, <2>5, <2>6, <2>7, <2>8, <2>9, TypePrimedIs DEF LettersInv
<1>2. CASE UNCHANGED notices
  <2>1. UNCHANGED <<account, chiefs, membership, insiders, standing, welcome, seat, held, invitation, lastKey, letter, turns>>
    BY <1>2 DEF notices, correspondence
  <2>2. PeopleTypeOK' /\ InvitedTypeOK' /\ SeatTypeOK' /\ letter' \in Seq(LetterRow) /\ turns' \in 0..MaxTurns
    BY <1>0, <2>1, TypeIs DEF PeopleTypeOK, InvitedTypeOK, SeatTypeOK
  <2>3. LettersTypeOK' BY <2>2, TypePrimedIs
  <2>4. GoneStays /\ OwnBoxes' /\ InvitedOnce' BY <1>0, <2>1 DEF GoneStays, OwnBoxes, InvitedOnce
  <2>5. LettersHeld' /\ NeverTwice' /\ HeardOnce' BY <1>0, <2>1, <2>4, LettersKept
  <2> QED BY <2>3, <2>4, <2>5 DEF LettersInv
<1> QED BY <1>1, <1>2

LEMMA LettersInvStart == NoticesInit => LettersInv
<1> SUFFICES ASSUME NoticesInit PROVE LettersInv OBVIOUS
<1>0. LettersInit BY DEF NoticesInit
<1>1. account \in [Folk -> Account] /\ OwnBoxes BY <1>0 DEF LettersInit, Account, Addresses, OwnBoxes
<1>2. membership \in [Folk -> {"none", "pending", "member", "admin", "owner"}] /\ insiders \subseteq Folk /\ chiefs \subseteq Folk
  BY <1>0 DEF LettersInit
<1>3. lastKey = 1 /\ seat \in [Boxes -> [state : {"none", "accept", "waitinglist"}, id : 0..lastKey]]
  BY <1>0 DEF LettersInit, NoSeat
<1>4. invitation = {} /\ letter = <<>> /\ turns = 0 /\ standing = TRUE /\ welcome = TRUE /\ held = TRUE
  BY <1>0 DEF LettersInit
<1>5. letter \in Seq(LetterRow) /\ DOMAIN letter = {} BY <1>4
<1>6. LettersTypeOK BY <1>1, <1>2, <1>3, <1>4, <1>5, LettersAssumption DEF LettersTypeOK
<1>7. LettersHeld /\ NeverTwice /\ HeardOnce /\ InvitedOnce
  BY <1>4, <1>5 DEF LettersHeld, NeverTwice, HeardOnce, InvitedOnce
<1> QED BY <1>1, <1>6, <1>7 DEF LettersInv

LEMMA LettersInvAlways == NoticesSpec => []LettersInv
<1>1. NoticesInit => LettersInv BY LettersInvStart
<1>2. LettersInv /\ [NoticesNext]_notices => LettersInv' BY LettersInvKept
<1> QED BY <1>1, <1>2, PTL DEF NoticesSpec

\* Nobody is invited twice, gets a message and a copy of it, or hears of a change
\* twice, whatever people write, change and are told, and however slow the mail is.
THEOREM NoticesHold == NoticesSpec => []NoticesSound
<1>1. LettersInv => NoticesSound BY DEF LettersInv, NoticesSound
<1> QED BY <1>1, LettersInvAlways, PTL

-----------------------------------------------------------------------------
(***************************************************************************)
(* What a step does to one letter.                                         *)
(***************************************************************************)
\* A letter that was not sent before comes of the worker, or of a request that
\* sent it at once.
LEMMA WayOut ==
  ASSUME LettersTypeOK, Writes, NEW k \in DOMAIN letter', IsSent(k)
  PROVE  \/ /\ k \in DOMAIN letter /\ letter[k] \in LetterRow /\ letter'[k] = Sent(letter[k])
            /\ letter'[k].who = letter[k].who /\ letter'[k].kind = letter[k].kind /\ letter'[k].box = letter[k].box
            /\ letter'[k].about = letter[k].about
            /\ ~Withheld(letter[k]) /\ ~Unbuilt(letter[k])
         \/ \E list : Batch(list) /\ \E i \in DOMAIN list : letter'[k] = list[i] /\ list[i].state = "sent"
<1>0. letter \in Seq(LetterRow) /\ DOMAIN letter = 1..Len(letter) BY DEF LettersTypeOK
<1>1. CASE letter' = letter BY <1>1 DEF IsSent
<1>2. CASE \E n \in DOMAIN letter : SendMail(n)
  BY <1>2, <1>0, SentIs DEF SendMail, IsSent
<1>3. ASSUME NEW list, Batch(list) PROVE \E i \in DOMAIN list : letter'[k] = list[i] /\ list[i].state = "sent"
  <2>1. \/ k \in 1..Len(letter) /\ letter'[k] = letter[k]
        \/ k - Len(letter) \in DOMAIN list /\ letter'[k] = list[k - Len(letter)]
    BY <1>3, BatchFollows
  <2> QED BY <1>0, <2>1 DEF IsSent
<1> QED BY <1>1, <1>2, <1>3 DEF Writes, Promoting

NotToDeactivatedNow ==
  \A k \in DOMAIN letter' : IsSent(k) /\ letter'[k].who # NoPerson =>
    account[letter'[k].who].active \/ (letter'[k].kind = "avatars" /\ Gone(letter'[k].who))
LettersLeadNow ==
  \A k \in DOMAIN letter' : IsSent(k) /\ letter'[k].about.id # 0 =>
    IF letter'[k].kind = "reminder" THEN letter'[k].about \in invitation
    ELSE letter'[k].about.id \in {seat[letter'[k].box].id, seat'[letter'[k].box].id}
GoodbyesArriveNow ==
  \A k \in DOMAIN letter :
    letter[k].kind = "deleted" /\ letter[k].state = "waiting" =>
      /\ letter'[k].state = "dropped" =>
           \E p \in Folk \ {letter[k].of} : ~account[p].active /\ account[p].box = letter[k].box
      /\ letter'[k].state = "failed" => Gone(letter[k].by)
WelcomedOnceNow ==
  \A p \in Folk :
    LET notes == {k \in New : letter'[k].kind = "welcome" /\ letter'[k].who = p}
    IN  /\ notes # {} => ~InFull(p) /\ Cardinality(notes) = 1
        /\ ~InFull(p) /\ membership'[p] = "member" /\ welcome =>
             notes # {} \/ (membership[p] = "pending" /\ UNCHANGED <<letter, invitation>>)

LEMMA NotToDeactivatedStep == ASSUME LettersTypeOK, LettersHeld, Writes PROVE NotToDeactivatedNow
<1> SUFFICES ASSUME NEW k \in DOMAIN letter', IsSent(k), letter'[k].who # NoPerson
             PROVE  account[letter'[k].who].active \/ (letter'[k].kind = "avatars" /\ Gone(letter'[k].who))
  BY DEF NotToDeactivatedNow
<1>1. CASE \E list : Batch(list) /\ \E i \in DOMAIN list : letter'[k] = list[i] /\ list[i].state = "sent"
  BY <1>1 DEF Batch
<1>2. CASE /\ k \in DOMAIN letter /\ letter[k] \in LetterRow
           /\ letter'[k].who = letter[k].who /\ letter'[k].kind = letter[k].kind
           /\ ~Withheld(letter[k]) /\ ~Unbuilt(letter[k])
  <2>1. PICK p \in Folk : p = letter[k].who BY <1>2 DEF LetterRow
  <2>2. Address(letter[k]) = account[p].box BY <1>2, <2>1 DEF Address
  <2>3. ~account[p].active => Gone(p) BY <1>2, <2>2 DEF Withheld, KnownInactive
  <2>4. letter[k].kind # "deleted" BY <1>2 DEF LettersHeld, Farewell
  <2>5. letter[k].kind # "avatars" => p \in LooksUp(letter[k]) BY <2>1, <2>4 DEF LooksUp
  <2>6. Gone(p) => letter[k].kind = "avatars" BY <1>2, <2>5 DEF Unbuilt
  <2> QED BY <1>2, <2>1, <2>3, <2>6
<1> QED BY <1>1, <1>2, WayOut

LEMMA LettersLeadStep == ASSUME LettersTypeOK, LettersHeld, Writes PROVE LettersLeadNow
<1> SUFFICES ASSUME NEW k \in DOMAIN letter', IsSent(k), letter'[k].about.id # 0
             PROVE  IF letter'[k].kind = "reminder" THEN letter'[k].about \in invitation
                    ELSE letter'[k].about.id \in {seat[letter'[k].box].id, seat'[letter'[k].box].id}
  BY DEF LettersLeadNow
<1>1. CASE \E list : Batch(list) /\ \E i \in DOMAIN list : letter'[k] = list[i] /\ list[i].state = "sent"
  BY <1>1 DEF Batch
<1>2. CASE /\ k \in DOMAIN letter /\ letter'[k].kind = letter[k].kind /\ letter'[k].box = letter[k].box
           /\ letter'[k].about = letter[k].about /\ ~Unbuilt(letter[k])
  BY <1>2 DEF LettersHeld, Unbuilt
<1> QED BY <1>1, <1>2, WayOut

LEMMA GoodbyesArriveStep == ASSUME LettersTypeOK, LettersHeld, Writes PROVE GoodbyesArriveNow
<1> SUFFICES ASSUME NEW k \in DOMAIN letter, letter[k].kind = "deleted", letter[k].state = "waiting", letter'[k].state # "waiting"
             PROVE  /\ letter'[k].state = "dropped" =>
                         \E p \in Folk \ {letter[k].of} : ~account[p].active /\ account[p].box = letter[k].box
                    /\ letter'[k].state = "failed" => Gone(letter[k].by)
  BY DEF GoodbyesArriveNow
<1>0. letter \in Seq(LetterRow) /\ DOMAIN letter = 1..Len(letter) /\ letter[k] \in LetterRow BY DEF LettersTypeOK
<1>1. letter' # letter OBVIOUS
<1>2. ~\E list : Batch(list)
  BY <1>0, BatchFollows
<1>3. PICK n \in DOMAIN letter : letter' = [letter EXCEPT ![n] = Sent(letter[n])] BY <1>1, <1>2 DEF Writes, Promoting, SendMail
<1>4. n = k BY <1>0, <1>3
<1>5. PICK s : s = Sent(letter[k]) OBVIOUS
<1>6. letter'[k] = s BY <1>0, <1>3, <1>4, <1>5
<1>7. /\ s.state = "dropped" => Withheld(letter[k])
      /\ s.state = "failed" => Unbuilt(letter[k])
  BY <1>0, <1>5, SentIs
<1>8. Farewell(letter[k], account) BY DEF LettersHeld
<1>9. ASSUME letter'[k].state = "dropped"
      PROVE  \E p \in Folk \ {letter[k].of} : ~account[p].active /\ account[p].box = letter[k].box
  <2>1. PICK p \in Folk : ~account[p].active /\ ~Gone(p) /\ account[p].box = Address(letter[k])
    BY <1>6, <1>7, <1>9 DEF Withheld, KnownInactive
  <2>2. Address(letter[k]) = letter[k].box BY <1>8 DEF Address, Farewell
  <2>3. Gone(letter[k].of) BY <1>8 DEF Farewell, Gone
  <2> QED BY <2>1, <2>2, <2>3
<1>10. ASSUME letter'[k].state = "failed" PROVE Gone(letter[k].by)
  <2>1. Unbuilt(letter[k]) BY <1>6, <1>7, <1>10
  <2>2. LooksUp(letter[k]) = {letter[k].by} BY DEF LooksUp
  <2> QED BY <2>1, <2>2 DEF Unbuilt, OfGroup, OfEvent, OfSeat
<1> QED BY <1>9, <1>10

LEMMA WelcomedOnceStep == ASSUME LettersTypeOK, Writes PROVE WelcomedOnceNow
<1> SUFFICES ASSUME NEW p \in Folk
             PROVE  LET notes == {k \in New : letter'[k].kind = "welcome" /\ letter'[k].who = p}
                    IN  /\ notes # {} => ~InFull(p) /\ Cardinality(notes) = 1
                        /\ ~InFull(p) /\ membership'[p] = "member" /\ welcome =>
                             notes # {} \/ (membership[p] = "pending" /\ UNCHANGED <<letter, invitation>>)
  BY DEF WelcomedOnceNow
<1> DEFINE notes == {k \in New : letter'[k].kind = "welcome" /\ letter'[k].who = p}
<1>0. letter \in Seq(LetterRow) /\ DOMAIN letter = 1..Len(letter) /\ Len(letter) \in Nat BY DEF LettersTypeOK
<1>1. CASE ~\E list : Batch(list) /\ Welcoming(list)
  <2>1. (Unwelcoming \/ Promoting) /\ Len(letter') = Len(letter)
    BY <1>1, <1>0, StayingIsUnwelcoming DEF Writes, Promoting, SendMail, folk
  <2>2. New = {} BY <1>0, <2>1 DEF New
  <2> QED BY <2>1, <2>2 DEF Unwelcoming, Promoting
<1>2. ASSUME NEW list, Batch(list), Welcoming(list)
      PROVE  /\ notes # {} => ~InFull(p) /\ Cardinality(notes) = 1
             /\ ~InFull(p) /\ membership'[p] = "member" /\ welcome => notes # {}
  <2> DEFINE n == Len(letter)
  <2>1. /\ Len(letter') = n + Len(list) /\ n \in Nat /\ Len(list) \in Nat /\ DOMAIN list = 1..Len(list)
        /\ \A k \in 1..Len(letter') : k > n => k - n \in DOMAIN list /\ letter'[k] = list[k - n]
    BY <1>2, BatchFollows
  <2>2. New = n + 1 .. n + Len(list) BY <2>1 DEF New
  <2> HIDE DEF n
  <2>3. \A k \in notes : k \in Nat /\ k - n \in DOMAIN list /\ list[k - n].kind = "welcome" /\ list[k - n].who = p
    BY <2>1, <2>2
  <2>4. \A i \in DOMAIN list : list[i].kind = "welcome" /\ list[i].who = p => n + i \in notes
    <3> SUFFICES ASSUME NEW i \in DOMAIN list, list[i].kind = "welcome", list[i].who = p PROVE n + i \in notes OBVIOUS
    <3>1. n + i \in New /\ n + i \in 1..Len(letter') /\ n + i > n /\ (n + i) - n = i BY <2>1, <2>2
    <3>2. letter'[n + i] = list[i] BY <2>1, <3>1
    <3> QED BY <3>1, <3>2
  <2> HIDE DEF notes
  <2>5. \A k, m \in notes : k = m
    BY <1>2, <2>3, <2>1 DEF Welcoming
  <2>6. ASSUME notes # {} PROVE ~InFull(p) /\ Cardinality(notes) = 1
    <3>1. PICK k \in notes : notes = {k} BY <2>5, <2>6
    <3>2. Cardinality(notes) = 1 BY <3>1, FS_Singleton
    <3>3. ~InFull(p) BY <1>2, <2>3, <3>1 DEF Welcoming
    <3> QED BY <3>2, <3>3
  <2>7. ~InFull(p) /\ membership'[p] = "member" /\ welcome => notes # {} BY <1>2, <2>4 DEF Welcoming
  <2> QED BY <2>6, <2>7
<1> QED BY <1>1, <1>2

\* A letter goes to nobody whose account is banned or deleted, but for the notice
\* of an export of avatars; it leads only to the invitation or the seat it was
\* written about; a goodbye is not kept back by the account that was deleted, only
\* by the deletion of who deleted it; and whoever becomes a member of the group is
\* welcomed once, but an applicant whose type is changed.
THEOREM NoticesKeep == NoticesSpec => NoticesKept
<1>1. LettersInv /\ [NoticesNext]_notices => [NotToDeactivatedNow]_correspondence /\ [LettersLeadNow]_correspondence
                                             /\ [GoodbyesArriveNow]_notices /\ [WelcomedOnceNow]_notices
  <2> SUFFICES ASSUME LettersInv, [NoticesNext]_notices
               PROVE  /\ [NotToDeactivatedNow]_correspondence /\ [LettersLeadNow]_correspondence
                      /\ [GoodbyesArriveNow]_notices /\ [WelcomedOnceNow]_notices
    OBVIOUS
  <2>1. LettersTypeOK /\ LettersHeld /\ OwnBoxes BY DEF LettersInv
  <2>2. CASE NoticesNext
    <3>1. Writes BY <2>1, <2>2, StepWrites
    <3> QED BY <2>1, <3>1, NotToDeactivatedStep, LettersLeadStep, GoodbyesArriveStep, WelcomedOnceStep
  <2>3. CASE UNCHANGED notices
    BY <2>3 DEF notices
  <2> QED BY <2>2, <2>3
<1>2. NoticesSpec => /\ [][NotToDeactivatedNow]_correspondence /\ [][LettersLeadNow]_correspondence
                     /\ [][GoodbyesArriveNow]_notices /\ [][WelcomedOnceNow]_notices
  BY <1>1, LettersInvAlways, PTL DEF NoticesSpec
<1> QED BY <1>2, PTL DEF NoticesKept, NotToDeactivated, LettersLead, GoodbyesArrive, WelcomedOnce,
                    NotToDeactivatedNow, LettersLeadNow, GoodbyesArriveNow, WelcomedOnceNow
=============================================================================
