------------------------ MODULE GroupMembershipProofs ------------------------
(***************************************************************************)
(* Theorems about GroupMembership, for any number of people, subgroups and *)
(* requests, and, at the end, about GroupCopy, for any content and any     *)
(* number of workers.                                                      *)
(***************************************************************************)
EXTENDS GroupMembership, GroupCopy, TLAPS

LEMMA AnyUserType == AnyUser \in Users
BY ParamAssumption DEF AnyUser

LEMMA NoJobType == NoJob \in Job /\ AnyGroup \in Group /\ NoRow \in Row
BY AnyUserType DEF NoJob, AnyGroup, NoRow, Job, Group, Row

\* The variables a worker keeps to itself.
LocalType ==
  /\ pc \in [Workers -> Labels]
  /\ job \in [Workers -> Job]
  /\ row \in [Workers -> Row]
  /\ grp \in [Workers -> Group]
  /\ todo \in [Workers -> SUBSET Users]
  /\ keep \in [Workers -> SUBSET Users]
  /\ visit \in [Workers -> SUBSET Subgroups]

DbType ==
  /\ rows \in [Users -> Row]
  /\ group \in Group
  /\ inv \in [Users -> Nat]
  /\ live \in SUBSET Subgroups
  /\ subs \in [Subgroups -> SUBSET Users]
  /\ active \in SUBSET Users
  /\ now \in Nat
  /\ left \in Nat

SubKinds == {"subadd", "subedit", "subdel"}

\* Which request can be at which statement, and what it carries there.
Flow(w) ==
  LET k == job[w].kind
  IN  /\ pc[w] = "idle" => k = "none"
      /\ pc[w] = "may" => k \in WriteKinds
      /\ pc[w] = "full" => k \in {"join", "redeem", "accept"}
      /\ pc[w] = "policy" => k = "join"
      /\ pc[w] = "upsert" => k \in {"join", "redeem", "accept", "add", "edit"}
      /\ pc[w] = "member" => k \in {"leave", "role"}
      /\ pc[w] \in {"subs", "unsub"} => k = "leave"
      /\ pc[w] = "each" => k \in {"remove", "add", "edit", "subadd", "subedit"}
      /\ pc[w] = "fetch" => k \in {"notify", "role", "demote", "leave", "reject", "remove"}
      /\ pc[w] = "save" => k \in {"notify", "role", "demote"}
      /\ pc[w] = "delete" => k \in {"role", "leave", "reject", "remove"}
      /\ pc[w] = "group" => k = "edit" \/ (k = "role" /\ job[w].want = "owner")
      /\ pc[w] = "invitation" => k \in {"redeem", "invite", "uninvite", "resend"}
      /\ pc[w] \in {"wipe", "wipesubs", "close"} => k = "erase"
      /\ pc[w] \in {"subsave", "diff", "apply"} => k \in {"subadd", "subedit"}
      /\ pc[w] = "drop" => k = "subdel"
      /\ k \in SubKinds => job[w].sub \in Subgroups
      /\ k = "role" => job[w].want \in {"owner", "admin", "member", "removed"}
      /\ k = "notify" => job[w].want = "member"
      /\ k = "demote" => job[w].want = "admin" /\ job[w].who = grp[w].owner

LEMMA TypeParts == TypeOK <=> DbType /\ LocalType
BY DEF TypeOK, DbType, LocalType

LEMMA GotoType ==
  ASSUME NEW w \in Workers, NEW label \in Labels, LocalType, Goto(w, label)
  PROVE  pc' \in [Workers -> Labels]
BY DEF LocalType, Goto

LEMMA FinishType ==
  ASSUME NEW w \in Workers, LocalType, Finish(w)
  PROVE  LocalType'
BY NoJobType DEF LocalType, Finish, Goto, Labels

LEMMA ContinueType ==
  ASSUME NEW w \in Workers, LocalType, Continue(w)
  PROVE  LocalType'
BY FinishType DEF LocalType, Continue, Goto, Labels, local

LEMMA StartType ==
  ASSUME NEW w \in Workers, NEW j \in Job, NEW people \in SUBSET Users,
         NEW label \in Labels, TypeOK, Start(w, j, people, label)
  PROVE  TypeOK'
BY DEF TypeOK, Start, Goto

-----------------------------------------------------------------------------
LEMMA InitType == Init => TypeOK
<1> SUFFICES ASSUME Init PROVE TypeOK OBVIOUS
<1>1. group \in Group BY DEF Init, Group
<1>2. rows \in [Users -> Row]
  <2>1. PICK start \in [Users -> StartRoles] :
          rows = [u \in Users |->
                    IF u = group.owner THEN [id |-> 1, type |-> "owner"]
                    ELSE IF start[u] = "none" THEN NoRow
                    ELSE [id |-> 1, type |-> start[u]]]
    BY DEF Init
  <2>2. \A u \in Users : start[u] \in Types \cup {"none"} BY <2>1, ParamAssumption DEF Types, Full
  <2> QED BY <2>1, <2>2 DEF Row, NoRow, Types, Full
<1>3. subs \in [Subgroups -> SUBSET Users] BY DEF Init
<1> QED BY <1>1, <1>2, <1>3, NoJobType, ParamAssumption DEF Init, TypeOK, Labels

LEMMA ArriveType ==
  ASSUME NEW w \in Workers, TypeOK, Arrive(w)
  PROVE  TypeOK'
<1> USE NoJobType, ParamAssumption
<1>1. CASE OwnRequest(w)
  <2>1. PICK k \in Kinds \cap OwnKinds, a \in active :
          Start(w, [NoJob EXCEPT !.kind = k, !.by = a, !.who = a,
                                 !.want = "member",
                                 !.code = IF k = "redeem" THEN inv[a] ELSE 0],
                {},
                CASE k = "join"   -> "full"
                  [] k = "redeem" -> "full"
                  [] k = "leave"  -> "member"
                  [] k = "notify" -> "fetch")
    BY <1>1 DEF OwnRequest
  <2>2. a \in Users /\ inv[a] \in Nat /\ k \in AllKinds BY <2>1 DEF TypeOK, AllKinds
  <2>3. [NoJob EXCEPT !.kind = k, !.by = a, !.who = a, !.want = "member",
                      !.code = IF k = "redeem" THEN inv[a] ELSE 0] \in Job
    BY <2>2 DEF Job
  <2>4. (CASE k = "join"   -> "full"
           [] k = "redeem" -> "full"
           [] k = "leave"  -> "member"
           [] k = "notify" -> "fetch") \in Labels
    BY <2>1 DEF OwnKinds, Labels
  <2> QED BY <2>1, <2>3, <2>4, StartType
<1>2. CASE OtherRequest(w)
  <2>1. PICK k \in Kinds \cap {"role", "accept", "reject", "invite", "uninvite", "resend"},
             a \in active, u \in Users :
          \E r \in IF k = "role" THEN Roles ELSE {"member"} :
            Start(w, [NoJob EXCEPT !.kind = k, !.by = a, !.who = u, !.want = r,
                                   !.code = IF k \in {"uninvite", "resend"} THEN inv[u] ELSE 0],
                  {}, "may")
    BY <1>2 DEF OtherRequest
  <2>2. PICK r \in Roles \cup {"member"} :
          Start(w, [NoJob EXCEPT !.kind = k, !.by = a, !.who = u, !.want = r,
                                 !.code = IF k \in {"uninvite", "resend"} THEN inv[u] ELSE 0],
                {}, "may")
    BY <2>1
  <2>3. [NoJob EXCEPT !.kind = k, !.by = a, !.who = u, !.want = r,
                      !.code = IF k \in {"uninvite", "resend"} THEN inv[u] ELSE 0] \in Job
    BY <2>1, <2>2 DEF Job, TypeOK
  <2> QED BY <2>2, <2>3, StartType DEF Labels
<1>3. CASE ManyRequest(w)
  BY <1>3, StartType DEF ManyRequest, Job, TypeOK, Labels
<1>4. CASE EditRequest(w)
  <2>1. PICK a \in active, c \in Changes :
          Start(w, [NoJob EXCEPT !.kind = "edit", !.by = a, !.want = c], {}, "may")
    BY <1>4 DEF EditRequest
  <2>2. [NoJob EXCEPT !.kind = "edit", !.by = a, !.want = c] \in Job BY <2>1 DEF Job, TypeOK, AllKinds, WriteKinds
  <2> QED BY <2>1, <2>2, StartType DEF Labels
<1>5. CASE SubgroupRequest(w)
  <2>1. PICK k \in Kinds \cap {"subadd", "subedit", "subdel"}, a \in active,
             s \in Subgroups, people \in SUBSET Users :
          Start(w, [NoJob EXCEPT !.kind = k, !.by = a, !.sub = s], people, "may")
    BY <1>5 DEF SubgroupRequest
  <2>2. [NoJob EXCEPT !.kind = k, !.by = a, !.sub = s] \in Job BY <2>1 DEF Job, TypeOK
  <2> QED BY <2>1, <2>2, StartType DEF Labels
<1>6. CASE EraseRequest(w)
  <2>1. PICK u \in active : Start(w, [NoJob EXCEPT !.kind = "erase", !.who = u], {}, "wipe") BY <1>6 DEF EraseRequest
  <2>2. [NoJob EXCEPT !.kind = "erase", !.who = u] \in Job BY <2>1 DEF Job, TypeOK, AllKinds
  <2> QED BY <2>1, <2>2, StartType DEF Labels
<1> QED BY <1>1, <1>2, <1>3, <1>4, <1>5, <1>6 DEF Arrive

LEMMA StepType ==
  ASSUME NEW w \in Workers, TypeOK, Flow(w), Step(w)
  PROVE  TypeOK'
<1> SUFFICES DbType' /\ LocalType' BY DEF TypeOK, DbType, LocalType
<1> DbType /\ LocalType BY TypeParts
<1>1. CASE Forbidden(w)
  BY <1>1, FinishType DEF Forbidden, db, DbType
<1>2. CASE Allowed(w)
  BY <1>2 DEF Allowed, db, DbType, LocalType, Goto, Labels
<1>3. CASE AlreadyIn(w)
  <2>1. DbType' BY <1>3 DEF AlreadyIn, db, DbType
  <2>2. LocalType' BY <1>3, FinishType DEF AlreadyIn, LocalType, Goto, Labels, local
  <2> QED BY <2>1, <2>2
<1>4. CASE NotYetIn(w)
  <2>1. DbType' BY <1>4 DEF NotYetIn, db, DbType
  <2>2. LocalType' BY <1>4 DEF NotYetIn, LocalType, Goto, Labels, db, local
  <2> QED BY <2>1, <2>2
<1>5. CASE Policy(w)
  <2>1. DbType' BY <1>5 DEF Policy, db, DbType
  <2>2. LocalType'
    <3>1. \A x \in {"member", "pending"} : [job[w] EXCEPT !.want = x] \in Job BY DEF LocalType, Job
    <3>2. job' \in [Workers -> Job] BY <1>5, <3>1 DEF Policy, LocalType
    <3> QED BY <1>5, <3>2 DEF Policy, LocalType, Goto, Labels
  <2> QED BY <2>1, <2>2
<1>6. CASE IsMember(w)
  <2>1. DbType' BY <1>6 DEF IsMember, db, DbType
  <2>2. LocalType' BY <1>6, FinishType DEF IsMember, LocalType, Goto, Labels, local
  <2> QED BY <2>1, <2>2
<1>7. CASE Upsert(w)
  <2>1. DbType'
    <3>1. rows[job[w].who] \in Row /\ job[w].who \in Users /\ now + 1 \in Nat BY DEF DbType, LocalType, Job
    <3>2. \A id \in Nat : [id |-> id, type |-> Granted(job[w])] \in Row BY DEF Granted, Row, Types, Full
    <3> QED BY <1>7, <3>1, <3>2 DEF Upsert, DbType, Row
  <2>2. LocalType' BY <1>7, ContinueType DEF Upsert, LocalType, Goto, Labels, local
  <2> QED BY <2>1, <2>2
<1>8. CASE Fetch(w)
  <2>1. DbType' BY <1>8 DEF Fetch, db, DbType
  <2>2. LocalType'
    <3>1. CASE rows[job[w].who] = NoRow BY <1>8, <3>1, ContinueType DEF Fetch
    <3>2. CASE rows[job[w].who] # NoRow
      <4> DEFINE r == rows[job[w].who]
                 changed == IF job[w].kind \in {"role", "demote"} /\ ~Deletes(job[w])
                            THEN [r EXCEPT !.type = job[w].want] ELSE r
      <4>1. r \in Row BY DEF DbType, LocalType, Job
      <4>2. changed \in Row BY <4>1 DEF Flow, Deletes, Row, Types, Full
      <4>3. row' = [row EXCEPT ![w] = changed] /\ pc' \in [Workers -> Labels]
        BY <1>8, <3>2 DEF Fetch, Goto, LocalType, Labels
      <4> QED BY <1>8, <3>2, <4>2, <4>3 DEF Fetch, LocalType
    <3> QED BY <3>1, <3>2
  <2> QED BY <2>1, <2>2
<1>9. CASE SaveRow(w)
  <2>1. DbType' BY <1>9 DEF SaveRow, DbType, LocalType
  <2>2. LocalType' BY <1>9, FinishType DEF SaveRow, LocalType, Goto, Labels, local
  <2> QED BY <2>1, <2>2
<1>10. CASE SaveConflict(w)
  BY <1>10, FinishType DEF SaveConflict, db, DbType
<1>11. CASE DeleteRow(w)
  <2>1. DbType' BY <1>11, NoJobType DEF DeleteRow, DbType
  <2>2. LocalType' BY <1>11, ContinueType DEF DeleteRow, LocalType, Goto, Labels, local
  <2> QED BY <2>1, <2>2
<1>12. CASE GroupChangesHands(w)
  <2>1. DbType' BY <1>12 DEF GroupChangesHands, DbType, LocalType, Group, Job
  <2>2. LocalType'
    <3>1. [job[w] EXCEPT !.kind = "demote", !.who = grp[w].owner, !.want = "admin"] \in Job
      BY ZenonT(40) DEF LocalType, Job, Group
    <3>2. job' = [job EXCEPT ![w] =
                    [job[w] EXCEPT !.kind = "demote", !.who = grp[w].owner, !.want = "admin"]]
      BY <1>12 DEF GroupChangesHands, LocalType
    <3>3. job' \in [Workers -> Job] BY <3>1, <3>2 DEF LocalType
    <3> QED BY <1>12, <3>3, NoJobType DEF GroupChangesHands, LocalType, Goto, Labels
  <2> QED BY <2>1, <2>2
<1>13. CASE SaveGroup(w)
  BY <1>13, FinishType DEF SaveGroup, DbType, LocalType, Group
<1>14. CASE Visit(w)
  <2>1. DbType' BY <1>14 DEF Visit, db, DbType
  <2>2. LocalType' BY <1>14, SMTT(30) DEF Visit, LocalType, Goto, Labels, Job
  <2> QED BY <2>1, <2>2
<1>15. CASE VisitsDone(w)
  <2>1. DbType' BY <1>15 DEF VisitsDone, db, DbType
  <2>2. LocalType' BY <1>15, FinishType DEF VisitsDone, LocalType, Goto, Labels, local
  <2> QED BY <2>1, <2>2
<1>16. CASE Invitation(w)
  BY <1>16, FinishType DEF Invitation, DbType, LocalType, Job
<1>17. CASE ListSubgroups(w)
  BY <1>17 DEF ListSubgroups, db, DbType, LocalType, Goto, Labels
<1>18. CASE LeaveSubgroup(w)
  BY <1>18 DEF LeaveSubgroup, DbType, LocalType, Labels
<1>19. CASE LeftSubgroups(w)
  <2>1. DbType' BY <1>19 DEF LeftSubgroups, db, DbType
  <2>2. LocalType' BY <1>19 DEF LeftSubgroups, LocalType, Goto, Labels, db, local
  <2> QED BY <2>1, <2>2
<1>20. CASE CheckSubgroupMember(w)
  BY <1>20, FinishType DEF CheckSubgroupMember, db, DbType, LocalType, Labels
<1>21. CASE SaveSubgroup(w)
  <2>1. DbType' BY <1>21 DEF SaveSubgroup, DbType, Flow, SubKinds
  <2>2. LocalType' BY <1>21 DEF SaveSubgroup, LocalType, Goto, Labels
  <2> QED BY <2>1, <2>2
<1>22. CASE CompareMembers(w)
  <2>1. DbType' BY <1>22 DEF CompareMembers, db, DbType
  <2>2. LocalType'
    <3>1. subs[job[w].sub] \in SUBSET Users BY <1>22 DEF CompareMembers, Flow, DbType, SubKinds
    <3> QED BY <1>22, <3>1 DEF CompareMembers, LocalType, Goto, Labels
  <2> QED BY <2>1, <2>2
<1>23. CASE AddToSubgroup(w)
  BY <1>23, FinishType DEF AddToSubgroup, DbType, LocalType, Labels
<1>24. CASE TakeFromSubgroup(w)
  <2>1. DbType' BY <1>24 DEF TakeFromSubgroup, DbType
  <2>2. LocalType' BY <1>24 DEF TakeFromSubgroup, LocalType, Labels
  <2> QED BY <2>1, <2>2
<1>25. CASE SubgroupDone(w)
  BY <1>25, FinishType DEF SubgroupDone, db, DbType
<1>26. CASE DropSubgroup(w)
  BY <1>26, FinishType DEF DropSubgroup, DbType
<1>27. CASE WipeMembership(w)
  <2>1. DbType' BY <1>27, NoJobType DEF WipeMembership, DbType
  <2>2. LocalType' BY <1>27 DEF WipeMembership, LocalType, Goto, Labels, local
  <2> QED BY <2>1, <2>2
<1>28. CASE WipeSubgroups(w)
  BY <1>28 DEF WipeSubgroups, DbType, LocalType, Goto, Labels, local
<1>29. CASE CloseAccount(w)
  BY <1>29, FinishType DEF CloseAccount, DbType
<1> QED BY <1>1, <1>2, <1>3, <1>4, <1>5, <1>6, <1>7, <1>8, <1>9, <1>10, <1>11, <1>12,
     <1>13, <1>14, <1>15, <1>16, <1>17, <1>18, <1>19, <1>20, <1>21, <1>22, <1>23,
     <1>24, <1>25, <1>26, <1>27, <1>28, <1>29 DEF Step

\* A step of w leaves what the other workers do and hold alone.
Still(v) == pc'[v] = pc[v] /\ job'[v] = job[v] /\ row'[v] = row[v] /\ grp'[v] = grp[v]

LEMMA FinishStill ==
  ASSUME NEW w \in Workers, NEW v \in Workers, v # w, LocalType, Finish(w)
  PROVE  Still(v)
BY DEF LocalType, Still, Finish, Goto

LEMMA ArriveStill ==
  ASSUME NEW w \in Workers, NEW v \in Workers, v # w, LocalType, Arrive(w)
  PROVE  Still(v)
BY ZenonT(40) DEF LocalType, Still, Arrive, OwnRequest, OtherRequest, ManyRequest,
   EditRequest,
       SubgroupRequest, EraseRequest, Start, Goto

LEMMA StepStill ==
  ASSUME NEW w \in Workers, NEW v \in Workers, v # w, LocalType, Step(w)
  PROVE  Still(v)
<1>1. CASE Forbidden(w) BY <1>1, FinishStill DEF Forbidden, LocalType, Still, db
<1>2. CASE Allowed(w) BY <1>2 DEF Allowed, LocalType, Still, Goto, db
<1>3. CASE AlreadyIn(w) BY <1>3, FinishStill DEF AlreadyIn, LocalType, Still, Goto, db, local
<1>4. CASE NotYetIn(w) BY <1>4 DEF NotYetIn, LocalType, Still, Goto, db, local
<1>5. CASE Policy(w) BY <1>5 DEF Policy, LocalType, Still, Goto, db
<1>6. CASE IsMember(w) BY <1>6, FinishStill DEF IsMember, LocalType, Still, Goto, db, local
<1>7. CASE Upsert(w) BY <1>7, FinishStill DEF Upsert, LocalType, Still, Continue, Goto, local
<1>8. CASE Fetch(w) BY <1>8, FinishStill DEF Fetch, LocalType, Still, Continue, Goto, db, local
<1>9. CASE SaveRow(w) BY <1>9, FinishStill DEF SaveRow, LocalType, Still, Goto, local
<1>10. CASE SaveConflict(w) BY <1>10, FinishStill DEF SaveConflict, LocalType, Still, db
<1>11. CASE DeleteRow(w) BY <1>11, FinishStill DEF DeleteRow, LocalType, Still, Continue, Goto, local
<1>12. CASE GroupChangesHands(w) BY <1>12 DEF GroupChangesHands, LocalType, Still, Goto
<1>13. CASE SaveGroup(w) BY <1>13, FinishStill DEF SaveGroup, LocalType, Still
<1>14. CASE Visit(w) BY <1>14 DEF Visit, LocalType, Still, Goto, db
<1>15. CASE VisitsDone(w) BY <1>15, FinishStill DEF VisitsDone, LocalType, Still, Goto, db, local
<1>16. CASE Invitation(w) BY <1>16, FinishStill DEF Invitation, LocalType, Still
<1>17. CASE ListSubgroups(w) BY <1>17 DEF ListSubgroups, LocalType, Still, Goto, db
<1>18. CASE LeaveSubgroup(w) BY <1>18 DEF LeaveSubgroup, LocalType, Still
<1>19. CASE LeftSubgroups(w) BY <1>19 DEF LeftSubgroups, LocalType, Still, Goto, db, local
<1>20. CASE CheckSubgroupMember(w) BY <1>20, FinishStill DEF CheckSubgroupMember, LocalType, Still, db
<1>21. CASE SaveSubgroup(w) BY <1>21 DEF SaveSubgroup, LocalType, Still, Goto
<1>22. CASE CompareMembers(w) BY <1>22 DEF CompareMembers, LocalType, Still, Goto, db
<1>23. CASE AddToSubgroup(w) BY <1>23, FinishStill DEF AddToSubgroup, LocalType, Still
<1>24. CASE TakeFromSubgroup(w) BY <1>24 DEF TakeFromSubgroup, LocalType, Still
<1>25. CASE SubgroupDone(w) BY <1>25, FinishStill DEF SubgroupDone, LocalType, Still, db
<1>26. CASE DropSubgroup(w) BY <1>26, FinishStill DEF DropSubgroup, LocalType, Still
<1>27. CASE WipeMembership(w) BY <1>27 DEF WipeMembership, LocalType, Still, Goto, local
<1>28. CASE WipeSubgroups(w) BY <1>28 DEF WipeSubgroups, LocalType, Still, Goto, local
<1>29. CASE CloseAccount(w) BY <1>29, FinishStill DEF CloseAccount, LocalType, Still
<1> QED BY <1>1, <1>2, <1>3, <1>4, <1>5, <1>6, <1>7, <1>8, <1>9, <1>10, <1>11, <1>12,
     <1>13, <1>14, <1>15, <1>16, <1>17, <1>18, <1>19, <1>20, <1>21, <1>22, <1>23,
     <1>24, <1>25, <1>26, <1>27, <1>28, <1>29 DEF Step

LEMMA FinishFlow ==
  ASSUME NEW w \in Workers, LocalType, Finish(w)
  PROVE  Flow(w)'
BY DEF LocalType, Finish, Goto, Flow, NoJob, SubKinds

LEMMA ArriveFlow ==
  ASSUME NEW w \in Workers, LocalType, Arrive(w)
  PROVE  Flow(w)'
<1> USE ParamAssumption DEF LocalType, Flow, Start, Goto, NoJob, SubKinds, WriteKinds, OwnKinds
<1>1. CASE OwnRequest(w) BY <1>1 DEF OwnRequest
<1>2. CASE OtherRequest(w) BY <1>2 DEF OtherRequest
<1>3. CASE ManyRequest(w) BY <1>3 DEF ManyRequest
<1>4. CASE EditRequest(w) BY <1>4 DEF EditRequest
<1>5. CASE SubgroupRequest(w) BY <1>5 DEF SubgroupRequest
<1>6. CASE EraseRequest(w) BY <1>6 DEF EraseRequest
<1> QED BY <1>1, <1>2, <1>3, <1>4, <1>5, <1>6 DEF Arrive

LEMMA StepFlow ==
  ASSUME NEW w \in Workers, LocalType, Flow(w), Step(w)
  PROVE  Flow(w)'
<1>1. CASE Forbidden(w) BY <1>1, FinishFlow DEF Forbidden, LocalType, Flow, db
<1>2. CASE Allowed(w) BY <1>2 DEF Allowed, LocalType, Flow, Goto, SubKinds, db, WriteKinds
<1>3. CASE AlreadyIn(w) BY <1>3, FinishFlow DEF AlreadyIn, LocalType, Flow, Goto, db, local
<1>4. CASE NotYetIn(w) BY <1>4 DEF NotYetIn, LocalType, Flow, Goto, db, local
<1>5. CASE Policy(w) BY <1>5 DEF Policy, LocalType, Flow, Goto, db
<1>6. CASE IsMember(w) BY <1>6, FinishFlow DEF IsMember, LocalType, Flow, Goto, db, local
<1>7. CASE Upsert(w) BY <1>7, FinishFlow DEF Upsert, LocalType, Flow, Continue, Goto, local
<1>8. CASE Fetch(w)
  BY <1>8, FinishFlow DEF Fetch, LocalType, Flow, Continue, Goto, db, local,
     Deletes
<1>9. CASE SaveRow(w) BY <1>9, FinishFlow DEF SaveRow, LocalType, Flow, Goto, local
<1>10. CASE SaveConflict(w) BY <1>10, FinishFlow DEF SaveConflict, LocalType, Flow, db
<1>11. CASE DeleteRow(w) BY <1>11, FinishFlow DEF DeleteRow, LocalType, Flow, Continue, Goto, local
<1>12. CASE GroupChangesHands(w) BY <1>12 DEF GroupChangesHands, LocalType, Flow, Goto, SubKinds
<1>13. CASE SaveGroup(w) BY <1>13, FinishFlow DEF SaveGroup, LocalType, Flow
<1>14. CASE Visit(w) BY <1>14 DEF Visit, LocalType, Flow, Goto, db
<1>15. CASE VisitsDone(w)
  BY <1>15, FinishFlow DEF VisitsDone, LocalType, Flow, Goto, SubKinds, db,
     local
<1>16. CASE Invitation(w) BY <1>16, FinishFlow DEF Invitation, LocalType, Flow
<1>17. CASE ListSubgroups(w) BY <1>17 DEF ListSubgroups, LocalType, Flow, Goto, db
<1>18. CASE LeaveSubgroup(w) BY <1>18 DEF LeaveSubgroup, LocalType, Flow
<1>19. CASE LeftSubgroups(w) BY <1>19 DEF LeftSubgroups, LocalType, Flow, Goto, db, local
<1>20. CASE CheckSubgroupMember(w) BY <1>20, FinishFlow DEF CheckSubgroupMember, LocalType, Flow, SubKinds, db
<1>21. CASE SaveSubgroup(w) BY <1>21 DEF SaveSubgroup, LocalType, Flow, Goto, SubKinds
<1>22. CASE CompareMembers(w) BY <1>22 DEF CompareMembers, LocalType, Flow, Goto, SubKinds, db
<1>23. CASE AddToSubgroup(w) BY <1>23, FinishFlow DEF AddToSubgroup, LocalType, Flow, SubKinds
<1>24. CASE TakeFromSubgroup(w) BY <1>24 DEF TakeFromSubgroup, LocalType, Flow, SubKinds
<1>25. CASE SubgroupDone(w) BY <1>25, FinishFlow DEF SubgroupDone, LocalType, Flow, SubKinds, db
<1>26. CASE DropSubgroup(w) BY <1>26, FinishFlow DEF DropSubgroup, LocalType, Flow, SubKinds
<1>27. CASE WipeMembership(w) BY <1>27 DEF WipeMembership, LocalType, Flow, Goto, local
<1>28. CASE WipeSubgroups(w) BY <1>28 DEF WipeSubgroups, LocalType, Flow, Goto, local
<1>29. CASE CloseAccount(w) BY <1>29, FinishFlow DEF CloseAccount, LocalType, Flow
<1> QED BY <1>1, <1>2, <1>3, <1>4, <1>5, <1>6, <1>7, <1>8, <1>9, <1>10, <1>11, <1>12,
     <1>13, <1>14, <1>15, <1>16, <1>17, <1>18, <1>19, <1>20, <1>21, <1>22, <1>23,
     <1>24, <1>25, <1>26, <1>27, <1>28, <1>29 DEF Step

LEMMA TypeStep ==
  TypeOK /\ (\A w \in Workers : Flow(w)) /\ [Next]_vars
    => (TypeOK /\ \A w \in Workers : Flow(w))'
<1> SUFFICES ASSUME TypeOK, \A w \in Workers : Flow(w), [Next]_vars
             PROVE  TypeOK' /\ \A v \in Workers : Flow(v)'
  OBVIOUS
<1> LocalType BY TypeParts
<1>1. ASSUME NEW w \in Workers, Arrive(w) \/ Step(w)
      PROVE  TypeOK' /\ \A v \in Workers : Flow(v)'
  <2>1. TypeOK' BY <1>1, ArriveType, StepType
  <2>2. Flow(w)' BY <1>1, ArriveFlow, StepFlow
  <2>3. ASSUME NEW v \in Workers, v # w PROVE Flow(v)'
    <3>1. Still(v) BY <1>1, <2>3, ArriveStill, StepStill
    <3> QED BY <3>1, Flow(v) DEF Still, Flow
  <2> QED BY <2>1, <2>2, <2>3
<1>2. CASE UNCHANGED vars BY <1>2 DEF TypeOK, vars, Flow
<1> QED BY <1>1, <1>2 DEF Next

LEMMA InitFlow == Init => \A w \in Workers : Flow(w)
BY DEF Init, Flow, NoJob, SubKinds

\* Every variable keeps its type, in every interleaving.
THEOREM TypeCorrect == Spec => []TypeOK
<1>1. Init => TypeOK /\ \A w \in Workers : Flow(w) BY InitType, InitFlow
<1> QED BY <1>1, TypeStep, PTL DEF Spec
-----------------------------------------------------------------------------
\* One process serves all requests.
OneWorker == \A v, w \in Workers : v = w

\* Between two requests only group.owner has an "owner" row.  In a transfer the
\* new owner has one before the group is saved, and the previous owner until the
\* demotion; the copies in memory are those of the tables all the time.
Alone(w) ==
  /\ pc[w] # "idle" /\ job[w].kind # "demote" => grp[w].owner = group.owner
  /\ job[w].kind = "demote" => pc[w] \in {"fetch", "save"}
  /\ pc[w] = "save" =>
       /\ row[w].id = rows[job[w].who].id
       /\ row[w].type = IF job[w].kind = "notify" THEN rows[job[w].who].type
                                                  ELSE job[w].want
  /\ \A u \in Users : rows[u].type = "owner" =>
       \/ u = group.owner
       \/ job[w].kind = "role" /\ pc[w] = "group" /\ u = job[w].who
       \/ job[w].kind = "demote" /\ u = grp[w].owner

LEMMA InitAlone == Init => \A w \in Workers : Alone(w)
BY ParamAssumption DEF Init, NoRow, Alone, NoJob

LEMMA ArriveAlone ==
  ASSUME NEW w \in Workers, TypeOK, Flow(w), Alone(w), Arrive(w)
  PROVE  Alone(w)'
<1>1. pc[w] = "idle" /\ UNCHANGED <<rows, group>> /\ grp'[w] = group
  BY  DEF Arrive, OwnRequest, OtherRequest, ManyRequest, EditRequest, 
         SubgroupRequest, EraseRequest, Start, TypeOK
<1>2. job'[w].kind # "demote"
  <2> USE ParamAssumption DEF Start, TypeOK, NoJob, OwnKinds
  <2>1. CASE OwnRequest(w) BY <2>1 DEF OwnRequest
  <2>2. CASE OtherRequest(w) BY <2>2 DEF OtherRequest
  <2>3. CASE ManyRequest(w) BY <2>3 DEF ManyRequest
  <2>4. CASE EditRequest(w) BY <2>4 DEF EditRequest
  <2>5. CASE SubgroupRequest(w) BY <2>5 DEF SubgroupRequest
  <2>6. CASE EraseRequest(w) BY <2>6 DEF EraseRequest
  <2> QED BY <2>1, <2>2, <2>3, <2>4, <2>5, <2>6 DEF Arrive
<1>3. pc'[w] \notin {"save"}
  BY  DEF Arrive, OwnRequest, OtherRequest, ManyRequest, EditRequest, 
         SubgroupRequest, EraseRequest, Start, TypeOK, Goto, OwnKinds
<1>4. \A u \in Users : rows[u].type = "owner" => u = group.owner BY <1>1 DEF Alone, Flow
<1> QED BY <1>1, <1>2, <1>3, <1>4 DEF Alone

\* What the steps that do not touch the tables of roles have to keep.
LEMMA FinishAlone ==
  ASSUME NEW w \in Workers, TypeOK, Finish(w),
         \A u \in Users : rows'[u].type = "owner" => u = group'.owner
  PROVE  Alone(w)'
BY DEF TypeOK, Alone, Finish, Goto, NoJob

LEMMA StepAlone ==
  ASSUME NEW w \in Workers, TypeOK, Flow(w), Alone(w), Step(w)
  PROVE  Alone(w)'
<1>0. job[w].kind # "demote" /\ ~(job[w].kind = "role" /\ pc[w] = "group") =>
        \A u \in Users : rows[u].type = "owner" => u = group.owner
  BY DEF Alone
<1>1. CASE Forbidden(w) BY <1>1, <1>0, FinishAlone DEF Forbidden, Alone, Flow, TypeOK, db, WriteKinds
<1>2. CASE Allowed(w) BY <1>2, <1>0 DEF Allowed, Alone, Flow, Goto, TypeOK, SubKinds, db, WriteKinds
<1>3. CASE AlreadyIn(w) BY <1>3, <1>0, FinishAlone DEF AlreadyIn, Alone, Flow, Goto, TypeOK, db, local
<1>4. CASE NotYetIn(w) BY <1>4, <1>0 DEF NotYetIn, Alone, Flow, Goto, TypeOK, db, local
<1>5. CASE Policy(w)
  <2>1. job'[w].kind = "join" /\ job[w].kind = "join" BY <1>5 DEF Policy, TypeOK, Job, Flow
  <2> QED BY <1>5, <1>0, <2>1 DEF Policy, Alone, Goto, TypeOK, db
<1>6. CASE IsMember(w) BY <1>6, <1>0, FinishAlone DEF IsMember, Alone, Flow, Goto, TypeOK, db, local
<1>7. CASE Upsert(w)
  <2>1. \A u \in Users : rows'[u].type = "owner" => rows[u].type = "owner" BY <1>7 DEF Upsert, Granted, TypeOK
  <2>2. \A u \in Users : rows'[u].type = "owner" => u = group'.owner BY <1>7, <1>0, <2>1 DEF Upsert, Flow
  <2>3. CASE job[w].kind \in {"join", "accept"} BY <1>7, <2>2, <2>3, FinishAlone DEF Upsert, Continue
  <2>4. CASE job[w].kind \in {"redeem", "add", "edit"}
    BY <1>7, <2>2, <2>4 DEF Upsert, Continue, Goto, Alone, TypeOK, local
  <2> QED BY <1>7, <2>3, <2>4 DEF Upsert, Flow
<1>8. CASE Fetch(w)
  <2> DEFINE r == rows[job[w].who]
  <2>1. r \in Row /\ job[w].who \in Users BY DEF TypeOK, Job
  <2>2. CASE r = NoRow
    <3>1. \A u \in Users : rows'[u].type = "owner" => u = group'.owner BY <1>8, <2>2 DEF Fetch, db, Alone, Flow, NoRow
    <3>2. CASE job[w].kind = "remove"
      BY <1>8, <2>2, <3>1, <3>2 DEF Fetch, Continue, Goto, TypeOK, Alone, Flow,
         db, local
    <3>3. CASE job[w].kind # "remove" BY <1>8, <2>2, <3>1, <3>3, FinishAlone DEF Fetch, Continue, Flow
    <3> QED BY <3>2, <3>3
  <2>3. CASE r # NoRow
    <3>1. /\ UNCHANGED db /\ UNCHANGED <<job, grp>>
          /\ pc'[w] = IF Deletes(job[w]) THEN "delete" ELSE "save"
          /\ row'[w] = IF job[w].kind \in {"role", "demote"} /\ ~Deletes(job[w])
                       THEN [r EXCEPT !.type = job[w].want] ELSE r
      BY <1>8, <2>3 DEF Fetch, Goto, TypeOK
    <3>2. row'[w].id = r.id /\ (job[w].kind = "notify" => row'[w].type = r.type) BY <2>1, <3>1 DEF Row
    <3>3. job[w].kind \in {"role", "demote"} /\ ~Deletes(job[w]) =>
            row'[w].type = job[w].want
      BY <2>1, <3>1 DEF Row
    <3>4. pc[w] = "fetch" /\ (job[w].kind = "demote" => ~Deletes(job[w])) BY <1>8 DEF Fetch, Flow, Deletes
    <3>5. ~Deletes(job[w]) => job[w].kind \in {"notify", "role", "demote"} BY <3>4 DEF Flow, Deletes
    <3> QED BY <3>1, <3>2, <3>3, <3>4, <3>5 DEF Alone, db
  <2> QED BY <2>2, <2>3
<1>9. CASE SaveRow(w)
  <2> DEFINE who == job[w].who
  <2>1. /\ who \in Users /\ pc[w] = "save" /\ UNCHANGED group
        /\ rows' = [rows EXCEPT ![who] = row[w]]
    BY <1>9 DEF SaveRow, TypeOK, Job
  <2>2. rows'[who].type = row[w].type /\ \A u \in Users : u # who => rows'[u] = rows[u] BY <2>1 DEF TypeOK
  <2>3. CASE job[w].kind = "role" /\ job[w].want = "owner"
    <3>1. pc'[w] = "group" /\ UNCHANGED <<job, grp>> BY <1>9, <2>3 DEF SaveRow, Goto, local, TypeOK
    <3> QED BY <1>0, <2>1, <2>2, <2>3, <3>1 DEF Alone
  <2>4. CASE ~(job[w].kind = "role" /\ job[w].want = "owner")
    <3>1. \A u \in Users : rows'[u].type = "owner" => u = group'.owner BY <2>1, <2>2, <2>4 DEF Alone, Flow
    <3> QED BY <1>9, <2>4, <3>1, FinishAlone DEF SaveRow
  <2> QED BY <2>3, <2>4
<1>10. CASE SaveConflict(w) BY <1>10 DEF SaveConflict, Saves, Alone
<1>11. CASE DeleteRow(w)
  <2>1. \A u \in Users : rows'[u].type = "owner" => rows[u].type = "owner" BY <1>11 DEF DeleteRow, TypeOK, NoRow
  <2>2. \A u \in Users : rows'[u].type = "owner" => u = group'.owner BY <1>11, <1>0, <2>1 DEF DeleteRow, Flow
  <2>3. CASE job[w].kind = "remove" BY <1>11, <2>2, <2>3 DEF DeleteRow, Continue, Goto, Alone, TypeOK, local
  <2>4. CASE job[w].kind # "remove" BY <1>11, <2>2, <2>4, FinishAlone DEF DeleteRow, Continue, Flow
  <2> QED BY <2>3, <2>4
<1>12. CASE GroupChangesHands(w)
  BY <1>12 DEF GroupChangesHands, Goto, TypeOK, Group, Job, Alone
<1>13. CASE SaveGroup(w)
  BY <1>13, <1>0, FinishAlone DEF SaveGroup, Alone, TypeOK, Group
<1>14. CASE Visit(w)
  <2>1. job'[w].kind = job[w].kind BY <1>14 DEF Visit, TypeOK, Job
  <2> QED BY <1>14, <1>0, <2>1 DEF Visit, Alone, Goto, TypeOK, db
<1>15. CASE VisitsDone(w)
  BY <1>15, <1>0, FinishAlone DEF VisitsDone, Alone, Flow, Goto, TypeOK,
     SubKinds, db, local
<1>16. CASE Invitation(w) BY <1>16, <1>0, FinishAlone DEF Invitation, Alone, Flow, TypeOK
<1>17. CASE ListSubgroups(w) BY <1>17, <1>0 DEF ListSubgroups, Alone, Flow, Goto, TypeOK, db
<1>18. CASE LeaveSubgroup(w) BY <1>18, <1>0 DEF LeaveSubgroup, Alone, Flow, TypeOK
<1>19. CASE LeftSubgroups(w) BY <1>19, <1>0 DEF LeftSubgroups, Alone, Flow, Goto, TypeOK, db, local
<1>20. CASE CheckSubgroupMember(w)
  BY <1>20, <1>0, FinishAlone DEF CheckSubgroupMember, Alone, Flow, TypeOK,
     SubKinds, db
<1>21. CASE SaveSubgroup(w) BY <1>21, <1>0 DEF SaveSubgroup, Alone, Flow, Goto, TypeOK, SubKinds
<1>22. CASE CompareMembers(w) BY <1>22, <1>0 DEF CompareMembers, Alone, Flow, Goto, TypeOK, SubKinds, db
<1>23. CASE AddToSubgroup(w) BY <1>23, <1>0, FinishAlone DEF AddToSubgroup, Alone, Flow, TypeOK, SubKinds
<1>24. CASE TakeFromSubgroup(w) BY <1>24, <1>0 DEF TakeFromSubgroup, Alone, Flow, TypeOK, SubKinds
<1>25. CASE SubgroupDone(w)
  BY <1>25, <1>0, FinishAlone DEF SubgroupDone, Alone, Flow, TypeOK, SubKinds,
     db
<1>26. CASE DropSubgroup(w) BY <1>26, <1>0, FinishAlone DEF DropSubgroup, Alone, Flow, TypeOK, SubKinds
<1>27. CASE WipeMembership(w)
  <2>1. \A u \in Users : rows'[u].type = "owner" => rows[u].type = "owner" BY <1>27 DEF WipeMembership, TypeOK, NoRow
  <2> QED BY <1>27, <2>1 DEF WipeMembership, Alone, Flow, Goto, TypeOK, local
<1>28. CASE WipeSubgroups(w) BY <1>28, <1>0 DEF WipeSubgroups, Alone, Flow, Goto, TypeOK, local
<1>29. CASE CloseAccount(w) BY <1>29, <1>0, FinishAlone DEF CloseAccount, Alone, Flow, TypeOK
<1> QED BY <1>1, <1>2, <1>3, <1>4, <1>5, <1>6, <1>7, <1>8, <1>9, <1>10, <1>11, <1>12,
     <1>13, <1>14, <1>15, <1>16, <1>17, <1>18, <1>19, <1>20, <1>21, <1>22, <1>23,
     <1>24, <1>25, <1>26, <1>27, <1>28, <1>29 DEF Step

\* With one process, the "owner" row and group.owner agree between requests,
\* whoever transfers the group to whom: to an administrator, to somebody who
\* only applied, to the owner again.
THEOREM SoleOwnerAlone ==
  ASSUME OneWorker
  PROVE  Spec => []SoleOwner
<1> DEFINE IInv == TypeOK /\ \A w \in Workers : Flow(w) /\ Alone(w)
<1>1. Init => IInv BY InitType, InitFlow, InitAlone
<1>2. IInv /\ [Next]_vars => IInv'
  <2> SUFFICES ASSUME IInv, [Next]_vars PROVE IInv' OBVIOUS
  <2>1. TypeOK' /\ \A w \in Workers : Flow(w)' BY TypeStep
  <2>2. CASE UNCHANGED vars
    BY <2>2, <2>1 DEF vars, Alone
  <2>3. ASSUME NEW w \in Workers, Arrive(w) \/ Step(w) PROVE IInv'
    BY <2>3, ArriveAlone, StepAlone, OneWorker, <2>1 DEF OneWorker
  <2> QED BY <2>2, <2>3 DEF Next
<1>3. IInv => SoleOwner BY ParamAssumption DEF SoleOwner, Quiet, Alone, Flow
<1> QED BY <1>1, <1>2, <1>3, PTL DEF Spec
-----------------------------------------------------------------------------
(***************************************************************************)
(* Subgroups.                                                              *)
(***************************************************************************)

\* A subgroup that is gone has no members.
NoOrphans == \A s \in Subgroups : s \in live \/ subs[s] = {}

LEMMA InitOrphans == Init => NoOrphans
BY DEF Init, NoOrphans

LEMMA ArriveDb ==
  ASSUME NEW w \in Workers, Arrive(w)
  PROVE  /\ pc[w] = "idle"
         /\ UNCHANGED <<rows, group, inv, live, subs, active, now, row, keep, visit>>
BY DEF Arrive, OwnRequest, OtherRequest, ManyRequest, EditRequest, SubgroupRequest,
       EraseRequest, Start

\* The statements on subgroups; all the others leave them alone.
SubgroupStep(w) ==
  \/ LeaveSubgroup(w) \/ SaveSubgroup(w) \/ AddToSubgroup(w) \/ TakeFromSubgroup(w)
  \/ DropSubgroup(w) \/ WipeSubgroups(w)

LEMMA OtherStep ==
  ASSUME NEW w \in Workers, Step(w), ~SubgroupStep(w)
  PROVE  UNCHANGED <<live, subs>>
<1> USE DEF db
<1>1. CASE \/ Forbidden(w) \/ Allowed(w) \/ AlreadyIn(w) \/ NotYetIn(w) \/ Policy(w)
           \/ IsMember(w) \/ Upsert(w) \/ Fetch(w)
  BY <1>1 DEF Forbidden, Allowed, AlreadyIn, NotYetIn, Policy, IsMember, Upsert, Fetch
<1>2. CASE \/ SaveRow(w) \/ SaveConflict(w) \/ DeleteRow(w) \/ GroupChangesHands(w)
           \/ SaveGroup(w) \/ Visit(w) \/ VisitsDone(w) \/ Invitation(w)
  BY <1>2 DEF SaveRow, SaveConflict, DeleteRow, GroupChangesHands, SaveGroup, Visit,
     VisitsDone, Invitation
<1>3. CASE \/ ListSubgroups(w) \/ LeftSubgroups(w) \/ CheckSubgroupMember(w)
           \/ CompareMembers(w) \/ SubgroupDone(w) \/ WipeMembership(w) \/ CloseAccount(w)
  BY <1>3 DEF ListSubgroups, LeftSubgroups, CheckSubgroupMember, CompareMembers,
     SubgroupDone, WipeMembership, CloseAccount
<1> QED BY <1>1, <1>2, <1>3 DEF Step, SubgroupStep

\* Members come to a subgroup by a form for it only.
LEMMA StepSubs ==
  ASSUME NEW w \in Workers, TypeOK, Flow(w), NoOrphans, Step(w)
  PROVE  /\ NoOrphans'
         /\ job[w].kind \notin {"subadd", "subedit"} =>
              \A s \in Subgroups : subs'[s] \subseteq subs[s]
<1>1. CASE ~SubgroupStep(w) BY <1>1, OtherStep DEF NoOrphans
<1>2. CASE LeaveSubgroup(w) BY <1>2 DEF LeaveSubgroup, NoOrphans, TypeOK
<1>3. CASE SaveSubgroup(w) BY <1>3 DEF SaveSubgroup, NoOrphans
<1>4. CASE AddToSubgroup(w)
  BY <1>4 DEF AddToSubgroup, NoOrphans, TypeOK, Flow
<1>5. CASE TakeFromSubgroup(w) BY <1>5 DEF TakeFromSubgroup, NoOrphans, TypeOK
<1>6. CASE DropSubgroup(w) BY <1>6 DEF DropSubgroup, NoOrphans, TypeOK
<1>7. CASE WipeSubgroups(w) BY <1>7 DEF WipeSubgroups, NoOrphans, TypeOK
<1> QED BY <1>1, <1>2, <1>3, <1>4, <1>5, <1>6, <1>7 DEF SubgroupStep

\* A request stays what it is, but that a transfer goes on as a demotion.
LEMMA StepKind ==
  ASSUME NEW w \in Workers, LocalType, Step(w)
  PROVE  /\ job'[w].kind \in {job[w].kind, "none", "demote"}
         /\ job'[w].want \in {job[w].want, "none", "member", "pending", "admin"}
<1>0. ASSUME Finish(w) PROVE job'[w].kind = "none" /\ job'[w].want = "none" BY <1>0 DEF LocalType, Finish, NoJob
<1>1. CASE UNCHANGED job \/ Finish(w) BY <1>0, <1>1
<1>2. CASE Policy(w) BY <1>2 DEF Policy, LocalType, Job
<1>3. CASE GroupChangesHands(w) BY <1>3 DEF GroupChangesHands, LocalType, Job
<1>4. CASE Visit(w) BY <1>4 DEF Visit, LocalType, Job
<1>5. CASE \/ Forbidden(w) \/ Allowed(w) \/ AlreadyIn(w) \/ NotYetIn(w)
           \/ IsMember(w) \/ Upsert(w) \/ Fetch(w)
  BY <1>1, <1>5 DEF Forbidden, Allowed, AlreadyIn, NotYetIn, IsMember, Upsert, Fetch,
     Continue, local
<1>6. CASE \/ SaveRow(w) \/ SaveConflict(w) \/ DeleteRow(w) \/ SaveGroup(w)
           \/ VisitsDone(w) \/ Invitation(w) \/ ListSubgroups(w) \/ LeaveSubgroup(w)
  BY <1>1, <1>6 DEF SaveRow, SaveConflict, DeleteRow, SaveGroup, VisitsDone, Invitation,
     ListSubgroups, LeaveSubgroup, Continue, local
<1>7. CASE \/ LeftSubgroups(w) \/ CheckSubgroupMember(w) \/ SaveSubgroup(w)
           \/ CompareMembers(w) \/ AddToSubgroup(w) \/ TakeFromSubgroup(w)
           \/ SubgroupDone(w) \/ DropSubgroup(w) \/ WipeMembership(w)
           \/ WipeSubgroups(w) \/ CloseAccount(w)
  BY <1>1, <1>7 DEF LeftSubgroups, CheckSubgroupMember, SaveSubgroup, CompareMembers,
     AddToSubgroup, TakeFromSubgroup, SubgroupDone, DropSubgroup, WipeMembership,
     WipeSubgroups, CloseAccount, local
<1> QED BY <1>2, <1>3, <1>4, <1>5, <1>6, <1>7 DEF Step

\* Somebody who leaves is only in subgroups that are still on the list, and in
\* none when the list is done.
Leaving(w) ==
  /\ pc[w] = "unsub" => \A s \in Subgroups : job[w].who \in subs[s] => s \in visit[w]
  /\ job[w].kind = "leave" /\ pc[w] \in {"fetch", "delete"} =>
       \A s \in Subgroups : job[w].who \notin subs[s]

\* A leave takes these statements.
LEMMA LeaveSteps ==
  ASSUME NEW w \in Workers, Flow(w), job[w].kind = "leave", Step(w)
  PROVE  \/ IsMember(w) \/ ListSubgroups(w) \/ LeaveSubgroup(w) \/ LeftSubgroups(w)
         \/ Fetch(w) \/ DeleteRow(w)
<1>1. pc[w] \in {"member", "subs", "unsub", "fetch", "delete"} \/ pc[w] \notin Labels
  BY DEF Flow, Labels, WriteKinds, SubKinds
<1>2. ~(\/ Forbidden(w) \/ Allowed(w) \/ AlreadyIn(w) \/ NotYetIn(w) \/ Policy(w) \/ Upsert(w))
  BY <1>1 DEF Labels, Forbidden, Allowed, AlreadyIn, NotYetIn, Policy, Upsert
<1>3. ~(\/ SaveRow(w) \/ SaveConflict(w) \/ GroupChangesHands(w) \/ SaveGroup(w)
        \/ Visit(w) \/ VisitsDone(w) \/ Invitation(w))
  BY <1>1 DEF Labels, SaveRow, SaveConflict, GroupChangesHands, SaveGroup, Visit,
     VisitsDone, Invitation
<1>4. ~(\/ CheckSubgroupMember(w) \/ SaveSubgroup(w) \/ CompareMembers(w)
        \/ AddToSubgroup(w) \/ TakeFromSubgroup(w) \/ SubgroupDone(w) \/ DropSubgroup(w)
        \/ WipeMembership(w) \/ WipeSubgroups(w) \/ CloseAccount(w))
  BY <1>1 DEF Labels, CheckSubgroupMember, SaveSubgroup, CompareMembers, AddToSubgroup,
     TakeFromSubgroup, SubgroupDone, DropSubgroup, WipeMembership, WipeSubgroups, CloseAccount
<1> QED BY <1>2, <1>3, <1>4 DEF Step

LEMMA ArriveLeaving ==
  ASSUME NEW w \in Workers, LocalType, Arrive(w)
  PROVE  Leaving(w)'
<1> USE ParamAssumption DEF LocalType, Leaving, Start, Goto, NoJob, WriteKinds, OwnKinds
<1>1. CASE OwnRequest(w) BY <1>1 DEF OwnRequest
<1>2. CASE OtherRequest(w) BY <1>2 DEF OtherRequest
<1>3. CASE ManyRequest(w) BY <1>3 DEF ManyRequest
<1>4. CASE EditRequest(w) BY <1>4 DEF EditRequest
<1>5. CASE SubgroupRequest(w) BY <1>5 DEF SubgroupRequest
<1>6. CASE EraseRequest(w) BY <1>6 DEF EraseRequest
<1> QED BY <1>1, <1>2, <1>3, <1>4, <1>5, <1>6 DEF Arrive

LEMMA StepLeaving ==
  ASSUME NEW w \in Workers, TypeOK, Flow(w), NoOrphans, Leaving(w), Step(w)
  PROVE  Leaving(w)'
<1> LocalType BY TypeParts
<1>1. CASE job[w].kind # "leave"
  BY <1>1, StepKind, StepFlow DEF Flow, Leaving
<1>2. CASE job[w].kind = "leave"
  <2>0. ASSUME Finish(w) PROVE Leaving(w)' BY <2>0 DEF Finish, Goto, Leaving, LocalType
  <2>1. CASE IsMember(w) BY <1>2, <2>0, <2>1 DEF IsMember, Goto, Leaving, LocalType, local
  <2>2. CASE ListSubgroups(w) BY <2>2 DEF ListSubgroups, Goto, Leaving, LocalType, NoOrphans, db
  <2>3. CASE LeaveSubgroup(w) BY <2>3 DEF LeaveSubgroup, Leaving, TypeOK
  <2>4. CASE LeftSubgroups(w) BY <2>4 DEF LeftSubgroups, Goto, Leaving, LocalType, db, local
  <2>5. CASE Fetch(w)
    <3>1. UNCHANGED <<subs, job>> \/ Finish(w) BY <1>2, <2>5 DEF Fetch, Continue, db
    <3>2. pc[w] = "fetch" /\ UNCHANGED subs BY <2>5 DEF Fetch, db
    <3>3. Finish(w) \/ pc'[w] \in {"delete", "save"} BY <1>2, <2>5 DEF Fetch, Continue, Goto, LocalType
    <3> QED BY <1>2, <2>0, <3>1, <3>2, <3>3 DEF Leaving
  <2>6. CASE DeleteRow(w) BY <1>2, <2>0, <2>6 DEF DeleteRow, Continue
  <2> QED BY <1>2, LeaveSteps, <2>1, <2>2, <2>3, <2>4, <2>5, <2>6
<1> QED BY <1>1, <1>2

\* What w does meanwhile leaves the list of v alone.
LEMMA VisitStill ==
  ASSUME NEW w \in Workers, NEW v \in Workers, v # w, LocalType, Arrive(w) \/ Step(w)
  PROVE  visit'[v] = visit[v]
<1>0. ASSUME Finish(w) PROVE visit'[v] = visit[v] BY <1>0 DEF LocalType, Finish
<1>1. CASE UNCHANGED visit \/ Finish(w) BY <1>0, <1>1
<1>2. CASE Arrive(w) BY <1>2, ArriveDb
<1>3. CASE ListSubgroups(w) BY <1>3 DEF ListSubgroups, LocalType
<1>4. CASE LeaveSubgroup(w) BY <1>4 DEF LeaveSubgroup, LocalType
<1>5. CASE \/ Forbidden(w) \/ Allowed(w) \/ AlreadyIn(w) \/ NotYetIn(w) \/ Policy(w)
           \/ IsMember(w) \/ Upsert(w) \/ Fetch(w)
  BY <1>1, <1>5 DEF Forbidden, Allowed, AlreadyIn, NotYetIn, Policy, IsMember, Upsert, Fetch,
     Continue, local
<1>6. CASE \/ SaveRow(w) \/ SaveConflict(w) \/ DeleteRow(w) \/ GroupChangesHands(w)
           \/ SaveGroup(w) \/ Visit(w) \/ VisitsDone(w) \/ Invitation(w)
  BY <1>1, <1>6 DEF SaveRow, SaveConflict, DeleteRow, GroupChangesHands, SaveGroup, Visit,
     VisitsDone, Invitation, Continue, local
<1>7. CASE \/ LeftSubgroups(w) \/ CheckSubgroupMember(w) \/ SaveSubgroup(w)
           \/ CompareMembers(w) \/ AddToSubgroup(w) \/ TakeFromSubgroup(w)
           \/ SubgroupDone(w) \/ DropSubgroup(w) \/ WipeMembership(w)
           \/ WipeSubgroups(w) \/ CloseAccount(w)
  BY <1>1, <1>7 DEF LeftSubgroups, CheckSubgroupMember, SaveSubgroup, CompareMembers,
     AddToSubgroup, TakeFromSubgroup, SubgroupDone, DropSubgroup, WipeMembership,
     WipeSubgroups, CloseAccount, local
<1> QED BY <1>2, <1>3, <1>4, <1>5, <1>6, <1>7 DEF Step

\* Nobody adds or edits a subgroup.
NoSubgroupForms == Kinds \cap {"subadd", "subedit"} = {}
Formless(w) == NoSubgroupForms => job[w].kind \notin {"subadd", "subedit"}

LEMMA ArriveFormless ==
  ASSUME NEW w \in Workers, LocalType, Arrive(w)
  PROVE  Formless(w)'
<1> USE ParamAssumption DEF LocalType, Formless, NoSubgroupForms, Start, NoJob, OwnKinds
<1>1. CASE OwnRequest(w) BY <1>1 DEF OwnRequest
<1>2. CASE OtherRequest(w) BY <1>2 DEF OtherRequest
<1>3. CASE ManyRequest(w) BY <1>3 DEF ManyRequest
<1>4. CASE EditRequest(w) BY <1>4 DEF EditRequest
<1>5. CASE SubgroupRequest(w) BY <1>5 DEF SubgroupRequest
<1>6. CASE EraseRequest(w) BY <1>6 DEF EraseRequest
<1> QED BY <1>1, <1>2, <1>3, <1>4, <1>5, <1>6 DEF Arrive

LeaveInv == /\ TypeOK /\ NoOrphans
            /\ \A w \in Workers : Flow(w) /\ Leaving(w) /\ Formless(w)

LEMMA LeaveStep ==
  ASSUME OneWorker \/ NoSubgroupForms, LeaveInv, [Next]_vars
  PROVE  LeaveInv'
<1>0. TypeOK' /\ (\A w \in Workers : Flow(w)') /\ LocalType BY TypeStep, TypeParts DEF LeaveInv
<1>1. CASE UNCHANGED vars BY <1>0, <1>1 DEF vars, LeaveInv, NoOrphans, Leaving, Formless
<1>2. ASSUME NEW w \in Workers, Arrive(w) \/ Step(w) PROVE LeaveInv'
  <2>1. NoOrphans'
    BY ArriveDb, StepSubs, <1>2 DEF LeaveInv, NoOrphans
  <2>2. Leaving(w)' BY <1>0, <1>2, ArriveLeaving, StepLeaving DEF LeaveInv
  <2>3. Formless(w)' BY <1>0, <1>2, ArriveFormless, StepKind DEF LeaveInv, Formless
  <2>4. ASSUME NEW v \in Workers, v # w PROVE Leaving(v)' /\ Formless(v)'
    <3>1. Still(v) /\ visit'[v] = visit[v] BY <1>0, <1>2, <2>4, ArriveStill, StepStill, VisitStill
    <3>2. NoSubgroupForms BY <2>4 DEF OneWorker
    <3>3. \A s \in Subgroups : subs'[s] \subseteq subs[s] BY <1>2, <3>2, ArriveDb, StepSubs DEF LeaveInv, Formless
    <3> QED BY <3>1, <3>3 DEF Still, LeaveInv, Leaving, Formless
  <2> QED BY <1>0, <2>1, <2>2, <2>3, <2>4 DEF LeaveInv
<1> QED BY <1>1, <1>2 DEF Next

LEMMA InitLeave == Init => LeaveInv
<1>1. Init => \A w \in Workers : Leaving(w) /\ Formless(w) BY DEF Init, Leaving, Formless, NoJob
<1> QED BY <1>1, InitType, InitFlow, InitOrphans DEF LeaveInv

\* Whoever's membership is about to be deleted by a leave is in no subgroup any
\* more, whichever subgroups, accounts and memberships others delete meanwhile.
\* A form for a subgroup, sent by somebody else in between, could put them back.
THEOREM LeaveClears ==
  ASSUME OneWorker \/ NoSubgroupForms
  PROVE  Spec => []LeaveClearsSubgroups
<1>1. LeaveInv /\ [Next]_vars => LeaveInv' BY LeaveStep
<1>2. LeaveInv => LeaveClearsSubgroups BY DEF LeaveInv, Leaving, LeaveClearsSubgroups
<1> QED BY <1>1, <1>2, InitLeave, PTL DEF Spec
-----------------------------------------------------------------------------
\* Nobody is removed or refused by an administrator: only leaving and deleting
\* an account look at the subgroups.
NoRemovals == Kinds \cap {"remove", "reject"} = {} /\ "removed" \notin Roles
Staying(w) == job[w].kind \notin {"remove", "reject"} /\ job[w].want # "removed"

Forms == {"subadd", "subedit"}

\* Members of subgroups are full members, but for the person whose account is
\* deleted at this moment; and so are those collected for a subgroup.  Nobody is
\* made an applicant who is a full member.
Inside(w) ==
  /\ Staying(w)
  /\ \A s \in Subgroups : \A u \in subs[s] :
       FullMember(u) \/ (pc[w] = "wipesubs" /\ u = job[w].who)
  /\ pc[w] \in {"idle", "may"} => keep[w] = {}
  /\ pc[w] \in {"subsave", "diff"} \/ (pc[w] = "each" /\ job[w].kind \in Forms) =>
       \A u \in keep[w] : FullMember(u)
  /\ pc[w] = "apply" => \A u \in todo[w] : FullMember(u)
  /\ pc[w] = "policy" => ~FullMember(job[w].who)
  /\ pc[w] = "upsert" /\ job[w].want = "pending" => ~FullMember(job[w].who)
  /\ pc[w] = "delete" => Deletes(job[w])

Within == \A s \in Subgroups : \A u \in subs[s] : FullMember(u)

LEMMA InitInside == NoRemovals /\ Init => \A w \in Workers : Inside(w)
BY DEF Init, Inside, Staying, NoJob, Forms

LEMMA ArriveInside ==
  ASSUME NoRemovals, NEW w \in Workers, TypeOK, Inside(w), Arrive(w)
  PROVE  Inside(w)'
<1>1. pc[w] = "idle" /\ UNCHANGED <<rows, subs, keep>> BY ArriveDb
<1>2. Within /\ keep[w] = {} BY <1>1 DEF Inside, Within
<1>3. pc'[w] \in {"full", "member", "fetch", "may", "wipe"}
  <2> USE DEF Start, TypeOK, Goto
  <2>1. CASE OwnRequest(w) BY <2>1 DEF OwnRequest, OwnKinds
  <2>2. CASE OtherRequest(w) BY <2>2 DEF OtherRequest
  <2>3. CASE ManyRequest(w) BY <2>3 DEF ManyRequest
  <2>4. CASE EditRequest(w) BY <2>4 DEF EditRequest
  <2>5. CASE SubgroupRequest(w) BY <2>5 DEF SubgroupRequest
  <2>6. CASE EraseRequest(w) BY <2>6 DEF EraseRequest
  <2> QED BY <2>1, <2>2, <2>3, <2>4, <2>5, <2>6 DEF Arrive
<1>4. Staying(w)'
  <2> USE ParamAssumption DEF Start, TypeOK, Staying, NoRemovals, NoJob, OwnKinds
  <2>1. CASE OwnRequest(w) BY <2>1 DEF OwnRequest
  <2>2. CASE OtherRequest(w) BY <2>2 DEF OtherRequest
  <2>3. CASE ManyRequest(w) BY <2>3 DEF ManyRequest
  <2>4. CASE EditRequest(w) BY <2>4 DEF EditRequest
  <2>5. CASE SubgroupRequest(w) BY <2>5 DEF SubgroupRequest
  <2>6. CASE EraseRequest(w) BY <2>6 DEF EraseRequest
  <2> QED BY <2>1, <2>2, <2>3, <2>4, <2>5, <2>6 DEF Arrive
<1> QED BY <1>1, <1>2, <1>3, <1>4 DEF Inside, Within, FullMember

LEMMA FinishInside ==
  ASSUME NEW w \in Workers, TypeOK, Finish(w), Within'
  PROVE  Inside(w)'
BY DEF TypeOK, Inside, Within, Staying, Finish, Goto, NoJob, FullMember

\* What Continue leads to, for requests that are not forms for a subgroup.
LEMMA ContinueInside ==
  ASSUME NEW w \in Workers, TypeOK, Staying(w), Continue(w), Within'
  PROVE  Inside(w)'
<1>1. CASE job[w].kind \in {"remove", "add", "edit"}
  BY <1>1 DEF Continue, Goto, TypeOK, Inside, Within, Staying, Forms, local, FullMember
<1>2. CASE job[w].kind \notin {"remove", "add", "edit"} BY <1>2, FinishInside DEF Continue
<1> QED BY <1>1, <1>2

LEMMA StepInside ==
  ASSUME NEW w \in Workers, TypeOK, Flow(w), Alone(w), NoOrphans, Leaving(w), Inside(w), Step(w)
  PROVE  Inside(w)'
<1> LocalType BY TypeParts
<1>0. UNCHANGED <<rows, subs>> /\ pc[w] # "wipesubs" => Within' BY DEF Inside, Within, FullMember
<1>w. pc[w] # "wipesubs" => Within BY DEF Inside, Within
<1>u. job[w].who \in Users BY DEF LocalType, Job
<1>1. CASE Forbidden(w) BY <1>0, <1>1, FinishInside DEF Forbidden, db
<1>2. CASE Allowed(w)
  <2>1. /\ pc[w] = "may" /\ UNCHANGED <<rows, subs, job, keep>>
        /\ pc'[w] \in {"member", "full", "fetch", "invitation", "drop", "group", "each"}
    BY <1>2 DEF Allowed, db, Goto, LocalType
  <2> QED BY <1>0, <2>1 DEF Inside, Within, Staying, FullMember
<1>3. CASE AlreadyIn(w)
  BY <1>0, <1>3, FinishInside DEF AlreadyIn, db, Goto, LocalType, Inside, Within, Staying,
     local, FullMember
<1>4. CASE NotYetIn(w) BY <1>0, <1>4 DEF NotYetIn, db, Goto, LocalType, Inside, Within, Staying, local, FullMember
<1>5. CASE Policy(w)
  <2>1. /\ pc[w] = "policy" /\ pc'[w] = "upsert" /\ job'[w].kind = job[w].kind
        /\ UNCHANGED <<rows, subs, keep>>
        /\ job'[w].who = job[w].who /\ job'[w].want \in {"member", "pending"}
    BY <1>5 DEF Policy, db, Goto, LocalType, Job
  <2> QED BY <1>0, <2>1 DEF Inside, Within, Staying, FullMember
<1>6. CASE IsMember(w)
  BY <1>0, <1>6, FinishInside DEF IsMember, db, Goto, LocalType, Inside, Within, Staying,
     local, FullMember
<1>7. CASE Upsert(w)
  <2>1. /\ pc[w] = "upsert" /\ UNCHANGED subs
        /\ \A u \in Users : u # job[w].who => rows'[u] = rows[u]
        /\ rows'[job[w].who].type = Granted(job[w])
    BY <1>u, <1>7 DEF Upsert, TypeOK
  <2>2. FullMember(job[w].who) => rows'[job[w].who].type = "member" BY <2>1 DEF Inside, Granted
  <2>3. Within' BY <1>w, <2>1, <2>2 DEF Within, FullMember, Full, TypeOK
  <2>4. CASE job[w].kind = "redeem"
    BY <1>7, <2>1, <2>3, <2>4 DEF Upsert, Goto, LocalType, Inside, Within, Staying, local, FullMember
  <2>5. CASE job[w].kind # "redeem" BY <1>7, <2>3, <2>5, ContinueInside DEF Upsert, Inside
  <2> QED BY <2>4, <2>5
<1>8. CASE Fetch(w)
  <2>1. pc[w] = "fetch" /\ Within' BY <1>0, <1>8 DEF Fetch, db
  <2>2. CASE rows[job[w].who] = NoRow BY <1>8, <2>1, <2>2, ContinueInside DEF Fetch, Inside
  <2>3. CASE rows[job[w].who] # NoRow
    <3>1. UNCHANGED job /\ pc'[w] = IF Deletes(job[w]) THEN "delete" ELSE "save"
      BY <1>8, <2>3 DEF Fetch, Goto, LocalType
    <3> QED BY <1>0, <2>1, <3>1 DEF Inside, Within, Staying, FullMember
  <2> QED BY <2>2, <2>3
<1>9. CASE SaveRow(w)
  <2>1. /\ pc[w] = "save" /\ UNCHANGED subs
        /\ \A u \in Users : u # job[w].who => rows'[u] = rows[u]
        /\ rows'[job[w].who].type = row[w].type
    BY <1>u, <1>9 DEF SaveRow, TypeOK
  <2>2. FullMember(job[w].who) => row[w].type \in Full BY <2>1 DEF Alone, Flow, Inside, Staying, FullMember, Full
  <2>3. Within' BY <1>w, <2>1, <2>2 DEF Within, FullMember, TypeOK
  <2>4. CASE job[w].kind = "role" /\ job[w].want = "owner"
    BY <1>9, <2>1, <2>3, <2>4 DEF SaveRow, Goto, LocalType, Inside, Within, Staying, local, FullMember
  <2>5. CASE ~(job[w].kind = "role" /\ job[w].want = "owner") BY <1>9, <2>3, <2>5, FinishInside DEF SaveRow
  <2> QED BY <2>4, <2>5
<1>10. CASE SaveConflict(w) BY <1>0, <1>10, FinishInside DEF SaveConflict, db
<1>11. CASE DeleteRow(w)
  <2>1. pc[w] = "delete" /\ UNCHANGED subs /\ \A u \in Users : u # job[w].who => rows'[u] = rows[u]
    BY <1>u, <1>11 DEF DeleteRow, TypeOK
  <2>2. job[w].kind = "leave" BY <2>1 DEF Inside, Staying, Deletes
  <2>3. \A s \in Subgroups : job[w].who \notin subs[s] BY <2>1, <2>2 DEF Leaving
  <2>4. Within' BY <1>w, <2>1, <2>3 DEF Within, FullMember, TypeOK
  <2> QED BY <1>11, <2>4, ContinueInside DEF DeleteRow, Inside
<1>12. CASE GroupChangesHands(w)
  <2>1. /\ pc[w] = "group" /\ pc'[w] = "fetch" /\ UNCHANGED <<rows, subs, keep>>
        /\ job'[w].kind = "demote" /\ job'[w].want = "admin"
    BY <1>12 DEF GroupChangesHands, Goto, LocalType, Job
  <2> QED BY <1>0, <2>1 DEF Inside, Within, Staying, FullMember
<1>13. CASE SaveGroup(w) BY <1>0, <1>13, FinishInside DEF SaveGroup
<1>14. CASE Visit(w)
  <2>1. /\ pc[w] = "each" /\ job[w].kind \in {"add", "edit"} /\ pc'[w] \in {"each", "upsert"}
        /\ UNCHANGED <<rows, subs, keep>>
        /\ \E u \in todo[w] : pc'[w] = (IF FullMember(u) THEN "each" ELSE "upsert")
                              /\ job'[w] = [job[w] EXCEPT !.who = u]
    BY <1>14 DEF Visit, Goto, LocalType, Inside, Staying, db
  <2>2. PICK u \in todo[w] : pc'[w] = (IF FullMember(u) THEN "each" ELSE "upsert")
                              /\ job'[w] = [job[w] EXCEPT !.who = u]
    BY <2>1
  <2>3. job'[w].kind = job[w].kind /\ job'[w].want = job[w].want /\ job'[w].who = u BY <2>2 DEF LocalType, Job
  <2> QED BY <1>0, <2>1, <2>2, <2>3 DEF Inside, Within, Staying, Forms, FullMember
<1>15. CASE VisitsDone(w)
  <2>1. pc[w] = "each" /\ Within' BY <1>0, <1>15 DEF VisitsDone, db
  <2>2. CASE job[w].kind \in {"remove", "add"} BY <1>15, <2>1, <2>2, FinishInside DEF VisitsDone
  <2>3. CASE job[w].kind \notin {"remove", "add"}
    <3>1. /\ UNCHANGED <<rows, subs, local>>
          /\ pc'[w] = IF job[w].kind = "edit" THEN "group" ELSE "subsave"
          /\ job[w].kind # "edit" => job[w].kind \in Forms
      BY <1>15, <2>1, <2>3 DEF VisitsDone, Goto, LocalType, db, Flow, Forms
    <3> QED BY <1>0, <2>1, <3>1 DEF Inside, Within, Staying, Forms, local, FullMember
  <2> QED BY <2>2, <2>3
<1>16. CASE Invitation(w) BY <1>0, <1>16, FinishInside DEF Invitation
<1>17. CASE ListSubgroups(w)
  BY <1>0, <1>17 DEF ListSubgroups, db, Goto, LocalType, Inside, Within, Staying, FullMember
<1>18. CASE LeaveSubgroup(w)
  BY <1>18 DEF LeaveSubgroup, TypeOK, Inside, Staying, FullMember
<1>19. CASE LeftSubgroups(w)
  BY <1>0, <1>19 DEF LeftSubgroups, db, Goto, LocalType, Inside, Within, Staying, local, FullMember
<1>20. CASE CheckSubgroupMember(w)
  <2>1. pc[w] = "each" /\ job[w].kind \in Forms /\ Within' BY <1>0, <1>20 DEF CheckSubgroupMember, Forms, db
  <2>2. PICK u \in todo[w] :
          \/ FullMember(u) /\ keep' = [keep EXCEPT ![w] = @ \cup {u}] /\ UNCHANGED <<pc, job>>
          \/ UNCHANGED <<pc, job, keep>>
          \/ Finish(w)
    BY <1>20 DEF CheckSubgroupMember
  <2>3. CASE Finish(w) BY <2>1, <2>3, FinishInside
  <2>4. CASE ~Finish(w)
    <3>1. UNCHANGED <<rows, subs, pc, job>> /\ \A x \in keep'[w] : x \in keep[w] \/ (x = u /\ FullMember(u))
      BY <1>20, <2>2, <2>4 DEF CheckSubgroupMember, LocalType, db
    <3> QED BY <1>0, <2>1, <3>1 DEF Inside, Within, Staying, Forms, FullMember
  <2> QED BY <2>3, <2>4
<1>21. CASE SaveSubgroup(w)
  <2>1. pc[w] = "subsave" /\ UNCHANGED <<rows, subs, job>> BY <1>21 DEF SaveSubgroup
  <2>2. CASE job[w].kind = "subadd"
    <3>1. pc'[w] = "apply" /\ todo'[w] = keep[w] BY <1>21, <2>2 DEF SaveSubgroup, Goto, LocalType
    <3> QED BY <1>0, <2>1, <2>2, <3>1 DEF Inside, Within, Staying, Forms, FullMember
  <2>3. CASE job[w].kind # "subadd"
    <3>1. pc'[w] = "diff" /\ UNCHANGED keep BY <1>21, <2>3 DEF SaveSubgroup, Goto, LocalType
    <3> QED BY <1>0, <2>1, <2>3, <3>1 DEF Inside, Within, Staying, Forms, FullMember
  <2> QED BY <2>2, <2>3
<1>22. CASE CompareMembers(w)
  <2>1. pc[w] = "diff" /\ UNCHANGED job /\ pc'[w] = "apply" /\ todo'[w] \subseteq keep[w]
    BY <1>22 DEF CompareMembers, Goto, LocalType
  <2>2. UNCHANGED <<rows, subs>> BY <1>22 DEF CompareMembers, db
  <2> QED BY <1>0, <2>1, <2>2 DEF Inside, Within, Staying, FullMember
<1>23. CASE AddToSubgroup(w)
  <2>1. PICK u \in todo[w] :
          \/ /\ subs' = [subs EXCEPT ![job[w].sub] = @ \cup {u}]
             /\ todo' = [todo EXCEPT ![w] = @ \ {u}]
             /\ UNCHANGED <<pc, job, keep>>
          \/ Finish(w) /\ UNCHANGED subs
    BY <1>23 DEF AddToSubgroup
  <2>2. pc[w] = "apply" /\ UNCHANGED rows /\ FullMember(u) BY <1>23 DEF AddToSubgroup, Inside
  <2>3. \A s \in Subgroups : subs'[s] \subseteq subs[s] \cup {u} BY <2>1 DEF TypeOK
  <2>4. Within' BY <1>w, <2>2, <2>3 DEF Within, FullMember
  <2>5. (todo'[w] \subseteq todo[w] /\ UNCHANGED <<pc, job, keep>>) \/ Finish(w) BY <2>1 DEF LocalType
  <2> QED BY <2>2, <2>4, <2>5, FinishInside DEF Inside, Within, Staying, FullMember
<1>24. CASE TakeFromSubgroup(w)
  BY <1>24 DEF TakeFromSubgroup, TypeOK, Inside, Staying, FullMember
<1>25. CASE SubgroupDone(w) BY <1>0, <1>25, FinishInside DEF SubgroupDone, db
<1>26. CASE DropSubgroup(w)
  BY <1>26, <1>w, FinishInside DEF DropSubgroup, TypeOK, Within, FullMember
<1>27. CASE WipeMembership(w)
  <2>1. /\ pc[w] = "wipe" /\ pc'[w] = "wipesubs" /\ UNCHANGED <<subs, local>>
        /\ \A u \in Users : u # job[w].who => rows'[u] = rows[u]
    BY <1>u, <1>27 DEF WipeMembership, Goto, TypeOK
  <2> QED BY <1>w, <2>1 DEF Inside, Within, Staying, local, FullMember, TypeOK
<1>28. CASE WipeSubgroups(w)
  <2>1. /\ pc[w] = "wipesubs" /\ pc'[w] = "close" /\ UNCHANGED <<rows, local>>
        /\ \A s \in Subgroups : subs'[s] = IF s \in live /\ job[w].who \in subs[s] THEN {} ELSE subs[s]
    BY <1>28 DEF WipeSubgroups, Goto, LocalType
  <2>2. Within' BY <2>1 DEF Inside, NoOrphans, Within, FullMember
  <2> QED BY <2>1, <2>2 DEF Inside, Within, Staying, local, FullMember
<1>29. CASE CloseAccount(w) BY <1>0, <1>29, FinishInside DEF CloseAccount
<1> QED BY <1>1, <1>2, <1>3, <1>4, <1>5, <1>6, <1>7, <1>8, <1>9, <1>10, <1>11, <1>12,
     <1>13, <1>14, <1>15, <1>16, <1>17, <1>18, <1>19, <1>20, <1>21, <1>22, <1>23,
     <1>24, <1>25, <1>26, <1>27, <1>28, <1>29 DEF Step

SubgroupInv == /\ TypeOK /\ NoOrphans
               /\ \A w \in Workers : Flow(w) /\ Alone(w) /\ Leaving(w) /\ Inside(w)

LEMMA SubgroupStepKeeps ==
  ASSUME OneWorker, NoRemovals, SubgroupInv, [Next]_vars
  PROVE  SubgroupInv'
<1>0. TypeOK' /\ (\A w \in Workers : Flow(w)') /\ LocalType BY TypeStep, TypeParts DEF SubgroupInv
<1>1. CASE UNCHANGED vars BY <1>0, <1>1 DEF vars, SubgroupInv, NoOrphans, Alone, Leaving, Inside, Staying, FullMember
<1>2. ASSUME NEW w \in Workers, Arrive(w) \/ Step(w) PROVE SubgroupInv'
  <2>1. NoOrphans' BY <1>2, ArriveDb, StepSubs DEF SubgroupInv, NoOrphans
  <2>2. Alone(w)' /\ Leaving(w)' /\ Inside(w)'
    BY <1>0, <1>2, ArriveAlone, StepAlone, ArriveLeaving, StepLeaving, ArriveInside, StepInside
       DEF SubgroupInv
  <2>3. \A v \in Workers : Alone(v)' /\ Leaving(v)' /\ Inside(v)' BY <2>2 DEF OneWorker
  <2> QED BY <1>0, <2>1, <2>3 DEF SubgroupInv
<1> QED BY <1>1, <1>2 DEF Next

\* With one process and no removals by an administrator, subgroups consist of full
\* members between requests, whoever joins, leaves, is given a role, put into
\* subgroups or deleted.  A removal leaves its person in the subgroups.
THEOREM SubgroupsStayWithin ==
  ASSUME OneWorker, NoRemovals
  PROVE  Spec => []SubgroupWithinGroup
<1>1. Init => SubgroupInv
  <2>1. Init => \A w \in Workers : Leaving(w) BY DEF Init, Leaving, NoJob
  <2> QED BY <2>1, InitType, InitFlow, InitAlone, InitOrphans, InitInside DEF SubgroupInv
<1>2. SubgroupInv /\ [Next]_vars => SubgroupInv' BY SubgroupStepKeeps
<1>3. SubgroupInv => SubgroupWithinGroup
  BY ParamAssumption DEF SubgroupInv, Inside, SubgroupWithinGroup, Quiet, TypeOK
<1> QED BY <1>1, <1>2, <1>3, PTL DEF Spec

-----------------------------------------------------------------------------
(***************************************************************************)
(* With one process serving all requests, GroupMembership implements       *)
(* GroupRoles.                                                             *)
(***************************************************************************)

\* The refinement mapping, when w is the only worker.
View(w) ==
  /\ \A u \in Users : RoleOf(u) =
       IF rows[u] = NoRow THEN "none"
       ELSE IF Transferring(w) /\ u = grp[w].owner THEN "admin" ELSE rows[u].type
  /\ OwnerNow = IF job[w].kind = "role" /\ pc[w] = "group" THEN job[w].who
                ELSE group.owner

LEMMA ViewIs ==
  ASSUME OneWorker, NEW w \in Workers
  PROVE  View(w)
BY DEF OneWorker, RoleOf, OwnerNow, View

LEMMA ViewNext ==
  ASSUME OneWorker, NEW w \in Workers
  PROVE  View(w)'
BY ViewIs, PTL

\* What a worker knows when it writes: the person a join or an addition is
\* about is not in the group, and a row that is saved is in the table.
Extra(w) ==
  /\ pc[w] \in {"policy", "upsert"} => ~FullMember(job[w].who)
  /\ pc[w] = "save" => rows[job[w].who] # NoRow
  /\ \A u \in Users : rows[u] # NoRow => rows[u].type \in Types

\* A step that writes no role and is not part of a transfer.
Quietly(w) ==
  /\ rows' = rows /\ group'.owner = group.owner
  /\ ~Transferring(w) /\ ~Transferring(w)'
  /\ Extra(w)'

LEMMA FinishQuiet ==
  ASSUME NEW w \in Workers, TypeOK, Finish(w)
  PROVE  pc'[w] = "idle" /\ job'[w].kind = "none" /\ ~Transferring(w)'
BY DEF TypeOK, Finish, Goto, NoJob, Transferring

LEMMA ArriveQuietly ==
  ASSUME NEW w \in Workers, TypeOK, Flow(w), Alone(w), Extra(w), Arrive(w)
  PROVE  Quietly(w)
<1>1. Flow(w)' /\ Alone(w)' BY ArriveFlow, ArriveAlone, TypeParts
<1>2. pc[w] = "idle" /\ UNCHANGED <<rows, group>>
  BY DEF Arrive, OwnRequest, OtherRequest, ManyRequest, EditRequest,
         SubgroupRequest, EraseRequest, Start
<1>3. pc'[w] \notin {"policy", "upsert", "save", "group"}
  BY ZenonT(30) DEF Arrive, OwnRequest, OtherRequest, ManyRequest, EditRequest,
         SubgroupRequest, EraseRequest, Start, TypeOK, Goto, OwnKinds
<1>4. job'[w].kind # "demote"
  <2> USE ParamAssumption DEF Start, TypeOK, NoJob, OwnKinds
  <2>1. CASE OwnRequest(w) BY <2>1 DEF OwnRequest
  <2>2. CASE OtherRequest(w) BY <2>2 DEF OtherRequest
  <2>3. CASE ManyRequest(w) BY <2>3 DEF ManyRequest
  <2>4. CASE EditRequest(w) BY <2>4 DEF EditRequest
  <2>5. CASE SubgroupRequest(w) BY <2>5 DEF SubgroupRequest
  <2>6. CASE EraseRequest(w) BY <2>6 DEF EraseRequest
  <2> QED BY <2>1, <2>2, <2>3, <2>4, <2>5, <2>6 DEF Arrive
<1> QED BY <1>2, <1>3, <1>4 DEF Quietly, Transferring, Flow, Extra

CalmStep(w) ==
  \/ Forbidden(w) \/ Allowed(w) \/ AlreadyIn(w) \/ NotYetIn(w)
  \/ Policy(w) \/ IsMember(w) \/ SaveConflict(w) \/ SaveGroup(w)
  \/ Visit(w) \/ VisitsDone(w) \/ Invitation(w) \/ ListSubgroups(w)
  \/ LeaveSubgroup(w) \/ LeftSubgroups(w) \/ CheckSubgroupMember(w) \/ SaveSubgroup(w)
  \/ CompareMembers(w) \/ AddToSubgroup(w) \/ TakeFromSubgroup(w) \/ SubgroupDone(w)
  \/ DropSubgroup(w) \/ WipeSubgroups(w) \/ CloseAccount(w)

LEMMA StepQuietly ==
  ASSUME NEW w \in Workers, TypeOK, Flow(w), Alone(w), Extra(w), CalmStep(w)
  PROVE  Quietly(w)
<1>1. CASE Forbidden(w)
  BY <1>1, FinishQuiet DEF Forbidden, Quietly, Transferring, Flow,
     Alone, Extra, FullMember, TypeOK, Goto, db, local, WriteKinds
<1>2. CASE Allowed(w)
  BY <1>2 DEF Allowed, Quietly, Transferring, Flow,
     Alone, Extra, FullMember, TypeOK, Goto, db, local, WriteKinds, SubKinds
<1>3. CASE AlreadyIn(w)
  BY <1>3, FinishQuiet DEF AlreadyIn, Quietly, Transferring, Flow,
     Alone, Extra, FullMember, TypeOK, Goto, db, local
<1>4. CASE NotYetIn(w)
  BY <1>4 DEF NotYetIn, Quietly, Transferring, Flow,
     Alone, Extra, FullMember, TypeOK, Goto, db, local
<1>5. CASE Policy(w)
  <2>1. job'[w].kind = "join" /\ job'[w].who = job[w].who /\ job[w].kind = "join"
    BY <1>5 DEF Policy, TypeOK, Job, Flow
  <2> QED BY <1>5, <2>1 DEF Policy, Quietly, Transferring, Extra, FullMember, TypeOK, Goto, db
<1>6. CASE IsMember(w)
  BY <1>6, FinishQuiet DEF IsMember, Quietly, Transferring, Flow,
     Alone, Extra, FullMember, TypeOK, Goto, db, local
<1>7. CASE SaveConflict(w) BY <1>7 DEF SaveConflict, Saves, Alone
<1>8. CASE SaveGroup(w)
  <2>1. group'.owner = group.owner BY <1>8 DEF SaveGroup, Alone, TypeOK, Group
  <2> QED BY <1>8, <2>1, FinishQuiet DEF SaveGroup, Quietly, Transferring, Flow, Alone, Extra
<1>9. CASE Visit(w)
  <2>1. job'[w].kind = job[w].kind BY <1>9 DEF Visit, TypeOK, Job
  <2>2. pc'[w] = "upsert" => ~FullMember(job'[w].who) BY <1>9 DEF Visit, TypeOK, Job, Goto
  <2> QED BY <1>9, <2>1, <2>2 DEF Visit, Quietly, Transferring, Extra, FullMember, TypeOK, Goto, db
<1>10. CASE VisitsDone(w)
  BY <1>10, FinishQuiet DEF VisitsDone, Quietly, Transferring, Flow,
     Alone, Extra, FullMember, TypeOK, Goto, db, local, SubKinds
<1>11. CASE Invitation(w)
  BY <1>11, FinishQuiet DEF Invitation, Quietly, Transferring, Flow,
     Alone, Extra, FullMember, TypeOK, Goto, db, local
<1>12. CASE ListSubgroups(w)
  BY <1>12 DEF ListSubgroups, Quietly, Transferring, Flow,
     Alone, Extra, FullMember, TypeOK, Goto, db, local
<1>13. CASE LeaveSubgroup(w)
  BY <1>13 DEF LeaveSubgroup, Quietly, Transferring, Flow,
     Alone, Extra, FullMember, TypeOK, Goto, db, local
<1>14. CASE LeftSubgroups(w)
  BY <1>14 DEF LeftSubgroups, Quietly, Transferring, Flow,
     Alone, Extra, FullMember, TypeOK, Goto, db, local
<1>15. CASE CheckSubgroupMember(w)
  BY <1>15, FinishQuiet DEF CheckSubgroupMember, Quietly, Transferring, Flow,
     Alone, Extra, FullMember, TypeOK, Goto, db, local, SubKinds
<1>16. CASE SaveSubgroup(w)
  BY <1>16 DEF SaveSubgroup, Quietly, Transferring, Flow,
     Alone, Extra, FullMember, TypeOK, Goto, db, local, SubKinds
<1>17. CASE CompareMembers(w)
  BY <1>17 DEF CompareMembers, Quietly, Transferring, Flow,
     Alone, Extra, FullMember, TypeOK, Goto, db, local, SubKinds
<1>18. CASE AddToSubgroup(w)
  BY <1>18, FinishQuiet DEF AddToSubgroup, Quietly, Transferring, Flow,
     Alone, Extra, FullMember, TypeOK, Goto, db, local, SubKinds
<1>19. CASE TakeFromSubgroup(w)
  BY <1>19 DEF TakeFromSubgroup, Quietly, Transferring, Flow,
     Alone, Extra, FullMember, TypeOK, Goto, db, local, SubKinds
<1>20. CASE SubgroupDone(w)
  BY <1>20, FinishQuiet DEF SubgroupDone, Quietly, Transferring, Flow,
     Alone, Extra, FullMember, TypeOK, Goto, db, local, SubKinds
<1>21. CASE DropSubgroup(w)
  BY <1>21, FinishQuiet DEF DropSubgroup, Quietly, Transferring, Flow,
     Alone, Extra, FullMember, TypeOK, Goto, db, local, SubKinds
<1>22. CASE WipeSubgroups(w)
  BY <1>22 DEF WipeSubgroups, Quietly, Transferring, Flow,
     Alone, Extra, FullMember, TypeOK, Goto, db, local
<1>23. CASE CloseAccount(w)
  BY <1>23, FinishQuiet DEF CloseAccount, Quietly, Transferring, Flow,
     Alone, Extra, FullMember, TypeOK, Goto, db, local
<1> QED BY <1>1, <1>2, <1>3, <1>4, <1>5, <1>6, <1>7, <1>8, <1>9, <1>10, <1>11,
     <1>12, <1>13, <1>14, <1>15, <1>16, <1>17, <1>18, <1>19, <1>20, <1>21,
     <1>22, <1>23 DEF CalmStep

-----------------------------------------------------------------------------
(***************************************************************************)
(* What the other steps are in GroupRoles.                                 *)
(***************************************************************************)

RolesNow == [u \in Users |-> RoleOf(u)]
Stutter  == UNCHANGED <<RolesNow, OwnerNow>>

LEMMA QuietStutter ==
  ASSUME NEW w \in Workers, View(w), View(w)', Quietly(w)
  PROVE  Stutter
BY DEF View, Quietly, Transferring, Stutter, RolesNow

\* A join, an acceptance or an addition is Enter, or Apply.
LEMMA UpsertMapped ==
  ASSUME NEW w \in Workers, View(w), View(w)', TypeOK, Flow(w), Extra(w), Upsert(w)
  PROVE  Atomic!Next /\ Extra(w)'
<1>0. PICK who \in Users : who = job[w].who BY DEF TypeOK, Job
<1>1. PICK role \in {"pending", "member"} : role = Granted(job[w]) BY DEF Granted
<1>2. /\ UNCHANGED group
      /\ rows'[who] # NoRow /\ rows'[who].type = role
      /\ \A u \in Users : u # who => rows'[u] = rows[u]
  BY <1>0, <1>1 DEF Upsert, TypeOK, NoRow
<1>3. ~Transferring(w) /\ pc[w] = "upsert" BY DEF Upsert, Flow, Transferring
<1>4. job'[w].kind # "demote" /\ pc'[w] \in {"idle", "each", "invitation"}
  BY <1>3, FinishQuiet DEF Upsert, Flow, Continue, Goto, TypeOK, local
<1>5. RoleOf(who) \notin Atomic!Full BY <1>0, <1>3 DEF View, Extra, FullMember, Full, Atomic!Full
<1>6. RoleOf(who)' = role /\ \A u \in Users : u # who => RoleOf(u)' = RoleOf(u)
  BY <1>1, <1>2, <1>3, <1>4 DEF View, Transferring
<1>7. OwnerNow' = OwnerNow BY <1>2, <1>3, <1>4 DEF View
<1>8. RolesNow' = [RolesNow EXCEPT ![who] = role] /\ RolesNow[who] \notin Atomic!Full BY <1>5, <1>6 DEF RolesNow
<1>9. Atomic!Apply(who) \/ Atomic!Enter(who) BY <1>1, <1>7, <1>8 DEF Atomic!Apply, Atomic!Enter, RolesNow
<1>10. Extra(w)' BY <1>1, <1>2, <1>4 DEF Extra, Types, Full
<1> QED BY <1>1, <1>9, <1>10 DEF Atomic!Next

\* Reading a row changes nothing, also when there is none to demote.
LEMMA FetchMapped ==
  ASSUME NEW w \in Workers, View(w), View(w)', TypeOK, Flow(w), Extra(w), Fetch(w)
  PROVE  Stutter /\ Extra(w)'
<1> DEFINE who == job[w].who
<1>1. who \in Users /\ UNCHANGED <<rows, group>> /\ pc[w] = "fetch" BY DEF Fetch, db, TypeOK, Job
<1>2. CASE rows[who] = NoRow
  <2>1. pc'[w] \in {"idle", "each"} /\ job'[w].kind \in {"none", "remove"}
    BY <1>1, <1>2, FinishQuiet DEF Fetch, Continue, Goto, TypeOK, Flow, local
  <2>2. \A u \in Users : RoleOf(u)' = RoleOf(u) BY <1>1, <1>2, <2>1 DEF View, Transferring, Flow
  <2>3. OwnerNow' = OwnerNow BY <1>1, <2>1 DEF View
  <2> QED BY <1>1, <2>1, <2>2, <2>3 DEF Stutter, RolesNow, Extra
<1>3. CASE rows[who] # NoRow
  <2>1. pc'[w] \in {"save", "delete"} /\ UNCHANGED <<job, grp>> BY <1>1, <1>3 DEF Fetch, Goto, TypeOK
  <2>2. \A u \in Users : RoleOf(u)' = RoleOf(u) BY <1>1, <2>1 DEF View, Transferring
  <2>3. OwnerNow' = OwnerNow BY <1>1, <2>1 DEF View
  <2> QED BY <1>1, <1>3, <2>1, <2>2, <2>3 DEF Stutter, RolesNow, Extra
<1> QED BY <1>2, <1>3

\* The save of a row is the whole transfer, an appointment, or nothing: the
\* demotion that ends a transfer, and a change of the notification setting.
LEMMA SaveRowMapped ==
  ASSUME NEW w \in Workers, View(w), View(w)', TypeOK, Flow(w), Alone(w), Extra(w),
         SaveRow(w)
  PROVE  (Atomic!Next \/ Stutter) /\ Extra(w)'
<1> DEFINE k == job[w].kind
<1>0. PICK who \in Users, want \in {job[w].want} : who = job[w].who BY DEF TypeOK, Job
<1>1. pc[w] = "save" /\ UNCHANGED group /\ rows[who] # NoRow BY <1>0 DEF SaveRow, Extra
<1>2. rows[who].type \in Types /\ row[w] \in Row /\ rows[who] \in Row BY <1>1 DEF Extra, TypeOK
<1>3. rows'[who] = row[w] /\ \A u \in Users : u # who => rows'[u] = rows[u] BY <1>0 DEF SaveRow, TypeOK
<1>4. k \in {"notify", "role", "demote"} BY <1>1 DEF Flow
<1>5. /\ row[w].type = IF k = "notify" THEN rows[who].type ELSE want
      /\ row[w].id = rows[who].id
  BY <1>0, <1>1 DEF Alone
<1>6. row[w].type \in Types BY <1>0, <1>2, <1>4, <1>5 DEF Flow, Types, Full, Row
<1>7. row[w] # NoRow BY <1>6 DEF NoRow, Types, Full
<1>8. Extra(w)'
  <2>1. pc'[w] \in {"idle", "group"} BY FinishQuiet DEF SaveRow, Goto, TypeOK
  <2> QED BY <1>1, <1>3, <1>6, <2>1 DEF Extra
<1>9. CASE k = "role" /\ want = "owner"
  <2>1. pc'[w] = "group" /\ UNCHANGED <<job, grp>> BY <1>0, <1>9 DEF SaveRow, Goto, TypeOK, local
  <2>2. ~Transferring(w) /\ Transferring(w)' /\ grp[w].owner = group.owner BY <1>1, <1>9, <2>1 DEF Transferring, Alone
  <2>3. OwnerNow = group.owner /\ OwnerNow' = who BY <1>0, <1>1, <1>9, <2>1 DEF View
  <2>4. RoleOf(who) # "none" BY <1>1, <1>2, <2>2 DEF View, Types, Full
  <2>5. ASSUME NEW u \in Users
        PROVE  RoleOf(u)' = IF u = group.owner
                            THEN IF RoleOf(u) = "none" THEN "none" ELSE "admin"
                            ELSE IF u = who THEN "owner" ELSE RoleOf(u)
    <3>1. rows'[u] = NoRow <=> rows[u] = NoRow BY <1>1, <1>3, <1>7
    <3>2. RoleOf(u) = "none" <=> rows[u] = NoRow BY <2>2 DEF View, Extra, Types, Full
    <3>3. RoleOf(u)' = IF rows'[u] = NoRow THEN "none"
                       ELSE IF u = group.owner THEN "admin" ELSE rows'[u].type
      BY <2>1, <2>2 DEF View
    <3> QED BY <1>3, <1>5, <1>7, <1>9, <2>2, <3>1, <3>2, <3>3 DEF View
  <2>6. Atomic!Transfer(who) BY <1>1, <2>3, <2>4, <2>5 DEF Atomic!Transfer
  <2> QED BY <1>1, <1>8, <2>6 DEF Atomic!Next
<1>10. CASE ~(k = "role" /\ want = "owner")
  <2>1. pc'[w] = "idle" /\ job'[w].kind = "none" /\ ~Transferring(w)' BY <1>0, <1>10, FinishQuiet DEF SaveRow
  <2>2. OwnerNow = group.owner /\ OwnerNow' = OwnerNow BY <1>1, <2>1 DEF View
  <2>3. \A u \in Users : u # who /\ ~(k = "demote" /\ u = grp[w].owner) =>
          RoleOf(u)' = RoleOf(u)
    BY <1>1, <1>3, <2>1 DEF View, Transferring
  <2>4. RoleOf(who)' = row[w].type BY <1>1, <1>3, <1>7, <2>1 DEF View
  <2>5. CASE k = "notify"
    <3>1. RoleOf(who) = rows[who].type BY <1>1, <2>5 DEF View, Transferring
    <3>2. Stutter BY <1>5, <2>2, <2>3, <2>4, <2>5, <3>1 DEF Stutter, RolesNow
    <3> QED BY <1>8, <3>2
  <2>6. CASE k = "demote"
    <3>1. who = grp[w].owner /\ want = "admin" BY <1>0, <2>6 DEF Flow
    <3>2. RoleOf(who) = "admin" BY <1>1, <2>6, <3>1 DEF View, Transferring
    <3>3. Stutter BY <1>5, <2>2, <2>3, <2>4, <2>6, <3>1, <3>2 DEF Stutter, RolesNow
    <3> QED BY <1>8, <3>3
  <2>7. CASE k = "role"
    <3>1. want \in {"member", "admin"} BY <1>0, <1>5, <1>6, <1>10, <2>7 DEF Flow, Types, Full
    <3>2. RoleOf(who) # "none" BY <1>1, <1>2, <2>7 DEF View, Transferring, Types, Full
    <3>3. RolesNow' = [RolesNow EXCEPT ![who] = want] /\ RolesNow[who] # "none"
      BY <1>1, <1>5, <2>3, <2>4, <2>7, <3>2 DEF RolesNow
    <3>4. Atomic!Appoint(who, want) BY <2>2, <3>1, <3>3 DEF Atomic!Appoint, RolesNow
    <3> QED BY <1>1, <1>8, <3>1, <3>4 DEF Atomic!Next
  <2> QED BY <1>4, <2>5, <2>6, <2>7
<1> QED BY <1>9, <1>10

\* The group follows the roles that were written before.
LEMMA ChangeMapped ==
  ASSUME NEW w \in Workers, View(w), View(w)', TypeOK, Extra(w), GroupChangesHands(w)
  PROVE  Stutter /\ Extra(w)'
<1>1. /\ UNCHANGED <<rows, grp>> /\ group'.owner = job[w].who
      /\ pc[w] = "group" /\ pc'[w] = "fetch" /\ job[w].kind = "role" /\ job'[w].kind = "demote"
  BY DEF GroupChangesHands, Goto, TypeOK, Group, Job
<1>2. \A u \in Users : RoleOf(u)' = RoleOf(u) BY <1>1 DEF View, Transferring
<1>3. OwnerNow' = OwnerNow BY <1>1 DEF View
<1> QED BY <1>1, <1>2, <1>3 DEF Stutter, RolesNow, Extra

\* A membership is deleted: Drop, or nothing when it was deleted before.
LEMMA DeleteMapped ==
  ASSUME NEW w \in Workers, View(w), View(w)', TypeOK, Flow(w), Extra(w),
         DeleteRow(w) \/ WipeMembership(w)
  PROVE  (Atomic!Next \/ Stutter) /\ Extra(w)'
<1>0. PICK who \in Users : who = job[w].who BY DEF TypeOK, Job
<1>1. UNCHANGED group /\ pc[w] \in {"delete", "wipe"} BY DEF DeleteRow, WipeMembership
<1>2. /\ rows'[who] \in {NoRow, rows[who]}
      /\ \A u \in Users : u # who => rows'[u] = rows[u]
  BY <1>0 DEF DeleteRow, WipeMembership, TypeOK
<1>3. /\ ~Transferring(w) /\ ~Transferring(w)'
      /\ pc'[w] \in {"idle", "each", "wipesubs"}
  BY FinishQuiet DEF DeleteRow, WipeMembership, Continue, Goto, TypeOK, Flow,
     Transferring, local
<1>4. OwnerNow' = OwnerNow BY <1>1, <1>3 DEF View
<1>5. /\ RoleOf(who)' \in {"none", RoleOf(who)}
      /\ \A u \in Users : u # who => RoleOf(u)' = RoleOf(u)
  BY <1>1, <1>2, <1>3 DEF View
<1>6. RolesNow' = [RolesNow EXCEPT ![who] = "none"] \/ RolesNow' = RolesNow BY <1>5 DEF RolesNow
<1>7. Atomic!Drop(who) \/ Stutter BY <1>4, <1>6 DEF Atomic!Drop, Stutter, RolesNow
<1>8. Extra(w)' BY <1>1, <1>2, <1>3 DEF Extra
<1> QED BY <1>1, <1>7, <1>8 DEF Atomic!Next

-----------------------------------------------------------------------------
LEMMA InitMapped ==
  ASSUME OneWorker, Init
  PROVE  Atomic!Init /\ \A w \in Workers : Extra(w)
<1>1. PICK start \in [Users -> StartRoles] :
        rows = [u \in Users |->
                  IF u = group.owner THEN [id |-> 1, type |-> "owner"]
                  ELSE IF start[u] = "none" THEN NoRow
                  ELSE [id |-> 1, type |-> start[u]]]
  BY DEF Init
<1>2. \A u \in Users : /\ rows[u].type = "owner" => u = group.owner
                       /\ rows[u] # NoRow => rows[u].type \in Types
  BY <1>1, ParamAssumption DEF NoRow, Types, Full
<1>3. group.owner \in Users BY DEF Init
<1>4. PICK w \in Workers : TRUE BY ParamAssumption
<1>5. pc[w] = "idle" /\ job[w].kind = "none" /\ View(w) BY ViewIs DEF Init, NoJob
<1>6. OwnerNow = group.owner BY <1>5 DEF View
<1>7. \A u \in Users : RoleOf(u) = IF rows[u] = NoRow THEN "none" ELSE rows[u].type BY <1>5 DEF View, Transferring
<1>8. \A u \in Users : RoleOf(u) \in Atomic!Types BY <1>2, <1>7 DEF Types, Full, Atomic!Types, Atomic!Full
<1>9. Atomic!OwnerIsSole BY <1>2, <1>6, <1>7 DEF Atomic!OwnerIsSole
<1>10. Atomic!Init BY <1>3, <1>6, <1>8, <1>9 DEF Atomic!Init
<1> QED BY <1>2, <1>10 DEF Extra, Init

\* With one process every request changes the roles as one step of GroupRoles or
\* not at all, in spite of the three separate saves of a transfer, of additions
\* and removals in between, and of the memberships a deleted account had.
THEOREM RolesImplemented ==
  ASSUME OneWorker
  PROVE  Spec => ImplementsGroupRoles
<1> DEFINE IInv == TypeOK /\ \A w \in Workers : Flow(w) /\ Alone(w) /\ Extra(w)
<1>1. Init => IInv /\ Atomic!Init BY InitType, InitFlow, InitAlone, InitMapped
<1>2. IInv /\ [Next]_vars => IInv' /\ (Atomic!Next \/ Stutter)
  <2> SUFFICES ASSUME IInv, [Next]_vars PROVE IInv' /\ (Atomic!Next \/ Stutter) OBVIOUS
  <2>1. TypeOK' /\ \A w \in Workers : Flow(w)' BY TypeStep
  <2>2. CASE UNCHANGED vars
    <3>1. \A w \in Workers : Alone(w)' /\ Extra(w)' BY <2>2 DEF vars, Alone, Extra, FullMember
    <3>2. PICK w \in Workers : TRUE BY ParamAssumption
    <3>3. View(w) /\ View(w)' BY ViewIs, ViewNext
    <3>4. /\ \A u \in Users : RoleOf(u)' = RoleOf(u)
          /\ OwnerNow' = OwnerNow
      BY <2>2, <3>3 DEF vars, View, Transferring
    <3> QED BY <2>1, <3>1, <3>4 DEF Stutter, RolesNow
  <2>3. ASSUME NEW w \in Workers, Arrive(w) \/ Step(w)
        PROVE  IInv' /\ (Atomic!Next \/ Stutter)
    <3>1. Alone(w)' BY <2>3, ArriveAlone, StepAlone
    <3>2. View(w) /\ View(w)' BY ViewIs, ViewNext
    <3>3. Extra(w)' /\ (Atomic!Next \/ Stutter)
      <4>1. CASE Arrive(w) \/ CalmStep(w) BY <4>1, <3>2, ArriveQuietly, StepQuietly, QuietStutter DEF Quietly
      <4>2. CASE Upsert(w) BY <4>2, <3>2, UpsertMapped
      <4>3. CASE Fetch(w) BY <4>3, <3>2, FetchMapped
      <4>4. CASE SaveRow(w) BY <4>4, <3>2, SaveRowMapped
      <4>5. CASE GroupChangesHands(w) BY <4>5, <3>2, ChangeMapped
      <4>6. CASE DeleteRow(w) \/ WipeMembership(w) BY <4>6, <3>2, DeleteMapped
      <4> QED BY <2>3, <4>1, <4>2, <4>3, <4>4, <4>5, <4>6 DEF Step, CalmStep
    <3>4. \A v \in Workers : Alone(v)' /\ Extra(v)' BY <3>1, <3>3, OneWorker DEF OneWorker
    <3> QED BY <2>1, <3>3, <3>4
  <2> QED BY <2>2, <2>3 DEF Next
<1>3. Stutter => UNCHANGED <<RolesNow, OwnerNow>> BY DEF Stutter
<1> QED BY <1>1, <1>2, <1>3, PTL DEF Spec, ImplementsGroupRoles, Atomic!Spec, RolesNow

-----------------------------------------------------------------------------
\* Besides its type: what the links, the workers and the copying task hold.
CopyTyped ==
  /\ CopyTypeOK /\ team # {}
  /\ folderOf \in [Items -> Items \cup {0, Outside}]
  /\ toLink \subseteq ({"parent"} \X Items) \cup ({"reply"} \X Notes) \cup ({"best"} \X Items)
  /\ \A w \in FileWorkers : hands[w].do # "nothing" => hands[w].e \in Files
  /\ copier.do \in {"save", "connect"} => copier.e \in Items

\* Row t of e refers to copies only, when T and R are the rows of the items and
\* of the comments, and is read by no one who could not read e.
Whole(e, t, T, R) ==
  /\ t.there
  /\ t.parent # 0 => T[t.parent].there
  /\ t.best # Nobody => R[t.best] # Nobody
  /\ t.readers \in {SeenBy[e], "private"}
RowsInside ==
  /\ \A e \in Items : (e \in mapped <=> twin[e].there) /\ (twin[e].there => Whole(e, twin[e], twin, reply))
  /\ \A c \in Notes : (c \in mapped <=> reply[c] # Nobody) /\ (reply[c] \in Notes => reply[reply[c]] # Nobody)
  /\ \A r \in toLink : r[2] \in mapped
  /\ tray \subseteq mapped
  /\ copier.do = "connect" => /\ Whole(copier.e, copier.copy, twin, reply)
                              /\ copier.e \in mapped /\ folderOf[copier.e] \in mapped \cap Items
  /\ \A w \in FileWorkers :
       /\ hands[w].do # "nothing" => hands[w].e \in mapped
       /\ hands[w].do = "store" => Whole(hands[w].e, hands[w].copy, twin, reply)

\* Contents that are still to be copied.
Pending(f) == f \in tray \/ \E w \in FileWorkers : hands[w].do \in {"load", "store"} /\ hands[w].e = f
KeepsOne ==
  \A f \in Files \cap source : twin[f].there => twin[f].full \/ twin[f].parent = folderOf[f] \/ Pending(f)

\* What the copying task has done when nothing disturbs it.
Undisturbed == changes = 0 /\ ~early /\ \A e \in Items : folderOf[e] # Outside
Preparing == {"group", "members", "inner", "list"}
SourceKept == Items \cup Notes \subseteq source /\ inner = IF Subgroup \in source THEN team ELSE {}
MembersCopied ==
  /\ copier.do # "group" /\ Subgroup \in source => Subgroup \in mapped
  /\ copier.all /\ copier.do \notin {"group", "members"} => joined = team
  /\ copier.all /\ copier.do \notin {"group", "members", "inner"} => joinedIn = inner
LoopKept ==
  /\ copier.do \in Preparing => mapped \cap (Items \cup Notes) = {}
  /\ copier.do \notin Preparing =>
       /\ copier.bests = {e \in Items : BestOf[e] \in source}
       /\ \A e \in Items : e \in mapped <=> e \notin copier.left
       /\ \A c \in Notes : c \in mapped <=> RootOf(c) \notin copier.left
  /\ copier.do = "save" => copier.e \in copier.left
  /\ copier.do \in {"link", "connect", "done"} => copier.left = {}
  /\ copier.do = "done" => toLink = {}
  /\ copier.do # "failed"
LinksKept ==
  /\ \A e \in Items \cap mapped :
       /\ IF <<"parent", e>> \in toLink THEN folderOf[e] # 0 ELSE twin[e].parent = folderOf[e]
       /\ IF <<"best", e>> \in toLink THEN BestOf[e] # Nobody ELSE twin[e].best = BestOf[e]
  /\ \A c \in Notes \cap mapped : IF <<"reply", c>> \in toLink THEN OnOf[c] \in Notes ELSE reply[c] = OnOf[c]
  /\ copier.do = "connect" => copier.copy = twin[copier.e]
ContentsKept ==
  /\ \A e \in Items \cap mapped : /\ twin[e].full => e \in Files
                                  /\ e \in Files => twin[e].full \/ Pending(e)
  /\ \A w \in FileWorkers : hands[w].do = "store" =>
       /\ copier.do = "done"
       /\ hands[w].copy.parent = folderOf[hands[w].e] /\ hands[w].copy.best = BestOf[hands[w].e]
Faithful == Undisturbed => SourceKept /\ MembersCopied /\ LoopKept /\ LinksKept /\ ContentsKept
CopyInv == CopyTyped /\ RowsInside /\ KeepsOne /\ Faithful

-----------------------------------------------------------------------------
CopierType == [do : CopySteps, left : SUBSET Items, bests : SUBSET Items, e : Items \cup {0}, copy : Twins, all : BOOLEAN]
HandType   == [do : {"nothing", "load", "store"}, e : Items \cup {0}, copy : Twins]

LEMMA NewTwinTyped == /\ NoTwin \in Twins /\ NoTwin.there = FALSE /\ NotBusy \in HandType /\ NotBusy.do = "nothing"
BY DEF NoTwin, Twins, NotBusy, HandType, Nobody

LEMMA SavedTyped ==
  ASSUME NEW e \in Items
  PROVE  /\ Saved(e) \in Twins /\ Saved(e).there /\ Saved(e).parent = 0 /\ Saved(e).best = Nobody
         /\ Saved(e).full = FALSE /\ Saved(e).readers \in {SeenBy[e], "private"}
BY DEF Transformed, Saved, Twins

\* What the copying task does next, with the rest of what it holds.
LEMMA NextDo ==
  ASSUME copier \in CopierType, NEW do \in CopySteps, copier' = [copier EXCEPT !.do = do]
  PROVE  /\ copier' \in CopierType /\ copier'.do = do
         /\ copier'.left = copier.left /\ copier'.bests = copier.bests /\ copier'.e = copier.e
         /\ copier'.copy = copier.copy /\ copier'.all = copier.all
BY DEF CopierType

LEMMA CopyTypedInit == CopyInit => CopyTyped
<1> SUFFICES ASSUME CopyInit PROVE CopyTyped OBVIOUS
<1>1. /\ folderOf \in [Items -> Items \cup {0, Outside}]
      /\ source \subseteq Items \cup Notes \cup {Subgroup}
  BY CopyAssumption DEF CopyInit
<1>2. inner \subseteq team /\ team \subseteq Crowd /\ team # {} BY CopyAssumption DEF CopyInit
<1>3. copier \in CopierType /\ copier.do = "group"
  BY NewTwinTyped DEF CopyInit, CopierType, CopySteps
<1>4. twin \in [Items -> Twins] /\ reply \in [Notes -> Items \cup Notes \cup {Nobody}] BY NewTwinTyped DEF CopyInit
<1>5. hands \in [FileWorkers -> HandType] /\ \A w \in FileWorkers : hands[w].do = "nothing"
  BY NewTwinTyped DEF CopyInit
<1>6. changes \in 0..MaxChanges BY CopyAssumption DEF CopyInit
<1>7. /\ joined \subseteq Crowd /\ joinedIn \subseteq Crowd /\ mapped \subseteq Items \cup Notes \cup {Subgroup}
      /\ tray \subseteq Files /\ toLink = {}
  BY DEF CopyInit
<1>8. early \in BOOLEAN BY DEF CopyInit
<1> QED BY <1>1, <1>2, <1>3, <1>4, <1>5, <1>6, <1>7, <1>8 DEF CopyTyped, CopyTypeOK, CopierType, HandType

\* The steps of the copying task.
TaskStep ==
  \/ CreateGroup \/ CreateMembers \/ CreateSubgroupMembers \/ ListItems \/ ReadItem \/ SaveItem
  \/ LoadChild \/ ConnectParent \/ ConnectReply \/ ConnectBest \/ Finished

LEMMA TaskFrame ==
  ASSUME TaskStep
  PROVE  /\ UNCHANGED theSource /\ hands' = hands /\ early' = early /\ tray \subseteq tray'
         /\ ~SaveItem => tray' = tray
BY DEF TaskStep, CreateGroup, CreateMembers, CreateSubgroupMembers, ListItems, ReadItem, SaveItem, LoadChild, ConnectParent,
   ConnectReply, ConnectBest, Finished, theFiles

LEMMA CopierTyped ==
  ASSUME CopyTyped, TaskStep
  PROVE  copier' \in CopierType /\ (copier'.do \in {"save", "connect"} => copier'.e \in Items)
<1> USE DEF CopyTyped, CopyTypeOK
<1>0. copier \in CopierType /\ copier.copy \in Twins /\ copier.left \in SUBSET Items BY DEF CopierType
<1>1. CASE CreateGroup BY <1>0, <1>1, NextDo DEF CreateGroup, Next1, CopySteps
<1>2. CASE CreateMembers BY <1>0, <1>2, NextDo DEF CreateMembers, Next1, CopySteps
<1>3. CASE CreateSubgroupMembers BY <1>0, <1>3, NextDo DEF CreateSubgroupMembers, Next1, CopySteps, CopyEnded
<1>4. CASE ListItems
  BY <1>4, <1>0 DEF ListItems, CopierType, CopySteps
<1>5. CASE ReadItem
  BY <1>5, <1>0 DEF ReadItem, CopierType, CopySteps, CopyEnded
<1>6. CASE SaveItem
  BY <1>6, <1>0 DEF SaveItem, CopierType, CopySteps
<1>7. CASE LoadChild
  <2>1. PICK e \in Items \cup Notes : /\ <<"parent", e>> \in toLink
                      /\ copier' = IF folderOf[e] \notin mapped THEN [copier EXCEPT !.do = "failed"]
                                   ELSE [copier EXCEPT !.do = "connect", !.e = e, !.copy = twin[e]]
    BY <1>7 DEF LoadChild, Left
  <2>2. e \in Items BY <2>1
  <2>3. twin[e] \in Twins BY <2>2
  <2> QED BY <1>0, <2>1, <2>2, <2>3 DEF CopierType, CopySteps, CopyEnded
<1>8. CASE ConnectParent \/ Finished BY <1>0, <1>8, NextDo DEF ConnectParent, Finished, Next1, CopySteps, CopyEnded
<1>9. CASE ConnectReply \/ ConnectBest
  <2>1. copier' = copier \/ copier' = [copier EXCEPT !.do = "failed"] BY <1>9 DEF ConnectReply, ConnectBest, Next1
  <2> QED BY <1>0, <2>1, NextDo DEF CopySteps, CopyEnded
<1> QED BY <1>1, <1>2, <1>3, <1>4, <1>5, <1>6, <1>7, <1>8, <1>9 DEF TaskStep

LEMMA TwinsTyped ==
  ASSUME CopyTyped, RowsInside, CopyNext PROVE twin' \in [Items -> Twins]
<1> USE DEF CopyTyped, CopyTypeOK
<1>1. CASE SaveItem
  BY <1>1, SavedTyped DEF SaveItem, Do
<1>2. CASE ConnectParent
  BY <1>2 DEF ConnectParent, Do, RowsInside, Connected, Twins
<1>3. CASE ConnectBest
  <2>1. PICK e \in Items : twin' = [twin EXCEPT ![e].best = BestOf[e]] \/ twin' = twin BY <1>3 DEF ConnectBest, Left
  <2>2. [twin[e] EXCEPT !.best = BestOf[e]] \in Twins
    <3>1. BestOf[e] \in Notes \cup {Nobody} /\ twin[e] \in Twins BY CopyAssumption, <2>1
    <3> QED BY <3>1 DEF Twins
  <2> QED BY <2>1, <2>2
<1>4. ASSUME NEW w \in FileWorkers, StoreTwin(w) PROVE twin' \in [Items -> Twins]
  <2>1. hands[w].copy \in Twins OBVIOUS
  <2>2. Filled(hands[w].copy) \in Twins BY <2>1 DEF Filled, Twins
  <2> QED BY <1>4, <2>2 DEF StoreTwin
<1> QED BY <1>1, <1>2, <1>3, <1>4 DEF CopyNext, CreateGroup, CreateMembers, CreateSubgroupMembers, ListItems, ReadItem,
        LoadChild, ConnectReply, Finished, DeleteInSource, JoinSource, SubgroupInSource, Change, TakeFile, LoadTwin

LEMMA HandsTyped ==
  ASSUME CopyTyped, NEW w \in FileWorkers, TakeFile(w) \/ LoadTwin(w) \/ StoreTwin(w)
  PROVE  /\ hands' \in [FileWorkers -> HandType]
         /\ \A v \in FileWorkers : hands'[v].do # "nothing" => hands'[v].e \in Files
         /\ \A v \in FileWorkers \ {w} : hands'[v] = hands[v]
<1> USE DEF CopyTyped, CopyTypeOK
<1>0. hands \in [FileWorkers -> HandType] BY DEF HandType
<1>1. PICK hand \in HandType : /\ hands' = [hands EXCEPT ![w] = hand] \/ hands' = hands
                               /\ hand.do # "nothing" => hand.e \in Files
  <2>1. CASE TakeFile(w)
    <3>1. PICK f \in tray : hands' = [hands EXCEPT ![w] = [NotBusy EXCEPT !.do = "load", !.e = f]] \/ hands' = hands
      BY <2>1 DEF TakeFile
    <3>2. f \in Items /\ f \in Files BY <3>1, CopyAssumption
    <3> DEFINE hand == [NotBusy EXCEPT !.do = "load", !.e = f]
    <3>3. hand \in HandType /\ hand.e = f BY <3>2, NewTwinTyped DEF HandType, NotBusy
    <3>4. hands' = [hands EXCEPT ![w] = hand] \/ hands' = hands BY <3>1
    <3> HIDE DEF hand
    <3> QED BY <3>2, <3>3, <3>4
  <2>2. CASE LoadTwin(w)
    <3>1. hands[w].e \in Files /\ hands[w].e \in Items /\ hands[w] \in HandType
      BY <2>2, <1>0, CopyAssumption DEF LoadTwin
    <3> DEFINE hand == [hands[w] EXCEPT !.do = "store", !.copy = twin[hands[w].e]]
    <3>2. hand \in HandType /\ hand.e = hands[w].e BY <3>1 DEF HandType
    <3>3. hands' = [hands EXCEPT ![w] = hand] BY <2>2 DEF LoadTwin
    <3> HIDE DEF hand
    <3> QED BY <3>1, <3>2, <3>3
  <2>3. CASE StoreTwin(w) BY <2>3, NewTwinTyped DEF StoreTwin
  <2> QED BY <2>1, <2>2, <2>3
<1> QED BY <1>0, <1>1

LEMMA CopyTypedStep == CopyTyped /\ RowsInside /\ [CopyNext]_groupcopy => CopyTyped'
<1> SUFFICES ASSUME CopyTyped, RowsInside, [CopyNext]_groupcopy PROVE CopyTyped' OBVIOUS
<1> USE DEF CopyTyped, CopyTypeOK
<1>1. CASE TaskStep
  <2>1. /\ UNCHANGED <<folderOf, source, team, inner, changes, hands, early>> BY <1>1, TaskFrame DEF theSource
  <2>2. copier' \in CopierType /\ (copier'.do \in {"save", "connect"} => copier'.e \in Items) BY <1>1, CopierTyped
  <2>3. twin' \in [Items -> Twins] BY <1>1, TwinsTyped DEF TaskStep, CopyNext
  <2>4. reply' \in [Notes -> Items \cup Notes \cup {Nobody}]
    <3>1. CASE SaveItem
      BY <3>1 DEF SaveItem, Do
    <3>2. CASE ConnectReply
      BY <3>2, CopyAssumption DEF ConnectReply, Left
    <3> QED BY <1>1, <3>1, <3>2 DEF TaskStep, CreateGroup, CreateMembers, CreateSubgroupMembers, ListItems, ReadItem,
            LoadChild, ConnectParent, ConnectBest, Finished
  <2>5. joined' \subseteq Crowd /\ joinedIn' \subseteq Crowd
    BY <1>1 DEF TaskStep, CreateGroup, CreateMembers, CreateSubgroupMembers, ListItems, ReadItem, SaveItem,
       LoadChild, ConnectParent, ConnectReply, ConnectBest, Finished
  <2>6. mapped' \subseteq Items \cup Notes \cup {Subgroup} /\ tray' \subseteq Files
    BY <1>1 DEF TaskStep, CreateGroup, CreateMembers, CreateSubgroupMembers, ListItems, ReadItem, SaveItem, Do,
       LoadChild, ConnectParent, ConnectReply, ConnectBest, Finished, theFiles
  <2>7. toLink' \subseteq ({"parent"} \X Items) \cup ({"reply"} \X Notes) \cup ({"best"} \X Items)
    <3>1. CASE SaveItem
      BY <3>1 DEF SaveItem, Do, Relations
    <3> QED BY <1>1, <3>1 DEF TaskStep, CreateGroup, CreateMembers, CreateSubgroupMembers, ListItems, ReadItem,
            LoadChild, ConnectParent, ConnectReply, ConnectBest, Finished
  <2> QED BY <2>1, <2>2, <2>3, <2>4, <2>5, <2>6, <2>7 DEF CopierType
<1>2. ASSUME NEW w \in FileWorkers, TakeFile(w) \/ LoadTwin(w) \/ StoreTwin(w) PROVE CopyTyped'
  <2>1. /\ hands' \in [FileWorkers -> HandType]
        /\ \A v \in FileWorkers : hands'[v].do # "nothing" => hands'[v].e \in Files
    BY <1>2, HandsTyped
  <2>2. twin' \in [Items -> Twins] BY <1>2, TwinsTyped DEF CopyNext
  <2>3. tray' \subseteq Files BY <1>2 DEF TakeFile, LoadTwin, StoreTwin
  <2>4. early' \in BOOLEAN BY <1>2 DEF TakeFile, LoadTwin, StoreTwin
  <2>5. UNCHANGED <<folderOf, source, team, inner, changes, copier, reply, joined, joinedIn, mapped, toLink>>
    BY <1>2 DEF TakeFile, LoadTwin, StoreTwin, theSource
  <2> QED BY <2>1, <2>2, <2>3, <2>4, <2>5 DEF HandType
<1>3. CASE DeleteInSource \/ JoinSource \/ SubgroupInSource
  <2>1. UNCHANGED <<folderOf, copier, twin, reply, joined, joinedIn, mapped, toLink, tray, hands, early>>
    BY <1>3 DEF DeleteInSource, JoinSource, SubgroupInSource, Change
  <2>2. changes' \in 0..MaxChanges BY <1>3, CopyAssumption DEF DeleteInSource, JoinSource, SubgroupInSource, Change
  <2>3. source' \subseteq Items \cup Notes \cup {Subgroup} /\ inner' \subseteq team' /\ team' \subseteq Crowd /\ team' # {}
    BY <1>3 DEF DeleteInSource, JoinSource, SubgroupInSource
  <2> QED BY <2>1, <2>2, <2>3
<1>4. CASE UNCHANGED groupcopy BY <1>4 DEF groupcopy
<1> QED BY <1>1, <1>2, <1>3, <1>4 DEF CopyNext, TaskStep

-----------------------------------------------------------------------------
\* Rows and comments only come: what a row refers to stays there.
LEMMA WholeStays ==
  ASSUME NEW T \in [Items -> Twins], NEW T2 \in [Items -> Twins], NEW R, NEW R2,
         \A e \in Items : T[e].there => T2[e].there, \A c \in Notes : R[c] # Nobody => R2[c] # Nobody,
         NEW e \in Items, NEW t \in Twins, Whole(e, t, T, R)
  PROVE  Whole(e, t, T2, R2)
BY DEF Whole, Twins

LEMMA InsideStays ==
  ASSUME CopyTyped, RowsInside, UNCHANGED <<twin, reply, toLink, folderOf>>, tray' \subseteq tray,
         mapped \subseteq mapped', \A x \in Items \cup Notes : x \in mapped' => x \in mapped,
         copier'.do # "connect" \/ copier' = copier,
         \A w \in FileWorkers : /\ hands'[w].do # "nothing" => hands'[w].e \in mapped'
                                /\ hands'[w].do = "store" => Whole(hands'[w].e, hands'[w].copy, twin', reply')
  PROVE  RowsInside'
BY DEF RowsInside

LEMMA SaveInside == ASSUME CopyTyped, RowsInside, SaveItem, CopyTyped' PROVE RowsInside'
<1> USE DEF CopyTyped, CopyTypeOK
<1>1. PICK e \in Items, cs \in SUBSET Notes :
        /\ e = copier.e
        /\ twin' = [twin EXCEPT ![e] = Saved(e)]
        /\ reply' = [c \in Notes |-> IF c \in cs THEN e ELSE reply[c]]
        /\ mapped' = mapped \cup {e} \cup cs
        /\ toLink' = toLink \cup Relations(e, cs)
        /\ tray' = tray \cup ({e} \cap Files)
  BY DEF SaveItem, Do
<1>2. hands' = hands /\ folderOf' = folderOf BY DEF SaveItem, theSource
<1>3. copier'.do \in {"link", "read"} BY DEF SaveItem, CopierType
<1>4. Saved(e) \in Twins /\ Saved(e).there /\ Whole(e, Saved(e), twin', reply') BY SavedTyped DEF Whole
<1>5. twin'[e] = Saved(e) /\ \A f \in Items \ {e} : twin'[f] = twin[f] BY <1>1
<1>6. e # Nobody /\ e \notin Notes BY CopyAssumption DEF Nobody
<1>7. \A f \in Items : twin[f].there => twin'[f].there BY <1>4, <1>5
<1>8. \A c \in Notes : reply[c] # Nobody => reply'[c] # Nobody BY <1>1, <1>6
<1>9. \A f \in Items, t \in Twins : Whole(f, t, twin, reply) => Whole(f, t, twin', reply') BY <1>7, <1>8, WholeStays
<1>10. \A f \in Items : (f \in mapped' <=> twin'[f].there) /\ (twin'[f].there => Whole(f, twin'[f], twin', reply'))
  <2> SUFFICES ASSUME NEW f \in Items
               PROVE  (f \in mapped' <=> twin'[f].there) /\ (twin'[f].there => Whole(f, twin'[f], twin', reply'))
    OBVIOUS
  <2>1. CASE f = e BY <1>1, <1>4, <1>5, <2>1
  <2>2. CASE f # e
    BY <1>1, <2>2, CopyAssumption, <1>5, <1>9 DEF RowsInside
  <2> QED BY <2>1, <2>2
<1>11. \A c \in Notes : (c \in mapped' <=> reply'[c] # Nobody) /\ (reply'[c] \in Notes => reply'[reply'[c]] # Nobody)
  BY <1>1, <1>6, CopyAssumption, <1>8 DEF RowsInside
<1>12. \A r \in toLink' : r[2] \in mapped'
  BY <1>1 DEF Relations, RowsInside
<1>13. \A w \in FileWorkers : /\ hands'[w].do # "nothing" => hands'[w].e \in mapped'
                              /\ hands'[w].do = "store" => Whole(hands'[w].e, hands'[w].copy, twin', reply')
  BY <1>2, CopyAssumption, <1>1, <1>9 DEF RowsInside
<1>14. tray' \subseteq mapped' BY <1>1 DEF RowsInside
<1> QED BY <1>3, <1>10, <1>11, <1>12, <1>13, <1>14 DEF RowsInside

\* The other writes: a row of an item or a comment becomes another whole one.
LEMMA WriteInside ==
  ASSUME CopyTyped, RowsInside, CopyTyped', UNCHANGED <<mapped, folderOf>>, toLink' \subseteq toLink, tray' \subseteq tray,
         copier'.do # "connect" \/ copier' = copier,
         \A e \in Items : twin'[e] = twin[e] \/ (e \in mapped /\ Whole(e, twin'[e], twin, reply)),
         \A c \in Notes : \/ reply'[c] = reply[c]
                          \/ c \in mapped /\ reply'[c] # Nobody /\ (reply'[c] \in Notes => reply[reply'[c]] # Nobody),
         \A w \in FileWorkers : hands'[w] = hands[w] \/ hands'[w].do = "nothing"
  PROVE  RowsInside'
<1> USE DEF CopyTyped, CopyTypeOK
<1>1. \A f \in Items : twin[f].there <=> twin'[f].there BY DEF RowsInside, Whole
<1>2. \A c \in Notes : reply[c] # Nobody <=> reply'[c] # Nobody BY DEF RowsInside
<1>3. \A f \in Items, t \in Twins : Whole(f, t, twin, reply) => Whole(f, t, twin', reply') BY <1>1, <1>2, WholeStays
<1>4. \A e \in Items : (e \in mapped' <=> twin'[e].there) /\ (twin'[e].there => Whole(e, twin'[e], twin', reply'))
  BY <1>1, <1>3 DEF RowsInside
<1>5. \A c \in Notes : (c \in mapped' <=> reply'[c] # Nobody) /\ (reply'[c] \in Notes => reply'[reply'[c]] # Nobody)
  BY <1>2 DEF RowsInside
<1>6. \A w \in FileWorkers : /\ hands'[w].do # "nothing" => hands'[w].e \in mapped'
                             /\ hands'[w].do = "store" => Whole(hands'[w].e, hands'[w].copy, twin', reply')
  BY CopyAssumption, <1>3 DEF RowsInside
<1>7. (\A r \in toLink' : r[2] \in mapped') /\ tray' \subseteq mapped' BY DEF RowsInside
<1>8. copier'.do = "connect" => /\ Whole(copier'.e, copier'.copy, twin', reply')
                                /\ copier'.e \in mapped' /\ folderOf'[copier'.e] \in mapped' \cap Items
  BY <1>3 DEF RowsInside
<1> QED BY <1>4, <1>5, <1>6, <1>7, <1>8 DEF RowsInside

LEMMA InsideStep == CopyTyped /\ RowsInside /\ [CopyNext]_groupcopy => RowsInside'
<1> SUFFICES ASSUME CopyTyped, RowsInside, [CopyNext]_groupcopy PROVE RowsInside' OBVIOUS
<1>0. CopyTyped' BY CopyTypedStep
<1> USE DEF CopyTyped, CopyTypeOK
<1>1. \A w \in FileWorkers : /\ hands[w].do # "nothing" => hands[w].e \in mapped
                             /\ hands[w].do = "store" => Whole(hands[w].e, hands[w].copy, twin, reply)
  BY DEF RowsInside
<1>2. CASE CreateGroup \/ CreateMembers \/ CreateSubgroupMembers \/ ListItems \/ ReadItem \/ Finished
  <2>1. UNCHANGED <<twin, reply, toLink, folderOf, hands, tray>>
    BY <1>2 DEF CreateGroup, CreateMembers, CreateSubgroupMembers, ListItems, ReadItem, Finished, theSource, theFiles
  <2>2. copier \in CopierType BY DEF CopierType
  <2>3. copier'.do # "connect"
    BY <1>2, <2>2 DEF CreateGroup, CreateMembers, CreateSubgroupMembers, ListItems, ReadItem, Finished, Next1, CopierType
  <2>4. mapped \subseteq mapped' /\ \A x \in Items \cup Notes : x \in mapped' => x \in mapped
    BY <1>2, CopyAssumption DEF CreateGroup, CreateMembers, CreateSubgroupMembers, ListItems, ReadItem, Finished
  <2> QED BY <1>1, <2>1, <2>3, <2>4, InsideStays
<1>3. CASE SaveItem BY <1>0, <1>3, SaveInside
<1>4. CASE LoadChild
  <2>1. PICK e \in Items : /\ <<"parent", e>> \in toLink
                      /\ copier' = IF folderOf[e] \notin mapped THEN [copier EXCEPT !.do = "failed"]
                                   ELSE [copier EXCEPT !.do = "connect", !.e = e, !.copy = twin[e]]
    BY <1>4 DEF LoadChild, Left
  <2>2. UNCHANGED <<twin, reply, toLink, folderOf, hands, tray, mapped>> BY <1>4 DEF LoadChild, theSource, theFiles
  <2>3. copier \in CopierType BY DEF CopierType
  <2>4. copier'.do = "connect" => folderOf[e] \in mapped /\ copier'.e = e /\ copier'.copy = twin[e]
    BY <2>1, <2>3 DEF CopierType
  <2>5. e \in mapped BY <2>1 DEF RowsInside
  <2>6. Whole(e, twin[e], twin, reply) BY <2>5 DEF RowsInside
  <2>7. folderOf[e] \in mapped => folderOf[e] \in Items BY CopyAssumption DEF Outside, Subgroup
  <2>8. copier'.do = "connect" => /\ Whole(copier'.e, copier'.copy, twin', reply')
                                  /\ copier'.e \in mapped' /\ folderOf'[copier'.e] \in mapped' \cap Items
    BY <2>2, <2>4, <2>5, <2>6, <2>7
  <2> QED BY <2>2, <2>8 DEF RowsInside
<1>5. CASE ConnectParent
  <2>1. /\ copier.e \in Items /\ copier.e \in mapped /\ folderOf[copier.e] \in mapped \cap Items
        /\ Whole(copier.e, copier.copy, twin, reply) /\ copier.copy \in Twins
    BY <1>5 DEF ConnectParent, Do, RowsInside
  <2>2. Whole(copier.e, Connected(copier.e), twin, reply)
    BY <2>1 DEF RowsInside, Connected, Twins, Whole
  <2>3. \A e \in Items : twin'[e] = twin[e] \/ (e \in mapped /\ Whole(e, twin'[e], twin, reply))
    BY <1>5, <2>1, <2>2 DEF ConnectParent
  <2>4. copier'.do # "connect" BY <1>5 DEF ConnectParent, Next1
  <2> QED BY <1>0, <1>5, <2>3, <2>4, WriteInside DEF ConnectParent, theSource, theFiles
<1>6. CASE ConnectReply
  <2>1. PICK c \in Notes : /\ <<"reply", c>> \in toLink
                           /\ \/ OnOf[c] \in mapped /\ reply' = [reply EXCEPT ![c] = OnOf[c]]
                              \/ reply' = reply
    BY <1>6 DEF ConnectReply, Left
  <2>2. c \in mapped BY <2>1 DEF RowsInside
  <2>3. OnOf[c] # Nobody BY CopyAssumption DEF Nobody
  <2>4. OnOf[c] \in Notes \cap mapped => reply[OnOf[c]] # Nobody BY DEF RowsInside
  <2>5. \A d \in Notes : \/ reply'[d] = reply[d]
                         \/ d \in mapped /\ reply'[d] # Nobody /\ (reply'[d] \in Notes => reply[reply'[d]] # Nobody)
    BY <2>1, <2>2, <2>3, <2>4
  <2>6. copier'.do # "connect" BY <1>6 DEF ConnectReply, Next1, Do
  <2> QED BY <1>0, <1>6, <2>5, <2>6, WriteInside DEF ConnectReply, theSource, theFiles
<1>7. CASE ConnectBest
  <2>1. PICK e \in Items : /\ <<"best", e>> \in toLink
                           /\ \/ BestOf[e] \in mapped /\ twin' = [twin EXCEPT ![e] = [twin[e] EXCEPT !.best = BestOf[e]]]
                              \/ twin' = twin
    BY <1>7 DEF ConnectBest, Left
  <2>2. e \in mapped /\ twin[e] \in Twins BY <2>1 DEF RowsInside
  <2>3. BestOf[e] \in mapped => reply[BestOf[e]] # Nobody
    <3>1. BestOf[e] \in Notes \cup {0} BY CopyAssumption DEF Nobody
    <3>2. 0 \notin mapped BY CopyAssumption DEF Subgroup
    <3> QED BY <3>1, <3>2 DEF RowsInside
  <2>4. BestOf[e] \in mapped => Whole(e, [twin[e] EXCEPT !.best = BestOf[e]], twin, reply)
    <3>1. Whole(e, twin[e], twin, reply) BY <2>2 DEF RowsInside
    <3>2. /\ [twin[e] EXCEPT !.best = BestOf[e]].there = twin[e].there
          /\ [twin[e] EXCEPT !.best = BestOf[e]].parent = twin[e].parent
          /\ [twin[e] EXCEPT !.best = BestOf[e]].best = BestOf[e]
          /\ [twin[e] EXCEPT !.best = BestOf[e]].readers = twin[e].readers
      BY <2>2 DEF Twins
    <3> DEFINE written == [twin[e] EXCEPT !.best = BestOf[e]]
    <3> HIDE DEF written
    <3> QED BY <2>3, <3>1, <3>2 DEF Whole
  <2> DEFINE written == [twin[e] EXCEPT !.best = BestOf[e]]
  <2>5. (BestOf[e] \in mapped /\ twin' = [twin EXCEPT ![e] = written]) \/ twin' = twin BY <2>1
  <2>6. BestOf[e] \in mapped => Whole(e, written, twin, reply) BY <2>4
  <2> HIDE DEF written
  <2>7. \A f \in Items : twin'[f] = twin[f] \/ (f \in mapped /\ Whole(f, twin'[f], twin, reply)) BY <2>2, <2>5, <2>6
  <2>8. copier'.do # "connect" BY <1>7 DEF ConnectBest, Next1, Do
  <2> QED BY <1>0, <1>7, <2>7, <2>8, WriteInside DEF ConnectBest, theSource, theFiles
<1>8. ASSUME NEW w \in FileWorkers, TakeFile(w) \/ LoadTwin(w) PROVE RowsInside'
  <2>1. /\ UNCHANGED <<twin, reply, toLink, folderOf, mapped, copier>> /\ tray' \subseteq tray
        /\ \A v \in FileWorkers \ {w} : hands'[v] = hands[v]
    BY <1>8 DEF TakeFile, LoadTwin, theSource
  <2>2. /\ hands'[w].do # "nothing" => hands'[w].e \in mapped
        /\ hands'[w].do = "store" => Whole(hands'[w].e, hands'[w].copy, twin, reply)
    <3>1. CASE TakeFile(w)
      <4>1. PICK f \in tray : hands' = [hands EXCEPT ![w] = [NotBusy EXCEPT !.do = "load", !.e = f]] \/ hands' = hands
        BY <3>1 DEF TakeFile
      <4>2. [NotBusy EXCEPT !.do = "load", !.e = f].do = "load" /\ [NotBusy EXCEPT !.do = "load", !.e = f].e = f
        BY DEF NotBusy
      <4>3. f \in mapped BY DEF RowsInside
      <4> DEFINE hand == [NotBusy EXCEPT !.do = "load", !.e = f]
      <4>4. hands' = [hands EXCEPT ![w] = hand] \/ hands' = hands BY <4>1
      <4>5. hand.do = "load" /\ hand.e = f BY <4>2
      <4> HIDE DEF hand
      <4> QED BY <1>1, <4>3, <4>4, <4>5
    <3>2. CASE LoadTwin(w)
      <4> DEFINE hand == [hands[w] EXCEPT !.do = "store", !.copy = twin[hands[w].e]]
      <4>1. hands[w] \in HandType /\ hands[w].do = "load" /\ hands[w].e \in Items /\ hands[w].e \in mapped
        BY <3>2, CopyAssumption DEF LoadTwin, RowsInside, HandType
      <4>2. hand.e = hands[w].e /\ hand.copy = twin[hands[w].e] /\ hands' = [hands EXCEPT ![w] = hand]
        BY <3>2, <4>1 DEF LoadTwin, HandType
      <4> HIDE DEF hand
      <4>3. Whole(hands[w].e, twin[hands[w].e], twin, reply) BY <4>1 DEF RowsInside
      <4> QED BY <4>1, <4>2, <4>3
    <3> QED BY <1>8, <3>1, <3>2
  <2>3. \A v \in FileWorkers : /\ hands'[v].do # "nothing" => hands'[v].e \in mapped'
                               /\ hands'[v].do = "store" => Whole(hands'[v].e, hands'[v].copy, twin', reply')
    BY <1>1, <2>1, <2>2
  <2> QED BY <2>1, <2>3, InsideStays
<1>9. ASSUME NEW w \in FileWorkers, StoreTwin(w) PROVE RowsInside'
  <2>1. /\ hands[w].e \in Items /\ hands[w].copy \in Twins /\ hands[w].e \in mapped
        /\ Whole(hands[w].e, hands[w].copy, twin, reply)
    BY <1>9, CopyAssumption DEF StoreTwin, RowsInside
  <2>2. Whole(hands[w].e, Filled(hands[w].copy), twin, reply)
    BY <2>1 DEF Filled, Twins, Whole
  <2>3. \A e \in Items : twin'[e] = twin[e] \/ (e \in mapped /\ Whole(e, twin'[e], twin, reply))
    BY <1>9, <2>1, <2>2 DEF StoreTwin
  <2>4. \A v \in FileWorkers : hands'[v] = hands[v] \/ hands'[v].do = "nothing" BY <1>9, NewTwinTyped DEF StoreTwin
  <2> QED BY <1>0, <1>9, <2>3, <2>4, WriteInside DEF StoreTwin, theSource
<1>10. CASE DeleteInSource \/ JoinSource \/ SubgroupInSource \/ UNCHANGED groupcopy
  <2>1. UNCHANGED <<folderOf, copier, twin, reply, mapped, toLink, tray, hands>>
    BY <1>10 DEF DeleteInSource, JoinSource, SubgroupInSource, Change, groupcopy
  <2> QED BY <1>1, <2>1, InsideStays
<1> QED BY <1>2, <1>3, <1>4, <1>5, <1>6, <1>7, <1>8, <1>9, <1>10 DEF CopyNext

LEMMA InsideInit == CopyInit => RowsInside
BY CopyTypedInit, NewTwinTyped, CopyAssumption DEF CopyInit, Nobody, RowsInside

-----------------------------------------------------------------------------
\* The folders of the source are what they were; files only leave it.
LEMMA SourceShrinks ==
  ASSUME CopyTyped, [CopyNext]_groupcopy
  PROVE  folderOf' = folderOf /\ Files \cap source' \subseteq source
<1>1. Subgroup \notin Files BY CopyAssumption
<1>2. CASE TaskStep BY <1>2, TaskFrame DEF theSource
<1>3. CASE \E w \in FileWorkers : TakeFile(w) \/ LoadTwin(w) \/ StoreTwin(w)
  BY <1>3 DEF TakeFile, LoadTwin, StoreTwin, theSource
<1>4. CASE DeleteInSource \/ JoinSource \/ SubgroupInSource \/ UNCHANGED groupcopy
  BY <1>1, <1>4 DEF DeleteInSource, JoinSource, SubgroupInSource, Change, groupcopy
<1> QED BY <1>2, <1>3, <1>4 DEF CopyNext, TaskStep

\* Files that wait keep waiting when workers keep what they do.
LEMMA PendingStays ==
  ASSUME tray \subseteq tray', hands' = hands, NEW f, Pending(f) PROVE Pending(f)'
BY DEF Pending

\* A step that writes no row of a file and takes none from the tray.
LEMMA KeepsOneFrame ==
  ASSUME CopyTyped, KeepsOne, folderOf' = folderOf, Files \cap source' \subseteq source, tray \subseteq tray', hands' = hands,
         \A f \in Files : \/ twin'[f] = twin[f]
                          \/ f \in tray' \/ twin'[f].parent = folderOf[f]
                          \/ /\ twin'[f].there = twin[f].there /\ twin'[f].full = twin[f].full
                             /\ twin'[f].parent = twin[f].parent
  PROVE  KeepsOne'
BY PendingStays DEF KeepsOne, Pending

LEMMA KeepsOneStep == CopyTyped /\ RowsInside /\ KeepsOne /\ [CopyNext]_groupcopy => KeepsOne'
<1> SUFFICES ASSUME CopyTyped, RowsInside, KeepsOne, [CopyNext]_groupcopy PROVE KeepsOne' OBVIOUS
<1> USE DEF CopyTyped, CopyTypeOK
<1>0. /\ folderOf' = folderOf /\ Files \cap source' \subseteq source
      /\ Files \subseteq Items
  BY SourceShrinks, CopyAssumption
<1>1. CASE TaskStep
  <2>1. tray \subseteq tray' /\ hands' = hands BY <1>1, TaskFrame
  <2>2. \A f \in Files : \/ twin'[f] = twin[f]
                         \/ f \in tray' \/ twin'[f].parent = folderOf[f]
                         \/ /\ twin'[f].there = twin[f].there /\ twin'[f].full = twin[f].full
                            /\ twin'[f].parent = twin[f].parent
    <3>1. CASE SaveItem
      BY <3>1, <1>0 DEF SaveItem, Do
    <3>2. CASE ConnectParent
      BY <3>2, <1>0 DEF ConnectParent, Do, Connected, Twins
    <3>3. CASE ConnectBest
      <4>1. PICK e \in Items : twin' = [twin EXCEPT ![e] = [twin[e] EXCEPT !.best = BestOf[e]]] \/ twin' = twin
        BY <3>3 DEF ConnectBest, Left
      <4> DEFINE written == [twin[e] EXCEPT !.best = BestOf[e]]
      <4>2. written.there = twin[e].there /\ written.full = twin[e].full /\ written.parent = twin[e].parent
        BY DEF Twins
      <4>3. twin' = [twin EXCEPT ![e] = written] \/ twin' = twin BY <4>1
      <4> HIDE DEF written
      <4> QED BY <1>0, <4>2, <4>3
    <3> QED BY <1>1, <3>1, <3>2, <3>3 DEF TaskStep, CreateGroup, CreateMembers, CreateSubgroupMembers, ListItems, ReadItem,
            LoadChild, ConnectReply, Finished
  <2> QED BY <1>0, <2>1, <2>2, KeepsOneFrame
<1>2. ASSUME NEW w \in FileWorkers, TakeFile(w) \/ LoadTwin(w) PROVE KeepsOne'
  <2>1. twin' = twin /\ \A v \in FileWorkers \ {w} : hands'[v] = hands[v] BY <1>2 DEF TakeFile, LoadTwin
  <2>2. \A f \in Files \cap source' : Pending(f) => Pending(f)'
    <3>1. CASE TakeFile(w)
      <4>1. PICK f \in tray : /\ tray' = tray \ {f}
                             /\ hands' = IF f \in source THEN [hands EXCEPT ![w] = [NotBusy EXCEPT !.do = "load", !.e = f]] ELSE hands
        BY <3>1 DEF TakeFile
      <4> DEFINE hand == [NotBusy EXCEPT !.do = "load", !.e = f]
      <4>2. hand.do = "load" /\ hand.e = f BY DEF NotBusy
      <4>3. hands' = IF f \in source THEN [hands EXCEPT ![w] = hand] ELSE hands BY <4>1
      <4> HIDE DEF hand
      <4>4. hands[w].do = "nothing" BY <3>1, NewTwinTyped DEF TakeFile
      <4> SUFFICES ASSUME NEW g \in Files \cap source', Pending(g) PROVE Pending(g)' OBVIOUS
      <4>5. CASE g = f
        BY <1>0, <4>3, <4>5, <4>2 DEF Pending
      <4>6. CASE g # f
        BY <4>1, <4>6, <2>1, <4>4 DEF Pending
      <4> QED BY <4>5, <4>6
    <3>2. CASE LoadTwin(w)
      <4> DEFINE hand == [hands[w] EXCEPT !.do = "store", !.copy = twin[hands[w].e]]
      <4>1. hand.do = "store" /\ hand.e = hands[w].e /\ hands' = [hands EXCEPT ![w] = hand] /\ tray' = tray
        BY <3>2 DEF HandType, LoadTwin
      <4> HIDE DEF hand
      <4>2. hands'[w].do = "store" /\ hands'[w].e = hands[w].e BY <4>1
      <4> QED BY <2>1, <4>1, <4>2 DEF Pending
    <3> QED BY <1>2, <3>1, <3>2
  <2> QED BY <1>0, <2>1, <2>2 DEF KeepsOne
<1>3. ASSUME NEW w \in FileWorkers, StoreTwin(w) PROVE KeepsOne'
  BY <1>0, <1>3 DEF StoreTwin, Filled, Twins, Pending, KeepsOne
<1>4. CASE DeleteInSource \/ JoinSource \/ SubgroupInSource \/ UNCHANGED groupcopy
  <2>1. UNCHANGED <<twin, tray, hands>> BY <1>4 DEF DeleteInSource, JoinSource, SubgroupInSource, Change, groupcopy
  <2> QED BY <1>0, <2>1, KeepsOneFrame
<1> QED BY <1>1, <1>2, <1>3, <1>4 DEF CopyNext, TaskStep

-----------------------------------------------------------------------------
\* What a step makes of what the copying task holds.
LEMMA CopierMoves ==
  ASSUME CopyTyped, TaskStep
  PROVE  /\ copier'.all = copier.all
         /\ ~ListItems => copier'.bests = copier.bests
         /\ ~ListItems /\ ~SaveItem => copier'.left = copier.left
         /\ ListItems => /\ copier.do = "list" /\ copier'.do = "read" /\ copier'.left = Items \cap source
                         /\ copier'.bests = {e \in Items : BestOf[e] \in source}
         /\ CreateGroup => copier.do = "group" /\ copier'.do = "members"
         /\ CreateMembers => copier.do = "members" /\ copier'.do = IF copier.all THEN "inner" ELSE "list"
         /\ CreateSubgroupMembers => copier.do = "inner" /\ copier'.do \in {"list", "failed"}
         /\ SaveItem => /\ copier.do = "save" /\ copier'.left = copier.left \ {copier.e}
                        /\ copier'.do = IF copier.left = {copier.e} THEN "link" ELSE "read"
         /\ ConnectParent => copier.do = "connect" /\ copier'.do = "link"
         /\ ConnectReply \/ ConnectBest => copier.do = "link" /\ (copier' = copier \/ copier'.do = "failed")
         /\ Finished => copier.do = "link" /\ copier'.do = "done"
<1> USE DEF CopyTyped, CopyTypeOK
<1>0. copier \in CopierType BY DEF CopierType
<1>1. CASE CreateGroup \/ CreateMembers \/ CreateSubgroupMembers \/ ConnectParent \/ Finished
  <2>1. PICK do \in CopySteps : copier' = [copier EXCEPT !.do = do]
    BY <1>1 DEF CreateGroup, CreateMembers, CreateSubgroupMembers, ConnectParent, Finished, Next1, CopySteps, CopyEnded
  <2>2. /\ copier'.do = do /\ copier'.left = copier.left /\ copier'.bests = copier.bests /\ copier'.all = copier.all
    BY <1>0, <2>1, NextDo
  <2>3. CASE CreateGroup
    <3>1. copier.do = "group" /\ copier'.do = "members" BY <1>0, <2>3, NextDo DEF CreateGroup, Next1, Do, CopySteps
    <3> QED BY <2>2, <3>1 DEF ListItems, SaveItem, CreateMembers, CreateSubgroupMembers, ConnectParent, ConnectReply,
            ConnectBest, Finished, Do
  <2>4. CASE CreateMembers
    <3>1. copier.do = "members" /\ copier'.do = IF copier.all THEN "inner" ELSE "list"
      BY <1>0, <2>4, NextDo DEF CreateMembers, Next1, Do, CopySteps
    <3> QED BY <2>2, <3>1 DEF ListItems, SaveItem, CreateGroup, CreateSubgroupMembers, ConnectParent, ConnectReply,
            ConnectBest, Finished, Do
  <2>5. CASE CreateSubgroupMembers
    <3>1. copier.do = "inner" /\ copier'.do \in {"list", "failed"}
      BY <1>0, <2>5, NextDo DEF CreateSubgroupMembers, Next1, Do, CopySteps, CopyEnded
    <3> QED BY <2>2, <3>1 DEF ListItems, SaveItem, CreateGroup, CreateMembers, ConnectParent, ConnectReply,
            ConnectBest, Finished, Do
  <2>6. CASE ConnectParent
    <3>1. copier.do = "connect" /\ copier'.do = "link" BY <1>0, <2>6, NextDo DEF ConnectParent, Next1, Do, CopySteps
    <3> QED BY <2>2, <3>1 DEF ListItems, SaveItem, CreateGroup, CreateMembers, CreateSubgroupMembers, ConnectReply,
            ConnectBest, Finished, Do
  <2>7. CASE Finished
    <3>1. copier.do = "link" /\ copier'.do = "done" /\ toLink = {}
      BY <1>0, <2>7, NextDo DEF Finished, Next1, Do, CopySteps, CopyEnded
    <3>2. ~(ConnectReply \/ ConnectBest) BY <3>1 DEF ConnectReply, ConnectBest, Left
    <3> QED BY <2>2, <3>1, <3>2 DEF ListItems, SaveItem, CreateGroup, CreateMembers, CreateSubgroupMembers, ConnectParent, Do
  <2> QED BY <1>1, <2>3, <2>4, <2>5, <2>6, <2>7
<1>2. CASE ListItems
  <2>1. PICK bests : bests = {e \in Items : BestOf[e] \in source} OBVIOUS
  <2>2. copier.do = "list" /\ copier' = [copier EXCEPT !.do = "read", !.left = Items \cap source, !.bests = bests]
    BY <1>2, <2>1 DEF ListItems, Do
  <2>3. /\ copier'.all = copier.all /\ copier'.do = "read" /\ copier'.left = Items \cap source /\ copier'.bests = bests
    BY <1>0, <2>2 DEF CopierType
  <2> QED BY <1>2, <2>1, <2>2, <2>3 DEF SaveItem, CreateGroup, CreateMembers, CreateSubgroupMembers, ConnectParent, ConnectReply,
          ConnectBest, Finished, Do
<1>3. CASE ReadItem
  <2>1. PICK e \in Items, do \in {"save", "failed"} : copier' = [copier EXCEPT !.do = do, !.e = e]
    BY <1>3 DEF ReadItem
  <2>2. copier'.all = copier.all /\ copier'.left = copier.left /\ copier'.bests = copier.bests
    BY <1>0, <2>1 DEF CopierType
  <2>3. copier.do = "read" BY <1>3 DEF ReadItem, Do
  <2> QED BY <2>2, <2>3 DEF ListItems, SaveItem, CreateGroup, CreateMembers, CreateSubgroupMembers, ConnectParent, ConnectReply,
          ConnectBest, Finished, Do
<1>4. CASE SaveItem
  <2>1. /\ copier.do = "save"
        /\ copier' = [copier EXCEPT !.left = @ \ {copier.e}, !.do = IF copier.left = {copier.e} THEN "link" ELSE "read"]
    BY <1>4 DEF SaveItem, Do
  <2>2. /\ copier'.all = copier.all /\ copier'.bests = copier.bests /\ copier'.left = copier.left \ {copier.e}
        /\ copier'.do = IF copier.left = {copier.e} THEN "link" ELSE "read"
    BY <1>0, <2>1 DEF CopierType
  <2> QED BY <1>4, <2>1, <2>2 DEF ListItems, CreateGroup, CreateMembers, CreateSubgroupMembers, ConnectParent, ConnectReply,
          ConnectBest, Finished, Do
<1>5. CASE LoadChild
  <2>1. PICK e : /\ <<"parent", e>> \in toLink
                 /\ \/ copier' = [copier EXCEPT !.do = "failed"]
                    \/ copier' = [copier EXCEPT !.do = "connect", !.e = e, !.copy = twin[e]]
    BY <1>5 DEF LoadChild, Left
  <2>2. copier'.all = copier.all /\ copier'.left = copier.left /\ copier'.bests = copier.bests
    BY <1>0, <2>1 DEF CopierType
  <2>3. copier.do = "link" /\ ~(ConnectReply \/ ConnectBest) /\ ~Finished
    BY <1>5, <2>1 DEF LoadChild, ConnectReply, ConnectBest, Finished, Left, Do
  <2> QED BY <2>2, <2>3 DEF ListItems, SaveItem, CreateGroup, CreateMembers, CreateSubgroupMembers, ConnectParent, Do
<1>6. CASE ConnectReply \/ ConnectBest
  <2>1. copier.do = "link" /\ (copier' = copier \/ copier' = [copier EXCEPT !.do = "failed"])
    BY <1>6 DEF ConnectReply, ConnectBest, Next1, Do
  <2>2. /\ copier' = copier \/ copier'.do = "failed"
        /\ copier'.all = copier.all /\ copier'.left = copier.left /\ copier'.bests = copier.bests
    BY <1>0, <2>1 DEF CopierType
  <2>3. ~Finished BY <1>6 DEF Finished, ConnectReply, ConnectBest, Left
  <2> QED BY <2>1, <2>2, <2>3 DEF ListItems, SaveItem, CreateGroup, CreateMembers, CreateSubgroupMembers, ConnectParent, Do
<1> QED BY <1>1, <1>2, <1>3, <1>4, <1>5, <1>6 DEF TaskStep

LEMMA ReadMoves ==
  ASSUME CopyTyped, ReadItem
  PROVE  /\ copier.do = "read" /\ copier'.e \in copier.left /\ copier'.e \in Items /\ copier'.do \in {"save", "failed"}
         /\ copier'.do = "failed" =>
              folderOf[copier'.e] \in Items \ source \/ (copier'.e \in copier.bests /\ BestOf[copier'.e] \notin source)
<1>1. PICK e \in Items : /\ e \in copier.left
        /\ LET gone == folderOf[e] \in Items \ source \/ (e \in copier.bests /\ BestOf[e] \notin source)
           IN copier' = [copier EXCEPT !.do = IF gone THEN "failed" ELSE "save", !.e = e]
  BY DEF ReadItem, NextItem
<1> DEFINE gone == folderOf[e] \in Items \ source \/ (e \in copier.bests /\ BestOf[e] \notin source)
<1>2. copier' = [copier EXCEPT !.do = IF gone THEN "failed" ELSE "save", !.e = e] BY <1>1
<1>3. copier \in CopierType BY DEF CopyTyped, CopyTypeOK, CopierType
<1>4. copier'.e = e /\ copier'.do = IF gone THEN "failed" ELSE "save" BY <1>2, <1>3 DEF CopierType
<1> QED BY <1>1, <1>4 DEF ReadItem, Do

LEMMA LoadMoves ==
  ASSUME CopyTyped, LoadChild
  PROVE  /\ copier.do = "link" /\ UNCHANGED <<twin, reply, mapped, toLink>>
         /\ \E e \in Items : /\ <<"parent", e>> \in toLink
                             /\ \/ folderOf[e] \notin mapped /\ copier'.do = "failed"
                                \/ copier'.do = "connect" /\ copier'.e = e /\ copier'.copy = twin[e]
BY DEF LoadChild, Left, CopyTyped, CopyTypeOK, CopierType, Do

\* While nothing disturbs the copy, the source stands still and only the tasks
\* move.
FileStep == \E w \in FileWorkers : TakeFile(w) \/ LoadTwin(w) \/ StoreTwin(w)
LEMMA UndisturbedBack ==
  ASSUME CopyTyped, [CopyNext]_groupcopy, Undisturbed'
  PROVE  Undisturbed /\ UNCHANGED theSource /\ (TaskStep \/ FileStep \/ UNCHANGED groupcopy)
<1> USE DEF CopyTyped, CopyTypeOK
<1>1. CASE TaskStep
  BY <1>1, TaskFrame DEF Undisturbed, theSource
<1>2. CASE FileStep
  <2>1. UNCHANGED theSource BY <1>2 DEF FileStep, TakeFile, LoadTwin, StoreTwin
  <2>2. early => early' BY <1>2 DEF FileStep, TakeFile, LoadTwin, StoreTwin
  <2> QED BY <1>2, <2>1, <2>2 DEF Undisturbed, theSource
<1>3. CASE DeleteInSource \/ JoinSource \/ SubgroupInSource
  BY <1>3, CopyAssumption DEF DeleteInSource, JoinSource, SubgroupInSource, Change, Undisturbed
<1>4. CASE UNCHANGED groupcopy BY <1>4 DEF groupcopy, Undisturbed, theSource
<1> QED BY <1>1, <1>2, <1>3, <1>4 DEF CopyNext, TaskStep, FileStep

\* Nothing the task looks for is missing.
LEMMA NothingMissing ==
  ASSUME CopyTyped, RowsInside, Undisturbed, Faithful
  PROVE  /\ Items \subseteq source /\ Notes \subseteq source
         /\ copier.do = "inner" /\ inner # {} => Subgroup \in mapped
         /\ copier.do \in {"link", "connect", "done"} => Items \cup Notes \subseteq mapped
         /\ \A e \in Items : <<"parent", e>> \in toLink => folderOf[e] \in Items
         /\ \A e \in Items : <<"best", e>> \in toLink => BestOf[e] \in Notes
<1> USE DEF CopyTyped, CopyTypeOK
<1>1. SourceKept /\ MembersCopied /\ LoopKept /\ LinksKept BY DEF Faithful
<1>2. \A c \in Notes : RootOf(c) \in Items BY CopyAssumption
<1>3. \A e \in Items : (<<"parent", e>> \in toLink \/ <<"best", e>> \in toLink) => e \in mapped BY DEF RowsInside
<1>4. copier.do \in {"link", "connect", "done"} => Items \cup Notes \subseteq mapped
  BY <1>1, <1>2 DEF LoopKept, Preparing
<1>5. \A e \in Items : <<"parent", e>> \in toLink => folderOf[e] \in Items BY <1>1, <1>3 DEF LinksKept, Undisturbed
<1>6. \A e \in Items : <<"best", e>> \in toLink => BestOf[e] \in Notes BY <1>1, <1>3, CopyAssumption DEF LinksKept
<1> QED BY <1>1, <1>4, <1>5, <1>6 DEF SourceKept, MembersCopied

LEMMA NeverFails ==
  ASSUME CopyTyped, RowsInside, Undisturbed, Faithful, TaskStep
  PROVE  copier'.do # "failed"
<1> USE DEF CopyTyped, CopyTypeOK
<1>0. SourceKept /\ LoopKept BY DEF Faithful
<1>1. CASE CreateSubgroupMembers
  <2>1. ~(inner # {} /\ Subgroup \notin mapped) BY <1>1, NothingMissing DEF CreateSubgroupMembers, Do
  <2>2. copier' = [copier EXCEPT !.do = "list"] BY <1>1, <2>1 DEF CreateSubgroupMembers, Next1
  <2> QED BY <2>2, NextDo DEF CopierType, CopySteps
<1>2. CASE ReadItem
  <2>1. copier.bests = {e \in Items : BestOf[e] \in source} BY <1>0, <1>2 DEF LoopKept, ReadItem, Do, Preparing
  <2>2. Items \subseteq source BY NothingMissing
  <2> QED BY <1>2, <2>1, <2>2, ReadMoves
<1>3. CASE LoadChild BY <1>3, LoadMoves, NothingMissing
<1>4. CASE ConnectReply
  BY <1>4, NothingMissing, CopyAssumption DEF ConnectReply, Left, Do
<1>5. CASE ConnectBest
  BY <1>5, NothingMissing DEF ConnectBest, Left, Do
<1>6. CASE CreateGroup \/ CreateMembers \/ ListItems \/ SaveItem \/ ConnectParent \/ Finished BY <1>6, CopierMoves
<1> QED BY <1>1, <1>2, <1>3, <1>4, <1>5, <1>6 DEF TaskStep

LEMMA MembersStep ==
  ASSUME CopyTyped, RowsInside, Undisturbed, Faithful, TaskStep
  PROVE  MembersCopied'
<1> USE DEF CopyTyped, CopyTypeOK
<1>0. SourceKept /\ MembersCopied /\ copier'.do # "failed" /\ UNCHANGED <<source, team, inner>> /\ copier'.all = copier.all
  BY NeverFails, TaskFrame, CopierMoves DEF Faithful, theSource
<1>1. CASE CreateGroup
  BY <1>1, CopierMoves, <1>0 DEF CreateGroup, MembersCopied
<1>2. CASE CreateMembers
  BY <1>2, CopierMoves, <1>0 DEF CreateMembers, MembersCopied
<1>3. CASE CreateSubgroupMembers
  BY <1>0, <1>3, CopierMoves, NothingMissing DEF CreateSubgroupMembers, MembersCopied
<1>4. CASE ListItems \/ ReadItem \/ SaveItem \/ LoadChild \/ ConnectParent \/ ConnectReply \/ ConnectBest \/ Finished
  <2>1. copier.do \notin {"group", "members", "inner"}
    BY <1>4 DEF ListItems, ReadItem, SaveItem, LoadChild, ConnectParent, ConnectReply, ConnectBest, Finished, Do
  <2>2. mapped \subseteq mapped' /\ joined' = joined /\ joinedIn' = joinedIn
    BY <1>4 DEF ListItems, ReadItem, SaveItem, LoadChild, ConnectParent, ConnectReply, ConnectBest, Finished
  <2> QED BY <1>0, <2>1, <2>2 DEF MembersCopied
<1> QED BY <1>1, <1>2, <1>3, <1>4 DEF TaskStep

LEMMA LoopStep ==
  ASSUME CopyTyped, RowsInside, Undisturbed, Faithful, TaskStep
  PROVE  LoopKept'
<1> USE DEF CopyTyped, CopyTypeOK
<1>0. SourceKept /\ LoopKept /\ copier'.do # "failed" /\ source' = source
  BY NeverFails, TaskFrame DEF Faithful, theSource
<1>1. CASE CreateGroup \/ CreateMembers \/ CreateSubgroupMembers
  <2>1. copier.do \in Preparing /\ copier'.do \in Preparing BY <1>0, <1>1, CopierMoves DEF Preparing
  <2>2. mapped' \cap (Items \cup Notes) = {}
    <3>1. mapped \cap (Items \cup Notes) = {} BY <1>0, <2>1 DEF LoopKept
    <3>2. mapped' \subseteq mapped \cup {Subgroup} BY <1>1 DEF CreateGroup, CreateMembers, CreateSubgroupMembers
    <3>3. Subgroup \notin Items \cup Notes BY CopyAssumption
    <3> QED BY <3>1, <3>2, <3>3
  <2> QED BY <1>0, <2>1, <2>2 DEF LoopKept, Preparing
<1>2. CASE ListItems
  <2>1. /\ copier.do = "list" /\ copier'.do = "read" /\ copier'.left = Items \cap source
        /\ copier'.bests = {e \in Items : BestOf[e] \in source} /\ mapped' = mapped
    BY <1>2, CopierMoves DEF ListItems
  <2>2. copier'.left = Items BY <2>1, NothingMissing
  <2>3. mapped \cap (Items \cup Notes) = {} BY <1>0, <2>1 DEF LoopKept, Preparing
  <2>4. \A c \in Notes : RootOf(c) \in Items BY CopyAssumption
  <2>5. copier'.bests = {e \in Items : BestOf[e] \in source'} BY <1>0, <2>1
  <2>6. /\ \A e \in Items : e \in mapped' <=> e \notin copier'.left
        /\ \A c \in Notes : c \in mapped' <=> RootOf(c) \notin copier'.left
    BY <2>1, <2>2, <2>3, <2>4
  <2> QED BY <1>0, <2>1, <2>5, <2>6 DEF LoopKept, Preparing
<1>3. CASE ReadItem
  <2>1. copier.do = "read" /\ copier'.e \in copier.left /\ copier'.do = "save" BY <1>0, <1>3, ReadMoves
  <2>2. copier'.left = copier.left /\ copier'.bests = copier.bests /\ mapped' = mapped /\ toLink' = toLink
    BY <1>3, <2>1, CopierMoves DEF ReadItem, ListItems, SaveItem, Do
  <2> QED BY <1>0, <2>1, <2>2 DEF LoopKept, Preparing
<1>4. CASE SaveItem
  <2>1. /\ copier.do = "save" /\ copier'.left = copier.left \ {copier.e}
        /\ copier'.do = IF copier.left = {copier.e} THEN "link" ELSE "read"
        /\ copier.e \in Items
    BY <1>4, CopierMoves
  <2>2. copier'.bests = copier.bests BY <1>4, <2>1, CopierMoves DEF ListItems, Do
  <2>3. copier.e \in copier.left BY <1>0, <2>1 DEF LoopKept
  <2> DEFINE cs == {c \in Notes \cap source : RootOf(c) = copier.e}
  <2>4. mapped' = mapped \cup {copier.e} \cup cs BY <1>4 DEF SaveItem
  <2>5. \A e \in Items : e \in mapped' <=> e \notin copier'.left
    BY CopyAssumption, <1>0, <2>1, <2>3, <2>4 DEF LoopKept, Preparing
  <2>6. \A c \in Notes : c \in mapped' <=> RootOf(c) \notin copier'.left
    BY NothingMissing, <2>1, CopyAssumption, <2>4, <1>0 DEF LoopKept, Preparing
  <2>7. copier'.do \in {"link", "read"} /\ (copier'.do = "link" => copier'.left = {}) BY <2>1
  <2> HIDE DEF cs
  <2>8. copier'.bests = {e \in Items : BestOf[e] \in source'} BY <1>0, <2>1, <2>2 DEF LoopKept, Preparing
  <2> QED BY <2>5, <2>6, <2>7, <2>8 DEF LoopKept, Preparing
<1>5. CASE LoadChild \/ ConnectParent \/ ConnectReply \/ ConnectBest \/ Finished
  <2>1. copier.do \in {"link", "connect"} /\ copier'.do \in {"link", "connect", "done"}
    BY <1>0, <1>5, CopierMoves, LoadMoves
  <2>2. copier'.left = copier.left /\ copier'.bests = copier.bests BY <2>1, CopierMoves DEF ListItems, SaveItem, Do
  <2>3. mapped' = mapped BY <1>5 DEF LoadChild, ConnectParent, ConnectReply, ConnectBest, Finished
  <2>4. copier'.do = "done" => toLink' = {}
    BY <1>0, <1>5, <2>1, CopierMoves, LoadMoves DEF Finished
  <2> QED BY <1>0, <2>1, <2>2, <2>3, <2>4 DEF LoopKept, Preparing
<1> QED BY <1>1, <1>2, <1>3, <1>4, <1>5 DEF TaskStep

\* Nobody changes the source or takes a comment along: what has been saved is
\* linked or still to be linked.
LEMMA LinksStep ==
  ASSUME CopyTyped, RowsInside, Undisturbed, Faithful, TaskStep
  PROVE  LinksKept'
<1> USE DEF CopyTyped, CopyTypeOK
<1>0. /\ LoopKept /\ LinksKept /\ copier'.do # "failed" /\ folderOf' = folderOf
      /\ \A e \in Items : e \in mapped => e \notin Notes
  BY NeverFails, TaskFrame, CopyAssumption DEF Faithful, theSource
<1>1. CASE CreateGroup \/ CreateMembers \/ CreateSubgroupMembers \/ ListItems \/ ReadItem \/ Finished
  <2>1. UNCHANGED <<twin, reply, toLink>> /\ \A x \in Items \cup Notes : x \in mapped' => x \in mapped
    BY <1>1, CopyAssumption DEF CreateGroup, CreateMembers, CreateSubgroupMembers, ListItems, ReadItem, Finished
  <2>2. copier'.do # "connect" BY <1>1, CopierMoves, ReadMoves
  <2> QED BY <1>0, <2>1, <2>2 DEF LinksKept
<1>2. CASE SaveItem
  <2>1. PICK e \in Items, cs \in SUBSET Notes :
        /\ e = copier.e /\ cs = {c \in Notes \cap source : RootOf(c) = e}
        /\ twin' = [twin EXCEPT ![e] = Saved(e)]
        /\ reply' = [c \in Notes |-> IF c \in cs THEN e ELSE reply[c]]
        /\ mapped' = mapped \cup {e} \cup cs
        /\ toLink' = toLink \cup Relations(e, cs)
    BY <1>2 DEF SaveItem, Do
  <2>2. copier'.do # "connect" /\ copier.do = "save" BY <1>2, CopierMoves
  <2>3. copier.bests = {f \in Items : BestOf[f] \in source} BY <1>0, <2>2 DEF LoopKept, Preparing
  <2>4. e \notin mapped /\ \A c \in cs : c \notin mapped BY <1>0, <2>1, <2>2 DEF LoopKept, Preparing
  <2>5. e \notin cs /\ e \notin Notes BY <2>1, CopyAssumption
  <2>6. <<"parent", e>> \notin toLink /\ <<"best", e>> \notin toLink /\ \A c \in cs : <<"reply", c>> \notin toLink
    BY <2>4 DEF RowsInside
  <2>7. /\ \A f \in Items : <<"parent", f>> \in Relations(e, cs) <=> f = e /\ folderOf[e] # 0
        /\ \A f \in Items : <<"best", f>> \in Relations(e, cs) <=> f = e /\ e \in copier.bests
        /\ \A c \in Notes : <<"reply", c>> \in Relations(e, cs) <=> c \in cs /\ OnOf[c] \in Notes
    BY DEF Relations
  <2>8. \A f \in Items \cap mapped' :
          /\ IF <<"parent", f>> \in toLink' THEN folderOf'[f] # 0 ELSE twin'[f].parent = folderOf'[f]
          /\ IF <<"best", f>> \in toLink' THEN BestOf[f] # Nobody ELSE twin'[f].best = BestOf[f]
    <3> SUFFICES ASSUME NEW f \in Items, f \in mapped'
                 PROVE  /\ IF <<"parent", f>> \in toLink' THEN folderOf[f] # 0 ELSE twin'[f].parent = folderOf[f]
                        /\ IF <<"best", f>> \in toLink' THEN BestOf[f] # Nobody ELSE twin'[f].best = BestOf[f]
      BY <1>0
    <3>1. CASE f = e
      <4>1. twin'[e] = Saved(e) BY <2>1
      <4>2. twin'[e].parent = 0 /\ twin'[e].best = Nobody BY <4>1, SavedTyped
      <4>3. e \in copier.bests <=> BestOf[e] # Nobody
        <5>1. BestOf[e] \in Notes \cup {Nobody} /\ Notes \subseteq source BY CopyAssumption, NothingMissing
        <5>2. Nobody \notin source
          BY CopyAssumption DEF Nobody, Subgroup
        <5> QED BY <2>3, <5>1, <5>2
      <4> QED BY <2>1, <2>6, <2>7, <3>1, <4>2, <4>3
    <3>2. CASE f # e
      <4>1. f \in mapped
        <5>1. f \notin cs BY CopyAssumption
        <5> QED BY <2>1, <3>2, <5>1
      <4>2. twin'[f] = twin[f] BY <2>1, <3>2
      <4>3. (<<"parent", f>> \in toLink' <=> <<"parent", f>> \in toLink) /\ (<<"best", f>> \in toLink' <=> <<"best", f>> \in toLink)
        BY <2>1, <2>7, <3>2
      <4> QED BY <1>0, <4>1, <4>2, <4>3 DEF LinksKept
    <3> QED BY <3>1, <3>2
  <2>9. \A c \in Notes \cap mapped' : IF <<"reply", c>> \in toLink' THEN OnOf[c] \in Notes ELSE reply'[c] = OnOf[c]
    <3> SUFFICES ASSUME NEW c \in Notes, c \in mapped'
                 PROVE  IF <<"reply", c>> \in toLink' THEN OnOf[c] \in Notes ELSE reply'[c] = OnOf[c]
      OBVIOUS
    <3>1. CASE c \in cs
      BY <2>1, <2>6, <2>7, <3>1, CopyAssumption DEF RootOf
    <3>2. CASE c \notin cs
      BY <2>1, <2>5, <2>7, <3>2, <1>0 DEF LinksKept
    <3> QED BY <3>1, <3>2
  <2> QED BY <2>2, <2>8, <2>9 DEF LinksKept
<1>3. CASE LoadChild
  <2>1. PICK e \in Items : <<"parent", e>> \in toLink /\ (folderOf[e] \in mapped => copier'.e = e /\ copier'.copy = twin[e])
    BY <1>3, LoadMoves
  <2>2. folderOf[e] \in mapped BY <1>3, <2>1, LoadMoves, NothingMissing
  <2>3. UNCHANGED <<twin, reply, mapped, toLink>> BY <1>3, LoadMoves
  <2> QED BY <1>0, <2>1, <2>2, <2>3 DEF LinksKept
<1>4. CASE ConnectParent
  BY <1>4, CopierMoves, <1>0 DEF LinksKept, Connected, Twins, ConnectParent
<1>5. CASE ConnectReply
  <2>1. PICK c \in Notes : /\ <<"reply", c>> \in toLink /\ toLink' = toLink \ {<<"reply", c>>}
                           /\ OnOf[c] \in mapped => reply' = [reply EXCEPT ![c] = OnOf[c]]
    BY <1>5 DEF ConnectReply, Left
  <2>2. copier.do = "link" /\ copier' = copier BY <1>0, <1>5, CopierMoves
  <2>3. reply' = [reply EXCEPT ![c] = OnOf[c]] BY <2>1, <2>2, NothingMissing, CopyAssumption
  <2>4. mapped' = mapped /\ twin' = twin BY <1>5 DEF ConnectReply
  <2>5. /\ \A f \in Items : <<"parent", f>> \in toLink' <=> <<"parent", f>> \in toLink
        /\ \A f \in Items : <<"best", f>> \in toLink' <=> <<"best", f>> \in toLink
        /\ \A d \in Notes : <<"reply", d>> \in toLink' <=> <<"reply", d>> \in toLink /\ d # c
    BY <2>1
  <2> QED BY <1>0, <2>2, <2>3, <2>4, <2>5 DEF LinksKept
<1>6. CASE ConnectBest
  <2>1. PICK e \in Items : /\ <<"best", e>> \in toLink /\ toLink' = toLink \ {<<"best", e>>}
                           /\ BestOf[e] \in mapped => twin' = [twin EXCEPT ![e] = [twin[e] EXCEPT !.best = BestOf[e]]]
    BY <1>6 DEF ConnectBest, Left
  <2>2. copier.do = "link" /\ copier' = copier BY <1>0, <1>6, CopierMoves
  <2> DEFINE written == [twin[e] EXCEPT !.best = BestOf[e]]
  <2>3. twin' = [twin EXCEPT ![e] = written] BY <2>1, <2>2, NothingMissing
  <2>4. written.best = BestOf[e] /\ written.parent = twin[e].parent
    <3>1. twin[e] \in Twins OBVIOUS
    <3> QED BY <3>1 DEF Twins
  <2> HIDE DEF written
  <2>5. mapped' = mapped /\ reply' = reply BY <1>6 DEF ConnectBest
  <2>6. /\ \A f \in Items : <<"parent", f>> \in toLink' <=> <<"parent", f>> \in toLink
        /\ \A f \in Items : <<"best", f>> \in toLink' <=> <<"best", f>> \in toLink /\ f # e
        /\ \A d \in Notes : <<"reply", d>> \in toLink' <=> <<"reply", d>> \in toLink
    BY <2>1
  <2>7. twin'[e].parent = twin[e].parent /\ twin'[e].best = BestOf[e] /\ \A f \in Items \ {e} : twin'[f] = twin[f]
    BY <2>3, <2>4
  <2> QED BY <1>0, <2>2, <2>5, <2>6, <2>7 DEF LinksKept
<1> QED BY <1>1, <1>2, <1>3, <1>4, <1>5, <1>6 DEF TaskStep

LEMMA ContentsStep ==
  ASSUME CopyTyped, RowsInside, Undisturbed, Faithful, TaskStep
  PROVE  ContentsKept'
<1> USE DEF CopyTyped, CopyTypeOK
<1>0. /\ LinksKept /\ ContentsKept /\ hands' = hands /\ tray \subseteq tray' /\ Files \subseteq Items
      /\ \A f \in Items : Pending(f) => Pending(f)'
  BY TaskFrame, PendingStays, CopyAssumption DEF Faithful
<1>1. copier.do # "done"
  BY DEF TaskStep, CreateGroup, CreateMembers, CreateSubgroupMembers, ListItems, ReadItem, SaveItem, LoadChild, ConnectParent,
     ConnectReply, ConnectBest, Finished, Do
<1>2. \A w \in FileWorkers : hands'[w].do # "store" BY <1>0, <1>1 DEF ContentsKept
<1>3. \A e \in Items \cap mapped' : \/ e \in mapped /\ twin'[e].full = twin[e].full
                                    \/ twin'[e].full = FALSE /\ (e \in Files => e \in tray')
  <2>1. CASE SaveItem
    <3> DEFINE cs == {c \in Notes \cap source : RootOf(c) = copier.e}
    <3>1. /\ copier.e \in Items /\ cs \subseteq Notes
          /\ twin' = [twin EXCEPT ![copier.e] = Saved(copier.e)]
          /\ mapped' = mapped \cup {copier.e} \cup cs
          /\ tray' = tray \cup ({copier.e} \cap Files)
      BY <2>1 DEF SaveItem, Do
    <3> HIDE DEF cs
    <3>2. Saved(copier.e).full = FALSE BY <3>1, SavedTyped
    <3>3. \A f \in Items : f \notin cs BY <3>1, CopyAssumption
    <3> QED BY <3>1, <3>2, <3>3
  <2>2. CASE ConnectParent
    BY <2>2, CopierMoves, <1>0 DEF LinksKept, Connected, Twins, ConnectParent
  <2>3. CASE ConnectBest
    <3>1. PICK e \in Items : twin' = [twin EXCEPT ![e] = [twin[e] EXCEPT !.best = BestOf[e]]] \/ twin' = twin
      BY <2>3 DEF ConnectBest, Left
    <3> DEFINE written == [twin[e] EXCEPT !.best = BestOf[e]]
    <3>2. written.full = twin[e].full
      BY DEF Twins
    <3>3. twin' = [twin EXCEPT ![e] = written] \/ twin' = twin BY <3>1
    <3> HIDE DEF written
    <3>4. mapped' = mapped BY <2>3 DEF ConnectBest
    <3> QED BY <3>2, <3>3, <3>4
  <2>4. CASE CreateGroup \/ CreateMembers \/ CreateSubgroupMembers \/ ListItems \/ ReadItem \/ LoadChild \/ ConnectReply \/ Finished
    <3>1. twin' = twin /\ \A e \in Items : e \in mapped' => e \in mapped
      BY <2>4, CopyAssumption DEF CreateGroup, CreateMembers, CreateSubgroupMembers, ListItems, ReadItem, LoadChild, ConnectReply,
         Finished
    <3> QED BY <3>1
  <2> QED BY <2>1, <2>2, <2>3, <2>4 DEF TaskStep
<1>4. \A e \in Items \cap mapped' : /\ twin'[e].full => e \in Files
                                    /\ e \in Files => twin'[e].full \/ Pending(e)'
  BY <1>0, <1>3 DEF ContentsKept, Pending
<1> QED BY <1>2, <1>4 DEF ContentsKept

\* The workers, when nothing disturbs: they store a file when all is linked.
LEMMA FileStepFaithful ==
  ASSUME CopyTyped, RowsInside, Undisturbed, Undisturbed', Faithful, FileStep
  PROVE  LinksKept' /\ ContentsKept'
<1> USE DEF CopyTyped, CopyTypeOK
<1>0. /\ SourceKept /\ LoopKept /\ LinksKept /\ ContentsKept /\ Files \subseteq Items
      /\ UNCHANGED <<folderOf, source, mapped, toLink, reply, copier>>
  BY CopyAssumption DEF Faithful, FileStep, TakeFile, LoadTwin, StoreTwin, theSource
<1>1. PICK w \in FileWorkers : TakeFile(w) \/ LoadTwin(w) \/ StoreTwin(w) BY DEF FileStep
<1>2. /\ \A v \in FileWorkers \ {w} : hands'[v] = hands[v]
      /\ hands \in [FileWorkers -> HandType]
  BY <1>1, HandsTyped DEF HandType
<1>3. CASE TakeFile(w)
  <2>1. PICK f \in tray : /\ tray' = tray \ {f}
                          /\ hands' = IF f \in source THEN [hands EXCEPT ![w] = [NotBusy EXCEPT !.do = "load", !.e = f]] ELSE hands
    BY <1>3 DEF TakeFile
  <2> DEFINE hand == [NotBusy EXCEPT !.do = "load", !.e = f]
  <2>2. hand.do = "load" /\ hand.e = f BY DEF NotBusy
  <2>3. hands' = [hands EXCEPT ![w] = hand]
    <3>1. f \in source BY <1>0, NothingMissing
    <3> QED BY <2>1, <3>1
  <2> HIDE DEF hand
  <2>4. hands[w].do = "nothing" /\ hands'[w] = hand /\ twin' = twin BY <1>3, <2>3, NewTwinTyped DEF TakeFile
  <2>5. \A g \in Items : Pending(g) => Pending(g)'
    BY <2>2, <2>4, <2>1, <1>2 DEF Pending
  <2>6. \A v \in FileWorkers : hands'[v].do = "store" => hands'[v] = hands[v] BY <1>2, <2>2, <2>4
  <2>7. LinksKept' BY <1>0, <2>4 DEF LinksKept
  <2>8. ContentsKept' BY <1>0, <2>4, <2>5, <2>6 DEF ContentsKept
  <2> QED BY <2>7, <2>8
<1>4. CASE LoadTwin(w)
  <2> DEFINE hand == [hands[w] EXCEPT !.do = "store", !.copy = twin[hands[w].e]]
  <2>1. /\ hands[w].do = "load" /\ hands[w].e \in Items /\ hands[w].e \in mapped
        /\ copier.do \in CopyEnded /\ tray' = tray /\ twin' = twin
    BY <1>0, <1>4 DEF LoadTwin, Undisturbed, RowsInside
  <2>2. hand.do = "store" /\ hand.e = hands[w].e /\ hand.copy = twin[hands[w].e] /\ hands' = [hands EXCEPT ![w] = hand]
    BY <1>2, <1>4 DEF LoadTwin, HandType
  <2> HIDE DEF hand
  <2>3. copier.do = "done" /\ toLink = {} BY <1>0, <2>1 DEF LoopKept, CopyEnded
  <2>4. twin[hands[w].e].parent = folderOf[hands[w].e] /\ twin[hands[w].e].best = BestOf[hands[w].e]
    BY <1>0, <2>1, <2>3 DEF LinksKept
  <2>5. hands'[w] = hand BY <2>2
  <2>6. \A g \in Items : Pending(g) => Pending(g)' BY <1>2, <2>1, <2>2, <2>5 DEF Pending
  <2>7. LinksKept' BY <1>0, <2>1 DEF LinksKept
  <2>8. \A v \in FileWorkers : hands'[v].do = "store" =>
          /\ copier.do = "done"
          /\ hands'[v].copy.parent = folderOf[hands'[v].e] /\ hands'[v].copy.best = BestOf[hands'[v].e]
    BY <1>0, <1>2, <2>2, <2>3, <2>4, <2>5 DEF ContentsKept
  <2>9. ContentsKept' BY <1>0, <2>1, <2>6, <2>8 DEF ContentsKept
  <2> QED BY <2>7, <2>9
<1>5. CASE StoreTwin(w)
  <2>1. PICK f \in Files : f = hands[w].e BY <1>5 DEF StoreTwin
  <2>2. /\ hands[w].do = "store" /\ hands[w].copy \in Twins /\ f \in Items
        /\ twin' = [twin EXCEPT ![f] = Filled(hands[w].copy)] /\ hands' = [hands EXCEPT ![w] = NotBusy] /\ tray' = tray
    BY <1>0, <1>5, <2>1 DEF StoreTwin
  <2>3. /\ copier.do = "done" /\ hands[w].copy.parent = folderOf[f] /\ hands[w].copy.best = BestOf[f]
    BY <1>0, <2>1, <2>2 DEF ContentsKept
  <2>4. toLink = {} BY <1>0, <2>3 DEF LoopKept
  <2>5. Filled(hands[w].copy).parent = folderOf[f] /\ Filled(hands[w].copy).best = BestOf[f] /\ Filled(hands[w].copy).full = TRUE
    BY <2>2, <2>3 DEF Filled, Twins
  <2>6. /\ twin'[f].parent = folderOf[f] /\ twin'[f].best = BestOf[f] /\ twin'[f].full = TRUE
        /\ \A e \in Items \ {f} : twin'[e] = twin[e]
    BY <2>2, <2>5
  <2>7. hands'[w].do = "nothing" BY <2>2, NewTwinTyped
  <2>8. \A e \in Items : e # f /\ Pending(e) => Pending(e)' BY <1>2, <2>1, <2>2 DEF Pending
  <2>9. LinksKept' BY <1>0, <2>3, <2>4, <2>6 DEF LinksKept
  <2>10. ContentsKept' BY <1>0, <1>2, <2>6, <2>7, <2>8 DEF ContentsKept
  <2> QED BY <2>9, <2>10
<1> QED BY <1>1, <1>3, <1>4, <1>5

LEMMA FaithfulStep == CopyTyped /\ RowsInside /\ Faithful /\ [CopyNext]_groupcopy => Faithful'
<1> SUFFICES ASSUME CopyTyped, RowsInside, Faithful, [CopyNext]_groupcopy, Undisturbed'
             PROVE  SourceKept' /\ MembersCopied' /\ LoopKept' /\ LinksKept' /\ ContentsKept'
  BY DEF Faithful
<1>1. Undisturbed /\ UNCHANGED theSource /\ (TaskStep \/ FileStep \/ UNCHANGED groupcopy) BY UndisturbedBack
<1>2. SourceKept /\ MembersCopied /\ LoopKept /\ LinksKept /\ ContentsKept BY <1>1 DEF Faithful
<1>3. SourceKept' BY <1>1, <1>2 DEF SourceKept, theSource
<1>4. CASE TaskStep BY <1>1, <1>3, <1>4, MembersStep, LoopStep, LinksStep, ContentsStep
<1>5. CASE FileStep
  <2>1. UNCHANGED <<source, team, inner, mapped, joined, joinedIn, copier, toLink>>
    BY <1>5 DEF FileStep, TakeFile, LoadTwin, StoreTwin, theSource
  <2>2. MembersCopied' /\ LoopKept' BY <1>2, <2>1 DEF MembersCopied, LoopKept
  <2> QED BY <1>1, <1>3, <1>5, <2>2, FileStepFaithful
<1>6. CASE UNCHANGED groupcopy
  BY <1>2, <1>6 DEF groupcopy, SourceKept, MembersCopied, LoopKept, LinksKept, ContentsKept, Pending
<1> QED BY <1>1, <1>4, <1>5, <1>6

LEMMA CopyInvInit == CopyInit => CopyInv
<1> SUFFICES ASSUME CopyInit PROVE CopyInv OBVIOUS
<1>1. CopyTyped /\ RowsInside BY CopyTypedInit, InsideInit
<1>2. /\ \A e \in Items : twin[e].there = FALSE
      /\ \A w \in FileWorkers : hands[w].do = "nothing"
      /\ mapped = {} /\ toLink = {}
  BY NewTwinTyped DEF CopyInit
<1>3. copier.do = "group" BY DEF CopyInit
<1>4. KeepsOne BY <1>2, CopyAssumption DEF KeepsOne
<1>5. SourceKept BY DEF CopyInit, SourceKept
<1>6. MembersCopied /\ LoopKept /\ LinksKept /\ ContentsKept
  BY <1>2, <1>3 DEF MembersCopied, LoopKept, Preparing, LinksKept, ContentsKept
<1> QED BY <1>1, <1>4, <1>5, <1>6 DEF CopyInv, Faithful

LEMMA CopyInvStep == CopyInv /\ [CopyNext]_groupcopy => CopyInv'
BY CopyTypedStep, InsideStep, KeepsOneStep, FaithfulStep DEF CopyInv

LEMMA CopyInvSound == CopyInv => CopySound
<1> SUFFICES ASSUME CopyInv PROVE CopySound OBVIOUS
<1> USE DEF CopyTyped
<1>0. CopyTyped /\ RowsInside /\ KeepsOne /\ Faithful /\ Files \subseteq Items BY CopyAssumption DEF CopyInv
<1>1. CopyTypeOK BY <1>0
<1>2. CopyStaysInside BY <1>0 DEF CopyStaysInside, RowsInside, Whole
<1>3. CopyOver => \A f \in Files : ~Pending(f) BY NewTwinTyped DEF CopyOver, Pending
<1>4. FileKeepsOne BY <1>0, <1>3 DEF FileKeepsOne, KeepsOne
<1>5. CopyComplete
  <2> SUFFICES ASSUME CopyOver, Undisturbed
               PROVE  /\ copier.do = "done"
                      /\ copier.all => joined = team /\ joinedIn = inner
                      /\ \A e \in Items : /\ twin[e].there /\ twin[e].parent = folderOf[e] /\ twin[e].best = BestOf[e]
                                          /\ twin[e].full <=> e \in Files
                      /\ \A c \in Notes : reply[c] = OnOf[c]
    BY DEF CopyComplete, Undisturbed
  <2>1. MembersCopied /\ LoopKept /\ LinksKept /\ ContentsKept BY <1>0 DEF Faithful
  <2>2. copier.do = "done" /\ toLink = {} BY <2>1 DEF CopyOver, LoopKept, CopyEnded
  <2>3. Items \cup Notes \subseteq mapped BY <1>0, <2>2, NothingMissing
  <2>4. \A e \in Items : twin[e].there BY <1>0, <2>3 DEF RowsInside
  <2>5. \A e \in Items : twin[e].parent = folderOf[e] /\ twin[e].best = BestOf[e] BY <2>1, <2>2, <2>3 DEF LinksKept
  <2>6. \A e \in Items : twin[e].full <=> e \in Files BY <1>3, <2>1, <2>3 DEF ContentsKept
  <2>7. \A c \in Notes : reply[c] = OnOf[c] BY <2>1, <2>2, <2>3 DEF LinksKept
  <2>8. copier.all => joined = team /\ joinedIn = inner BY <2>1, <2>2 DEF MembersCopied
  <2> QED BY <2>2, <2>4, <2>5, <2>6, <2>7, <2>8
<1> QED BY <1>1, <1>2, <1>4, <1>5 DEF CopySound

\* A copy of a group is whole, and nothing in it points or opens to the outside
\* (control/utils/group_copy.py), however many workers fill the files, whatever
\* changes in the source meanwhile.
THEOREM CopyHolds == CopySpec => []CopySound
<1>1. CopyInit => CopyInv BY CopyInvInit
<1>2. CopyInv /\ [CopyNext]_groupcopy => CopyInv' BY CopyInvStep
<1>3. CopyInv => CopySound BY CopyInvSound
<1> QED BY <1>1, <1>2, <1>3, PTL DEF CopySpec
=============================================================================
