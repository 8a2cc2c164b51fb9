--------------------------- MODULE GroupMembership ---------------------------
(***************************************************************************)
(* Membership of one group: core/models/group.py (Group, GroupMembership,  *)
(* GroupInvitation, Subgroup), the resolvers that change them, and the     *)
(* deletion of an account in user/models.py.                               *)
(*                                                                         *)
(* As in EventAttendance a worker executes one database statement at a     *)
(* time, nothing locks, and a row or group in memory is a copy that save() *)
(* writes back in full.  update_or_create is the exception: Django runs it *)
(* in a transaction that locks the row.                                    *)
(***************************************************************************)
EXTENDS Integers, FiniteSets

CONSTANTS
  Users,        \* the accounts of the site
  SiteAdmins,   \* the accounts with the administrator role
  Subgroups,    \* the subgroups the group can have
  Workers,      \* the processes that serve requests
  Kinds,        \* the kinds of request that occur
  Roles,        \* the roles changeGroupRole is asked for
  Changes,      \* the changes editGroup is asked for
  StartRoles,   \* the roles people other than the owner may have at first
  MaxRequests   \* bound: number of requests served in a behaviour

OwnKinds   == {"join", "leave", "redeem", "notify"}
WriteKinds == {"role", "accept", "reject", "remove", "add", "invite", "uninvite",
               "resend", "edit", "subadd", "subedit", "subdel"}
AllKinds   == OwnKinds \cup WriteKinds \cup {"erase"}

Full  == {"member", "admin", "owner"}
Types == Full \cup {"pending"}

ASSUME ParamAssumption ==
  /\ Users # {}
  /\ SiteAdmins \subseteq Users
  /\ Workers # {}
  /\ Kinds \subseteq AllKinds
  /\ Roles \subseteq {"owner", "admin", "member", "removed"}
  /\ Changes \subseteq {"open", "closed", "auto", "manual"}
  /\ StartRoles \subseteq {"none", "pending", "member", "admin"}
  /\ MaxRequests \in Nat

VARIABLES
  rows,    \* rows[u]: the GroupMembership row of u, NoRow when there is none
  group,   \* the stored group: its owner, whether it is open, auto membership
  inv,     \* inv[u]: primary key of the invitation of u, 0 when there is none
  live,    \* the subgroups that exist
  subs,    \* subs[s]: the members of subgroup s
  active,  \* the accounts that are not deleted
  now,     \* the source of primary keys
  left,    \* requests that may still arrive
  pc,      \* pc[w]: the statement worker w executes next
  job,     \* job[w]: the request w serves
  row,     \* row[w]: the copy of a membership row w has in memory
  grp,     \* grp[w]: the copy of the group w has in memory
  todo,    \* todo[w]: people the loop of w has still to visit
  keep,    \* keep[w]: people w collected for, or drops from, the subgroup
  visit    \* visit[w]: subgroups a leaving member is still to be taken from

db    == <<rows, group, inv, live, subs, active, now, left>>
local == <<job, row, grp, todo, keep, visit>>
vars  == <<rows, group, inv, live, subs, active, now, left,
           pc, job, row, grp, todo, keep, visit>>

Row   == [id : Nat, type : Types \cup {"none"}]
NoRow == [id |-> 0, type |-> "none"]
Group == [owner : Users, open : BOOLEAN, auto : BOOLEAN]

Labels == {"idle", "may", "full", "policy", "upsert", "member", "subs", "unsub",
           "each", "fetch", "save", "delete", "group", "invitation", "drop",
           "subsave", "diff", "apply", "wipe", "wipesubs", "close"}

\* "demote" is the second half of a "role" request that transfers the group.
Job == [kind : AllKinds \cup {"none", "demote"}, by : Users, who : Users,
        want : Roles \cup Changes \cup {"none", "pending", "member", "admin"},
        sub : Subgroups \cup {"none"}, code : Nat]

(***************************************************************************)
(* What the queries return.                                                *)
(***************************************************************************)

FullMember(u) == rows[u].type \in Full

\* Group.can_write: the owner is read from the copy of the group.
CanWrite(w, u) ==
  \/ u \in SiteAdmins
  \/ u = grp[w].owner
  \/ rows[u].type \in {"admin", "owner"}

\* The copy can be saved: its row is still there, or no row is.
Saves(u, r) == rows[u].id \in {r.id, 0}

-----------------------------------------------------------------------------
AnyUser  == CHOOSE u \in Users : TRUE
NoJob    == [kind |-> "none", by |-> AnyUser, who |-> AnyUser,
             want |-> "none", sub |-> "none", code |-> 0]
AnyGroup == [owner |-> AnyUser, open |-> FALSE, auto |-> FALSE]

\* A group as earlier requests leave it: the owner was added as "owner", and
\* subgroups were made of members.
Init ==
  /\ group \in [owner : Users, open : BOOLEAN, auto : {FALSE}]
  /\ \E start \in [Users -> StartRoles] :
       rows = [u \in Users |->
                 IF u = group.owner THEN [id |-> 1, type |-> "owner"]
                 ELSE IF start[u] = "none" THEN NoRow
                 ELSE [id |-> 1, type |-> start[u]]]
  /\ inv    = [u \in Users |-> 0]
  /\ live \in SUBSET Subgroups
  /\ subs \in [Subgroups -> SUBSET {u \in Users : FullMember(u)}]
  /\ \A s \in Subgroups \ live : subs[s] = {}
  /\ active = Users
  /\ now    = 1
  /\ left   = MaxRequests
  /\ pc     = [w \in Workers |-> "idle"]
  /\ job    = [w \in Workers |-> NoJob]
  /\ row    = [w \in Workers |-> NoRow]
  /\ grp    = [w \in Workers |-> AnyGroup]
  /\ todo   = [w \in Workers |-> {}]
  /\ keep   = [w \in Workers |-> {}]
  /\ visit  = [w \in Workers |-> {}]

Goto(w, label) == pc' = [pc EXCEPT ![w] = label]

\* The request is answered, with a result or with an error.
Finish(w) ==
  /\ Goto(w, "idle")
  /\ job'   = [job   EXCEPT ![w] = NoJob]
  /\ row'   = [row   EXCEPT ![w] = NoRow]
  /\ grp'   = [grp   EXCEPT ![w] = AnyGroup]
  /\ todo'  = [todo  EXCEPT ![w] = {}]
  /\ keep'  = [keep  EXCEPT ![w] = {}]
  /\ visit' = [visit EXCEPT ![w] = {}]

\* Once the row of one person is done: the next one, or the end.
Continue(w) ==
  IF job[w].kind \in {"remove", "add", "edit"}
    THEN Goto(w, "each") /\ UNCHANGED local
    ELSE Finish(w)

(***************************************************************************)
(* A request arrives: the resolver loads the group.                        *)
(***************************************************************************)

Start(w, j, people, label) ==
  /\ pc[w] = "idle"
  /\ left > 0
  /\ left' = left - 1
  /\ job'  = [job EXCEPT ![w] = j]
  /\ grp'  = [grp EXCEPT ![w] = group]
  /\ todo' = [todo EXCEPT ![w] = people]
  /\ Goto(w, label)
  /\ UNCHANGED <<rows, group, inv, live, subs, active, now, row, keep, visit>>

\* Requests about the person who sends them.  A group that may not be left
\* (is_leaving_group_disabled) is an instance without "leave".
OwnRequest(w) ==
  \E k \in Kinds \cap OwnKinds, a \in active :
    /\ k = "redeem" => inv[a] # 0
    /\ Start(w, [NoJob EXCEPT !.kind = k, !.by = a, !.who = a,
                              !.want = "member",
                              !.code = IF k = "redeem" THEN inv[a] ELSE 0],
             {},
             CASE k = "join"   -> "full"
               [] k = "redeem" -> "full"
               [] k = "leave"  -> "member"
               [] k = "notify" -> "fetch")

\* Requests about one other person.
OtherRequest(w) ==
  \E k \in Kinds \cap {"role", "accept", "reject", "invite", "uninvite", "resend"},
     a \in active, u \in Users :
    \E r \in IF k = "role" THEN Roles ELSE {"member"} :
      /\ k \in {"uninvite", "resend"} => inv[u] # 0
      /\ Start(w, [NoJob EXCEPT !.kind = k, !.by = a, !.who = u, !.want = r,
                                !.code = IF k \in {"uninvite", "resend"} THEN inv[u] ELSE 0],
               {}, "may")

\* removeGroupMembers, and inviteToGroup with directAdd by an administrator.
ManyRequest(w) ==
  \E k \in Kinds \cap {"remove", "add"}, a \in active, people \in SUBSET Users :
    /\ k = "add" => a \in SiteAdmins
    /\ Start(w, [NoJob EXCEPT !.kind = k, !.by = a, !.want = "member"],
             people, "may")

\* editGroup; only an administrator can switch auto membership.
EditRequest(w) ==
  /\ "edit" \in Kinds
  /\ \E a \in active, c \in Changes :
       /\ c \in {"auto", "manual"} => a \in SiteAdmins
       /\ Start(w, [NoJob EXCEPT !.kind = "edit", !.by = a, !.want = c], {}, "may")

\* A new subgroup gets a primary key that nobody uses or holds a copy of.
SubgroupRequest(w) ==
  \E k \in Kinds \cap {"subadd", "subedit", "subdel"}, a \in active,
     s \in Subgroups, people \in SUBSET Users :
    /\ IF k = "subadd" THEN s \notin live /\ \A v \in Workers : job[v].sub # s
                       ELSE s \in live
    /\ k = "subdel" => people = {}
    /\ Start(w, [NoJob EXCEPT !.kind = k, !.by = a, !.sub = s], people, "may")

\* deleteUser by an administrator: User.delete.
EraseRequest(w) ==
  /\ "erase" \in Kinds
  /\ SiteAdmins \cap active # {}
  /\ \E u \in active : Start(w, [NoJob EXCEPT !.kind = "erase", !.who = u], {}, "wipe")

(***************************************************************************)
(* Checks before anything is written.                                      *)
(***************************************************************************)

Forbidden(w) ==
  /\ pc[w] = "may"
  /\ ~CanWrite(w, job[w].by)
  /\ Finish(w)
  /\ UNCHANGED db

\* Switching auto membership on visits every active account first.
Allowed(w) ==
  LET j == job[w]
      auto == j.kind = "edit" /\ j.want = "auto" /\ ~grp[w].auto
  IN  /\ pc[w] = "may"
      /\ CanWrite(w, j.by)
      /\ Goto(w, CASE j.kind = "role"   -> "member"
                   [] j.kind = "accept" -> "full"
                   [] j.kind = "reject" -> "fetch"
                   [] j.kind \in {"invite", "uninvite", "resend"} -> "invitation"
                   [] j.kind = "subdel" -> "drop"
                   [] j.kind = "edit" /\ ~auto -> "group"
                   [] OTHER -> "each")
      /\ todo' = IF auto THEN [todo EXCEPT ![w] = active] ELSE todo
      /\ UNCHANGED <<db, job, row, grp, keep, visit>>

\* ALREADY_MEMBER_OF_GROUP, or a request of this person was accepted before.
AlreadyIn(w) ==
  /\ pc[w] = "full"
  /\ FullMember(job[w].who)
  /\ IF job[w].kind = "redeem"
       THEN Goto(w, "invitation") /\ UNCHANGED local
       ELSE Finish(w)
  /\ UNCHANGED db

\* Mutant of NotYetIn: everybody may ask, those who are in as well.
AnybodyAsks(w) ==
  /\ pc[w] = "full"
  /\ Goto(w, IF job[w].kind = "join" THEN "policy" ELSE "upsert")
  /\ UNCHANGED <<db, local>>

NotYetIn(w) ==
  /\ pc[w] = "full"
  /\ ~FullMember(job[w].who)
  /\ Goto(w, IF job[w].kind = "join" THEN "policy" ELSE "upsert")
  /\ UNCHANGED <<db, local>>

\* An open group, or one the person can administrate, admits at once.
Policy(w) ==
  LET admitted == grp[w].open \/ CanWrite(w, job[w].who)
  IN  /\ pc[w] = "policy"
      /\ job' = [job EXCEPT ![w].want = IF admitted THEN "member" ELSE "pending"]
      /\ Goto(w, "upsert")
      /\ UNCHANGED <<db, row, grp, todo, keep, visit>>

\* USER_NOT_MEMBER_OF_GROUP, or the query finds any membership, pending too.
IsMember(w) ==
  /\ pc[w] = "member"
  /\ IF rows[job[w].who] = NoRow THEN Finish(w)
     ELSE /\ Goto(w, IF job[w].kind = "leave" THEN "subs" ELSE "fetch")
          /\ UNCHANGED local
  /\ UNCHANGED db

(***************************************************************************)
(* Writes to the membership rows.                                          *)
(***************************************************************************)

Granted(j) == IF j.want = "pending" THEN "pending" ELSE "member"

\* Group.join: update_or_create keeps the primary key of an existing row.
Upsert(w) ==
  LET u == job[w].who
      id == IF rows[u] = NoRow THEN now + 1 ELSE rows[u].id
  IN  /\ pc[w] = "upsert"
      /\ rows' = [rows EXCEPT ![u] = [id |-> id, type |-> Granted(job[w])]]
      /\ now' = IF rows[u] = NoRow THEN now + 1 ELSE now
      /\ IF job[w].kind = "redeem"
           THEN Goto(w, "invitation") /\ UNCHANGED local
           ELSE Continue(w)
      /\ UNCHANGED <<group, inv, live, subs, active, left>>


\* The row is read to be deleted, not to be changed.
Deletes(j) == j.kind \in {"leave", "reject", "remove"} \/ j.want = "removed"

\* objects.get(group, user): the worker has a copy, changed as it will be saved.
Fetch(w) ==
  LET j == job[w]
      r == rows[j.who]
      changed == IF j.kind \in {"role", "demote"} /\ ~Deletes(j)
                 THEN [r EXCEPT !.type = j.want] ELSE r
  IN  /\ pc[w] = "fetch"
      /\ IF r = NoRow
           THEN Continue(w)
           ELSE /\ row' = [row EXCEPT ![w] = changed]
                /\ Goto(w, IF Deletes(j) THEN "delete" ELSE "save")
                /\ UNCHANGED <<job, grp, todo, keep, visit>>
      /\ UNCHANGED db

SaveRow(w) ==
  LET j == job[w]
  IN  /\ pc[w] = "save"
      /\ Saves(j.who, row[w])
      /\ rows' = [rows EXCEPT ![j.who] = row[w]]
      /\ IF j.kind = "role" /\ j.want = "owner"
           THEN Goto(w, "group") /\ UNCHANGED local
           ELSE Finish(w)
      /\ UNCHANGED <<group, inv, live, subs, active, now, left>>

\* The row was deleted meanwhile and the person has another one: the insert
\* breaks the unique constraint on user and group.
SaveConflict(w) ==
  /\ pc[w] = "save"
  /\ ~Saves(job[w].who, row[w])
  /\ Finish(w)
  /\ UNCHANGED db

\* Mutant of DeleteRow: the row is kept and only marked.
MarkRow(w) ==
  /\ pc[w] = "delete"
  /\ rows' = [rows EXCEPT ![job[w].who].type = "removed"]
  /\ Continue(w)
  /\ UNCHANGED <<group, inv, live, subs, active, now, left>>

DeleteRow(w) ==
  LET u == job[w].who
  IN  /\ pc[w] = "delete"
      /\ rows' = [rows EXCEPT ![u] = IF @.id = row[w].id THEN NoRow ELSE @]
      /\ Continue(w)
      /\ UNCHANGED <<group, inv, live, subs, active, now, left>>

\* Mutant of GroupChangesHands: the previous owner is forgotten.
GroupJustChanges(w) ==
  /\ pc[w] = "group"
  /\ job[w].kind = "role"
  /\ group' = [grp[w] EXCEPT !.owner = job[w].who]
  /\ Finish(w)
  /\ UNCHANGED <<rows, inv, live, subs, active, now, left>>

\* changeGroupRole to "owner": group.save() after the new owner's row, and the
\* owner that the copy of the group names is demoted next.
GroupChangesHands(w) ==
  /\ pc[w] = "group"
  /\ job[w].kind = "role"
  /\ group' = [grp[w] EXCEPT !.owner = job[w].who]
  /\ job' = [job EXCEPT ![w].kind = "demote", ![w].who = grp[w].owner,
                        ![w].want = "admin"]
  /\ row' = [row EXCEPT ![w] = NoRow]
  /\ Goto(w, "fetch")
  /\ UNCHANGED <<rows, inv, live, subs, active, now, left, grp, todo, keep, visit>>

\* editGroup saves every field of its copy of the group, the owner included.
SaveGroup(w) ==
  LET c == job[w].want
  IN  /\ pc[w] = "group"
      /\ job[w].kind = "edit"
      /\ group' = [grp[w] EXCEPT
                     !.open = IF c \in {"open", "closed"} THEN c = "open" ELSE @,
                     !.auto = IF c \in {"auto", "manual"} THEN c = "auto" ELSE @]
      /\ Finish(w)
      /\ UNCHANGED <<rows, inv, live, subs, active, now, left>>

(***************************************************************************)
(* Loops over several people.                                              *)
(***************************************************************************)

\* Mutant of Visit: the person stays on the list.
VisitAgain(w) ==
  LET j == job[w]
  IN  /\ pc[w] = "each"
      /\ j.kind \in {"remove", "add", "edit"}
      /\ \E u \in todo[w] :
           /\ job' = [job EXCEPT ![w].who = u]
           /\ Goto(w, IF j.kind = "remove" THEN "fetch"
                      ELSE IF FullMember(u) THEN "each" ELSE "upsert")
      /\ UNCHANGED <<db, row, grp, todo, keep, visit>>

\* The next person to remove, or to add unless a full member already.
Visit(w) ==
  LET j == job[w]
  IN  /\ pc[w] = "each"
      /\ j.kind \in {"remove", "add", "edit"}
      /\ \E u \in todo[w] :
           /\ todo' = [todo EXCEPT ![w] = @ \ {u}]
           /\ job' = [job EXCEPT ![w].who = u]
           /\ Goto(w, IF j.kind = "remove" THEN "fetch"
                      ELSE IF FullMember(u) THEN "each" ELSE "upsert")
      /\ UNCHANGED <<db, row, grp, keep, visit>>

VisitsDone(w) ==
  LET k == job[w].kind
  IN  /\ pc[w] = "each"
      /\ todo[w] = {}
      /\ CASE k \in {"remove", "add"} -> Finish(w)
           [] k = "edit" -> Goto(w, "group") /\ UNCHANGED local
           [] OTHER      -> Goto(w, "subsave") /\ UNCHANGED local
      /\ UNCHANGED db

(***************************************************************************)
(* Invitations.                                                            *)
(***************************************************************************)

\* Created unless there is one; saved again with a new date, which brings back
\* one that was used meanwhile; or consumed or withdrawn, by primary key.
Invitation(w) ==
  LET j == job[w]
      new == j.kind = "invite" /\ inv[j.who] = 0
  IN  /\ pc[w] = "invitation"
      /\ inv' = [inv EXCEPT ![j.who] =
                   CASE new -> now + 1
                     [] j.kind = "resend" /\ @ = 0 -> j.code
                     [] j.kind \in {"redeem", "uninvite"} /\ @ = j.code -> 0
                     [] OTHER -> @]
      /\ now' = IF new THEN now + 1 ELSE now
      /\ Finish(w)
      /\ UNCHANGED <<rows, group, live, subs, active, left>>

(***************************************************************************)
(* Subgroups.                                                              *)
(***************************************************************************)

\* Group.leave reads the subgroups, takes the person from each of them, and
\* deletes the membership last.
ListSubgroups(w) ==
  /\ pc[w] = "subs"
  /\ visit' = [visit EXCEPT ![w] = live]
  /\ Goto(w, "unsub")
  /\ UNCHANGED <<db, job, row, grp, todo, keep>>

LeaveSubgroup(w) ==
  /\ pc[w] = "unsub"
  /\ \E s \in visit[w] :
       /\ subs' = [subs EXCEPT ![s] = @ \ {job[w].who}]
       /\ visit' = [visit EXCEPT ![w] = @ \ {s}]
  /\ UNCHANGED <<rows, group, inv, live, active, now, left, pc, job, row, grp, todo, keep>>

\* Mutant of LeftSubgroups: the membership goes before the subgroups are done.
LeftSubgroupsEarly(w) ==
  /\ pc[w] = "unsub"
  /\ Goto(w, "fetch")
  /\ UNCHANGED <<db, local>>

LeftSubgroups(w) ==
  /\ pc[w] = "unsub"
  /\ visit[w] = {}
  /\ Goto(w, "fetch")
  /\ UNCHANGED <<db, local>>

\* Mutant of CheckSubgroupMember: everybody the form names is taken.
TakeAnybody(w) ==
  /\ pc[w] = "each"
  /\ job[w].kind \in {"subadd", "subedit"}
  /\ \E u \in todo[w] :
       /\ keep' = [keep EXCEPT ![w] = @ \cup {u}]
       /\ todo' = [todo EXCEPT ![w] = @ \ {u}]
  /\ UNCHANGED <<db, pc, job, row, grp, visit>>

\* "member of subgroup must be member of group": addSubgroup refuses anybody
\* else, editSubgroup leaves them out.
CheckSubgroupMember(w) ==
  LET j == job[w]
  IN  /\ pc[w] = "each"
      /\ j.kind \in {"subadd", "subedit"}
      /\ \E u \in todo[w] :
           IF FullMember(u)
             THEN /\ keep' = [keep EXCEPT ![w] = @ \cup {u}]
                  /\ todo' = [todo EXCEPT ![w] = @ \ {u}]
                  /\ UNCHANGED <<pc, job, row, grp, visit>>
           ELSE IF j.kind = "subedit"
             THEN /\ todo' = [todo EXCEPT ![w] = @ \ {u}]
                  /\ UNCHANGED <<pc, job, row, grp, keep, visit>>
           ELSE Finish(w)
      /\ UNCHANGED db

\* subgroup.save(): a new subgroup, or the row of the edited one, which comes
\* back without members when the subgroup was deleted meanwhile.
SaveSubgroup(w) ==
  LET j == job[w]
  IN  /\ pc[w] = "subsave"
      /\ live' = live \cup {j.sub}
      /\ IF j.kind = "subadd"
           THEN /\ Goto(w, "apply")
                /\ todo' = [todo EXCEPT ![w] = keep[w]]
                /\ keep' = [keep EXCEPT ![w] = {}]
           ELSE Goto(w, "diff") /\ UNCHANGED <<todo, keep>>
      /\ UNCHANGED <<rows, group, inv, subs, active, now, left, job, row, grp, visit>>

\* editSubgroup: who has to be added, and who removed.
CompareMembers(w) ==
  LET s == job[w].sub
  IN  /\ pc[w] = "diff"
      /\ todo' = [todo EXCEPT ![w] = keep[w] \ subs[s]]
      /\ keep' = [keep EXCEPT ![w] = subs[s] \ keep[w]]
      /\ Goto(w, "apply")
      /\ UNCHANGED <<db, job, row, grp, visit>>

AddToSubgroup(w) ==
  LET s == job[w].sub
  IN  /\ pc[w] = "apply"
      /\ \E u \in todo[w] :
           IF s \in live
             THEN /\ subs' = [subs EXCEPT ![s] = @ \cup {u}]
                  /\ todo' = [todo EXCEPT ![w] = @ \ {u}]
                  /\ UNCHANGED <<pc, job, row, grp, keep, visit>>
             ELSE Finish(w) /\ UNCHANGED subs
      /\ UNCHANGED <<rows, group, inv, live, active, now, left>>

TakeFromSubgroup(w) ==
  /\ pc[w] = "apply"
  /\ todo[w] = {}
  /\ \E u \in keep[w] :
       /\ subs' = [subs EXCEPT ![job[w].sub] = @ \ {u}]
       /\ keep' = [keep EXCEPT ![w] = @ \ {u}]
  /\ UNCHANGED <<rows, group, inv, live, active, now, left,
                 pc, job, row, grp, todo, visit>>

SubgroupDone(w) ==
  /\ pc[w] = "apply"
  /\ todo[w] = {} /\ keep[w] = {}
  /\ Finish(w)
  /\ UNCHANGED db

DropSubgroup(w) ==
  /\ pc[w] = "drop"
  /\ live' = live \ {job[w].sub}
  /\ subs' = [subs EXCEPT ![job[w].sub] = {}]
  /\ Finish(w)
  /\ UNCHANGED <<rows, group, inv, active, now, left>>

(***************************************************************************)
(* User.delete: three deletions, and the account is marked inactive last.  *)
(***************************************************************************)

WipeMembership(w) ==
  /\ pc[w] = "wipe"
  /\ rows' = [rows EXCEPT ![job[w].who] = NoRow]
  /\ Goto(w, "wipesubs")
  /\ UNCHANGED <<group, inv, live, subs, active, now, left, local>>

\* self.subgroups is a query on Subgroup: the subgroups themselves go.
WipeSubgroups(w) ==
  LET mine == {s \in live : job[w].who \in subs[s]}
  IN  /\ pc[w] = "wipesubs"
      /\ live' = live \ mine
      /\ subs' = [s \in Subgroups |-> IF s \in mine THEN {} ELSE subs[s]]
      /\ Goto(w, "close")
      /\ UNCHANGED <<rows, group, inv, active, now, left, local>>

CloseAccount(w) ==
  /\ pc[w] = "close"
  /\ inv' = [inv EXCEPT ![job[w].who] = 0]
  /\ active' = active \ {job[w].who}
  /\ Finish(w)
  /\ UNCHANGED <<rows, group, live, subs, now, left>>

-----------------------------------------------------------------------------
Arrive(w) ==
  \/ OwnRequest(w) \/ OtherRequest(w) \/ ManyRequest(w) \/ EditRequest(w)
  \/ SubgroupRequest(w) \/ EraseRequest(w)

Step(w) ==
  \/ Forbidden(w) \/ Allowed(w) \/ AlreadyIn(w) \/ NotYetIn(w) \/ Policy(w)
  \/ IsMember(w) \/ Upsert(w) \/ Fetch(w) \/ SaveRow(w) \/ SaveConflict(w)
  \/ DeleteRow(w) \/ GroupChangesHands(w) \/ SaveGroup(w)
  \/ Visit(w) \/ VisitsDone(w) \/ Invitation(w)
  \/ ListSubgroups(w) \/ LeaveSubgroup(w) \/ LeftSubgroups(w)
  \/ CheckSubgroupMember(w) \/ SaveSubgroup(w) \/ CompareMembers(w)
  \/ AddToSubgroup(w) \/ TakeFromSubgroup(w) \/ SubgroupDone(w) \/ DropSubgroup(w)
  \/ WipeMembership(w) \/ WipeSubgroups(w) \/ CloseAccount(w)

Next == \E w \in Workers : Arrive(w) \/ Step(w)

Spec == Init /\ [][Next]_vars

\* A worker that serves a request keeps running; nobody has to send one.
FairSpec == Spec /\ \A w \in Workers : WF_vars(Step(w))
-----------------------------------------------------------------------------
TypeOK ==
  /\ rows \in [Users -> Row]
  /\ group \in Group
  /\ inv \in [Users -> Nat]
  /\ live \in SUBSET Subgroups
  /\ subs \in [Subgroups -> SUBSET Users]
  /\ active \in SUBSET Users
  /\ now \in Nat
  /\ left \in Nat
  /\ pc \in [Workers -> Labels]
  /\ job \in [Workers -> Job]
  /\ row \in [Workers -> Row]
  /\ grp \in [Workers -> Group]
  /\ todo \in [Workers -> SUBSET Users]
  /\ keep \in [Workers -> SUBSET Users]
  /\ visit \in [Workers -> SUBSET Subgroups]

Quiet == \A w \in Workers : pc[w] = "idle"

\* Whenever no request is being served, the only membership with the type
\* "owner" is that of group.owner: the three saves of a transfer leave the two
\* tables in agreement, whatever roles the people had and whoever asks.
SoleOwner ==
  Quiet => \A u \in Users : rows[u].type = "owner" => u = group.owner

\* Whenever no request is being served, subgroups consist of people who are
\* full members of the group: read access that names a subgroup goes to them.
SubgroupWithinGroup ==
  Quiet => \A s \in live : \A u \in subs[s] : FullMember(u)

\* Group.leave: once the membership is about to be deleted, the person is in no
\* subgroup any more, however many there were and whoever deletes them meanwhile.
LeaveClearsSubgroups ==
  \A w \in Workers :
    job[w].kind = "leave" /\ pc[w] \in {"fetch", "delete"} =>
      \A s \in Subgroups : job[w].who \notin subs[s]

\* Every request is answered: the loops over people and subgroups end.
RequestsEnd == \A w \in Workers : pc[w] # "idle" ~> pc[w] = "idle"

(***************************************************************************)
(* Requests served one at a time implement GroupRoles.  A transfer takes   *)
(* effect with the save of the new owner's row; until the row of the       *)
(* previous owner follows, the roles are those the worker still has to     *)
(* write.                                                                  *)
(***************************************************************************)

Transferring(w) ==
  job[w].kind = "demote" \/ (job[w].kind = "role" /\ pc[w] = "group")

RoleOf(u) ==
  IF rows[u] = NoRow THEN "none"
  ELSE IF \E w \in Workers : Transferring(w) /\ u = grp[w].owner THEN "admin"
  ELSE rows[u].type

OwnerNow ==
  IF \E w \in Workers : job[w].kind = "role" /\ pc[w] = "group"
    THEN job[CHOOSE w \in Workers : job[w].kind = "role" /\ pc[w] = "group"].who
    ELSE group.owner

Atomic == INSTANCE GroupRoles WITH type <- [u \in Users |-> RoleOf(u)],
                                   owner <- OwnerNow

\* Each request changes the roles as one step of GroupRoles, or not at all.
ImplementsGroupRoles == Atomic!Spec
=============================================================================
