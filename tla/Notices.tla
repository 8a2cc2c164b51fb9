------------------------------- MODULE Notices -------------------------------
(***************************************************************************)
(* The letters the site writes by itself when somebody's rights change:    *)
(* administrators, accounts that are to be deleted, entering a group and   *)
(* the site, and the ends of long tasks.  Who gets which letter is decided *)
(* by the request, from rows read before or after it changes them; when    *)
(* and whether it goes out, by the worker (Letters).  Superadministrators  *)
(* are left out.  Sources: the mutations of core/resolvers named below,    *)
(* core/models/group.py, core/tasks/exports.py and core/mail_builders/.    *)
(***************************************************************************)
EXTENDS Letters

VARIABLES
  leaving,   \* accounts that have asked to be deleted
  request,   \* request[a]: the request of address a to be let in to the site
  walled     \* the site is closed

rights  == <<leaving, request, walled>>
notices == <<correspondence, rights>>

NoticesInit ==
  /\ LettersInit
  /\ leaving \in SUBSET Folk
  /\ request = [a \in Boxes |-> "none"]
  /\ walled = FALSE

-----------------------------------------------------------------------------
(***************************************************************************)
(* The letters, one operator for each mailer.                              *)
(***************************************************************************)
Tell(kind, p, of, by)     == Letter(kind, p, NoPerson, FALSE, Nothing, of, by)
TellAt(kind, box, of, by) == Letter(kind, NoPerson, box, FALSE, Nothing, of, by)
Each(people, Note(_))     == LET list == SetToSeq(people) IN [i \in DOMAIN list |-> Note(list[i])]

UserAssignAdminForAdmin(s, p, q) == Tell("admin", q, p, s)
UserAssignAdminForSelf(s, p)     == Tell("admin", p, p, s)
UserRevokeAdminForAdmin(s, p, q) == Tell("noAdmin", q, p, s)
UserRevokeAdminForSelf(s, p)     == Tell("noAdmin", p, p, s)
UserRequestDeleteToAdmin(p, q)   == Tell("asksToGo", q, p, NoPerson)
UserRequestDeleteToSelf(p)       == Tell("mayGo", p, p, NoPerson)
UserCancelDeleteToAdmin(p, q)    == Tell("staysAfterAll", q, p, NoPerson)
UserCancelDeleteToSelf(p)        == Tell("stays", p, p, NoPerson)
UserDeleteComplete(s, p, box)    == TellAt("deleted", box, p, s)
SiteAccessChanged(s, q)          == Tell("walls", q, NoPerson, s)
SiteAccessRequested(a, q)        == Tell("asks", q, a, NoPerson)
SiteAccessRequestAccepted(s, a)  == TellAt("accepted", a, a, s)
SiteAccessRequestDenied(s, a)    == TellAt("denied", a, a, s)
GroupAccessRequest(p, q)         == Tell("asksIn", q, p, NoPerson)
GroupMembershipApproved(s, p)    == Tell("letIn", p, p, s)
RejectGroupMembership(s, p)      == Tell("turnedDown", p, p, s)
ChangeGroupOwnership(s, p)       == Tell("newOwner", p, p, s)
GroupWelcome(p)                  == Tell("welcome", p, p, NoPerson)
AvatarExportReady(p)             == Tell("avatars", p, p, NoPerson)
ContentExportReady(p)            == Tell("content", p, p, NoPerson)
ContentExportEmpty(p)            == Tell("noContent", p, p, NoPerson)
UserImportSuccess(p)             == Tell("imported", p, p, NoPerson)
UserImportFailed(p)              == Tell("notImported", p, p, NoPerson)

-----------------------------------------------------------------------------
(***************************************************************************)
(* Administrators and accounts.                                            *)
(***************************************************************************)
Chief(s) == s \in chiefs /\ account[s].active

\* Mutant of ToggleRole: the administrators are listed after the role was given.
ToggleRoleLate(s, p) ==
  /\ Chief(s) /\ ~Gone(p) /\ Turn
  /\ chiefs' = IF p \in chiefs THEN chiefs \ {p} ELSE chiefs \cup {p}
  /\ IF p \in chiefs
     THEN Post(Each(chiefs', LAMBDA q : UserRevokeAdminForAdmin(s, p, q)) \o <<UserRevokeAdminForSelf(s, p)>>)
     ELSE Post(Each(chiefs', LAMBDA q : UserAssignAdminForAdmin(s, p, q)) \o <<UserAssignAdminForSelf(s, p)>>)
  /\ UNCHANGED <<account, membership, insiders, standing, welcome, booking, invitation, lastKey, rights>>
\* Who lost the role is not among the administrators any more, who got it not yet.
ToggleRole(s, p) ==
  /\ Chief(s) /\ ~Gone(p) /\ Turn
  /\ chiefs' = IF p \in chiefs THEN chiefs \ {p} ELSE chiefs \cup {p}
  /\ IF p \in chiefs
     THEN Post(Each(chiefs', LAMBDA q : UserRevokeAdminForAdmin(s, p, q)) \o <<UserRevokeAdminForSelf(s, p)>>)
     ELSE Post(Each(chiefs, LAMBDA q : UserAssignAdminForAdmin(s, p, q)) \o <<UserAssignAdminForSelf(s, p)>>)
  /\ UNCHANGED <<account, membership, insiders, standing, welcome, booking, invitation, lastKey, rights>>

ToggleRequestDelete(p) ==
  /\ account[p].active /\ Turn
  /\ IF p \in leaving
     THEN /\ leaving' = leaving \ {p}
          /\ Post(<<UserCancelDeleteToSelf(p)>> \o Each(chiefs, LAMBDA q : UserCancelDeleteToAdmin(p, q)))
     ELSE /\ leaving' = leaving \cup {p}
          /\ Post(<<UserRequestDeleteToSelf(p)>> \o Each(chiefs, LAMBDA q : UserRequestDeleteToAdmin(p, q)))
  /\ UNCHANGED <<folk, booking, invitation, lastKey, request, walled>>

\* The person is written to at the address the account had, and the other
\* administrators are if it was one of theirs.
Goodbyes(s, p) ==
  <<UserDeleteComplete(s, p, account[p].box)>>
    \o IF p \in chiefs THEN Each(chiefs \ {p}, LAMBDA q : UserDeleteComplete(s, p, account[q].box)) ELSE <<>>
DeleteUser(s, p) ==
  /\ Chief(s) /\ ~Gone(p) /\ Turn
  /\ Removed(p) /\ leaving' = leaving \ {p}
  /\ Post(Goodbyes(s, p))
  /\ UNCHANGED <<standing, welcome, booking, lastKey, request, walled>>

\* A refusal tells nobody.
HandleDeleteRequest(s, p, accept) ==
  /\ Chief(s) /\ p \in leaving
  /\ IF accept THEN DeleteUser(s, p)
     ELSE /\ Turn /\ leaving' = leaving \ {p}
          /\ UNCHANGED <<folk, booking, invitation, lastKey, letter, request, walled>>

-----------------------------------------------------------------------------
(***************************************************************************)
(* Entering the group.                                                     *)
(***************************************************************************)
InFull(p) == membership[p] \in {"member", "admin", "owner"}

\* group.join as a member; the welcome is for those who were not one before.
Joined(p) == membership' = [membership EXCEPT ![p] = IF InFull(p) THEN @ ELSE "member"]
\* Mutant of Welcomes: everybody who joins is welcomed.
WelcomesAnew(p) == IF welcome THEN <<GroupWelcome(p)>> ELSE <<>>
Welcomes(p) == IF welcome /\ ~InFull(p) THEN <<GroupWelcome(p)>> ELSE <<>>

Leaders == {q \in Folk : membership[q] \in {"admin", "owner"}}

\* In a closed group only its leaders and administrators walk in.
JoinGroup(p) ==
  /\ account[p].active /\ standing /\ ~InFull(p) /\ Turn
  /\ IF LeadsGroup(p) THEN Joined(p) /\ Post(Welcomes(p))
     ELSE /\ membership' = [membership EXCEPT ![p] = "pending"]
          /\ Post(Each(Leaders, LAMBDA q : GroupAccessRequest(p, q)))
  /\ UNCHANGED <<account, chiefs, insiders, standing, welcome, booking, invitation, lastKey, rights>>

\* Whether that person asked is not looked at, nor whether who is turned down is
\* a member already; an owner's row has more to it (GroupMembership).
AcceptMembership(s, p) ==
  /\ LeadsGroup(s) /\ standing /\ ~Gone(p) /\ ~InFull(p) /\ Turn
  /\ Joined(p) /\ Post(Welcomes(p) \o <<GroupMembershipApproved(s, p)>>)
  /\ UNCHANGED <<account, chiefs, insiders, standing, welcome, booking, invitation, lastKey, rights>>
RejectMembership(s, p) ==
  /\ LeadsGroup(s) /\ standing /\ membership[p] \in {"pending", "member", "admin"} /\ Turn
  /\ membership' = [membership EXCEPT ![p] = "none"]
  /\ Post(<<RejectGroupMembership(s, p)>>)
  /\ UNCHANGED <<account, chiefs, insiders, standing, welcome, booking, invitation, lastKey, rights>>

\* An administrator of the site adds people without asking them.
DirectAdd(s, p) ==
  /\ Chief(s) /\ standing /\ ~Gone(p) /\ ~InFull(p) /\ Turn
  /\ Joined(p) /\ Post(Welcomes(p))
  /\ UNCHANGED <<account, chiefs, insiders, standing, welcome, booking, invitation, lastKey, rights>>

\* With the code of an invitation, by the account or by its address.
AcceptInvitation(p, i) ==
  /\ account[p].active /\ (i.who = p \/ i.box = account[p].box) /\ Turn
  /\ Joined(p) /\ Post(Welcomes(p))
  /\ invitation' = invitation \ {i}
  /\ UNCHANGED <<account, chiefs, insiders, standing, welcome, booking, lastKey, rights>>

\* Whoever owned the group before is an administrator of it, the same person too.
MakeOwner(s, p) ==
  /\ LeadsGroup(s) /\ standing /\ IsMember(p) /\ Turn
  /\ membership' = [q \in Folk |-> CASE membership[q] = "owner" -> "admin" [] q = p -> "owner" [] OTHER -> membership[q]]
  /\ Post(<<ChangeGroupOwnership(s, p)>>)
  /\ UNCHANGED <<account, chiefs, insiders, standing, welcome, booking, invitation, lastKey, rights>>

\* The type of a row is set without a look at what it was, the row of who has
\* asked to join too, or the row is deleted; nobody is told. An owner's row has
\* more to it (GroupMembership).
ChangeRole(s, p, role) ==
  /\ LeadsGroup(s) /\ standing /\ membership[p] \in {"pending", "member", "admin"} /\ Turn
  /\ membership' = [membership EXCEPT ![p] = role]
  /\ UNCHANGED <<account, chiefs, insiders, standing, welcome, booking, invitation, lastKey, letter, rights>>

-----------------------------------------------------------------------------
(***************************************************************************)
(* Entering the site, its walls, and long tasks.                           *)
(***************************************************************************)
\* Somebody who signed in elsewhere and may not register by himself.
AskAccess(a) ==
  /\ Turn /\ request[a] = "none"
  /\ request' = [request EXCEPT ![a] = "open"]
  /\ Post(Each(chiefs, LAMBDA q : SiteAccessRequested(a, q)))
  /\ UNCHANGED <<folk, booking, invitation, lastKey, leaving, walled>>

\* An accepted request stays, and can be handled again.
HandleAccessRequest(s, a, accept, silent) ==
  /\ Chief(s) /\ request[a] # "none" /\ Turn
  /\ request' = [request EXCEPT ![a] = IF accept THEN "accepted" ELSE "none"]
  /\ Post(CASE silent -> <<>>
            [] accept -> <<SiteAccessRequestAccepted(s, a)>>
            [] OTHER  -> <<SiteAccessRequestDenied(s, a)>>)
  /\ UNCHANGED <<folk, booking, invitation, lastKey, leaving, walled>>

SetWalls(s) ==
  /\ Chief(s) /\ Turn
  /\ walled' = ~walled
  /\ Post(Each(chiefs, LAMBDA q : SiteAccessChanged(s, q)))
  /\ UNCHANGED <<folk, booking, invitation, lastKey, leaving, request>>

Told(p, list) ==
  /\ Turn /\ Post(list)
  /\ UNCHANGED <<folk, booking, invitation, lastKey, rights>>
ExportAvatars(p)   == Told(p, <<AvatarExportReady(p)>>)
ExportMyContent(p) == Told(p, <<ContentExportReady(p)>>) \/ Told(p, <<ContentExportEmpty(p)>>)
ImportUsers(p)     == p \in chiefs /\ (Told(p, <<UserImportSuccess(p)>>) \/ Told(p, <<UserImportFailed(p)>>))

NoticesNext ==
  \/ LettersStep /\ UNCHANGED rights
  \/ \E s, p \in Folk : \/ ToggleRole(s, p) \/ DeleteUser(s, p)
                        \/ AcceptMembership(s, p) \/ RejectMembership(s, p) \/ DirectAdd(s, p) \/ MakeOwner(s, p)
                        \/ \E accept \in BOOLEAN : HandleDeleteRequest(s, p, accept)
                        \/ \E role \in {"member", "admin", "none"} : ChangeRole(s, p, role)
  \/ \E p \in Folk : \/ ToggleRequestDelete(p) \/ JoinGroup(p) \/ SetWalls(p)
                     \/ ExportAvatars(p) \/ ExportMyContent(p) \/ ImportUsers(p)
                     \/ \E i \in invitation : AcceptInvitation(p, i)
  \/ \E a \in Boxes : AskAccess(a)
  \/ \E s \in Folk, a \in Boxes, accept, silent \in BOOLEAN : HandleAccessRequest(s, a, accept, silent)
NoticesSpec == NoticesInit /\ [][NoticesNext]_notices

-----------------------------------------------------------------------------
(***************************************************************************)
(* Correctness.                                                            *)
(***************************************************************************)
\* Nobody hears of the same change twice: who gets or loses the role, or the
\* account, is no longer, or not yet, among the administrators who are told.
HeardOnce ==
  \A k, m \in DOMAIN letter :
    /\ k # m /\ letter[k].request = letter[m].request
    /\ letter[k].kind \in {"admin", "noAdmin", "deleted"}
    => letter[k].who # letter[m].who \/ letter[k].box # letter[m].box

NoticesSound == LettersTypeOK /\ InvitedOnce /\ NeverTwice /\ HeardOnce

\* Mail to inactive accounts is held back, by address; the account that was
\* deleted does not hold back the letters that say so, which are withheld only
\* where somebody else with that address is banned since.  They cannot be written
\* once who deleted the account is deleted: nobody hears of an administrator who
\* deleted his own.
GoodbyesArrive ==
  [][\A k \in DOMAIN letter :
       letter[k].kind = "deleted" /\ letter[k].state = "waiting" =>
         /\ letter'[k].state = "dropped" =>
              \E p \in Folk \ {letter[k].of} : ~account[p].active /\ account[p].box = letter[k].box
         /\ letter'[k].state = "failed" => Gone(letter[k].by)]_notices

New == Len(letter) + 1 .. Len(letter')

\* Whoever becomes a member of the group is welcomed to it once, and nobody who
\* was one; but who had asked and gets the type of a member, by a change of role
\* instead of the acceptance of what he asked, is told nothing at all.
WelcomedOnce ==
  [][\A p \in Folk :
       LET notes == {k \in New : letter'[k].kind = "welcome" /\ letter'[k].who = p}
       IN  /\ notes # {} => ~InFull(p) /\ Cardinality(notes) = 1
           /\ ~InFull(p) /\ membership'[p] = "member" /\ welcome =>
                notes # {} \/ (membership[p] = "pending" /\ UNCHANGED <<letter, invitation>>)]_notices

NoticesKept == NotToDeactivated /\ LettersLead /\ GoodbyesArrive /\ WelcomedOnce
===============================================================================
