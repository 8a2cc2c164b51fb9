------------------------------- MODULE Offers -------------------------------
(***************************************************************************)
(* What a page says its reader may do, and what the server then accepts    *)
(* (the can... fields of core/resolvers/shared.py, group.py, user.py,      *)
(* comment.py, of events and questions; the mixins; the mutations behind   *)
(* the buttons).                                                           *)
(*                                                                         *)
(* A tab shows a post, a comment, the group or a person as it was when the *)
(* page was asked for; by the time its reader presses a button, roles,     *)
(* memberships, comments and the post itself may have changed, by another  *)
(* tab of the same person as well.                                         *)
(***************************************************************************)
EXTENDS Integers, FiniteSets

CONSTANTS
  People, Superadmins, QuestionManagers,
  Pages,          \* posts
  Sort,           \* Sort[p]: "blog", "question" or "event"
  AuthorOf, GroupPost,   \* GroupPost: the posts of the group, readable for its members
  Tabs, TabOf,    \* TabOf[t]: whose tab it is, or Visitor
  Closed,         \* the group's is_closed
  LeaveDisabled,  \* its is_leaving_group_disabled
  LockAfterActivity, QuestionerChooses,  \* config.QUESTION_LOCK_AFTER_ACTIVITY, QUESTIONER_CAN_CHOOSE_BEST_ANSWER
  IntroductionPublic,  \* is_introduction_public
  EmailAdders,   \* config.EVENT_ADD_EMAIL_ATTENDEE
  MaxPresses      \* bound

Visitor == "visitor"
TheGroup == "the group"
NoOne  == "no one"
FullRoles   == {"owner", "admin", "member"}

ASSUME OffersAssumption ==
  /\ Superadmins \cup QuestionManagers \subseteq People /\ {Visitor, NoOne} \cap People = {}
  /\ GroupPost \subseteq Pages /\ MaxPresses \in Nat /\ EmailAdders \in {"owner", "admin"}
  /\ {LockAfterActivity, QuestionerChooses, Closed, LeaveDisabled, IntroductionPublic} \subseteq BOOLEAN

VARIABLES
  tab,       \* tab[t]: the page and what it offers
  person,    \* person[v]: his roles and whether he may log in
  standing,  \* standing[v]: his membership of the group
  lead,      \* the group's owner
  page,      \* page[p]: the post
  score,     \* score[p][v]: his vote on p
  saved,     \* saved[p]: who bookmarked it
  said,      \* said[p]: whose comment it has, one each
  last       \* history: the last press; presses so far; whether one came from an old page

offers == <<tab, person, standing, lead, page, score, saved, said, last>>

Blank    == [on |-> NoOne]
NoPress  == [op |-> "none", done |-> FALSE, offered |-> FALSE, fresh |-> FALSE, live |-> FALSE, self |-> FALSE, presses |-> 0, stale |-> FALSE]
Logged(v)  == v \in People
IsSiteAdmin(v) == v \in Superadmins \/ (Logged(v) /\ person[v].admin)

(***************************************************************************)
(* Predicates of the models.                                               *)
(***************************************************************************)
InGroup(v)   == Logged(v) /\ standing[v] \in FullRoles                \* is_full_member
RunsGroup(v) == Logged(v) /\ standing[v] \in {"owner", "admin"}
GroupCanWrite(v) == Logged(v) /\ (IsSiteAdmin(v) \/ v = lead \/ RunsGroup(v))
Shows(p, v) == page[p].state = "published" /\ (p \notin GroupPost \/ InGroup(v) \/ IsSiteAdmin(v) \/ v = AuthorOf[p])

\* Mutant of Locked: never.
LockedNever(p) == FALSE
Locked(p) == Sort[p] = "question" /\ LockAfterActivity /\ said[p] # {}

CanWrite(p, v) == \/ IsSiteAdmin(v)
                  \/ p \in GroupPost /\ RunsGroup(v)
                  \/ ~Locked(p) /\ v = AuthorOf[p]
CanEditComment(u, v) == Logged(v) /\ (IsSiteAdmin(v) \/ v = u)      \* Comment.can_write, of u's
CanComment(p, v) == Logged(v) /\ (p \in GroupPost => InGroup(v) \/ IsSiteAdmin(v))
RunsQuestions(p, v) == Logged(v) /\ (IsSiteAdmin(v) \/ v \in QuestionManagers \/ v = AuthorOf[p])
\* Mutant of CanChoose: also of a closed question.
CanChooseClosed(p, v) == Sort[p] = "question" /\ RunsQuestions(p, v) /\ QuestionerChooses
CanChoose(p, v) == Sort[p] = "question" /\ ~page[p].closed /\ RunsQuestions(p, v) /\ QuestionerChooses
CanAddByEmail(p, v) ==
  /\ Sort[p] = "event"
  /\ CASE ~Logged(v) \/ v \in Superadmins -> TRUE
       [] EmailAdders = "owner" -> CanWrite(p, v)
       [] OTHER -> IsSiteAdmin(v)

(***************************************************************************)
(* The fields of a page: the buttons it offers.                            *)
(***************************************************************************)
PostOps == {"archive", "delete", "vote", "bookmark", "comment", "close", "choose", "add by email"}
PostOffers(p, v) ==
  {o \in PostOps :
     \/ o \in {"archive", "delete"} /\ CanWrite(p, v)
     \/ o \in {"vote", "bookmark"} /\ Logged(v)
     \/ o = "comment" /\ CanComment(p, v)
     \/ o = "close" /\ Sort[p] = "question" /\ RunsQuestions(p, v)
     \/ o = "choose" /\ CanChoose(p, v)
     \/ o = "add by email" /\ CanAddByEmail(p, v)}

\* membership and memberRole.
\* Mutant of Membership: the owner's own row is forgotten.
MembershipNotOwner(v) ==
  CASE Logged(v) /\ standing[v] \in {"admin", "member"} -> "joined"
    [] Logged(v) /\ standing[v] = "pending" -> "requested"
    [] OTHER -> "not joined"
Membership(v) ==
  CASE InGroup(v) -> "joined"
    [] Logged(v) /\ standing[v] = "pending" -> "requested"
    [] OTHER -> "not joined"
MemberRole(v) == CASE ~Logged(v) -> "none" [] v = lead -> "owner" [] OTHER -> standing[v]

\* What only some readers see of the group: its introduction, the requests to
\* answer, its members.
Requests(v) == IF GroupCanWrite(v) THEN {u \in People : standing[u] = "pending"} ELSE {}
MembersOf(v)  == IF Logged(v) THEN {u \in People : InGroup(u) /\ u \notin Superadmins /\ person[u].active} ELSE {}
Introduction(v) == IntroductionPublic \/ InGroup(v) \/ IsSiteAdmin(v)

GroupOps == {"role", "transfer", "join", "leave", "accept"}
GroupOffers(v) ==
  {o \in GroupOps :
     \/ o = "role" /\ GroupCanWrite(v)
     \/ o = "accept" /\ Requests(v) # {}
     \/ o = "transfer" /\ Logged(v) /\ (v = lead \/ IsSiteAdmin(v))     \* canChangeOwnership
     \/ o = "join" /\ Logged(v) /\ Membership(v) = "not joined"
     \/ o = "leave" /\ Membership(v) # "not joined" /\ ~LeaveDisabled}

\* has_full_admin_abilities_on_user
UserOps == {"ban", "make admin"}
UserOffers(u, v) ==
  {o \in UserOps : /\ IsSiteAdmin(v)
                   /\ o = "ban" => u # v /\ (u \in Superadmins => v \in Superadmins)}

\* A banned person is logged out.
ReaderOf(t) == IF Logged(TabOf[t]) /\ ~person[TabOf[t]].active THEN Visitor ELSE TabOf[t]

Look(t) ==
  LET v == ReaderOf(t) IN
  /\ \/ \E p \in Pages :
          /\ Shows(p, v) \/ (page[p].state = "archived" /\ CanWrite(p, v))
          /\ tab' = [tab EXCEPT ![t] = [on |-> p, fresh |-> TRUE, offers |-> PostOffers(p, v),
               voted |-> Logged(v) /\ score[p][v] # 0, saved |-> v \in saved[p],
               edits |-> {u \in said[p] : CanEditComment(u, v)}]]
     \/ tab' = [tab EXCEPT ![t] = [on |-> TheGroup, fresh |-> TRUE, offers |-> GroupOffers(v),
               membership |-> Membership(v), role |-> MemberRole(v), lacking |-> v = lead /\ ~InGroup(v),
               requests |-> Requests(v), members |-> MembersOf(v), introduction |-> Introduction(v)]]
     \/ \E u \in People : tab' = [tab EXCEPT ![t] = [on |-> u, fresh |-> TRUE, offers |-> UserOffers(u, v)]]
  /\ UNCHANGED <<person, standing, lead, page, score, saved, said, last>>

(***************************************************************************)
(* Pressing a button; the buttons that are not offered are tried as well.  *)
(***************************************************************************)
\* The answer is a refusal, or the new state; other tabs are out of date then.
AnswerTo(t, op, offered, done) ==
  /\ last.presses < MaxPresses
  /\ last' = [op |-> op, done |-> done, offered |-> offered, fresh |-> tab[t].fresh,
              live |-> tab[t].on \in Pages => page[tab[t].on].state = "published",
              self |-> tab[t].on = TabOf[t], presses |-> last.presses + 1,
              stale |-> last.stale \/ (op = "vote" /\ ~tab[t].fresh)]
  /\ tab' = [u \in Tabs |-> IF u = t \/ tab[u] = Blank THEN Blank
                            ELSE [tab[u] EXCEPT !.fresh = @ /\ ~done]]
Answer(t, op, done) == AnswerTo(t, op, op \in tab[t].offers, done)
Refused(t, op) == Answer(t, op, FALSE) /\ UNCHANGED <<person, standing, lead, page, score, saved, said>>

\* Entity.objects.visible, then the check of the operation.
\* Mutant of Accepts: a bookmark without logging in.
AcceptsVisitors(p, op, v) ==
  /\ page[p].state # "gone"
  /\ CASE op = "bookmark" -> Shows(p, v)
       [] op \in {"archive", "delete"} -> CanWrite(p, v)
       [] OTHER -> Logged(v) /\ Shows(p, v)
\* Mutant of Accepts: whoever may edit may close.
AcceptsEditors(p, op, v) == page[p].state # "gone" /\ Logged(v) /\ Shows(p, v) /\ (op \in {"archive", "delete", "close"} => CanWrite(p, v))
Accepts(p, op, v) ==
  /\ page[p].state # "gone"
  /\ CASE op \in {"archive", "delete"} -> Logged(v) /\ CanWrite(p, v)
       [] op \in {"vote", "bookmark"}  -> Logged(v) /\ Shows(p, v)
       [] op = "comment"               -> CanComment(p, v)
       [] op = "close"                 -> Shows(p, v) /\ Sort[p] = "question" /\ RunsQuestions(p, v)
       [] op = "choose"                -> Shows(p, v) /\ CanChoose(p, v)
       [] op = "add by email"          -> CanAddByEmail(p, v)

\* resolve_vote: the same vote again is refused, the opposite one takes it back.
\* Mutant of Cast: the opposite one replaces it.
CastOver(old, s) == s
Cast(old, s) == IF old # 0 THEN 0 ELSE s
Vote(t, p, v) ==
  LET s == IF tab[t].voted THEN -1 ELSE 1 IN
  IF ~Accepts(p, "vote", v) \/ score[p][v] = s THEN Refused(t, "vote")
  ELSE /\ Answer(t, "vote", TRUE)
       /\ score' = [score EXCEPT ![p][v] = Cast(@, s)]
       /\ UNCHANGED <<person, standing, lead, page, saved, said>>

Bookmark(t, p, v) ==
  IF ~Accepts(p, "bookmark", v) THEN Refused(t, "bookmark")
  ELSE /\ Answer(t, "bookmark", TRUE)
       /\ saved' = [saved EXCEPT ![p] = IF tab[t].saved THEN @ \ {v} ELSE @ \cup {v}]
       /\ UNCHANGED <<person, standing, lead, page, score, said>>

Comment(t, p, v) ==
  /\ v \notin said[p]
  /\ IF ~Accepts(p, "comment", v) THEN Refused(t, "comment")
     ELSE /\ Answer(t, "comment", TRUE)
          /\ said' = [said EXCEPT ![p] = @ \cup {v}]
          /\ UNCHANGED <<person, standing, lead, page, score, saved>>

\* resolve_delete_comment asks the comment alone.  A best answer is SET_NULL; the
\* save of the post that follows then fails on the copy that still names it.
DropComment(t, p, v) ==
  \E u \in People :
    IF u \notin said[p] \/ page[p].state = "gone" \/ ~CanEditComment(u, v)
    THEN /\ AnswerTo(t, "delete comment", u \in tab[t].edits, FALSE)
         /\ UNCHANGED <<person, standing, lead, page, score, saved, said>>
    ELSE /\ AnswerTo(t, "delete comment", u \in tab[t].edits, TRUE)
         /\ said' = [said EXCEPT ![p] = @ \ {u}]
         /\ page' = [page EXCEPT ![p].best = IF @ = u THEN NoOne ELSE @]
         /\ UNCHANGED <<person, standing, lead, score, saved>>

\* Archive, delete, close, choose: the post is saved.
Afterwards(p, op) ==
  CASE op = "archive" -> {[page[p] EXCEPT !.state = IF @ = "archived" THEN "published" ELSE "archived"]}
    [] op = "delete"  -> {[page[p] EXCEPT !.state = "gone"]}
    [] op = "close"   -> {[page[p] EXCEPT !.closed = ~@]}
    [] op = "choose"  -> {[page[p] EXCEPT !.best = IF @ = u THEN NoOne ELSE u] : u \in said[p]}
    [] OTHER          -> {page[p]}
Manage(t, p, v) ==
  \E op \in {"archive", "delete", "close", "choose", "add by email"} :
    IF ~Accepts(p, op, v) THEN Refused(t, op)
    ELSE /\ Answer(t, op, TRUE)
         /\ \E new \in Afterwards(p, op) : page' = [page EXCEPT ![p] = new]
         /\ UNCHANGED <<person, standing, lead, score, saved, said>>

PressPost(t) == /\ tab[t].on \in Pages
                /\ LET p == tab[t].on  v == ReaderOf(t)
                   IN  Vote(t, p, v) \/ Bookmark(t, p, v) \/ Comment(t, p, v) \/ DropComment(t, p, v) \/ Manage(t, p, v)

\* resolve_change_group_role: can_write is asked for, of a new owner too.
ChangeRole(t, v) ==
  \E u \in People, r \in {"owner", "admin", "member", "none"} :
    LET op == IF r = "owner" THEN "transfer" ELSE "role" IN
    IF ~GroupCanWrite(v) \/ standing[u] = "none" THEN Refused(t, op) /\ standing[u] # "none"
    ELSE /\ Answer(t, op, TRUE)
         /\ standing' = [w \in People |->
              CASE r = "owner" /\ w = lead /\ standing[w] # "none" -> "admin"
                [] w = u -> r [] OTHER -> standing[w]]
         /\ lead' = IF r = "owner" THEN u ELSE lead
         /\ UNCHANGED <<person, page, score, saved, said>>

\* resolve_accept_membership_request, of somebody the page shows a request of.
AcceptRequest(t, v) ==
  \E u \in tab[t].requests :
    IF ~GroupCanWrite(v) THEN Refused(t, "accept")
    ELSE /\ Answer(t, "accept", TRUE)
         /\ standing' = [standing EXCEPT ![u] = IF InGroup(u) THEN @ ELSE "member"]
         /\ UNCHANGED <<person, lead, page, score, saved, said>>

Join(t, v) ==
  IF ~Logged(v) \/ InGroup(v) THEN Refused(t, "join")
  ELSE /\ Answer(t, "join", TRUE)
       /\ standing' = [standing EXCEPT ![v] = IF Closed /\ ~GroupCanWrite(v) THEN "pending" ELSE "member"]
       /\ UNCHANGED <<person, lead, page, score, saved, said>>

LeaveGroup(t, v) ==
  IF ~Logged(v) \/ LeaveDisabled \/ standing[v] = "none" THEN Refused(t, "leave")
  ELSE /\ Answer(t, "leave", TRUE)
       /\ standing' = [standing EXCEPT ![v] = "none"]
       /\ UNCHANGED <<person, lead, page, score, saved, said>>

PressGroup(t) == /\ tab[t].on = TheGroup
                 /\ LET v == ReaderOf(t) IN ChangeRole(t, v) \/ AcceptRequest(t, v) \/ Join(t, v) \/ LeaveGroup(t, v)

\* resolve_toggle_user_is_banned, resolve_toggle_user_role
\* Mutant of MayBan: oneself too.
MayBanOneself(u, v) == IsSiteAdmin(v) /\ (person[u].active /\ u \in Superadmins => v \in Superadmins)
MayBan(u, v) == IsSiteAdmin(v) /\ u # v /\ (person[u].active /\ u \in Superadmins => v \in Superadmins)
PressUser(t) ==
  /\ tab[t].on \in People
  /\ \E op \in UserOps :
       LET u == tab[t].on  v == ReaderOf(t) IN
       IF ~(IF op = "ban" THEN MayBan(u, v) ELSE IsSiteAdmin(v)) THEN Refused(t, op)
       ELSE /\ Answer(t, op, TRUE)
            /\ person' = [person EXCEPT ![u] = IF op = "ban" THEN [@ EXCEPT !.active = ~@] ELSE [@ EXCEPT !.admin = ~@]]
            /\ UNCHANGED <<standing, lead, page, score, saved, said>>

-----------------------------------------------------------------------------
OffersInit ==
  /\ tab = [t \in Tabs |-> Blank]
  /\ person \in [People -> [admin : BOOLEAN, active : {TRUE}]]
  /\ standing \in [People -> {"none", "member", "admin", "owner", "pending"}]
  /\ lead \in People /\ \A v \in People : v = lead <=> standing[v] = "owner"
  /\ said \in [Pages -> SUBSET People]
  /\ page \in [Pages -> [state : {"published"}, closed : BOOLEAN, best : People \cup {NoOne}]]
  /\ \A p \in Pages : IF Sort[p] = "question" THEN page[p].best \in said[p] \cup {NoOne}
                       ELSE ~page[p].closed /\ page[p].best = NoOne
  /\ score = [p \in Pages |-> [v \in People |-> 0]]
  /\ saved = [p \in Pages |-> {}]
  /\ last = NoPress

OffersNext == \E t \in Tabs : Look(t) \/ PressPost(t) \/ PressGroup(t) \/ PressUser(t)
OffersSpec == OffersInit /\ [][OffersNext]_offers

(***************************************************************************)
(* Properties.                                                             *)
(***************************************************************************)
OffersTypeOK ==
  /\ \A t \in Tabs : tab[t] # Blank => tab[t].offers \subseteq PostOps \cup GroupOps \cup UserOps /\ tab[t].fresh \in BOOLEAN
  /\ person \in [People -> [admin : BOOLEAN, active : BOOLEAN]]
  /\ standing \in [People -> FullRoles \cup {"pending", "none"}] /\ lead \in People
  /\ \A p \in Pages : page[p].best # NoOne => page[p].best \in said[p]
  /\ score \in [Pages -> [People -> {-1, 0, 1}]]
  /\ saved \in [Pages -> SUBSET People] /\ said \in [Pages -> SUBSET People]

\* What a page offers is done if nothing has changed since; only on an archived
\* post are a vote, a bookmark, closing and choosing offered in vain.
OffersHonoured ==
  last.fresh /\ last.offered /\ last.op # "none" => last.done \/ (~last.live /\ last.op \in {"vote", "bookmark", "close", "choose"})

\* What it does not offer is refused: but an administrator of the group can name
\* an owner.
RestRefused ==
  last.fresh /\ last.done => last.offered \/ last.op = "transfer" \/ (last.op = "join" /\ Closed)

\* The pages alone never lead to a vote against.
VotesFor == ~last.stale => \A p \in Pages, v \in People : score[p][v] >= 0

\* A question that is locked is changed by administrators and those who run
\* the group, whatever an old page of its author offers.
LockHolds ==
  [][\A p \in Pages : Sort[p] = "question" /\ LockAfterActivity /\ said[p] # {} /\ page'[p].state # page[p].state =>
       \E t \in Tabs : tab[t].on = p /\ (IsSiteAdmin(TabOf[t]) \/ (p \in GroupPost /\ RunsGroup(TabOf[t])))]_offers

\* The best answer of a question changes while it is open; of a closed one it is
\* only taken away, with the comment.
BestWhileOpen ==
  [][\A p \in Pages : page'[p].best # page[p].best =>
       ~page[p].closed \/ (page'[p].best = NoOne /\ page[p].best \in said[p] \ said'[p])]_offers

\* The two fields that tell a reader's place in the group agree, but for an
\* owner whose own membership was taken.
MembershipTold ==
  \A t \in Tabs : tab[t].on = TheGroup => (tab[t].membership = "joined" <=> tab[t].role \in FullRoles) \/ tab[t].lacking

\* A page offers what would be done, and says how things stand.
OffersSound == OffersTypeOK /\ OffersHonoured /\ RestRefused /\ VotesFor /\ MembershipTold
=============================================================================
