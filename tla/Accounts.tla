------------------------------- MODULE Accounts -------------------------------
(***************************************************************************)
(* Who gets an account on a site, who keeps it, and who loses it           *)
(* (core/auth.py, core/views.py, user/models.py, profile_sync/views.py,    *)
(* concierge/, core/tasks/cronjobs.py, core/tasks/misc.py and the          *)
(* resolvers about users and access to the site).                          *)
(*                                                                         *)
(* A person is known at the account provider by an identity that stays and *)
(* an e-mail address that may change.  Logging in looks the person up here *)
(* by either.  Who is new needs a ground to be let in: an open site, an    *)
(* invitation, a request an administrator accepted.  The row of a user is  *)
(* read, changed and written back whole by all of the handlers: between    *)
(* the two, others may have banned the user or wiped the row.              *)
(***************************************************************************)
EXTENDS SiteConfig, FiniteSets, Sequences

CONSTANTS
  Persons, Emails,
  Ids,           \* identities of the rows of User
  Workers,
  Offers,        \* what an execution may be about
  Reported,      \* Reported[j]: what the service behind job j reports, in order of time
  MaxCodes,      \* bound on the number of invitation codes
  MaxRequests    \* bound on the number of requests

Allow  == "ALLOW_REGISTRATION"
Jobs   == {"bounce", "orphan"}
Codes  == 1..MaxCodes
NoCode == 0
NoUser == [gone |-> TRUE]
Noone  == "no one"
NoMail == "no address"

VARIABLES
  offer,      \* what this execution is about
  provider,   \* provider[p]: what the account provider tells of p
  rows,       \* rows[i]: a row of User
  asked,      \* asked[m]: the SiteAccessRequest for address m
  invited,    \* invited[m]: the SiteInvitation for address m
  lastCode,   \* codes handed out
  session,    \* session[p]: the session of p's browser
  feed,       \* feed[j]: how many reports the service behind job j has by now
  cursor,     \* cursor[j]: LAST_RECEIVED_BOUNCING_EMAIL, LAST_RECEIVED_DELETED_USER
  proc,       \* proc[w]: where worker w is
  requests,   \* requests begun so far
  cleared,    \* history: addresses that were let in by a ground
  spent,      \* history: who used up a code
  joined,     \* history: persons who got into an account
  seen        \* history: seen[j], the reports dealt with

people == <<provider, rows, asked, invited, lastCode, session>>
work   == <<feed, cursor, proc, requests>>
past   == <<cleared, spent, joined, seen>>
vars   == <<offer, people, work, past, settings>>

\* erased: the name is "Verwijderde gebruiker".
Row == [mail : Emails \cup {NoMail}, ext : Persons \cup {Noone}, erased : BOOLEAN,
        active : BOOLEAN, super : BOOLEAN, admin : BOOLEAN, leave : BOOLEAN]
Profile == [mail : Emails \cup {NoMail}, super : BOOLEAN]
Claims == [person : Persons, mail : Emails, super : BOOLEAN]
NoClaims == [person |-> Noone]
\* An invitation made again keeps its row and gets another code.
Invitation == [pk : Codes, code : Codes]
NoInvitation == [pk |-> NoCode, code |-> NoCode]
Session == [code : Codes \cup {NoCode}, asks : Emails \cup {NoMail},
            claims : Claims \cup {NoClaims}, user : Ids \cup {0}]
Fresh == [code |-> NoCode, asks |-> NoMail, claims |-> NoClaims, user |-> 0]

\* An execution begins with the rows and the sessions it is about; nobody has an
\* onboarding form open.
ASSUME AccountsAssumption ==
  /\ Allow \in Keys
  /\ {"on", "off"} \subseteq Values
  /\ Ids \subseteq Nat \ {0} /\ IsFiniteSet(Ids)
  /\ Noone \notin Persons /\ NoMail \notin Emails
  /\ Reported \in [Jobs -> Seq(Emails \cup Persons)]
  /\ MaxCodes \in Nat /\ MaxRequests \in Nat
  /\ \A o \in Offers :
       /\ o.crew \subseteq Workers /\ IsFiniteSet(o.crew) /\ o.bound \in 0..MaxRequests
       /\ o.rows \in [Ids -> Row \cup {NoUser}]
       /\ o.session \in [Persons -> Session] /\ \A p \in Persons : o.session[p].claims = NoClaims
       /\ o.provider \in [Persons -> Profile]

\* What a worker is at: a person who is let in step by step; the copy of a row
\* to be saved; copies saved in a loop; a job between two reports.
Ways == {"login", "onboarding"}
Free == [at |-> "free"]
Entering == [at : {"approve", "enter"}, claims : Claims, way : {"login"}]
              \cup [at : {"create"}, claims : Claims, way : Ways]
Inviting == [at : {"consume"}, claims : Claims, way : {"login"}, code : Codes, pk : Codes]
Making   == [at : {"forget", "apply", "tidy"}, claims : Claims, way : Ways, new : BOOLEAN,
             id : Ids, row : Row]
Saving   == [at : {"save"}, person : Persons \cup {Noone}, out : BOOLEAN, id : Ids, row : Row]
Fetching == [at : {"fetch"}, id : Ids, row : Row]
Looping  == [at : {"loop"}, person : Persons, out : BOOLEAN, rows : [Ids -> Row \cup {NoUser}],
             left : SUBSET Ids, rounds : Nat]
Running  == [at : {"job"}, job : Jobs, next : Nat, upto : Nat]
Banning  == [at : {"report"}, job : Jobs, next : Nat, upto : Nat, id : Ids, row : Row]
Process  == {Free} \cup Entering \cup Inviting \cup Making \cup Saving \cup Fetching \cup Looping
              \cup Running \cup Banning

(***************************************************************************)
(* Rows.                                                                   *)
(***************************************************************************)
Erased(row) == row # NoUser /\ row.erased /\ ~row.active

\* Who has an account at the provider.
Served == {p \in Persons : provider[p].mail # NoMail}

\* UserManager.get_queryset.  Mutant of Found: with_deleted.
FoundAll(i) == rows[i] # NoUser
Found(i) == rows[i] # NoUser /\ ~Erased(rows[i])
ByMail(m) == {i \in Ids : Found(i) /\ rows[i].mail = m}
ByExt(p)  == {i \in Ids : Found(i) /\ rows[i].ext = p}

\* The unique columns of User.
Taken(i, row) ==
  \E j \in Ids \ {i} :
    /\ rows[j] # NoUser
    /\ \/ row.mail # NoMail /\ rows[j].mail = row.mail
       \/ row.ext # Noone /\ rows[j].ext = row.ext

NewRow(m) ==
  [mail |-> m, ext |-> Noone, erased |-> FALSE, active |-> TRUE, super |-> FALSE,
   admin |-> FALSE, leave |-> FALSE]
FreeIds == {i \in Ids : rows[i] = NoUser /\ \A j \in Ids : j < i => rows[j] # NoUser}

\* User.delete.
Wiped(row) ==
  [mail |-> NoMail, ext |-> Noone, erased |-> TRUE, active |-> FALSE, super |-> FALSE,
   admin |-> FALSE, leave |-> FALSE]

\* User.apply_claims.  Mutant of Applied: the address is stored as the identity.
AppliedSwapped(row, c) == [row EXCEPT !.mail = c.mail, !.ext = c.mail, !.super = c.super]
Applied(row, c) == [row EXCEPT !.mail = c.mail, !.ext = c.person, !.super = c.super]

(***************************************************************************)
(* Requests and the sessions they belong to.                               *)
(***************************************************************************)
At(w, step) == proc[w].at = step
Goto(w, next) == proc' = [proc EXCEPT ![w] = next]
Done(w) == Goto(w, Free)
Asked(kind) ==
  /\ kind \in offer.kinds /\ requests < offer.bound
  /\ requests' = requests + 1
Taking(w, kind) == w \in offer.crew /\ At(w, "free") /\ Asked(kind)

\* One request of a browser at a time.
LettingIn == {"approve", "consume", "enter", "create", "forget", "apply", "tidy"}
Waits(p) == \A w \in Workers : proc[w].at \in LettingIn => proc[w].claims.person # p

\* A browser is logged in as a row unless the row was wiped.
ActsAs(p, i) == session[p].user = i /\ Found(i)
IsAdmin(i) == rows[i].admin \/ rows[i].super

\* UserLastOnlineMiddleware: after the response a banned user is logged out.
AfterResponse(p, out) ==
  session' = IF out THEN [session EXCEPT ![p] = Fresh] ELSE session

\* The callback logs active users in only; onboarding logs in whoever it is, and
\* the middleware then logs a banned user out.
EnterSite(p, i, row, way) ==
  /\ session' = [session EXCEPT ![p] =
       IF row.active
       THEN [@ EXCEPT !.user = i, !.claims = IF way = "login" THEN session[p].claims ELSE NoClaims]
       ELSE IF way = "login" THEN @ ELSE Fresh]
  /\ joined' = joined \cup {p}

(***************************************************************************)
(* Logging in.                                                             *)
(***************************************************************************)
\* login: the link in an invitation leaves its code in the session.
OpenLink(p, code) ==
  /\ Asked("link") /\ Waits(p)
  /\ code <= lastCode
  /\ session' = [session EXCEPT ![p].code = code]
  /\ UNCHANGED <<offer, provider, rows, asked, invited, lastCode, feed, cursor, proc, past, settings>>

\* filter_users_by_claims: nobody is a new person, two rows are refused.
LogIn(w, p) ==
  /\ Taking(w, "login") /\ Waits(p) /\ p \in Served
  /\ LET c == [person |-> p, mail |-> provider[p].mail, super |-> provider[p].super]
         found == ByExt(p) \cup ByMail(c.mail)
     IN  \/ /\ found = {}
            /\ Goto(w, [at |-> "approve", claims |-> c, way |-> "login"])
         \/ \E i \in found :
              /\ found = {i}
              /\ Goto(w, [at |-> "apply", claims |-> c, way |-> "login", new |-> FALSE,
                          id |-> i, row |-> rows[i]])
  /\ UNCHANGED <<offer, people, feed, cursor, past, settings>>

\* requires_approval; a direct domain and an approved identity provider are
\* grounds the claims carry, as being a superadmin is.  Mutant of Cleared: the
\* request need not be accepted.
ClearedOnRequest(c) == Config(Allow) = "on" \/ c.super \/ asked[c.mail] # "none"
Cleared(c) == Config(Allow) = "on" \/ c.super \/ asked[c.mail] = "accepted"

\* Invitations by code, or else by address, are deleted.
Without(code, m) ==
  [n \in Emails |-> IF (code # NoCode /\ invited[n].code = code) \/ (code = NoCode /\ n = m)
                    THEN NoInvitation ELSE invited[n]]

\* Who is not let in is remembered.  Mutant of Refused: as if the onboarding form
\* was to come.
RefusedWaiting(p, c) == [session EXCEPT ![p].asks = c.mail, ![p].claims = c]
Refused(p, c) == [session EXCEPT ![p].asks = c.mail]

Approve(w) ==
  /\ At(w, "approve")
  /\ LET c == proc[w].claims
         p == c.person
         code == session[p].code
     IN \/ /\ Cleared(c)
           /\ invited' = Without(code, c.mail)
           /\ cleared' = cleared \cup {c.mail}
           /\ Goto(w, [proc[w] EXCEPT !.at = "enter"])
           /\ UNCHANGED session
        \/ /\ ~Cleared(c) /\ code # NoCode
           /\ IF \E n \in Emails : invited[n].code = code
              THEN \E n \in Emails :
                     /\ invited[n].code = code
                     /\ Goto(w, [at |-> "consume", claims |-> c, way |-> "login",
                                 code |-> code, pk |-> invited[n].pk])
              ELSE Done(w)
           /\ UNCHANGED <<invited, session, cleared>>
        \/ /\ ~Cleared(c) /\ code = NoCode
           /\ session' = Refused(p, c)
           /\ Done(w)
           /\ UNCHANGED <<invited, cleared>>
  /\ UNCHANGED <<offer, provider, rows, asked, lastCode, feed, cursor, requests, spent, joined, seen, settings>>

\* The invitation is deleted, by its row.  Mutant of Used: it stays.
UsedStays(pk) == invited
Used(pk) == [n \in Emails |-> IF invited[n].pk = pk THEN NoInvitation ELSE invited[n]]
Consume(w) ==
  /\ At(w, "consume")
  /\ LET c == proc[w].claims IN
       /\ invited' = Used(proc[w].pk)
       /\ session' = [session EXCEPT ![c.person].code = NoCode]
       /\ cleared' = cleared \cup {c.mail}
       /\ spent' = [spent EXCEPT ![proc[w].code] = @ \cup {c.person}]
       /\ Goto(w, [at |-> "enter", claims |-> c, way |-> "login"])
  /\ UNCHANGED <<offer, provider, rows, asked, lastCode, feed, cursor, requests, joined, seen, settings>>

\* With onboarding the claims wait in the session.
Waiting(c) == offer.onboarding /\ ~c.super
\* Mutant of Enter: the exception is raised before the claims are stored.
EnterLost(w) ==
  /\ At(w, "enter")
  /\ IF Waiting(proc[w].claims) THEN Done(w) ELSE Goto(w, [proc[w] EXCEPT !.at = "create"])
  /\ UNCHANGED <<offer, people, feed, cursor, requests, past, settings>>
Enter(w) ==
  /\ At(w, "enter")
  /\ LET c == proc[w].claims IN
     IF Waiting(c)
     THEN session' = [session EXCEPT ![c.person].claims = c] /\ Done(w)
     ELSE Goto(w, [proc[w] EXCEPT !.at = "create"]) /\ UNCHANGED session
  /\ UNCHANGED <<offer, provider, rows, asked, invited, lastCode, feed, cursor, requests, past, settings>>

\* UserManager.create_user: the row, then the access request.
Create(w) ==
  /\ At(w, "create")
  /\ LET c == proc[w].claims IN
     IF Taken(0, NewRow(c.mail))
     THEN Done(w) /\ UNCHANGED rows
     ELSE \E i \in FreeIds :
            /\ rows' = [rows EXCEPT ![i] = NewRow(c.mail)]
            /\ Goto(w, [at |-> "forget", claims |-> c, way |-> proc[w].way, new |-> TRUE,
                        id |-> i, row |-> NewRow(c.mail)])
  /\ UNCHANGED <<offer, provider, asked, invited, lastCode, session, feed, cursor, requests, past, settings>>

Forget(w) ==
  /\ At(w, "forget")
  /\ asked' = [asked EXCEPT ![proc[w].claims.mail] = "none"]
  /\ Goto(w, [proc[w] EXCEPT !.at = "apply"])
  /\ UNCHANGED <<offer, provider, rows, invited, lastCode, session, feed, cursor, requests, past, settings>>

\* The claims go into the copy of the row; logging in lifts a superadmin's ban.
Updated(row, c, lifts) == [Applied(row, c) EXCEPT !.active = @ \/ (lifts /\ c.super)]
Apply(w) ==
  /\ At(w, "apply")
  /\ LET step == proc[w]
         old == step.way = "login" /\ ~step.new
         row == Updated(step.row, step.claims, old)
     IN \/ /\ Taken(step.id, row)
           /\ Done(w)
           /\ UNCHANGED <<rows, session, joined>>
        \/ /\ ~Taken(step.id, row)
           /\ rows' = [rows EXCEPT ![step.id] = row]
           /\ IF old THEN /\ Goto(w, [step EXCEPT !.at = "tidy", !.row = row])
                          /\ UNCHANGED <<session, joined>>
                     ELSE /\ EnterSite(step.claims.person, step.id, row, step.way)
                          /\ Done(w)
  /\ UNCHANGED <<offer, provider, asked, invited, lastCode, feed, cursor, requests, cleared, spent, seen, settings>>

\* update_user, its end: the invitation for the address is deleted.
Tidy(w) ==
  /\ At(w, "tidy")
  /\ invited' = Without(NoCode, proc[w].row.mail)
  /\ EnterSite(proc[w].claims.person, proc[w].id, proc[w].row, "login")
  /\ Done(w)
  /\ UNCHANGED <<offer, provider, rows, asked, lastCode, feed, cursor, requests, cleared, spent, seen, settings>>

\* onboarding, the form is sent: get_or_create_claims.
Onboard(w, p) ==
  /\ Taking(w, "onboard") /\ Waits(p)
  /\ session[p].claims # NoClaims /\ \A i \in Ids : ~ActsAs(p, i)
  /\ LET c == session[p].claims IN
     \/ /\ ByMail(c.mail) = {}
        /\ Goto(w, [at |-> "create", claims |-> c, way |-> "onboarding"])
     \/ \E i \in ByMail(c.mail) :
          Goto(w, [at |-> "apply", claims |-> c, way |-> "onboarding", new |-> FALSE,
                   id |-> i, row |-> rows[i]])
  /\ UNCHANGED <<offer, people, feed, cursor, past, settings>>

(***************************************************************************)
(* Asking for access, and inviting.  Each is one short request; the window *)
(* between its query and its save is left out.                             *)
(***************************************************************************)
\* request_access, the form is sent.
AskAccess(p) ==
  /\ Asked("ask") /\ Waits(p)
  /\ session[p].asks # NoMail
  /\ asked' = [asked EXCEPT ![session[p].asks] = IF @ = "none" THEN "pending" ELSE @]
  /\ UNCHANGED <<offer, provider, rows, invited, lastCode, session, feed, cursor, proc, past, settings>>

\* An administrator does something about address m.
ByAdmin(kind) ==
  /\ Asked(kind)
  /\ \E p \in Persons, i \in Ids :
       /\ Waits(p) /\ ActsAs(p, i) /\ IsAdmin(i)
       /\ AfterResponse(p, ~rows[i].active)

\* handleSiteAccessRequest.
Answer(m, accept) ==
  /\ ByAdmin("answer")
  /\ asked[m] # "none"
  /\ asked' = [asked EXCEPT ![m] = IF accept THEN "accepted" ELSE "none"]
  /\ UNCHANGED <<offer, provider, rows, invited, lastCode, feed, cursor, proc, past, settings>>

\* inviteToSite: a new code, in the row of an earlier invitation if there is one.
Invite(m) ==
  /\ ByAdmin("invite")
  /\ lastCode < MaxCodes
  /\ lastCode' = lastCode + 1
  /\ invited' = [invited EXCEPT ![m] =
       [pk |-> IF @ = NoInvitation THEN lastCode + 1 ELSE @.pk, code |-> lastCode + 1]]
  /\ UNCHANGED <<offer, provider, rows, asked, feed, cursor, proc, past, settings>>

\* revokeInviteToSite.
Revoke(m) ==
  /\ ByAdmin("revoke")
  /\ invited' = [invited EXCEPT ![m] = NoInvitation]
  /\ UNCHANGED <<offer, provider, rows, asked, lastCode, feed, cursor, proc, past, settings>>

(***************************************************************************)
(* Changing a row: a handler reads it, and writes all of it back later.    *)
(* Below, what is written for i when j asks, nothing if that is refused.   *)
(***************************************************************************)
Unless(refused, row) == IF refused THEN {} ELSE {row}

\* toggleUserIsBanned.
ToggleBan(j, i) ==
  Unless(~IsAdmin(j) \/ i = j \/ (rows[i].active /\ rows[i].super /\ ~rows[j].super),
         [rows[i] EXCEPT !.active = ~@])
\* toggleUserRole.
ToggleRole(j, i) == Unless(~IsAdmin(j), [rows[i] EXCEPT !.admin = ~@])
\* toggleRequestDeleteUser.
ToggleLeave(j, i) == Unless(i # j, [rows[i] EXCEPT !.leave = ~@])
\* handleDeleteAccountRequest.
AnswerLeave(j, i) ==
  UNION {Unless(~IsAdmin(j) \/ ~rows[i].leave, row) :
           row \in {Wiped(rows[i]), [rows[i] EXCEPT !.leave = FALSE]}}
\* deleteUser.
DeleteUser(j, i) ==
  Unless(~IsAdmin(j) \/ (rows[i].super /\ ~rows[j].super), Wiped(rows[i]))
\* editUserName.
EditName(j, i) == Unless(i # j /\ ~IsAdmin(j), [rows[i] EXCEPT !.erased = FALSE])

Written(kind, j, i) ==
  CASE kind = "ban"    -> ToggleBan(j, i)
    [] kind = "role"   -> ToggleRole(j, i)
    [] kind = "leave"  -> ToggleLeave(j, i)
    [] kind = "accept" -> AnswerLeave(j, i)
    [] kind = "delete" -> DeleteUser(j, i)
    [] kind = "name"   -> EditName(j, i)
Changes == {"ban", "role", "leave", "accept", "delete", "name"}

Change(w, p, i, kind) ==
  /\ Taking(w, kind) /\ Waits(p)
  /\ Found(i)
  /\ \E j \in Ids : /\ ActsAs(p, j)
                  /\ \E row \in Written(kind, j, i) :
                       Goto(w, [at |-> "save", person |-> p, out |-> ~rows[j].active,
                                id |-> i, row |-> row])
  /\ UNCHANGED <<offer, people, feed, cursor, past, settings>>

\* What calls from outside write into the row: profile synchronisation edits (the
\* address only if it is free), bans, lifts a ban and deletes; the account
\* service bans, by identity or address.
SyncEdit(i, m) ==
  Unless(ByMail(m) \notin {{}, {i}},
         [rows[i] EXCEPT !.mail = IF ByMail(m) = {} THEN m ELSE @,
                         !.erased = FALSE, !.active = TRUE])
SyncBan(i)    == {[rows[i] EXCEPT !.active = FALSE]}
SyncUnban(i)  == {[rows[i] EXCEPT !.active = TRUE]}
SyncDelete(i) == {Wiped(rows[i])}
ServiceBan(i) ==
  UNION {Unless(ByExt(p) \cup ByMail(provider[p].mail) # {i}, [rows[i] EXCEPT !.active = FALSE]) :
           p \in Served}

External(w, i) ==
  /\ Taking(w, "sync")
  /\ Found(i)
  /\ \E row \in UNION ({SyncEdit(i, m) : m \in Emails}
                          \cup {SyncBan(i), SyncUnban(i), SyncDelete(i), ServiceBan(i)}) :
       Goto(w, [at |-> "save", person |-> Noone, out |-> FALSE, id |-> i, row |-> row])
  /\ UNCHANGED <<offer, people, feed, cursor, past, settings>>

\* profile_updated_signal: the row is read, then the profile is fetched.
Fetch(w, i) ==
  /\ Taking(w, "fetch")
  /\ Found(i) /\ rows[i].ext # Noone
  /\ Goto(w, [at |-> "fetch", id |-> i, row |-> rows[i]])
  /\ UNCHANGED <<offer, people, feed, cursor, past, settings>>

Fetched(w) ==
  /\ At(w, "fetch")
  /\ LET row == proc[w].row
         p == row.ext
     IN \/ Done(w)     \* an error is answered; the task is tried again later
        \/ \E active \in {row.active, FALSE, TRUE} :
             Goto(w, [at |-> "save", person |-> Noone, out |-> FALSE, id |-> proc[w].id,
                      row |-> [row EXCEPT !.mail = provider[p].mail, !.super = provider[p].super,
                                          !.erased = FALSE, !.active = active]])
  /\ UNCHANGED <<offer, people, feed, cursor, requests, past, settings>>

\* User.save, of the whole copy.
StoreRow(w) ==
  /\ At(w, "save")
  /\ rows' = IF Taken(proc[w].id, proc[w].row) THEN rows
             ELSE [rows EXCEPT ![proc[w].id] = proc[w].row]
  /\ IF proc[w].person = Noone THEN UNCHANGED session
     ELSE AfterResponse(proc[w].person, proc[w].out)
  /\ Done(w)
  /\ UNCHANGED <<offer, provider, asked, invited, lastCode, feed, cursor, requests, past, settings>>

\* editUsers: the rows are read together, and for each of them all of them are saved.
EditUsers(w, p, chosen, active) ==
  /\ Taking(w, "users") /\ Waits(p)
  /\ chosen # {} /\ \A i \in chosen : Found(i)
  /\ \E j \in Ids \ chosen :
       /\ ActsAs(p, j) /\ IsAdmin(j)
       /\ Goto(w, [at |-> "loop", person |-> p, out |-> ~rows[j].active,
                   rows |-> [i \in Ids |-> IF i \in chosen THEN [rows[i] EXCEPT !.active = active]
                                          ELSE NoUser],
                   left |-> chosen, rounds |-> Cardinality(chosen)])
  /\ UNCHANGED <<offer, people, feed, cursor, past, settings>>

StoreNext(w) ==
  /\ At(w, "loop")
  /\ \E i \in proc[w].left :
       LET step == proc[w]
           left == step.left \ {i}
           again == {k \in Ids : step.rows[k] # NoUser}
           refused == Taken(i, step.rows[i])
           ends == refused \/ (left = {} /\ step.rounds = 1)
       IN /\ rows' = IF refused THEN rows ELSE [rows EXCEPT ![i] = step.rows[i]]
          /\ IF ends THEN Done(w) /\ AfterResponse(step.person, step.out)
             ELSE /\ Goto(w, IF left # {} THEN [step EXCEPT !.left = left]
                             ELSE [step EXCEPT !.left = again, !.rounds = @ - 1])
                  /\ UNCHANGED session
  /\ UNCHANGED <<offer, provider, asked, invited, lastCode, feed, cursor, requests, past, settings>>

\* Profile synchronisation without a guid, and UserCsvRowImporter: a row for an
\* address nobody here has.
Import(m) ==
  /\ Asked("import")
  /\ ByMail(m) = {} /\ ~Taken(0, NewRow(m))
  /\ \E i \in FreeIds : rows' = [rows EXCEPT ![i] = NewRow(m)]
  /\ UNCHANGED <<offer, provider, asked, invited, lastCode, session, feed, cursor, proc, past, settings>>

(***************************************************************************)
(* The nightly jobs.                                                       *)
(***************************************************************************)
StartJob(w, j) ==
  /\ w \in offer.crew /\ At(w, "free") /\ "job" \in offer.kinds
  /\ Goto(w, [at |-> "job", job |-> j, next |-> cursor[j] + 1, upto |-> feed[j]])
  /\ UNCHANGED <<offer, people, feed, cursor, requests, past, settings>>

About(j, n) == IF j = "bounce" THEN ByMail(Reported[j][n]) ELSE ByExt(Reported[j][n])

\* The user a report is about is read; one that is not there, or banned, is skipped.
ReadReport(w) ==
  /\ At(w, "job") /\ proc[w].next <= proc[w].upto
  /\ LET j == proc[w].job
         n == proc[w].next
         live == {i \in About(j, n) : rows[i].active}
     IN \/ /\ live = {}
           /\ Goto(w, [proc[w] EXCEPT !.next = @ + 1])
           /\ seen' = [seen EXCEPT ![j] = @ \cup {n}]
        \/ \E i \in live :
             /\ Goto(w, [at |-> "report", job |-> j, next |-> n, upto |-> proc[w].upto,
                         id |-> i, row |-> [rows[i] EXCEPT !.active = FALSE]])
             /\ UNCHANGED seen
  /\ UNCHANGED <<offer, people, feed, cursor, requests, cleared, spent, joined, settings>>

BanReported(w) ==
  /\ At(w, "report")
  /\ LET step == proc[w] IN
     IF Taken(step.id, step.row)
     THEN Done(w) /\ UNCHANGED <<rows, seen>>
     ELSE /\ rows' = [rows EXCEPT ![step.id] = step.row]
          /\ seen' = [seen EXCEPT ![step.job] = @ \cup {step.next}]
          /\ Goto(w, [at |-> "job", job |-> step.job, next |-> step.next + 1, upto |-> step.upto])
  /\ UNCHANGED <<offer, provider, asked, invited, lastCode, session, feed, cursor, requests,
                 cleared, spent, joined, settings>>

\* The last report that was read is remembered.  Mutants of Reached: the first
\* report that was not read; the cursor the job began with.
ReachedNext(step, old) == step.next
ReachedOld(step, old) == old
Reached(step, old) == step.next - 1
EndJob(w) ==
  /\ At(w, "job") /\ proc[w].next > proc[w].upto
  /\ cursor' = [cursor EXCEPT ![proc[w].job] = Reached(proc[w], @)]
  /\ Done(w)
  /\ UNCHANGED <<offer, people, feed, requests, past, settings>>

(***************************************************************************)
(* Outside.                                                                *)
(***************************************************************************)
\* The service behind a job has another report.
Report(j) ==
  /\ "job" \in offer.kinds /\ feed[j] < Len(Reported[j])
  /\ feed' = [feed EXCEPT ![j] = @ + 1]
  /\ UNCHANGED <<offer, people, cursor, proc, requests, past, settings>>

\* A person's address changes at the account provider, or is the first one there;
\* addresses are unique.
Move(p, m) ==
  /\ Asked("move")
  /\ \A q \in Persons : provider[q].mail # m
  /\ provider' = [provider EXCEPT ![p].mail = m]
  /\ UNCHANGED <<offer, rows, asked, invited, lastCode, session, feed, cursor, proc, past, settings>>

\* A worker dies and what it had read is lost.
Crash(w) ==
  /\ Asked("crash")
  /\ ~At(w, "free")
  /\ Done(w)
  /\ UNCHANGED <<offer, people, feed, cursor, past, settings>>

(***************************************************************************)
(* The specification.                                                      *)
(***************************************************************************)
Init ==
  /\ offer \in Offers
  /\ rows = offer.rows /\ session = offer.session /\ provider = offer.provider
  /\ asked = [m \in Emails |-> "none"]
  /\ invited = [m \in Emails |-> NoInvitation]
  /\ lastCode = 0
  /\ feed = [j \in Jobs |-> 0] /\ cursor = [j \in Jobs |-> 0]
  /\ proc = [w \in Workers |-> Free]
  /\ requests = 0
  /\ cleared = {} /\ spent = [c \in Codes |-> {}] /\ joined = {}
  /\ seen = [j \in Jobs |-> {}]
  /\ SettingsInit

Step(w) ==
  \/ Approve(w) \/ Consume(w) \/ Enter(w) \/ Create(w) \/ Forget(w) \/ Apply(w) \/ Tidy(w)
  \/ Fetched(w) \/ StoreRow(w) \/ StoreNext(w) \/ ReadReport(w) \/ BanReported(w) \/ EndJob(w)

Take(w) ==
  \/ \E p \in Persons :
       \/ LogIn(w, p) \/ Onboard(w, p)
       \/ \E i \in Ids, kind \in Changes : Change(w, p, i, kind)
       \/ \E chosen \in SUBSET Ids, active \in BOOLEAN : EditUsers(w, p, chosen, active)
  \/ \E i \in Ids : External(w, i) \/ Fetch(w, i)
  \/ \E j \in Jobs : StartJob(w, j)

ChangeSettings == "settings" \in offer.kinds /\ SettingsNext /\ UNCHANGED <<offer, people, work, past>>

Next ==
  \/ \E w \in Workers : Take(w) \/ Step(w) \/ Crash(w)
  \/ \E p \in Persons : AskAccess(p) \/ \E c \in Codes : OpenLink(p, c)
  \/ \E m \in Emails :
       \/ Invite(m) \/ Revoke(m) \/ Import(m)
       \/ \E accept \in BOOLEAN : Answer(m, accept)
       \/ \E p \in Persons : Move(p, m)
  \/ \E j \in Jobs : Report(j)
  \/ ChangeSettings

Spec == Init /\ [][Next]_vars

\* Requests that began go on; Celery beat starts the jobs every night and their
\* messages wait for a worker; memcached drops entries after its time-out.
FairSpec ==
  /\ Spec
  /\ \A w \in Workers : WF_vars(Step(w))
  /\ \A j \in Jobs : SF_vars(\E w \in Workers : StartJob(w, j))
  /\ SettingsFairness

(***************************************************************************)
(* Properties.                                                             *)
(***************************************************************************)
\* Rows, requests, invitations, sessions and what workers carry keep their types.
TypeOK ==
  /\ offer \in Offers
  /\ provider \in [Persons -> Profile]
  /\ rows \in [Ids -> Row \cup {NoUser}]
  /\ asked \in [Emails -> {"none", "pending", "accepted"}]
  /\ invited \in [Emails -> Invitation \cup {NoInvitation}]
  /\ lastCode \in 0..MaxCodes
  /\ session \in [Persons -> Session]
  /\ feed \in [Jobs -> Nat] /\ cursor \in [Jobs -> Nat]
  /\ proc \in [Workers -> Process]
  /\ requests \in 0..MaxRequests
  /\ cleared \subseteq Emails /\ spent \in [Codes -> SUBSET Persons] /\ joined \subseteq Persons
  /\ seen \in [Jobs -> SUBSET Nat]
  /\ SettingsTypeOK

\* One code lets in one person; no more than there are processes when several
\* find the invitation before one of them deletes it.
InvitationBound == \A c \in Codes : Cardinality(spent[c]) <= Cardinality(offer.crew)

Alone == Cardinality(offer.crew) = 1 /\ "crash" \notin offer.kinds

\* With one process that does not die, who used up an invitation gets in, or has
\* the onboarding form waiting: no code is spent for nothing.
NotSpentForNothing ==
  Alone =>
    \A c \in Codes : \A p \in spent[c] :
      \/ p \in joined \/ session[p].claims # NoClaims
      \/ \E w \in Workers : proc[w].at \in LettingIn /\ proc[w].claims.person = p

\* Rows that a login or an onboarding form makes are for addresses that were let in,
\* though the form comes in another request than the check.
Grounded ==
  [][\A i \in Ids :
       rows[i] = NoUser /\ rows'[i] # NoUser /\ requests' = requests => rows'[i].mail \in cleared]_vars

\* With one process a row that was wiped stays wiped: nothing that finds users
\* finds it, and nothing that was begun before is still to be saved.
WipedStaysWiped ==
  [][\A i \in Ids :
       Cardinality(offer.crew) = 1 /\ Erased(rows[i]) => rows'[i] = rows[i]]_vars

\* The cursor of a job never passes a report that was not dealt with, wherever
\* the job dies.
ReportsDealtWith == \A j \in Jobs : 1..cursor[j] \subseteq seen[j]

\* Every report is dealt with in the end.
ReportsReached ==
  \A j \in Jobs : \A n \in 1..Len(Reported[j]) : (feed[j] >= n) ~> (cursor[j] >= n)

StoredAllow == IF stored[Allow] \in Values THEN stored[Allow] ELSE Default[Allow]

\* A new person is let in without a request or an invitation only while the row of
\* the setting says so, unless that row is being written, or was written while
\* somebody else read it or died.
ClosedMeansClosed ==
  [][\A w \in Workers :
       /\ At(w, "approve") /\ proc'[w].at = "enter"
       /\ ~proc[w].claims.super /\ asked[proc[w].claims.mail] # "accepted"
       => \/ StoredAllow = "on" \/ torn[Allow]
          \/ \E c \in Clients : Writing(c, Allow)
    ]_vars

\* Invitations and reports are spent and dealt with as they should.
AccountsSound == TypeOK /\ InvitationBound /\ NotSpentForNothing /\ ReportsDealtWith
\* Who gets a row, who keeps it, and that reports and stale settings do not stay.
AccountsKept == Grounded /\ WipedStaysWiped /\ ClosedMeansClosed /\ ReportsReached /\ Heals
===============================================================================
