------------------------------ MODULE MCOperations ------------------------------
(***************************************************************************)
(* Instances of the modules for the background work of a site for TLC:     *)
(* the control panel, the copy of a group, the search index, the mail and  *)
(* the letters.                                                            *)
(* The scene says what moves; the others stay in one initial state.        *)
(***************************************************************************)
EXTENDS ControlPanel, GroupCopy, SearchIndex, Mailing, Notices, TLC

CONSTANTS w1, w2, ann, bob

VARIABLE scene

-----------------------------------------------------------------------------
\* The control panel: one worker and the whole life of a site; two workers on
\* sites; follow-ups; records of the search index.
Play ==
  "lifecycle" :> [kinds |-> {"add", "restore", "delete", "backup"}, crew |-> {w1}, tasks |-> 3, deaths |-> 1, days |-> FALSE] @@
  "crossing"  :> [kinds |-> {"delete", "enable", "disable", "add"}, crew |-> {w1, w2}, tasks |-> 2, deaths |-> 0, days |-> FALSE] @@
  "following" :> [kinds |-> {"enable"}, crew |-> {w1, w2}, tasks |-> 2, deaths |-> 1, days |-> TRUE] @@
  "checking"  :> [kinds |-> {"check"}, crew |-> {w1, w2}, tasks |-> 3, deaths |-> 0, days |-> FALSE]
Panels == DOMAIN Play

Allowed ==
  LET p == Play[scene] IN
  /\ \A t \in Tasks : job[t].kind \in p.kinds \cup {"none"} /\ (t > p.tasks => job[t] = NoJob)
  /\ \A w \in CeleryWorkers \ p.crew : busy[w] = Resting
  /\ deaths <= p.deaths
  /\ old # {} => p.days

\* A group with a folder or a file of another group's folder, a file in it, a
\* question whose best answer has a reply, and a file of its own.
SomeTrees == {1 :> p @@ 2 :> 1 @@ 3 :> 0 @@ 4 :> 0 : p \in {0, Outside}}
Seen  == 1 :> "group" @@ 2 :> "subgroup" @@ 3 :> "foreign" @@ 4 :> "public"
On    == 11 :> 3 @@ 12 :> 11
Bests == 1 :> 0 @@ 2 :> 0 @@ 3 :> 11 @@ 4 :> 0

-----------------------------------------------------------------------------
\* The index: things are saved twice while one process works at a time, once
\* where processes are at work side by side.
Indexed == mixed => \A x \in Things : saved[x] <= 1

-----------------------------------------------------------------------------
\* Mail to ann: what her overviews tell, the lists she chooses; or bounces of both.
Periods  == "daily" :> 2 @@ "weekly" :> 4
Mails    == {"telling", "choosing", "banning"}
Wants    == [telling  |-> [interval |-> {"daily", "weekly"}, notices |-> {FALSE}],
             choosing |-> [interval |-> {"daily"}, notices |-> {TRUE}],
             banning  |-> [interval |-> {"never"}, notices |-> {FALSE}]]
Lettered ==
  CASE scene = "telling"  -> /\ past.forms = 0 /\ viewed \in {{}} \cup {{<<ann, p>>} : p \in Texts}
                             /\ published[2] # 0 => published[1] # 0   \* they are alike
    [] scene = "choosing" -> /\ viewed = {} /\ past.mishaps = 0 /\ now < MaxTime - 1
                             /\ \A p \in Texts : p # 1 => published[p] = 0
                             /\ settings = NoRequest \/ settings.who = ann
                             /\ postman[w2] = Out
    [] OTHER -> TRUE

-----------------------------------------------------------------------------
\* Letters: to a group, about an event, with an invitation, and those that come
\* of changes in the administrators, the group and the site.
Leading == [chiefs |-> {{}}, ann |-> {"owner"}, bob |-> {"member"}]
Ruling  == [chiefs |-> {{"ann"}, {"ann", "bob"}}, ann |-> {"none"}, bob |-> {"none"}]
Desk ==
  "messaging" :> [kinds |-> {"group", "user"}, letters |-> 2, turns |-> 2] @@
  "attending" :> [kinds |-> {"event", "registered", "seated", "greeting", "unseated"}, letters |-> 3, turns |-> 2] @@
  "inviting"  :> [kinds |-> {"invite", "reminder"}, letters |-> 3, turns |-> 1] @@
  "ruling"    :> [kinds |-> {"admin", "noAdmin", "asksToGo", "mayGo", "stays", "staysAfterAll", "deleted", "avatars"},
                  letters |-> 4, turns |-> 3] @@
  "entering"  :> [kinds |-> {"invite", "welcome", "asksIn", "letIn", "turnedDown", "newOwner"}, letters |-> 2, turns |-> 2] @@
  "asking"    :> [kinds |-> {"walls", "asks", "accepted", "denied", "avatars", "content", "noContent",
                             "imported", "notImported"}, letters |-> 3, turns |-> 3]
Desks == DOMAIN Desk
Roles ==
  CASE scene = "inviting"  -> [Leading EXCEPT !.bob = {"pending"}]
    [] scene = "entering"  -> [Ruling EXCEPT !.chiefs = {{"ann"}}, !.bob = {"none", "pending", "member", "owner"}]
    [] scene \in {"ruling", "asking"} -> Ruling
    [] OTHER -> Leading
Seats == [Boxes -> [state : {"accept", "waitinglist"}, id : {1}] \cup {NoSeat}]

DeskInit ==
  /\ account \in {[p \in Folk |-> [active |-> TRUE, recent |-> p = "ann" \/ r, box |-> IF p = "ann" THEN "a" ELSE "b"]]
                   : r \in {TRUE, scene # "messaging"}}
  /\ chiefs \in Roles.chiefs
  /\ membership \in {("ann" :> a) @@ ("bob" :> b) : a \in Roles.ann, b \in Roles.bob}
  /\ insiders \in IF scene = "messaging" THEN {{"bob"}} ELSE {{}}
  /\ seat \in IF scene = "attending" THEN {s \in Seats : s["b"].state # "waitinglist"} ELSE {[a \in Boxes |-> NoSeat]}
  /\ leaving \in IF scene = "ruling" THEN {{}, {"bob"}} ELSE {{}}
  /\ NoticesInit

\* What moves besides the letters.
DeskMoves ==
  /\ \A k \in DOMAIN letter' : letter'[k].kind \in Desk[scene].kinds
  /\ Len(letter') <= Desk[scene].letters /\ turns' <= Desk[scene].turns
  /\ scene # "ruling" => UNCHANGED leaving
  /\ scene # "attending" => UNCHANGED booking
  /\ scene # "entering" => UNCHANGED welcome
  /\ scene \notin {"inviting", "entering"} => UNCHANGED invitation
  /\ scene \in {"ruling", "asking"} => UNCHANGED <<membership, standing>>
  /\ scene # "entering" => \A p \in Folk : membership'[p] \in {membership[p], "none"}
  /\ scene \in {"attending", "entering", "asking"} => UNCHANGED account

-----------------------------------------------------------------------------
OneMail == profile[ann].interval = "never" /\ ~profile[ann].notices
OnePanel == domain["d"] = 1 /\ disk["a"] = 0 /\ archive = NoArchive
OneGroup == folderOf[1] = 0 /\ Subgroup \in source /\ "ann" \in team /\ copier.all

MCInit ==
  /\ scene \in Panels \cup {"copying", "indexing"} \cup Mails \cup Desks
  /\ DeskInit /\ PanelInit /\ CopyInit /\ IndexInit /\ MailingInit
  /\ IF scene \in Mails THEN profile[ann].interval \in Wants[scene].interval /\ profile[ann].notices \in Wants[scene].notices
     ELSE OneMail
  /\ profile[bob].interval = "never" /\ ~profile[bob].notices
  /\ domain["d"] = 1
  /\ scene \notin Panels => OnePanel
  /\ scene # "copying" => OneGroup

MCNext ==
  \/ scene \in Panels /\ UNCHANGED <<groupcopy, index, mailing, notices, scene>> /\ PanelNext /\ Allowed'
  \/ scene = "copying" /\ UNCHANGED <<panel, index, mailing, notices, scene>> /\ CopyNext
  \/ scene = "indexing" /\ UNCHANGED <<panel, groupcopy, mailing, notices, scene>> /\ IndexNext /\ Indexed'
  \/ /\ scene \in Mails /\ UNCHANGED <<panel, groupcopy, index, notices, scene>>
     /\ IF scene = "banning" THEN BanStep \/ Wait ELSE MailStep \/ Wait
     /\ Lettered'
  \/ scene \in Desks /\ UNCHANGED <<panel, groupcopy, index, mailing, scene>> /\ NoticesNext /\ DeskMoves
MCSpec == MCInit /\ [][MCNext]_<<panel, groupcopy, index, mailing, notices, scene>>

\* What the tasks bring about: task rows end and stay ended, an index is
\* repaired, letters go where they should.
OperationsKept == FollowUpSettles /\ OutcomeStays /\ RebuildRepairs /\ NoticesKept
=============================================================================
