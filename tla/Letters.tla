------------------------------- MODULE Letters -------------------------------
(***************************************************************************)
(* The letters people write: messages to a group, to a person, to those    *)
(* who attend an event, the letters about seats, and the invitations to a  *)
(* group with their reminders.  A letter is a row with a task; the worker  *)
(* looks up the receiver and what the letter is about, so what happened    *)
(* since decides where it goes (core/models/mail.py, core/mail_builders/,  *)
(* event/mail_builders/, core/resolvers/mutation_send_message_*.py,        *)
(* event/resolvers/mutation_messages.py, mutation_*_group_invitation.py).  *)
(* One group and one event; a request runs alone.                          *)
(***************************************************************************)
EXTENDS Integers, FiniteSets, SequencesExt

CONSTANTS
  Folk,        \* people with an account
  Boxes,       \* e-mail addresses
  MaxLetters,  \* bound on the letters written
  MaxTurns     \* bound on what happens to accounts, members, attendees and the rest

VARIABLES
  account,     \* account[p]: the row of p
  chiefs,      \* the administrators of the site
  membership,  \* membership[p]: its type in the group, "none" without
  insiders,    \* members of the subgroup
  standing,    \* the group is there
  welcome,     \* it has a welcome message
  seat,        \* seat[a]: the attendee with address a
  held,        \* the event is there
  invitation,  \* the rows of invitations to the group
  lastKey,     \* the key that the last invitation or attendee got
  letter,      \* the letters in the order they were written
  turns        \* changes so far

folk    == <<account, chiefs, membership, insiders, standing, welcome>>
booking == <<seat, held>>
correspondence == <<account, chiefs, membership, insiders, standing, welcome, seat, held, invitation, lastKey, letter, turns>>

NoPerson  == "nobody"
Addresses == Boxes \cup Folk   \* a deleted account gets an address that is its own
Account   == [active : BOOLEAN, recent : BOOLEAN, box : Addresses]
Nothing   == [id |-> 0, who |-> NoPerson, box |-> NoPerson]
Test      == [Nothing EXCEPT !.who = "test"]
NoSeat    == [state |-> "none", id |-> 0]

ASSUME LettersAssumption ==
  /\ IsFiniteSet(Folk) /\ IsFiniteSet(Boxes)
  /\ Folk \cap Boxes = {} /\ NoPerson \notin Folk \cup Boxes
  /\ MaxTurns \in Nat

\* The mailers, those of Notices among them.
Mailers == {"group", "user", "event", "invite", "reminder", "greeting", "registered", "seated", "unseated"}
  \cup {"admin", "noAdmin", "asksToGo", "mayGo", "staysAfterAll", "stays", "deleted", "walls", "asks", "accepted", "denied",
        "asksIn", "letIn", "turnedDown", "newOwner", "welcome", "avatars", "content", "noContent", "imported", "notImported"}

\* The row of an invitation, and of a letter; the row a letter is about.
Invitation == [id : Nat, who : Folk \cup {NoPerson}, box : Addresses]
About      == [id : Nat, who : Folk \cup {NoPerson, "test"}, box : Addresses \cup {NoPerson}]
LetterRow  == [kind : Mailers, who : Folk \cup {NoPerson}, box : Addresses \cup {NoPerson}, copy : BOOLEAN,
               about : About, of : Addresses \cup {NoPerson}, by : Folk \cup {NoPerson}, request : Nat,
               state : {"waiting", "sent", "dropped", "failed"}, at : Addresses \cup {NoPerson}]

LettersInit ==
  /\ account \in [Folk -> [active : {TRUE}, recent : BOOLEAN, box : Boxes]]
  /\ \A p, q \in Folk : p # q => account[p].box # account[q].box
  /\ chiefs \in SUBSET Folk
  /\ membership \in [Folk -> {"none", "pending", "member", "owner"}]
  /\ insiders \in SUBSET {p \in Folk : membership[p] # "none"}
  /\ seat \in [Boxes -> [state : {"accept", "waitinglist"}, id : {1}] \cup {NoSeat}]
  /\ standing = TRUE /\ welcome = TRUE /\ held = TRUE
  /\ invitation = {} /\ lastKey = 1 /\ letter = <<>> /\ turns = 0

-----------------------------------------------------------------------------
(***************************************************************************)
(* Delivering.                                                             *)
(***************************************************************************)
\* A letter: its mailer, to a person or an address, a copy, the row it is about,
\* the person it tells of, and who sends it.
Letter(kind, who, box, copy, about, of, by) ==
  [kind |-> kind, who |-> who, box |-> box, copy |-> copy, about |-> about, of |-> of, by |-> by,
   request |-> IF letter = <<>> THEN 1 ELSE letter[Len(letter)].request + 1, state |-> "waiting", at |-> NoPerson]

Post(list) == Len(letter) + Len(list) <= MaxLetters /\ letter' = letter \o list

\* The address of a letter: that of the account, read now, or the one in it.
Address(l) == IF l.who # NoPerson THEN account[l.who].box ELSE l.box

\* The kinds of letters that need the group, the event, or a row of their own.
OfGroup == {"group", "invite", "asksIn", "letIn", "turnedDown", "newOwner", "welcome"}
OfEvent == {"event", "unseated"}
OfSeat  == {"registered", "seated", "greeting"}

\* An account that was deleted: it is found by nobody who looks for it.
Gone(p) == p \in Folk /\ account[p].box = p
\* The people a mailer looks up; of who was deleted it has the name, and that of
\* the avatars loads the row of their export.
LooksUp(l) == CASE l.kind = "avatars" -> {} [] l.kind = "deleted" -> {l.by} [] OTHER -> {l.who, l.of, l.by}

\* Mutant of Unbuilt: only what the letter is of is looked up, not its row.
UnbuiltLoosely(l) ==
  \/ \E p \in LooksUp(l) : Gone(p)
  \/ l.kind \in OfGroup /\ ~standing
  \/ l.kind \in OfEvent \cup OfSeat /\ ~held
\* A letter from, to or about what is gone cannot be built.
Unbuilt(l) ==
  \/ \E p \in LooksUp(l) : Gone(p)
  \/ l.kind \in OfGroup /\ ~standing
  \/ l.kind \in OfEvent /\ ~held
  \/ l.kind \in OfSeat /\ seat[l.box].id # l.about.id
  \/ l.kind = "reminder" /\ l.about \notin invitation

\* assert_not_known_inactive_user: by address, whoever the letter was meant for;
\* an account that was deleted is not found.
\* Mutant of KnownInactive: the address in the letter is looked at, not where it goes.
KnownInactiveWritten(l) == \E p \in Folk : ~account[p].active /\ ~Gone(p) /\ account[p].box = l.box
KnownInactive(l)        == \E p \in Folk : ~account[p].active /\ ~Gone(p) /\ account[p].box = Address(l)

Withheld(l)  == KnownInactive(l) \/ (l.kind = "welcome" /\ ~welcome)
Delivered(l) == [l EXCEPT !.state = IF Withheld(l) THEN "dropped" ELSE "sent",
                          !.at = IF Withheld(l) THEN NoPerson ELSE Address(l)]
Sent(l) == IF Unbuilt(l) THEN [l EXCEPT !.state = "failed"] ELSE Delivered(l)

SendMail(k) ==
  /\ letter[k].state = "waiting"
  /\ letter' = [letter EXCEPT ![k] = Sent(letter[k])]
  /\ UNCHANGED <<folk, booking, invitation, lastKey, turns>>

-----------------------------------------------------------------------------
(***************************************************************************)
(* Messages.                                                               *)
(***************************************************************************)
LeadsGroup(u) == account[u].active /\ (u \in chiefs \/ membership[u] \in {"admin", "owner"})
IsMember(p)   == membership[p] # "none"
Awake(p)      == account[p].active /\ account[p].recent

SendGroupMessageMailer(u, p, copy) == Letter("group", p, NoPerson, copy, Nothing, NoPerson, u)
UserSendMessageMailer(u, p, copy)  == Letter("user", p, NoPerson, copy, Nothing, NoPerson, u)
CustomMessageMailer(u, box, copy, about) == Letter("event", NoPerson, box, copy, about, NoPerson, u)

\* Mutant of Written: the copy is sent whoever else gets the letter.
WrittenTwice(u, receivers, copy) ==
  [i \in DOMAIN receivers |-> SendGroupMessageMailer(u, receivers[i], FALSE)]
    \o (IF copy THEN <<SendGroupMessageMailer(u, u, TRUE)>> ELSE <<>>)
\* One letter to each receiver, and the copy when the sender is none of them.
Written(u, receivers, copy) ==
  [i \in DOMAIN receivers |-> SendGroupMessageMailer(u, receivers[i], FALSE)]
    \o (IF copy /\ u \notin Range(receivers) THEN <<SendGroupMessageMailer(u, u, TRUE)>> ELSE <<>>)

\* The receivers: oneself, every row of the group, or those of the subgroup,
\* whoever they are, and then the chosen ones that were here lately.
ReceiversOf(u, want) ==
  CASE want.to = "test" -> <<u>>
    [] want.to = "all"  -> SetToSeq({p \in Folk : IsMember(p) /\ Awake(p)})
    [] OTHER -> SetToSeq({p \in insiders : want.subgroup /\ IsMember(p)})
                  \o SetToSeq({p \in want.chosen : IsMember(p) /\ Awake(p)})

MessageToGroup(u, want, copy) ==
  /\ LeadsGroup(u) /\ standing /\ (want.subgroup => insiders # {})
  /\ Post(Written(u, ReceiversOf(u, want), copy))
  /\ UNCHANGED <<folk, booking, invitation, lastKey, turns>>

MessageToUser(u, p, copy) ==
  /\ account[u].active /\ ~Gone(p)
  /\ Post(<<UserSendMessageMailer(u, p, FALSE)>> \o (IF copy THEN <<UserSendMessageMailer(u, u, TRUE)>> ELSE <<>>))
  /\ UNCHANGED <<folk, booking, invitation, lastKey, turns>>

\* To those who attend, at the address in their row; the sender's own letters
\* go before the request ends.
ToEvent(u, box, copy, about) ==
  LET l == CustomMessageMailer(u, box, copy, about)
  IN  IF box = account[u].box THEN Sent(l) ELSE l
MessageToEvent(u, test, copy) ==
  LET going == {a \in Boxes : ~test /\ seat[a].state = "accept"}
      own   == account[u].box
      about == IF test THEN Test ELSE Nothing
  IN  /\ held /\ LeadsGroup(u)
      /\ Post(SetToSeq({ToEvent(u, a, FALSE, about) : a \in IF test THEN {own} ELSE going})
                 \o (IF copy /\ own \notin going THEN <<ToEvent(u, own, TRUE, about)>> ELSE <<>>))
      /\ UNCHANGED <<folk, booking, invitation, lastKey, turns>>

-----------------------------------------------------------------------------
(***************************************************************************)
(* Invitations, of an account or of an address without one.                *)
(***************************************************************************)
Invited(who, box) == {i \in invitation : (i.who = who /\ who # NoPerson) \/ i.box = box}
OfAddress(a) == IF \E p \in Folk : account[p].box = a THEN CHOOSE p \in Folk : account[p].box = a ELSE NoPerson
InviteToGroupMailer(u, who, box) ==
  Letter("invite", who, IF who = NoPerson THEN box ELSE NoPerson, FALSE, Nothing, NoPerson, u)
ResendGroupInvitationMailer(u, i) ==
  Letter("reminder", i.who, IF i.who = NoPerson THEN i.box ELSE NoPerson, FALSE, i, NoPerson, u)

\* Mutant of Invite: an account is looked up by its own row only.
InviteAgain(u, who, box) ==
  /\ LeadsGroup(u) /\ standing
  /\ Post(<<InviteToGroupMailer(u, who, box)>>)
  /\ IF \E i \in invitation : i.who = who /\ who # NoPerson THEN UNCHANGED <<invitation, lastKey>>
     ELSE /\ lastKey' = lastKey + 1
          /\ invitation' = invitation \cup {[id |-> lastKey', who |-> who, box |-> box]}
  /\ UNCHANGED <<folk, booking, turns>>
Invite(u, who, box) ==
  /\ LeadsGroup(u) /\ standing
  /\ Post(<<InviteToGroupMailer(u, who, box)>>)
  /\ IF Invited(who, box) # {} THEN UNCHANGED <<invitation, lastKey>>
     ELSE /\ lastKey' = lastKey + 1
          /\ invitation' = invitation \cup {[id |-> lastKey', who |-> who, box |-> box]}
  /\ UNCHANGED <<folk, booking, turns>>
InviteSomeone(u) ==
  \/ \E p \in Folk : ~Gone(p) /\ Invite(u, p, account[p].box)
  \/ \E a \in Boxes : Invite(u, OfAddress(a), a)

Resend(u, i) ==
  /\ LeadsGroup(u)
  /\ Post(<<ResendGroupInvitationMailer(u, i)>>)
  /\ UNCHANGED <<folk, booking, invitation, lastKey, turns>>

DeleteInvitation(u, i) ==
  /\ LeadsGroup(u)
  /\ invitation' = invitation \ {i}
  /\ UNCHANGED <<folk, booking, lastKey, letter, turns>>

-----------------------------------------------------------------------------
(***************************************************************************)
(* Seats.                                                                  *)
(***************************************************************************)
AtSeat(kind, a, id) == Letter(kind, NoPerson, a, FALSE, [id |-> id, who |-> NoPerson, box |-> a], NoPerson, NoPerson)
AttendeeWelcomeMailMailer(a, id)              == AtSeat("greeting", a, id)
AttendEventWithoutAccountConfirmMailer(a, id) == AtSeat("registered", a, id)
FromWaitinglistToAccept(a, id)                == AtSeat("seated", a, id)
DeleteEventAttendeeMailer(a)                  == Letter("unseated", NoPerson, a, FALSE, Nothing, NoPerson, NoPerson)

Turn == turns < MaxTurns /\ turns' = turns + 1

\* Somebody without an account confirms; a seat is greeted before it is stored,
\* by a letter that looks the attendee up at once.
Register(a, state) ==
  /\ Turn /\ held /\ seat[a].state = "none" /\ (state = "waitinglist" => \E b \in Boxes : seat[b].state = "accept")
  /\ lastKey' = lastKey + 1
  /\ seat' = [seat EXCEPT ![a] = [state |-> state, id |-> lastKey']]
  /\ Post((IF state = "accept" THEN <<Delivered(AttendeeWelcomeMailMailer(a, lastKey'))>> ELSE <<>>)
             \o <<AttendEventWithoutAccountConfirmMailer(a, lastKey')>>)
  /\ UNCHANGED <<folk, held, invitation>>

\* An attendee is removed and the next gets the seat; where that row cannot be
\* saved he has been greeted already, and the removed one is told nothing.
Unseat(a) ==
  LET next == {b \in Boxes : seat[b].state = "waitinglist" /\ seat[a].state = "accept" /\ b # a}
      gone == [seat EXCEPT ![a] = NoSeat]
  IN  /\ Turn /\ held /\ seat[a].state # "none"
      /\ IF next = {} THEN seat' = gone /\ Post(<<DeleteEventAttendeeMailer(a)>>)
         ELSE \E b \in next, saved \in BOOLEAN :
                /\ seat' = IF saved THEN [gone EXCEPT ![b].state = "accept"] ELSE gone
                /\ Post(<<Sent(AttendeeWelcomeMailMailer(b, seat[b].id))>>
                          \o IF saved THEN <<FromWaitinglistToAccept(b, seat[b].id), DeleteEventAttendeeMailer(a)>> ELSE <<>>)
      /\ UNCHANGED <<folk, held, invitation, lastKey>>

DeleteEvent ==
  /\ Turn /\ held
  /\ held' = FALSE /\ seat' = [a \in Boxes |-> NoSeat]
  /\ UNCHANGED <<folk, invitation, lastKey, letter>>

-----------------------------------------------------------------------------
(***************************************************************************)
(* People.                                                                 *)
(***************************************************************************)
Ban(p) ==
  /\ Turn /\ account[p].active
  /\ account' = [account EXCEPT ![p].active = FALSE]
  /\ UNCHANGED <<chiefs, membership, insiders, standing, welcome, booking, invitation, lastKey, letter>>
Moves(p, a) ==
  /\ Turn /\ account[p].active /\ \A q \in Folk : account[q].box # a
  /\ account' = [account EXCEPT ![p].box = a]
  /\ UNCHANGED <<chiefs, membership, insiders, standing, welcome, booking, invitation, lastKey, letter>>
Leaves(p) ==
  /\ Turn /\ membership[p] \in {"pending", "member"}
  /\ membership' = [membership EXCEPT ![p] = "none"]
  /\ insiders' = insiders \ {p}
  /\ UNCHANGED <<account, chiefs, standing, welcome, booking, invitation, lastKey, letter>>

\* Mutant of Removed: the account keeps its address.
RemovedInPlace(p) ==
  /\ account' = [account EXCEPT ![p].active = FALSE]
  /\ chiefs' = chiefs \ {p}
  /\ membership' = [membership EXCEPT ![p] = "none"]
  /\ insiders' = IF p \in insiders THEN {} ELSE insiders
  /\ invitation' = {i \in invitation : i.who # p}
\* User.delete: an address of its own, no roles, no memberships, no invitations,
\* and the subgroups it was in are gone with everybody in them.
Removed(p) ==
  /\ account' = [account EXCEPT ![p].active = FALSE, ![p].box = p]
  /\ chiefs' = chiefs \ {p}
  /\ membership' = [membership EXCEPT ![p] = "none"]
  /\ insiders' = IF p \in insiders THEN {} ELSE insiders
  /\ invitation' = {i \in invitation : i.who # p}

DeleteGroup ==
  /\ Turn /\ standing
  /\ standing' = FALSE /\ invitation' = {} /\ insiders' = {}
  /\ membership' = [p \in Folk |-> "none"]
  /\ UNCHANGED <<account, chiefs, welcome, booking, lastKey, letter>>
EditWelcome ==
  /\ Turn /\ standing /\ welcome' = ~welcome
  /\ UNCHANGED <<account, chiefs, membership, insiders, standing, booking, invitation, lastKey, letter>>

Recipients == [to : {"test", "all"}, subgroup : {FALSE}, chosen : {{}}]
           \cup [to : {"some"}, subgroup : BOOLEAN, chosen : SUBSET Folk]

\* What people write, the worker sends and happens meanwhile; who is deleted and
\* who enters the group has letters of its own (Notices).
LettersStep ==
  \/ \E u \in Folk, want \in Recipients, copy \in BOOLEAN : MessageToGroup(u, want, copy)
  \/ \E u, p \in Folk, copy \in BOOLEAN : MessageToUser(u, p, copy)
  \/ \E u \in Folk, test, copy \in BOOLEAN : MessageToEvent(u, test, copy)
  \/ \E u \in Folk : InviteSomeone(u) \/ \E i \in invitation : Resend(u, i) \/ DeleteInvitation(u, i)
  \/ \E k \in DOMAIN letter : SendMail(k)
  \/ \E p \in Folk : Ban(p) \/ Leaves(p) \/ \E a \in Boxes : Moves(p, a)
  \/ \E a \in Boxes : Unseat(a) \/ \E state \in {"accept", "waitinglist"} : Register(a, state)
  \/ DeleteEvent \/ DeleteGroup \/ EditWelcome

-----------------------------------------------------------------------------
(***************************************************************************)
(* Correctness.                                                            *)
(***************************************************************************)
LettersTypeOK ==
  /\ account \in [Folk -> Account]
  /\ membership \in [Folk -> {"none", "pending", "member", "admin", "owner"}]
  /\ insiders \subseteq Folk /\ chiefs \subseteq Folk /\ {held, standing, welcome} \subseteq BOOLEAN
  /\ seat \in [Boxes -> [state : {"none", "accept", "waitinglist"}, id : 0..lastKey]]
  /\ invitation \subseteq Invitation /\ \A i \in invitation : i.id \in 1..lastKey
  /\ letter \in Seq(LetterRow)
  /\ lastKey \in Nat /\ turns \in 0..MaxTurns

\* An address, and an account, is invited once: an account that came after the
\* invitation of its address, or has that address since, finds it.
InvitedOnce == \A i, j \in invitation : i # j => i.box # j.box /\ (i.who # j.who \/ i.who = NoPerson)

\* Who gets a message to a group or an event gets no copy of it at that
\* address; a test of a message to an event is the exception.
NeverTwice ==
  \A k, m \in DOMAIN letter :
    /\ letter[k].request = letter[m].request /\ letter[k].kind \in {"group", "event"}
    /\ ~letter[k].copy /\ letter[m].copy /\ letter[k].about # Test
    => letter[k].who # letter[m].who \/ letter[k].box # letter[m].box

IsSent(k) == letter'[k].state = "sent" /\ (k \notin DOMAIN letter \/ letter[k].state = "waiting")

\* What was written to an account is not sent once that account is banned or
\* deleted, though the check is by address, addresses change meanwhile, and it
\* does not find who is deleted: that holds back whatever has to look him up.
\* An export of avatars does not, and is announced to an address of nobody.
NotToDeactivated ==
  [][\A k \in DOMAIN letter' : IsSent(k) /\ letter'[k].who # NoPerson =>
       account[letter'[k].who].active \/ (letter'[k].kind = "avatars" /\ Gone(letter'[k].who))]_correspondence

\* A letter about an invitation or a seat goes out only while that very one is
\* there: not after it was withdrawn, nor for another that came in its place.
LettersLead ==
  [][\A k \in DOMAIN letter' : IsSent(k) /\ letter'[k].about.id # 0 =>
       IF letter'[k].kind = "reminder" THEN letter'[k].about \in invitation
       ELSE letter'[k].about.id \in {seat[letter'[k].box].id, seat'[letter'[k].box].id}]_correspondence
===============================================================================
