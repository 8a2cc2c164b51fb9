------------------------------- MODULE Mailing -------------------------------
(***************************************************************************)
(* Mail on its way: an instance is a row and a task for a worker, who      *)
(* builds the mail, hands it over, stamps the overview in the profile and  *)
(* writes the log.  Beside it the settings a person saves and the links to *)
(* unsubscribe, and the daily job that bans addresses that bounce.         *)
(***************************************************************************)
EXTENDS Integers, FiniteSets, Sequences

CONSTANTS
  Receivers,     \* users with a profile
  Texts,         \* posts an overview can tell of
  Featured,      \* the recommended or featured ones
  Postmen,       \* workers that send mail
  Span,          \* length of the period of an overview: [interval -> Nat]
  MaxEntities, MaxFeatured,   \* how many posts a mail lists
  MaxTime,       \* bound: moments
  MaxForms,      \* bound: settings saved
  MaxMishaps     \* bound: workers that die and mails refused

VARIABLES
  profile,   \* row of a profile: the two lists and the last overview
  active,    \* users that are not banned
  published, \* moment a text was published, 0 before
  viewed,    \* pairs of a receiver and a text it opened
  box,       \* mail instances: [to, list, at] to their state and log
  postman,   \* what a worker is doing
  settings,      \* the row a request for settings is about to save
  now, due,  \* the clock; when the next overview of an interval is dispatched
  bounce,    \* last bounce of an address, at the bouncer
  bans,      \* the job that bans: addresses still to do, the stamp it will write
  stamp,     \* LAST_RECEIVED_BOUNCING_EMAIL
  past       \* history: told, chosen, muddled, handed, banned, bounced, forms, mishaps

mailing == <<profile, active, published, viewed, box, postman, settings, now, due, bounce, bans, stamp, past>>

Intervals == DOMAIN Span
Lists     == Intervals \cup {"notices"}
Out       == [step |-> "out"]          \* a worker without work
NoRequest    == [step |-> "closed"]       \* no request for settings
Off       == [step |-> "off"]          \* the job is not running

ASSUME MailingAssumption ==
  /\ IsFiniteSet(Receivers)
  /\ Span \in [Intervals -> Nat]
  /\ "notices" \notin Intervals
  /\ MaxTime \in Nat \ {0}

\* A profile, and what a person chose of it; an instance and its mail; what a worker
\* has in hand, a request has loaded, and the job that bans still does.
ProfileRow == [interval : Intervals \cup {"never"}, notices : BOOLEAN, received : 0..MaxTime]
MailChoice == [interval : Intervals \cup {"never"}, notices : BOOLEAN]
MailId     == [to : Receivers, list : Lists, at : Nat]
Instance   == [state : {"queued", "taken", "finished", "lost"}, log : {"none", "sent", "error"}]
Delivery   == [step : {"built", "handed", "stamped"}, mail : MailId, row : ProfileRow, texts : SUBSET Texts]
MailForm   == [step : {"open"}, who : Receivers, row : ProfileRow]
Orphan     == [who : Receivers, at : 0..MaxTime]
MailPast   == [told : [Texts -> [Receivers -> Nat]], chosen : [Receivers -> MailChoice],
               muddled : SUBSET Receivers, handed : SUBSET MailId, banned : [Receivers -> Nat],
               bounced : [Receivers -> Nat], forms : Nat, mishaps : Nat]

-----------------------------------------------------------------------------
(* What an overview tells.                                                 *)

\* Mutant of LowerBound: the period counts, also when an overview came since.
LowerBoundPeriod(row, list) == now - Span[list]

\* Published since the last overview, or since one period when that is later.
LowerBound(row, list) ==
  IF row.received > now - Span[list] THEN row.received ELSE now - Span[list]

Since(t) == {p \in Texts : published[p] > 0 /\ published[p] >= t}

\* Subsets of s of at most n texts; the latest, or the earliest, come first.
Latest(s, n)   == {c \in SUBSET s : /\ Cardinality(c) = (IF Cardinality(s) < n THEN Cardinality(s) ELSE n)
                                    /\ \A p \in c, q \in s \ c : published[p] > published[q]}
Earliest(s, n) == {c \in SUBSET s : /\ Cardinality(c) = (IF Cardinality(s) < n THEN Cardinality(s) ELSE n)
                                    /\ \A p \in c, q \in s \ c : published[p] < published[q]}

ProcessFeatured(list, since) ==
  IF list = "monthly" THEN {{}} ELSE Earliest(Since(since) \cap Featured, MaxFeatured)
ProcessEntities(r, since, featured) ==
  Latest({p \in Since(since) : <<r, p>> \notin viewed} \ featured, MaxEntities)

Selections(r, row, list) ==
  IF list = "notices" THEN {{}}
  ELSE UNION {{f \cup e : e \in ProcessEntities(r, LowerBound(row, list), f)} :
              f \in ProcessFeatured(list, LowerBound(row, list))}

-----------------------------------------------------------------------------
(* Instances and their dispatch.                                           *)

Queued(ids) ==
  [m \in DOMAIN box \cup ids |-> IF m \in DOMAIN box THEN box[m] ELSE [state |-> "queued", log |-> "none"]]

SendOverview(i) ==
  /\ now >= due[i]
  /\ box' = Queued({[to |-> r, list |-> i, at |-> due[i]] : r \in {r \in active : profile[r].interval = i}})
  /\ due' = [due EXCEPT ![i] = @ + Span[i]]
  /\ UNCHANGED <<profile, active, published, viewed, postman, settings, now, bounce, bans, stamp, past>>

ScheduleNotificationMail(r) ==
  /\ profile[r].notices
  /\ \A m \in DOMAIN box : m.list # "notices" \/ m.to # r
  /\ box' = Queued({[to |-> r, list |-> "notices", at |-> now]})
  /\ UNCHANGED <<profile, active, published, viewed, postman, settings, now, due, bounce, bans, stamp, past>>

-----------------------------------------------------------------------------
(* One worker and one mail.                                                *)

\* Copies of a profile that will be saved whole.
Copied(r) ==
  \/ \E w \in Postmen : postman[w].step \in {"built", "handed"} /\ postman[w].mail.to = r
                         /\ postman[w].mail.list # "notices"
  \/ settings # NoRequest /\ settings.who = r
Muddle(r) == IF Copied(r) THEN [past EXCEPT !.muddled = @ \cup {r}] ELSE past

\* Mutant of Concluded: the error is forgotten.
ConcludedSent(m, result) == [box EXCEPT ![m] = [state |-> "finished", log |-> "sent"]]
Concluded(m, result) == [box EXCEPT ![m] = [state |-> "finished", log |-> result]]

\* Nothing is sent, or logged, to a banned address, nor an overview without content.
TakeMail(w, m) ==
  /\ postman[w] = Out
  /\ m \in DOMAIN box /\ box[m].state = "queued"
  /\ \E texts \in Selections(m.to, profile[m.to], m.list) :
       IF m.to \notin active \/ (m.list # "notices" /\ texts = {})
       THEN /\ box' = Concluded(m, "none")
            /\ UNCHANGED <<postman, past>>
       ELSE /\ box' = [box EXCEPT ![m].state = "taken"]
            /\ postman' = [postman EXCEPT ![w] = [step |-> "built", mail |-> m, row |-> profile[m.to], texts |-> texts]]
            /\ past' = IF m.list = "notices" THEN past ELSE Muddle(m.to)
  /\ UNCHANGED <<profile, active, published, viewed, settings, now, due, bounce, bans, stamp>>

HandOver(w) ==
  /\ postman[w].step = "built"
  /\ postman' = [postman EXCEPT ![w].step = "handed"]
  /\ past' = [past EXCEPT !.handed = @ \cup {postman[w].mail},
                          !.told = [p \in Texts |-> [r \in Receivers |->
                             past.told[p][r] + (IF p \in postman[w].texts /\ r = postman[w].mail.to THEN 1 ELSE 0)]]]
  /\ UNCHANGED <<profile, active, published, viewed, box, settings, now, due, bounce, bans, stamp>>

\* The mail server refuses: the error is the result that is logged.
Refuse(w) ==
  /\ postman[w].step = "built" /\ past.mishaps < MaxMishaps
  /\ box' = Concluded(postman[w].mail, "error")
  /\ postman' = [postman EXCEPT ![w] = Out]
  /\ past' = [past EXCEPT !.mishaps = @ + 1]
  /\ UNCHANGED <<profile, active, published, viewed, settings, now, due, bounce, bans, stamp>>

Stamped(row) == [row EXCEPT !.received = now]
StampProfile(w) ==
  /\ postman[w].step = "handed" /\ postman[w].mail.list # "notices"
  /\ profile' = [profile EXCEPT ![postman[w].mail.to] = Stamped(postman[w].row)]
  /\ postman' = [postman EXCEPT ![w].step = "stamped"]
  /\ UNCHANGED <<active, published, viewed, box, settings, now, due, bounce, bans, stamp, past>>

WriteLog(w) ==
  /\ postman[w].step = IF postman[w] # Out /\ postman[w].mail.list = "notices" THEN "handed" ELSE "stamped"
  /\ box' = Concluded(postman[w].mail, "sent")
  /\ postman' = [postman EXCEPT ![w] = Out]
  /\ UNCHANGED <<profile, active, published, viewed, settings, now, due, bounce, bans, stamp, past>>

\* The task of a worker that dies is not given to another.
PostmanDies(w) ==
  /\ postman[w] # Out /\ past.mishaps < MaxMishaps
  /\ box' = [box EXCEPT ![postman[w].mail].state = "lost"]
  /\ postman' = [postman EXCEPT ![w] = Out]
  /\ past' = [past EXCEPT !.mishaps = @ + 1,
                          !.muddled = IF postman[w].step = "handed" THEN @ \cup {postman[w].mail.to} ELSE @]
  /\ UNCHANGED <<profile, active, published, viewed, settings, now, due, bounce, bans, stamp>>

-----------------------------------------------------------------------------
(* Settings: every request saves the whole profile it loaded.              *)

\* Mutant of Unsubscribed: the link ends both lists.
UnsubscribedAll(row, list) == [row EXCEPT !.notices = FALSE, !.interval = "never"]

Unsubscribed(row, list) ==
  IF list = "notices" THEN [row EXCEPT !.notices = FALSE] ELSE [row EXCEPT !.interval = "never"]
EmailSettings(row, interval, notices) == [row EXCEPT !.interval = interval, !.notices = notices]
EmailOverview(row, interval)          == [row EXCEPT !.interval = interval]
NotificationSettings(row, notices)    == [row EXCEPT !.notices = notices]

\* The request loads the row, changes its copy, and has still to save it.
OpenSettings(r, row, choice) ==
  /\ settings = NoRequest /\ past.forms < MaxForms
  /\ settings' = [step |-> "open", who |-> r, row |-> row]
  /\ past' = [Muddle(r) EXCEPT !.forms = @ + 1, !.chosen[r] = choice]
  /\ UNCHANGED <<profile, active, published, viewed, box, postman, now, due, bounce, bans, stamp>>

\* The link of a mail, the page with settings, and the two mutations.
Unsubscribe(r) ==
  \E m \in past.handed :
    /\ m.to = r
    /\ OpenSettings(r, Unsubscribed(profile[r], m.list),
            IF m.list \in Intervals THEN [past.chosen[r] EXCEPT !.interval = "never"]
            ELSE [past.chosen[r] EXCEPT !.notices = FALSE])
EditEmailSettings(r) ==
  \E i \in Intervals \cup {"never"}, n \in BOOLEAN :
    OpenSettings(r, EmailSettings(profile[r], i, n), [interval |-> i, notices |-> n])
\* Mutant of KnownFrequency: whatever is sent is stored.
KnownFrequencyAny(i) == TRUE
KnownFrequency(i)    == i \in Intervals \cup {"never"}
EditEmailOverview(r) ==
  \E i \in Intervals \cup {"never", "hourly"} :
    KnownFrequency(i) /\ OpenSettings(r, EmailOverview(profile[r], i), [past.chosen[r] EXCEPT !.interval = i])
EditNotifications(r) ==
  \E n \in BOOLEAN : OpenSettings(r, NotificationSettings(profile[r], n), [past.chosen[r] EXCEPT !.notices = n])

SaveForm ==
  /\ settings # NoRequest
  /\ profile' = [profile EXCEPT ![settings.who] = settings.row]
  /\ settings' = NoRequest
  /\ UNCHANGED <<active, published, viewed, box, postman, now, due, bounce, bans, stamp, past>>

-----------------------------------------------------------------------------
(* Bans: the bouncer lists the addresses that bounced after a moment, in   *)
(* that order; the job bans them one by one, then stores the last moment.  *)

Orphans == {s \in UNION {[1..n -> {r \in Receivers : bounce[r] > stamp}] : n \in {Cardinality({r \in Receivers : bounce[r] > stamp})}} :
              \A i, j \in DOMAIN s : i < j => bounce[s[i]] < bounce[s[j]]}

FetchOrphans ==
  /\ bans = Off
  /\ \E s \in Orphans : bans' = [step |-> "on", todo |-> [i \in DOMAIN s |-> [who |-> s[i], at |-> bounce[s[i]]]], last |-> stamp]
  /\ UNCHANGED <<profile, active, published, viewed, box, postman, settings, now, due, bounce, stamp, past>>

\* Mutant of LastReceived: the stamp is not moved along.
LastReceivedFirst(orphan) == bans.last

LastReceived(orphan) == orphan.at
BanOne ==
  /\ bans # Off /\ bans.todo # <<>>
  /\ LET orphan == Head(bans.todo) IN
     /\ bans' = [bans EXCEPT !.todo = Tail(@), !.last = LastReceived(orphan)]
     /\ active' = active \ {orphan.who}
     /\ past' = IF orphan.who \in active THEN [past EXCEPT !.banned[orphan.who] = @ + 1] ELSE past
  /\ UNCHANGED <<profile, published, viewed, box, postman, settings, now, due, bounce, stamp>>

StoreStamp ==
  /\ bans # Off /\ bans.todo = <<>>
  /\ stamp' = bans.last
  /\ bans' = Off
  /\ UNCHANGED <<profile, active, published, viewed, box, postman, settings, now, due, bounce, past>>

BannerDies ==
  /\ bans # Off /\ past.mishaps < MaxMishaps
  /\ bans' = Off
  /\ past' = [past EXCEPT !.mishaps = @ + 1]
  /\ UNCHANGED <<profile, active, published, viewed, box, postman, settings, now, due, bounce, stamp>>

-----------------------------------------------------------------------------
(* The world: posts, readers, bounces, administrators and the clock.       *)

Publish(p) ==
  /\ published[p] = 0 /\ now < MaxTime
  /\ published' = [published EXCEPT ![p] = now]
  /\ now' = now + 1
  /\ UNCHANGED <<profile, active, viewed, box, postman, settings, due, bounce, bans, stamp, past>>
OpenText(r, p) ==
  /\ published[p] > 0
  /\ viewed' = viewed \cup {<<r, p>>}
  /\ UNCHANGED <<profile, active, published, box, postman, settings, now, due, bounce, bans, stamp, past>>
Bounces(r) ==
  /\ now < MaxTime
  /\ bounce' = [bounce EXCEPT ![r] = now]
  /\ now' = now + 1
  /\ past' = [past EXCEPT !.bounced[r] = @ + 1]
  /\ UNCHANGED <<profile, active, published, viewed, box, postman, settings, due, bans, stamp>>
Reactivate(r) ==
  /\ r \notin active
  /\ active' = active \cup {r}
  /\ UNCHANGED <<profile, published, viewed, box, postman, settings, now, due, bounce, bans, stamp, past>>
Wait ==
  /\ now < MaxTime
  /\ now' = now + 1
  /\ UNCHANGED <<profile, active, published, viewed, box, postman, settings, due, bounce, bans, stamp, past>>

MailingInit ==
  /\ profile \in [Receivers -> [interval: Intervals \cup {"never"}, notices: BOOLEAN, received: {0}]]
  /\ active = Receivers
  /\ published = [p \in Texts |-> 0] /\ viewed = {}
  /\ box = <<>> /\ postman = [w \in Postmen |-> Out] /\ settings = NoRequest
  /\ now = 1 /\ due = Span
  /\ bounce = [r \in Receivers |-> 0] /\ bans = Off /\ stamp = 0
  /\ past = [told |-> [p \in Texts |-> [r \in Receivers |-> 0]],
             chosen |-> [r \in Receivers |-> [interval |-> profile[r].interval, notices |-> profile[r].notices]],
             muddled |-> {}, handed |-> {}, banned |-> [r \in Receivers |-> 0],
             bounced |-> [r \in Receivers |-> 0], forms |-> 0, mishaps |-> 0]

MailStep ==
  \/ \E i \in Intervals : SendOverview(i)
  \/ \E r \in Receivers : ScheduleNotificationMail(r)
  \/ \E w \in Postmen : \/ \E m \in DOMAIN box : TakeMail(w, m)
                        \/ HandOver(w) \/ Refuse(w) \/ StampProfile(w) \/ WriteLog(w) \/ PostmanDies(w)
  \/ \E r \in Receivers : Unsubscribe(r) \/ EditEmailSettings(r) \/ EditEmailOverview(r) \/ EditNotifications(r)
  \/ SaveForm
  \/ \E r \in Receivers, p \in Texts : OpenText(r, p)
  \/ \E p \in Texts : Publish(p)
BanStep ==
  \/ FetchOrphans \/ BanOne \/ StoreStamp \/ BannerDies
  \/ \E r \in Receivers : Bounces(r) \/ Reactivate(r)
MailingNext == MailStep \/ BanStep \/ Wait

MailingSpec == MailingInit /\ [][MailingNext]_mailing

-----------------------------------------------------------------------------
\* Profiles, instances, and what workers, requests and the job hold keep their types.
MailTypeOK ==
  /\ profile \in [Receivers -> ProfileRow]
  /\ active \subseteq Receivers /\ viewed \subseteq Receivers \X Texts
  /\ published \in [Texts -> 0..MaxTime]
  /\ DOMAIN box \subseteq MailId /\ box \in [DOMAIN box -> Instance]
  /\ postman \in [Postmen -> {Out} \cup Delivery]
  /\ settings \in {NoRequest} \cup MailForm
  /\ now \in 1..MaxTime /\ due \in [Intervals -> Nat]
  /\ bounce \in [Receivers -> 0..MaxTime] /\ stamp \in 0..MaxTime
  /\ bans \in {Off} \cup [step : {"on"}, todo : Seq(Orphan), last : 0..MaxTime]
  /\ past \in MailPast

\* No overview tells a person of a post twice, whatever its interval was meanwhile,
\* unless a worker died before the stamp or another save of the profile overlapped.
ToldOnce ==
  \A p \in Texts, r \in Receivers \ past.muddled : past.told[p][r] <= 1

\* The mails a person last chose, by a link, a page or a mutation, are those it is
\* sent, unless two saves of its profile overlapped.
ChoiceKept ==
  \A r \in Receivers \ past.muddled :
    settings = NoRequest \/ settings.who # r =>
      [interval |-> profile[r].interval, notices |-> profile[r].notices] = past.chosen[r]

\* A mail that is done was logged as sent exactly when it was handed over, and one
\* that was not, on account of an error, can still be told by the next overview.
SentIsLogged ==
  \A m \in DOMAIN box : box[m].state = "finished" => (box[m].log = "sent" <=> m \in past.handed)

\* Nobody is banned more often than its address bounced, unless the job died: an
\* account that was given back stays until the next bounce.
BounceBansOnce ==
  \A r \in Receivers : past.banned[r] <= past.bounced[r] + past.mishaps

\* Mails tell each thing once, to whoever wants to be told, and say what became of them.
MailSound == MailTypeOK /\ ToldOnce /\ ChoiceKept /\ SentIsLogged /\ BounceBansOnce
=============================================================================
