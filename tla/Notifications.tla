---------------------------- MODULE Notifications ----------------------------
(***************************************************************************)
(* The notifications about one post: Entity.save and MentionMixin.save     *)
(* (core/models/entity.py, core/models/rich_fields.py), comments           *)
(* (core/models/comment.py), the Celery tasks of                           *)
(* core/tasks/notification_tasks.py and the collected mail of              *)
(* core/management/commands/send_notification_emails.py.                   *)
(*                                                                         *)
(* Web processes serve requests, task workers run Celery tasks.  Each      *)
(* executes one database statement (or one submission of a task) at a      *)
(* time; a post in memory is a copy that save() writes back in full.  The  *)
(* first reads of a task are one step.  A worker that dies loses what it   *)
(* was doing.                                                              *)
(***************************************************************************)
EXTENDS Integers, FiniteSets

CONSTANTS
  Users,        \* the members of the group, all of whom have an account
  Owner,        \* the owner of the post
  Muted,        \* switched notifications off, in the group and outside it
  Direct,       \* want a mail for every notification
  Digested,     \* want the collected mail
  Elsewhere,    \* were notified of a mention in some other post
  Audiences,    \* the sets of people a post can be readable for
  Mentions,     \* the sets of people the text of a post can mention
  Shapes,       \* the classes of posts, in the group or outside it
  Kinds,        \* the kinds of request that occur
  WebWorkers,   \* the processes that serve requests
  TaskWorkers,  \* the Celery workers
  Horizon,      \* bound: the last hour
  Interval,     \* hours between two collected mails
  DigestSize,   \* the most notifications in a collected mail
  MaxRequests,  \* bound: number of requests
  MaxCrashes    \* bound: number of workers that die

Never == Horizon + 1     \* the date of a draft: no hour reaches it
Times == 0..Never

Workers == WebWorkers \cup TaskWorkers
Classes == {"event", "blog", "file"}
Verbs   == {"created", "commented", "mentioned"}

ASSUME ParamAssumption ==
  /\ Owner \in Users
  /\ Muted \subseteq Users /\ Direct \subseteq Users
  /\ Digested \subseteq Users /\ Elsewhere \subseteq Users
  /\ Audiences \subseteq SUBSET Users
  /\ Mentions \subseteq SUBSET Users
  /\ Shapes \subseteq [class : Classes, grouped : BOOLEAN]
  /\ Kinds \subseteq {"edit", "comment", "follow", "delete"}
  /\ WebWorkers \cap TaskWorkers = {}
  /\ Horizon \in Nat /\ Interval \in Nat /\ DigestSize \in Nat
  /\ MaxRequests \in Nat /\ MaxCrashes \in Nat

VARIABLES
  post,     \* the stored post
  notes,    \* the notification rows about it
  follows,  \* the people who follow it
  queue,    \* queue[t]: how many tasks t the broker holds
  clock,    \* the hour
  serial,   \* the last primary key of a notification
  left,     \* requests that may still arrive
  crashes,  \* workers that have died
  pc,       \* pc[w]: the statement worker w executes next
  mem       \* mem[w]: what worker w has in memory

vars == <<post, notes, follows, queue, clock, serial, left, crashes, pc, mem>>

\* last is the entity's last_action, flag its notifications_created.
Post == [class : Classes \cup {"none", "gone"}, grouped : BOOLEAN, at : Times,
         access : SUBSET Users, mentions : SUBSET Users, last : 0..Horizon,
         flag : BOOLEAN]
NoPost == [class |-> "none", grouped |-> FALSE, at |-> 0, access |-> {},
           mentions |-> {}, last |-> 0, flag |-> FALSE]

\* direct and digest count the mails that name the notification.
Note == [id : Nat, to : Users, verb : Verbs, at : 0..Horizon, emailed : BOOLEAN,
         direct : Nat, digest : Nat]
Task == [verb : Verbs, by : Users]

Memory == [kind : Kinds \cup {"none", "add", "flag", "task", "hourly", "digest"},
           verb : Verbs \cup {"none"}, by : Users, copy : Post,
           todo : SUBSET Users, made : SUBSET Nat]
NoMemory == [kind |-> "none", verb |-> "none", by |-> Owner, copy |-> NoPost,
             todo |-> {}, made |-> {}]

Labels == {"idle", "oncreate", "cleanup", "store", "mention", "follow", "tell",
           "delete", "notify", "count", "submit", "digest", "mark"}

Exists(p) == p.class \in Classes
Due       == Exists(post) /\ post.at <= clock
\* Mutant of Later: a publication date that is not set counts as a late one.
LaterAny(a, b) == IF b > a THEN b ELSE a

Later(a, b) == IF b <= Horizon /\ b > a THEN b ELSE a

\* Blog and its like mention people; an event does not, nor does a file.
Mentioning(p)  == p.class = "blog"
\* send_notifications_on_create: a NotificationMixin in a group.
Announced(p)   == p.class # "file" /\ p.grouped

\* Mutant of Subclass: no class of posts is a direct subclass.
NoSubclass(p) == FALSE

\* NotificationMixin.__subclasses__() holds the direct subclasses only: of
\* the classes of posts that is Event, since the others extend MentionMixin.
Subclass(p)    == p.class = "event"

Init ==
  /\ post    = NoPost
  /\ notes   = {}
  /\ follows = {}
  /\ queue   = [t \in Task |-> 0]
  /\ clock   = 0
  /\ serial  = 0
  /\ left    = MaxRequests
  /\ crashes = 0
  /\ pc      = [w \in Workers |-> "idle"]
  /\ mem     = [w \in Workers |-> NoMemory]

Goto(w, label) == pc' = [pc EXCEPT ![w] = label]
Done(w) == Goto(w, "idle") /\ mem' = [mem EXCEPT ![w] = NoMemory]
Submit(verb, by) == queue' = [queue EXCEPT ![[verb |-> verb, by |-> by]] = @ + 1]

Begin(w, label, m) ==
  /\ pc[w] = "idle"
  /\ Goto(w, label)
  /\ mem' = [mem EXCEPT ![w] = m]

Memo(kind, by, copy) == [NoMemory EXCEPT !.kind = kind, !.by = by, !.copy = copy]

-----------------------------------------------------------------------------
(***************************************************************************)
(* Requests.                                                               *)
(***************************************************************************)

Request == left > 0 /\ left' = left - 1

\* The row is inserted; Entity.save then asks for the notifications.
Add(w) ==
  /\ post.class = "none"
  /\ \E s \in Shapes, at \in Times, a \in Audiences, m \in Mentions :
       /\ s.class # "blog" => m = {}
       /\ post' = [class |-> s.class, grouped |-> s.grouped, at |-> at, access |-> a,
                   mentions |-> m, last |-> Later(clock, at), flag |-> FALSE]
       /\ Begin(w, "oncreate", Memo("add", Owner, post'))
  /\ UNCHANGED <<notes, follows, queue, clock, serial, left, crashes>>

\* The post is loaded and changed in memory.
Edit(w) ==
  /\ "edit" \in Kinds /\ Request
  /\ Exists(post)
  /\ \E at \in Times, a \in Audiences, m \in Mentions :
       /\ ~Mentioning(post) => m = {}
       /\ Begin(w, "cleanup", Memo("edit", Owner,
            [post EXCEPT !.at = at, !.access = a, !.mentions = m,
                         !.last = Later(@, at)]))
  /\ UNCHANGED <<post, notes, follows, queue, clock, serial, crashes>>

\* The comment is stored.  The post it is about, loaded before, is saved when
\* its last action is older than the comment.
Comment(w) ==
  /\ "comment" \in Kinds /\ Request
  /\ Exists(post) /\ post.class # "file"
  /\ \E u \in Users :
       IF post.last <= clock
         THEN Begin(w, "cleanup", Memo("comment", u, [post EXCEPT !.last = clock]))
         ELSE Begin(w, "follow",  Memo("comment", u, post))
  /\ UNCHANGED <<post, notes, follows, queue, clock, serial, crashes>>

\* Follow or stop following: one row.
Follow(w) ==
  /\ "follow" \in Kinds /\ Request
  /\ pc[w] = "idle" /\ Exists(post) /\ post.class # "file"
  /\ \E u \in post.access :
       follows' = IF u \in follows THEN follows \ {u} ELSE follows \cup {u}
  /\ UNCHANGED <<post, notes, queue, clock, serial, crashes, pc, mem>>

LoadForDelete(w) ==
  /\ "delete" \in Kinds /\ Request
  /\ Exists(post)
  /\ Begin(w, "delete", Memo("delete", Owner, post))
  /\ UNCHANGED <<post, notes, follows, queue, clock, serial, crashes>>

\* The notifications go with the post (GenericRelation _notification_action).
Delete(w) ==
  /\ pc[w] = "delete"
  /\ post'  = [NoPost EXCEPT !.class = "gone"]
  /\ notes' = {}
  /\ Done(w)
  /\ UNCHANGED <<follows, queue, clock, serial, left, crashes>>

\* send_notifications_on_create: the task is submitted, or left to the hourly
\* job when the post is not published yet; a post nobody is told of is marked
\* and saved again within the save.
OnCreate(w) ==
  /\ pc[w] = "oncreate"
  /\ IF Announced(mem[w].copy)
       THEN /\ IF mem[w].copy.at <= clock THEN Submit("created", Owner)
                                          ELSE UNCHANGED queue
            /\ Goto(w, "mention")
            /\ UNCHANGED mem
       ELSE /\ mem' = [mem EXCEPT ![w].copy.flag = TRUE, ![w].kind = "flag"]
            /\ Goto(w, "cleanup")
            /\ UNCHANGED queue
  /\ UNCHANGED <<post, notes, follows, clock, serial, left, crashes>>

-----------------------------------------------------------------------------
(***************************************************************************)
(* Entity.save with MentionMixin.save around it.                           *)
(***************************************************************************)

\* cleanup_notifications: when the stored readers differ from those of the
\* copy, the notifications of people who may not read the copy are deleted.
Cleanup(w) ==
  LET copy == mem[w].copy
  IN /\ pc[w] = "cleanup"
     /\ notes' = IF copy.grouped /\ Exists(post) /\ post.access # copy.access
                   THEN {n \in notes : n.to \in copy.access}
                   ELSE notes
     /\ Goto(w, "store")
     /\ UNCHANGED <<post, follows, queue, clock, serial, left, crashes, mem>>

AfterSave == [add |-> "follow", flag |-> "mention", comment |-> "follow",
              task |-> "notify"]

\* What the caller of save does next; the save within the first save of a post
\* returns to that save.
Saved(w) ==
  IF mem[w].kind \in DOMAIN AfterSave
    THEN /\ Goto(w, AfterSave[mem[w].kind])
         /\ mem' = IF mem[w].kind = "flag" THEN [mem EXCEPT ![w].kind = "add"] ELSE mem
    ELSE Done(w)

\* Every column of the copy is written; a post deleted meanwhile is back.
Store(w) ==
  /\ pc[w] = "store"
  /\ post' = mem[w].copy
  /\ IF Mentioning(mem[w].copy) THEN Goto(w, "mention") /\ UNCHANGED mem
                                ELSE Saved(w)
  /\ UNCHANGED <<notes, follows, queue, clock, serial, left, crashes>>

\* send_notifications of MentionMixin.
Mention(w) ==
  /\ pc[w] = "mention"
  /\ IF mem[w].copy.mentions # {} THEN Submit("mentioned", Owner) ELSE UNCHANGED queue
  /\ Saved(w)
  /\ UNCHANGED <<post, notes, follows, clock, serial, left, crashes>>

\* add_follow: the author of a post or of a comment follows the post.
AddFollow(w) ==
  /\ pc[w] = "follow"
  /\ follows' = IF mem[w].copy.class = "file" THEN follows
                                              ELSE follows \cup {mem[w].by}
  /\ IF mem[w].kind = "comment" THEN Goto(w, "tell") /\ UNCHANGED mem ELSE Done(w)
  /\ UNCHANGED <<post, notes, queue, clock, serial, left, crashes>>

Tell(w) ==
  /\ pc[w] = "tell"
  /\ Submit("commented", mem[w].by)
  /\ Done(w)
  /\ UNCHANGED <<post, notes, follows, clock, serial, left, crashes>>

-----------------------------------------------------------------------------
(***************************************************************************)
(* The task create_notification.                                           *)
(***************************************************************************)

\* Mutant of Unmentioned: everybody mentioned is told, told before or not.
MentionAll(u) == TRUE

\* get_unmentioned_users: the negated condition on two columns of a related
\* table leaves out who has a mention, and a notification about this post, be
\* they one row or two.
Unmentioned(u) ==
  \/ u \notin Elsewhere /\ ~\E n \in notes : n.to = u /\ n.verb = "mentioned"
  \/ ~\E n \in notes : n.to = u

Recipients(t, p) ==
  CASE t.verb = "created"   -> {u \in Users \ {t.by} :
                                  p.grouped /\ u \notin Muted /\ u \in p.access}
    [] t.verb = "commented" -> {u \in follows \ {t.by} :
                                  u \in p.access /\ (p.grouped \/ u \notin Muted)}
    [] t.verb = "mentioned" -> {u \in p.mentions :
                                  Unmentioned(u) /\ (p.grouped \/ u \notin Muted)}

Dequeue(t) == queue[t] > 0 /\ queue' = [queue EXCEPT ![t] = @ - 1]

\* The task is taken and its post loaded.  A "created" task marks the post
\* before it notifies anybody.
Take(w, t) ==
  /\ Dequeue(t)
  /\ Exists(post)
  /\ LET flags == t.verb = "created" /\ ~post.flag
         copy  == IF flags THEN [post EXCEPT !.flag = TRUE] ELSE post
     IN Begin(w, IF flags THEN "cleanup" ELSE "notify",
              [Memo("task", t.by, copy) EXCEPT !.verb = t.verb,
                                               !.todo = Recipients(t, post)])
  /\ UNCHANGED <<post, notes, follows, clock, serial, left, crashes>>

\* The post does not exist any more.
TakeForNothing(w, t) ==
  /\ Dequeue(t)
  /\ pc[w] = "idle" /\ ~Exists(post)
  /\ UNCHANGED <<post, notes, follows, clock, serial, left, crashes, pc, mem>>

\* notify.send: one row for each recipient.
Notify(w) ==
  /\ pc[w] = "notify"
  /\ \E u \in mem[w].todo :
       /\ serial' = serial + 1
       /\ notes'  = notes \cup {[id |-> serial', to |-> u, verb |-> mem[w].verb,
                                 at |-> clock, emailed |-> FALSE,
                                 direct |-> 0, digest |-> 0]}
       /\ mem' = [mem EXCEPT ![w].todo = @ \ {u}, ![w].made = @ \cup {serial'}]
  /\ UNCHANGED <<post, follows, queue, clock, left, crashes, pc>>

\* A mail at once for whoever asked for that; nothing marks the notification.
DirectMail(w) ==
  /\ pc[w] = "notify" /\ mem[w].todo = {}
  /\ notes' = {IF n.id \in mem[w].made /\ n.to \in Direct
                 THEN [n EXCEPT !.direct = @ + 1] ELSE n : n \in notes}
  /\ Done(w)
  /\ UNCHANGED <<post, follows, queue, clock, serial, left, crashes>>

-----------------------------------------------------------------------------
(***************************************************************************)
(* The hourly jobs.                                                        *)
(***************************************************************************)

\* The broker is prompt: when the hourly job starts, no "created" task waits,
\* runs, or is about to be submitted, by a request or by an earlier job.
Prompt ==
  /\ \A u \in Users : queue[[verb |-> "created", by |-> u]] = 0
  /\ \A w \in Workers : /\ pc[w] \notin {"oncreate", "count", "submit"}
                        /\ mem[w].verb # "created"

\* Mutant of Hourly: the hourly job does not mark the post it skips.
HourlyForgets(w) ==
  /\ Due /\ ~post.flag
  /\ Prompt
  /\ IF Subclass(post) /\ post.grouped
       THEN Begin(w, "count", Memo("hourly", Owner, post))
       ELSE Begin(w, "cleanup", Memo("hourly", Owner, post))
  /\ UNCHANGED <<post, notes, follows, queue, clock, serial, left, crashes>>

\* create_notifications_for_scheduled_content: a published post that is not
\* marked is loaded.
Hourly(w) ==
  /\ Due /\ ~post.flag
  /\ Prompt
  /\ IF Subclass(post) /\ post.grouped
       THEN Begin(w, "count", Memo("hourly", Owner, post))
       ELSE Begin(w, "cleanup", Memo("hourly", Owner, [post EXCEPT !.flag = TRUE]))
  /\ UNCHANGED <<post, notes, follows, queue, clock, serial, left, crashes>>

\* Mutant of Count: the hourly job does not look for notifications.
CountBlind(w) ==
  /\ pc[w] = "count"
  /\ UNCHANGED mem /\ Goto(w, "submit")
  /\ UNCHANGED <<post, notes, follows, queue, clock, serial, left, crashes>>

\* There are notifications already: the post is marked.
Count(w) ==
  /\ pc[w] = "count"
  /\ IF notes # {}
       THEN mem' = [mem EXCEPT ![w].copy.flag = TRUE] /\ Goto(w, "cleanup")
       ELSE UNCHANGED mem /\ Goto(w, "submit")
  /\ UNCHANGED <<post, notes, follows, queue, clock, serial, left, crashes>>

SubmitCreated(w) ==
  /\ pc[w] = "submit"
  /\ Submit("created", Owner)
  /\ Done(w)
  /\ UNCHANGED <<post, notes, follows, clock, serial, left, crashes>>

Fresh(n)  == n.at >= clock - Interval
\* The newest notifications of u that are in no collected mail, at most
\* DigestSize of them.
Batch(u) ==
  LET unsent == {n \in notes : n.to = u /\ ~n.emailed /\ Fresh(n)}
  IN {n \in unsent : Cardinality({o \in unsent : o.id > n.id}) < DigestSize}
Ids(rows) == {n.id : n \in rows}

\* send_notification_emails, for one account.
Collect(w) ==
  /\ \E u \in Digested :
       /\ Batch(u) # {}
       /\ ~\E n \in notes : n.to = u /\ n.emailed /\ Fresh(n)
       /\ Begin(w, "digest", [Memo("digest", u, NoPost) EXCEPT !.made = Ids(Batch(u))])
  /\ UNCHANGED <<post, notes, follows, queue, clock, serial, left, crashes>>

Digest(w) ==
  /\ pc[w] = "digest"
  /\ notes' = {IF n.id \in mem[w].made THEN [n EXCEPT !.digest = @ + 1] ELSE n :
                 n \in notes}
  /\ Goto(w, "mark")
  /\ UNCHANGED <<post, follows, queue, clock, serial, left, crashes, mem>>

\* Mutant of Mark: the collected mail is not marked.
MarkNothing(w) ==
  /\ pc[w] = "mark"
  /\ Done(w)
  /\ UNCHANGED <<post, notes, follows, queue, clock, serial, left, crashes>>

\* mark_as_sent: the sliced query is a subquery of the update, so it is
\* evaluated again, and the rows it finds now are marked.
Mark(w) ==
  /\ pc[w] = "mark"
  /\ notes' = {IF n \in Batch(mem[w].by) THEN [n EXCEPT !.emailed = TRUE] ELSE n :
                 n \in notes}
  /\ Done(w)
  /\ UNCHANGED <<post, follows, queue, clock, serial, left, crashes>>

-----------------------------------------------------------------------------
Tick ==
  /\ clock < Horizon
  /\ clock' = clock + 1
  /\ UNCHANGED <<post, notes, follows, queue, serial, left, crashes, pc, mem>>

\* A worker dies with what it has in memory; another takes its place.
Die(w) ==
  /\ crashes < MaxCrashes
  /\ pc[w] # "idle"
  /\ crashes' = crashes + 1
  /\ Done(w)
  /\ UNCHANGED <<post, notes, follows, queue, clock, serial, left>>

Arrive(w) == Add(w) \/ Edit(w) \/ Comment(w) \/ Follow(w) \/ LoadForDelete(w)

\* A process goes on with what it has begun.
Proceed(w) ==
  \/ OnCreate(w) \/ Cleanup(w) \/ Store(w) \/ Mention(w) \/ AddFollow(w) \/ Tell(w)
  \/ Delete(w) \/ Notify(w) \/ DirectMail(w)
  \/ Count(w) \/ SubmitCreated(w) \/ Digest(w) \/ Mark(w)

Pick(w) == \E t \in Task : Take(w, t) \/ TakeForNothing(w, t)

Next ==
  \/ \E w \in WebWorkers : Arrive(w)
  \/ \E w \in TaskWorkers : Pick(w) \/ Hourly(w) \/ Collect(w)
  \/ \E w \in Workers : Proceed(w) \/ Die(w)
  \/ Tick

Spec == Init /\ [][Next]_vars

\* A process at work goes on, the workers take the tasks of the broker, and
\* the hourly job is started again and again.
Fairness ==
  /\ \A w \in Workers : WF_vars(Proceed(w))
  /\ \A w \in TaskWorkers : WF_vars(Pick(w)) /\ WF_vars(Hourly(w))
FairSpec == Spec /\ Fairness

-----------------------------------------------------------------------------
(***************************************************************************)
(* Properties.                                                             *)
(***************************************************************************)

\* Type correctness of every variable.
TypeOK ==
  /\ post \in Post
  /\ notes \subseteq Note
  /\ follows \subseteq Users
  /\ queue \in [Task -> Nat]
  /\ clock \in 0..Horizon
  /\ serial \in Nat
  /\ left \in 0..MaxRequests
  /\ crashes \in 0..MaxCrashes
  /\ pc \in [Workers -> Labels]
  /\ mem \in [Workers -> Memory]

\* Nobody is told twice that the post was created, however the save of an edit
\* or of a comment puts notifications_created back: the hourly job looks for
\* notifications before it submits the task again.
CreatedOnce ==
  \A m, n \in notes :
    m.verb = "created" /\ n.verb = "created" /\ m.to = n.to => m = n

\* Nobody is told twice of being mentioned in the post, although every save of
\* it, whoever asks for it, submits the task that tells the mentioned people.
MentionedOnce ==
  \A m, n \in notes :
    m.verb = "mentioned" /\ n.verb = "mentioned" /\ m.to = n.to => m = n

\* A notification is in one collected mail, but for a worker that dies between
\* the mail and the mark.
CollectedOnce == \A n \in notes : n.digest <= 1 + crashes

\* The hourly job comes to an end: from some moment on a published post is
\* marked, also when stale copies of it were saved and workers died.
Settles == <>[](Due => post.flag)

Told(u) == \E n \in notes : n.verb = "created" /\ n.to = u

\* A post of class c that everybody may read, and nobody comments on before it
\* is announced.
Undisturbed(c) ==
  /\ crashes = 0
  /\ post.class \in {"none", c}
  /\ post.class = c => post.access = Users
  /\ (\E n \in notes : n.verb = "commented") => \E u \in Users : Told(u)

Announces(c) ==
  []Undisturbed(c) =>
    \A u \in Users \ (Muted \cup {Owner}) :
      Due /\ post.grouped ~> Told(u) \/ ~Due

\* Every member is told of an event in the group that is published, at its
\* creation, by an edit or by its date, unless it is withdrawn again.
EventsAnnounced == Announces("event")
=============================================================================
