----------------------------- MODULE Publication -----------------------------
(***************************************************************************)
(* The life of a post (core/models/entity.py, core/models/revision.py, the *)
(* add, edit, archive and delete mutations of every content type, and the  *)
(* two hourly jobs of core/tasks/cronjobs.py): draft, published, archived, *)
(* deleted, and the revisions that record each change.                     *)
(*                                                                         *)
(* A request loads a copy of the row, changes the copy and saves every     *)
(* column of it in a later statement; the revision that records the change *)
(* is a third statement.  The jobs load the copies of all the rows they    *)
(* are going to save before they save the first.                           *)
(*                                                                         *)
(* Time is counted in hours, the period of the jobs.  A moment of an hour  *)
(* that has come is in the past for everything that happens in that hour.  *)
(***************************************************************************)
EXTENDS Integers, Sequences, FiniteSets

CONSTANTS
  MaxPosts,     \* bound on the number of posts
  Workers,      \* processes: web requests and task workers
  Crews,        \* the sets of workers an execution may start with
  Offers,       \* the sets of request kinds an execution may start with
  Texts,        \* what the text of a post can be
  Inputs,       \* what a user fills in: records [text, pub, arch, del]
  Horizon,      \* the hour at which the clock stops (the beat goes on)
  Window,       \* hours make_publication_revisions looks back
  MaxRequests,  \* bound on the number of requests
  MaxMissed,    \* bound on the beats missed in a row
  MaxCrashes    \* bound on the number of processes that die

VARIABLES
  crew,         \* the workers of this execution
  offer,        \* the kinds of request of this execution
  now,          \* the clock
  missed,       \* the beats missed in a row
  jobs,         \* the hourly jobs that wait for a worker
  post,         \* post[p]: the row of p
  revs,         \* revs[p]: the revisions of p, oldest first
  proc,         \* proc[w]: where worker w is
  budget        \* requests and crashes that may still come

vars == <<crew, offer, now, missed, jobs, post, revs, proc, budget>>

Posts == 1..MaxPosts    \* identities, in the order in which they are made
Hours == 0..Horizon
NoDate == -1            \* the column is NULL
Keep   == -2            \* the field is not in the input
Blank  == 0             \* the text of a post that was given none
Dates  == Hours \cup {NoDate}

ASSUME PublicationAssumption ==
  /\ MaxPosts \in Nat /\ IsFiniteSet(Workers)
  /\ Crews \subseteq SUBSET Workers
  /\ Horizon \in Nat /\ Window \in Nat \ {0}
  /\ MaxRequests \in Nat /\ MaxMissed \in Nat /\ MaxCrashes \in Nat
  /\ Blank \in Texts
  /\ Inputs \subseteq [text : Texts \cup {Keep}, pub : Dates \cup {Keep},
                       arch : Dates \cup {Keep}, del : Dates \cup {Keep}]

\* Which content types behave alike: articles (blog, news, wiki, text page) keep
\* revisions and have publication dates, pads keep revisions but have no dates,
\* plain posts (campaign pages and the other types) keep no revisions, a shown
\* file is the featured image of a post.
Classes == {"article", "pad", "plain", "shown"}

Row == [class : Classes, pub : Dates, archived : BOOLEAN, arch : Dates,
        del : Dates, text : Texts]
Unused == [class |-> "unused"]
Gone   == [class |-> "gone"]
Alive(p) == post[p].class \in Classes

HasRevisions(row) == row.class \in {"article", "pad"}

Passed(date, hour) == date # NoDate /\ date <= hour

\* Entity.status_published, and status_published_at, which looks at the date of
\* archiving instead of the flag.
Status(row) ==
  IF row.archived THEN "archived"
  ELSE IF Passed(row.pub, now) THEN "published" ELSE "draft"
StatusAt(row, hour) ==
  IF Passed(row.arch, hour) THEN "archived"
  ELSE IF Passed(row.pub, hour) THEN "published" ELSE "draft"

\* What a revision keeps of a post.
Serialized(row) == [status |-> Status(row), text |-> row.text]
Content  == [status : {"draft", "published", "archived"}, text : Texts]
Revision == [at : Hours, from : Content, to : Content]

Idle == [at |-> "idle"]

(***************************************************************************)
(* The dates of a post.                                                    *)
(***************************************************************************)
\* shared.update_publication_dates: a field that is not in the input stays.
\* Mutant of Filled: it is written as it comes.
FilledRaw(old, new) == new
Filled(old, new) == IF new = Keep THEN old ELSE new
Changed(row, input) ==
  LET arch == Filled(row.arch, input.arch)
  IN  [class |-> row.class, text |-> Filled(row.text, input.text),
       pub |-> Filled(row.pub, input.pub), arch |-> arch, del |-> Filled(row.del, input.del),
       archived |-> row.archived \/ (input.arch # Keep /\ Passed(arch, now))]

\* Mutant of Refused: nothing is refused.
RefusedNever(row) == FALSE
Refused(row) == row.del # NoDate /\ row.arch # NoDate /\ row.del < row.arch

\* resolve_toggle_is_archived.  Mutant of Toggled: restoring a post forgets the
\* flag only, so that the date archives it again.
ToggledFlag(row) ==
  [row EXCEPT !.archived = ~row.archived, !.arch = IF row.archived THEN @ ELSE now]
Toggled(row) ==
  [row EXCEPT !.archived = ~row.archived, !.arch = IF row.archived THEN NoDate ELSE now]

\* The inputs of a type that has no publication dates.
Undated == {input \in Inputs : input.pub = Keep /\ input.arch = Keep /\ input.del = Keep}

(***************************************************************************)
(* Requests.  A request that changes a post goes through Save and, if the  *)
(* post keeps revisions, through Record.                                   *)
(***************************************************************************)
Free(w, kind) == w \in crew /\ proc[w] = Idle /\ kind \in offer /\ budget.requests > 0
Take(w, state) ==
  /\ proc' = [proc EXCEPT ![w] = state]
  /\ budget' = [budget EXCEPT !.requests = @ - 1]

\* rest is the job that a save is part of, Idle for a request.
Saving(p, row, from, rest) ==
  [at |-> "save", on |-> p, row |-> row, from |-> from, began |-> now, rest |-> rest]
\* The add mutations: a new row with the dates of the input, published now unless
\* the input says otherwise; its first revision has no earlier version.
Saves(w, p) == proc[w].at \in {"save", "copy", "record"} /\ proc[w].on = p
Unclaimed == {p \in Posts : post[p] = Unused /\ \A w \in crew : ~Saves(w, p)}
IsNext(p) == p \in Unclaimed /\ \A q \in Unclaimed : p <= q

New(class) == [class |-> class, pub |-> now, archived |-> FALSE, arch |-> NoDate,
               del |-> NoDate, text |-> Blank]
Add(w, class, inputs) ==
  /\ Free(w, "add")
  /\ \E p \in Posts, input \in inputs :
       LET row == Changed(New(class), input)
       IN  /\ IsNext(p) /\ ~Refused(row)
           /\ Take(w, Saving(p, row, Serialized(row), Idle))
  /\ UNCHANGED <<crew, offer, now, missed, jobs, post, revs>>

AddBlog(w)         == Add(w, "article", Inputs)
AddNews(w)         == Add(w, "article", Inputs)
AddWiki(w)         == Add(w, "article", Inputs)
AddPage(w)         == Add(w, "article", Inputs) \/ Add(w, "plain", Inputs)
AddPad(w)          == Add(w, "pad", Undated)
AddDiscussion(w)   == Add(w, "plain", Inputs)
AddQuestion(w)     == Add(w, "plain", Inputs)
AddTask(w)         == Add(w, "plain", Inputs)
AddStatusUpdate(w) == Add(w, "plain", Inputs)
AddFolder(w)       == Add(w, "plain", Inputs)
AddFile(w)         == Add(w, "plain", Inputs) \/ Add(w, "shown", Inputs)

\* Copying a page saves a new row, published now, and stores no revision, also
\* when it is a text page.
CopyPage(w) ==
  /\ Free(w, "copy")
  /\ \E p, q \in Posts :
       /\ Alive(q) /\ post[q].class \in {"article", "plain"}
       /\ IsNext(p)
       /\ Take(w, [Saving(p, [post[q] EXCEPT !.pub = now], Serialized(post[q]), Idle)
                     EXCEPT !.at = "copy"])
  /\ UNCHANGED <<crew, offer, now, missed, jobs, post, revs>>

\* The edit mutations: load, remember the version before, change the copy.
Edit(w, classes, inputs) ==
  /\ Free(w, "edit")
  /\ \E p \in Posts, input \in inputs :
       /\ Alive(p) /\ post[p].class \in classes
       /\ LET row == Changed(post[p], input)
          IN  ~Refused(row) /\ Take(w, Saving(p, row, Serialized(post[p]), Idle))
  /\ UNCHANGED <<crew, offer, now, missed, jobs, post, revs>>

EditBlog(w)         == Edit(w, {"article"}, Inputs)
EditNews(w)         == Edit(w, {"article"}, Inputs)
EditWiki(w)         == Edit(w, {"article"}, Inputs)
EditPage(w)         == Edit(w, {"article", "plain"}, Inputs)
EditPad(w)          == Edit(w, {"pad"}, Undated)
EditDiscussion(w)   == Edit(w, {"plain"}, Inputs)
EditQuestion(w)     == Edit(w, {"plain"}, Inputs)
EditTask(w)         == Edit(w, {"plain"}, Inputs)
EditStatusUpdate(w) == Edit(w, {"plain"}, Inputs)
EditFileFolder(w)   == Edit(w, {"plain", "shown"}, Inputs)

\* resolve_archive_entity: put away, or take back.
ArchiveEntity(w) ==
  /\ Free(w, "archive")
  /\ \E p \in Posts :
       Alive(p) /\ Take(w, Saving(p, Toggled(post[p]), Serialized(post[p]), Idle))
  /\ UNCHANGED <<crew, offer, now, missed, jobs, post, revs>>

\* Deleting a post deletes its revisions.  A shown file is protected.
Erased(p) == /\ post' = [post EXCEPT ![p] = Gone]
             /\ revs' = [revs EXCEPT ![p] = <<>>]
Protected(p) == post[p].class = "shown"

DeleteEntity(w) ==
  /\ Free(w, "delete")
  /\ \E p \in Posts : Alive(p) /\ ~Protected(p) /\ Erased(p)
  /\ budget' = [budget EXCEPT !.requests = @ - 1]
  /\ UNCHANGED <<crew, offer, now, missed, jobs, proc>>

\* Entity.save writes every column of the copy; Django inserts the row again when
\* it is no longer there.
Save(w) ==
  LET s == proc[w]
  IN  /\ s.at \in {"save", "copy"}
      /\ post' = [post EXCEPT ![s.on] = s.row]
      /\ proc' = [proc EXCEPT ![w] = IF s.at = "save" /\ HasRevisions(s.row)
                                     THEN [s EXCEPT !.at = "record"] ELSE s.rest]
      /\ UNCHANGED <<crew, offer, now, missed, jobs, revs, budget>>

\* Mutant of Noted: a revision is kept only when the status changed.
NotedStatus(p, revision) ==
  IF revision.from.status = revision.to.status /\ revs[p] # <<>> THEN revs
  ELSE [revs EXCEPT ![p] = Append(@, revision)]
Noted(p, revision) == [revs EXCEPT ![p] = Append(@, revision)]

\* Revision.store_update_revision.  The time of a revision is the time at which
\* its tracking started.  A post deleted in between is a foreign key that fails.
Record(w) ==
  LET s == proc[w]
  IN  /\ s.at = "record"
      /\ revs' = IF ~Alive(s.on) THEN revs
                 ELSE Noted(s.on, [at |-> s.began, from |-> s.from,
                                   to |-> Serialized(s.row)])
      /\ proc' = [proc EXCEPT ![w] = IF Alive(s.on) THEN s.rest ELSE Idle]
      /\ UNCHANGED <<crew, offer, now, missed, jobs, post, budget>>

(***************************************************************************)
(* The hourly jobs.                                                        *)
(***************************************************************************)
JobNames == {"archive", "delete", "publish"}
IsJob(s) == s.at \in JobNames \/ (s.at \in {"save", "record"} /\ s.rest # Idle)

\* The hour strikes: the beat dispatches the jobs, or is missed.  The jobs of an
\* hour end within that hour.
Quiet == jobs = {} /\ \A w \in crew : ~IsJob(proc[w])
Later == IF now < Horizon THEN now + 1 ELSE now
Beat ==
  /\ Quiet
  /\ now' = Later
  /\ jobs' = {"depublicate", "publish"}
  /\ missed' = 0
  /\ UNCHANGED <<crew, offer, post, revs, proc, budget>>
MissBeat ==
  /\ Quiet /\ now < Horizon /\ missed < MaxMissed
  /\ now' = now + 1
  /\ missed' = missed + 1
  /\ UNCHANGED <<crew, offer, jobs, post, revs, proc, budget>>

Pickup(w, job, state) ==
  /\ w \in crew /\ proc[w] = Idle /\ job \in jobs
  /\ jobs' = jobs \ {job}
  /\ proc' = [proc EXCEPT ![w] = state]
  /\ UNCHANGED <<crew, offer, now, missed, post, revs, budget>>

Copies(due) == [p \in due |-> post[p]]
Loop(job, copies) == [at |-> job, copies |-> copies]
Without(loop, p) == [loop EXCEPT !.copies = [q \in DOMAIN @ \ {p} |-> @[q]]]

\* Mutant of ToArchive: only what became due since the last hour.
ToArchiveNew == {p \in Posts : Alive(p) /\ post[p].arch = now /\ ~post[p].archived}
ToArchive == {p \in Posts : Alive(p) /\ Passed(post[p].arch, now) /\ ~post[p].archived}
\* Mutant of ToDelete: only archived posts are deleted.
ToDeleteArchived == {p \in Posts : Alive(p) /\ Passed(post[p].del, now) /\ post[p].archived}
ToDelete == {p \in Posts : Alive(p) /\ Passed(post[p].del, now)}

\* depublicate_content: save the posts to archive one by one, each with its
\* revision, then query and delete the posts to delete.
Depublicate(w) == Pickup(w, "depublicate", Loop("archive", Copies(ToArchive)))

ArchiveNext(w) ==
  LET s == proc[w]
  IN  /\ s.at = "archive"
      /\ \E p \in DOMAIN s.copies :
           proc' = [proc EXCEPT ![w] =
                      Saving(p, [s.copies[p] EXCEPT !.archived = TRUE],
                             Serialized(s.copies[p]), Without(s, p))]
      /\ UNCHANGED <<crew, offer, now, missed, jobs, post, revs, budget>>

ArchiveDone(w) ==
  LET s == proc[w]
  IN  /\ s.at = "archive" /\ DOMAIN s.copies = {}
      /\ proc' = [proc EXCEPT ![w] = Loop("delete", Copies(ToDelete))]
      /\ UNCHANGED <<crew, offer, now, missed, jobs, post, revs, budget>>

\* A protected file ends the job: ProtectedError is not caught.
DeleteNext(w) ==
  LET s == proc[w]
  IN  /\ s.at = "delete"
      /\ \E p \in DOMAIN s.copies :
           IF Alive(p) /\ Protected(p)
           THEN proc' = [proc EXCEPT ![w] = Idle] /\ UNCHANGED <<post, revs>>
           ELSE proc' = [proc EXCEPT ![w] = Without(s, p)] /\ Erased(p)
      /\ UNCHANGED <<crew, offer, now, missed, jobs, budget>>

LoopDone(w) ==
  LET s == proc[w]
  IN  /\ s.at \in {"delete", "publish"} /\ DOMAIN s.copies = {}
      /\ proc' = [proc EXCEPT ![w] = Idle]
      /\ UNCHANGED <<crew, offer, now, missed, jobs, post, revs, budget>>

\* make_publication_revisions: the posts published less than Window hours ago,
\* those of the future included (the job runs a moment after the hour).
\* Mutant of Recent: one hour less.
RecentHour == {p \in Posts : Alive(p) /\ post[p].pub # NoDate
                             /\ post[p].pub > now - Window + 1 /\ HasRevisions(post[p])}
Recent == {p \in Posts : Alive(p) /\ post[p].pub # NoDate
                         /\ post[p].pub > now - Window /\ HasRevisions(post[p])}

Publish(w) == Pickup(w, "publish", Loop("publish", Copies(Recent)))

\* Revision.objects.latest('created_at').
Latest(p) == LET newest == CHOOSE r \in {revs[p][i].at : i \in DOMAIN revs[p]} :
                             \A i \in DOMAIN revs[p] : revs[p][i].at <= r
             IN  revs[p][CHOOSE i \in DOMAIN revs[p] :
                           /\ revs[p][i].at = newest
                           /\ \A j \in DOMAIN revs[p] : revs[p][j].at = newest => j <= i]

\* _maybe_create_publication_revision: a revision if the status by the dates is
\* not what it was at the last revision.  A post without revisions ends the job:
\* Revision.DoesNotExist is not caught.
PublishNext(w) ==
  LET s == proc[w]
  IN  /\ s.at = "publish"
      /\ \E p \in DOMAIN s.copies :
           LET row    == s.copies[p]
               before == StatusAt(row, Latest(p).at)
           IN  IF revs[p] = <<>>
               THEN proc' = [proc EXCEPT ![w] = Idle] /\ UNCHANGED revs
               ELSE /\ proc' = [proc EXCEPT ![w] = Without(s, p)]
                    /\ revs' = IF before = StatusAt(row, now) THEN revs
                               ELSE Noted(p, [at |-> now,
                                              from |-> [Serialized(row) EXCEPT !.status = before],
                                              to |-> Serialized(row)])
      /\ UNCHANGED <<crew, offer, now, missed, jobs, post, budget>>

\* A process dies: its request or job stops where it is.
Crash(w) ==
  /\ w \in crew /\ proc[w] # Idle /\ "crash" \in offer /\ budget.crashes > 0
  /\ proc' = [proc EXCEPT ![w] = Idle]
  /\ budget' = [budget EXCEPT !.crashes = @ - 1]
  /\ UNCHANGED <<crew, offer, now, missed, jobs, post, revs>>

(***************************************************************************)
(* Executions.                                                             *)
(***************************************************************************)
Init ==
  /\ crew \in Crews /\ offer \in Offers
  /\ now = 0 /\ missed = 0 /\ jobs = {}
  /\ post = [p \in Posts |-> Unused]
  /\ revs = [p \in Posts |-> <<>>]
  /\ proc = [w \in Workers |-> Idle]
  /\ budget = [requests |-> MaxRequests, crashes |-> MaxCrashes]

AddPost(w) ==
  \/ AddBlog(w) \/ AddNews(w) \/ AddWiki(w) \/ AddPage(w) \/ AddPad(w) \/ AddDiscussion(w)
  \/ AddQuestion(w) \/ AddTask(w) \/ AddStatusUpdate(w) \/ AddFolder(w) \/ AddFile(w)

EditPost(w) ==
  \/ EditBlog(w) \/ EditNews(w) \/ EditWiki(w) \/ EditPage(w) \/ EditPad(w)
  \/ EditDiscussion(w) \/ EditQuestion(w) \/ EditTask(w) \/ EditStatusUpdate(w)
  \/ EditFileFolder(w)

Request(w) == AddPost(w) \/ EditPost(w) \/ CopyPage(w) \/ ArchiveEntity(w) \/ DeleteEntity(w)

Progress(w) ==
  \/ Save(w) \/ Record(w)
  \/ Depublicate(w) \/ ArchiveNext(w) \/ ArchiveDone(w) \/ DeleteNext(w)
  \/ Publish(w) \/ PublishNext(w) \/ LoopDone(w)

Next == \/ Beat \/ MissBeat
        \/ \E w \in Workers : Request(w) \/ Progress(w) \/ Crash(w)

Spec == Init /\ [][Next]_vars

\* A worker that took something on goes on with it, workers take the jobs that
\* wait, and the beat strikes again.  Nobody has to make a request.
FairSpec == Spec /\ WF_vars(Beat) /\ \A w \in Workers : WF_vars(Progress(w))

(***************************************************************************)
(* Properties.                                                             *)
(***************************************************************************)
\* The variables have their types.
IsLoop(s) == /\ s.at \in JobNames
             /\ DOMAIN s.copies \subseteq Posts
             /\ \A p \in DOMAIN s.copies : s.copies[p] \in Row
IsSave(s) == /\ s.at \in {"save", "copy", "record"} /\ s.on \in Posts
             /\ s.row \in Row /\ s.from \in Content /\ s.began \in Hours
             /\ s.rest = Idle \/ IsLoop(s.rest)
TypeOK ==
  /\ crew \subseteq Workers
  /\ now \in Hours /\ missed \in 0..MaxMissed
  /\ jobs \subseteq {"depublicate", "publish"}
  /\ post \in [Posts -> Row \cup {Unused, Gone}]
  /\ \A p \in Posts : \A i \in DOMAIN revs[p] : revs[p][i] \in Revision
  /\ \A w \in Workers : proc[w] = Idle \/ IsLoop(proc[w]) \/ IsSave(proc[w])

\* One process does everything, no process dies and no page is copied: what the
\* statements below need.
Careful == Cardinality(crew) = 1 /\ offer \cap {"crash", "copy"} = {}

\* When the jobs of the hour are done, the latest revision of a post is the post
\* as it is: its text, and its status, also when only the clock changed it
\* (make_publication_revisions, depublicate_content), for any order of edits,
\* jobs and one missed beat.
HistoryCurrent ==
  (Careful /\ Quiet /\ missed = 0 /\ \A w \in crew : proc[w] = Idle) =>
    \A p \in Posts : Alive(p) /\ HasRevisions(post[p]) =>
      revs[p] # <<>> /\ revs[p][Len(revs[p])].to = Serialized(post[p])

\* Every text a post had is in its history: a revision starts from the text the
\* one before it ended with (Revision.store_update_revision).
ChainIntact ==
  Careful => \A p \in Posts : \A i \in 1..Len(revs[p]) - 1 :
    revs[p][i].to.text = revs[p][i + 1].from.text

\* No post is deleted before it is archived: the two dates of a row are in order,
\* unless the date of deletion has passed and the job is about to delete the post
\* (update_publication_dates, resolve_toggle_is_archived), also when requests
\* and jobs overlap or die.
DatesOrdered ==
  \A p \in Posts : Alive(p) =>
    LET row == post[p]
    IN  (row.arch # NoDate /\ row.del # NoDate) => (row.arch <= row.del \/ row.del < now)

\* The hourly job leaves alone a post that a user took back from the archive
\* (resolve_toggle_is_archived, depublicate_content): it archives only a post
\* whose latest revision is not the taking back.
RestoredStays ==
  [][\A p \in Posts, w \in Workers :
       (/\ Careful /\ IsJob(proc[w]) /\ Saves(w, p)
        /\ post'[p] # post[p] /\ revs[p] # <<>>)
       => revs[p][Len(revs[p])].from.status # "archived"]_vars

\* A post whose date of archiving has come ends up archived, deleted, or with
\* another date, whatever beats are missed, processes die or requests overlap.
DueToArchive(p) == Alive(p) /\ ~post[p].archived /\ Passed(post[p].arch, now)
ArchivedWhenDue == \A p \in Posts : DueToArchive(p) ~> ~DueToArchive(p)

\* A post whose date of deletion has come ends up deleted or with another date,
\* unless a file that cannot be deleted is due as well and ends every job early.
DueToDelete(p) == Alive(p) /\ Passed(post[p].del, now)
DeletedWhenDue ==
  \A p \in Posts : DueToDelete(p) ~>
    (~DueToDelete(p) \/ \E q \in Posts : DueToDelete(q) /\ Protected(q))

\* The row of a post, its dates and its history agree.
HistorySound == TypeOK /\ HistoryCurrent /\ ChainIntact /\ DatesOrdered
\* Posts are archived and deleted when it is due, and not again once taken back.
DatesKept == RestoredStays /\ ArchivedWhenDue /\ DeletedWhenDue
=============================================================================
