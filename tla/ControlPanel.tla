------------------------------ MODULE ControlPanel ------------------------------
(***************************************************************************)
(* The control panel: sites are added, restored, deleted, switched on and  *)
(* off and backed up by Celery tasks that its views submit                 *)
(* (control/views.py, control/tasks.py, control/models.py).                *)
(*                                                                         *)
(* A task is a sequence of statements over the rows of the public schema,  *)
(* the schemas of the sites, their media folders and the backup folder; no *)
(* transaction holds them together.  A worker that dies leaves its task in *)
(* state STARTED: Celery hands a task out once.  Creating and dropping a   *)
(* schema with the row of its Client is django_tenants' work.              *)
(***************************************************************************)
EXTENDS Integers, FiniteSets

CONSTANTS
  Schemas,       \* names a site can have; also the name of its media folder
  Domains,       \* host names
  CeleryWorkers, \* processes that execute tasks
  MaxSites,      \* bound on the sites ever made; a number is a primary key
  MaxTasks,      \* bound on the tasks ever submitted
  MaxDeaths      \* bound on the workers that die in the middle of a task

Sites == 1..MaxSites
Tasks == 1..MaxTasks

\* Tables without a row; files of a site that is gone.
Nobodys == MaxSites + 1

\* "none" is what a request names that needs no schema and no host.
ASSUME PanelAssumption ==
  /\ MaxSites \in Nat \ {0} /\ MaxTasks \in Nat /\ MaxDeaths \in Nat
  /\ "none" \notin Schemas \cup Domains /\ IsFiniteSet(CeleryWorkers)

VARIABLES
  client,   \* client[i]: the row of site i
  domain,   \* domain[d]: the site d belongs to, 0 for none
  db,       \* db[s]: whose data schema s holds, 0 when it does not exist
  disk,     \* disk[s]: whose files media folder s holds, 0 when it does not exist
  archive,  \* the backup folder
  row,      \* row[t]: the state the Task row of t shows
  job,      \* job[t]: what t does and how far Celery is with it
  old,      \* tasks created more than a day ago
  form,     \* the task a view has submitted and not yet saved, 0 for none
  polls,    \* follow-ups that wait for a worker
  busy,     \* busy[w]: the statement w executes next
  status,   \* status[i]: how many ElasticsearchStatus rows site i has
  origin,   \* history: origin[i]: what site i was made from
  crossed,  \* history: two tasks on sites were ever executed at the same time
  met,      \* history: two follow-ups ever were
  deaths    \* workers that died

panel == <<client, domain, db, disk, archive, row, job, old, form, polls, busy, status,
           origin, crossed, met, deaths>>
sites == <<client, domain, db, disk, archive, status, origin>>

NoSite    == [there |-> FALSE, schema |-> "none", active |-> FALSE]
NoArchive == [part |-> "none", data |-> 0, files |-> 0, listed |-> FALSE]
Unmade    == [how |-> "unmade", from |-> NoArchive]
Resting   == [do |-> "rest"]

Request(kind, site, schema, host) ==
  [kind |-> kind, site |-> site, schema |-> schema, host |-> host, state |-> "queued"]
NoJob == [Request("none", 0, "none", "none") EXCEPT !.state = "none"]

OnSites(j) == j.kind \notin {"none", "check"}
Ended(t)   == job[t].state \in {"done", "failed"}
Final      == {"SUCCESS", "FAILURE"}

PanelInit ==
  \E s \in Schemas, d \in Domains, files \in {0, 1} :
    /\ client = [i \in Sites |-> IF i = 1 THEN [there |-> TRUE, schema |-> s, active |-> TRUE] ELSE NoSite]
    /\ domain = [e \in Domains |-> IF e = d THEN 1 ELSE 0]
    /\ db = [r \in Schemas |-> IF r = s THEN 1 ELSE 0]
    /\ disk = [r \in Schemas |-> IF r = s THEN files ELSE 0]
    /\ archive \in {NoArchive, [part |-> "whole", data |-> 1, files |-> files, listed |-> TRUE]}
    /\ row = [t \in Tasks |-> "none"]
    /\ job = [t \in Tasks |-> NoJob]
    /\ old = {}
    /\ form = 0
    /\ polls = 0
    /\ busy = [w \in CeleryWorkers |-> Resting]
    /\ status = [i \in Sites |-> IF i = 1 THEN 2 ELSE 0]
    /\ origin = [i \in Sites |-> IF i = 1 THEN [Unmade EXCEPT !.how = "added"] ELSE Unmade]
    /\ crossed = FALSE
    /\ met = FALSE
    /\ deaths = 0

(***************************************************************************)
(* The views.                                                              *)
(***************************************************************************)
\* Mutant of Named: a site that is switched off is overlooked.
NamedActive(s) == {i \in Sites : client[i].there /\ client[i].active /\ client[i].schema = s}
Named(s) == {i \in Sites : client[i].there /\ client[i].schema = s}
Present  == {i \in Sites : client[i].there}

\* apply_async.
Submitted(request) ==
  /\ \E t \in Tasks : /\ job[t] = NoJob
                      /\ \A u \in Tasks : u < t => job[u] # NoJob
                      /\ job' = [job EXCEPT ![t] = request]
                      /\ form' = IF request.kind \in {"backup", "check"} THEN 0 ELSE t
  /\ UNCHANGED <<sites, row, old, polls, busy, crossed, met, deaths>>

\* create_task submits the chain before it saves the row.
Submit(request) == form = 0 /\ Submitted(request)

SaveTask ==
  /\ form # 0
  /\ row' = [row EXCEPT ![form] = "PENDING"]
  /\ form' = 0
  /\ UNCHANGED <<sites, job, old, polls, busy, crossed, met, deaths>>

\* AddSiteForm.
SitesAdd ==
  \E s \in Schemas, d \in Domains, kind \in {"add", "restore"} :
    /\ domain[d] = 0
    /\ Named(s) = {}
    /\ Submit(Request(kind, 0, s, d))

SitesDelete  == \E i \in Present : Submit(Request("delete", i, "none", "none"))
SitesDisable == \E i \in Present : Submit(Request("disable", i, "none", "none"))
SitesEnable  == \E i \in Present : Submit(Request("enable", i, "none", "none"))
\* schedule_backup; its folder is named after the second it is made in.
SitesBackup  == /\ archive = NoArchive
                /\ \A t \in Tasks : job[t].kind # "backup"
                /\ \E i \in Present : Submit(Request("backup", i, "none", "none"))
\* update_elasticsearch_status, on the beat.
StatusRound  == \E i \in Present : Submit(Request("check", i, "none", "none"))

\* People work on a site.
Upload ==
  /\ \E i \in Present : /\ origin[i] # Unmade
                        /\ disk[client[i].schema] = 0
                        /\ disk' = [disk EXCEPT ![client[i].schema] = i]
  /\ UNCHANGED <<client, domain, db, archive, row, job, old, form, polls, busy, status, origin,
                 crossed, met, deaths>>

DayPasses ==
  /\ old' = {t \in Tasks : row[t] # "none"}
  /\ old' # old
  /\ UNCHANGED <<sites, row, job, form, polls, busy, crossed, met, deaths>>

(***************************************************************************)
(* A worker and its task.                                                  *)
(***************************************************************************)
First(kind) == CASE kind \in {"add"} -> "insert"
                 [] kind = "restore" -> "verify"
                 [] kind = "check" -> "clean"
                 [] OTHER -> "load"

Take(w) ==
  /\ busy[w] = Resting
  /\ \E t \in Tasks :
       /\ job[t].state = "queued"
       /\ job' = [job EXCEPT ![t].state = "started"]
       /\ busy' = [busy EXCEPT ![w] = [do |-> First(job[t].kind), t |-> t, site |-> job[t].site,
                                       copy |-> NoSite, from |-> NoArchive]]
       /\ crossed' = (crossed \/ (OnSites(job[t]) /\ \E u \in Tasks : OnSites(job[u]) /\ job[u].state = "started"
                                                        /\ \E v \in CeleryWorkers : busy[v] # Resting /\ busy[v].t = u))
  /\ UNCHANGED <<sites, row, old, form, polls, met, deaths>>

At(w, do)  == busy[w].do = do
Mine(w)    == job[busy[w].t]
Then(w, do) == busy' = [busy EXCEPT ![w].do = do] /\ UNCHANGED <<job, polls>>
\* The follow-up is chained to success.
End(w, state) ==
  /\ job' = [job EXCEPT ![busy[w].t].state = state]
  /\ busy' = [busy EXCEPT ![w] = Resting]
  /\ polls' = IF state = "done" /\ Mine(w).kind \notin {"backup", "check"} THEN polls + 1 ELSE polls
Panel == UNCHANGED <<row, old, form, crossed, met, deaths>>

\* Client.objects.get.
Load(w) ==
  /\ At(w, "load")
  /\ LET c == client[busy[w].site] IN
       IF ~c.there THEN End(w, "failed")
       ELSE /\ busy' = [busy EXCEPT ![w].copy = c,
                                    ![w].do = CASE Mine(w).kind = "delete" -> "dropSchema"
                                                [] Mine(w).kind = "backup" -> "makeFolder"
                                                [] OTHER -> "update"]
            /\ UNCHANGED <<job, polls>>
  /\ UNCHANGED sites /\ Panel

\* Client.save, for a row made by this task; it creates the schema unless it
\* exists.
NewSite(i) == origin[i] = Unmade /\ \A j \in Sites : j < i => origin[j] # Unmade
InsertSite(w) ==
  /\ At(w, "insert")
  /\ IF Named(Mine(w).schema) # {} THEN End(w, "failed") /\ UNCHANGED sites
     ELSE /\ \E i \in Sites :
               /\ NewSite(i)
               /\ client' = [client EXCEPT ![i] = [there |-> TRUE, schema |-> Mine(w).schema, active |-> TRUE]]
               /\ origin' = [origin EXCEPT ![i] = IF Mine(w).kind = "add" THEN [Unmade EXCEPT !.how = "inserted"]
                                                  ELSE [how |-> "restored", from |-> busy[w].from]]
               /\ busy' = [busy EXCEPT ![w].site = i,
                                       ![w].do = IF Mine(w).kind = "add" THEN "createSchema" ELSE "addDomain"]
          /\ UNCHANGED <<domain, db, disk, archive, status, job, polls>>
  /\ Panel

CreateSchema(w) ==
  /\ At(w, "createSchema")
  /\ LET s == Mine(w).schema IN db' = [db EXCEPT ![s] = IF @ = 0 THEN busy[w].site ELSE @]
  /\ origin' = [origin EXCEPT ![busy[w].site].how = "added"]
  /\ Then(w, "addDomain")
  /\ UNCHANGED <<client, domain, disk, archive, status>> /\ Panel

AddDomain(w) ==
  /\ At(w, "addDomain")
  /\ IF domain[Mine(w).host] = 0 /\ client[busy[w].site].there
     THEN domain' = [domain EXCEPT ![Mine(w).host] = busy[w].site] /\ End(w, "done")
     ELSE End(w, "failed") /\ UNCHANGED domain
  /\ UNCHANGED <<client, db, disk, archive, status, origin>> /\ Panel

\* delete_site: Client.delete drops the schema first.
\* Mutant of DropSchema: auto_drop_schema is left off.
DropNoSchema(w) ==
  /\ At(w, "dropSchema")
  /\ Then(w, "dropRow")
  /\ UNCHANGED sites /\ Panel
DropSchema(w) ==
  /\ At(w, "dropSchema")
  /\ db' = [db EXCEPT ![busy[w].copy.schema] = 0]
  /\ Then(w, "dropRow")
  /\ UNCHANGED <<client, domain, disk, archive, status, origin>> /\ Panel

DropRow(w) ==
  /\ At(w, "dropRow")
  /\ client' = [client EXCEPT ![busy[w].site] = NoSite]
  /\ domain' = [d \in Domains |-> IF domain[d] = busy[w].site THEN 0 ELSE domain[d]]
  /\ status' = [status EXCEPT ![busy[w].site] = 0]
  /\ Then(w, "dropFiles")
  /\ UNCHANGED <<db, disk, archive, origin>> /\ Panel

\* Mutant of DropFiles: the folder is never removed.
KeepFiles(w) ==
  /\ At(w, "dropFiles")
  /\ End(w, "done")
  /\ UNCHANGED sites /\ Panel

\* Elasticsearch is asked before the folder is removed; when it does not answer
\* the task ends there and the folder stays, of nobody any more.
DropFiles(w) ==
  /\ At(w, "dropFiles")
  /\ LET s == busy[w].copy.schema IN
       \/ disk' = [disk EXCEPT ![s] = 0] /\ End(w, "done")
       \/ disk' = [disk EXCEPT ![s] = IF @ = 0 THEN 0 ELSE Nobodys] /\ End(w, "failed")
  /\ UNCHANGED <<client, domain, db, archive, status, origin>> /\ Panel

\* update_site saves the whole row, and inserts it when it is gone; it fails
\* when a site of that name was made meanwhile.
UpdateSite(w) ==
  /\ At(w, "update")
  /\ IF Named(busy[w].copy.schema) \subseteq {busy[w].site}
     THEN /\ client' = [client EXCEPT ![busy[w].site] = [busy[w].copy EXCEPT !.active = (Mine(w).kind = "enable")]]
          /\ End(w, "done")
     ELSE End(w, "failed") /\ UNCHANGED client
  /\ UNCHANGED <<domain, db, disk, archive, status, origin>> /\ Panel

(***************************************************************************)
(* Backup and restore.                                                     *)
(***************************************************************************)
\* The folder, the schema, the data and the files.  Nobody asks how pg_dump
\* ended: a schema that is gone gives an empty dump.
MakeFolder(w) ==
  /\ At(w, "makeFolder")
  /\ archive' = [NoArchive EXCEPT !.part = "schema"]
  /\ Then(w, "dumpData")
  /\ UNCHANGED <<client, domain, db, disk, status, origin>> /\ Panel

DumpData(w) ==
  /\ At(w, "dumpData")
  /\ archive' = [archive EXCEPT !.part = "data", !.data = db[busy[w].copy.schema]]
  /\ Then(w, "copyFiles")
  /\ UNCHANGED <<client, domain, db, disk, status, origin>> /\ Panel

CopyFiles(w) ==
  /\ At(w, "copyFiles")
  /\ archive' = [archive EXCEPT !.part = "whole", !.files = disk[busy[w].copy.schema]]
  /\ End(w, "done")
  /\ UNCHANGED <<client, domain, db, disk, status, origin>> /\ Panel

\* followup_backup_complete, chained to backup_site.
ListBackup(w) ==
  /\ busy[w] = Resting
  /\ \E t \in Tasks : job[t].kind = "backup" /\ job[t].state = "done" /\ client[job[t].site].there
  /\ ~archive.listed
  /\ archive' = [archive EXCEPT !.listed = TRUE]
  /\ UNCHANGED <<client, domain, db, disk, status, origin, row, job, old, form, polls, busy, crossed, met, deaths>>

\* Mutant of Free: the media folder is not looked at.
FreeNames(s, d) == Named(s) = {} /\ domain[d] = 0
Free(s, d) == Named(s) = {} /\ domain[d] = 0 /\ disk[s] = 0
Verify(w) ==
  /\ At(w, "verify")
  /\ IF Free(Mine(w).schema, Mine(w).host) /\ archive.part # "none"
     THEN busy' = [busy EXCEPT ![w].do = "restoreSchema"] /\ UNCHANGED <<job, polls>>
     ELSE End(w, "failed")
  /\ UNCHANGED sites /\ Panel

\* CREATE SCHEMA fails if it exists.
RestoreSchema(w) ==
  /\ At(w, "restoreSchema")
  /\ IF db[Mine(w).schema] # 0 THEN End(w, "failed") /\ UNCHANGED db
     ELSE /\ db' = [db EXCEPT ![Mine(w).schema] = Nobodys]
          /\ busy' = [busy EXCEPT ![w].do = "restoreData", ![w].from = archive] /\ UNCHANGED <<job, polls>>
  /\ UNCHANGED <<client, domain, disk, archive, status, origin>> /\ Panel

RestoreData(w) ==
  /\ At(w, "restoreData")
  /\ db' = [db EXCEPT ![Mine(w).schema] = IF archive.data = 0 THEN @ ELSE archive.data]
  /\ Then(w, "restoreFiles")
  /\ UNCHANGED <<client, domain, disk, archive, status, origin>> /\ Panel

\* copytree fails if the folder exists.
RestoreFiles(w) ==
  /\ At(w, "restoreFiles")
  /\ LET s == Mine(w).schema IN
       IF archive.files # 0 /\ disk[s] # 0 THEN End(w, "failed") /\ UNCHANGED disk
       ELSE disk' = [disk EXCEPT ![s] = IF archive.files # 0 THEN archive.files ELSE @] /\ Then(w, "insert")
  /\ UNCHANGED <<client, domain, db, archive, status, origin>> /\ Panel

(***************************************************************************)
(* The state of the search index, recorded once a day.                     *)
(***************************************************************************)
AtMostTwo(n) == IF n > 2 THEN 2 ELSE n
\* Mutant of Cleaned: nothing is cleaned up.
CleanedNot(n) == n
\* ElasticsearchStatus.objects.cleanup.
Cleaned(n) == AtMostTwo(n)
CleanUp(w) ==
  /\ At(w, "clean")
  /\ status' = [status EXCEPT ![busy[w].site] = Cleaned(@)]
  /\ IF client[busy[w].site].there THEN Then(w, "record") ELSE End(w, "failed")
  /\ UNCHANGED <<client, domain, db, disk, archive, origin>> /\ Panel

Record(w) ==
  /\ At(w, "record")
  /\ IF client[busy[w].site].there
     THEN status' = [status EXCEPT ![busy[w].site] = @ + 1] /\ End(w, "done")
     ELSE End(w, "failed") /\ UNCHANGED status
  /\ UNCHANGED <<client, domain, db, disk, archive, origin>> /\ Panel

(***************************************************************************)
(* followup_task_complete.                                                 *)
(***************************************************************************)
\* Mutant of Open: a task that has started is not looked at again.
OpenPending == {t \in Tasks : row[t] = "PENDING"}
\* Mutant of Open: rows are not left out once they are final.
OpenAll == {t \in Tasks : row[t] # "none"}
Open == {t \in Tasks : row[t] \notin Final \cup {"none"}}
BeginPoll(w) ==
  /\ busy[w] = Resting
  /\ polls > 0
  /\ polls' = polls - 1
  /\ busy' = [busy EXCEPT ![w] = IF Open = {} THEN Resting
                ELSE [do |-> "read", t |-> 0, left |-> Open, ended |-> {t \in Tasks : row[t] # "none" /\ Ended(t)}]]
  /\ met' = (met \/ \E v \in CeleryWorkers : busy[v].do \in {"read", "write"})
  /\ UNCHANGED <<sites, row, job, old, form, crossed, deaths>>

Remote(t) == CASE job[t].state = "done" -> "SUCCESS" [] job[t].state = "failed" -> "FAILURE"
               [] t \in old -> "FAILURE"
               [] job[t].state = "started" -> "STARTED" [] OTHER -> "PENDING"

ReadRemote(w) ==
  /\ At(w, "read")
  /\ \E t \in busy[w].left :
       /\ \A u \in busy[w].left : u <= t
       /\ busy' = [busy EXCEPT ![w] = [do |-> "write", t |-> t, left |-> busy[w].left \ {t},
                                       ended |-> busy[w].ended, state |-> Remote(t)]]
  /\ UNCHANGED <<sites, row, job, old, form, polls, crossed, met, deaths>>

WriteTask(w) ==
  /\ At(w, "write")
  /\ row' = [row EXCEPT ![busy[w].t] = busy[w].state]
  /\ busy' = [busy EXCEPT ![w] = IF busy[w].left = {} THEN Resting
                ELSE [do |-> "read", t |-> 0, left |-> busy[w].left, ended |-> busy[w].ended]]
  /\ UNCHANGED <<sites, job, old, form, polls, crossed, met, deaths>>

-----------------------------------------------------------------------------
WorkerDies(w) ==
  /\ busy[w] # Resting
  /\ deaths < MaxDeaths
  /\ deaths' = deaths + 1
  /\ busy' = [busy EXCEPT ![w] = Resting]
  /\ UNCHANGED <<sites, row, job, old, form, polls, crossed, met>>

View == SitesAdd \/ SitesDelete \/ SitesDisable \/ SitesEnable \/ SitesBackup \/ StatusRound \/ SaveTask \/ Upload \/ DayPasses

Work(w) ==
  \/ Take(w) \/ Load(w) \/ InsertSite(w) \/ CreateSchema(w) \/ AddDomain(w) \/ DropSchema(w) \/ DropRow(w)
  \/ DropFiles(w) \/ UpdateSite(w) \/ MakeFolder(w) \/ DumpData(w) \/ CopyFiles(w)
  \/ ListBackup(w) \/ Verify(w) \/ RestoreSchema(w) \/ RestoreData(w) \/ RestoreFiles(w) \/ CleanUp(w)
  \/ Record(w) \/ BeginPoll(w) \/ ReadRemote(w) \/ WriteTask(w) \/ WorkerDies(w)

PanelNext == View \/ \E w \in CeleryWorkers : Work(w)
PanelSpec == PanelInit /\ [][PanelNext]_panel

(***************************************************************************)
(* Properties.                                                             *)
(***************************************************************************)
Content == 0..Nobodys
Archive == [part : {"none", "schema", "data", "whole"}, data : Content, files : Content, listed : BOOLEAN]

PanelTypeOK ==
  /\ client \in [Sites -> [there : BOOLEAN, schema : Schemas \cup {"none"}, active : BOOLEAN]]
  /\ domain \in [Domains -> 0..MaxSites]
  /\ db \in [Schemas -> Content] /\ disk \in [Schemas -> Content]
  /\ archive \in Archive
  /\ row \in [Tasks -> Final \cup {"none", "PENDING", "STARTED"}]
  /\ \A t \in Tasks : row[t] # "none" => job[t] # NoJob
  /\ old \subseteq Tasks /\ form \in 0..MaxTasks /\ polls \in 0..MaxTasks
  /\ \A i, j \in Sites : client[i].there /\ client[j].there /\ client[i].schema = client[j].schema => i = j

AtRest == \A w \in CeleryWorkers : busy[w].do \in {"rest", "read", "write"}
Alone  == ~crossed /\ deaths = 0

\* Tasks that are executed one at a time and without deaths keep the sites
\* apart: a new site starts with a schema nobody used before it, and never with
\* the files of a site that is there or was deleted to the end.  The one media
\* folder it may take over is that of a deletion which stopped before it.
FreshStart ==
  Alone /\ AtRest => \A i \in Present : origin[i].how = "added" =>
    LET s == client[i].schema IN db[s] = i /\ disk[s] \in {0, i, Nobodys}

Deleting(i) == \E t \in Tasks : job[t].kind = "delete" /\ job[t].site = i /\ job[t].state # "queued"

\* What is restored from a backup of a schema that was gone has no rows.
Tables(a) == IF a.data = 0 THEN Nobodys ELSE a.data

\* A site restored from a listed backup has the data and the files of that
\* backup until it is deleted, also when workers died halfway in earlier tasks:
\* what such a task leaves behind makes the restore fail, it is never mixed in.
RestoredWhole ==
  ~crossed /\ AtRest => \A i \in Present : origin[i].how = "restored" /\ origin[i].from.listed /\ ~Deleting(i) =>
    LET s == client[i].schema IN
      /\ db[s] = Tables(origin[i].from)
      /\ IF origin[i].from.files = 0 THEN disk[s] \in {0, i} ELSE disk[s] = origin[i].from.files

\* A follow-up leaves no row open of a task that was saved and had ended when
\* it began, whatever else it meets; two follow-ups at once may undo that.
FollowUpSettles ==
  [][\A w \in CeleryWorkers :
       ~met /\ At(w, "write") /\ busy'[w] = Resting /\ row' # row => \A t \in busy[w].ended : row'[t] \in Final]_panel

\* Unless two follow-ups run at once, a task that shows SUCCESS or FAILURE keeps
\* doing so: one that was given up after a day is not revived by its late end.
OutcomeStays == [][~met => \A t \in Tasks : row[t] \in Final => row'[t] = row[t]]_panel

\* A site has at most two records of its search index more than there are
\* workers to write them at the same time.
StatusBound == \A i \in Sites : status[i] <= 2 + Cardinality(CeleryWorkers)

\* Sites are kept apart, and a task row is one record.
PanelSound == PanelTypeOK /\ FreshStart /\ RestoredWhole /\ StatusBound
=============================================================================
