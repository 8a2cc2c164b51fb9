------------------------------ MODULE SearchIndex ------------------------------
(***************************************************************************)
(* The search index follows the rows: signals of a save or a delete write  *)
(* to Elasticsearch at once, files in groups and failed writes go through  *)
(* a Celery task that is retried (core/elasticsearch.py, core/tasks/       *)
(* elasticsearch_tasks.py, core/utils/elasticsearch.py, file/documents.py).*)
(* The index keeps the last document written to it, whatever it was made   *)
(* from, and may be out of reach.                                          *)
(***************************************************************************)
EXTENDS Integers, FiniteSets

CONSTANTS
  Things,      \* posts, groups, users and files
  GroupFiles,  \* the files in groups among them: indexed by a task
  Indexers,    \* web processes and Celery workers
  MaxVersions, \* bound on the saves of a thing
  MaxTries,    \* max_retries
  MaxOutages   \* bound on the times the index goes out of reach

ASSUME IndexAssumption ==
  GroupFiles \subseteq Things /\ MaxVersions \in Nat /\ MaxTries \in Nat /\ MaxOutages \in Nat

VARIABLES
  saved,    \* saved[x]: the version of the row of x, 0 when it is not there
  blocked,  \* files the virus scanner has blocked
  ended,    \* things that were deleted; an id is never used again
  doc,      \* doc[x]: the version in the index, 0 when it is not there
  waiting,  \* waiting[x]: the tries of the tasks that wait to index x
  indexer,  \* indexer[w]: the statement w executes next
  up,       \* the index can be reached
  outages,  \* times it went out of reach
  mixed,    \* history: two processes were ever at work at the same time
  missed    \* history: something that had to be written to the index never was

index == <<saved, blocked, ended, doc, waiting, indexer, up, outages, mixed, missed>>

Unoccupied == [do |-> "wait", x |-> "none", v |-> 0, tries |-> 0, left |-> {}, calm |-> TRUE]
Versions == 0..MaxVersions

IndexInit ==
  /\ saved = [x \in Things |-> 0]
  /\ blocked = {} /\ ended = {}
  /\ doc = [x \in Things |-> 0]
  /\ waiting = [x \in Things |-> {}]
  /\ indexer = [w \in Indexers |-> Unoccupied]
  /\ up = TRUE /\ outages = 0
  /\ mixed = FALSE /\ missed = FALSE

Rebuilding(w) == indexer[w].do \in {"empty", "query", "fill"}
\* A rebuild is no longer calm when something else begins.
Begins(w, job) ==
  /\ indexer[w] = Unoccupied
  /\ indexer' = [v \in Indexers |-> IF v = w THEN job
                                   ELSE IF Rebuilding(v) THEN [indexer[v] EXCEPT !.calm = FALSE] ELSE indexer[v]]
  /\ mixed' = (mixed \/ \E v \in Indexers \ {w} : indexer[v] # Unoccupied)
Goes(w, do) == indexer' = [indexer EXCEPT ![w].do = do] /\ UNCHANGED mixed
Rests(w) == indexer' = [indexer EXCEPT ![w] = Unoccupied] /\ UNCHANGED mixed
Doing(w, do) == indexer[w].do = do
X(w) == indexer[w].x

(***************************************************************************)
(* Saving and deleting.                                                    *)
(***************************************************************************)
\* handle_save gets the row that was written, not what is stored by then.
\* Mutant of SaveThing: a row that was deleted is inserted again.
SaveThingAgain(w) ==
  /\ \E x \in Things :
       /\ saved[x] < MaxVersions
       /\ saved' = [saved EXCEPT ![x] = @ + 1]
       /\ Begins(w, [Unoccupied EXCEPT !.do = "send", !.x = x, !.v = saved[x] + 1])
  /\ UNCHANGED <<blocked, ended, doc, waiting, up, outages, missed>>
SaveThing(w) ==
  /\ \E x \in Things \ ended :
       /\ saved[x] < MaxVersions
       /\ saved' = [saved EXCEPT ![x] = @ + 1]
       /\ Begins(w, [Unoccupied EXCEPT !.do = IF x \in GroupFiles THEN "schedule" ELSE "send",
                                       !.x = x, !.v = saved[x] + 1])
  /\ UNCHANGED <<blocked, ended, doc, waiting, up, outages, missed>>

\* The scanner saves the file.
BlockFile(w) ==
  /\ \E x \in GroupFiles \ (blocked \cup ended) :
       /\ saved[x] # 0
       /\ blocked' = blocked \cup {x}
       /\ Begins(w, [Unoccupied EXCEPT !.do = "schedule", !.x = x])
  /\ UNCHANGED <<saved, ended, doc, waiting, up, outages, missed>>

\* Mutant of Send: a failed write is logged and forgotten.
SendOnce(w) ==
  /\ Doing(w, "send")
  /\ doc' = IF up THEN [doc EXCEPT ![X(w)] = indexer[w].v] ELSE doc
  /\ Rests(w)
  /\ UNCHANGED <<saved, blocked, ended, waiting, up, outages, missed>>
Send(w) ==
  /\ Doing(w, "send")
  /\ IF up THEN doc' = [doc EXCEPT ![X(w)] = indexer[w].v] /\ Rests(w)
     ELSE Goes(w, "schedule") /\ UNCHANGED doc
  /\ UNCHANGED <<saved, blocked, ended, waiting, up, outages, missed>>

ScheduleIndexDocument(w) ==
  /\ Doing(w, "schedule")
  /\ waiting' = [waiting EXCEPT ![X(w)] = @ \cup {0}]
  /\ Rests(w)
  /\ UNCHANGED <<saved, blocked, ended, doc, up, outages, missed>>

DeleteThing(w) ==
  /\ \E x \in Things : /\ saved[x] # 0
                       /\ saved' = [saved EXCEPT ![x] = 0]
                       /\ ended' = ended \cup {x}
                       /\ blocked' = blocked \ {x}
                       /\ Begins(w, [Unoccupied EXCEPT !.do = "erase", !.x = x])
  /\ UNCHANGED <<doc, waiting, up, outages, missed>>

\* handle_delete logs a failure.
\* Mutant of Erase: the index is not told.
EraseNot(w) ==
  /\ Doing(w, "erase")
  /\ Rests(w)
  /\ UNCHANGED <<saved, blocked, ended, doc, waiting, up, outages, missed>>
Erase(w) ==
  /\ Doing(w, "erase")
  /\ doc' = IF up THEN [doc EXCEPT ![X(w)] = 0] ELSE doc
  /\ missed' = (missed \/ ~up)
  /\ Rests(w)
  /\ UNCHANGED <<saved, blocked, ended, waiting, up, outages>>

(***************************************************************************)
(* elasticsearch_index_document.                                           *)
(***************************************************************************)
TakeTask(w) ==
  /\ \E x \in Things : \E n \in waiting[x] :
       /\ waiting' = [waiting EXCEPT ![x] = @ \ {n}]
       /\ Begins(w, [Unoccupied EXCEPT !.do = "look", !.x = x, !.tries = n])
  /\ UNCHANGED <<saved, blocked, ended, doc, up, outages, missed>>

\* A blocked file is neither written nor removed.
Outcome(x) == IF saved[x] = 0 THEN "remove" ELSE IF x \in blocked THEN "wait" ELSE "update"
LookUpThing(w) ==
  /\ Doing(w, "look")
  /\ indexer' = [indexer EXCEPT ![w] = IF Outcome(X(w)) = "wait" THEN Unoccupied
                                       ELSE [@ EXCEPT !.do = Outcome(X(w)), !.v = saved[X(w)]]]
  /\ UNCHANGED <<saved, blocked, ended, doc, waiting, up, outages, mixed, missed>>

WriteDocument(w) ==
  /\ indexer[w].do \in {"update", "remove"}
  /\ LET n == indexer[w].tries IN
       /\ doc' = IF up THEN [doc EXCEPT ![X(w)] = IF Doing(w, "remove") THEN 0 ELSE indexer[w].v] ELSE doc
       /\ waiting' = IF ~up /\ n < MaxTries THEN [waiting EXCEPT ![X(w)] = @ \cup {n + 1}] ELSE waiting
       /\ missed' = (missed \/ (~up /\ n = MaxTries))
  /\ Rests(w)
  /\ UNCHANGED <<saved, blocked, ended, up, outages>>

(***************************************************************************)
(* elasticsearch_rebuild_for_tenant.                                       *)
(***************************************************************************)
Rebuild(w) ==
  /\ \A v \in Indexers : ~Rebuilding(v)
  /\ Begins(w, [Unoccupied EXCEPT !.do = "empty", !.calm = \A v \in Indexers : indexer[v] = Unoccupied])
  /\ UNCHANGED <<saved, blocked, ended, doc, waiting, up, outages, missed>>

\* elasticsearch_delete_data_for_tenant; a failure ends the rebuild.
\* Mutant of Empty: the old documents stay.
EmptyNot(w) ==
  /\ Doing(w, "empty")
  /\ Goes(w, "query")
  /\ UNCHANGED <<saved, blocked, ended, doc, waiting, up, outages, missed>>
Empty(w) ==
  /\ Doing(w, "empty")
  /\ IF up THEN doc' = [x \in Things |-> 0] /\ Goes(w, "query") ELSE UNCHANGED doc /\ Rests(w)
  /\ missed' = (missed \/ up)   \* until it is filled again
  /\ UNCHANGED <<saved, blocked, ended, waiting, up, outages>>

\* elasticsearch_index_data_for_tenant reads the rows and sends them in chunks;
\* what cannot be sent is logged.
Listed(x) == saved[x] # 0 /\ x \notin blocked
Query(w) ==
  /\ Doing(w, "query")
  /\ indexer' = [indexer EXCEPT ![w].do = "fill", ![w].left = {<<x, saved[x]>> : x \in {y \in Things : Listed(y)}}]
  /\ UNCHANGED <<saved, blocked, ended, doc, waiting, up, outages, mixed, missed>>

FillIndex(w) ==
  /\ Doing(w, "fill")
  /\ \E r \in indexer[w].left :
       /\ doc' = IF up THEN [doc EXCEPT ![r[1]] = r[2]] ELSE doc
       /\ indexer' = [indexer EXCEPT ![w].left = @ \ {r}, ![w].calm = @ /\ up]
  /\ UNCHANGED <<saved, blocked, ended, waiting, up, outages, mixed, missed>>

FillEnds(w) ==
  /\ Doing(w, "fill") /\ indexer[w].left = {}
  /\ missed' = (missed /\ ~indexer[w].calm)
  /\ Rests(w)
  /\ UNCHANGED <<saved, blocked, ended, doc, waiting, up, outages>>

-----------------------------------------------------------------------------
OutOfReach ==
  /\ up /\ outages < MaxOutages
  /\ up' = FALSE /\ outages' = outages + 1
  /\ UNCHANGED <<saved, blocked, ended, doc, waiting, indexer, mixed, missed>>
InReach ==
  /\ ~up /\ up' = TRUE
  /\ UNCHANGED <<saved, blocked, ended, doc, waiting, indexer, outages, mixed, missed>>

IndexStep(w) ==
  \/ SaveThing(w) \/ BlockFile(w) \/ Send(w) \/ ScheduleIndexDocument(w) \/ DeleteThing(w) \/ Erase(w)
  \/ TakeTask(w) \/ LookUpThing(w) \/ WriteDocument(w) \/ Rebuild(w) \/ Empty(w) \/ Query(w)
  \/ FillIndex(w) \/ FillEnds(w)
IndexNext == OutOfReach \/ InReach \/ \E w \in Indexers : IndexStep(w)
IndexSpec == IndexInit /\ [][IndexNext]_index

(***************************************************************************)
(* Properties.                                                             *)
(***************************************************************************)
IndexJobs == [do : {"wait", "send", "schedule", "erase", "look", "update", "remove", "empty", "query", "fill"},
              x : Things \cup {"none"}, v : Versions, tries : 0..MaxTries,
              left : SUBSET (Things \X Versions), calm : BOOLEAN]
IndexTypeOK ==
  /\ saved \in [Things -> Versions] /\ doc \in [Things -> Versions]
  /\ blocked \subseteq GroupFiles /\ ended \subseteq Things
  /\ waiting \in [Things -> SUBSET (0..MaxTries)]
  /\ indexer \in [Indexers -> IndexJobs]
  /\ {up, mixed, missed} \subseteq BOOLEAN /\ outages \in 0..MaxOutages
  /\ \A x \in ended : saved[x] = 0

Quiet == \A w \in Indexers : indexer[w] = Unoccupied

\* Work that is done one thing at a time keeps the index in step, outages
\* included: when no task waits, every document is that of its row.  A file
\* that was blocked keeps its last document.
IndexInStep ==
  Quiet /\ ~mixed /\ ~missed /\ (\A x \in Things : waiting[x] = {}) =>
    \A x \in Things \ blocked : doc[x] = saved[x]

\* Under the same conditions a search finds nothing that is gone, also while
\* tasks wait: resolve_search looks every hit up by its id.
HitsExist == Quiet /\ ~mixed /\ ~missed => \A x \in Things : doc[x] # 0 => saved[x] # 0

\* Whatever happened before, a rebuild that nothing crosses repairs the index.
RebuildRepairs ==
  [][\A w \in Indexers : Doing(w, "fill") /\ indexer'[w] = Unoccupied /\ indexer[w].calm =>
       \A x \in Things : doc'[x] = IF Listed(x) THEN saved[x] ELSE 0]_index

\* The index has the rows as they are, when nothing is on its way.
IndexSound == IndexTypeOK /\ IndexInStep /\ HitsExist
=============================================================================
