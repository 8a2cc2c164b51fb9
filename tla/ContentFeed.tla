----------------------------- MODULE ContentFeed -----------------------------
(***************************************************************************)
(* Content of other sites, copied every hour: a task per source takes the  *)
(* lock of its source, decides by two stamps between everything and what   *)
(* changed, saves record by record, lists the tags, removes what was not   *)
(* listed, and stamps.  Beside it administrators who edit and delete       *)
(* sources or choose tags, and the remote sites themselves.                *)
(***************************************************************************)
EXTENDS Integers, FiniteSets, TLC

CONSTANTS
  Sources,      \* the data hubs a site reads
  Records,      \* identities of remote records
  Fetchers,     \* workers that run the tasks
  Day,          \* hours between two full syncs
  MaxHours,     \* bound: hours
  MaxTurns,     \* bound: changes at the remote sites and by administrators
  MaxFaults     \* bound: failures, deaths and locks that expire

VARIABLES
  remote,    \* remote[s]: records at the source, to their version and moment of change
  source,    \* rows of sources: the stamps of the last full sync and update
  rows,      \* content on this site: the source, the record, the version
  lock,      \* sources whose lock is taken
  fetcher,   \* what a worker is doing
  tagging,   \* TAG_CATEGORIES: names of categories; whether the feed is enabled
  hour, spent,
  past       \* history: sources whose reading was overrun, slow or cleared, crossings,
             \* and the row of a source before its last stamp

feed == <<remote, source, rows, lock, fetcher, tagging, hour, spent, past>>

Never   == -1
Removed == [full |-> Never, update |-> -2]    \* a source that was deleted
Resting == [step |-> "resting"]
\* Mutant of Known: nobody asks whether the source is still there.
KnownAlways(s) == TRUE
Known(s) == source[s] # Removed

At(w, step) == fetcher[w] # Resting /\ fetcher[w].step = step
To(w, state) == fetcher' = [fetcher EXCEPT ![w] = state]
Turn(kind) == spent.turns < MaxTurns /\ spent' = [spent EXCEPT !.turns = @ + 1]
Fault == spent.faults < MaxFaults /\ spent' = [spent EXCEPT !.faults = @ + 1]

-----------------------------------------------------------------------------
(* The task of a source.                                                   *)

ShouldDoFullSync(row) == row.full = Never \/ row.full < hour - Day
ShouldDoUpdate(row)   == row.update # Never /\ row.update < hour - 1

\* Mutant of Locked: the lock is not looked at.
LockedNever(s) == FALSE
Locked(s) == s \in lock

\* Mutant of Since: from the last update on.
SinceUpdate(row) == row.update
\* An hour before the last update, for what changed while it ran.
Since(row) == row.update - 1

FetchFromSource(w, s) ==
  /\ fetcher[w] = Resting /\ Known(s) /\ ~Locked(s) /\ tagging.enabled
  /\ lock' = lock \cup {s}
  /\ \/ /\ ShouldDoFullSync(source[s])
        /\ To(w, [step |-> "listing", of |-> s, full |-> TRUE, since |-> Never, begun |-> hour])
     \/ /\ ~ShouldDoFullSync(source[s]) /\ ShouldDoUpdate(source[s])
        /\ To(w, [step |-> "listing", of |-> s, full |-> FALSE, since |-> Since(source[s]), begun |-> hour])
  /\ UNCHANGED <<remote, source, rows, tagging, hour, spent, past>>

\* Studies and zones, then the files of the first page.
PullFiles(w) ==
  /\ At(w, "listing")
  /\ LET f == fetcher[w]
         listed == {r \in DOMAIN remote[f.of] : remote[f.of][r].at >= f.since}
     IN  /\ To(w, [step |-> "importing", of |-> f.of, full |-> f.full, begun |-> f.begun, imported |-> {},
                   left |-> {<<r, remote[f.of][r].version>> : r \in listed}])
         /\ past' = IF f.full THEN [past EXCEPT !.cleared = @ \ {f.of}] ELSE past
  /\ UNCHANGED <<remote, source, rows, lock, tagging, hour, spent>>

\* Looked up by its identity at the source, then saved whole: a row that went
\* meanwhile comes back, and a row of a deleted source is refused.
Expand(w, r, v) ==
  /\ At(w, "importing") /\ <<r, v>> \in fetcher[w].left
  /\ LET f == fetcher[w]
         same == {x \in rows : x.of = f.of /\ x.id = r}
         mine == [of |-> f.of, id |-> r, version |-> v, by |-> w]
     IN  \E x \in same \cup (IF same = {} THEN {mine} ELSE {}) :
           To(w, [f EXCEPT !.step = "saving", !.left = @ \ {<<r, v>>}, !.imported = @ \cup {r}] @@ [row |-> [x EXCEPT !.version = v]])
  /\ UNCHANGED <<remote, source, rows, lock, tagging, hour, spent, past>>

SaveFile(w) ==
  /\ At(w, "saving") /\ Known(fetcher[w].of)
  /\ LET row == fetcher[w].row
     IN  rows' = {x \in rows : ~(x.of = row.of /\ x.id = row.id /\ x.by = row.by)} \cup {row}
  /\ To(w, [k \in DOMAIN fetcher[w] \ {"row"} |-> IF k = "step" THEN "importing" ELSE fetcher[w][k]])
  /\ UNCHANGED <<remote, source, lock, tagging, hour, spent, past>>

\* A full sync reads the categories of the site to add its own.
LoadTags(w) ==
  /\ At(w, "importing") /\ fetcher[w].left = {}
  /\ To(w, IF fetcher[w].full THEN [fetcher[w] EXCEPT !.step = "tagging", !.left = tagging.names]
           ELSE [fetcher[w] EXCEPT !.step = "stamping"])
  /\ UNCHANGED <<remote, source, rows, lock, tagging, hour, spent, past>>

\* Mutant of WithTags: the list starts anew.
WithTagsOnly(names) == {"feed"}
WithTags(names) == names \cup {"feed"}

ApplyTags(w) ==
  /\ At(w, "tagging")
  /\ tagging' = [tagging EXCEPT !.names = WithTags(fetcher[w].left)]
  /\ past' = [past EXCEPT !.crossed = @ \/ fetcher[w].left # tagging.names]
  /\ To(w, [fetcher[w] EXCEPT !.step = "cleaning", !.left = {}])
  /\ UNCHANGED <<remote, source, rows, lock, hour, spent>>

\* Mutant of Imported: only what is new is kept.
ImportedNew(f) == {x \in rows : x.of = f.of /\ x.id \in f.imported /\ x.version = 0}
Imported(f) == {x \in rows : x.of = f.of /\ x.id \in f.imported}

\* Everything goes that this sync did not list, of other sources, too.
CleanupFiles(w) ==
  /\ At(w, "cleaning")
  /\ LET f == fetcher[w]
     IN  /\ rows' = Imported(f)
         /\ past' = [past EXCEPT !.cleared = @ \cup ({x.of : x \in rows} \ {f.of})]
         /\ To(w, [f EXCEPT !.step = "stamping"])
  /\ UNCHANGED <<remote, source, lock, tagging, hour, spent>>

\* Each stamp only updates its column; a full sync sets two, one after the other.
Stamped(s, row) == source' = [source EXCEPT ![s] = IF Known(s) THEN row ELSE @]

SetFullSync(w) ==
  /\ At(w, "stamping") /\ fetcher[w].full
  /\ LET s == fetcher[w].of
     IN  Stamped(s, [source[s] EXCEPT !.full = hour]) /\ past' = [past EXCEPT !.was[s] = source[s]]
  /\ To(w, [fetcher[w] EXCEPT !.step = "stamped"])
  /\ UNCHANGED <<remote, rows, lock, tagging, hour, spent>>

SetUpdateSync(w) ==
  /\ At(w, "stamped") \/ (At(w, "stamping") /\ ~fetcher[w].full)
  /\ LET f == fetcher[w]
     IN  /\ Stamped(f.of, [source[f.of] EXCEPT !.update = hour])
         /\ past' = [past EXCEPT !.slow = IF hour > f.begun + 1 THEN @ \cup {f.of} ELSE @,
                                 !.was[f.of] = IF At(w, "stamped") THEN @ ELSE source[f.of]]
         /\ lock' = lock \ {f.of}
  /\ To(w, Resting)
  /\ UNCHANGED <<remote, rows, tagging, hour, spent>>

\* Mutant of Given: a fetch that fails is stamped all the same.
GivenStamp(w) == [step |-> "stamping", of |-> fetcher[w].of, full |-> fetcher[w].full, begun |-> fetcher[w].begun]
Given(w) == Resting

\* The source answers with an error, or its row is gone: a log, and no stamp.
FetchFails(w) ==
  /\ \/ (At(w, "listing") \/ At(w, "importing")) /\ Fault
     \/ At(w, "saving") /\ ~Known(fetcher[w].of) /\ UNCHANGED spent
  /\ To(w, Given(w))
  /\ lock' = lock \ {fetcher[w].of}
  /\ UNCHANGED <<remote, source, rows, tagging, hour, past>>

FetcherDies(w) ==
  /\ fetcher[w] # Resting /\ Fault
  /\ To(w, Resting)
  /\ UNCHANGED <<remote, source, rows, lock, tagging, hour, past>>

\* A lock expires; when its task still runs, another may overtake it.
LockExpires(s) ==
  /\ s \in lock /\ Fault
  /\ lock' = lock \ {s}
  /\ past' = [past EXCEPT !.overrun = IF \E w \in Fetchers : fetcher[w] # Resting /\ fetcher[w].of = s THEN @ \cup {s} ELSE @]
  /\ UNCHANGED <<remote, source, rows, fetcher, tagging, hour>>

-----------------------------------------------------------------------------
(* Administrators, remote sites, the clock.                                *)

\* The row is saved whole: stamps written since it was loaded go back.
EditSource(s) ==
  /\ Known(s) /\ Turn("edit")
  /\ \E old \in {source[s], past.was[s]} : source' = [source EXCEPT ![s] = old]
  /\ UNCHANGED <<remote, rows, lock, fetcher, tagging, hour, past>>

\* The rows one by one, then the source with what came meanwhile.
DeleteSource(s) ==
  /\ Known(s) /\ Turn("delete")
  /\ rows' = {x \in rows : x.of # s}
  /\ source' = [source EXCEPT ![s] = Removed]
  /\ UNCHANGED <<remote, lock, fetcher, tagging, hour, past>>

ChooseTags ==
  /\ "own" \notin tagging.names /\ Turn("tags")
  /\ tagging' = [tagging EXCEPT !.names = @ \cup {"own"}]
  /\ UNCHANGED <<remote, source, rows, lock, fetcher, hour, past>>

ToggleFeed ==
  /\ Turn("toggle")
  /\ tagging' = [tagging EXCEPT !.enabled = ~@]
  /\ UNCHANGED <<remote, source, rows, lock, fetcher, hour, past>>

RemoteChanges(s, r) ==
  /\ Turn("remote")
  /\ remote' = [remote EXCEPT ![s] =
                  [x \in DOMAIN @ \cup {r} |-> IF x # r THEN @[x]
                     ELSE [version |-> IF r \in DOMAIN @ THEN @[r].version + 1 ELSE 0, at |-> hour]]]
  /\ UNCHANGED <<source, rows, lock, fetcher, tagging, hour, past>>

RemoteRemoves(s, r) ==
  /\ r \in DOMAIN remote[s] /\ Turn("remote")
  /\ remote' = [remote EXCEPT ![s] = [x \in DOMAIN @ \ {r} |-> @[x]]]
  /\ UNCHANGED <<source, rows, lock, fetcher, tagging, hour, past>>

HourPasses ==
  /\ hour < MaxHours
  /\ hour' = hour + 1
  /\ UNCHANGED <<remote, source, rows, lock, fetcher, tagging, spent, past>>

-----------------------------------------------------------------------------
FeedInit ==
  /\ remote \in [Sources -> {[r \in x |-> [version |-> 0, at |-> 0]] : x \in {{}, Records}}]
  /\ source = [s \in Sources |-> [full |-> Never, update |-> Never]]
  /\ rows = {} /\ lock = {}
  /\ fetcher = [w \in Fetchers |-> Resting]
  /\ tagging = [names |-> {}, enabled |-> TRUE]
  /\ hour = 0
  /\ spent = [turns |-> 0, faults |-> 0]
  /\ past = [overrun |-> {}, crossed |-> FALSE, cleared |-> {}, slow |-> {}, was |-> source]

Fetching(w) ==
  \/ \E s \in Sources : FetchFromSource(w, s)
  \/ \E r \in Records, v \in 0..MaxTurns : Expand(w, r, v)
  \/ PullFiles(w) \/ SaveFile(w) \/ LoadTags(w) \/ ApplyTags(w) \/ CleanupFiles(w) \/ SetFullSync(w) \/ SetUpdateSync(w) \/ FetchFails(w) \/ FetcherDies(w)
FeedNext ==
  \/ \E w \in Fetchers : Fetching(w)
  \/ \E s \in Sources : LockExpires(s) \/ EditSource(s) \/ DeleteSource(s)
  \/ \E s \in Sources, r \in Records : RemoteChanges(s, r) \/ RemoteRemoves(s, r)
  \/ ChooseTags \/ ToggleFeed \/ HourPasses
FeedSpec == FeedInit /\ [][FeedNext]_feed

-----------------------------------------------------------------------------
\* Every row belongs to a source that is known and to a record that was listed.
FeedTypeOK ==
  /\ \A x \in rows : source[x.of] # Removed /\ x.id \in Records /\ x.version \in 0..MaxTurns
  /\ \A s \in Sources : source[s] = Removed \/ {source[s].full, source[s].update} \subseteq {Never} \cup 0..hour
  /\ tagging.names \subseteq {"own", "feed"}

\* A record is on the site once, whatever tasks the hours start for its source,
\* unless a task outlives its lock.
OneRowPerRecord ==
  \A x, y \in rows : x.of = y.of /\ x.id = y.id => x = y \/ x.of \in past.overrun

\* Once a source was read in full, its records are on the site as they were when
\* it was last listed: failures, deaths and stamps may not skip one, as long as no
\* reading took over an hour, outlived its lock, or cleared what another had read.
NothingSkipped ==
  \A s \in Sources : \A r \in DOMAIN remote[s] :
    /\ source[s].full # Never /\ source[s] # Removed
    /\ s \notin past.overrun \cup past.slow \cup past.cleared
    /\ remote[s][r].at < source[s].update - 1
    => \E x \in rows : x.of = s /\ x.id = r /\ x.version = remote[s][r].version

\* Categories an administrator chose stay beside those of the feed, unless they
\* are chosen between the reading and the writing of a sync.
OwnTagsStay == [][~past'.crossed /\ "own" \in tagging.names => "own" \in tagging'.names]_feed

\* The site has the records of its sources, each once.
FeedSound == FeedTypeOK /\ OneRowPerRecord /\ NothingSkipped
=============================================================================
