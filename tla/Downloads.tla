------------------------------ MODULE Downloads ------------------------------
(***************************************************************************)
(* What leaves the file storage: pages that load a row, check it, pick the *)
(* contents or a smaller copy of the image, save the row they loaded and   *)
(* stream; the tasks that make those copies; the nightly virus scan; and   *)
(* the edits that replace what a file holds.                               *)
(***************************************************************************)
EXTENDS Integers, FiniteSets

CONSTANTS
  Images,      \* uploaded files, all of them images
  Servers,     \* processes: web requests and task workers
  Taints,      \* the sets of infected contents an execution may start with
  MaxEdition,  \* bound: replacements of the contents of a file
  MaxCopies,   \* bound: rows of smaller copies
  MaxServed, \* bound: pages, scans and edits
  MaxDeaths    \* bound: workers that die

ASSUME DownloadsAssumption ==
  MaxEdition \in Nat /\ MaxCopies \in Nat /\ MaxServed \in Nat /\ MaxDeaths \in Nat

VARIABLES
  stored,   \* row of a file: the edition it points to, blocked, its thumbnail
  disk,     \* contents on the storage, <<file, edition>>
  taint,    \* the infected contents
  copies,   \* rows of ResizedImage: the file, the status, what they show
  tasks,    \* copies for which a task waits
  server,   \* what a process is doing
  shown,    \* the last page: its kind, its file, the contents, whether a scan had found them
  record    \* history: found, muddled, spent, deaths, and the copies made so far

downloads == <<stored, disk, taint, copies, tasks, server, shown, record>>

Editions == 0..MaxEdition
NoThumb  == -1
Absent   == [on |-> NoThumb]       \* no row
Ready    == [step |-> "ready"]
Nothing  == [kind |-> "none", file |-> "nothing", contents |-> <<>>, found |-> FALSE, older |-> FALSE]

Pages    == {"download", "embed", "featured", "attachment", "thumbnail", "zip"}
Sizable  == {"download", "embed", "featured", "attachment"}
Rights   == {"inside", "outside", "none"}   \* reads it in its group, reads it, neither

Doing(p, step) == server[p] # Ready /\ server[p].step = step
Become(p, state)  == server' = [server EXCEPT ![p] = state]
Spent(r)       == [r EXCEPT !.spent = @ + 1]

\* A page or edit saves the row it loaded; a row changed meanwhile is overwritten.
Overwrite(f, row, r) == IF row = stored[f] THEN r ELSE [r EXCEPT !.muddled = @ \cup {f}]

-----------------------------------------------------------------------------
(* Pages.                                                                  *)

\* The mailed image is for everybody; a closed group is for members only where asked.
Admitted(kind, right) ==
  CASE kind = "featured" -> TRUE
    [] kind \in {"thumbnail", "attachment"} -> right # "none"
    [] OTHER -> right = "inside"

\* Mutant of Refused: the page for embedding does not look.
RefusedDownload(kind, row) == row.blocked /\ kind \notin {"zip", "embed"}
\* The archive takes blocked files, too.
Refused(kind, row) == row.blocked /\ kind # "zip"

\* Mutant of CopiesOf: any copy of that size.
CopiesOfAny(f) == DOMAIN copies
CopiesOf(f) == {i \in DOMAIN copies : copies[i].of = f}
FirstCopy(f) == CHOOSE i \in CopiesOf(f) : \A j \in CopiesOf(f) : i <= j

\* What the page will do to the row: touch it, give it a thumbnail, or nothing;
\* whether a scan had found a virus in what it shows, and whether that is a copy
\* of what the file held earlier.
Loaded(kind, f, shows) ==
  [step |-> "loaded", kind |-> kind, file |-> f, row |-> stored[f], shows |-> shows,
   does |-> CASE kind \in {"download", "zip"} -> "touch" [] kind = "thumbnail" -> "thumb" [] OTHER -> "stream",
   found |-> shows \in record.found /\ f \notin record.muddled, older |-> shows[2] # stored[f].on]

\* A copy that is not ready sends the browser to the whole image.
OpenPage(p, kind, f) ==
  /\ server[p] = Ready /\ record.spent < MaxServed
  /\ \E right \in Rights : Admitted(kind, right)
  /\ stored[f] # Absent /\ ~Refused(kind, stored[f])
  /\ \/ Become(p, Loaded(kind, f, <<f, stored[f].on>>))
     \/ /\ kind \in Sizable
        /\ IF CopiesOf(f) = {} THEN Become(p, [step |-> "missing", file |-> f])
           ELSE /\ copies[FirstCopy(f)].status = "OK"
                /\ Become(p, Loaded(kind, f, copies[FirstCopy(f)].shows))
  /\ record' = Spent(record)
  /\ UNCHANGED <<stored, disk, taint, copies, tasks, shown>>

RequestCopy(p) ==
  /\ Doing(p, "missing")
  /\ record.made < MaxCopies
  /\ record' = [record EXCEPT !.made = @ + 1]
  /\ LET i == record'.made
     IN  /\ copies' = [j \in DOMAIN copies \cup {i} |-> IF j = i THEN [of |-> server[p].file, status |-> "PENDING", shows |-> <<>>]
                                                        ELSE copies[j]]
         /\ tasks' = tasks \cup {i}
  /\ Become(p, Ready)
  /\ UNCHANGED <<stored, disk, taint, shown>>

\* last_download, and the thumbnail made now, go with the whole row.
Touched(does, row, f) ==
  IF does = "thumb" /\ row.thumb = NoThumb /\ <<f, row.on>> \in disk THEN [row EXCEPT !.thumb = row.on] ELSE row

ShowPage(p) ==
  /\ Doing(p, "loaded")
  /\ LET s == server[p]
         row == Touched(s.does, s.row, s.file)
         what == IF s.does = "thumb" THEN <<s.file, row.thumb>> ELSE s.shows
         lost == what[2] = NoThumb \/ (what = <<s.file, s.row.on>> /\ what \notin disk)
     IN  /\ IF s.does = "touch" \/ row # s.row
            THEN /\ stored' = [stored EXCEPT ![s.file] = row]
                 /\ record' = Overwrite(s.file, s.row, record)
            ELSE UNCHANGED <<stored, record>>
         /\ shown' = IF lost THEN Nothing
                     ELSE [kind |-> s.kind, file |-> s.file, contents |-> what, found |-> s.found, older |-> s.older]
  /\ Become(p, Ready)
  /\ UNCHANGED <<disk, taint, copies, tasks>>

-----------------------------------------------------------------------------
(* Copies.                                                                 *)

\* Mutant of Settled: a task starts again on a copy that is ready.
SettledNever(i) == i \notin DOMAIN copies
Settled(i) == i \notin DOMAIN copies \/ copies[i].status = "OK"

TakeResize(p, i) ==
  /\ server[p] = Ready
  /\ i \in tasks
  /\ tasks' = tasks \ {i}
  /\ IF Settled(i) THEN UNCHANGED server
     ELSE Become(p, [step |-> "resizing", copy |-> i, row |-> copies[i]])
  /\ UNCHANGED <<stored, disk, taint, copies, shown, record>>

\* Mutant of Written: a copy of nothing is ready.
WrittenReady(i, row) == [j \in DOMAIN copies \cup {i} |-> IF j = i THEN [row EXCEPT !.status = "OK"] ELSE copies[j]]
\* The row is saved whole, also over one that is gone.
Written(i, row) == [j \in DOMAIN copies \cup {i} |-> IF j = i THEN row ELSE copies[j]]

ImageResize(p) ==
  /\ Doing(p, "resizing")
  /\ LET s == server[p]
         f == s.row.of
     IN  \/ /\ stored[f] # Absent /\ <<f, stored[f].on>> \in disk
            /\ copies' = Written(s.copy, [s.row EXCEPT !.status = "OK", !.shows = <<f, stored[f].on>>])
         \/ copies' = Written(s.copy, [s.row EXCEPT !.status = "FAILED"])
  /\ Become(p, Ready)
  /\ UNCHANGED <<stored, disk, taint, tasks, shown, record>>

WorkerDies(p) ==
  /\ Doing(p, "resizing") /\ record.deaths < MaxDeaths
  /\ Become(p, Ready)
  /\ record' = [record EXCEPT !.deaths = @ + 1]
  /\ UNCHANGED <<stored, disk, taint, copies, tasks, shown>>

\* Mutant of Overdue: the ones that failed are sent again.
OverdueFailed(i) == copies[i].status = "FAILED"
Overdue(i) == copies[i].status = "PENDING"

ResizePendingImages ==
  /\ tasks' = tasks \cup {i \in DOMAIN copies : Overdue(i)}
  /\ UNCHANGED <<stored, disk, taint, copies, server, shown, record>>

-----------------------------------------------------------------------------
(* Scans, replacements, deletions.                                         *)

LoadRow(p, step, f) ==
  /\ server[p] = Ready /\ record.spent < MaxServed
  /\ stored[f] # Absent /\ (step = "replacing" => stored[f].on < MaxEdition)
  /\ Become(p, [step |-> step, file |-> f, row |-> stored[f]])
  /\ record' = Spent(record)
  /\ UNCHANGED <<stored, disk, taint, copies, tasks, shown>>

\* A scanner that cannot tell counts as no virus.
Verdicts(f, row) ==
  IF <<f, row.on>> \notin disk THEN {"missing"}
  ELSE (IF <<f, row.on>> \in taint THEN {"virus"} ELSE {"clean"}) \cup {"unknown"}

\* Mutant of Judged: only a new verdict is stored, the flag of the row stays.
JudgedKept(row, verdict) == row
Judged(row, verdict) == [row EXCEPT !.blocked = verdict \in {"missing", "virus"}]

FinishScan(p) ==
  /\ Doing(p, "scanning")
  /\ LET s == server[p]
         here == <<s.file, s.row.on>>
     IN  \E verdict \in Verdicts(s.file, s.row) :
           /\ stored' = [stored EXCEPT ![s.file] = Judged(s.row, verdict)]
           /\ record' = [Overwrite(s.file, s.row, record) EXCEPT
                           !.found = IF verdict = "virus" THEN @ \cup {here} ELSE @ \ {here}]
  /\ Become(p, Ready)
  /\ UNCHANGED <<disk, taint, copies, tasks, shown>>

\* Deleting a thumbnail saves the row, so that the scan finds the new contents;
\* without one the scan comes before the upload is stored, and finds nothing.
Replace(p) ==
  /\ Doing(p, "replacing")
  /\ LET s == server[p]
         f == s.file
         n == s.row.on + 1
         scanned == s.row.thumb # NoThumb
         row == [s.row EXCEPT !.on = n, !.thumb = NoThumb]
     IN  /\ stored' = [stored EXCEPT ![f] = row]
         /\ record' = Overwrite(f, s.row, record)
         /\ disk' = IF scanned /\ <<f, n>> \in taint THEN disk ELSE disk \cup {<<f, n>>}
  /\ Become(p, Ready)
  /\ UNCHANGED <<taint, copies, tasks, shown>>

Drop(p) ==
  /\ Doing(p, "deleting")
  /\ LET f == server[p].file
     IN  /\ stored' = [stored EXCEPT ![f] = Absent]
         /\ disk' = disk \ {<<f, server[p].row.on>>}
         /\ copies' = [i \in DOMAIN copies \ CopiesOf(f) |-> copies[i]]
  /\ Become(p, Ready)
  /\ UNCHANGED <<taint, tasks, shown, record>>

-----------------------------------------------------------------------------
DownloadsInit ==
  /\ stored = [f \in Images |-> [on |-> 0, blocked |-> FALSE, thumb |-> NoThumb]]
  /\ disk = Images \X {0}
  /\ taint \in Taints
  /\ copies = <<>> /\ tasks = {}
  /\ server = [p \in Servers |-> Ready]
  /\ shown = Nothing
  /\ record = [found |-> {}, muddled |-> {}, spent |-> 0, deaths |-> 0, made |-> 0]

Serve(p) == RequestCopy(p) \/ ShowPage(p) \/ ImageResize(p) \/ FinishScan(p) \/ Replace(p) \/ Drop(p)
Ask(p) == \E f \in Images : (\E kind \in Pages : OpenPage(p, kind, f)) \/ (\E s \in {"scanning", "replacing", "deleting"} : LoadRow(p, s, f))
TakeTask(p)  == \E i \in tasks : TakeResize(p, i)

DownloadsNext == ResizePendingImages \/ \E p \in Servers : Ask(p) \/ Serve(p) \/ TakeTask(p) \/ WorkerDies(p)

\* Requests end, workers take what waits, and the nightly job runs.
DownloadsFairness == /\ WF_downloads(ResizePendingImages)
                     /\ \A p \in Servers : WF_downloads(Serve(p)) /\ SF_downloads(TakeTask(p))
DownloadsSpec == DownloadsInit /\ [][DownloadsNext]_downloads /\ DownloadsFairness

-----------------------------------------------------------------------------
\* Every row points to an edition, every copy has a status, every page a file.
DownloadsTypeOK ==
  /\ \A f \in Images : stored[f] = Absent \/ (stored[f].on \in Editions /\ stored[f].thumb \in Editions \cup {NoThumb})
  /\ \A i \in DOMAIN copies : copies[i].of \in Images /\ copies[i].status \in {"PENDING", "OK", "FAILED"}
  /\ \A i \in DOMAIN copies : copies[i].status = "OK" => copies[i].shows \in Images \X Editions
  /\ record.spent <= MaxServed

\* Contents in which a scan found a virus are on no page that is opened later, as
\* long as no later scan fails to tell and no request overwrote the row meanwhile:
\* but an archive takes blocked files (file/views.py:132-162), and a smaller copy
\* outlives the contents it was made of.
Cleared(page) == page.found => page.kind = "zip" \/ page.older
FoundNotServed == Cleared(shown)

\* Whatever page a file is asked for by, what comes is the file or a copy of it.
ServedIsOwn == shown # Nothing => shown.contents[1] = shown.file

\* A copy that is ready stays ready, however often its task runs: only a task that
\* took the row before it was ready may still write over it.
ReadyStays ==
  [][\A i \in DOMAIN copies :
       /\ copies[i].status = "OK" /\ i \in DOMAIN copies'
       /\ ~\E p \in Servers : Doing(p, "resizing") /\ server[p].copy = i /\ server[p].row.status # "OK"
       => copies'[i].status = "OK"]_downloads

\* Copies that were asked for are all made, refused or gone in the end, also when
\* the worker dies that had taken a task.
Waiting(i) == copies[i].status = "PENDING"
CopiesSettle == (\E i \in DOMAIN copies : Waiting(i)) ~> (\A i \in DOMAIN copies : ~Waiting(i))

\* What is served, of which state of the row.
DownloadsSound == DownloadsTypeOK /\ FoundNotServed /\ ServedIsOwn
=============================================================================
