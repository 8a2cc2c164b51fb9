---------------------------- MODULE FileReferences ----------------------------
(***************************************************************************)
(* Files, folders and what refers to them (file/models.py,                 *)
(* core/models/rich_fields.py, file/resolvers/mutation.py, the attachment, *)
(* delete and logo mutations, the virus scan and the clean-up).            *)
(*                                                                         *)
(* A file lives as long as it is in a group or something refers to it: the *)
(* posts that show it or showed it in an earlier version, the personal     *)
(* space of its owner, the site settings.  The references are rows of      *)
(* their own, written after the row of the post and before the revision    *)
(* that records the change; a nightly job deletes the old files that       *)
(* nothing refers to.                                                      *)
(***************************************************************************)
EXTENDS Naturals, Sequences, FiniteSets

CONSTANTS
  Files, Folders,   \* identities
  Posts,            \* whatever has rich text: posts, comments, groups, widgets
  Versioned,        \* the posts that keep revisions
  Workers, Crews,   \* processes, and the sets of them an execution may start with
  Offers,           \* the sets of request kinds an execution may start with
  Layouts,          \* the sets of files and folders an execution may start with
  MaxRequests,      \* bound on the number of requests
  MaxCrashes        \* bound on the number of processes that die

ASSUME FileReferencesAssumption ==
  /\ Versioned \subseteq Posts
  /\ Crews \subseteq SUBSET Workers
  /\ IsFiniteSet(Files) /\ IsFiniteSet(Folders) /\ Files \cap Folders = {}
  /\ MaxRequests \in Nat /\ MaxCrashes \in Nat

VARIABLES
  crew,     \* the workers of this execution
  offer,    \* the kinds of request of this execution
  item,     \* item[i]: the row of a file or folder
  post,     \* post[p]: the files in the text and on the cover of p
  kept,     \* kept[p]: the files its revisions name
  refs,     \* the rows of FileReference, <<file, holder>>
  logo,     \* the file that the site settings show
  covers,   \* the covers of a deleted group whose clean-up was submitted
  proc,     \* proc[w]: where worker w is
  budget    \* requests and crashes that may still come

vars == <<crew, offer, item, post, kept, refs, logo, covers, proc, budget>>

Items == Files \cup Folders
Root  == "root"       \* no parent
None  == "none"       \* no file
Personal == "personal"
Settings == "settings"
Holders == Posts \cup {Personal, Settings}

\* group: in the group of the model; old: uploaded more than a month ago.
Row    == [group : BOOLEAN, parent : Folders \cup {Root}, old : BOOLEAN]
Unused == [parent |-> Root, is |-> "unused"]
Gone   == [parent |-> Root, is |-> "gone"]
Exists(i) == item[i] \notin {Unused, Gone}

Content == [text : SUBSET Files, cover : Files \cup {None}]
NoPost  == [text |-> {}, cover |-> None, gone |-> TRUE]
Alive(p) == post[p] # NoPost

Idle == [at |-> "idle"]

\* Entity.featured_image, Group.icon: the database refuses to delete a cover.
Protected(f) == \E p \in Posts : post[p].cover = f

\* The folders above i.
Above(i) ==
  LET up[n \in 0..Cardinality(Folders)] ==
        IF n = 0 THEN {item[i].parent} \ {Root}
        ELSE up[n - 1] \cup ({item[d].parent : d \in up[n - 1]} \ {Root})
  IN  up[Cardinality(Folders)]
Below(i) == {j \in Items : Exists(j) /\ i \in Above(j)}

(***************************************************************************)
(* What a post refers to.                                                  *)
(***************************************************************************)
\* AttachmentMixin.lookup_attachments.  Mutant of Shown: no cover is one, too.
ShownAll(content) == content.text \cup {content.cover}
Shown(content) == content.text \cup ({content.cover} \ {None})

Current(p) == {f \in Files : <<f, p>> \in refs}

\* update_attachments_links.  Mutant of Found: earlier versions do not count.
FoundInText(p, content) == Shown(content)
Found(p, content) == Shown(content) \cup (IF p \in Versioned THEN kept[p] ELSE {})

\* Mutant of Obsolete: a reference is never taken away.
ObsoleteNone(p, content) == {}
Obsolete(p, content) == Current(p) \ Found(p, content)

Erased(gone, posts) == /\ item' = [i \in Items |-> IF i \in gone THEN Gone ELSE item[i]]
                       /\ refs' = {r \in refs : r[1] \notin gone /\ r[2] \notin posts}

(***************************************************************************)
(* Requests about posts.                                                   *)
(***************************************************************************)
Free(w, kind) == w \in crew /\ proc[w] = Idle /\ kind \in offer /\ budget.requests > 0
Take(w, state) == /\ proc' = [proc EXCEPT ![w] = state]
                  /\ budget' = [budget EXCEPT !.requests = @ - 1]
Spend == budget' = [budget EXCEPT !.requests = @ - 1]
Goto(w, state) == proc' = [proc EXCEPT ![w] = state]

Uploaded == {f \in Files : Exists(f)}

\* Adding or editing a post; before is what its tracking revision loaded.  The
\* clean-up of the cover it replaces deletes nothing: it is handed the address of
\* the image for its key (shared.py:377, featured.py:31), which no row can have.
WritePost(w) ==
  /\ Free(w, "write")
  /\ \E p \in Posts, text \in SUBSET Uploaded, cover \in Uploaded \cup {None} :
       Take(w, [at |-> "row", on |-> p, row |-> [text |-> text, cover |-> cover],
                before |-> IF Alive(p) THEN Shown(post[p]) ELSE {}, record |-> p \in Versioned])
  /\ UNCHANGED <<crew, offer, covers, item, post, kept, refs, logo>>

\* create_copy stores no revision.
CopyPage(w) ==
  /\ Free(w, "copy")
  /\ \E p, q \in Posts :
       /\ ~Alive(p) /\ Alive(q) /\ post[q].cover = None
       /\ Take(w, [at |-> "row", on |-> p, row |-> post[q], before |-> {}, record |-> FALSE])
  /\ UNCHANGED <<crew, offer, covers, item, post, kept, refs, logo>>

\* The row; a cover deleted meanwhile is a foreign key that fails.
SaveRow(w) ==
  LET s == proc[w]
      lost == s.row.cover # None /\ ~Exists(s.row.cover)
  IN  /\ s.at = "row"
      /\ post' = IF lost THEN post ELSE [post EXCEPT ![s.on] = s.row]
      /\ Goto(w, IF lost THEN Idle ELSE [s EXCEPT !.at = "look"])
      /\ UNCHANGED <<crew, offer, covers, item, kept, refs, logo, budget>>

\* update_attachments_links compares what it finds with the references there are,
LookUp(w) ==
  LET s == proc[w]
  IN  /\ s.at = "look"
      /\ Goto(w, [at |-> "link", on |-> s.on, row |-> s.row, before |-> s.before,
                  record |-> s.record, new |-> Found(s.on, s.row) \ Current(s.on),
                  removed |-> Obsolete(s.on, s.row)])
      /\ UNCHANGED <<crew, offer, covers, item, post, kept, refs, logo, budget>>

\* adds the new ones of files that exist,
Link(w) ==
  LET s == proc[w]
  IN  /\ s.at = "link"
      /\ \E f \in s.new :
           /\ refs' = IF Exists(f) THEN refs \cup {<<f, s.on>>} ELSE refs
           /\ Goto(w, [s EXCEPT !.new = @ \ {f}])
      /\ UNCHANGED <<crew, offer, covers, item, post, kept, logo, budget>>

\* and deletes the others one by one.
Unlink(w) ==
  LET s == proc[w]
  IN  /\ s.at = "link" /\ s.new = {}
      /\ \E f \in s.removed :
           /\ refs' = refs \ {<<f, s.on>>}
           /\ Goto(w, [s EXCEPT !.removed = @ \ {f}])
      /\ UNCHANGED <<crew, offer, covers, item, post, kept, logo, budget>>

\* The revision names the files of the version before and of the new one.
Record(w) ==
  LET s == proc[w]
  IN  /\ s.at = "link" /\ s.new = {} /\ s.removed = {}
      /\ kept' = IF s.record /\ Alive(s.on)
                 THEN [kept EXCEPT ![s.on] = @ \cup s.before \cup Shown(s.row)] ELSE kept
      /\ Goto(w, Idle)
      /\ UNCHANGED <<crew, offer, covers, item, post, refs, logo, budget>>

\* Deleting a post deletes its revisions and its references.
DeletePost(w) ==
  /\ Free(w, "unpost")
  /\ \E p \in Posts :
       /\ Alive(p)
       /\ post' = [post EXCEPT ![p] = NoPost]
       /\ kept' = [kept EXCEPT ![p] = {}]
       /\ refs' = {r \in refs : r[2] # p}
  /\ budget' = [budget EXCEPT !.requests = @ - 1]
  /\ UNCHANGED <<crew, offer, covers, item, logo, proc>>

\* deleteEntity for the group, with some of the posts: the clean-up of their covers
\* is submitted before the delete, which the cover of any post refuses, also of one
\* that goes with it.
DeleteGroup(w) ==
  /\ Free(w, "ungroup")
  /\ \E S \in SUBSET {p \in Posts : Alive(p)} \ {{}} :
       LET gone == {i \in Items : Exists(i) /\ (item[i].group \/ \E j \in Items : Exists(j) /\ item[j].group /\ i \in Below(j))}
       IN  /\ covers' = covers \cup ({post[p].cover : p \in S} \ {None})
           /\ IF \E i \in gone : Protected(i) THEN UNCHANGED <<item, post, kept, refs>>
              ELSE /\ Erased(gone, S)
                   /\ post' = [p \in Posts |-> IF p \in S THEN NoPost ELSE post[p]]
                   /\ kept' = [p \in Posts |-> IF p \in S THEN {} ELSE kept[p]]
  /\ Spend /\ UNCHANGED <<crew, offer, logo, proc>>

\* do_cleanup_featured_image_files, half a minute later or more: nobody asks what
\* refers to the file, the cover of another post alone keeps it.
CleanCover(w) ==
  /\ w \in crew /\ proc[w] = Idle
  /\ \E f \in covers :
       /\ covers' = covers \ {f}
       /\ IF Exists(f) /\ ~Protected(f) THEN Erased({f}, {}) ELSE UNCHANGED <<item, refs>>
  /\ UNCHANGED <<crew, offer, post, kept, logo, proc, budget>>

(***************************************************************************)
(* Requests that upload.  A file with a virus is deleted again at once,    *)
(* which leaves nothing behind.                                            *)
(***************************************************************************)
New(group, parent) == [group |-> group, parent |-> parent, old |-> FALSE]
Put(i, row) == item' = [item EXCEPT ![i] = row]

\* addAttachment: in no group and no folder; attached to a post if the request
\* names one.
AddAttachment(w) ==
  /\ Free(w, "attach")
  /\ \E f \in Files :
       /\ item[f] = Unused /\ Put(f, New(FALSE, Root))
       /\ \/ refs' = refs
          \/ \E p \in Posts : Alive(p) /\ refs' = refs \cup {<<f, p>>}
  /\ Spend /\ UNCHANGED <<crew, offer, covers, post, kept, logo, proc>>

\* Where something can be put: in the group, in a folder (and in its group), or
\* in the personal space.
Places == {[group |-> TRUE, parent |-> Root], [group |-> FALSE, parent |-> Root]}
          \cup {[group |-> item[d].group, parent |-> d] : d \in {e \in Folders : Exists(e)}}

AddFile(w) ==
  /\ Free(w, "upload")
  /\ \E f \in Files, place \in Places :
       /\ item[f] = Unused /\ Put(f, New(place.group, place.parent))
       /\ refs' = IF place.group THEN refs ELSE refs \cup {<<f, Personal>>}
  /\ Spend /\ UNCHANGED <<crew, offer, covers, post, kept, logo, proc>>

AddFolder(w) ==
  /\ Free(w, "upload")
  /\ \E d \in Folders, place \in Places : item[d] = Unused /\ Put(d, New(place.group, place.parent))
  /\ Spend /\ UNCHANGED <<crew, offer, covers, post, kept, refs, logo, proc>>

\* create_configuration_file: the new logo takes the reference of the old one
\* before the setting is saved.
UploadLogo(w) ==
  /\ Free(w, "logo")
  /\ \E f \in Files :
       /\ item[f] = Unused /\ Put(f, New(FALSE, Root))
       /\ refs' = {r \in refs : r[2] # Settings} \cup {<<f, Settings>>}
       /\ Take(w, [at |-> "logo", on |-> f])
  /\ UNCHANGED <<crew, offer, covers, post, kept, logo>>

SaveLogo(w) ==
  /\ proc[w].at = "logo"
  /\ logo' = proc[w].on
  /\ Goto(w, Idle)
  /\ UNCHANGED <<crew, offer, covers, item, post, kept, refs, budget>>

(***************************************************************************)
(* Requests that save rows of files and folders.  Every save writes all    *)
(* columns of a copy, and inserts the row again when it is gone.           *)
(***************************************************************************)
\* The folders above d, nearest first, as a request that walks up loads them.
Path(d) ==
  LET walk[n \in 0..Cardinality(Folders)] ==
        IF n = 0 THEN <<>>
        ELSE LET last == IF walk[n - 1] = <<>> THEN d ELSE item[walk[n - 1][n - 1].id].parent
             IN  IF Len(walk[n - 1]) < n - 1 \/ last = Root THEN walk[n - 1]
                 ELSE Append(walk[n - 1], [id |-> last, row |-> item[last]])
  IN  walk[Cardinality(Folders)]

Storing(todo) == [at |-> "store", todo |-> todo]

\* resolve_move_file_folder: not into itself, not below itself, not where it is.
\* Mutant of Admits: the folders above are not looked at.
AdmitsOther(i, d) == d # i /\ item[i].parent # d
Admits(i, d) == d # i /\ i \notin Above(d) /\ item[i].parent # d

\* update_updated_at saves the folders above the new place and those above the old
\* one, then the row follows.
Move(w) ==
  /\ Free(w, "move")
  /\ \E i \in Items :
       /\ Exists(i)
       /\ \/ Take(w, Storing(Append(Path(item[i].parent),
                            [id |-> i, row |-> [item[i] EXCEPT !.group = TRUE, !.parent = Root]])))
          \/ \E d \in Folders :
               /\ Exists(d) /\ Admits(i, d)
               /\ Take(w, Storing(Append(Path(d) \o Path(item[i].parent),
                            [id |-> i, row |-> [item[i] EXCEPT !.parent = d]])))
  /\ UNCHANGED <<crew, offer, covers, item, post, kept, refs, logo>>

\* editFileFolder saves the folders above and the row.
EditFileFolder(w) ==
  /\ Free(w, "edit")
  /\ \E i \in Items :
       Exists(i) /\ Take(w, Storing(Append(Path(item[i].parent), [id |-> i, row |-> item[i]])))
  /\ UNCHANGED <<crew, offer, covers, item, post, kept, refs, logo>>

\* The task that scans a file saves the row it loaded before the scan.
Scan(w) ==
  /\ Free(w, "scan")
  /\ \E f \in Uploaded : Take(w, Storing(<<[id |-> f, row |-> item[f]]>>))
  /\ UNCHANGED <<crew, offer, covers, item, post, kept, refs, logo>>

\* A parent that is gone is a foreign key that fails, and the request with it.
Store(w) ==
  LET s    == proc[w]
      copy == Head(s.todo)
      kin  == copy.row.parent = Root \/ Exists(copy.row.parent)
  IN  /\ s.at = "store"
      /\ item' = IF kin THEN [item EXCEPT ![copy.id] = copy.row] ELSE item
      /\ Goto(w, IF kin /\ Len(s.todo) > 1 THEN Storing(Tail(s.todo)) ELSE Idle)
      /\ UNCHANGED <<crew, offer, covers, post, kept, refs, logo, budget>>

(***************************************************************************)
(* Deleting files and folders.                                             *)
(***************************************************************************)
ReferredTo(i) == \E h \in Holders : <<i, h>> \in refs

\* assert_not_referenced.  Mutant of InUse: only what is outside every folder and
\* group counts.
InUseLoose(i) == ~item[i].group /\ item[i].parent # Root /\ ReferredTo(i)
InUse(i) == \E h \in Holders \ {Personal} : <<i, h>> \in refs

\* resolve_delete_entity: without force, a file that is referred to leaves its
\* folder and group instead, and a file in use stays.
DeleteFile(w) ==
  /\ Free(w, "delete")
  /\ \E i \in Items, force \in BOOLEAN :
       /\ Exists(i)
       /\ LET leaves == ~force /\ ReferredTo(i) /\ (item[i].group \/ item[i].parent # Root)
          IN  /\ item' = IF leaves THEN [item EXCEPT ![i].group = FALSE, ![i].parent = Root]
                         ELSE item
              /\ ~leaves /\ ~force => ~InUse(i)
              /\ Take(w, IF leaves THEN Idle ELSE [at |-> "erase", on |-> i, force |-> force])
  /\ UNCHANGED <<crew, offer, covers, post, kept, refs, logo>>

\* The delete takes everything below along, unless a part of it is protected.
Erase(w) ==
  LET s    == proc[w]
      gone == {s.on} \cup Below(s.on)
  IN  /\ s.at = "erase"
      /\ IF \E i \in gone : Protected(i) THEN UNCHANGED <<item, refs>> ELSE Erased(gone, {})
      /\ Goto(w, Idle)
      /\ UNCHANGED <<crew, offer, covers, post, kept, logo, budget>>

(***************************************************************************)
(* The nightly clean-up.                                                   *)
(***************************************************************************)
\* filter_orphaned_files, created a month ago.  Mutant of Orphans: a file in a
\* folder is no orphan.
OrphansOutside == {f \in Uploaded : item[f].old /\ ~item[f].group /\ ~ReferredTo(f)
                                    /\ item[f].parent = Root}
Orphans == {f \in Uploaded : item[f].old /\ ~item[f].group /\ ~ReferredTo(f)}

CleanUp(w) ==
  /\ w \in crew /\ proc[w] = Idle /\ Orphans # {}
  /\ Goto(w, [at |-> "clean", list |-> Orphans])
  /\ UNCHANGED <<crew, offer, covers, item, post, kept, refs, logo, budget>>

\* One by one; a protected file ends the job, ProtectedError is not caught.
CleanNext(w) ==
  LET s == proc[w]
  IN  /\ s.at = "clean"
      /\ \E f \in s.list :
           IF Protected(f)
           THEN Goto(w, Idle) /\ UNCHANGED <<item, refs>>
           ELSE /\ Goto(w, IF s.list = {f} THEN Idle ELSE [s EXCEPT !.list = @ \ {f}])
                /\ Erased({f}, {})
      /\ UNCHANGED <<crew, offer, covers, post, kept, logo, budget>>

\* A month goes by; nothing takes that long.
Month ==
  /\ \A w \in crew : proc[w] = Idle
  /\ item' = [i \in Items |-> IF Exists(i) THEN [item[i] EXCEPT !.old = TRUE] ELSE item[i]]
  /\ item' # item
  /\ UNCHANGED <<crew, offer, covers, post, kept, refs, logo, proc, budget>>

Crash(w) ==
  /\ w \in crew /\ proc[w] # Idle /\ "crash" \in offer /\ budget.crashes > 0
  /\ Goto(w, Idle)
  /\ budget' = [budget EXCEPT !.crashes = @ - 1]
  /\ UNCHANGED <<crew, offer, covers, item, post, kept, refs, logo>>

(***************************************************************************)
(* Executions.                                                             *)
(***************************************************************************)
Init ==
  /\ crew \in Crews /\ offer \in Offers
  /\ item \in Layouts
  /\ post = [p \in Posts |-> NoPost]
  /\ kept = [p \in Posts |-> {}]
  /\ refs = {<<f, Personal>> : f \in {g \in Files : Exists(g) /\ ~item[g].group}}
  /\ logo = None /\ covers = {}
  /\ proc = [w \in Workers |-> Idle]
  /\ budget = [requests |-> MaxRequests, crashes |-> MaxCrashes]

Request(w) ==
  \/ WritePost(w) \/ CopyPage(w) \/ DeletePost(w) \/ DeleteGroup(w)
  \/ AddAttachment(w) \/ AddFile(w) \/ AddFolder(w) \/ UploadLogo(w)
  \/ Move(w) \/ EditFileFolder(w) \/ Scan(w) \/ DeleteFile(w)

Progress(w) ==
  \/ SaveRow(w) \/ LookUp(w) \/ Link(w) \/ Unlink(w) \/ Record(w)
  \/ SaveLogo(w) \/ Store(w) \/ Erase(w) \/ CleanNext(w)

Next == Month \/ \E w \in Workers : Request(w) \/ Progress(w) \/ CleanUp(w) \/ CleanCover(w) \/ Crash(w)

Spec == Init /\ [][Next]_vars

\* What was begun goes on, and the job runs every night: again and again there is
\* a worker for it.
FairSpec == /\ Spec
            /\ \A w \in Workers : WF_vars(Progress(w)) /\ SF_vars(CleanUp(w))

(***************************************************************************)
(* Properties.                                                             *)
(***************************************************************************)
\* The variables have their types.
Save == [id : Items, row : Row]
IsProc(s) ==
  \/ s = Idle
  \/ s.at \in {"row", "look", "link"} /\ s.on \in Posts /\ s.row \in Content
     /\ s.before \subseteq Files /\ s.record \in BOOLEAN
     /\ (s.at = "link" => s.new \subseteq Files /\ s.removed \subseteq Files)
  \/ s.at = "logo" /\ s.on \in Files
  \/ s.at = "store" /\ s.todo # <<>> /\ \A n \in DOMAIN s.todo : s.todo[n] \in Save
  \/ s.at = "erase" /\ s.on \in Items /\ s.force \in BOOLEAN
  \/ s.at = "clean" /\ s.list \subseteq Files
TypeOK ==
  /\ crew \subseteq Workers
  /\ item \in [Items -> Row \cup {Unused, Gone}]
  /\ post \in [Posts -> Content \cup {NoPost}]
  /\ kept \in [Posts -> SUBSET Files]
  /\ refs \subseteq Files \X Holders
  /\ logo \in Files \cup {None} /\ covers \subseteq Files
  /\ \A w \in Workers : IsProc(proc[w])

\* One process does everything, no process dies, and no page is copied.
Careful == Cardinality(crew) = 1 /\ offer \cap {"crash", "copy"} = {}
Quiet   == \A w \in crew : proc[w] = Idle

\* What is shown somewhere, or was in a version that can be looked at again.
Used == UNION {Shown(post[p]) \cup kept[p] : p \in {q \in Posts : Alive(q)}}
        \cup ({logo} \ {None})

\* A file that a post shows or showed in an earlier version, or that is the logo,
\* goes only when somebody insists (force) or deletes a folder above it or its
\* group: not by an unforced delete (assert_not_referenced), and not by the clean-up
\* (update_attachments_links, Revision.lookup_attachments).  Only as the cover of a
\* post of a deleted group it goes whatever else shows it (cleanup_tasks.py:27).
UsedStays ==
  [][\A f \in Files :
       (Careful /\ Exists(f) /\ f \in Used /\ ~Exists(f)') =>
         \/ \E w \in crew : proc[w].at = "erase" /\ (proc[w].force \/ proc[w].on # f)
         \/ \E w \in crew : DeleteGroup(w)
         \/ f \in covers]_vars

\* Between requests a post refers to what it shows or showed and to nothing else,
\* an attachment nobody put in a text apart (update_attachments_links).
LinksExact ==
  (Careful /\ Quiet /\ "attach" \notin offer) =>
    \A p \in Posts : Alive(p) =>
      Current(p) = {f \in Shown(post[p]) \cup (IF p \in Versioned THEN kept[p] ELSE {}) : Exists(f)}

\* No folder is below itself, which set_parent_folders_updated_at would walk for
\* ever (resolve_move_file_folder).
NoCycle == Cardinality(crew) = 1 => \A d \in Folders : Exists(d) => d \notin Above(d)

\* An old file that nothing refers to goes in the end, or is referred to again,
\* unless a cover without reference ends every clean-up early.
Forgotten(f) == Exists(f) /\ item[f].old /\ ~item[f].group /\ ~ReferredTo(f)
OrphansGo ==
  \A f \in Files : Forgotten(f) ~>
    (~Forgotten(f) \/ \E g \in Files : Forgotten(g) /\ Protected(g))

\* References say what posts show, and folders form a tree.
FilesSound == TypeOK /\ LinksExact /\ NoCycle
=============================================================================
