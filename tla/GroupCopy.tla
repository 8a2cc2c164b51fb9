------------------------------- MODULE GroupCopy -------------------------------
(***************************************************************************)
(* Copying a group, to the same site or another (control/utils/            *)
(* group_copy.py, control/tasks.py copy_group and                          *)
(* copy_file_from_source_tenant).                                          *)
(*                                                                         *)
(* One task copies the group, its subgroup, its members and its content,   *)
(* row by row and without a transaction; people go on working in the       *)
(* source meanwhile.  The contents of files are copied by tasks of their   *)
(* own, which are submitted inside the loop and may run before it ends.    *)
(* All of them save whole rows.  A person stands for the accounts with one *)
(* e-mail address in both sites.                                           *)
(***************************************************************************)
EXTENDS Integers, FiniteSets

CONSTANTS
  Items,       \* content of the source: 1..n, in the order it is listed
  Files,       \* the items that are files with contents
  Trees,       \* ways the items can hang together
  SeenBy,      \* SeenBy[e]: who may read e
  Notes,       \* comments
  OnOf,        \* OnOf[c]: the item or the comment that c is on
  BestOf,      \* BestOf[e]: the best answer of e, Nobody for none
  Crowd,       \* people
  FileWorkers, \* processes that copy the contents of files
  MaxChanges   \* bound on the changes in the source during the copy

Outside  == -1
Nobody   == 0
Subgroup == 99
RootOf(c) == IF OnOf[c] \in Items THEN OnOf[c] ELSE OnOf[OnOf[c]]

\* A comment is on an item or on a comment of one; a group has members, its
\* owner at least.
ASSUME CopyAssumption ==
  /\ Items \subseteq Nat \ {0} /\ Notes \subseteq Nat \ {0} /\ Items \cap Notes = {}
  /\ Subgroup \notin Items \cup Notes /\ Files \subseteq Items
  /\ Trees \subseteq [Items -> Items \cup {0, Outside}]
  /\ OnOf \in [Notes -> Items \cup Notes] /\ \A c \in Notes : RootOf(c) \in Items
  /\ BestOf \in [Items -> Notes \cup {Nobody}]
  /\ \A p \in Crowd : Crowd # {p}
  /\ MaxChanges \in Nat

VARIABLES
  folderOf, \* folderOf[e]: the parent of e, 0 for none, Outside for one that is not in the group
  source,   \* the items, the comments and the subgroup that are in the source
  team,     \* members of the source group
  inner,    \* members of its subgroup
  copier,   \* what the copying task does next, and what it has listed
  twin,     \* twin[e]: the copy of item e
  reply,    \* reply[c]: what the copy of comment c is on, Nobody when there is none
  joined,   \* members of the copied group
  joinedIn, \* members of the copied subgroup
  mapped,   \* GroupCopyMapping: what has a copy
  toLink,   \* relations that are rebuilt after the loop
  tray,     \* files whose contents wait to be copied
  hands,    \* hands[w]: what a file worker does next
  changes,  \* changes made in the source
  early     \* history: a file worker loaded a row before the copying task was done

groupcopy == <<folderOf, source, team, inner, copier, twin, reply, joined, joinedIn, mapped, toLink,
               tray, hands, changes, early>>
theSource == <<folderOf, source, team, inner, changes>>
theFiles  == <<tray, hands, early>>

NoTwin  == [there |-> FALSE, parent |-> 0, full |-> FALSE, best |-> Nobody, readers |-> "none"]
NotBusy == [do |-> "nothing", e |-> 0, copy |-> NoTwin]
CopyEnded   == {"done", "failed"}

CopyInit ==
  /\ folderOf \in Trees
  /\ source \in {Items \cup Notes \cup {Subgroup}, Items \cup Notes}
  /\ \E p \in Crowd : team = Crowd \ {p} /\ inner = IF Subgroup \in source THEN team ELSE {}
  /\ \E all \in BOOLEAN : copier = [do |-> "group", left |-> {}, bests |-> {}, e |-> 0, copy |-> NoTwin, all |-> all]
  /\ twin = [e \in Items |-> NoTwin]
  /\ reply = [c \in Notes |-> Nobody]
  /\ joined = {} /\ joinedIn = {} /\ mapped = {} /\ toLink = {} /\ tray = {}
  /\ hands = [w \in FileWorkers |-> NotBusy]
  /\ changes = 0 /\ early = FALSE

(***************************************************************************)
(* The copying task.                                                       *)
(***************************************************************************)
Do(do)   == copier.do = do
Next1(do) == copier' = [copier EXCEPT !.do = do]

\* create_group and create_subgroups.
CreateGroup ==
  /\ Do("group")
  /\ mapped' = mapped \cup ({Subgroup} \cap source)
  /\ Next1("members")
  /\ UNCHANGED <<theSource, theFiles, twin, reply, joined, joinedIn, toLink>>

\* create_members; without copy_members the owner alone.
CreateMembers ==
  /\ Do("members")
  /\ joined' = IF copier.all THEN team ELSE {CHOOSE p \in team : TRUE}
  /\ Next1(IF copier.all THEN "inner" ELSE "list")
  /\ UNCHANGED <<theSource, theFiles, twin, reply, joinedIn, mapped, toLink>>

\* The members of the subgroup are read when the others have been inserted.
CreateSubgroupMembers ==
  /\ Do("inner")
  /\ IF inner # {} /\ Subgroup \notin mapped THEN Next1("failed") /\ UNCHANGED joinedIn
     ELSE Next1("list") /\ joinedIn' = inner
  /\ UNCHANGED <<theSource, theFiles, twin, reply, joined, mapped, toLink>>

\* create_entities: all rows are loaded at once.
ListItems ==
  /\ Do("list")
  /\ copier' = [copier EXCEPT !.do = "read", !.left = Items \cap source,
                              !.bests = {e \in Items : BestOf[e] \in source}]
  /\ UNCHANGED <<theSource, theFiles, twin, reply, joined, joinedIn, mapped, toLink>>

\* The parent and the best answer of the next one are loaded from the source.
NextItem(e) == e \in copier.left /\ \A f \in copier.left : e <= f
ReadItem ==
  /\ Do("read")
  /\ \E e \in Items :
       /\ NextItem(e)
       /\ LET gone == folderOf[e] \in Items \ source \/ (e \in copier.bests /\ BestOf[e] \notin source)
          IN copier' = [copier EXCEPT !.do = IF gone THEN "failed" ELSE "save", !.e = e]
  /\ UNCHANGED <<theSource, theFiles, twin, reply, joined, joinedIn, mapped, toLink>>

\* transform_acl_to_access_id.
\* Mutant of Transformed: the access of the original is kept.
TransformedRaw(seen) == seen
Transformed(seen) == IF seen \in {"public", "group"} THEN seen
                     ELSE IF seen = "subgroup" /\ Subgroup \in mapped THEN seen ELSE "private"

\* A file's contents are submitted here.
\* Mutant of Saved: the best answer of the source stays in the row.
SavedAsIs(e) == [there |-> TRUE, parent |-> 0, full |-> FALSE,
                 best |-> IF e \in copier.bests THEN BestOf[e] ELSE Nobody, readers |-> Transformed(SeenBy[e])]
Saved(e) == [there |-> TRUE, parent |-> 0, full |-> FALSE, best |-> Nobody, readers |-> Transformed(SeenBy[e])]
Relations(e, cs) ==
  {<<"parent", e>> : x \in {0} \ {folderOf[e]}} \cup {<<"reply", c>> : c \in {c \in cs : OnOf[c] \in Notes}}
  \cup {<<"best", f>> : f \in {e} \cap copier.bests}
SaveItem ==
  /\ Do("save")
  /\ LET e == copier.e cs == {c \in Notes \cap source : RootOf(c) = e} IN
       /\ twin' = [twin EXCEPT ![e] = Saved(e)]
       /\ reply' = [c \in Notes |-> IF c \in cs THEN e ELSE reply[c]]
       /\ mapped' = mapped \cup {e} \cup cs
       /\ toLink' = toLink \cup Relations(e, cs)
       /\ tray' = tray \cup ({e} \cap Files)
       /\ copier' = [copier EXCEPT !.left = @ \ {e}, !.do = IF copier.left = {e} THEN "link" ELSE "read"]
  /\ UNCHANGED <<theSource, joined, joinedIn, hands, early>>

\* The relations: parents, then replies, then best answers.  A parent that has
\* no copy, a comment that is gone: DoesNotExist ends the task.
Left(kind) == {e \in Items \cup Notes : <<kind, e>> \in toLink}
LoadChild ==
  /\ Do("link")
  /\ \E e \in Left("parent") :
       copier' = IF folderOf[e] \notin mapped THEN [copier EXCEPT !.do = "failed"]
                 ELSE [copier EXCEPT !.do = "connect", !.e = e, !.copy = twin[e]]
  /\ UNCHANGED <<theSource, theFiles, twin, reply, joined, joinedIn, mapped, toLink>>

\* Mutant of Connected: the row is written with the parent alone.
ConnectedFresh(e) == [twin[e] EXCEPT !.parent = 0]
Connected(e) == [copier.copy EXCEPT !.parent = folderOf[e]]
ConnectParent ==
  /\ Do("connect")
  /\ twin' = [twin EXCEPT ![copier.e] = Connected(copier.e)]
  /\ toLink' = toLink \ {<<"parent", copier.e>>}
  /\ Next1("link")
  /\ UNCHANGED <<theSource, theFiles, reply, joined, joinedIn, mapped>>

ConnectReply ==
  /\ Do("link") /\ Left("parent") = {}
  /\ \E c \in Left("reply") :
       /\ IF OnOf[c] \in mapped THEN reply' = [reply EXCEPT ![c] = OnOf[c]] /\ UNCHANGED copier
          ELSE Next1("failed") /\ UNCHANGED reply
       /\ toLink' = toLink \ {<<"reply", c>>}
  /\ UNCHANGED <<theSource, theFiles, twin, joined, joinedIn, mapped>>

ConnectBest ==
  /\ Do("link") /\ Left("parent") \cup Left("reply") = {}
  /\ \E e \in Left("best") :
       /\ IF BestOf[e] \in mapped THEN twin' = [twin EXCEPT ![e].best = BestOf[e]] /\ UNCHANGED copier
          ELSE Next1("failed") /\ UNCHANGED twin
       /\ toLink' = toLink \ {<<"best", e>>}
  /\ UNCHANGED <<theSource, theFiles, reply, joined, joinedIn, mapped>>

Finished ==
  /\ Do("link") /\ toLink = {}
  /\ Next1("done")
  /\ UNCHANGED <<theSource, theFiles, twin, reply, joined, joinedIn, mapped, toLink>>

(***************************************************************************)
(* copy_file_data, in the file tasks.                                      *)
(***************************************************************************)
TakeFile(w) ==
  /\ hands[w] = NotBusy
  /\ \E f \in tray :
       /\ tray' = tray \ {f}
       /\ hands' = IF f \in source THEN [hands EXCEPT ![w] = [NotBusy EXCEPT !.do = "load", !.e = f]] ELSE hands
  /\ UNCHANGED <<theSource, copier, twin, reply, joined, joinedIn, mapped, toLink, early>>

LoadTwin(w) ==
  /\ hands[w].do = "load"
  /\ hands' = [hands EXCEPT ![w].do = "store", ![w].copy = twin[hands[w].e]]
  /\ early' = (early \/ copier.do \notin CopyEnded)
  /\ UNCHANGED <<theSource, copier, twin, reply, joined, joinedIn, mapped, toLink, tray>>

\* Mutant of Filled: the contents are not assigned.
FilledNot(copy) == copy
Filled(copy) == [copy EXCEPT !.full = TRUE]
StoreTwin(w) ==
  /\ hands[w].do = "store"
  /\ twin' = [twin EXCEPT ![hands[w].e] = Filled(hands[w].copy)]
  /\ hands' = [hands EXCEPT ![w] = NotBusy]
  /\ UNCHANGED <<theSource, copier, reply, joined, joinedIn, mapped, toLink, tray, early>>

(***************************************************************************)
(* The source changes.                                                     *)
(***************************************************************************)
Change ==
  /\ changes < MaxChanges
  /\ copier.do \notin CopyEnded \cup {"group"}
  /\ changes' = changes + 1
  /\ UNCHANGED <<folderOf, copier, twin, reply, joined, joinedIn, mapped, toLink, tray, hands, early>>

\* Children, comments and replies go along.
With(x) == {x} \cup {e \in Items : folderOf[e] = x} \cup {c \in Notes : OnOf[c] = x \/ RootOf(c) = x}
DeleteInSource ==
  /\ \E x \in source \cap (Items \cup Notes) : source' = source \ With(x)
  /\ UNCHANGED <<team, inner>> /\ Change

JoinSource ==
  /\ \E p \in Crowd \ team : /\ team' = team \cup {p}
                             /\ inner' = IF Subgroup \in source THEN inner \cup {p} ELSE inner
  /\ UNCHANGED source /\ Change

SubgroupInSource ==
  /\ Subgroup \notin source
  /\ source' = source \cup {Subgroup}
  /\ inner' = team
  /\ UNCHANGED team /\ Change

-----------------------------------------------------------------------------
CopyNext ==
  \/ CreateGroup \/ CreateMembers \/ CreateSubgroupMembers \/ ListItems \/ ReadItem \/ SaveItem
  \/ LoadChild \/ ConnectParent \/ ConnectReply \/ ConnectBest \/ Finished
  \/ DeleteInSource \/ JoinSource \/ SubgroupInSource
  \/ \E w \in FileWorkers : TakeFile(w) \/ LoadTwin(w) \/ StoreTwin(w)
CopySpec == CopyInit /\ [][CopyNext]_groupcopy

(***************************************************************************)
(* Properties.                                                             *)
(***************************************************************************)
Twins == [there : BOOLEAN, parent : Items \cup {0}, full : BOOLEAN, best : Notes \cup {Nobody},
          readers : {"none", "public", "group", "private", "subgroup"}]

CopySteps == {"group", "members", "inner", "list", "read", "save", "link", "connect"} \cup CopyEnded
CopyTypeOK ==
  /\ source \subseteq Items \cup Notes \cup {Subgroup}
  /\ inner \subseteq team /\ team \subseteq Crowd
  /\ copier \in [do : CopySteps, left : SUBSET Items, bests : SUBSET Items, e : Items \cup {0}, copy : Twins,
                 all : BOOLEAN]
  /\ twin \in [Items -> Twins]
  /\ reply \in [Notes -> Items \cup Notes \cup {Nobody}]
  /\ joined \subseteq Crowd /\ joinedIn \subseteq Crowd
  /\ mapped \subseteq Items \cup Notes \cup {Subgroup}
  /\ tray \subseteq Files
  /\ hands \in [FileWorkers -> [do : {"nothing", "load", "store"}, e : Items \cup {0}, copy : Twins]]
  /\ changes \in 0..MaxChanges /\ early \in BOOLEAN

\* At every moment, also after the copying task has failed, what has been
\* copied refers to copies only, and nobody can read the copy of something who
\* could not read the original.
CopyStaysInside ==
  /\ \A e \in Items : twin[e].there =>
       /\ twin[e].parent # 0 => twin[twin[e].parent].there
       /\ twin[e].best # Nobody => reply[twin[e].best] # Nobody
       /\ twin[e].readers \in {SeenBy[e], "private"}
  /\ \A c \in Notes : reply[c] \in Notes => reply[reply[c]] # Nobody

CopyOver == copier.do \in CopyEnded /\ tray = {} /\ \A w \in FileWorkers : hands[w] = NotBusy

\* Whatever overtakes what, a copied file does not lose both its contents and
\* its folder.
FileKeepsOne ==
  CopyOver /\ copier.do = "done" =>
    \A f \in Files \cap source : twin[f].there => twin[f].full \/ twin[f].parent = folderOf[f]

\* If nobody changes the source meanwhile and the contents of files are copied
\* when the copying task is done, the copy has everything the source has.
CopyComplete ==
  CopyOver /\ changes = 0 /\ ~early /\ (\A e \in Items : folderOf[e] # Outside) =>
    /\ copier.do = "done"
    /\ copier.all => joined = team /\ joinedIn = inner
    /\ \A e \in Items : /\ twin[e].there /\ twin[e].parent = folderOf[e] /\ twin[e].best = BestOf[e]
                        /\ twin[e].full <=> e \in Files
    /\ \A c \in Notes : reply[c] = OnOf[c]

\* A copy of a group is whole, and nothing in it points or opens to the outside.
CopySound == CopyTypeOK /\ CopyStaysInside /\ FileKeepsOne /\ CopyComplete
=============================================================================
