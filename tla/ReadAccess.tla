------------------------------ MODULE ReadAccess ------------------------------
(***************************************************************************)
(* Who may read a post and who may change it (core/lib.py,                 *)
(* core/models/entity.py, core/models/group.py, core/resolvers/shared.py,  *)
(* file/models.py and the resolvers that set access).                      *)
(*                                                                         *)
(* A row carries the tokens of those who may read it: everybody, whoever   *)
(* is logged in, a group, a subgroup, a person.  A reader holds tokens in  *)
(* turn.  What the row carries is decided once, when it is written, from   *)
(* its owner and its group as they are then.  Closing the group rewrites   *)
(* the rows of its posts one by one; the tokens of a file follow those of  *)
(* the posts that show it, at the moment the link is made or taken away.   *)
(***************************************************************************)
EXTENDS Naturals, FiniteSets

CONSTANTS
  Users, Admins,      \* people with an account, and the site administrators among them
  Groups, Subgroups,
  Home,               \* Home[s]: the group of subgroup s
  Posts, FileFolders, \* identities of posts, and those that are files and folders
  Within,             \* Within[p]: the files in folder p
  Files,              \* attachments: files outside every group
  FileOwner,          \* FileOwner[f]: who uploaded f
  Workers, Crews,     \* processes, and the sets of them an execution may start with
  Offers,             \* what an execution may be about: kinds of request, posts, files, their number
  Readings, Writings, \* the access ids that forms ask for
  StartRoles,         \* the memberships an execution may start with
  MaxRequests         \* bound on the number of requests

Everybody == "public"
LoggedIn  == "logged_in"
Open      == {Everybody, LoggedIn}
Tokens    == Open \cup Users \cup Groups \cup Subgroups
NoGroup   == "no group"
Roles     == {"none", "pending", "member", "admin"}

\* What a form can ask for: nobody else, whoever is logged in, everybody, the
\* group, a subgroup.
AccessIds == {"private", LoggedIn, Everybody, "group"} \cup Subgroups

ASSUME ReadAccessAssumption ==
  /\ Admins \subseteq Users
  /\ Home \in [Subgroups -> Groups]
  /\ FileFolders \subseteq Posts
  /\ Within \in [Posts -> SUBSET FileFolders]
  /\ FileOwner \in [Files -> Users]
  /\ IsFiniteSet(Workers) /\ Crews \subseteq SUBSET Workers
  /\ \A o \in Offers : o.posts \subseteq Posts /\ o.files \subseteq Files /\ o.bound \in 0..MaxRequests
  /\ StartRoles \subseteq [Groups -> [Users -> Roles]]
  /\ Readings \subseteq AccessIds /\ Writings \subseteq AccessIds
  /\ MaxRequests \in Nat
  /\ NoGroup \notin Groups /\ Subgroups \cap {"private", "group"} = {}
  /\ Users \cap Open = {} /\ Groups \cap Open = {} /\ Subgroups \cap Open = {}
  /\ Users \cap Groups = {} /\ Users \cap Subgroups = {} /\ Groups \cap Subgroups = {}

VARIABLES
  crew,     \* the workers of this execution
  offer,    \* what this execution is about
  closed,   \* Group.is_closed
  role,     \* role[g][u]: GroupMembership.type
  subs,     \* subs[s]: the members of a subgroup
  post,     \* post[p]: the row of a post
  moved,    \* history: the posts put into another group since their access was set
  file,     \* file[f]: the tokens of an attachment
  refs,     \* the rows of FileReference, <<file, holder>>
  proc,     \* proc[w]: where worker w is
  requests  \* requests that may still come

vars == <<crew, offer, closed, role, subs, post, moved, file, refs, proc, requests>>
tables == <<closed, role, subs, post, moved, file, refs>>

Row == [owner : Users, group : Groups \cup {NoGroup}, read : SUBSET Tokens,
        write : SUBSET Tokens, shows : SUBSET Files]
NoPost == [gone |-> TRUE]
Copy == [post : Posts, row : Row]

Settings == "settings"
Personal == "personal"
Holders == Posts \cup {Settings, Personal}

\* What a worker is at: a row to be saved; rows a loop still has to save; the
\* links of a post; the tokens of a file, on the way to the next link.
Idle    == [at |-> "idle"]
Storing == [at : {"save"}, post : Posts, row : Row, into : BOOLEAN, set : BOOLEAN]
Falling == [at : {"below", "heirs"}, post : Posts, row : Row, to : Users \cup {"same"},
            set : BOOLEAN, rows : SUBSET Copy]
Closing == [at : {"posts"}, group : Groups \cup {NoGroup}, closed : BOOLEAN, rows : SUBSET Copy]
Looking == [at : {"look"}, post : Posts, shows : SUBSET Files]
Linking == [at : {"links"}, post : Posts, new : SUBSET Files, old : SUBSET Files]
Filing  == [at : {"refresh", "file"}, file : Files, read : SUBSET Tokens, then : Linking \cup {Idle}]
Process == {Idle} \cup Storing \cup Falling \cup Closing \cup Looking \cup Linking \cup Filing

(***************************************************************************)
(* Tokens.                                                                 *)
(***************************************************************************)
IsClosed(g) == g \in Groups /\ closed[g]

\* access_id_to_acl.  Mutant of Grant: a closed group is not looked at.
GrantAsked(g, isClosed, id) ==
  IF id = "group" THEN {g} \ {NoGroup} ELSE {id} \ {"private"}
\* Mutant of Grant: without a group "group" still names one.
GrantBlind(g, isClosed, id) ==
  IF id = "group" \/ (isClosed /\ id \in Open) THEN {g} ELSE {id} \ {"private"}
Grant(g, isClosed, id) ==
  IF id = "group" \/ (isClosed /\ id \in Open) THEN {g} \ {NoGroup}
  ELSE IF id \in Open \/ (id \in Subgroups /\ g # NoGroup) THEN {id}
  ELSE {}
Acl(owner, g, isClosed, id) == {owner} \cup Grant(g, isClosed, id)

\* get_access_id.
AccessId(acl) ==
  IF acl \cap Subgroups # {} THEN CHOOSE s \in Subgroups : s \in acl
  ELSE IF acl \cap Groups # {} THEN "group"
  ELSE IF Everybody \in acl THEN Everybody
  ELSE IF LoggedIn \in acl THEN LoggedIn
  ELSE "private"

Visitor == "visitor"
IsFullMember(g, u) == u \in Users /\ role[g][u] \in {"member", "admin"}

\* get_acl.
Held(u) ==
  IF u = Visitor THEN {Everybody}
  ELSE Open \cup {u} \cup {g \in Groups : IsFullMember(g, u)}
            \cup {s \in Subgroups : u \in subs[s]}

\* EntityManager.visible.
Listed(u, row) == u \in Admins \/ Held(u) \cap row.read # {}

\* Entity.can_read, asked for pages, files, comments and notifications.
CanRead(u, row) ==
  \/ u \in Admins
  \/ /\ IsClosed(row.group) => IsFullMember(row.group, u)
     /\ Held(u) \cap row.read # {}

\* Entity.can_write.
CanWrite(u, row) ==
  \/ u \in Admins
  \/ row.group \in Groups /\ role[row.group][u] = "admin"
  \/ Held(u) \cap row.write # {}

(***************************************************************************)
(* Requests.                                                               *)
(***************************************************************************)
Free(w, kind) == w \in crew /\ proc[w] = Idle /\ kind \in offer.kinds /\ requests > 0
Take(w, state) == /\ proc' = [proc EXCEPT ![w] = state]
                  /\ requests' = requests - 1
                  /\ UNCHANGED <<crew, offer>>
Goto(w, state) == /\ proc' = [proc EXCEPT ![w] = state]
                  /\ UNCHANGED <<crew, offer, requests>>

\* The row of a post on its way to the database.  into: it changes its group;
\* set: its access was set.
Saving(p, row, into, set) ==
  [at |-> "save", post |-> p, row |-> row, into |-> into, set |-> set]

\* resolve_add_blog and its likes, resolve_add_access_id.
AddPost(w) ==
  /\ Free(w, "add")
  /\ \E p \in offer.posts, u \in Users, g \in Groups \cup {NoGroup},
        r \in Readings, c \in Writings, shows \in SUBSET offer.files :
       /\ post[p] = NoPost
       /\ g \in Groups => IsFullMember(g, u) \/ u \in Admins
       /\ \A d \in Posts : p \in Within[d] => post[d] # NoPost /\ g = post[d].group
       /\ LET row == [owner |-> u, group |-> g,
                      read  |-> Acl(u, g, IsClosed(g), r),
                      write |-> Acl(u, g, IsClosed(g), c), shows |-> shows]
          IN  Take(w, Saving(p, row, FALSE, TRUE))
  /\ UNCHANGED tables

\* resolve_update_access_id, the access to read and that to write.
Accessed(row, id) ==
  IF id = "same" THEN row
  ELSE [row EXCEPT !.read = Acl(row.owner, row.group, IsClosed(row.group), id)]
Writable(row, c) ==
  IF c = "same" THEN row
  ELSE [row EXCEPT !.write = Acl(row.owner, row.group, IsClosed(row.group), c)]

\* resolve_update_owner.  Mutant of Owned: the token of the new owner is forgotten.
OwnedElsewhere(row, u) == [row EXCEPT !.owner = u, !.read = @ \ {row.owner}]
Owned(row, u) ==
  LET Swapped(acl) == IF row.owner \in acl THEN (acl \ {row.owner}) \cup {u} ELSE acl
  IN  [row EXCEPT !.owner = u, !.read = Swapped(@), !.write = Swapped(@)]

\* resolve_edit_blog and its likes: the access first, then, for a site
\* administrator, the group and the owner.
EditPost(w) ==
  /\ Free(w, "edit")
  /\ \E p \in Posts, by \in Users, id \in Readings \cup {"same"}, c \in Writings \cup {"same"},
        g \in Groups \cup {NoGroup}, u \in Users, shows \in SUBSET offer.files :
       /\ post[p] # NoPost /\ p \notin FileFolders /\ CanWrite(by, post[p])
       /\ g = post[p].group \/ by \in Admins
       /\ u = post[p].owner \/ by \in Admins
       /\ LET row == [Owned(Writable(Accessed(post[p], id), c), u) EXCEPT !.group = g, !.shows = shows]
          IN  Take(w, Saving(p, row, g # post[p].group, id # "same"))
  /\ UNCHANGED tables

\* Entity.save.
Save(w) ==
  LET s == proc[w]
  IN  /\ s.at = "save"
      /\ post' = [post EXCEPT ![s.post] = s.row]
      /\ moved' = IF s.into THEN moved \cup {s.post}
                  ELSE IF s.set THEN moved \ {s.post} ELSE moved
      /\ Goto(w, [at |-> "look", post |-> s.post, shows |-> s.row.shows])
      /\ UNCHANGED <<closed, role, subs, file, refs>>

\* resolve_delete_entity.  The references go with the post by CASCADE, which
\* asks nobody to look at the files again.
DeletePost(w) ==
  /\ Free(w, "delete")
  /\ \E p \in Posts, by \in Users :
       /\ post[p] # NoPost /\ CanWrite(by, post[p])
       /\ post' = [q \in Posts |-> IF q \in Within[p] \cup {p} THEN NoPost ELSE post[q]]
       /\ moved' = moved \ (Within[p] \cup {p})
       /\ refs' = {r \in refs : r[2] \notin Within[p] \cup {p}}
  /\ Take(w, Idle)
  /\ UNCHANGED <<closed, role, subs, file>>

(***************************************************************************)
(* Folders: access and owner go down to the files in them.                 *)
(***************************************************************************)
\* update_file_folder_owner: the comprehension keeps no other token.
Given(row, u) ==
  [row EXCEPT !.owner = u,
              !.read  = IF row.owner \in @ THEN {u} ELSE @,
              !.write = IF row.owner \in @ THEN {u} ELSE @]

Children(p) == {q \in Within[p] : post[q] # NoPost}

\* update_access_recursive: asking for "private" leaves the files as they are.
Asked0(id) == IF id = "private" THEN "same" ELSE id
Kept(row, id, c) == Writable(Accessed(row, Asked0(id)), Asked0(c))
Reached(p, by, deep) == {q \in Children(p) : deep /\ Listed(by, post[q]) /\ CanWrite(by, post[q])}
Below(p, by, id, c, deep) ==
  {[post |-> q, row |-> Kept(post[q], id, c)] : q \in Reached(p, by, deep)}

\* resolve_edit_file_folder.
EditFolder(w) ==
  /\ Free(w, "folder")
  /\ \E p \in Posts, by \in Users, id \in Readings \cup {"same"}, c \in Writings \cup {"same"},
        u \in Users \cup {"same"}, deep \in BOOLEAN :
       /\ post[p] # NoPost /\ p \in FileFolders /\ CanWrite(by, post[p])
       /\ Take(w, [at |-> "below", post |-> p, row |-> Writable(Accessed(post[p], id), c), to |-> u,
                  set |-> id # "same", rows |-> Below(p, by, id, c, deep)])
  /\ UNCHANGED tables

\* One row of those a loop goes through is saved.
SaveRow(w) ==
  LET s == proc[w]
  IN  /\ s.at \in {"below", "heirs", "posts"}
      /\ \E c \in s.rows :
           /\ post' = [post EXCEPT ![c.post] = c.row]
           /\ Goto(w, [s EXCEPT !.rows = @ \ {c}])
      /\ UNCHANGED <<closed, role, subs, moved, file, refs>>

\* update_file_folder_owner: the files of the folder are left, or follow, or
\* those of the previous owner do.
Heirs(row, p) == {{}, Children(p), {q \in Children(p) : post[q].owner = row.owner}}
PassOn(w) ==
  LET s == proc[w]
  IN  /\ s.at = "below" /\ s.rows = {}
      /\ IF s.to = "same" THEN Goto(w, Saving(s.post, s.row, FALSE, s.set))
         ELSE \E heirs \in Heirs(s.row, s.post) :
                Goto(w, [s EXCEPT !.at = "heirs", !.row = Given(@, s.to),
                           !.rows = {[post |-> q, row |-> Given(post[q], s.to)] : q \in heirs}])
      /\ UNCHANGED tables

PassedOn(w) ==
  LET s == proc[w]
  IN  /\ s.at = "heirs" /\ s.rows = {}
      /\ Goto(w, Saving(s.post, s.row, FALSE, s.set))
      /\ UNCHANGED tables

(***************************************************************************)
(* Groups and the site.                                                    *)
(***************************************************************************)
\* Joining, leaving, removal and roles, each at once: GroupMembership has their
\* statements.  Only a leave looks at the subgroups.
ChangeMembership(w) ==
  /\ Free(w, "member")
  /\ \E g \in Groups, u \in Users, r \in Roles, left \in BOOLEAN :
       /\ r # role[g][u]
       /\ role' = [role EXCEPT ![g][u] = r]
       /\ subs' = [s \in Subgroups |-> IF left /\ r = "none" /\ Home[s] = g
                                         THEN subs[s] \ {u} ELSE subs[s]]
  /\ Take(w, Idle)
  /\ UNCHANGED <<closed, post, moved, file, refs>>

\* resolve_edit_subgroup, resolve_delete_subgroup.
ChangeSubgroup(w) ==
  /\ Free(w, "subgroup")
  /\ \E s \in Subgroups :
       \E who \in SUBSET {u \in Users : IsFullMember(Home[s], u)} :
         subs' = [subs EXCEPT ![s] = who]
  /\ Take(w, Idle)
  /\ UNCHANGED <<closed, role, post, moved, file, refs>>

\* Group.update_entity_access.  Mutant of Shut: only public posts are rewritten.
ShutPublic(g, row) ==
  IF Everybody \in row.read THEN [row EXCEPT !.read = (@ \ {Everybody}) \cup {g}] ELSE row
Shut(g, row) == [row EXCEPT !.read = (@ \ Open) \cup {g}]

\* update_entities_public_to_logged_in.
Restricted(row) ==
  LET Restrict(acl) == IF Everybody \in acl THEN (acl \ {Everybody}) \cup {LoggedIn} ELSE acl
  IN  [row EXCEPT !.read = Restrict(@), !.write = Restrict(@)]

\* resolve_edit_group: the posts of a closed group first, then the group.
EditGroup(w) ==
  /\ Free(w, "close")
  /\ \E g \in Groups, c \in BOOLEAN :
       LET open == {p \in Posts : /\ post[p] # NoPost /\ post[p].group = g
                                  /\ c /\ post[p].read \cap Open # {}}
       IN  Take(w, [at |-> "posts", group |-> g, closed |-> c,
                    rows |-> {[post |-> p, row |-> Shut(g, post[p])] : p \in open}])
  /\ UNCHANGED tables

CloseSite(w) ==
  /\ Free(w, "site")
  /\ LET open == {p \in Posts : /\ post[p] # NoPost
                                /\ Everybody \in post[p].read \cup post[p].write}
     IN  Take(w, [at |-> "posts", group |-> NoGroup, closed |-> TRUE,
                  rows |-> {[post |-> p, row |-> Restricted(post[p])] : p \in open}])
  /\ UNCHANGED tables

SaveGroup(w) ==
  LET s == proc[w]
  IN  /\ s.at = "posts" /\ s.rows = {}
      /\ closed' = IF s.group = NoGroup THEN closed ELSE [closed EXCEPT ![s.group] = s.closed]
      /\ Goto(w, Idle)
      /\ UNCHANGED <<role, subs, post, moved, file, refs>>

(***************************************************************************)
(* Attachments.                                                            *)
(***************************************************************************)
Current(p) == {f \in Files : <<f, p>> \in refs}

\* FileFolder.refresh_read_access.
HoldersOf(f, links) == {r[2] : r \in {x \in links : x[1] = f}}
ReadersOf(holders) == UNION {post[p].read : p \in {q \in holders \cap Posts : post[q] # NoPost}}
\* Mutant of Derived: settings do not count.
DerivedFromPosts(f, links) == {FileOwner[f]} \cup ReadersOf(HoldersOf(f, links))
Derived(f, links) ==
  {FileOwner[f]} \cup ReadersOf(HoldersOf(f, links))
    \cup (IF HoldersOf(f, links) \cap {Settings, Personal} # {} THEN {Everybody} ELSE {})

\* AttachmentMixin.update_attachments_links.
LookUp(w) ==
  LET s == proc[w]
  IN  /\ s.at = "look"
      /\ Goto(w, [at |-> "links", post |-> s.post, new |-> s.shows \ Current(s.post),
                  old |-> Current(s.post) \ s.shows])
      /\ UNCHANGED tables

\* A reference is made or taken away.
Link(w) ==
  LET s == proc[w]
  IN  /\ s.at = "links"
      /\ \E f \in s.new \cup s.old :
           /\ refs' = IF f \in s.new THEN refs \cup {<<f, s.post>>} ELSE refs \ {<<f, s.post>>}
           /\ Goto(w, [at |-> "refresh", file |-> f, read |-> {},
                       then |-> [s EXCEPT !.new = @ \ {f}, !.old = @ \ {f}]])
      /\ UNCHANGED <<closed, role, subs, post, moved, file>>

Linked(w) ==
  LET s == proc[w]
  IN  /\ s.at = "links" /\ s.new \cup s.old = {}
      /\ Goto(w, Idle)
      /\ UNCHANGED tables

\* FileReference.save and delete.
Refresh(w) ==
  LET s == proc[w]
  IN  /\ s.at = "refresh"
      /\ Goto(w, IF Derived(s.file, refs) = file[s.file] THEN s.then
                 ELSE [s EXCEPT !.at = "file", !.read = Derived(s.file, refs)])
      /\ UNCHANGED tables

SaveFile(w) ==
  LET s == proc[w]
  IN  /\ s.at = "file"
      /\ file' = [file EXCEPT ![s.file] = s.read]
      /\ Goto(w, s.then)
      /\ UNCHANGED <<closed, role, subs, post, moved, refs>>

\* resolve_update_logo, resolve_add_file: update_configuration, persist_file.
Configure(w) ==
  /\ Free(w, "configure")
  /\ \E f \in Files, h \in {Settings, Personal} :
       /\ <<f, h>> \notin refs
       /\ refs' = {r \in refs : h = Settings => r[2] # Settings} \cup {<<f, h>>}
       /\ Take(w, [at |-> "refresh", file |-> f, read |-> {}, then |-> Idle])
  /\ UNCHANGED <<closed, role, subs, post, moved, file>>

(***************************************************************************)
(* The specification.                                                      *)
(***************************************************************************)
Init ==
  /\ crew \in Crews /\ offer \in Offers
  /\ closed \in [Groups -> BOOLEAN]
  /\ role \in StartRoles
  /\ subs = [s \in Subgroups |-> {u \in Users : IsFullMember(Home[s], u)}]
  /\ post = [p \in Posts |-> NoPost] /\ moved = {}
  /\ file = [f \in Files |-> {FileOwner[f]}] /\ refs = {}
  /\ proc = [w \in Workers |-> Idle]
  /\ requests = offer.bound

Request(w) ==
  \/ AddPost(w) \/ EditPost(w) \/ DeletePost(w) \/ EditFolder(w)
  \/ ChangeMembership(w) \/ ChangeSubgroup(w) \/ EditGroup(w) \/ CloseSite(w)
  \/ Configure(w)

Proceed(w) ==
  \/ Save(w) \/ SaveRow(w) \/ PassOn(w) \/ PassedOn(w) \/ SaveGroup(w)
  \/ LookUp(w) \/ Link(w) \/ Linked(w) \/ Refresh(w) \/ SaveFile(w)

Next == \E w \in crew : Request(w) \/ Proceed(w)

Spec == Init /\ [][Next]_vars

(***************************************************************************)
(* Properties.                                                             *)
(***************************************************************************)
Exists(p) == post[p] # NoPost
Quiet == \A w \in Workers : proc[w] = Idle
Alone == Cardinality(crew) = 1

TypeOK ==
  /\ crew \in Crews /\ offer \in Offers /\ requests \in 0..MaxRequests
  /\ closed \in [Groups -> BOOLEAN]
  /\ role \in [Groups -> [Users -> Roles]]
  /\ subs \in [Subgroups -> SUBSET Users]
  /\ post \in [Posts -> Row \cup {NoPost}]
  /\ moved \subseteq Posts
  /\ file \in [Files -> SUBSET Tokens]
  /\ refs \subseteq Files \X Holders
  /\ proc \in [Workers -> Process]

\* Whoever owns a post may read and change it as such, through every change of
\* access, owner, group and folder, and whichever copies are written back late.
OwnerReads ==
  \A p \in Posts : Exists(p) => post[p].owner \in post[p].read \cap post[p].write

\* What the lists show somebody in a closed group, the checks of files, comments
\* and notifications grant as well; the rest is a person's own posts, those of a
\* subgroup that outlived the membership, and posts moved into the group.
ListedIsReadable ==
  Alone /\ Quiet =>
    \A p \in Posts \ moved, u \in Users \cup {Visitor} :
      Exists(p) /\ Listed(u, post[p]) =>
        \/ CanRead(u, post[p])
        \/ post[p].owner = u
        \/ \E s \in Subgroups : s \in post[p].read /\ u \in subs[s]

\* Sending a form back unchanged changes nothing: the access id it shows stands
\* for the tokens that the post has, in an open and in a closed group.
FormKeepsAccess ==
  Alone /\ Quiet =>
    \A p \in Posts \ moved :
      Exists(p) => Acl(post[p].owner, post[p].group, IsClosed(post[p].group),
                       AccessId(post[p].read)) = post[p].read

\* Every save of a closed group takes its posts from outsiders, those moved into
\* it before included.
ClosingHides ==
  [][Alone => \A w \in Workers, g \in Groups :
       closed'[g] /\ proc[w] # Idle /\ proc[w].at = "posts" /\ proc[w].group = g /\ proc'[w] = Idle =>
         \A p \in Posts : Exists(p) /\ post[p].group = g => post[p].read \cap Open = {}]_vars

\* The logo of the site is for everybody, in whichever posts it is shown and
\* however they change.
LogoPublic ==
  Alone /\ Quiet => \A f \in Files : <<f, Settings>> \in refs => Everybody \in file[f]

\* Lists, forms and files agree with the tokens of the rows.
AccessSound == TypeOK /\ ListedIsReadable /\ FormKeepsAccess /\ LogoPublic
=============================================================================
