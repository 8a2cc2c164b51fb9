--------------------------- MODULE ReadAccessProofs ---------------------------
(***************************************************************************)
(* Theorems about ReadAccess, for any number of people, groups, posts,     *)
(* attachments, workers and requests; and about Profiles, for any fields,  *)
(* members, processes and requests.                                        *)
(***************************************************************************)
EXTENDS ReadAccess, Profiles, FiniteSetTheorems, TLAPS

Keeps(r) == r.owner \in r.read \cap r.write
Copies(s) == IF s.at \in {"below", "heirs", "posts"} THEN s.rows ELSE {}
OwnRow(s) == IF s.at \in {"save", "below", "heirs"} THEN {s.row} ELSE {}

\* Every row is its owner's, and so is every copy of one on its way back.
ProcessKeeps(s) == /\ \A r \in OwnRow(s) : Keeps(r)
                   /\ \A c \in Copies(s) : Keeps(c.row)
IInv == /\ TypeOK
        /\ OwnerReads
        /\ \A w \in Workers : ProcessKeeps(proc[w])

(***************************************************************************)
(* What the operators on rows keep.                                        *)
(***************************************************************************)
Good(r) == r \in Row /\ Keeps(r)
Ids == AccessIds \cup {"same"}

LEMMA AclGood ==
  ASSUME NEW u \in Users, NEW g \in Groups \cup {NoGroup}, NEW c \in BOOLEAN, NEW id \in AccessIds
  PROVE  Acl(u, g, c, id) \subseteq Tokens /\ u \in Acl(u, g, c, id)
BY DEF Acl, Grant, AccessIds, Tokens, Open, LoggedIn, Everybody

LEMMA ClosedType == \A g : IsClosed(g) \in BOOLEAN
BY DEF IsClosed

LEMMA AccessedGood ==
  ASSUME NEW r, Good(r), NEW id \in Ids
  PROVE  Good(Accessed(r, id))
<1>1. CASE id = "same" BY <1>1 DEF Accessed
<1>2. CASE id # "same"
  <2>1. id \in AccessIds /\ r \in Row /\ r.owner \in r.write BY <1>2 DEF Ids, Good, Keeps
  <2>2. r.owner \in Users /\ r.group \in Groups \cup {NoGroup} BY <2>1 DEF Row
  <2>3. DEFINE acl == Acl(r.owner, r.group, IsClosed(r.group), id)
  <2>4. acl \subseteq Tokens /\ r.owner \in acl BY <2>1, <2>2, AclGood, ClosedType
  <2>5. Accessed(r, id) = [r EXCEPT !.read = acl] BY <1>2 DEF Accessed
  <2> QED BY <2>1, <2>2, <2>4, <2>5 DEF Good, Keeps, Row
<1> QED BY <1>1, <1>2

LEMMA WritableGood ==
  ASSUME NEW r, Good(r), NEW id \in Ids
  PROVE  /\ Good(Writable(r, id))
         /\ Writable(r, id).read = r.read /\ Writable(r, id).owner = r.owner
         /\ Writable(r, id).group = r.group
<1>1. CASE id = "same" BY <1>1 DEF Writable
<1>2. CASE id # "same"
  <2>1. id \in AccessIds /\ r \in Row /\ r.owner \in r.read BY <1>2 DEF Ids, Good, Keeps
  <2>2. r.owner \in Users /\ r.group \in Groups \cup {NoGroup} BY <2>1 DEF Row
  <2>3. DEFINE acl == Acl(r.owner, r.group, IsClosed(r.group), id)
  <2>4. acl \subseteq Tokens /\ r.owner \in acl BY <2>1, <2>2, AclGood, ClosedType
  <2>5. Writable(r, id) = [r EXCEPT !.write = acl] BY <1>2 DEF Writable
  <2> QED BY <2>1, <2>2, <2>4, <2>5 DEF Good, Keeps, Row
<1> QED BY <1>1, <1>2

LEMMA AskedIds == \A id \in Ids : Asked0(id) \in Ids
BY DEF Ids, Asked0

LEMMA OwnedGood ==
  ASSUME NEW r, Good(r), NEW u \in Users
  PROVE  Good(Owned(r, u)) /\ Owned(r, u).group = r.group
BY DEF Good, Keeps, Tokens, Owned, Row

LEMMA GivenGood ==
  ASSUME NEW r, Good(r), NEW u \in Users
  PROVE  Good(Given(r, u))
BY DEF Good, Keeps, Tokens, Given, Row

LEMMA ShutGood ==
  ASSUME NEW r, Good(r), NEW g \in Groups
  PROVE  Good(Shut(g, r))
BY ReadAccessAssumption DEF Good, Keeps, Tokens, Row, Shut

LEMMA RestrictedGood ==
  ASSUME NEW r, Good(r)
  PROVE  Good(Restricted(r))
BY ReadAccessAssumption DEF Good, Keeps, Tokens, Open, Row, Restricted

LEMMA ShownGood ==
  ASSUME NEW r, Good(r), NEW g \in Groups \cup {NoGroup}, NEW shows \in SUBSET Files
  PROVE  Good([r EXCEPT !.group = g, !.shows = shows])
BY DEF Good, Keeps, Row

LEMMA PostGood ==
  ASSUME IInv, NEW p \in Posts, post[p] # NoPost
  PROVE  Good(post[p])
BY DEF IInv, TypeOK, OwnerReads, Exists, Good, Keeps

(***************************************************************************)
(* What a worker is at.                                                    *)
(***************************************************************************)
LEMMA Shape ==
  ASSUME NEW s \in Process
  PROVE  /\ s.at = "save" => s \in Storing
         /\ s.at \in {"below", "heirs"} => s \in Falling
         /\ s.at = "posts" => s \in Closing
         /\ s.at = "look" => s \in Looking
         /\ s.at = "links" => s \in Linking
         /\ s.at \in {"refresh", "file"} => s \in Filing
BY DEF Process, Idle, Storing, Falling, Closing, Looking, Linking, Filing

\* A step of a worker that leaves the posts alone.
LEMMA StateStep ==
  ASSUME IInv, NEW w \in crew, NEW t \in Process, ProcessKeeps(t),
         proc' = [proc EXCEPT ![w] = t],
         requests' \in 0..MaxRequests, UNCHANGED <<crew, offer>>,
         closed' \in [Groups -> BOOLEAN], role' \in [Groups -> [Users -> Roles]],
         subs' \in [Subgroups -> SUBSET Users],
         post' \in [Posts -> Row \cup {NoPost}],
         \A p \in Posts : post'[p] # NoPost => Keeps(post'[p]),
         moved' \subseteq Posts, file' \in [Files -> SUBSET Tokens],
         refs' \subseteq Files \X Holders
  PROVE  IInv'
BY ReadAccessAssumption DEF IInv, TypeOK, OwnerReads, Exists, Keeps

LEMMA TableTypes ==
  ASSUME IInv
  PROVE  /\ requests \in 0..MaxRequests /\ crew \in SUBSET Workers
         /\ closed \in [Groups -> BOOLEAN] /\ role \in [Groups -> [Users -> Roles]]
         /\ subs \in [Subgroups -> SUBSET Users]
         /\ post \in [Posts -> Row \cup {NoPost}]
         /\ \A p \in Posts : post[p] # NoPost => Keeps(post[p])
         /\ moved \subseteq Posts /\ file \in [Files -> SUBSET Tokens]
         /\ refs \subseteq Files \X Holders
         /\ offer.posts \subseteq Posts /\ offer.files \subseteq Files
BY ReadAccessAssumption DEF IInv, TypeOK, OwnerReads, Exists, Keeps

\* A request, or a step on, that changes no table.
LEMMA Start ==
  ASSUME IInv, NEW w \in crew, NEW t \in Process, ProcessKeeps(t), requests > 0,
         Take(w, t), UNCHANGED tables
  PROVE  IInv'
<1>1. requests' \in 0..MaxRequests BY TableTypes, ReadAccessAssumption DEF Take
<1> QED BY <1>1, TableTypes, StateStep DEF Take, tables

LEMMA Continue ==
  ASSUME IInv, NEW w \in crew, NEW t \in Process, ProcessKeeps(t), Goto(w, t), UNCHANGED tables
  PROVE  IInv'
BY TableTypes, StateStep DEF Goto, tables

LEMMA IdleGood == Idle \in Process /\ ProcessKeeps(Idle)
BY DEF Process, Idle, ProcessKeeps, OwnRow, Copies

LEMMA SavingGood ==
  ASSUME NEW p \in Posts, NEW r, Good(r), NEW into \in BOOLEAN, NEW set \in BOOLEAN
  PROVE  Saving(p, r, into, set) \in Process /\ ProcessKeeps(Saving(p, r, into, set))
BY DEF Saving, Storing, Good, Process, ProcessKeeps, OwnRow, Copies

(***************************************************************************)
(* Each step keeps the invariant.                                          *)
(***************************************************************************)
LEMMA InitHolds == Init => IInv
<1> SUFFICES ASSUME Init PROVE IInv OBVIOUS
<1>1. TypeOK
  BY ReadAccessAssumption, IdleGood DEF Init, Tokens, TypeOK
<1>2. OwnerReads BY DEF Init, OwnerReads, Exists
<1>3. \A w \in Workers : ProcessKeeps(proc[w]) BY IdleGood DEF Init
<1> QED BY <1>1, <1>2, <1>3 DEF IInv

LEMMA AddPostKeeps == ASSUME IInv, NEW w \in crew, AddPost(w) PROVE IInv'
<1>1. PICK p \in offer.posts, u \in Users, g \in Groups \cup {NoGroup},
           r \in Readings, c \in Writings, shows \in SUBSET offer.files :
        Take(w, Saving(p, [owner |-> u, group |-> g, read |-> Acl(u, g, IsClosed(g), r),
                           write |-> Acl(u, g, IsClosed(g), c), shows |-> shows], FALSE, TRUE))
  BY ZenonT(30) DEF AddPost
<1> DEFINE row == [owner |-> u, group |-> g, read |-> Acl(u, g, IsClosed(g), r),
                   write |-> Acl(u, g, IsClosed(g), c), shows |-> shows]
<1>2. p \in Posts /\ shows \subseteq Files /\ r \in AccessIds /\ c \in AccessIds BY TableTypes, ReadAccessAssumption
<1>3. Good(row) BY <1>2, AclGood, ClosedType DEF Good, Keeps, Row
<1>4. Saving(p, row, FALSE, TRUE) \in Process /\ ProcessKeeps(Saving(p, row, FALSE, TRUE)) BY <1>2, <1>3, SavingGood
<1> QED BY <1>1, <1>4, Start DEF AddPost, Free

LEMMA EditPostKeeps == ASSUME IInv, NEW w \in crew, EditPost(w) PROVE IInv'
<1>1. PICK p \in Posts, by \in Users, id \in Readings \cup {"same"}, c \in Writings \cup {"same"},
           g \in Groups \cup {NoGroup}, u \in Users, shows \in SUBSET offer.files :
        /\ post[p] # NoPost
        /\ Take(w, Saving(p, [Owned(Writable(Accessed(post[p], id), c), u)
                                EXCEPT !.group = g, !.shows = shows],
                          g # post[p].group, id # "same"))
  BY ZenonT(30) DEF EditPost
<1>2. id \in Ids /\ c \in Ids /\ shows \in SUBSET Files BY TableTypes, ReadAccessAssumption DEF Ids
<1>3. Good(Owned(Writable(Accessed(post[p], id), c), u))
  BY <1>1, <1>2, PostGood, AccessedGood, WritableGood, OwnedGood
<1> DEFINE row == [Owned(Writable(Accessed(post[p], id), c), u) EXCEPT !.group = g, !.shows = shows]
<1>4. Good(row) BY <1>2, <1>3, ShownGood
<1> DEFINE t == Saving(p, row, g # post[p].group, id # "same")
<1>5. t \in Process /\ ProcessKeeps(t) BY <1>4, SavingGood
<1>6. Take(w, t) /\ requests > 0 /\ UNCHANGED tables BY <1>1 DEF EditPost, Free
<1> HIDE DEF t
<1> QED BY <1>5, <1>6, Start

LEMMA DeletePostKeeps == ASSUME IInv, NEW w \in crew, DeletePost(w) PROVE IInv'
<1>1. /\ post' \in [Posts -> Row \cup {NoPost}]
      /\ \A p \in Posts : post'[p] # NoPost => Keeps(post'[p])
      /\ moved' \subseteq Posts /\ refs' \subseteq Files \X Holders
  BY TableTypes DEF DeletePost
<1>2. requests' \in 0..MaxRequests /\ UNCHANGED <<crew, offer, closed, role, subs, file>>
      /\ proc' = [proc EXCEPT ![w] = Idle]
  BY TableTypes, ReadAccessAssumption DEF DeletePost, Take, Free
<1> QED BY <1>1, <1>2, TableTypes, IdleGood, StateStep

LEMMA EditFolderKeeps == ASSUME IInv, NEW w \in crew, EditFolder(w) PROVE IInv'
<1>1. PICK p \in Posts, by \in Users, id \in Readings \cup {"same"}, c \in Writings \cup {"same"},
           u \in Users \cup {"same"}, deep \in BOOLEAN :
        /\ post[p] # NoPost
        /\ Take(w, [at |-> "below", post |-> p, row |-> Writable(Accessed(post[p], id), c), to |-> u,
                   set |-> id # "same", rows |-> Below(p, by, id, c, deep)])
  BY DEF EditFolder
<1> DEFINE t == [at |-> "below", post |-> p, row |-> Writable(Accessed(post[p], id), c), to |-> u,
                 set |-> id # "same", rows |-> Below(p, by, id, c, deep)]
<1>2. id \in Ids /\ c \in Ids BY ReadAccessAssumption DEF Ids
<1>3. Good(Writable(Accessed(post[p], id), c)) BY <1>1, <1>2, PostGood, AccessedGood, WritableGood
<1>4. \A q \in Reached(p, by, deep) : q \in Posts /\ Good(Kept(post[q], id, c))
  <2> SUFFICES ASSUME NEW q \in Reached(p, by, deep) PROVE q \in Posts /\ Good(Kept(post[q], id, c))
    OBVIOUS
  <2>1. q \in Posts /\ Good(post[q]) BY ReadAccessAssumption, PostGood DEF Reached, Children
  <2> QED BY <1>2, <2>1, AskedIds, AccessedGood, WritableGood DEF Kept
<1>5. \A x \in Below(p, by, id, c, deep) : x \in Copy /\ Keeps(x.row) BY <1>4 DEF Below, Copy, Good
<1>6. t \in Falling BY <1>3, <1>5 DEF Falling, Good
<1>7. ProcessKeeps(t) BY <1>3, <1>5 DEF ProcessKeeps, OwnRow, Copies, Good
<1>8. Take(w, t) /\ requests > 0 /\ UNCHANGED tables BY <1>1 DEF EditFolder, Free
<1> HIDE DEF t
<1> QED BY <1>6, <1>7, <1>8, Start DEF Process

LEMMA MembersKeep ==
  ASSUME IInv, NEW w \in crew, ChangeMembership(w) \/ ChangeSubgroup(w)
  PROVE  IInv'
<1>1. role' \in [Groups -> [Users -> Roles]] BY TableTypes DEF ChangeMembership, ChangeSubgroup
<1>2. subs' \in [Subgroups -> SUBSET Users]
  BY TableTypes DEF ChangeMembership, ChangeSubgroup
<1>3. requests' \in 0..MaxRequests /\ UNCHANGED <<crew, offer, closed, post, moved, file, refs>>
      /\ proc' = [proc EXCEPT ![w] = Idle]
  BY TableTypes, ReadAccessAssumption DEF ChangeMembership, ChangeSubgroup, Take, Free
<1> QED BY <1>1, <1>2, <1>3, TableTypes, IdleGood, StateStep

LEMMA EditGroupKeeps == ASSUME IInv, NEW w \in crew, EditGroup(w) PROVE IInv'
<1>1. PICK g \in Groups, c \in BOOLEAN :
        LET open == {p \in Posts : /\ post[p] # NoPost /\ post[p].group = g
                                   /\ c /\ post[p].read \cap Open # {}}
        IN  Take(w, [at |-> "posts", group |-> g, closed |-> c,
                     rows |-> {[post |-> p, row |-> Shut(g, post[p])] : p \in open}])
  BY DEF EditGroup
<1> DEFINE open == {p \in Posts : /\ post[p] # NoPost /\ post[p].group = g
                                  /\ c /\ post[p].read \cap Open # {}}
           rows == {[post |-> p, row |-> Shut(g, post[p])] : p \in open}
           t == [at |-> "posts", group |-> g, closed |-> c, rows |-> rows]
<1>2. \A p \in open : Good(Shut(g, post[p])) BY PostGood, ShutGood
<1>3. \A x \in rows : x \in Copy /\ Keeps(x.row) BY <1>2 DEF Copy, Good
<1>4. Take(w, t) /\ requests > 0 /\ UNCHANGED tables BY <1>1 DEF EditGroup, Free
<1> HIDE DEF rows
<1>5. t \in Closing /\ ProcessKeeps(t) BY <1>3 DEF Closing, ProcessKeeps, OwnRow, Copies
<1> HIDE DEF t
<1> QED BY <1>4, <1>5, Start DEF Process

LEMMA CloseSiteKeeps == ASSUME IInv, NEW w \in crew, CloseSite(w) PROVE IInv'
<1> DEFINE open == {p \in Posts : /\ post[p] # NoPost
                                  /\ Everybody \in post[p].read \cup post[p].write}
           rows == {[post |-> p, row |-> Restricted(post[p])] : p \in open}
           t == [at |-> "posts", group |-> NoGroup, closed |-> TRUE, rows |-> rows]
<1>1. \A p \in open : Good(Restricted(post[p])) BY PostGood, RestrictedGood
<1>2. \A x \in rows : x \in Copy /\ Keeps(x.row) BY <1>1 DEF Copy, Good
<1>3. Take(w, t) /\ requests > 0 /\ UNCHANGED tables BY DEF CloseSite, Free
<1> HIDE DEF rows
<1>4. t \in Closing /\ ProcessKeeps(t) BY <1>2 DEF Closing, ProcessKeeps, OwnRow, Copies
<1> HIDE DEF t
<1> QED BY <1>3, <1>4, Start DEF Process

LEMMA ConfigureKeeps == ASSUME IInv, NEW w \in crew, Configure(w) PROVE IInv'
<1>1. PICK f \in Files, h \in {Settings, Personal} :
        /\ refs' = {r \in refs : h = Settings => r[2] # Settings} \cup {<<f, h>>}
        /\ Take(w, [at |-> "refresh", file |-> f, read |-> {}, then |-> Idle])
  BY DEF Configure
<1> DEFINE t == [at |-> "refresh", file |-> f, read |-> {}, then |-> Idle]
<1>2. refs' \subseteq Files \X Holders BY <1>1, TableTypes DEF Holders
<1>3. t \in Filing /\ ProcessKeeps(t) BY DEF Filing, ProcessKeeps, OwnRow, Copies
<1>4. proc' = [proc EXCEPT ![w] = t] /\ requests' \in 0..MaxRequests
      /\ UNCHANGED <<crew, offer, closed, role, subs, post, moved, file>>
  <2>1. requests > 0 /\ UNCHANGED <<closed, role, subs, post, moved, file>> BY DEF Configure, Free
  <2>2. requests' \in 0..MaxRequests BY <1>1, <2>1, TableTypes, ReadAccessAssumption DEF Take
  <2> QED BY <1>1, <2>1, <2>2 DEF Take
<1> HIDE DEF t
<1> QED BY <1>2, <1>3, <1>4, TableTypes, StateStep DEF Process

LEMMA StateGood ==
  ASSUME IInv, NEW w \in crew
  PROVE  w \in Workers /\ proc[w] \in Process /\ ProcessKeeps(proc[w])
BY TableTypes DEF IInv, TypeOK

LEMMA SaveKeeps == ASSUME IInv, NEW w \in crew, Save(w) PROVE IInv'
<1> DEFINE s == proc[w]
           t == [at |-> "look", post |-> s.post, shows |-> s.row.shows]
<1>1. s \in Storing /\ Keeps(s.row) BY StateGood, Shape DEF Save, ProcessKeeps, OwnRow
<1>2. post' = [post EXCEPT ![s.post] = s.row] /\ s.post \in Posts /\ s.row \in Row BY <1>1 DEF Save, Storing
<1>3. /\ post' \in [Posts -> Row \cup {NoPost}]
      /\ \A p \in Posts : post'[p] # NoPost => Keeps(post'[p])
  BY <1>1, <1>2, TableTypes
<1>4. moved' \subseteq Posts BY <1>2, TableTypes DEF Save
<1>5. t \in Looking /\ ProcessKeeps(t) BY <1>2 DEF Looking, Row, ProcessKeeps, OwnRow, Copies
<1>6. proc' = [proc EXCEPT ![w] = t] /\ UNCHANGED <<crew, offer, requests, closed, role, subs, file, refs>>
  BY DEF Save, Goto
<1> HIDE DEF t
<1> QED BY <1>3, <1>4, <1>5, <1>6, TableTypes, StateStep DEF Process

LEMMA SaveRowKeeps == ASSUME IInv, NEW w \in crew, SaveRow(w) PROVE IInv'
<1> DEFINE s == proc[w]
<1>1. PICK c \in s.rows : post' = [post EXCEPT ![c.post] = c.row]
                          /\ Goto(w, [s EXCEPT !.rows = @ \ {c}])
  BY DEF SaveRow
<1> DEFINE t == [s EXCEPT !.rows = @ \ {c}]
<1>2. s \in Falling \/ s \in Closing BY StateGood, Shape DEF SaveRow
<1>3. c \in Copy /\ Keeps(c.row) BY <1>2, StateGood DEF SaveRow, ProcessKeeps, Copies, Falling, Closing
<1>4. /\ post' \in [Posts -> Row \cup {NoPost}]
      /\ \A p \in Posts : post'[p] # NoPost => Keeps(post'[p])
  BY <1>1, <1>3, TableTypes DEF Copy
<1>5. t \in Falling \/ t \in Closing BY <1>2 DEF Falling, Closing
<1>6. t.rows \subseteq s.rows /\ t.at = s.at /\ (s.at \in {"below", "heirs"} => t.row = s.row)
  BY <1>2 DEF Falling, Closing
<1>7. ProcessKeeps(t) BY <1>6, StateGood DEF SaveRow, ProcessKeeps, OwnRow, Copies
<1>8. proc' = [proc EXCEPT ![w] = t]
      /\ UNCHANGED <<crew, offer, requests, closed, role, subs, moved, file, refs>>
  BY <1>1 DEF SaveRow, Goto
<1> HIDE DEF t
<1> QED BY <1>4, <1>5, <1>7, <1>8, TableTypes, StateStep DEF Process

LEMMA PassOnKeeps == ASSUME IInv, NEW w \in crew, PassOn(w) PROVE IInv'
<1> DEFINE s == proc[w]
           v == Saving(s.post, s.row, FALSE, s.set)
<1>1. s \in Falling /\ Good(s.row) BY StateGood, Shape DEF PassOn, ProcessKeeps, OwnRow, Good, Falling
<1>2. CASE s.to = "same"
  <2>1. v \in Process /\ ProcessKeeps(v) BY <1>1, SavingGood DEF Falling
  <2>2. UNCHANGED tables /\ Goto(w, v) BY <1>2 DEF PassOn
  <2> HIDE DEF v
  <2> QED BY <2>1, <2>2, Continue
<1>3. CASE s.to # "same"
  <2>1. PICK heirs \in Heirs(s.row, s.post) :
          Goto(w, [s EXCEPT !.at = "heirs", !.row = Given(@, s.to),
                     !.rows = {[post |-> q, row |-> Given(post[q], s.to)] : q \in heirs}])
    BY <1>3 DEF PassOn
  <2> DEFINE rows == {[post |-> q, row |-> Given(post[q], s.to)] : q \in heirs}
             t == [s EXCEPT !.at = "heirs", !.row = Given(@, s.to), !.rows = rows]
  <2>2. s.to \in Users /\ s.post \in Posts BY <1>1, <1>3 DEF Falling
  <2>3. \A q \in heirs : q \in Posts /\ post[q] # NoPost BY <2>2, ReadAccessAssumption DEF Heirs, Children
  <2>4. \A q \in heirs : q \in Posts /\ Good(Given(post[q], s.to)) BY <2>2, <2>3, PostGood, GivenGood
  <2>5. \A c \in rows : c \in Copy /\ Keeps(c.row) BY <2>4 DEF Copy, Good
  <2> HIDE DEF rows
  <2>6. Good(Given(s.row, s.to)) BY <1>1, <2>2, GivenGood
  <2>7. t \in Falling /\ t.at = "heirs" /\ t.row = Given(s.row, s.to) /\ t.rows = rows
    BY <1>1, <2>5, <2>6 DEF Falling, Good
  <2>8. ProcessKeeps(t) BY <2>5, <2>6, <2>7 DEF ProcessKeeps, OwnRow, Copies, Good
  <2>9. UNCHANGED tables /\ Goto(w, t) BY <2>1 DEF PassOn, rows
  <2> HIDE DEF t
  <2> QED BY <2>7, <2>8, <2>9, Continue DEF Process
<1> QED BY <1>2, <1>3

LEMMA PassedOnKeeps == ASSUME IInv, NEW w \in crew, PassedOn(w) PROVE IInv'
<1> DEFINE s == proc[w]
           v == Saving(s.post, s.row, FALSE, s.set)
<1>1. s \in Falling /\ Good(s.row) BY StateGood, Shape DEF PassedOn, ProcessKeeps, OwnRow, Good, Falling
<1>2. v \in Process /\ ProcessKeeps(v) BY <1>1, SavingGood DEF Falling
<1>3. UNCHANGED tables /\ Goto(w, v) BY DEF PassedOn
<1> HIDE DEF v
<1> QED BY <1>2, <1>3, Continue

LEMMA SaveGroupKeeps == ASSUME IInv, NEW w \in crew, SaveGroup(w) PROVE IInv'
<1>1. proc[w] \in Closing BY StateGood, Shape DEF SaveGroup
<1>2. closed' \in [Groups -> BOOLEAN] BY <1>1, TableTypes DEF SaveGroup, Closing
<1>3. proc' = [proc EXCEPT ![w] = Idle]
      /\ UNCHANGED <<crew, offer, requests, role, subs, post, moved, file, refs>>
  BY DEF SaveGroup, Goto
<1> QED BY <1>2, <1>3, TableTypes, IdleGood, StateStep

LEMMA LookUpKeeps == ASSUME IInv, NEW w \in crew, LookUp(w) PROVE IInv'
<1> DEFINE s == proc[w]
           t == [at |-> "links", post |-> s.post, new |-> s.shows \ Current(s.post),
                 old |-> Current(s.post) \ s.shows]
<1>1. s \in Looking BY StateGood, Shape DEF LookUp
<1>2. t \in Linking /\ ProcessKeeps(t) BY <1>1 DEF Looking, Linking, Current, ProcessKeeps, OwnRow, Copies
<1>3. UNCHANGED tables /\ Goto(w, t) BY DEF LookUp
<1> HIDE DEF t
<1> QED BY <1>2, <1>3, Continue DEF Process

LEMMA LinkKeeps == ASSUME IInv, NEW w \in crew, Link(w) PROVE IInv'
<1> DEFINE s == proc[w]
<1>1. PICK f \in s.new \cup s.old :
        /\ refs' = IF f \in s.new THEN refs \cup {<<f, s.post>>} ELSE refs \ {<<f, s.post>>}
        /\ Goto(w, [at |-> "refresh", file |-> f, read |-> {},
                    then |-> [s EXCEPT !.new = @ \ {f}, !.old = @ \ {f}]])
  BY DEF Link
<1> DEFINE t == [at |-> "refresh", file |-> f, read |-> {},
                 then |-> [s EXCEPT !.new = @ \ {f}, !.old = @ \ {f}]]
<1>2. s \in Linking BY StateGood, Shape DEF Link
<1>3. f \in Files /\ s.post \in Posts /\ t.then \in Linking BY <1>2 DEF Linking
<1>4. refs' \subseteq Files \X Holders BY <1>1, <1>3, TableTypes DEF Holders
<1>5. t \in Filing /\ ProcessKeeps(t) BY <1>3 DEF Filing, ProcessKeeps, OwnRow, Copies
<1>6. proc' = [proc EXCEPT ![w] = t]
      /\ UNCHANGED <<crew, offer, requests, closed, role, subs, post, moved, file>>
  BY <1>1 DEF Link, Goto
<1> HIDE DEF t
<1> QED BY <1>4, <1>5, <1>6, TableTypes, StateStep DEF Process

LEMMA LinkedKeeps == ASSUME IInv, NEW w \in crew, Linked(w) PROVE IInv'
BY IdleGood, Continue DEF Linked

LEMMA DerivedType ==
  ASSUME IInv, NEW f \in Files
  PROVE  Derived(f, refs) \subseteq Tokens
BY TableTypes, ReadAccessAssumption DEF Row, Tokens, Open, ReadersOf, Derived

LEMMA RefreshKeeps == ASSUME IInv, NEW w \in crew, Refresh(w) PROVE IInv'
<1> DEFINE s == proc[w]
           t == [s EXCEPT !.at = "file", !.read = Derived(s.file, refs)]
<1>1. s \in Filing BY StateGood, Shape DEF Refresh
<1>2. Derived(s.file, refs) \subseteq Tokens BY <1>1, DerivedType DEF Filing
<1>3. t \in Filing /\ t.at = "file" BY <1>1, <1>2 DEF Filing
<1>4. ProcessKeeps(t) BY <1>3 DEF ProcessKeeps, OwnRow, Copies
<1>5. s.then \in Process /\ ProcessKeeps(s.then)
  BY <1>1, IdleGood DEF Filing, Process, Linking, ProcessKeeps, OwnRow, Copies
<1>6. UNCHANGED tables /\ (Goto(w, s.then) \/ Goto(w, t)) BY DEF Refresh
<1> HIDE DEF t
<1> QED BY <1>3, <1>4, <1>5, <1>6, Continue DEF Process

LEMMA SaveFileKeeps == ASSUME IInv, NEW w \in crew, SaveFile(w) PROVE IInv'
<1> DEFINE s == proc[w]
<1>1. s \in Filing BY StateGood, Shape DEF SaveFile
<1>2. file' \in [Files -> SUBSET Tokens] BY <1>1, TableTypes DEF SaveFile, Filing
<1>3. s.then \in Process /\ ProcessKeeps(s.then)
  BY <1>1, IdleGood DEF Filing, Process, Linking, ProcessKeeps, OwnRow, Copies
<1>4. proc' = [proc EXCEPT ![w] = s.then]
      /\ UNCHANGED <<crew, offer, requests, closed, role, subs, post, moved, refs>>
  BY DEF SaveFile, Goto
<1> QED BY <1>2, <1>3, <1>4, TableTypes, StateStep

LEMMA StepKeeps == IInv /\ [Next]_vars => IInv'
<1> SUFFICES ASSUME IInv, [Next]_vars PROVE IInv' OBVIOUS
<1>1. CASE UNCHANGED vars BY <1>1 DEF vars, IInv, TypeOK, OwnerReads, Exists, ProcessKeeps, OwnRow, Copies
<1>2. ASSUME NEW w \in crew, Request(w) PROVE IInv'
  BY <1>2, AddPostKeeps, EditPostKeeps, DeletePostKeeps, EditFolderKeeps, MembersKeep,
     EditGroupKeeps, CloseSiteKeeps, ConfigureKeeps DEF Request
<1>3. ASSUME NEW w \in crew, Proceed(w) PROVE IInv'
  BY <1>3, SaveKeeps, SaveRowKeeps, PassOnKeeps, PassedOnKeeps, SaveGroupKeeps, LookUpKeeps,
     LinkKeeps, LinkedKeeps, RefreshKeeps, SaveFileKeeps DEF Proceed
<1> QED BY <1>1, <1>2, <1>3 DEF Next

(***************************************************************************)
(* The theorems.                                                           *)
(***************************************************************************)
\* Rows, tokens, references and what the workers carry keep their types.
THEOREM TypeCorrect == Spec => []TypeOK
<1>1. IInv => TypeOK BY DEF IInv
<1> QED BY <1>1, InitHolds, StepKeeps, PTL DEF Spec

\* Whoever owns a post may read and change it, with any number of processes and
\* whichever copies of rows they write back late.
THEOREM OwnerAlwaysReads == Spec => []OwnerReads
<1>1. IInv => OwnerReads BY DEF IInv
<1> QED BY <1>1, InitHolds, StepKeeps, PTL DEF Spec

(***************************************************************************)
(* Closing a group.                                                        *)
(***************************************************************************)
Shutting(s, g) == s.at = "posts" /\ s.group = g /\ s.closed
Hidden(r) == r.read \cap Open = {}

\* While a group is closed, each of its posts is hidden already or is on the list
\* of rows to be saved; these rows are hidden.
Covered(w) ==
  \A g \in Groups : Shutting(proc[w], g) =>
    /\ \A c \in proc[w].rows : Hidden(c.row)
    /\ \A p \in Posts : Exists(p) /\ post[p].group = g =>
         Hidden(post[p]) \/ \E c \in proc[w].rows : c.post = p

ClosingInv == IInv /\ (Alone => \A w \in crew : Covered(w))

\* One process is alone.
LEMMA AloneOne ==
  ASSUME IInv, Alone, NEW v \in crew, NEW w \in crew
  PROVE  v = w
BY ReadAccessAssumption, FS_Subset, FS_Singleton DEF IInv, TypeOK, Alone

LEMMA ShutHides ==
  ASSUME NEW r, Good(r), NEW g \in Groups
  PROVE  Hidden(Shut(g, r))
BY ReadAccessAssumption DEF Good, Hidden, Shut, Row

\* A process that is not at a group's posts covers whatever there is.
LEMMA NotShutting ==
  ASSUME NEW w, proc'[w].at # "posts"
  PROVE  Covered(w)'
BY DEF Covered, Shutting

\* Every step of w but those of closing leads elsewhere.
LEMMA Elsewhere ==
  ASSUME IInv, NEW w \in crew, Request(w) \/ Proceed(w),
         ~EditGroup(w), ~CloseSite(w), ~SaveRow(w)
  PROVE  proc'[w].at # "posts"
<1>0. proc \in [Workers -> Process] /\ w \in Workers BY StateGood DEF IInv, TypeOK
<1>2. CASE \/ AddPost(w) \/ EditPost(w) \/ DeletePost(w) \/ EditFolder(w)
           \/ ChangeMembership(w) \/ ChangeSubgroup(w) \/ Configure(w)
           \/ Save(w) \/ LookUp(w) \/ Link(w) \/ Linked(w) \/ SaveGroup(w) \/ PassedOn(w)
  <2>1. CASE AddPost(w) \/ EditPost(w)
    <3>1. PICK p, r, into, set : Take(w, Saving(p, r, into, set))
      <4>1. CASE AddPost(w) BY <4>1 DEF AddPost
      <4>2. CASE EditPost(w) BY <4>2 DEF EditPost
      <4> QED BY <2>1, <4>1, <4>2
    <3> QED BY <1>0, <3>1 DEF Take, Saving
  <2>2. CASE PassedOn(w)
    BY <2>2, <1>0 DEF PassedOn, Goto, Saving
  <2>3. CASE EditFolder(w)
    BY <2>3, <1>0 DEF EditFolder, Take
  <2>4. CASE DeletePost(w) \/ ChangeMembership(w) \/ ChangeSubgroup(w) \/ SaveGroup(w) \/ Linked(w)
    <3>1. Take(w, Idle) \/ Goto(w, Idle) BY <2>4 DEF DeletePost, ChangeMembership, ChangeSubgroup, SaveGroup, Linked
    <3> QED BY <1>0, <3>1 DEF Take, Goto, Idle
  <2>5. CASE Configure(w)
    BY <2>5, <1>0 DEF Configure, Take
  <2>6. CASE Link(w)
    BY <2>6, <1>0 DEF Link, Goto
  <2>7. CASE Save(w) BY <1>0, <2>7 DEF Save, Goto
  <2>8. CASE LookUp(w) BY <1>0, <2>8 DEF LookUp, Goto
  <2> QED BY <1>2, <2>1, <2>2, <2>3, <2>4, <2>5, <2>6, <2>7, <2>8
<1>3. CASE PassOn(w)
  <2>1. proc[w] \in Falling BY <1>3, StateGood, Shape DEF PassOn
  <2>2. proc'[w].at = "save" \/ proc'[w].at = "heirs"
    <3>1. CASE proc[w].to = "same" BY <1>0, <1>3, <3>1 DEF PassOn, Goto, Saving
    <3>2. CASE proc[w].to # "same" BY <1>0, <1>3, <2>1, <3>2, ZenonT(30) DEF PassOn, Goto, Falling
    <3> QED BY <3>1, <3>2
  <2> QED BY <2>2
<1>4. CASE Refresh(w) \/ SaveFile(w)
  <2>1. proc[w] \in Filing BY <1>4, StateGood, Shape DEF Refresh, SaveFile
  <2>2. proc[w].then.at # "posts" BY <2>1 DEF Filing, Linking, Idle
  <2> QED BY <1>0, <1>4, <2>1, <2>2 DEF Refresh, SaveFile, Goto, Filing
<1> QED BY <1>2, <1>3, <1>4 DEF Request, Proceed

LEMMA Steady ==
  ASSUME NEW w, Request(w) \/ Proceed(w)
  PROVE  crew' = crew
<1>1. CASE AddPost(w) BY <1>1 DEF AddPost, Take, Goto
<1>2. CASE EditPost(w) BY <1>2 DEF EditPost, Take, Goto
<1>3. CASE DeletePost(w) BY <1>3 DEF DeletePost, Take, Goto
<1>4. CASE EditFolder(w) BY <1>4 DEF EditFolder, Take, Goto
<1>5. CASE ChangeMembership(w) BY <1>5 DEF ChangeMembership, Take, Goto
<1>6. CASE ChangeSubgroup(w) BY <1>6 DEF ChangeSubgroup, Take, Goto
<1>7. CASE EditGroup(w) BY <1>7 DEF EditGroup, Take, Goto
<1>8. CASE CloseSite(w) BY <1>8 DEF CloseSite, Take, Goto
<1>9. CASE Configure(w) BY <1>9 DEF Configure, Take, Goto
<1>10. CASE Save(w) BY <1>10 DEF Save, Take, Goto
<1>11. CASE SaveRow(w) BY <1>11 DEF SaveRow, Take, Goto
<1>12. CASE PassOn(w) BY <1>12 DEF PassOn, Take, Goto
<1>13. CASE PassedOn(w) BY <1>13 DEF PassedOn, Take, Goto
<1>14. CASE SaveGroup(w) BY <1>14 DEF SaveGroup, Take, Goto
<1>15. CASE LookUp(w) BY <1>15 DEF LookUp, Take, Goto
<1>16. CASE Link(w) BY <1>16 DEF Link, Take, Goto
<1>17. CASE Linked(w) BY <1>17 DEF Linked, Take, Goto
<1>18. CASE Refresh(w) BY <1>18 DEF Refresh, Take, Goto
<1>19. CASE SaveFile(w) BY <1>19 DEF SaveFile, Take, Goto
<1> QED
  BY <1>1, <1>2, <1>3, <1>4, <1>5, <1>6, <1>7, <1>8, <1>9, <1>10, <1>11, <1>12, <1>13, <1>14, <1>15, <1>16, <1>17, <1>18, <1>19
     DEF Request, Proceed

LEMMA ClosingStep == ClosingInv /\ [Next]_vars => ClosingInv'
<1> SUFFICES ASSUME ClosingInv, [Next]_vars, Alone' PROVE \A w \in crew' : Covered(w)'
  BY StepKeeps DEF ClosingInv
<1>1. CASE UNCHANGED vars BY <1>1 DEF vars, ClosingInv, Alone, Covered, Shutting, Exists
<1>2. ASSUME NEW w \in crew, Request(w) \/ Proceed(w) PROVE \A v \in crew' : Covered(v)'
  <2>0. crew' = crew BY <1>2, Steady
  <2>1. Alone /\ IInv /\ Covered(w) /\ \A v \in crew : v = w BY <2>0, AloneOne DEF ClosingInv, Alone
  <2>2. w \in Workers /\ proc \in [Workers -> Process] /\ proc[w] \in Process BY <2>1, StateGood DEF IInv, TypeOK
  <2>3. CASE ~EditGroup(w) /\ ~CloseSite(w) /\ ~SaveRow(w) BY <1>2, <2>0, <2>1, <2>3, Elsewhere, NotShutting
  <2>4. CASE CloseSite(w)
    <3>1. proc'[w].group = NoGroup BY <2>2, <2>4 DEF CloseSite, Take
    <3> QED BY <2>0, <2>1, <3>1, ReadAccessAssumption DEF Covered, Shutting
  <2>5. CASE EditGroup(w)
    <3>1. PICK g \in Groups, c \in BOOLEAN :
            LET open == {p \in Posts : /\ post[p] # NoPost /\ post[p].group = g
                                       /\ c /\ post[p].read \cap Open # {}}
            IN  Take(w, [at |-> "posts", group |-> g, closed |-> c,
                         rows |-> {[post |-> p, row |-> Shut(g, post[p])] : p \in open}])
      BY <2>5 DEF EditGroup
    <3> DEFINE open == {p \in Posts : /\ post[p] # NoPost /\ post[p].group = g
                                      /\ c /\ post[p].read \cap Open # {}}
               rows == {[post |-> p, row |-> Shut(g, post[p])] : p \in open}
    <3>2. proc'[w] = [at |-> "posts", group |-> g, closed |-> c, rows |-> rows] BY <2>2, <3>1 DEF Take
    <3>3. \A x \in rows : Hidden(x.row) BY <2>1, PostGood, ShutHides
    <3>4. UNCHANGED post BY <2>5 DEF EditGroup, tables
    <3>5. c => \A p \in Posts : Exists(p) /\ post[p].group = g =>
                 Hidden(post[p]) \/ \E x \in rows : x.post = p
      <4> SUFFICES ASSUME c, NEW p \in Posts, Exists(p), post[p].group = g, ~Hidden(post[p])
                   PROVE  \E x \in rows : x.post = p
        OBVIOUS
      <4>1. p \in open BY DEF Exists, Hidden
      <4>2. [post |-> p, row |-> Shut(g, post[p])] \in rows BY <4>1
      <4> QED BY <4>2
    <3> HIDE DEF rows
    <3>6. Covered(w)' BY <3>2, <3>3, <3>4, <3>5 DEF Covered, Shutting, Exists
    <3> QED BY <2>0, <2>1, <3>6
  <2>6. CASE SaveRow(w)
    <3> DEFINE s == proc[w]
    <3>1. PICK c \in s.rows : post' = [post EXCEPT ![c.post] = c.row]
                              /\ Goto(w, [s EXCEPT !.rows = @ \ {c}])
      BY <2>6 DEF SaveRow
    <3>2. s \in Falling \/ s \in Closing BY <2>1, <2>6, StateGood, Shape DEF SaveRow
    <3>3. c \in Copy BY <3>1, <3>2 DEF Falling, Closing
    <3>4. proc'[w] = [s EXCEPT !.rows = @ \ {c}] BY <2>2, <3>1 DEF Goto
    <3>5. /\ proc'[w].rows = s.rows \ {c} /\ proc'[w].at = s.at
          /\ s.at = "posts" => s \in Closing /\ proc'[w].group = s.group /\ proc'[w].closed = s.closed
      BY <3>2, <3>4 DEF Falling, Closing
    <3>6. post'[c.post] = c.row /\ \A p \in Posts : p # c.post => post'[p] = post[p]
      BY <2>1, <3>1, <3>3, TableTypes DEF Copy
    <3>7. Covered(w)'
      <4> SUFFICES ASSUME NEW g \in Groups, Shutting(s, g)
                   PROVE  /\ \A x \in proc'[w].rows : Hidden(x.row)
                          /\ \A p \in Posts : Exists(p)' /\ post'[p].group = g =>
                               Hidden(post'[p]) \/ \E x \in proc'[w].rows : x.post = p
        BY <3>5 DEF Covered, Shutting
      <4>1. /\ \A x \in s.rows : Hidden(x.row)
            /\ \A p \in Posts : Exists(p) /\ post[p].group = g =>
                 Hidden(post[p]) \/ \E x \in s.rows : x.post = p
        BY <2>1 DEF Covered
      <4>2. ASSUME NEW p \in Posts, Exists(p)', post'[p].group = g
            PROVE  Hidden(post'[p]) \/ \E x \in proc'[w].rows : x.post = p
        BY <3>1, <3>6, <4>1, <3>5, <4>2 DEF Exists
      <4> QED BY <3>5, <4>1, <4>2
    <3> QED BY <2>0, <2>1, <3>7
  <2> QED BY <2>3, <2>4, <2>5, <2>6
<1> QED BY <1>1, <1>2 DEF Next

LEMMA Unmoved ==
  ASSUME IInv, NEW v \in crew, Request(v) \/ Proceed(v), NEW w \in Workers, w # v
  PROVE  proc'[w] = proc[w]
<1>1. proc \in [Workers -> Process] BY DEF IInv, TypeOK
<1>2. (\E t : Take(v, t)) \/ (\E t : Goto(v, t))
  <2>1. CASE AddPost(v) BY <2>1 DEF AddPost
  <2>2. CASE EditPost(v) BY <2>2 DEF EditPost
  <2>3. CASE DeletePost(v) BY <2>3 DEF DeletePost
  <2>4. CASE EditFolder(v) BY <2>4 DEF EditFolder
  <2>5. CASE ChangeMembership(v) BY <2>5 DEF ChangeMembership
  <2>6. CASE ChangeSubgroup(v) BY <2>6 DEF ChangeSubgroup
  <2>7. CASE EditGroup(v) BY <2>7 DEF EditGroup
  <2>8. CASE CloseSite(v) BY <2>8 DEF CloseSite
  <2>9. CASE Configure(v) BY <2>9 DEF Configure
  <2>10. CASE Save(v) BY <2>10 DEF Save
  <2>11. CASE SaveRow(v) BY <2>11 DEF SaveRow
  <2>12. CASE PassOn(v) BY <2>12 DEF PassOn
  <2>13. CASE PassedOn(v) BY <2>13 DEF PassedOn
  <2>14. CASE SaveGroup(v) BY <2>14 DEF SaveGroup
  <2>15. CASE LookUp(v) BY <2>15 DEF LookUp
  <2>16. CASE Link(v) BY <2>16 DEF Link
  <2>17. CASE Linked(v) BY <2>17 DEF Linked
  <2>18. CASE Refresh(v) BY <2>18 DEF Refresh
  <2>19. CASE SaveFile(v) BY <2>19 DEF SaveFile
  <2> QED
    BY <2>1, <2>2, <2>3, <2>4, <2>5, <2>6, <2>7, <2>8, <2>9, <2>10, <2>11, <2>12, <2>13, <2>14, <2>15, <2>16, <2>17, <2>18, <2>19
       DEF Request, Proceed
<1> QED BY <1>1, <1>2 DEF Take, Goto

\* What a process at the posts of a group does.
LEMMA AtPosts ==
  ASSUME NEW w, proc[w].at = "posts", Request(w) \/ Proceed(w)
  PROVE  SaveRow(w) \/ SaveGroup(w)
<1>1. ~Request(w)
  <2>1. proc[w] # Idle BY DEF Idle
  <2> QED
    BY <2>1 DEF Request, AddPost, EditPost, DeletePost, EditFolder, ChangeMembership, ChangeSubgroup,
       EditGroup, CloseSite, Configure, Free
<1>2. ~(\/ Save(w) \/ PassOn(w) \/ PassedOn(w) \/ LookUp(w) \/ Link(w) \/ Linked(w)
        \/ Refresh(w) \/ SaveFile(w))
  BY DEF Save, PassOn, PassedOn, LookUp, Link, Linked, Refresh, SaveFile
<1> QED BY <1>1, <1>2 DEF Proceed

\* Closing a group ends with all its posts hidden, for any number of posts and
\* whatever was in the rows before, when one process serves the requests.  Two
\* of them could add an open post behind the list.
THEOREM ClosingHidesAlone == Spec => ClosingHides
<1>1. Init => ClosingInv
  BY InitHolds, StateGood DEF ClosingInv, Init, Idle, Covered, Shutting
<1>2. ClosingInv /\ [Next]_vars => ClosingInv' BY ClosingStep
<1>3. ClosingInv /\ [Next]_vars =>
        [Alone => \A w \in Workers, g \in Groups :
           closed'[g] /\ proc[w] # Idle /\ proc[w].at = "posts" /\ proc[w].group = g /\ proc'[w] = Idle =>
             \A p \in Posts : Exists(p) /\ post[p].group = g => post[p].read \cap Open = {}]_vars
  <2> SUFFICES ASSUME ClosingInv, Next, Alone, NEW w \in Workers, NEW g \in Groups,
                      closed'[g], proc[w].at = "posts", proc[w].group = g, proc'[w] = Idle
               PROVE  \A p \in Posts : Exists(p) /\ post[p].group = g => post[p].read \cap Open = {}
    OBVIOUS
  <2>1. PICK v \in crew : Request(v) \/ Proceed(v) BY DEF Next
  <2>2. proc \in [Workers -> Process] /\ v \in Workers /\ IInv BY StateGood DEF ClosingInv, IInv, TypeOK
  <2>3. v = w BY <2>1, <2>2, Unmoved DEF Idle
  <2>4. SaveGroup(w)
    <3>1. CASE SaveRow(w)
      <4>1. proc[w] \in Falling \/ proc[w] \in Closing BY <2>2, <2>3, <3>1, StateGood, Shape DEF SaveRow
      <4>2. proc'[w].at # "idle" BY <2>2, <2>3, <3>1, <4>1 DEF SaveRow, Goto, Falling, Closing
      <4> QED BY <4>2 DEF Idle
    <3> QED BY <2>1, <2>3, <3>1, AtPosts
  <2>5. Shutting(proc[w], g) /\ proc[w].rows = {}
    BY <2>2, <2>4, TableTypes, ReadAccessAssumption DEF SaveGroup, Shutting
  <2> QED BY <2>3, <2>5 DEF ClosingInv, Covered, Hidden
<1> QED BY <1>1, <1>2, <1>3, PTL DEF Spec, ClosingHides

(***************************************************************************)
(* Lists, forms and files.                                                 *)
(***************************************************************************)
\* The tokens of a row are those of one access id, for its owner and its group
\* as they are; cl says which groups are closed.
Fit(r, cl) ==
  \E id \in AccessIds : r.read = Acl(r.owner, r.group, r.group \in Groups /\ cl[r.group], id)

\* So are those of a row on its way back, unless the post was moved, or is being
\* moved, and its access is not set again.
Due(p, set, r, m, cl) == Fit(r, cl) \/ (p \in m /\ ~set)
Carries(s, m, cl) ==
  /\ s.at = "save" => s.into \/ Due(s.post, s.set, s.row, m, cl)
  /\ s.at \in {"below", "heirs"} => Due(s.post, s.set, s.row, m, cl)
  /\ s.at \in {"below", "heirs", "posts"} => \A c \in s.rows : c.post \in m \/ Fit(c.row, cl)
AclInv == /\ \A p \in Posts \ moved : post[p] # NoPost => Fit(post[p], closed)
          /\ \A w \in crew : Carries(proc[w], moved, closed)

\* The logo is for everybody, or a process is about to make it so; the tokens it
\* holds for the file do.
Publishing(s, f) == s.at \in {"refresh", "file"} /\ s.file = f
LogoInv ==
  /\ \A f \in Files : <<f, Settings>> \in refs =>
       Everybody \in file[f] \/ \E w \in crew : Publishing(proc[w], f)
  /\ \A w \in crew : proc[w].at = "file" /\ <<proc[w].file, Settings>> \in refs => Everybody \in proc[w].read

SoundInv == ClosingInv /\ (Alone => AclInv /\ LogoInv)

LEMMA AccessedFits ==
  ASSUME NEW r, Good(r), NEW id \in Ids, Fit(r, closed) \/ id # "same"
  PROVE  Fit(Accessed(r, id), closed)
<1>1. CASE id = "same" BY <1>1 DEF Accessed
<1>2. CASE id # "same"
  <2>1. id \in AccessIds /\ r \in Row BY <1>2 DEF Ids, Good
  <2> DEFINE acl == Acl(r.owner, r.group, IsClosed(r.group), id)
  <2>2. Accessed(r, id) = [r EXCEPT !.read = acl] BY <1>2 DEF Accessed
  <2>3. /\ Accessed(r, id).read = acl
        /\ Accessed(r, id).owner = r.owner /\ Accessed(r, id).group = r.group
    BY <2>1, <2>2 DEF Row
  <2> QED BY <2>1, <2>3 DEF Fit, IsClosed
<1> QED BY <1>1, <1>2

\* The access to write does not touch that to read.
LEMMA WritableFits ==
  ASSUME NEW r, Good(r), NEW id \in Ids, Fit(r, closed)
  PROVE  Fit(Writable(r, id), closed)
BY WritableGood DEF Fit, IsClosed

\* Nobody is a token of more than himself.
LEMMA GrantedOthers ==
  ASSUME NEW g \in Groups \cup {NoGroup}, NEW c \in BOOLEAN, NEW id \in AccessIds
  PROVE  /\ Grant(g, c, id) \cap Users = {}
         /\ Grant(g, c, id) \cap Groups \subseteq {g}
BY ReadAccessAssumption DEF Grant, AccessIds, Open, LoggedIn, Everybody

LEMMA OwnedFits ==
  ASSUME NEW r, Good(r), NEW u \in Users, NEW cl \in [Groups -> BOOLEAN], Fit(r, cl)
  PROVE  Fit(Owned(r, u), cl)
<1>1. /\ r \in Row /\ r.owner \in r.read
      /\ r.owner \in Users /\ r.group \in Groups \cup {NoGroup}
  BY DEF Good, Keeps, Row
<1> DEFINE c == r.group \in Groups /\ cl[r.group]
<1>2. PICK id \in AccessIds : r.read = {r.owner} \cup Grant(r.group, c, id) BY DEF Fit, Acl
<1>3. r.owner \notin Grant(r.group, c, id) BY <1>1, GrantedOthers
<1>4. /\ Owned(r, u).owner = u /\ Owned(r, u).group = r.group
      /\ Owned(r, u).read = (r.read \ {r.owner}) \cup {u}
  BY <1>1 DEF Owned, Row
<1>5. Owned(r, u).read = Acl(u, r.group, c, id) BY <1>2, <1>3, <1>4 DEF Acl
<1> QED BY <1>4, <1>5 DEF Fit

LEMMA GivenFits ==
  ASSUME NEW r, Good(r), NEW u \in Users, NEW cl
  PROVE  Fit(Given(r, u), cl)
<1>1. r \in Row /\ r.owner \in r.read BY DEF Good, Keeps
<1>2. Given(r, u).owner = u /\ Given(r, u).group = r.group /\ Given(r, u).read = {u} BY <1>1 DEF Given, Row
<1>3. "private" \in AccessIds /\ \A g, c : Grant(g, c, "private") = {}
  BY ReadAccessAssumption DEF AccessIds, Grant, Open, LoggedIn, Everybody
<1> QED BY <1>2, <1>3 DEF Fit, Acl

LEMMA ShutFits ==
  ASSUME NEW r, Good(r), r.group \in Groups, r.read \cap Open # {},
         NEW cl \in [Groups -> BOOLEAN], Fit(r, cl)
  PROVE  Fit(Shut(r.group, r), cl)
<1>1. r \in Row /\ r.owner \in Users /\ r.group \notin Open /\ r.owner \notin Open
  BY ReadAccessAssumption DEF Good, Row
<1>2. PICK id \in AccessIds : r.read = {r.owner} \cup Grant(r.group, cl[r.group], id) BY DEF Fit, Acl
<1>3. id \in Open /\ Grant(r.group, cl[r.group], id) = {id}
  BY <1>1, <1>2, ReadAccessAssumption DEF Grant, AccessIds, Open, LoggedIn, Everybody
<1>4. Shut(r.group, r).read = {r.owner, r.group} BY <1>1, <1>2, <1>3 DEF Shut, Row
<1>5. Shut(r.group, r).owner = r.owner /\ Shut(r.group, r).group = r.group BY <1>1 DEF Shut, Row
<1>6. "group" \in AccessIds /\ Grant(r.group, cl[r.group], "group") = {r.group}
  BY ReadAccessAssumption DEF AccessIds, Grant
<1> QED BY <1>4, <1>5, <1>6 DEF Fit, Acl

LEMMA RestrictedFits ==
  ASSUME NEW r, Good(r), NEW cl \in [Groups -> BOOLEAN], Fit(r, cl)
  PROVE  Fit(Restricted(r), cl)
<1>1. /\ r \in Row /\ r.owner \in Users /\ r.group \in Groups \cup {NoGroup}
      /\ r.owner # Everybody
  BY ReadAccessAssumption DEF Good, Row, Open
<1> DEFINE c == r.group \in Groups /\ cl[r.group]
<1>2. PICK id \in AccessIds : r.read = {r.owner} \cup Grant(r.group, c, id) BY DEF Fit, Acl
<1>3. /\ Restricted(r).owner = r.owner /\ Restricted(r).group = r.group
      /\ Restricted(r).read = IF Everybody \in r.read THEN (r.read \ {Everybody}) \cup {LoggedIn} ELSE r.read
  BY <1>1 DEF Restricted, Row
<1>4. CASE Everybody \in r.read
  <2>1. Grant(r.group, c, id) = {Everybody} /\ ~c
    BY <1>1, <1>2, <1>4, ReadAccessAssumption DEF Grant, AccessIds, Open, LoggedIn, Everybody
  <2>2. Restricted(r).read = {r.owner} \cup {LoggedIn} BY <1>1, <1>2, <1>3, <1>4, <2>1
  <2>3. LoggedIn \in AccessIds /\ Grant(r.group, c, LoggedIn) = {LoggedIn}
    BY <2>1, ReadAccessAssumption DEF AccessIds, Grant, Open, LoggedIn
  <2> QED BY <1>3, <2>2, <2>3 DEF Fit, Acl
<1>5. CASE Everybody \notin r.read BY <1>3, <1>5 DEF Fit
<1> QED BY <1>4, <1>5

LEMMA ShownFits ==
  ASSUME NEW r, Good(r), NEW g, g = r.group, NEW shows, NEW cl, Fit(r, cl)
  PROVE  Fit([r EXCEPT !.group = g, !.shows = shows], cl)
BY DEF Good, Row, Fit

\* A group opens, or closes over hidden rows.
LEMMA FlippedFits ==
  ASSUME NEW r, Good(r), NEW g \in Groups, NEW cl \in [Groups -> BOOLEAN], NEW c \in BOOLEAN,
         Fit(r, cl), r.group = g /\ c => Hidden(r)
  PROVE  Fit(r, [cl EXCEPT ![g] = c])
<1> DEFINE new == [cl EXCEPT ![g] = c]
<1>1. CASE r.group # g
  BY <1>1 DEF Fit
<1>2. CASE r.group = g
  <2>1. new[g] = c OBVIOUS
  <2>2. PICK id \in AccessIds : r.read = {r.owner} \cup Grant(g, cl[g], id) BY <1>2 DEF Fit, Acl
  <2>3. \E other \in AccessIds : Grant(g, c, other) = Grant(g, cl[g], id)
    <3>1. CASE id \notin Open \/ cl[g] = c BY <3>1 DEF Grant
    <3>2. CASE id \in Open /\ cl[g] # c
      <4>1. c => Grant(g, cl[g], id) = {id} BY <3>2, ReadAccessAssumption DEF Grant, Open, LoggedIn, Everybody
      <4>2. ~c BY <1>2, <2>2, <3>2, <4>1 DEF Hidden
      <4>3. Grant(g, cl[g], id) = {g} \ {NoGroup} /\ Grant(g, c, "group") = {g} \ {NoGroup} BY <3>2, <4>2 DEF Grant
      <4> QED BY <4>3 DEF AccessIds
    <3> QED BY <3>1, <3>2
  <2>4. PICK other \in AccessIds : Grant(g, c, other) = Grant(g, cl[g], id) BY <2>3
  <2>5. r.read = Acl(r.owner, r.group, r.group \in Groups /\ new[r.group], other) BY <1>2, <2>1, <2>2, <2>4 DEF Acl
  <2> QED BY <2>5 DEF Fit
<1> QED BY <1>1, <1>2

(***************************************************************************)
(* What a row with such tokens shows.                                      *)
(***************************************************************************)
LEMMA FitShown ==
  ASSUME IInv, NEW r, Good(r), Fit(r, closed), NEW u \in Users \cup {Visitor}, Listed(u, r)
  PROVE  \/ CanRead(u, r)
         \/ r.owner = u
         \/ \E s \in Subgroups : s \in r.read /\ u \in subs[s]
<1>1. CASE u \in Admins \/ ~IsClosed(r.group) BY <1>1 DEF Listed, CanRead
<1>2. CASE u \notin Admins /\ IsClosed(r.group)
  <2>1. r.owner \in Users /\ r.group \in Groups BY <1>2 DEF Good, Row, IsClosed
  <2>2. PICK id \in AccessIds : r.read = {r.owner} \cup Grant(r.group, TRUE, id) BY <1>2 DEF Fit, Acl, IsClosed
  <2>3. PICK t \in r.read : t \in Held(u) BY <1>2 DEF Listed
  <2>4. t = r.owner \/ t = r.group \/ (t = id /\ id \in Subgroups) BY <2>2, <2>3 DEF Grant, AccessIds
  <2>5. CASE t = r.owner
    BY <2>1, <2>3, <2>5, ReadAccessAssumption DEF Held, Open
  <2>6. CASE t = r.group
    BY <2>1, <2>3, <2>6, ReadAccessAssumption DEF Held, Open, CanRead
  <2>7. CASE t = id /\ id \in Subgroups
    BY <2>3, <2>7, ReadAccessAssumption DEF Held, Open
  <2> QED BY <2>4, <2>5, <2>6, <2>7
<1> QED BY <1>1, <1>2

LEMMA FitSentBack ==
  ASSUME NEW r, Good(r), Fit(r, closed)
  PROVE  Acl(r.owner, r.group, IsClosed(r.group), AccessId(r.read)) = r.read
<1> DEFINE c == IsClosed(r.group)
<1>1. r.owner \in Users /\ r.group \in Groups \cup {NoGroup} /\ r.owner \notin Open
      /\ r.owner \notin Groups /\ r.owner \notin Subgroups
  BY ReadAccessAssumption DEF Good, Row
<1>2. PICK id \in AccessIds : r.read = {r.owner} \cup Grant(r.group, c, id) BY DEF Fit, Acl, IsClosed
<1> SUFFICES Grant(r.group, c, AccessId(r.read)) = Grant(r.group, c, id) BY <1>2 DEF Acl
<1> HIDE DEF c
<1>3. CASE Grant(r.group, c, id) = {}
  <2>1. r.read = {r.owner} BY <1>2, <1>3
  <2>2. AccessId(r.read) = "private" BY <1>1, <2>1 DEF AccessId, Open
  <2> QED BY <1>3, <2>2, ReadAccessAssumption DEF Grant, Open, LoggedIn, Everybody
<1>4. CASE id \in Subgroups /\ Grant(r.group, c, id) = {id}
  BY <1>1, <1>2, <1>4 DEF AccessId
<1>5. CASE r.group \in Groups /\ Grant(r.group, c, id) = {r.group}
  BY <1>1, <1>2, <1>5, ReadAccessAssumption DEF AccessId, Grant
<1>6. CASE id \in Open /\ Grant(r.group, c, id) = {id}
  <2>1. r.read \cap Subgroups = {} /\ r.read \cap Groups = {} BY <1>1, <1>2, <1>6, ReadAccessAssumption
  <2>2. AccessId(r.read) = id BY <1>1, <1>2, <1>6, <2>1 DEF AccessId, Open, Everybody, LoggedIn
  <2> QED BY <2>2
<1> QED BY <1>1, <1>2, <1>3, <1>4, <1>5, <1>6, ReadAccessAssumption DEF Grant, AccessIds, Open, LoggedIn, Everybody

(***************************************************************************)
(* Each step of the only process keeps it.                                 *)
(***************************************************************************)
LEMMA AclStep ==
  ASSUME IInv, NEW w \in crew, crew = {w}, NEW t, proc' = [proc EXCEPT ![w] = t],
         Carries(t, moved', closed'), crew' = crew,
         \A p \in Posts \ moved' : post'[p] # NoPost => Fit(post'[p], closed')
  PROVE  AclInv'
BY ReadAccessAssumption DEF IInv, TypeOK, AclInv

\* A request, or a step on, that changes no table.
LEMMA AclStart ==
  ASSUME IInv, AclInv, NEW w \in crew, crew = {w}, NEW t, Take(w, t) \/ Goto(w, t), UNCHANGED tables,
         Carries(t, moved, closed)
  PROVE  AclInv'
BY AclStep DEF AclInv, Take, Goto, tables

LEMMA PlainCarries ==
  ASSUME NEW t, t.at \notin {"save", "below", "heirs", "posts"}, NEW m, NEW cl
  PROVE  Carries(t, m, cl)
BY DEF Carries

\* A step to where no row is held, that leaves the rows alone.
LEMMA AclPlain ==
  ASSUME IInv, AclInv, NEW w \in crew, crew = {w}, UNCHANGED <<crew, closed, post, moved>>,
         proc'[w].at \notin {"save", "below", "heirs", "posts"}
  PROVE  AclInv'
BY DEF AclInv, Carries

LEMMA SavingCarries ==
  ASSUME NEW p, NEW r, NEW into, NEW set, NEW m, NEW cl, into \/ Due(p, set, r, m, cl)
  PROVE  Carries(Saving(p, r, into, set), m, cl)
BY DEF Carries, Saving

LEMMA AddPostFits ==
  ASSUME IInv, AclInv, NEW w \in crew, crew = {w}, AddPost(w)
  PROVE  AclInv'
<1>1. PICK p \in offer.posts, u \in Users, g \in Groups \cup {NoGroup},
           r \in Readings, c \in Writings, shows \in SUBSET offer.files :
        Take(w, Saving(p, [owner |-> u, group |-> g, read |-> Acl(u, g, IsClosed(g), r),
                           write |-> Acl(u, g, IsClosed(g), c), shows |-> shows], FALSE, TRUE))
  BY ZenonT(30) DEF AddPost
<1> DEFINE row == [owner |-> u, group |-> g, read |-> Acl(u, g, IsClosed(g), r),
                   write |-> Acl(u, g, IsClosed(g), c), shows |-> shows]
<1>2. r \in AccessIds BY ReadAccessAssumption
<1>3. Fit(row, closed) BY <1>2 DEF Fit, IsClosed
<1>4. UNCHANGED tables BY DEF AddPost
<1> HIDE DEF row
<1>5. Carries(Saving(p, row, FALSE, TRUE), moved, closed) BY <1>3, SavingCarries DEF Due
<1>6. Take(w, Saving(p, row, FALSE, TRUE)) BY <1>1 DEF row
<1> QED BY <1>4, <1>5, <1>6, AclStart

LEMMA EditPostFits ==
  ASSUME IInv, AclInv, NEW w \in crew, crew = {w}, EditPost(w)
  PROVE  AclInv'
<1>1. PICK p \in Posts, by \in Users, id \in Readings \cup {"same"}, c \in Writings \cup {"same"},
           g \in Groups \cup {NoGroup}, u \in Users, shows \in SUBSET offer.files :
        /\ post[p] # NoPost
        /\ Take(w, Saving(p, [Owned(Writable(Accessed(post[p], id), c), u)
                                EXCEPT !.group = g, !.shows = shows],
                          g # post[p].group, id # "same"))
  BY ZenonT(30) DEF EditPost
<1> DEFINE read == Accessed(post[p], id)
           mid == Writable(read, c)
           row == [Owned(mid, u) EXCEPT !.group = g, !.shows = shows]
<1>2. id \in Ids /\ c \in Ids /\ closed \in [Groups -> BOOLEAN] BY TableTypes, ReadAccessAssumption DEF Ids
<1>0. Good(post[p]) /\ Good(read) /\ read.group = post[p].group
  BY <1>1, PostGood, <1>2, AccessedGood DEF Accessed, Good, Row
<1>3. Good(mid) /\ mid.group = post[p].group
  <2> HIDE DEF read
  <2> QED BY <1>0, <1>2, WritableGood
<1>4. Good(Owned(mid, u)) /\ Owned(mid, u).group = post[p].group BY <1>3, OwnedGood
<1>5. g # post[p].group \/ Due(p, id # "same", row, moved, closed)
  <2> SUFFICES ASSUME g = post[p].group, id # "same" \/ p \notin moved
               PROVE  Fit(row, closed)
    BY DEF Due
  <2>1. Fit(post[p], closed) \/ id # "same" BY <1>1 DEF AclInv
  <2>2. Fit(read, closed) BY <1>0, <1>2, <2>1, AccessedFits
  <2>4. Fit(mid, closed)
    <3> HIDE DEF read
    <3> QED BY <1>0, <1>2, <2>2, WritableFits
  <2> HIDE DEF mid
  <2>3. Fit(Owned(mid, u), closed) BY <1>2, <1>3, <2>4, OwnedFits
  <2> QED BY <1>4, <2>3, ShownFits
<1>6. UNCHANGED tables BY DEF EditPost
<1> HIDE DEF row
<1>7. Carries(Saving(p, row, g # post[p].group, id # "same"), moved, closed) BY <1>5, SavingCarries
<1>8. Take(w, Saving(p, row, g # post[p].group, id # "same")) BY <1>1 DEF row
<1> QED BY <1>6, <1>7, <1>8, AclStart

LEMMA DeletePostFits ==
  ASSUME IInv, AclInv, NEW w \in crew, crew = {w}, DeletePost(w)
  PROVE  AclInv'
BY PlainCarries, AclStep DEF DeletePost, Take, Idle, AclInv

LEMMA EditFolderFits ==
  ASSUME IInv, AclInv, NEW w \in crew, crew = {w}, EditFolder(w)
  PROVE  AclInv'
<1>1. PICK p \in Posts, by \in Users, id \in Readings \cup {"same"}, c \in Writings \cup {"same"},
           u \in Users \cup {"same"}, deep \in BOOLEAN :
        /\ post[p] # NoPost
        /\ Take(w, [at |-> "below", post |-> p, row |-> Writable(Accessed(post[p], id), c), to |-> u,
                   set |-> id # "same", rows |-> Below(p, by, id, c, deep)])
  BY DEF EditFolder
<1> DEFINE row == Writable(Accessed(post[p], id), c)
           t == [at |-> "below", post |-> p, row |-> row, to |-> u,
                 set |-> id # "same", rows |-> Below(p, by, id, c, deep)]
<1>2. id \in Ids /\ c \in Ids BY ReadAccessAssumption DEF Ids
<1>3. Due(p, id # "same", row, moved, closed)
  BY <1>1, <1>2, PostGood, AccessedFits, AccessedGood, WritableFits DEF AclInv, Due
<1>4. \A x \in Below(p, by, id, c, deep) : x.post \in moved \/ Fit(x.row, closed)
  <2>1. SUFFICES ASSUME NEW q \in Reached(p, by, deep), q \notin moved
                 PROVE  Fit(Kept(post[q], id, c), closed)
    BY DEF Below
  <2>2. q \in Posts /\ post[q] # NoPost BY <2>1, ReadAccessAssumption DEF Reached, Children
  <2>3. Fit(post[q], closed) /\ Good(post[q]) BY <2>1, <2>2, PostGood DEF AclInv
  <2>4. Asked0(id) \in Ids /\ Asked0(c) \in Ids BY <1>2, AskedIds
  <2>5. Fit(Accessed(post[q], Asked0(id)), closed) /\ Good(Accessed(post[q], Asked0(id)))
    BY <2>3, <2>4, AccessedFits, AccessedGood
  <2> QED BY <2>4, <2>5, WritableFits DEF Kept
<1> HIDE DEF row
<1>5. Carries(t, moved, closed) BY <1>3, <1>4 DEF Carries
<1>6. Take(w, t) /\ UNCHANGED tables BY <1>1 DEF EditFolder, row
<1> HIDE DEF t
<1> QED BY <1>5, <1>6, AclStart

LEMMA RestFits ==
  ASSUME IInv, AclInv, NEW w \in crew, crew = {w},
         ChangeMembership(w) \/ ChangeSubgroup(w) \/ Configure(w) \/ Link(w)
  PROVE  AclInv'
<1>0. proc \in [Workers -> Process] /\ w \in Workers BY StateGood DEF IInv, TypeOK
<1>1. UNCHANGED <<crew, closed, post, moved>> BY DEF ChangeMembership, ChangeSubgroup, Configure, Link, Take, Goto
<1>2. proc'[w].at \in {"idle", "refresh"}
  <2>1. CASE ChangeMembership(w) \/ ChangeSubgroup(w) BY <1>0, <2>1 DEF ChangeMembership, ChangeSubgroup, Take, Idle
  <2>2. CASE Configure(w)
    BY <2>2, <1>0 DEF Configure, Take
  <2>3. CASE Link(w)
    <3>1. PICK f, then : Goto(w, [at |-> "refresh", file |-> f, read |-> {}, then |-> then]) BY <2>3 DEF Link
    <3> QED BY <1>0, <3>1 DEF Goto
  <2> QED BY <2>1, <2>2, <2>3
<1> QED BY <1>1, <1>2, AclPlain

LEMMA EditGroupFits ==
  ASSUME IInv, AclInv, NEW w \in crew, crew = {w}, EditGroup(w)
  PROVE  AclInv'
<1>1. PICK g \in Groups, c \in BOOLEAN :
        LET open == {p \in Posts : /\ post[p] # NoPost /\ post[p].group = g
                                   /\ c /\ post[p].read \cap Open # {}}
        IN  Take(w, [at |-> "posts", group |-> g, closed |-> c,
                     rows |-> {[post |-> p, row |-> Shut(g, post[p])] : p \in open}])
  BY DEF EditGroup
<1> DEFINE open == {p \in Posts : /\ post[p] # NoPost /\ post[p].group = g
                                  /\ c /\ post[p].read \cap Open # {}}
           rows == {[post |-> p, row |-> Shut(g, post[p])] : p \in open}
           t == [at |-> "posts", group |-> g, closed |-> c, rows |-> rows]
<1>2. \A x \in rows : x.post \in moved \/ Fit(x.row, closed)
  <2>1. SUFFICES ASSUME NEW p \in open, p \notin moved PROVE Fit(Shut(g, post[p]), closed) OBVIOUS
  <2>2. Good(post[p]) /\ Fit(post[p], closed) /\ post[p].group = g /\ post[p].read \cap Open # {}
    BY <2>1, PostGood DEF AclInv
  <2> QED BY <2>2, TableTypes, ShutFits
<1>3. Take(w, t) /\ UNCHANGED tables BY <1>1 DEF EditGroup
<1> HIDE DEF rows
<1>4. Carries(t, moved, closed) BY <1>2 DEF Carries
<1> HIDE DEF t
<1> QED BY <1>3, <1>4, AclStart

LEMMA CloseSiteFits ==
  ASSUME IInv, AclInv, NEW w \in crew, crew = {w}, CloseSite(w)
  PROVE  AclInv'
<1> DEFINE open == {p \in Posts : /\ post[p] # NoPost
                                  /\ Everybody \in post[p].read \cup post[p].write}
           rows == {[post |-> p, row |-> Restricted(post[p])] : p \in open}
           t == [at |-> "posts", group |-> NoGroup, closed |-> TRUE, rows |-> rows]
<1>1. \A x \in rows : x.post \in moved \/ Fit(x.row, closed)
  BY PostGood, TableTypes, RestrictedFits DEF AclInv
<1>2. Take(w, t) /\ UNCHANGED tables BY DEF CloseSite
<1> HIDE DEF rows
<1>3. Carries(t, moved, closed) BY <1>1 DEF Carries
<1> HIDE DEF t
<1> QED BY <1>2, <1>3, AclStart

LEMMA SaveFits ==
  ASSUME IInv, AclInv, NEW w \in crew, crew = {w}, Save(w)
  PROVE  AclInv'
<1> DEFINE s == proc[w]
           t == [at |-> "look", post |-> s.post, shows |-> s.row.shows]
<1>1. s \in Storing BY StateGood, Shape DEF Save
<1>2. /\ s.post \in Posts /\ s.at = "save" /\ Carries(s, moved, closed)
      /\ post' = [post EXCEPT ![s.post] = s.row]
      /\ moved' = IF s.into THEN moved \cup {s.post}
                  ELSE IF s.set THEN moved \ {s.post} ELSE moved
      /\ proc' = [proc EXCEPT ![w] = t] /\ crew' = crew /\ closed' = closed
  BY <1>1 DEF Save, Goto, AclInv, Storing
<1>3. Carries(t, moved', closed') BY PlainCarries
<1>4. ASSUME NEW p \in Posts \ moved', post'[p] # NoPost PROVE Fit(post'[p], closed')
  BY TableTypes, <1>2, <1>4 DEF Carries, Due, AclInv
<1> HIDE DEF s, t
<1> QED BY <1>2, <1>3, <1>4, AclStep

LEMMA SaveRowFits ==
  ASSUME IInv, AclInv, NEW w \in crew, crew = {w}, SaveRow(w)
  PROVE  AclInv'
<1> DEFINE s == proc[w]
<1>1. s \in Falling \/ s \in Closing BY StateGood, Shape DEF SaveRow
<1>2. PICK c \in s.rows :
        /\ post' = [post EXCEPT ![c.post] = c.row]
        /\ Goto(w, [s EXCEPT !.rows = @ \ {c}])
  BY DEF SaveRow
<1> DEFINE t == [s EXCEPT !.rows = @ \ {c}]
<1>3. /\ s.at \in {"below", "heirs", "posts"} /\ Carries(s, moved, closed)
      /\ UNCHANGED <<crew, closed, moved>> /\ proc' = [proc EXCEPT ![w] = t]
  BY <1>2 DEF SaveRow, Goto, AclInv
<1>4. /\ t.rows = s.rows \ {c} /\ t.at = s.at
      /\ s \in Falling => t.post = s.post /\ t.set = s.set /\ t.row = s.row
  BY <1>1 DEF Falling, Closing
<1>5. s.at # "posts" => s \in Falling BY <1>1 DEF Closing
<1>6. Carries(t, moved', closed')
  BY <1>3, <1>4, <1>5 DEF Carries
<1>7. c.post \in Posts BY <1>1, <1>2 DEF Falling, Closing, Copy
<1>8. ASSUME NEW p \in Posts \ moved', post'[p] # NoPost PROVE Fit(post'[p], closed')
  <2>1. CASE p = c.post
    BY TableTypes, <1>2, <2>1, <1>3, <1>8 DEF Carries
  <2>2. CASE p # c.post
    <3>1. post'[p] = post[p] BY TableTypes, <1>2, <1>7, <2>2
    <3> QED BY <1>3, <1>8, <3>1 DEF AclInv
  <2> QED BY <2>1, <2>2
<1> HIDE DEF s, t
<1> QED BY <1>3, <1>6, <1>8, AclStep

LEMMA PassOnFits ==
  ASSUME IInv, AclInv, NEW w \in crew, crew = {w}, PassOn(w)
  PROVE  AclInv'
<1> DEFINE s == proc[w]
<1>1. s \in Falling /\ s.at = "below" /\ Carries(s, moved, closed) /\ UNCHANGED tables
  BY StateGood, Shape DEF PassOn, AclInv
<1>2. Good(s.row) BY <1>1, StateGood DEF ProcessKeeps, OwnRow, Falling, Good
<1>3. CASE s.to = "same"
  <2>1. Goto(w, Saving(s.post, s.row, FALSE, s.set)) BY <1>3 DEF PassOn
  <2>2. Carries(Saving(s.post, s.row, FALSE, s.set), moved, closed) BY <1>1, SavingCarries DEF Carries
  <2> HIDE DEF s
  <2> QED BY <1>1, <2>1, <2>2, AclStart
<1>4. CASE s.to # "same"
  <2>1. PICK heirs \in Heirs(s.row, s.post) :
          Goto(w, [s EXCEPT !.at = "heirs", !.row = Given(@, s.to),
                     !.rows = {[post |-> q, row |-> Given(post[q], s.to)] : q \in heirs}])
    BY <1>4 DEF PassOn
  <2> DEFINE rows == {[post |-> q, row |-> Given(post[q], s.to)] : q \in heirs}
             t == [s EXCEPT !.at = "heirs", !.row = Given(@, s.to), !.rows = rows]
  <2>2. s.to \in Users BY <1>1, <1>4 DEF Falling
  <2>3. \A q \in heirs : q \in Posts /\ post[q] # NoPost
    <3>1. Within[s.post] \subseteq Posts BY <1>1, ReadAccessAssumption DEF Falling
    <3>2. heirs \subseteq Children(s.post) BY DEF Heirs
    <3> HIDE DEF s
    <3> QED BY <3>1, <3>2 DEF Children
  <2>4. \A x \in rows : Fit(x.row, closed) BY <2>2, <2>3, PostGood, GivenFits
  <2>5. Fit(Given(s.row, s.to), closed) BY <1>2, <2>2, GivenFits
  <2> HIDE DEF rows
  <2>6. t.at = "heirs" /\ t.row = Given(s.row, s.to) /\ t.rows = rows BY <1>1 DEF Falling
  <2>7. Carries(t, moved, closed) BY <2>4, <2>5, <2>6 DEF Carries, Due
  <2>8. Goto(w, t) BY <2>1 DEF rows
  <2> HIDE DEF t
  <2> QED BY <1>1, <2>7, <2>8, AclStart
<1> QED BY <1>3, <1>4

LEMMA PassedOnFits ==
  ASSUME IInv, AclInv, NEW w \in crew, crew = {w}, PassedOn(w)
  PROVE  AclInv'
<1> DEFINE s == proc[w]
<1>1. Carries(s, moved, closed) /\ s.at = "heirs" /\ UNCHANGED tables
      /\ Goto(w, Saving(s.post, s.row, FALSE, s.set))
  BY DEF PassedOn, AclInv
<1>2. Carries(Saving(s.post, s.row, FALSE, s.set), moved, closed) BY <1>1, SavingCarries DEF Carries
<1> HIDE DEF s
<1> QED BY <1>1, <1>2, AclStart

\* The group itself is saved last, over rows that are all hidden if it closes.
LEMMA SaveGroupFits ==
  ASSUME IInv, AclInv, NEW w \in crew, crew = {w}, Covered(w), SaveGroup(w)
  PROVE  AclInv'
<1> DEFINE s == proc[w]
<1>1. /\ s \in Closing /\ s.at = "posts" /\ s.rows = {}
      /\ closed' = IF s.group = NoGroup THEN closed ELSE [closed EXCEPT ![s.group] = s.closed]
      /\ proc' = [proc EXCEPT ![w] = Idle] /\ UNCHANGED <<crew, post, moved>>
  BY StateGood, Shape DEF SaveGroup, Goto
<1>2. Carries(Idle, moved', closed') BY PlainCarries DEF Idle
<1>3. ASSUME NEW p \in Posts \ moved, post[p] # NoPost PROVE Fit(post[p], closed')
  <2>1. Fit(post[p], closed) /\ Good(post[p]) BY <1>3, PostGood DEF AclInv
  <2>2. CASE s.group = NoGroup BY <1>1, <2>1, <2>2
  <2>3. CASE s.group # NoGroup
    <3>1. s.group \in Groups /\ s.closed \in BOOLEAN BY <1>1, <2>3 DEF Closing
    <3>2. post[p].group = s.group /\ s.closed => Hidden(post[p]) BY <1>1, <1>3, <3>1 DEF Covered, Shutting, Exists
    <3>3. closed' = [closed EXCEPT ![s.group] = s.closed] BY <1>1, <2>3
    <3> HIDE DEF s
    <3> QED BY <2>1, <3>1, <3>2, <3>3, TableTypes, FlippedFits
  <2> QED BY <2>2, <2>3
<1> QED BY <1>1, <1>2, <1>3, AclStep

LEMMA FilesFit ==
  ASSUME IInv, AclInv, NEW w \in crew, crew = {w},
         LookUp(w) \/ Linked(w) \/ Refresh(w) \/ SaveFile(w)
  PROVE  AclInv'
<1>0. proc \in [Workers -> Process] /\ w \in Workers BY StateGood DEF IInv, TypeOK
<1>1. UNCHANGED <<crew, closed, post, moved>> BY DEF LookUp, Linked, Refresh, SaveFile, Goto, tables
<1>2. proc'[w].at \in {"idle", "links", "file"}
  <2>1. CASE LookUp(w) BY <1>0, <2>1 DEF LookUp, Goto
  <2>2. CASE Linked(w) BY <1>0, <2>2 DEF Linked, Goto, Idle
  <2>3. CASE Refresh(w) \/ SaveFile(w)
    <3>1. proc[w] \in Filing BY <2>3, StateGood, Shape DEF Refresh, SaveFile
    <3>2. proc[w].then.at \in {"links", "idle"} BY <3>1 DEF Filing, Linking, Idle
    <3>3. [proc[w] EXCEPT !.at = "file", !.read = Derived(proc[w].file, refs)].at = "file" BY <3>1 DEF Filing
    <3> QED BY <1>0, <2>3, <3>2, <3>3 DEF Refresh, SaveFile, Goto
  <2> QED BY <2>1, <2>2, <2>3
<1> QED BY <1>1, <1>2, AclPlain

LEMMA AclKept ==
  ASSUME IInv, AclInv, NEW w \in crew, crew = {w}, Covered(w), Request(w) \/ Proceed(w)
  PROVE  AclInv'
<1>1. CASE Request(w)
  BY <1>1, AddPostFits, EditPostFits, DeletePostFits, EditFolderFits, RestFits, EditGroupFits, CloseSiteFits
     DEF Request
<1>2. CASE Proceed(w)
  BY <1>2, SaveFits, SaveRowFits, PassOnFits, PassedOnFits, SaveGroupFits, RestFits, FilesFit DEF Proceed
<1> QED BY <1>1, <1>2

(***************************************************************************)
(* The logo.                                                               *)
(***************************************************************************)
\* What a file needs is there when it has a reference from the settings.
LEMMA DerivedOpen ==
  ASSUME NEW f, NEW links, <<f, Settings>> \in links
  PROVE  Everybody \in Derived(f, links)
BY DEF HoldersOf, Derived

\* Only a look at the links leads to a file that is to be saved.
LEMMA NotFiling ==
  ASSUME IInv, NEW w \in crew, Request(w) \/ Proceed(w), ~Refresh(w)
  PROVE  proc'[w].at # "file"
<1>0. proc \in [Workers -> Process] /\ w \in Workers BY StateGood DEF IInv, TypeOK
<1>1. CASE AddPost(w) \/ EditPost(w) \/ PassedOn(w)
  <2>1. PICK p, r, into, set : proc'[w] = Saving(p, r, into, set)
    <3>1. CASE AddPost(w)
      <4>1. PICK p, r, into, set : Take(w, Saving(p, r, into, set)) BY <3>1 DEF AddPost
      <4> QED BY <1>0, <4>1 DEF Take
    <3>2. CASE EditPost(w)
      BY <3>2, <1>0 DEF EditPost, Take
    <3>3. CASE PassedOn(w)
      BY <3>3, <1>0 DEF PassedOn, Goto
    <3> QED BY <1>1, <3>1, <3>2, <3>3
  <2> QED BY <2>1 DEF Saving
<1>2. CASE DeletePost(w) \/ ChangeMembership(w) \/ ChangeSubgroup(w) \/ SaveGroup(w) \/ Linked(w)
  <2>1. Take(w, Idle) \/ Goto(w, Idle) BY <1>2 DEF DeletePost, ChangeMembership, ChangeSubgroup, SaveGroup, Linked
  <2> QED BY <1>0, <2>1 DEF Take, Goto, Idle
<1>3. CASE EditFolder(w)
  BY <1>3, <1>0 DEF EditFolder, Take
<1>4. CASE EditGroup(w) \/ CloseSite(w)
  BY <1>4, <1>0 DEF EditGroup, CloseSite, Take
<1>5. CASE Configure(w) \/ Link(w)
  <2>1. PICK f, then : proc'[w] = [at |-> "refresh", file |-> f, read |-> {}, then |-> then]
    BY <1>0, <1>5 DEF Configure, Take, Link, Goto
  <2> QED BY <2>1
<1>6. CASE Save(w) BY <1>0, <1>6 DEF Save, Goto
<1>7. CASE LookUp(w) BY <1>0, <1>7 DEF LookUp, Goto
<1>8. CASE SaveRow(w)
  <2>1. proc[w] \in Falling \/ proc[w] \in Closing BY <1>8, StateGood, Shape DEF SaveRow
  <2>2. PICK c : proc'[w] = [proc[w] EXCEPT !.rows = @ \ {c}] BY <1>0, <1>8 DEF SaveRow, Goto
  <2>3. proc'[w].at = proc[w].at BY <2>1, <2>2 DEF Falling, Closing
  <2> QED BY <1>8, <2>3 DEF SaveRow
<1>9. CASE PassOn(w)
  <2>1. proc'[w].at = "save" \/ proc'[w].at = "heirs"
    <3>1. proc[w] \in Falling BY <1>9, StateGood, Shape DEF PassOn
    <3>2. CASE proc[w].to = "same" BY <1>0, <1>9, <3>2 DEF PassOn, Goto, Saving
    <3>3. CASE proc[w].to # "same" BY <1>0, <1>9, <3>1, <3>3, ZenonT(30) DEF PassOn, Goto, Falling
    <3> QED BY <3>2, <3>3
  <2> QED BY <2>1
<1>10. CASE SaveFile(w)
  <2>1. proc[w] \in Filing BY <1>10, StateGood, Shape DEF SaveFile
  <2>2. proc[w].then.at \in {"links", "idle"} BY <2>1 DEF Filing, Linking, Idle
  <2> QED BY <1>0, <1>10, <2>2 DEF SaveFile, Goto
<1> QED BY <1>1, <1>2, <1>3, <1>4, <1>5, <1>6, <1>7, <1>8, <1>9, <1>10 DEF Request, Proceed

\* Steps away from the files: no reference from the settings comes, no token goes.
LEMMA LogoElsewhere ==
  ASSUME LogoInv, NEW w \in crew, crew = {w}, crew' = crew, file' = file,
         proc[w].at \notin {"refresh", "file"}, proc'[w].at # "file", refs' \subseteq refs
  PROVE  LogoInv'
BY DEF LogoInv, Publishing

LEMMA LogoKept ==
  ASSUME IInv, LogoInv, NEW w \in crew, crew = {w}, Request(w) \/ Proceed(w)
  PROVE  LogoInv'
<1>0. proc \in [Workers -> Process] /\ w \in Workers /\ file \in [Files -> SUBSET Tokens]
  BY StateGood, TableTypes DEF IInv, TypeOK
<1>1. CASE Request(w) /\ ~Configure(w)
  <2>1. crew' = crew /\ file' = file /\ proc[w] = Idle
    BY <1>1, ZenonT(40) DEF Request, AddPost, EditPost, DeletePost, EditFolder, ChangeMembership, ChangeSubgroup,
       EditGroup, CloseSite, Free, Take, tables
  <2>2. refs' \subseteq refs
    BY <1>1 DEF Request, AddPost, EditPost, DeletePost, EditFolder, ChangeMembership, ChangeSubgroup,
       EditGroup, CloseSite, tables
  <2> QED BY <1>1, <2>1, <2>2, NotFiling, LogoElsewhere DEF Idle, Refresh
<1>2. CASE Configure(w)
  <2>1. PICK f \in Files, h \in {Settings, Personal} :
          /\ refs' = {r \in refs : h = Settings => r[2] # Settings} \cup {<<f, h>>}
          /\ Take(w, [at |-> "refresh", file |-> f, read |-> {}, then |-> Idle])
    BY <1>2 DEF Configure
  <2>2. proc'[w] = [at |-> "refresh", file |-> f, read |-> {}, then |-> Idle] /\ crew' = crew BY <1>0, <2>1 DEF Take
  <2>3. Publishing(proc'[w], f) BY <2>2 DEF Publishing
  <2>4. file' = file /\ proc[w].at = "idle" BY <1>2 DEF Configure, Free, Idle
  <2>5. \A x \in Files : <<x, Settings>> \in refs' => x = f \/ <<x, Settings>> \in refs BY <2>1
  <2> QED BY <2>2, <2>3, <2>4, <2>5 DEF LogoInv, Publishing
<1>3. CASE Link(w)
  BY <1>3, <1>0 DEF Link, Goto, Publishing, LogoInv
<1>4. CASE Refresh(w)
  <2>1. UNCHANGED <<crew, file, refs>> /\ proc[w].at = "refresh" /\ proc[w] \in Filing
    BY <1>4, StateGood, Shape DEF Refresh, Goto, tables
  <2>2. CASE Derived(proc[w].file, refs) = file[proc[w].file]
    <3>1. proc'[w].at # "file"
      <4>1. proc'[w] = proc[w].then BY <1>0, <1>4, <2>2 DEF Refresh, Goto
      <4> QED BY <2>1, <4>1 DEF Filing, Linking, Idle
    <3> QED BY <2>1, <2>2, <3>1, DerivedOpen DEF LogoInv, Publishing
  <2>3. CASE Derived(proc[w].file, refs) # file[proc[w].file]
    <3>1. proc'[w] = [proc[w] EXCEPT !.at = "file", !.read = Derived(proc[w].file, refs)]
      BY <1>0, <1>4, <2>3 DEF Refresh, Goto
    <3>2. proc'[w].at = "file" /\ proc'[w].file = proc[w].file /\ proc'[w].read = Derived(proc[w].file, refs)
      BY <2>1, <3>1 DEF Filing
    <3> QED BY <2>1, <3>2, DerivedOpen DEF LogoInv, Publishing
  <2> QED BY <2>2, <2>3
<1>5. CASE SaveFile(w)
  <2>1. UNCHANGED <<crew, refs>> /\ proc[w].at = "file" /\ proc[w] \in Filing
        /\ file' = [file EXCEPT ![proc[w].file] = proc[w].read]
    BY <1>5, StateGood, Shape DEF SaveFile, Goto
  <2>2. SUFFICES ASSUME NEW f \in Files, <<f, Settings>> \in refs PROVE Everybody \in file'[f]
    BY <1>5, <2>1, NotFiling DEF LogoInv, Refresh
  <2>3. Everybody \in file[f] \/ Publishing(proc[w], f) BY <2>2 DEF LogoInv
  <2>4. CASE f = proc[w].file BY <1>0, <2>1, <2>2, <2>4 DEF LogoInv
  <2>5. CASE f # proc[w].file BY <1>0, <2>1, <2>3, <2>5 DEF Publishing
  <2> QED BY <2>4, <2>5
<1>6. CASE Proceed(w) /\ ~Link(w) /\ ~Refresh(w) /\ ~SaveFile(w)
  <2>1. crew' = crew /\ file' = file /\ refs' = refs /\ proc[w].at \notin {"refresh", "file"}
    BY <1>6 DEF Proceed, Save, SaveRow, PassOn, PassedOn, SaveGroup, LookUp, Linked, Goto, tables
  <2> QED BY <1>6, <2>1, NotFiling, LogoElsewhere
<1> QED BY <1>1, <1>2, <1>3, <1>4, <1>5, <1>6

LEMMA SoundStep == SoundInv /\ [Next]_vars => SoundInv'
<1> SUFFICES ASSUME SoundInv, [Next]_vars PROVE SoundInv' OBVIOUS
<1>1. ClosingInv' /\ IInv BY ClosingStep DEF SoundInv, ClosingInv
<1>2. CASE UNCHANGED vars
  <2>1. AclInv => AclInv' BY <1>2 DEF vars, AclInv
  <2>2. LogoInv => LogoInv' BY <1>2 DEF vars, LogoInv, Publishing
  <2>3. Alone' => Alone BY <1>2 DEF vars, Alone
  <2> QED BY <1>1, <2>1, <2>2, <2>3 DEF SoundInv
<1>3. ASSUME NEW w \in crew, Request(w) \/ Proceed(w), Alone' PROVE AclInv' /\ LogoInv'
  <2>1. crew' = crew BY <1>3, Steady
  <2>2. Alone /\ AclInv /\ LogoInv /\ Covered(w) BY <1>3, <2>1 DEF Alone, SoundInv, ClosingInv
  <2>3. crew = {w} BY <1>1, <1>3, <2>2, AloneOne
  <2> QED BY <1>1, <1>3, <2>2, <2>3, AclKept, LogoKept
<1> QED BY <1>1, <1>2, <1>3 DEF Next, SoundInv

\* Whenever the only process is idle, lists, forms and files agree with the tokens
\* of the rows, for any number of people, groups, posts, attachments and requests,
\* with every access id a form can ask for.
THEOREM AccessSoundAlone == Spec => []AccessSound
<1>1. Init => SoundInv
  <2> SUFFICES ASSUME Init PROVE SoundInv OBVIOUS
  <2>1. IInv /\ crew \subseteq Workers BY InitHolds, ReadAccessAssumption DEF Init
  <2>2. \A w \in crew : proc[w] = Idle /\ proc[w].at = "idle" BY <2>1 DEF Init, Idle
  <2>3. \A w \in crew : Covered(w) BY <2>2 DEF Covered, Shutting
  <2>4. AclInv BY <2>2, PlainCarries DEF Init, AclInv
  <2>5. LogoInv BY <2>2 DEF Init, LogoInv
  <2> QED BY <2>1, <2>3, <2>4, <2>5 DEF SoundInv, ClosingInv
<1>2. SoundInv => AccessSound
  <2> SUFFICES ASSUME SoundInv PROVE AccessSound OBVIOUS
  <2>1. IInv /\ TypeOK BY DEF SoundInv, ClosingInv, IInv
  <2>2. ASSUME Alone, Quiet PROVE AclInv /\ LogoInv /\ \A w \in crew : proc[w].at = "idle"
    BY <2>1, ReadAccessAssumption, <2>2 DEF TypeOK, SoundInv, Quiet, Idle
  <2>3. ListedIsReadable
    BY <2>1, <2>2, PostGood, FitShown DEF ListedIsReadable, AclInv, Exists
  <2>4. FormKeepsAccess
    BY <2>1, <2>2, PostGood, FitSentBack DEF FormKeepsAccess, AclInv, Exists
  <2>5. LogoPublic BY <2>2 DEF LogoInv, LogoPublic, Publishing
  <2> QED BY <2>1, <2>3, <2>4, <2>5 DEF AccessSound
<1> QED BY <1>1, <1>2, SoundStep, PTL DEF Spec

-----------------------------------------------------------------------------
\* What a desk holds while it serves a request.
RequestOK(j) ==
  /\ j.do = "save field" => j.f \in Fields /\ j.new \in Field /\ j.new.there
  /\ j.do = "write sections" => j.named \subseteq Fields
  /\ j.do = "require" => j.all \subseteq Fields /\ j.todo \subseteq j.all /\ j = [do |-> "require", all |-> j.all, todo |-> j.todo]
  /\ j.do \in {"row", "store"} =>
       /\ j.m \in Members /\ j.how \in {"edit", "onboarding", "sync"} /\ j.access \in Readers
       /\ DOMAIN j.todo \subseteq Fields /\ \A f \in DOMAIN j.todo : j.todo[f] \in Fillings \cup {Blank}
  /\ j.do = "store" => j.f \in DOMAIN j.todo /\ j.was \in Readers
ProfilesTyped == ProfilesTypeOK /\ \A p \in Desks : RequestOK(desk[p])

LEMMA QuietRequest == RequestOK(QuietDesk) /\ QuietDesk.do = "idle"
BY DEF RequestOK, QuietDesk

LEMMA NewRequest ==
  ASSUME DOMAIN desk = Desks, orders \in 0..MaxOrders, NEW p \in Desks, NEW job, Takes(p, job)
  PROVE  /\ desk[p] = QuietDesk /\ desk'[p] = job /\ DOMAIN desk' = Desks
         /\ \A q \in Desks \ {p} : desk'[q] = desk[q]
         /\ orders' \in 0..MaxOrders /\ busy' \in BOOLEAN
         /\ ~busy' => ~busy /\ \A q \in Desks \ {p} : desk[q] = QuietDesk
<1>1. /\ desk[p] = QuietDesk /\ desk'[p] = job /\ DOMAIN desk' = Desks
      /\ \A q \in Desks \ {p} : desk'[q] = desk[q]
  BY DEF Takes, Turns
<1>2. orders' \in 0..MaxOrders BY ProfilesAssumption DEF Takes
<1>3. busy' = (busy \/ \E q \in Desks \ {p} : desk[q] # QuietDesk) BY DEF Takes
<1> QED BY <1>1, <1>2, <1>3

LEMMA NextOfRequest ==
  ASSUME DOMAIN desk = Desks, NEW p \in Desks, NEW job, Turns(p, job)
  PROVE  /\ desk'[p] = job /\ DOMAIN desk' = Desks
         /\ \A q \in Desks \ {p} : desk'[q] = desk[q]
BY DEF Turns

LEMMA RequestsTyped ==
  ASSUME ProfilesTyped, NEW p \in Desks, RequestOK(desk'[p]), \A q \in Desks \ {p} : desk'[q] = desk[q]
  PROVE  \A q \in Desks : RequestOK(desk'[q])
BY DEF ProfilesTyped

LEMMA FieldMade ==
  /\ NoField \in Field /\ ~NoField.there
  /\ \A F \in {NoField, [NoField EXCEPT !.there = TRUE], [NoField EXCEPT !.there = TRUE, !.mandatory = TRUE]} : F \in Field
  /\ [NoField EXCEPT !.there = TRUE].there
<1>1. NoField \in Field /\ NoField.there = FALSE BY DEF NoField, Field, Kinds
<1>2. \A F \in Field : /\ [F EXCEPT !.there = TRUE] \in Field /\ [F EXCEPT !.there = TRUE].there = TRUE
                      /\ [F EXCEPT !.there = TRUE, !.mandatory = TRUE] \in Field
  BY DEF Field
<1> QED BY <1>1, <1>2

\* The rows stay what they are when fields are only added and changed.
LEMMA FieldsKept ==
  ASSUME ProfilesTyped, NEW f \in Fields, NEW new \in Field, new.there, field' = [field EXCEPT ![f] = new]
  PROVE  /\ field' \in [Fields -> Field] /\ There \subseteq There' /\ f \in There'
         /\ \A g \in Fields : field[g].there => field'[g].there
BY DEF ProfilesTyped, ProfilesTypeOK, There

LEMMA ProfilesTypedInit == ProfilesInit => ProfilesTyped
<1> SUFFICES ASSUME ProfilesInit PROVE ProfilesTyped OBVIOUS
<1>1. field \in [Fields -> Field] BY FieldMade DEF ProfilesInit
<1>2. NoValue \in [there : BOOLEAN, is : Fillings \cup {Blank}, access : Readers] /\ ~NoValue.there
  BY DEF NoValue, Readers
<1>3. value \in [Members -> [Fields -> [there : BOOLEAN, is : Fillings \cup {Blank}, access : Readers]]]
      /\ \A m \in Members, f \in Fields : ~value[m][f].there
  BY <1>2 DEF ProfilesInit
<1>4. wish \in [Members -> [Fields -> Readers]] BY DEF ProfilesInit, Readers
<1>5. orders \in 0..MaxOrders BY ProfilesAssumption DEF ProfilesInit
<1>8. busy \in BOOLEAN BY DEF ProfilesInit
<1>6. DOMAIN desk = Desks /\ \A p \in Desks : RequestOK(desk[p]) BY QuietRequest DEF ProfilesInit
<1>7. sections \subseteq Fields /\ required \subseteq There BY DEF ProfilesInit
<1> QED BY <1>1, <1>3, <1>4, <1>5, <1>6, <1>7, <1>8 DEF ProfilesTyped, ProfilesTypeOK

\* A request that only begins, and what it holds.
LEMMA RequestBegins ==
  ASSUME ProfilesTyped, NEW p \in Desks, NEW job, Takes(p, job), RequestOK(job),
         UNCHANGED <<sections, required, value, wish>>,
         field' \in [Fields -> Field], \A g \in Fields : field[g].there => field'[g].there
  PROVE  ProfilesTyped'
BY NewRequest, RequestsTyped DEF ProfilesTyped, ProfilesTypeOK, There

\* The request p serves goes on.
LEMMA RequestGoesOn ==
  ASSUME ProfilesTyped, NEW p \in Desks, NEW job, Turns(p, job), RequestOK(job), UNCHANGED <<orders, busy>>,
         field' \in [Fields -> Field], sections' \subseteq Fields, required' \subseteq There',
         value' \in [Members -> [Fields -> [there : BOOLEAN, is : Fillings \cup {Blank}, access : Readers]]],
         wish' \in [Members -> [Fields -> Readers]],
         \A m \in Members, f \in Fields : value'[m][f].there => field'[f].there
  PROVE  ProfilesTyped'
BY NextOfRequest, RequestsTyped DEF ProfilesTyped, ProfilesTypeOK

LEMMA AnswersTyped ==
  ASSUME NEW m \in Members, NEW how \in {"edit", "onboarding", "sync"}, NEW S \in SUBSET Fields,
         NEW answers \in [S -> Fillings \cup {Blank}], NEW a \in Readers
  PROVE  RequestOK(FillIn(m, how, answers, a))
BY DEF RequestOK, FillIn

LEMMA ProfilesTypedStep == ProfilesTyped /\ [ProfilesNext]_profiles => ProfilesTyped'
<1> SUFFICES ASSUME ProfilesTyped, [ProfilesNext]_profiles PROVE ProfilesTyped' OBVIOUS
<1>0. /\ field \in [Fields -> Field] /\ sections \subseteq Fields /\ required \subseteq There
      /\ value \in [Members -> [Fields -> [there : BOOLEAN, is : Fillings \cup {Blank}, access : Readers]]]
      /\ wish \in [Members -> [Fields -> Readers]]
      /\ \A m \in Members, f \in Fields : value[m][f].there => field[f].there
      /\ \A p \in Desks : RequestOK(desk[p])
      /\ There \subseteq Fields
  BY DEF ProfilesTyped, ProfilesTypeOK, There
<1>1. ASSUME NEW p \in Desks, AddField(p) PROVE ProfilesTyped'
  BY <1>1, FieldMade, FieldsKept, RequestBegins DEF AddField, RequestOK
<1>2. ASSUME NEW p \in Desks, EditField(p) PROVE ProfilesTyped'
  BY <1>2, <1>0, RequestBegins DEF EditField, RequestOK
<1>3. ASSUME NEW p \in Desks, SaveField(p) PROVE ProfilesTyped'
  BY <1>0, <1>3, FieldsKept, RequestGoesOn, QuietRequest DEF SaveField, RequestOK
<1>4. ASSUME NEW p \in Desks, DeleteField(p) PROVE ProfilesTyped'
  <2>1. PICK f \in There :
          /\ Takes(p, [do |-> "read sections"])
          /\ field' = [field EXCEPT ![f] = NoField]
          /\ required' = required \ {f}
          /\ value' = [m \in Members |-> [value[m] EXCEPT ![f] = NoValue]]
          /\ wish' = [m \in Members |-> [wish[m] EXCEPT ![f] = "nobody"]]
    BY <1>4 DEF DeleteField, SectionsAfter
  <2>2. f \in Fields BY <1>0
  <2>3. /\ field' \in [Fields -> Field] /\ field'[f] = NoField /\ \A g \in Fields \ {f} : field'[g] = field[g]
    BY <1>0, <2>1, <2>2, FieldMade
  <2>4. NoValue \in [there : BOOLEAN, is : Fillings \cup {Blank}, access : Readers] /\ ~NoValue.there
    BY DEF NoValue, Readers
  <2>5. value' \in [Members -> [Fields -> [there : BOOLEAN, is : Fillings \cup {Blank}, access : Readers]]]
    BY <1>0, <2>1, <2>4
  <2>6. \A m \in Members : value'[m][f] = NoValue /\ \A g \in Fields \ {f} : value'[m][g] = value[m][g]
    BY <1>0, <2>1, <2>2
  <2>7. \A m \in Members, g \in Fields : value'[m][g].there => field'[g].there BY <1>0, <2>3, <2>4, <2>6
  <2>8. wish' \in [Members -> [Fields -> Readers]] BY <1>0, <2>1 DEF Readers
  <2>9. required' \subseteq There' /\ sections' = sections BY <1>0, <1>4, <2>1, <2>3 DEF There, DeleteField
  <2>10. RequestOK([do |-> "read sections"]) BY DEF RequestOK
  <2>11. /\ desk'[p] = [do |-> "read sections"] /\ DOMAIN desk' = Desks /\ \A q \in Desks \ {p} : desk'[q] = desk[q]
         /\ orders' \in 0..MaxOrders /\ busy' \in BOOLEAN
    BY <2>1, NewRequest DEF ProfilesTyped, ProfilesTypeOK
  <2>12. \A q \in Desks : RequestOK(desk'[q]) BY <2>10, <2>11, RequestsTyped
  <2> QED BY <1>0, <2>3, <2>5, <2>7, <2>8, <2>9, <2>11, <2>12 DEF ProfilesTyped, ProfilesTypeOK
<1>5. ASSUME NEW p \in Desks, ReadSections(p) \/ WriteSections(p) PROVE ProfilesTyped'
  <2>1. RequestOK([do |-> "write sections", named |-> sections \cap There]) BY <1>0 DEF RequestOK
  <2>2. WriteSections(p) => desk[p].named \subseteq Fields BY <1>0 DEF WriteSections, RequestOK
  <2>3. field' = field /\ There' = There /\ UNCHANGED <<required, value, wish, orders, busy>> /\ sections' \subseteq Fields
    BY <1>0, <1>5, <2>2 DEF ReadSections, WriteSections, There
  <2>4. PICK job : Turns(p, job) /\ RequestOK(job) BY <1>5, <2>1, QuietRequest DEF ReadSections, WriteSections
  <2> QED BY <1>0, <2>3, <2>4, RequestGoesOn
<1>6. ASSUME NEW p \in Desks, EditSections(p) \/ EditRequired(p) PROVE ProfilesTyped'
  BY <1>6, <1>0, RequestBegins DEF RequestOK, EditSections, EditRequired
<1>7. ASSUME NEW p \in Desks, Require(p) PROVE ProfilesTyped'
  <2>1. PICK f \in desk[p].todo :
          IF Known(f) THEN required' = required \cup {f} /\ Turns(p, [desk[p] EXCEPT !.todo = @ \ {f}])
                      ELSE UNCHANGED required /\ Turns(p, QuietDesk)
    BY <1>7 DEF Require
  <2>2. /\ desk[p] = [do |-> "require", all |-> desk[p].all, todo |-> desk[p].todo]
        /\ desk[p].all \subseteq Fields /\ desk[p].todo \subseteq desk[p].all
    BY <1>0, <1>7 DEF Require, RequestOK
  <2>3. RequestOK([do |-> "require", all |-> desk[p].all, todo |-> desk[p].todo \ {f}]) BY <2>2 DEF RequestOK
  <2>4. [desk[p] EXCEPT !.todo = @ \ {f}] = [do |-> "require", all |-> desk[p].all, todo |-> desk[p].todo \ {f}]
    BY <2>2
  <2>5. field' = field /\ There' = There /\ UNCHANGED <<sections, value, wish, orders, busy>>
    BY <1>7 DEF Require, There
  <2>6. Known(f) => f \in There BY <2>1, <2>2 DEF Known, There
  <2>7. required' \subseteq There BY <1>0, <2>1, <2>6
  <2>8. PICK job : Turns(p, job) /\ RequestOK(job) BY <2>1, <2>3, <2>4, QuietRequest
  <2> QED BY <1>0, <2>5, <2>7, <2>8, RequestGoesOn
<1>8. ASSUME NEW p \in Desks, RequireOnly(p) \/ Filled(p) PROVE ProfilesTyped'
  BY <1>0, <1>8, RequestGoesOn, QuietRequest DEF RequireOnly, Filled, There
<1>9. ASSUME NEW p \in Desks, EditValue(p) \/ SendOnboarding(p) \/ Sync(p) PROVE ProfilesTyped'
  <2>1. PICK job : Takes(p, job) /\ RequestOK(job)
    BY <1>0, AnswersTyped, <1>9 DEF EditValue, SendOnboarding, Readers, Sync
  <2> QED BY <1>0, <1>9, <2>1, RequestBegins DEF EditValue, SendOnboarding, Sync
<1>10. ASSUME NEW p \in Desks, MakeRow(p) PROVE ProfilesTyped'
  <2>1. PICK f \in DOMAIN desk[p].todo :
         LET m == desk[p].m IN
         IF ~field[f].there THEN Turns(p, QuietDesk) /\ UNCHANGED value
         ELSE /\ value' = [value EXCEPT ![m][f].there = TRUE]
              /\ Turns(p, [do |-> "store", m |-> m, how |-> desk[p].how, todo |-> desk[p].todo,
                           access |-> desk[p].access, f |-> f, created |-> ~value[m][f].there,
                           was |-> value[m][f].access])
    BY <1>10 DEF MakeRow
  <2>2. /\ desk[p].m \in Members /\ f \in Fields /\ RequestOK(desk[p]) /\ desk[p].do = "row"
    BY <1>0, <1>10 DEF MakeRow, RequestOK
  <2>3. /\ field' = field /\ There' = There /\ UNCHANGED <<sections, required, wish, orders, busy>>
    BY <1>10 DEF MakeRow, There
  <2>4. CASE ~field[f].there BY <1>0, <2>1, <2>3, <2>4, RequestGoesOn, QuietRequest
  <2>5. CASE field[f].there
    <3> DEFINE m == desk[p].m
               job == [do |-> "store", m |-> m, how |-> desk[p].how, todo |-> desk[p].todo,
                       access |-> desk[p].access, f |-> f, created |-> ~value[m][f].there,
                       was |-> value[m][f].access]
    <3>1. value[m][f] \in [there : BOOLEAN, is : Fillings \cup {Blank}, access : Readers] BY <1>0, <2>2
    <3>2. RequestOK(job) BY <2>2, <3>1 DEF RequestOK
    <3>3. value' \in [Members -> [Fields -> [there : BOOLEAN, is : Fillings \cup {Blank}, access : Readers]]]
          /\ \A n \in Members, g \in Fields : value'[n][g].there => value[n][g].there \/ g = f
      <4>1. value' = [value EXCEPT ![m] = [value[m] EXCEPT ![f] = [value[m][f] EXCEPT !.there = TRUE]]] BY <2>1, <2>5
      <4>2. [value[m][f] EXCEPT !.there = TRUE] \in [there : BOOLEAN, is : Fillings \cup {Blank}, access : Readers]
        BY <3>1
      <4> DEFINE row == [value[m][f] EXCEPT !.there = TRUE]
      <4> HIDE DEF row
      <4>3. [value[m] EXCEPT ![f] = row] \in [Fields -> [there : BOOLEAN, is : Fillings \cup {Blank}, access : Readers]]
        BY <1>0, <2>2, <4>2 DEF row
      <4>4. value' = [value EXCEPT ![m] = [value[m] EXCEPT ![f] = row]] BY <4>1 DEF row
      <4>5. \A n \in Members, g \in Fields : g # f => value'[n][g] = value[n][g] BY <1>0, <2>2, <4>4
      <4> QED BY <1>0, <2>2, <4>3, <4>4, <4>5
    <3>4. Turns(p, job) BY <2>1, <2>5
    <3> HIDE DEF job
    <3>5. \A n \in Members, g \in Fields : value'[n][g].there => field'[g].there BY <1>0, <2>3, <2>5, <3>3
    <3> QED BY <1>0, <2>3, <3>2, <3>3, <3>4, <3>5, RequestGoesOn
  <2> QED BY <2>4, <2>5
<1>11. ASSUME NEW p \in Desks, StoreValue(p) PROVE ProfilesTyped'
  <2>1. /\ RequestOK(desk[p]) /\ desk[p].do = "store"
        /\ desk[p].m \in Members /\ desk[p].f \in Fields /\ desk[p].access \in Readers /\ desk[p].was \in Readers
        /\ desk[p].todo[desk[p].f] \in Fillings \cup {Blank}
    BY <1>0, <1>11 DEF StoreValue, RequestOK
  <2>2. /\ field' = field /\ There' = There /\ UNCHANGED <<sections, required, orders, busy>>
    BY <1>11 DEF StoreValue, There
  <2>3. CASE ~field[desk[p].f].there
    BY <1>11, <2>3, <1>0, <2>2, RequestGoesOn, QuietRequest DEF StoreValue
  <2>4. CASE field[desk[p].f].there
    <3>1. PICK m \in Members, f \in Fields : m = desk[p].m /\ f = desk[p].f BY <2>1
    <3> DEFINE row == [there |-> TRUE, is |-> desk[p].todo[f], access |-> Access(desk[p])]
               rest == [x \in DOMAIN desk[p].todo \ {f} |-> desk[p].todo[x]]
    <3>2. /\ value' = [value EXCEPT ![m][f] = row]
          /\ wish' = IF desk[p].how = "edit" THEN [wish EXCEPT ![m][f] = desk[p].access] ELSE wish
          /\ Turns(p, FillIn(m, desk[p].how, rest, desk[p].access))
      BY <1>11, <2>4, <3>1 DEF StoreValue
    <3>3. row \in [there : BOOLEAN, is : Fillings \cup {Blank}, access : Readers] BY <2>1, <3>1 DEF Access
    <3> HIDE DEF row
    <3>4. value' \in [Members -> [Fields -> [there : BOOLEAN, is : Fillings \cup {Blank}, access : Readers]]]
          /\ \A n \in Members, g \in Fields : value'[n][g].there => value[n][g].there \/ g = f
      BY <1>0, <3>2, <3>3
    <3>5. wish' \in [Members -> [Fields -> Readers]] BY <1>0, <2>1, <3>2
    <3>6. /\ DOMAIN desk[p].todo \ {f} \in SUBSET Fields
          /\ rest \in [DOMAIN desk[p].todo \ {f} -> Fillings \cup {Blank}]
          /\ desk[p].how \in {"edit", "onboarding", "sync"}
      BY <2>1 DEF RequestOK
    <3>7. RequestOK(FillIn(m, desk[p].how, rest, desk[p].access)) BY <2>1, <3>6, AnswersTyped
    <3>8. \A n \in Members, g \in Fields : value'[n][g].there => field'[g].there BY <1>0, <2>2, <2>4, <3>1, <3>4
    <3> QED BY <1>0, <2>2, <3>2, <3>4, <3>5, <3>7, <3>8, RequestGoesOn
  <2> QED BY <2>3, <2>4
<1>12. CASE UNCHANGED profiles BY <1>12 DEF profiles, ProfilesTyped, ProfilesTypeOK, There
<1> QED BY <1>1, <1>2, <1>3, <1>4, <1>5, <1>6, <1>7, <1>8, <1>9, <1>10, <1>11, <1>12 DEF ProfilesNext, ProfilesStep

-----------------------------------------------------------------------------
\* What holds of the one request that is served, with requests one after the other.
AskedFor(j, f) == \/ f \in DOMAIN j.todo /\ j.todo[f] # Blank
                  \/ value[j.m][f].there /\ value[j.m][f].is # Blank
RequestFits(j) ==
  /\ j.do = "save field" => j.f \in There
  /\ j.do = "write sections" => j.named \subseteq There
  /\ j.do \in {"row", "store"} /\ j.how = "onboarding" => \A f \in There : field[f].mandatory => AskedFor(j, f)
  /\ j.do \in {"row", "store"} /\ j.how = "onboarding" =>
       \A f \in DOMAIN j.todo : f \in There /\ (field[f].mandatory => j.todo[f] # Blank)
  /\ j.do = "store" => IF j.created THEN wish[j.m][j.f] # "owner" ELSE j.was = value[j.m][j.f].access
\* A value its owner keeps to herself is there, and is hers.
WishesMet == \A m \in Members, f \in Fields : wish[m][f] = "owner" => value[m][f].there /\ value[m][f].access = "owner"
OneRequest == \A p, q \in Desks : desk[p] # QuietDesk /\ desk[q] # QuietDesk => p = q
SectionsInHand == sections \subseteq There \/ \E p \in Desks : desk[p].do \in {"read sections", "write sections"}
OneByOne == ~busy => OneRequest /\ SectionsInHand /\ WishesMet /\ \A p \in Desks : RequestFits(desk[p])

LEMMA AloneOneByOne ==
  ASSUME OneByOne, ~busy, NEW p \in Desks, \A q \in Desks \ {p} : desk[q] = QuietDesk
  PROVE  /\ RequestFits(desk[p]) /\ WishesMet
         /\ sections \subseteq There \/ desk[p].do \in {"read sections", "write sections"}
BY QuietRequest DEF OneByOne, SectionsInHand

LEMMA StillOneByOne ==
  ASSUME NEW p \in Desks, \A q \in Desks \ {p} : desk'[q] = QuietDesk,
         RequestFits(desk[p])', WishesMet',
         sections' \subseteq There' \/ desk'[p].do \in {"read sections", "write sections"}
  PROVE  OneByOne'
BY QuietRequest DEF RequestFits, OneRequest, SectionsInHand, OneByOne

\* A request that begins with nothing else at work.
LEMMA BeginsAlone ==
  ASSUME ProfilesTyped, OneByOne, NEW p \in Desks, NEW job, Takes(p, job), ~busy'
  PROVE  /\ ~busy /\ WishesMet /\ sections \subseteq There /\ desk'[p] = job
         /\ \A q \in Desks \ {p} : desk'[q] = QuietDesk
<1>1. /\ desk[p] = QuietDesk /\ desk'[p] = job /\ ~busy
      /\ \A q \in Desks \ {p} : desk'[q] = desk[q] /\ desk[q] = QuietDesk
  BY NewRequest DEF ProfilesTyped, ProfilesTypeOK
<1>2. WishesMet /\ (sections \subseteq There \/ desk[p].do \in {"read sections", "write sections"})
  BY <1>1, AloneOneByOne
<1> QED BY <1>1, <1>2, QuietRequest

\* A request that goes on with nothing else at work.
LEMMA GoesOnAlone ==
  ASSUME ProfilesTyped, OneByOne, NEW p \in Desks, NEW job, Turns(p, job), ~busy, desk[p].do # "idle"
  PROVE  /\ WishesMet /\ RequestFits(desk[p]) /\ desk'[p] = job
         /\ sections \subseteq There \/ desk[p].do \in {"read sections", "write sections"}
         /\ \A q \in Desks \ {p} : desk'[q] = QuietDesk
BY NextOfRequest, QuietRequest, AloneOneByOne DEF ProfilesTyped, ProfilesTypeOK, OneByOne, OneRequest

LEMMA OneByOneStep == ProfilesTyped /\ OneByOne /\ [ProfilesNext]_profiles => OneByOne'
<1> SUFFICES ASSUME ProfilesTyped, OneByOne, [ProfilesNext]_profiles, ~busy' PROVE OneByOne' BY DEF OneByOne
<1>0. /\ field \in [Fields -> Field]
      /\ value \in [Members -> [Fields -> [there : BOOLEAN, is : Fillings \cup {Blank}, access : Readers]]]
      /\ wish \in [Members -> [Fields -> Readers]]
      /\ \A p \in Desks : RequestOK(desk[p])
      /\ There \subseteq Fields
  BY DEF ProfilesTyped, ProfilesTypeOK, There
<1>1. ASSUME NEW p \in Desks, AddField(p) PROVE OneByOne'
  <2>1. PICK f \in Fields, new \in Field :
          /\ new.there /\ Takes(p, [do |-> "save field", f |-> f, new |-> new])
          /\ field' = [field EXCEPT ![f] = [NoField EXCEPT !.there = TRUE]]
    BY <1>1 DEF AddField
  <2>2. There \subseteq There' /\ f \in There' BY <2>1, FieldMade, FieldsKept
  <2> DEFINE job == [do |-> "save field", f |-> f, new |-> new]
  <2>6. job.do = "save field" /\ job.f = f /\ Takes(p, job) BY <2>1
  <2> HIDE DEF job
  <2>3. /\ WishesMet /\ sections \subseteq There /\ desk'[p] = job
        /\ \A q \in Desks \ {p} : desk'[q] = QuietDesk
    BY <2>6, BeginsAlone
  <2>4. RequestFits(desk[p])' BY <2>2, <2>3, <2>6 DEF RequestFits
  <2>5. WishesMet' /\ sections' \subseteq There' BY <1>1, <2>2, <2>3 DEF AddField, WishesMet
  <2> QED BY <2>3, <2>4, <2>5, StillOneByOne
<1>2. ASSUME NEW p \in Desks, EditField(p) PROVE OneByOne'
  <2>1. PICK f \in There, new \in Field : Takes(p, [do |-> "save field", f |-> f, new |-> new]) BY <1>2 DEF EditField
  <2> DEFINE job == [do |-> "save field", f |-> f, new |-> new]
  <2>5. job.do = "save field" /\ job.f = f /\ Takes(p, job) BY <2>1
  <2> HIDE DEF job
  <2>2. /\ WishesMet /\ sections \subseteq There /\ desk'[p] = job
        /\ \A q \in Desks \ {p} : desk'[q] = QuietDesk
    BY <2>5, BeginsAlone
  <2>3. There' = There /\ UNCHANGED <<sections, value, wish>> BY <1>2 DEF EditField, There
  <2>4. RequestFits(desk[p])' BY <2>1, <2>2, <2>3, <2>5 DEF RequestFits
  <2> QED BY <2>2, <2>3, <2>4, StillOneByOne DEF WishesMet
<1>3. ASSUME NEW p \in Desks, SaveField(p) PROVE OneByOne'
  <2>1. desk[p].f \in Fields /\ desk[p].new \in Field /\ desk[p].new.there /\ desk[p].do = "save field"
    BY <1>0, <1>3 DEF SaveField, RequestOK
  <2>2. There \subseteq There' BY <2>1, <1>3, FieldsKept DEF SaveField
  <2>3. /\ WishesMet /\ desk'[p] = QuietDesk /\ sections \subseteq There
        /\ \A q \in Desks \ {p} : desk'[q] = QuietDesk
    BY <1>3, <2>1, GoesOnAlone DEF SaveField
  <2>4. RequestFits(desk[p])' BY <2>3, QuietRequest DEF RequestFits
  <2>5. WishesMet' /\ sections' \subseteq There' BY <1>3, <2>2, <2>3 DEF SaveField, WishesMet
  <2> QED BY <2>3, <2>4, <2>5, StillOneByOne
<1>4. ASSUME NEW p \in Desks, DeleteField(p) PROVE OneByOne'
  <2>1. PICK f \in There :
          /\ Takes(p, [do |-> "read sections"])
          /\ value' = [m \in Members |-> [value[m] EXCEPT ![f] = NoValue]]
          /\ wish' = [m \in Members |-> [wish[m] EXCEPT ![f] = "nobody"]]
    BY <1>4 DEF DeleteField, SectionsAfter
  <2> DEFINE job == [do |-> "read sections"]
  <2>7. job.do = "read sections" /\ Takes(p, job) BY <2>1
  <2> HIDE DEF job
  <2>2. /\ WishesMet /\ desk'[p] = job /\ \A q \in Desks \ {p} : desk'[q] = QuietDesk BY <2>7, BeginsAlone
  <2>3. \A m \in Members : /\ wish'[m][f] = "nobody"
                           /\ \A g \in Fields \ {f} : wish'[m][g] = wish[m][g] /\ value'[m][g] = value[m][g]
    BY <1>0, <2>1
  <2>4. WishesMet' BY <2>2, <2>3 DEF WishesMet
  <2>5. desk'[p].do = "read sections" BY <2>2, <2>7
  <2>6. RequestFits(desk[p])' BY <2>5 DEF RequestFits
  <2> QED BY <2>2, <2>4, <2>5, <2>6, StillOneByOne
<1>5. ASSUME NEW p \in Desks, ReadSections(p) PROVE OneByOne'
  <2>0. PICK S : S = sections \cap There OBVIOUS
  <2> DEFINE job == [do |-> "write sections", named |-> S]
  <2>5. job.do = "write sections" /\ job.named = S /\ Turns(p, job) BY <1>5, <2>0 DEF ReadSections
  <2> HIDE DEF job
  <2>1. /\ WishesMet /\ desk'[p] = job
        /\ \A q \in Desks \ {p} : desk'[q] = QuietDesk
    BY <1>5, <2>5, GoesOnAlone DEF ReadSections
  <2>2. There' = There /\ UNCHANGED <<value, wish>> BY <1>5 DEF ReadSections, There
  <2>3. desk'[p].do = "write sections" /\ desk'[p].named = sections \cap There BY <2>0, <2>1, <2>5
  <2>4. RequestFits(desk[p])' BY <2>2, <2>3 DEF RequestFits
  <2> QED BY <2>1, <2>2, <2>3, <2>4, StillOneByOne DEF WishesMet
<1>6. ASSUME NEW p \in Desks, WriteSections(p) PROVE OneByOne'
  <2>1. /\ WishesMet /\ desk'[p] = QuietDesk /\ RequestFits(desk[p]) /\ desk[p].do = "write sections"
        /\ \A q \in Desks \ {p} : desk'[q] = QuietDesk
    BY <1>6, GoesOnAlone DEF WriteSections
  <2>2. There' = There /\ UNCHANGED <<value, wish>> /\ sections' = desk[p].named BY <1>6 DEF WriteSections, There
  <2>3. sections' \subseteq There' BY <2>1, <2>2 DEF RequestFits
  <2>4. RequestFits(desk[p])' BY <2>1, QuietRequest DEF RequestFits
  <2> QED BY <2>1, <2>2, <2>3, <2>4, StillOneByOne DEF WishesMet
<1>7. ASSUME NEW p \in Desks, EditSections(p) \/ EditRequired(p) PROVE OneByOne'
  <2>1. PICK S \in SUBSET Fields : \/ Takes(p, [do |-> "write sections", named |-> S \cap There])
                                   \/ Takes(p, [do |-> "require", all |-> S, todo |-> S])
    BY <1>7 DEF EditSections, EditRequired
  <2>6. PICK job : Takes(p, job) /\ ((job.do = "write sections" /\ job.named = S \cap There) \/ job.do = "require")
    <3>1. PICK named : named = S \cap There OBVIOUS
    <3> DEFINE write == [do |-> "write sections", named |-> named]
               require == [do |-> "require", all |-> S, todo |-> S]
    <3>2. write.do = "write sections" /\ write.named = named /\ require.do = "require" OBVIOUS
    <3>3. Takes(p, write) \/ Takes(p, require) BY <2>1, <3>1
    <3> HIDE DEF write, require
    <3> QED BY <3>1, <3>2, <3>3
  <2>2. /\ WishesMet /\ sections \subseteq There /\ \A q \in Desks \ {p} : desk'[q] = QuietDesk
        /\ desk'[p] = job
    BY <2>6, BeginsAlone
  <2>3. There' = There /\ UNCHANGED <<sections, value, wish>> BY <1>7 DEF EditSections, EditRequired, There
  <2>5. (desk'[p].do = "write sections" /\ desk'[p].named = S \cap There) \/ desk'[p].do = "require" BY <2>2, <2>6
  <2>4. RequestFits(desk[p])' BY <2>3, <2>5 DEF RequestFits
  <2> QED BY <2>2, <2>3, <2>4, StillOneByOne DEF WishesMet
<1>8. ASSUME NEW p \in Desks, Require(p) \/ RequireOnly(p) \/ Filled(p) PROVE OneByOne'
  <2>1. PICK job : Turns(p, job) /\ job.do \in {"idle", "require"}
    <3>1. CASE Require(p)
      <4>1. PICK f \in desk[p].todo :
              Turns(p, [desk[p] EXCEPT !.todo = @ \ {f}]) \/ Turns(p, QuietDesk)
        BY <3>1 DEF Require
      <4>2. desk[p] = [do |-> "require", all |-> desk[p].all, todo |-> desk[p].todo]
        BY <1>0, <3>1 DEF Require, RequestOK
      <4>3. [desk[p] EXCEPT !.todo = @ \ {f}].do = "require" BY <4>2
      <4> QED BY <4>1, <4>3, QuietRequest
    <3>2. CASE RequireOnly(p) \/ Filled(p) BY <3>2, QuietRequest DEF RequireOnly, Filled
    <3> QED BY <1>8, <3>1, <3>2
  <2>2. desk[p].do \in {"require", "row"} /\ busy' = busy BY <1>8 DEF Require, RequireOnly, Filled
  <2>3. /\ WishesMet /\ sections \subseteq There /\ desk'[p] = job /\ \A q \in Desks \ {p} : desk'[q] = QuietDesk
    BY <2>1, <2>2, GoesOnAlone
  <2>4. There' = There /\ UNCHANGED <<sections, value, wish>> BY <1>8 DEF Require, RequireOnly, Filled, There
  <2>5. RequestFits(desk[p])' BY <2>1, <2>3 DEF RequestFits
  <2> QED BY <2>3, <2>4, <2>5, StillOneByOne DEF WishesMet
<1>9. ASSUME NEW p \in Desks, EditValue(p) \/ SendOnboarding(p) \/ Sync(p) PROVE OneByOne'
  <2>0. /\ There' = There /\ UNCHANGED <<field, sections, value, wish>>
    BY <1>9 DEF EditValue, SendOnboarding, Sync, There
  <2>1. CASE SendOnboarding(p)
    <3>1. PICK m \in Members, answers \in [{f \in There : InForm(f)} -> Fillings \cup {Blank}] :
            /\ \A f \in DOMAIN answers : field[f].mandatory => answers[f] # Blank
            /\ Takes(p, FillIn(m, "onboarding", answers, "logged in"))
      BY <2>1 DEF SendOnboarding
    <3>2. /\ WishesMet /\ sections \subseteq There /\ desk'[p] = FillIn(m, "onboarding", answers, "logged in")
          /\ \A q \in Desks \ {p} : desk'[q] = QuietDesk
      BY <3>1, BeginsAlone
    <3>7. FillIn(m, "onboarding", answers, "logged in").do = "row"
          /\ FillIn(m, "onboarding", answers, "logged in").todo = answers
      BY DEF FillIn
    <3>3. desk'[p].do = "row" /\ desk'[p].todo = answers BY <3>2, <3>7
    <3>4. DOMAIN answers = {f \in There : InForm(f)} BY <3>1
    <3>5. \A f \in There : field[f].mandatory => f \in DOMAIN answers /\ answers[f] # Blank BY <3>1, <3>4 DEF InForm
    <3>6. RequestFits(desk[p])' BY <2>0, <3>1, <3>3, <3>4, <3>5 DEF RequestFits, AskedFor
    <3> QED BY <2>0, <3>2, <3>6, StillOneByOne DEF WishesMet
  <2>2. CASE EditValue(p) \/ Sync(p)
    <3>1. PICK job : Takes(p, job) /\ job.do = "row" /\ job.how # "onboarding"
      <4>1. CASE EditValue(p)
        BY <4>1 DEF EditValue, FillIn
      <4>2. CASE Sync(p)
        <5>1. PICK m \in Members, f \in There, v \in Fillings \cup {Blank} :
                Takes(p, FillIn(m, "sync", [x \in {f} |-> v], "logged in"))
          BY <4>2 DEF Sync
        <5>2. FillIn(m, "sync", [x \in {f} |-> v], "logged in").do = "row"
              /\ FillIn(m, "sync", [x \in {f} |-> v], "logged in").how = "sync"
          BY DEF FillIn
        <5> QED BY <5>1, <5>2
      <4> QED BY <2>2, <4>1, <4>2
    <3>2. /\ WishesMet /\ sections \subseteq There /\ desk'[p] = job /\ \A q \in Desks \ {p} : desk'[q] = QuietDesk
      BY <3>1, BeginsAlone
    <3>3. RequestFits(desk[p])' BY <3>1, <3>2 DEF RequestFits
    <3> QED BY <2>0, <3>2, <3>3, StillOneByOne DEF WishesMet
  <2> QED BY <1>9, <2>1, <2>2
<1>10. ASSUME NEW p \in Desks, MakeRow(p) PROVE OneByOne'
  <2>1. PICK f \in DOMAIN desk[p].todo :
         LET m == desk[p].m IN
         IF ~field[f].there THEN Turns(p, QuietDesk) /\ UNCHANGED value
         ELSE /\ value' = [value EXCEPT ![m][f].there = TRUE]
              /\ Turns(p, [do |-> "store", m |-> m, how |-> desk[p].how, todo |-> desk[p].todo,
                           access |-> desk[p].access, f |-> f, created |-> ~value[m][f].there,
                           was |-> value[m][f].access])
    BY <1>10 DEF MakeRow
  <2>2. /\ desk[p].m \in Members /\ f \in Fields /\ desk[p].do = "row" /\ busy' = busy
        /\ There' = There /\ UNCHANGED <<field, sections, wish>>
    BY <1>0, <1>10 DEF MakeRow, RequestOK, There
  <2>3. CASE ~field[f].there
    <3>1. /\ WishesMet /\ desk'[p] = QuietDesk /\ sections \subseteq There
          /\ \A q \in Desks \ {p} : desk'[q] = QuietDesk
      BY <2>1, <2>2, <2>3, GoesOnAlone
    <3>2. RequestFits(desk[p])' BY <3>1, QuietRequest DEF RequestFits
    <3> QED BY <2>1, <2>2, <2>3, <3>1, <3>2, StillOneByOne DEF WishesMet
  <2>4. CASE field[f].there
    <3>1. PICK m \in Members : m = desk[p].m BY <2>2
    <3> DEFINE job == [do |-> "store", m |-> m, how |-> desk[p].how, todo |-> desk[p].todo,
                       access |-> desk[p].access, f |-> f, created |-> ~value[m][f].there,
                       was |-> value[m][f].access]
               row == [value[m][f] EXCEPT !.there = TRUE]
    <3>2. Turns(p, job) /\ value' = [value EXCEPT ![m] = [value[m] EXCEPT ![f] = row]] BY <2>1, <2>4, <3>1
    <3>3. value[m][f] \in [there : BOOLEAN, is : Fillings \cup {Blank}, access : Readers] BY <1>0, <2>2
    <3>4. row.there /\ row.is = value[m][f].is /\ row.access = value[m][f].access BY <3>3
    <3>5. job.do = "store" /\ job.m = m /\ job.how = desk[p].how /\ job.todo = desk[p].todo /\ job.f = f
          /\ (job.created <=> ~value[m][f].there) /\ job.was = value[m][f].access
      OBVIOUS
    <3> HIDE DEF job, row
    <3>6. /\ WishesMet /\ desk'[p] = job /\ sections \subseteq There /\ RequestFits(desk[p])
          /\ \A q \in Desks \ {p} : desk'[q] = QuietDesk
      BY <2>2, <3>2, GoesOnAlone
    <3>7. /\ value'[m][f] = row
          /\ \A n \in Members, g \in Fields : (n # m \/ g # f) => value'[n][g] = value[n][g]
      BY <1>0, <2>2, <3>2
    <3>8. \A n \in Members, g \in Fields : /\ value[n][g].there => value'[n][g].there
                                           /\ value'[n][g].is = value[n][g].is
                                           /\ value'[n][g].access = value[n][g].access
      BY <3>4, <3>7
    <3>9. WishesMet' BY <2>2, <3>6, <3>8 DEF WishesMet
    <3>10. /\ desk'[p].do = "store" /\ desk'[p].m = m /\ desk'[p].how = desk[p].how /\ desk'[p].todo = desk[p].todo
           /\ desk'[p].f = f /\ (desk'[p].created <=> ~value[m][f].there) /\ desk'[p].was = value[m][f].access
      BY <3>5, <3>6
    <3>11. ASSUME desk[p].how = "onboarding", NEW g \in There, field[g].mandatory PROVE AskedFor(desk[p], g)'
      <4>1. (g \in DOMAIN desk[p].todo /\ desk[p].todo[g] # Blank) \/ (value[m][g].there /\ value[m][g].is # Blank)
        BY <2>2, <3>1, <3>6, <3>11 DEF RequestFits, AskedFor
      <4>2. g \in Fields BY <1>0
      <4> QED BY <3>8, <3>10, <4>1, <4>2 DEF AskedFor
    <3>12. desk[p].how = "onboarding" =>
             \A g \in DOMAIN desk[p].todo : g \in There /\ (field[g].mandatory => desk[p].todo[g] # Blank)
      BY <2>2, <3>6 DEF RequestFits
    <3>13. ~value[m][f].there => wish[m][f] # "owner" BY <2>2, <3>6 DEF WishesMet
    <3>14. value'[m][f].access = value[m][f].access /\ wish'[m][f] = wish[m][f] BY <2>2, <3>8
    <3>15. RequestFits(desk[p])' BY <2>2, <3>10, <3>11, <3>12, <3>13, <3>14 DEF RequestFits
    <3> QED BY <2>2, <3>6, <3>9, <3>15, StillOneByOne
  <2> QED BY <2>3, <2>4
<1>11. ASSUME NEW p \in Desks, StoreValue(p) PROVE OneByOne'
  <2>1. /\ RequestOK(desk[p]) /\ desk[p].do = "store"
        /\ desk[p].m \in Members /\ desk[p].f \in Fields /\ desk[p].f \in DOMAIN desk[p].todo /\ DOMAIN desk[p].todo \subseteq Fields
    BY <1>0, <1>11 DEF StoreValue, RequestOK
  <2>2. There' = There /\ UNCHANGED <<field, sections, busy>> BY <1>11 DEF StoreValue, There
  <2>3. CASE ~field[desk[p].f].there
    <3>1. Turns(p, QuietDesk) /\ UNCHANGED <<value, wish>> BY <1>11, <2>3 DEF StoreValue
    <3>2. /\ WishesMet /\ desk'[p] = QuietDesk /\ sections \subseteq There
          /\ \A q \in Desks \ {p} : desk'[q] = QuietDesk
      BY <2>1, <2>2, <3>1, GoesOnAlone
    <3>3. RequestFits(desk[p])' BY <3>2, QuietRequest DEF RequestFits
    <3> QED BY <2>2, <3>1, <3>2, <3>3, StillOneByOne DEF WishesMet
  <2>4. CASE field[desk[p].f].there
    <3>1. PICK m \in Members, f \in Fields : m = desk[p].m /\ f = desk[p].f BY <2>1
    <3> DEFINE row == [there |-> TRUE, is |-> desk[p].todo[f], access |-> Access(desk[p])]
               rest == [x \in DOMAIN desk[p].todo \ {f} |-> desk[p].todo[x]]
    <3>2. /\ value' = [value EXCEPT ![m] = [value[m] EXCEPT ![f] = row]]
          /\ wish' = IF desk[p].how = "edit" THEN [wish EXCEPT ![m] = [wish[m] EXCEPT ![f] = desk[p].access]] ELSE wish
          /\ Turns(p, FillIn(m, desk[p].how, rest, desk[p].access))
      BY <1>11, <2>4, <3>1 DEF StoreValue
    <3>3. row.there /\ row.is = desk[p].todo[f] /\ row.access = Access(desk[p]) OBVIOUS
    <3>4. /\ WishesMet /\ desk'[p] = FillIn(m, desk[p].how, rest, desk[p].access) /\ sections \subseteq There
          /\ RequestFits(desk[p]) /\ \A q \in Desks \ {p} : desk'[q] = QuietDesk
      BY <2>1, <2>2, <3>2, GoesOnAlone
    <3>5. /\ desk'[p].do = "row" /\ desk'[p].m = m /\ desk'[p].how = desk[p].how
          /\ DOMAIN desk'[p].todo = DOMAIN desk[p].todo \ {f}
          /\ \A g \in DOMAIN desk[p].todo \ {f} : desk'[p].todo[g] = desk[p].todo[g]
      BY <3>4 DEF FillIn
    <3> HIDE DEF row, rest
    <3>6. /\ value'[m][f] = row
          /\ \A n \in Members, g \in Fields : (n # m \/ g # f) => value'[n][g] = value[n][g]
      BY <1>0, <3>2
    <3>7. /\ wish'[m][f] = IF desk[p].how = "edit" THEN desk[p].access ELSE wish[m][f]
          /\ \A n \in Members, g \in Fields : (n # m \/ g # f) => wish'[n][g] = wish[n][g]
      BY <1>0, <3>2
    <3>8. wish'[m][f] = "owner" => row.access = "owner"
      <4>1. CASE desk[p].how = "edit" BY <3>3, <3>7, <4>1 DEF Access
      <4>2. CASE desk[p].how # "edit"
        <5>1. IF desk[p].created THEN wish[m][f] # "owner" ELSE desk[p].was = value[m][f].access
          BY <2>1, <3>1, <3>4 DEF RequestFits
        <5>2. wish[m][f] = "owner" => value[m][f].access = "owner" BY <3>4 DEF WishesMet
        <5> QED BY <3>3, <3>7, <4>2, <5>1, <5>2 DEF Access
      <4> QED BY <4>1, <4>2
    <3>9. WishesMet'
      BY <3>3, <3>6, <3>8, <3>4, <3>7 DEF WishesMet
    <3>10. ASSUME desk[p].how = "onboarding", NEW g \in There, field[g].mandatory PROVE AskedFor(desk[p], g)'
      <4>1. /\ (g \in DOMAIN desk[p].todo /\ desk[p].todo[g] # Blank) \/ (value[m][g].there /\ value[m][g].is # Blank)
            /\ g \in DOMAIN desk[p].todo => desk[p].todo[g] # Blank
        BY <2>1, <3>1, <3>4, <3>10 DEF RequestFits, AskedFor
      <4>2. g \in Fields BY <1>0
      <4>3. CASE g = f
        <5>1. desk[p].todo[g] # Blank BY <2>1, <3>1, <4>1, <4>3
        <5> QED BY <3>3, <3>5, <3>6, <4>3, <5>1 DEF AskedFor
      <4>4. CASE g # f BY <3>5, <3>6, <4>1, <4>2, <4>4 DEF AskedFor
      <4> QED BY <4>3, <4>4
    <3>11. desk[p].how = "onboarding" =>
             \A g \in DOMAIN desk'[p].todo : g \in There /\ (field[g].mandatory => desk'[p].todo[g] # Blank)
      BY <2>1, <3>4, <3>5 DEF RequestFits
    <3>12. RequestFits(desk[p])' BY <2>2, <3>5, <3>10, <3>11 DEF RequestFits
    <3> QED BY <2>2, <3>4, <3>9, <3>12, StillOneByOne
  <2> QED BY <2>3, <2>4
<1>12. CASE UNCHANGED profiles
  <2>1. UNCHANGED <<field, sections, value, wish, desk, busy>> BY <1>12 DEF profiles
  <2>2. There' = There BY <2>1 DEF There
  <2>3. OneRequest' = OneRequest /\ SectionsInHand' = SectionsInHand /\ WishesMet' = WishesMet
    BY <2>1, <2>2 DEF OneRequest, SectionsInHand, WishesMet
  <2>4. ASSUME NEW p \in Desks, RequestFits(desk[p]) PROVE RequestFits(desk[p])'
    BY <2>1, <2>2, <2>4 DEF AskedFor, RequestFits
  <2> QED BY <2>1, <2>3, <2>4 DEF OneByOne
<1> QED BY <1>1, <1>2, <1>3, <1>4, <1>5, <1>6, <1>7, <1>8, <1>9, <1>10, <1>11, <1>12 DEF ProfilesNext, ProfilesStep

\* For any fields, members and processes: with requests one after the other
\* profiles can be opened, who sent the onboarding form is not asked again and
\* nobody is shown what its owner keeps to herself (core/models/user.py,
\* core/views.py onboarding, profile_sync/views.py).
THEOREM ProfilesHold == ProfilesSpec => []ProfilesSound
<1>1. ProfilesInit => OneByOne
  <2> SUFFICES ASSUME ProfilesInit PROVE OneByOne OBVIOUS
  <2>1. \A p \in Desks : desk[p] = QuietDesk BY DEF ProfilesInit
  <2>2. sections \subseteq There /\ \A m \in Members, f \in Fields : wish[m][f] = "nobody" BY DEF ProfilesInit, There
  <2> QED BY <2>1, <2>2, QuietRequest DEF OneByOne, OneRequest, SectionsInHand, WishesMet, RequestFits
<1>2. ProfilesTyped /\ OneByOne => ProfilesSound
  <2> SUFFICES ASSUME ProfilesTyped, OneByOne PROVE ProfilesSound OBVIOUS
  <2>1. ProfilesOpen BY QuietRequest DEF OneByOne, SectionsInHand, ProfilesOpen, AllQuiet, ProfileShown
  <2>2. OnboardingEnds BY DEF OneByOne, RequestFits, AskedFor, OnboardingEnds, Complete
  <2>3. WishKept BY DEF OneByOne, WishesMet, WishKept, Visible
  <2> QED BY <2>1, <2>2, <2>3 DEF ProfilesTyped, ProfilesSound
<1> QED BY <1>1, <1>2, ProfilesTypedInit, ProfilesTypedStep, OneByOneStep, PTL DEF ProfilesSpec
=============================================================================
