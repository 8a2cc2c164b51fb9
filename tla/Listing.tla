------------------------------ MODULE Listing ------------------------------
(***************************************************************************)
(* Lists of posts, read page by page, and opening what they show           *)
(* (core/resolvers/query_entities.py, activity/resolvers/query.py,         *)
(* core/resolvers/query_entity_filters.py, query_recommended.py, query.py, *)
(* the managers in core/models/entity.py).                                 *)
(*                                                                         *)
(* A page is an offset and a limit in a query that is asked anew for every *)
(* page, while posts are published, archived, pinned, commented on and     *)
(* deleted.  The total is counted in a statement of its own, before.       *)
(***************************************************************************)
EXTENDS Naturals, Sequences, FiniteSets

CONSTANTS
  Listables,
  Kind,        \* Kind[p]: its subtype, or what is special about it
  Writer,      \* Writer[p]: its owner
  Where,       \* Where[p]: its group
  ReadTokens,      \* Tokens[p]: read_access
  Viewers, Admins,
  AclOf,         \* Acl[v]: the tokens v holds, those of the groups he is a full member of included
  ClosedGroups,
  Browsers,
  Queries,     \* the lists that are asked for
  Limit,       \* posts on a page
  MaxHour, MaxAlters, MaxVisitors   \* bounds

Nowhere == "no group"
Anonymous  == "nobody"      \* AnonymousUser
Undated   == 0             \* published is null

ASSUME ListingAssumption ==
  /\ Limit \in Nat \ {0} /\ MaxHour \in Nat /\ MaxAlters \in Nat /\ MaxVisitors \in Nat
  /\ Admins \subseteq Viewers /\ Anonymous \notin Viewers

VARIABLES
  entry,       \* row[p]: what lists look at
  hour,     \* the time
  views,     \* views[p][v]: the EntityView rows of v for p
  count,     \* count[p]: the EntityViewCount of p
  browser,   \* browser[b]: what b has asked for and been shown
  spent       \* history: changes and visitors so far; whether two visitors met; whether a post was deleted under one

listing == <<entry, hour, views, count, browser, spent>>

NoCount == 0
Shut  == [do |-> "closed"]
Someone == Viewers \cup {Anonymous}
IsAdmin(v) == v \in Admins
Holds(v)   == IF v = Anonymous THEN {"public"} ELSE AclOf[v]
FullMemberOf(v, g) == v # Anonymous /\ g \in AclOf[v]

(***************************************************************************)
(* EntityManager.                                                          *)
(***************************************************************************)
Published(p) == entry[p].published # Undated /\ entry[p].published <= hour
MayList(v, p) == IsAdmin(v) \/ ReadTokens[p] \cap Holds(v) # {}

ListVisible(v)  == {p \in Listables : entry[p].there /\ Published(p) /\ ~entry[p].archived /\ MayList(v, p)}
ListDraft(v)    == {p \in Listables : entry[p].there /\ ~Published(p) /\ v # Anonymous /\ (IsAdmin(v) \/ Writer[p] = v)}
ListArchived(v) == {p \in Listables : entry[p].there /\ entry[p].archived /\ MayList(v, p)}

\* status_published: the three are asked for together.
\* Mutant of InStatus: what is archived is published as well.
InStatusArchived(v, status) ==
  CASE status = "published" -> {p \in Listables : entry[p].there /\ Published(p) /\ MayList(v, p)}
    [] status = "draft"     -> ListDraft(v)
    [] status = "archived"  -> ListArchived(v)
InStatus(v, status) ==
  CASE status = "published" -> ListVisible(v)
    [] status = "draft"     -> ListDraft(v)
    [] status = "archived"  -> ListArchived(v)

\* Entity.status_published, the property.
StatusOf(p) == IF entry[p].archived THEN "archived" ELSE IF Published(p) THEN "published" ELSE "draft"

(***************************************************************************)
(* The filters of a query.                                                 *)
(***************************************************************************)
\* EntityFilterBase and its kinds: without subtypes all of them, of which the
\* stream of activities knows fewer; sub-events are in no list, and events with
\* index_item off are listed only where events alone are asked for.
Streamed == {"news", "blog", "event", "hidden event", "question"}
OfKind(q, p) ==
  CASE Kind[p] = "sub-event"    -> FALSE
    [] Kind[p] = "hidden event" -> q.subtypes = {"event"}
    [] OTHER -> IF q.subtypes = {} THEN q.view = "entities" \/ Kind[p] \in Streamed
                ELSE Kind[p] \in q.subtypes

Matching(q) ==
  {p \in (IF q.status = {} THEN ListVisible(q.by) ELSE UNION {InStatus(q.by, s) : s \in q.status}) :
     /\ OfKind(q, p)
     /\ q.group # "any" => Where[p] = q.group}

\* The key of the order: a pinned post first if so asked; null sorts as the
\* newest.
Key(q, p) ==
  LET k == IF q.order = "last action" THEN entry[p].acted
           ELSE IF entry[p].published = Undated THEN MaxHour + 2 ELSE entry[p].published
  IN  IF q.pinned /\ entry[p].pinned THEN k + MaxHour + 3 ELSE k

\* Equal keys come in any order, which may differ from query to query.
Arrangements(S) == {s \in [1..Cardinality(S) -> S] : \A i, j \in DOMAIN s : i # j => s[i] # s[j]}
\* Mutant of Ordered: the order is not asked for.
OrderedAnyhow(q) == Arrangements(Matching(q))
Ordered(q) == {s \in Arrangements(Matching(q)) : \A i, j \in DOMAIN s : i < j => Key(q, s[i]) >= Key(q, s[j])}

\* Mutant of Slice: no limit.
SliceOpenEnded(s, offset) == SubSeq(s, offset + 1, Len(s))
\* Mutant of Slice: the limit is taken for the end.
SliceToLimit(s, offset) == SubSeq(s, offset + 1, IF Limit < Len(s) THEN Limit ELSE Len(s))
Slice(s, offset) == SubSeq(s, offset + 1, IF offset + Limit < Len(s) THEN offset + Limit ELSE Len(s))

(***************************************************************************)
(* A change is noted in the lists that are being read: those who stay, and *)
(* whether someone left or moved.                                          *)
(***************************************************************************)
Reading(b) == browser[b].do \in {"count", "slice", "read"}
Visiting(b) == browser[b].do \in {"look", "tell", "make", "add", "save"}
ShownOn(b) == {browser[b].shown[i] : i \in DOMAIN browser[b].shown}
AfterNotice(b) ==
  LET q == browser[b].query IN
  [browser[b] EXCEPT !.still = @ \cap [r \in Queries |-> Matching(r)'][q],
                     !.same  = FALSE,
                     !.left  = @ \/ q \in {r \in Queries : \E p \in Matching(r) : p \notin Matching(r)' \/ Key(r, p) # Key(r, p)'}]
Noted == browser' = [b \in Browsers |-> IF Reading(b) THEN AfterNotice(b) ELSE browser[b]]

Alter(p, new) ==
  /\ spent.alters < MaxAlters /\ spent' = [spent EXCEPT !.alters = @ + 1]
  /\ entry' = [entry EXCEPT ![p] = new]
  /\ UNCHANGED <<hour, views, count>>
  /\ Noted

HourPasses ==
  /\ hour < MaxHour /\ hour' = hour + 1
  /\ UNCHANGED <<entry, views, count, spent>>
  /\ Noted

\* update_publication_dates, with a date or none.
SetPublished(p) ==
  /\ entry[p].there
  /\ \E t \in {Undated, hour, hour + 1} \ {entry[p].published} :
       Alter(p, [entry[p] EXCEPT !.published = t, !.acted = IF t > @ THEN t ELSE @])

ArchivePost(p) == entry[p].there /\ Alter(p, [entry[p] EXCEPT !.archived = ~@])
Pin(p)     == entry[p].there /\ Where[p] # Nowhere /\ Alter(p, [entry[p] EXCEPT !.pinned = ~@])
CommentOn(p) == entry[p].there /\ entry[p].acted < hour /\ Alter(p, [entry[p] EXCEPT !.acted = hour])
\* The views and their count go with it.
RemovePost(p) ==
  /\ entry[p].there /\ spent.alters < MaxAlters
  /\ spent' = [spent EXCEPT !.alters = @ + 1, !.under = @ \/ \E b \in Browsers : Visiting(b) /\ browser[b].post = p]
  /\ entry' = [entry EXCEPT ![p].there = FALSE]
  /\ views' = [views EXCEPT ![p] = [v \in Someone |-> 0]] /\ count' = [count EXCEPT ![p] = NoCount]
  /\ UNCHANGED hour
  /\ Noted

(***************************************************************************)
(* Reading a list.                                                         *)
(***************************************************************************)
OpenList(b) ==
  /\ browser[b] = Shut
  /\ \E q \in Queries :
       browser' = [browser EXCEPT ![b] = [do |-> "count", query |-> q, offset |-> 0, total |-> 0, shown |-> <<>>, said |-> {},
                                          still |-> Matching(q), same |-> TRUE, left |-> FALSE]]
  /\ UNCHANGED <<entry, hour, views, count, spent>>

CountAll(b) ==
  /\ browser[b].do = "count"
  /\ browser' = [browser EXCEPT ![b].do = "slice", ![b].total = Cardinality(Matching(browser[b].query))]
  /\ UNCHANGED <<entry, hour, views, count, spent>>

ReadPage(b) ==
  /\ browser[b].do = "slice"
  /\ \E s \in Ordered(browser[b].query) :
       LET page == Slice(s, browser[b].offset) IN
       browser' = [browser EXCEPT
         ![b].shown  = @ \o page,
         ![b].said   = @ \cup {StatusOf(page[i]) : i \in DOMAIN page},
         ![b].offset = @ + Limit,
         ![b].do     = IF Len(page) < Limit THEN "read" ELSE "count"]
  /\ UNCHANGED <<entry, hour, views, count, spent>>

CloseList(b) ==
  /\ browser[b].do \in {"read", "found", "missing"}
  /\ browser' = [browser EXCEPT ![b] = Shut]
  /\ UNCHANGED <<entry, hour, views, count, spent>>

(***************************************************************************)
(* Opening a post: resolve_entity.                                         *)
(***************************************************************************)
\* Mutant of Opens: an archived post is not looked for.
OpensNoArchive(v) == ListVisible(v) \cup ListDraft(v)
Opens(v) ==
  {p \in ListVisible(v) : Where[p] \notin ClosedGroups \/ FullMemberOf(v, Where[p]) \/ IsAdmin(v)}
    \cup ListDraft(v) \cup ListArchived(v)

\* From a list, by the one who reads it.
FollowLink(b) ==
  /\ browser[b].do = "read"
  /\ \E p \in ShownOn(b) :
       browser' = [browser EXCEPT ![b] = [do |-> IF p \in Opens(@.query.by) THEN "found" ELSE "missing", by |-> @.query.by, post |-> p, same |-> @.same]]
  /\ UNCHANGED <<entry, hour, views, count, spent>>

VisitPost(b) ==
  /\ browser[b] = Shut /\ spent.visitors < MaxVisitors
  /\ spent' = [spent EXCEPT !.visitors = @ + 1, !.met = @ \/ \E c \in Browsers \ {b} : Visiting(c)]
  /\ \E v \in Someone, p \in Listables :
       /\ p \in Opens(v)
       /\ browser' = [browser EXCEPT ![b] = [do |-> "look", by |-> v, post |-> p, copy |-> entry[p]]]
  /\ UNCHANGED <<entry, hour, views, count>>

\* increment_view_count: the row of this view, which needs the post's, ...
AddView(b) ==
  /\ browser[b].do = "look"
  /\ IF entry[browser[b].post].there
     THEN /\ views' = [views EXCEPT ![browser[b].post][browser[b].by] = @ + 1]
          /\ browser' = [browser EXCEPT ![b].do = "tell"]
     ELSE browser' = [browser EXCEPT ![b] = Shut] /\ UNCHANGED views
  /\ UNCHANGED <<entry, hour, count, spent>>

\* ... whether it is his first, ...
\* Mutant of FirstView: asked as if before the row was made.
FirstViewZero(v, p) == views[p][v] = 0
FirstView(v, p) == views[p][v] = 1
TellFirst(b) ==
  /\ browser[b].do = "tell"
  /\ LET p == browser[b].post IN
     browser' = [browser EXCEPT ![b].do = IF ~FirstView(browser[b].by, p) THEN "save"
                                          ELSE IF count[p] # NoCount THEN "add" ELSE "make"]
  /\ UNCHANGED <<entry, hour, views, count, spent>>

\* ... the count, which is one to one: the second that makes it fails, and an
\* update of a row that is gone does nothing, ...
Tally(b) ==
  /\ browser[b].do \in {"make", "add"}
  /\ LET p == browser[b].post IN
     IF browser[b].do = "make" /\ (count[p] # NoCount \/ ~entry[p].there)
     THEN browser' = [browser EXCEPT ![b] = Shut] /\ UNCHANGED count
     ELSE /\ count' = [count EXCEPT ![p] = IF browser[b].do = "add" /\ @ = NoCount THEN @ ELSE @ + 1]
          /\ browser' = [browser EXCEPT ![b].do = "save"]
  /\ UNCHANGED <<entry, hour, views, spent>>

\* ... and the post itself, from the copy that was loaded: a deleted one is
\* inserted again.
SavePost(b) ==
  /\ browser[b].do = "save"
  /\ entry' = [entry EXCEPT ![browser[b].post] = browser[b].copy]
  /\ UNCHANGED <<hour, views, count, spent>>
  /\ browser' = [c \in Browsers |-> IF c = b THEN Shut ELSE IF Reading(c) THEN AfterNotice(c) ELSE browser[c]]

-----------------------------------------------------------------------------
SomeRows == [there : {TRUE}, published : {Undated, 1, 2}, archived : {FALSE}, pinned : {FALSE}, acted : {1}]
ListingInit ==
  /\ entry \in [Listables -> SomeRows]
  /\ hour = 2
  /\ views = [p \in Listables |-> [v \in Someone |-> 0]]
  /\ count = [p \in Listables |-> NoCount]
  /\ browser = [b \in Browsers |-> Shut]
  /\ spent = [alters |-> 0, visitors |-> 0, met |-> FALSE, under |-> FALSE]

ListingNext ==
  \/ HourPasses
  \/ \E p \in Listables : SetPublished(p) \/ ArchivePost(p) \/ Pin(p) \/ CommentOn(p) \/ RemovePost(p)
  \/ \E b \in Browsers : \/ OpenList(b) \/ CountAll(b) \/ ReadPage(b) \/ CloseList(b) \/ FollowLink(b)
                         \/ VisitPost(b) \/ AddView(b) \/ TellFirst(b) \/ Tally(b) \/ SavePost(b)
ListingSpec == ListingInit /\ [][ListingNext]_listing

(***************************************************************************)
(* Properties.                                                             *)
(***************************************************************************)
ListingTypeOK ==
  /\ entry \in [Listables -> [there : BOOLEAN, published : 0..(MaxHour + 1), archived : BOOLEAN, pinned : BOOLEAN, acted : 0..(MaxHour + 1)]]
  /\ hour \in 0..MaxHour
  /\ views \in [Listables -> [Someone -> 0..MaxVisitors]]
  /\ count \in [Listables -> 0..MaxVisitors]
  /\ \A b \in Browsers : browser[b].do \in {"count", "slice", "read"} =>
       browser[b].total \in 0..Cardinality(Listables) /\ Len(browser[b].shown) <= browser[b].offset

Distinct(q) == \A p, r \in Matching(q) : p # r => Key(q, p) # Key(q, r)

\* If nothing changes meanwhile and no two posts have the same place, the pages
\* of a list show every post of it once, and as many as the total says.
PagesComplete ==
  \A b \in Browsers : browser[b].do = "read" /\ browser[b].same /\ Distinct(browser[b].query) =>
    /\ ShownOn(b) = Matching(browser[b].query)
    /\ Len(browser[b].shown) = Cardinality(ShownOn(b)) /\ browser[b].total = Len(browser[b].shown)

\* New posts may make the pages show a post twice, never miss one that is
\* there all the time: for that one has to leave the list or move in it.
NoneMissed ==
  \A b \in Browsers : browser[b].do = "read" /\ ~browser[b].left /\ Distinct(browser[b].query) =>
    browser[b].still \subseteq ShownOn(b)

\* A list by status shows posts that say they have it, but for a draft that is
\* archived, which is among the drafts too.
StatusTrue ==
  \A b \in Browsers : Reading(b) =>
    LET asked == IF browser[b].query.status = {} THEN {"published"} ELSE browser[b].query.status
    IN  \A s \in browser[b].said : s \in asked \/ (s = "archived" /\ "draft" \in asked)

\* Whoever follows a link of a list that is still up to date can open the post,
\* but for what he wrote himself in a closed group that he has left: his own
\* token lists it, and resolve_entity asks for the membership.
LeftBehind(v, p) == Writer[p] = v /\ Where[p] \in ClosedGroups /\ ~FullMemberOf(v, Where[p])
ListedOpens ==
  \A b \in Browsers : browser[b].do = "missing" => ~browser[b].same \/ LeftBehind(browser[b].by, browser[b].post)

\* A view counts once for each who opens a post; with one visitor at a time it
\* is counted for each.  Not when the post is deleted under a visitor whose save
\* brings it back.
ViewersOf(p) == Cardinality({v \in Someone : views[p][v] > 0})
ViewsCounted ==
  \A p \in Listables :
    /\ ~spent.under => count[p] <= ViewersOf(p)
    /\ ~spent.met /\ (\A b \in Browsers : ~Visiting(b)) => count[p] = ViewersOf(p)

\* What a reader can rely on while he pages through a list and opens posts.
ListingSound == ListingTypeOK /\ PagesComplete /\ NoneMissed /\ StatusTrue /\ ListedOpens /\ ViewsCounted
=============================================================================
