------------------------------- MODULE MCPages -------------------------------
(***************************************************************************)
(* The scenes of MCEventAttendance, and those of the pages for TLC: lists  *)
(* read page by page (Listing), what a page offers (Offers), and the tags  *)
(* of posts (Tags).  The scene says what moves; the rest stays in one      *)
(* initial state.                                                          *)
(***************************************************************************)
EXTENDS MCEventAttendance, Listing, Offers, Tags

CONSTANTS p1, p2, p3, g, b1, b2, t1, t2, t3, blog, quest

\* Lists: two posts of a closed group and an event of ann's outside, read by ann,
\* a member of the group, by bob, an administrator who is not, and by cat, who
\* wrote one of the posts and has left.  Every row carries its owner's token.
KindOf   == p1 :> "blog" @@ p2 :> "hidden event" @@ p3 :> "event"
WriterOf == p1 :> ann @@ p2 :> cat @@ p3 :> ann
WhereOf  == p1 :> g @@ p2 :> g @@ p3 :> Nowhere
TokensOf == p1 :> {ann, g} @@ p2 :> {cat, g} @@ p3 :> {ann, "public"}
AclOfAll == ann :> {"public", "logged in", ann, g} @@ bob :> {"public", "logged in", bob} @@ cat :> {"public", "logged in", cat}
Query(view, by, subtypes, status, group, pinned, order) ==
  [view |-> view, by |-> by, subtypes |-> subtypes, status |-> status, group |-> group, pinned |-> pinned, order |-> order]
SomeQueries == {Query("entities", ann, {}, {}, "any", FALSE, "published"),
                Query("activities", ann, {}, {"published"}, g, TRUE, "last action"),
                Query("entities", bob, {"event"}, {"archived", "draft"}, Nowhere, FALSE, "published"),
                Query("entities", cat, {"event"}, {}, "any", FALSE, "published")}

\* Offers: tabs of ann, of bob and of a visitor, on a post at a time and on the
\* group, or on the group and the two persons.
AuthorsOf == blog :> ann @@ quest :> ann @@ ev :> bob
SortOf    == blog :> "blog" @@ quest :> "question" @@ ev :> "event"
TabsOf    == t1 :> ann @@ t2 :> bob @@ t3 :> Visitor

VARIABLE pages   \* the scene of the pages, or "none"

OnScene == "blog" :> blog @@ "question" :> quest @@ "event" :> ev
Offering == DOMAIN OnScene \cup {"people"}

StillEvents ==
  /\ rows = [e \in Events |-> [p \in Emails |-> NoRow]]
  /\ maxAtt = [e \in Events |-> 1]
  /\ scene = "alone"
ListsInit ==
  /\ ListingInit
  /\ IF pages = "listing" THEN entry[p2].published = 1 /\ entry[p3].published = 1 ELSE \A p \in Listables : entry[p].published = 1
TabsInit ==
  /\ OffersInit
  /\ ~person[ann].admin
  /\ pages # "people" => standing[ann] # "admin"
  /\ pages \notin {"blog", "people"} => standing[ann] = "owner" /\ standing[bob] = "member"
  /\ pages \notin Offering => ~person[bob].admin
  /\ \A p \in Pages : pages # "question" \/ p # quest => said[p] = {} /\ ~page[p].closed
  /\ said[quest] \subseteq {bob}

PagesInit ==
  /\ pages \in Offering \cup {"listing", "viewing", "tagging", "none"}
  /\ ListsInit /\ TabsInit /\ TagsInit
  /\ pages # "none" => StillEvents
  /\ MCInit

\* Reading with one browser while posts change; two browsers that open posts.
ListsNext ==
  /\ ListingNext
  /\ IF pages = "listing" THEN /\ spent'.visitors = 0 /\ browser'[b2] = Shut
                             /\ (hour' = 2 \/ spent'.alters <= 1)
     ELSE /\ hour' = hour /\ spent'.alters <= 1
          /\ \A b \in Browsers : ~Reading(b)' /\ (Visiting(b)' => browser'[b].post # p2)

OnTab(t) ==
  CASE t = t3 -> IF pages = "event" THEN {ev} ELSE {}
    [] pages = "people" -> {TheGroup} \cup People
    [] t = t1 -> {OnScene[pages]}
    [] t = t2 -> {OnScene[pages]} \cup (IF last.presses = 0 /\ pages = "blog" THEN {TheGroup} ELSE {})
TabsNext ==
  /\ OffersNext
  /\ \A t \in Tabs : tab'[t] = Blank \/ tab'[t].on \in OnTab(t)
  /\ last'.presses <= 2

PagesNext ==
  /\ UNCHANGED pages
  /\ \/ pages = "none" /\ UNCHANGED <<listing, offers, tagging>> /\ MCNext
     \/ pages \in {"listing", "viewing"} /\ UNCHANGED <<vars, scene, offers, tagging>> /\ ListsNext
     \/ pages \in Offering /\ UNCHANGED <<vars, scene, listing, tagging>> /\ TabsNext
     \/ pages = "tagging" /\ UNCHANGED <<vars, scene, listing, offers>> /\ TagsNext
PagesSpec == PagesInit /\ [][PagesNext]_<<vars, scene, listing, offers, tagging, pages>>


\* What no step does: seat somebody out of turn, change a locked question or the
\* best answer of a closed one, merge tags and list a post under one of them only.
PagesKept == SeatedInOrder /\ NoQueueJumping /\ LockHolds /\ BestWhileOpen /\ MergeUnites
=============================================================================
