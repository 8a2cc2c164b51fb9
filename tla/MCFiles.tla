------------------------------- MODULE MCFiles -------------------------------
(***************************************************************************)
(* Instances of FileReferences, two scenes of ContentFeed (one source      *)
(* read by one worker for some hours, and two sources read by two workers  *)
(* within the hour), and one of PageTree: two requests at once on the wikis *)
(* of two groups and a page.  The part says what moves.                    *)
(***************************************************************************)
EXTENDS FileReferences, ContentFeed, PageTree

CONSTANTS w1, w2, f1, f2, d1, d2, page, task, s1, s2, a, b, r, x, y, z, o, n, g, h

VARIABLE part   \* "filing", "hours", "together" or "tree"

OneOrTwo == {{w1}, {w1, w2}}

\* A personal file; a folder of the group with a file and another folder; two
\* personal folders, one with a file.
Here(group, parent) == [group |-> group, parent |-> parent, old |-> FALSE]
Empty    == [i \in Items |-> Unused]
Loose    == [Empty EXCEPT ![f1] = Here(FALSE, Root)]
InGroup  == [Empty EXCEPT ![d1] = Here(TRUE, Root), ![d2] = Here(TRUE, d1), ![f1] = Here(TRUE, d1)]
AtHome   == [Empty EXCEPT ![d1] = Here(FALSE, Root), ![d2] = Here(FALSE, Root), ![f1] = Here(FALSE, d1)]
SomeLayouts == {Loose, InGroup, AtHome}

\* One process alone; one that copies and may die; two side by side.
Writing == {"write", "unpost", "attach", "delete", "logo"}
Posting == {"write", "upload", "delete"}
Ending  == {"write", "ungroup"}
Filing  == {"upload", "attach", "move", "edit", "delete"}
Dying   == {"write", "unpost", "copy", "crash"}
Sharing == {"write", "move", "delete", "scan"}
SomeOffers == {Writing, Posting, Ending, Filing, Dying, Sharing}

Sided == (Cardinality(crew) > 1) <=> (offer = Sharing)
\* A wiki with three sub-wikis; one with a wiki and a wiki under that, and a
\* wiki of the other group; a page with a page under it.
Stand(parent, group, born) == [parent |-> parent, group |-> group, position |-> 0, born |-> born]
Bare  == [q \in Leaves |-> Missing]
Wide  == [Bare EXCEPT ![r] = Stand(Top, g, 1), ![x] = Stand(r, g, 2), ![y] = Stand(r, g, 3), ![z] = Stand(r, g, 4)]
Deep  == [Bare EXCEPT ![r] = Stand(Top, g, 1), ![x] = Stand(r, g, 2), ![y] = Stand(x, g, 3), ![z] = Stand(Top, h, 4)]
Paged == [Bare EXCEPT ![o] = Stand(Top, Outside, 1), ![n] = Stand(o, Outside, 2)]
SomeForests == {Wide, Deep, Paged}

FilesInit ==
  /\ part \in {"filing", "hours", "together", "tree"}
  /\ Init /\ Sided /\ FeedInit /\ TreeInit
  /\ part # "filing" => crew = {w1} /\ offer = Writing /\ item = InGroup
  /\ part # "tree" => leaf = Wide
  /\ part # "together" => DOMAIN remote[b] = {}
  /\ part = "together" => DOMAIN remote[a] \cup DOMAIN remote[b] \subseteq {1}
  /\ part \in {"filing", "tree"} => DOMAIN remote[a] = {}

\* The other source and the other worker rest; the tags stay, the feed is enabled.
Hours == /\ fetcher'[s2] = Resting /\ lock' \subseteq {a}
         /\ source'[b] = source[b] /\ remote'[b] = remote[b] /\ "own" \notin tagging'.names /\ tagging'.enabled
Together == hour' = 0 /\ spent'.turns <= 1 /\ \A s \in Sources : DOMAIN remote'[s] \subseteq {1}

FilesNext ==
  /\ UNCHANGED part
  /\ \/ part = "filing" /\ UNCHANGED <<feed, tree>> /\ Next
     \/ part = "hours" /\ UNCHANGED <<vars, tree>> /\ FeedNext /\ Hours
     \/ part = "together" /\ UNCHANGED <<vars, tree>> /\ FeedNext /\ Together
     \/ part = "tree" /\ UNCHANGED <<vars, feed>> /\ TreeNext
FilesSpec ==
  /\ FilesInit /\ [][FilesNext]_<<vars, feed, tree, part>>
  /\ \A w \in Workers : WF_vars(Progress(w)) /\ SF_vars(CleanUp(w))

\* What is used stays and what nothing uses goes, and a feed leaves the categories
\* of the site alone.
FilesKept == UsedStays /\ OrphansGo /\ OwnTagsStay

\* The files, the content of other sites and the tree of pages are sound.
ContentSound == FilesSound /\ FeedSound /\ TreeSound
=============================================================================
