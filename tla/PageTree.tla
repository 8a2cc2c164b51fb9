------------------------------- MODULE PageTree -------------------------------
(***************************************************************************)
(* Wikis and pages under each other: added below a page, edited and moved, *)
(* copied, deleted with all that is below, and put in order among their    *)
(* siblings.  A request loads rows and saves them whole; an order is saved *)
(* one sibling at a time.                                                  *)
(***************************************************************************)
EXTENDS Integers, FiniteSets, Sequences

CONSTANTS
  Leaves,       \* identities of wikis and pages
  Wikis,        \* those that are wikis: in groups, and movable
  Circles,      \* groups
  Forests,      \* the trees an execution may start with
  Editors,      \* requests that may overlap
  MaxEdits      \* bound: requests

Top      == "top"        \* no parent
Outside  == "outside"    \* no group
Missing  == [parent |-> Top, born |-> 0, group |-> Outside, position |-> 0]
LeafRow  == [parent : Leaves \cup {Top}, born : Nat, group : Circles \cup {Outside}, position : Nat]

\* A tree to start with: parents that are there, wikis in the group of their parent.
Planted(forest) ==
  /\ forest \in [Leaves -> LeafRow]
  /\ \A p \in Leaves : forest[p] # Missing =>
       /\ forest[p].born > 0
       /\ forest[p].parent # Top => /\ forest[forest[p].parent] # Missing
                                    /\ forest[forest[p].parent].group = forest[p].group
ASSUME PageTreeAssumption ==
  /\ Wikis \subseteq Leaves /\ Top \notin Leaves
  /\ \A forest \in Forests : Planted(forest)

VARIABLES
  leaf,      \* rows: parent, group, position, moment of publication
  editor,    \* what a request is doing
  asked,     \* the last order: page, place, siblings before and after, whether alone
  story      \* history: identities used; pages that changed group, or were given one; saves, edits

tree == <<leaf, editor, asked, story>>

Waits    == [step |-> "waits"]
NoOrder  == [alone |-> FALSE]

In(p)    == leaf[p] # Missing
Under(p) == {q \in Leaves : In(q) /\ leaf[q].parent = p}
Stands(row) == row.parent = Top \/ In(row.parent)

\* A page and all that is below it.
\* Mutant of Subtree: only the page and its children.
SubtreeOnce(p) == {p} \cup Under(p)
Subtree(p) ==
  {q \in Leaves : \A S \in SUBSET Leaves : p \in S /\ (\A r \in S : Under(r) \subseteq S) => q \in S}

\* By position; equal positions from old to new.
Before(a, b) == a.position < b.position \/ (a.position = b.position /\ a.born < b.born)
InOrder(s, rows) ==
  [i \in 1..Cardinality(s) |-> CHOOSE p \in s : Cardinality({q \in s : Before(rows[q], rows[p])}) = i - 1]

Start(w, state) ==
  /\ editor[w] = Waits /\ story.edits < MaxEdits
  /\ editor' = [editor EXCEPT ![w] = state]
Finish(w) == editor' = [editor EXCEPT ![w] = Waits]
Count(e, s) == [story EXCEPT !.edits = @ + e, !.saves = @ + s]
Drawn(p)    == [Count(1, 0) EXCEPT !.known = @ \cup {p}]

-----------------------------------------------------------------------------
(* Adding, editing, moving, copying, deleting.                             *)

\* Under a page, with the group of that page.
Placed(parent, group) ==
  [parent |-> parent, group |-> IF parent = Top THEN group ELSE leaf[parent].group,
   position |-> 0, born |-> story.edits + 10]

\* The container is a group, or a page of the same kind.  An identity is drawn once.
AddPage(w, p) ==
  /\ p \notin story.known
  /\ \E parent \in {Top} \cup {q \in Leaves : In(q) /\ (q \in Wikis <=> p \in Wikis)},
        group \in IF p \in Wikis THEN Circles ELSE {Outside} :
       Start(w, [step |-> "adding", page |-> p, row |-> Placed(parent, group), old |-> Missing])
  /\ story' = Drawn(p)
  /\ UNCHANGED <<leaf, asked>>

CopyLeaf(w, p, q) ==
  /\ In(p) /\ p \notin Wikis /\ q \notin story.known \cup Wikis
  /\ Start(w, [step |-> "adding", page |-> q, row |-> [leaf[p] EXCEPT !.born = story.edits + 10], old |-> Missing])
  /\ story' = Drawn(q)
  /\ UNCHANGED <<leaf, asked>>

\* Under another wiki, with its group; a container that is gone counts as none.
\* Mutant of Moved: the page stays in its group.
MovedOnly(row, to) == [row EXCEPT !.parent = to]
Moved(row, to) == [row EXCEPT !.parent = to, !.group = IF to = Top THEN Outside ELSE leaf[to].group]

EditPage(w, p) ==
  /\ In(p)
  /\ \E row \in {leaf[p]}
               \cup (IF p \in Wikis THEN {Moved(leaf[p], to) : to \in {Top} \cup {q \in Wikis : In(q)}} ELSE {}) :
       Start(w, [step |-> "saving", page |-> p, row |-> row, old |-> leaf[p]])
  /\ story' = Count(1, 0)
  /\ UNCHANGED <<leaf, asked>>

\* An administrator may choose a group, whatever the parent's.
ChooseGroup(w, p) ==
  /\ In(p) /\ p \in Wikis
  /\ \E g \in Circles \cup {Outside} : Start(w, [step |-> "saving", page |-> p, row |-> [leaf[p] EXCEPT !.group = g], old |-> leaf[p]])
  /\ story' = [Count(1, 0) EXCEPT !.given = @ \cup {p}]
  /\ UNCHANGED <<leaf, asked>>

\* The row as it was loaded and changed; the database refuses a parent that is gone.
SavePage(w) ==
  /\ editor[w].step \in {"adding", "saving"}
  /\ LET e == editor[w]
         regrouped == \/ In(e.page) /\ leaf[e.page].group # e.row.group
                      \/ e.old.born > 0 /\ e.old.group # e.row.group
     IN  IF Stands(e.row) \/ e.row.parent = e.page
         THEN /\ leaf' = [leaf EXCEPT ![e.page] = e.row]
              /\ story' = [Count(0, 1) EXCEPT !.moved = IF regrouped THEN @ \cup {e.page} ELSE @]
         ELSE UNCHANGED <<leaf, story>>
  /\ Finish(w)
  /\ UNCHANGED asked

DeletePage(w, p) ==
  /\ In(p)
  /\ Start(w, Waits)
  /\ leaf' = [q \in Leaves |-> IF q \in Subtree(p) THEN Missing ELSE leaf[q]]
  /\ story' = Count(1, 1)
  /\ UNCHANGED asked

-----------------------------------------------------------------------------
(* An order.                                                               *)

Without(s, p) == SelectSeq(s, LAMBDA q : q # p)
Lesser(m, n)  == IF m < n THEN m ELSE n

\* Mutant of Inserted: the place is counted with the page still in it.
InsertedBefore(s, p, place) ==
  LET k == Lesser(place, Len(s))
  IN  Without(SubSeq(s, 1, k), p) \o <<p>> \o Without(SubSeq(s, k + 1, Len(s)), p)
Inserted(s, p, place) ==
  LET rest == Without(s, p)
      k == Lesser(place, Len(rest))
  IN  SubSeq(rest, 1, k) \o <<p>> \o SubSeq(rest, k + 1, Len(rest))

\* Siblings, all loaded at once; those that have their place already are not saved.
Reorder(w, p, place) ==
  /\ In(p) /\ leaf[p].parent # Top
  /\ LET siblings == InOrder(Under(leaf[p].parent), leaf)
         wanted == Inserted(siblings, p, place)
         rows == [q \in Under(leaf[p].parent) |->
                    [leaf[q] EXCEPT !.position = (CHOOSE i \in 1..Len(wanted) : wanted[i] = q) - 1]]
     IN  Start(w, [step |-> "ordering", page |-> p, place |-> place, under |-> leaf[p].parent, before |-> siblings,
                   rows |-> rows, left |-> SelectSeq(wanted, LAMBDA q : rows[q] # leaf[q]), saves |-> story.saves])
  /\ story' = Count(1, 0)
  /\ UNCHANGED <<leaf, asked>>

\* A sibling that was deleted meanwhile comes back; without its parent the order ends.
SaveSibling(w) ==
  /\ editor[w].step = "ordering" /\ editor[w].left # <<>>
  /\ \E q \in DOMAIN editor[w].rows :
       /\ q = Head(editor[w].left)
       /\ LET row == editor[w].rows[q]
          IN  IF Stands(row)
              THEN /\ leaf' = [leaf EXCEPT ![q] = row]
                   /\ editor' = [editor EXCEPT ![w].left = Tail(@), ![w].saves = @ + 1]
                   /\ story' = [Count(0, 1) EXCEPT !.moved = IF In(q) /\ leaf[q].group # row.group THEN @ \cup {q} ELSE @]
              ELSE Finish(w) /\ UNCHANGED <<leaf, story>>
  /\ UNCHANGED asked

ReorderDone(w) ==
  /\ editor[w].step = "ordering" /\ editor[w].left = <<>>
  /\ LET e == editor[w]
     IN  asked' = IF e.saves # story.saves THEN NoOrder
                  ELSE [page |-> e.page, place |-> e.place, before |-> e.before, alone |-> TRUE,
                        after |-> InOrder(Under(e.under), leaf)]
  /\ Finish(w)
  /\ UNCHANGED <<leaf, story>>

-----------------------------------------------------------------------------
TreeInit ==
  /\ leaf \in Forests
  /\ editor = [w \in Editors |-> Waits]
  /\ asked = NoOrder
  /\ story = [known |-> {p \in Leaves : In(p)}, moved |-> {}, given |-> {}, saves |-> 0, edits |-> 0]

Requested(w, p) ==
  \/ AddPage(w, p) \/ EditPage(w, p) \/ ChooseGroup(w, p) \/ DeletePage(w, p)
  \/ \E q \in Leaves : CopyLeaf(w, p, q)
  \/ \E place \in 0..Cardinality(Leaves) : Reorder(w, p, place)
TreeNext == \E w \in Editors : (\E p \in Leaves : Requested(w, p)) \/ SavePage(w) \/ SaveSibling(w) \/ ReorderDone(w)
TreeSpec == TreeInit /\ [][TreeNext]_tree

-----------------------------------------------------------------------------
\* Every row has a parent that is there, or none.
TreeTypeOK ==
  \A p \in Leaves : In(p) => /\ leaf[p].parent \in Leaves \cup {Top} /\ Stands(leaf[p])
                             /\ leaf[p].group \in Circles \cup {Outside}
                             /\ leaf[p].position \in 0..Cardinality(Leaves)

\* An order that no other request crossed puts the page where it was asked, and
\* leaves its siblings in the order they had, though each was saved on its own.
Place(s, q) == CHOOSE i \in 1..Len(s) : s[i] = q
PlacedAsAsked ==
  asked.alone =>
    /\ Len(asked.after) = Len(asked.before)
    /\ Place(asked.after, asked.page) = Lesser(asked.place + 1, Len(asked.after))
    /\ \A q, r \in {asked.before[i] : i \in 1..Len(asked.before)} \ {asked.page} :
         Place(asked.before, q) < Place(asked.before, r) => Place(asked.after, q) < Place(asked.after, r)

\* A wiki is in the group of the wiki it is under, whatever is added, moved and put
\* in order at the same time: unless an administrator gave it a group, or the wiki
\* above came from another one.
GroupOfParent ==
  \A p \in Leaves :
    In(p) /\ leaf[p].parent \in Leaves \ story.moved /\ p \notin story.given => leaf[p].group = leaf[leaf[p].parent].group

\* The tree stands, and an order puts a page where it was asked.
TreeSound == TreeTypeOK /\ PlacedAsAsked
=============================================================================
