------------------------- MODULE PagesAndFilesProofs -------------------------
(***************************************************************************)
(* Theorems about PageTree, for any number of pages, groups, requests and  *)
(* edits: rows have a parent that is there, and wikis are in the group of  *)
(* the wiki above them; and about Downloads, for any number of files,      *)
(* processes, editions and copies: nothing a scan found leaves the         *)
(* storage, nothing but the file that was asked for, and a copy that is    *)
(* ready stays so.                                                         *)
(***************************************************************************)
EXTENDS PageTree, Downloads, WellFoundedInduction, TLAPS

-----------------------------------------------------------------------------
(***************************************************************************)
(* Pages.                                                                  *)
(***************************************************************************)
Fields(row) == [parent |-> row.parent, born |-> row.born, group |-> row.group, position |-> row.position]

\* A row that stands for a page: it is not the missing one.
Shaped(row) == row = Fields(row) /\ row.born \in Nat \ {0} /\ row.parent \in Leaves \cup {Top}

ShapedEdit(e, ids) ==
  /\ e = [step |-> e.step, page |-> e.page, row |-> e.row, old |-> e.old]
  /\ e.page \in ids
  /\ Shaped(e.row)
  /\ e.step = "adding" => e.old = Missing
  /\ e.step = "saving" => Shaped(e.old)

ShapedOrder(e, ids) ==
  /\ e = [step |-> e.step, page |-> e.page, place |-> e.place, under |-> e.under, before |-> e.before,
          rows |-> e.rows, left |-> e.left, saves |-> e.saves]
  /\ DOMAIN e.rows \subseteq ids
  /\ \A q \in DOMAIN e.rows : Shaped(e.rows[q])

Editing(e)  == e.step \in {"adding", "saving"}
Ordering(e) == e.step = "ordering"
ShapedWork(e, ids) == \/ e = Waits
                      \/ Editing(e) /\ ShapedEdit(e, ids)
                      \/ Ordering(e) /\ ShapedOrder(e, ids)

Story == [known : SUBSET Leaves, moved : SUBSET Leaves, given : SUBSET Wikis, saves : Nat, edits : Nat]

Shapes ==
  /\ leaf \in [Leaves -> {leaf[p] : p \in Leaves}]
  /\ story \in Story
  /\ editor \in [Editors -> {editor[w] : w \in Editors}]
  /\ \A p \in Leaves : In(p) => p \in story.known /\ Shaped(leaf[p]) /\ Stands(leaf[p])
  /\ \A w \in Editors : ShapedWork(editor[w], story.known)

\* The rows of p that are in the table or that a request may still write there.
ClaimOf(e, p, row) ==
  \/ Editing(e) /\ e.page = p /\ row = e.row
  \/ Ordering(e) /\ p \in DOMAIN e.rows /\ row = e.rows[p]
Claim(p, row) == (In(p) /\ row = leaf[p]) \/ (\E w \in Editors : ClaimOf(editor[w], p, row))

\* What the table and the requests take for the group of p: an edit goes by the
\* row it loaded, an addition by the row it makes.
GroupIn(e, p, g) ==
  \/ e.step = "saving" /\ e.page = p /\ g = e.old.group
  \/ e.step = "adding" /\ e.page = p /\ g = e.row.group
  \/ Ordering(e) /\ p \in DOMAIN e.rows /\ g = e.rows[p].group
Knows(p, g) == (In(p) /\ g = leaf[p].group) \/ (\E w \in Editors : GroupIn(editor[w], p, g))

\* The group of a page that never changed group is one and the same everywhere.
OneGroup == \A p \in Leaves \ story.moved : \A g, h : Knows(p, g) /\ Knows(p, h) => g = h

\* A claim under a page that was there, in the group everyone takes that page to be in.
FitsUnder(p, row) ==
  row.parent \in Leaves =>
    /\ row.parent \in story.known
    /\ p \notin story.given /\ row.parent \notin story.moved => \A g : Knows(row.parent, g) => row.group = g
AllFit == \A p \in Leaves : \A row : Claim(p, row) => FitsUnder(p, row)

Grown == Shapes /\ OneGroup /\ AllFit

-----------------------------------------------------------------------------
LEMMA KnownOnly == ASSUME Shapes, NEW p, NEW g, p \in Leaves, Knows(p, g) PROVE p \in story.known
<1>1. CASE In(p) BY <1>1 DEF Shapes
<1>2. CASE \E w \in Editors : GroupIn(editor[w], p, g)
  <2>1. PICK w \in Editors : GroupIn(editor[w], p, g) BY <1>2
  <2>2. ShapedWork(editor[w], story.known) BY DEF Shapes
  <2> QED BY <2>1, <2>2 DEF GroupIn, ShapedWork, ShapedEdit, ShapedOrder, Editing, Ordering, Waits
<1> QED BY <1>1, <1>2 DEF Knows

\* What is in the subtree of a page is in Leaves, and so is what is under it.
LEMMA SubtreeClosed ==
  ASSUME NEW p \in Leaves, NEW q \in Leaves, In(q), leaf[q].parent \in Subtree(p)
  PROVE  q \in Subtree(p)
BY DEF Subtree, Under

\* The invariant implies the property.
LEMMA GrownGives == Grown => GroupOfParent
<1> SUFFICES ASSUME Grown, NEW p \in Leaves, In(p), leaf[p].parent \in Leaves \ story.moved, p \notin story.given
             PROVE  leaf[p].group = leaf[leaf[p].parent].group
  BY DEF GroupOfParent
<1>1. Claim(p, leaf[p]) BY DEF Claim
<1>2. FitsUnder(p, leaf[p]) BY <1>1 DEF Grown, AllFit
<1>3. Shaped(leaf[p]) /\ Stands(leaf[p]) BY DEF Grown, Shapes
<1>4. In(leaf[p].parent) BY <1>3, PageTreeAssumption DEF Stands
<1>5. Knows(leaf[p].parent, leaf[leaf[p].parent].group) BY <1>4 DEF Knows
<1> QED BY <1>2, <1>5 DEF FitsUnder

LEMMA GrownInit == TreeInit => Grown
<1> SUFFICES ASSUME TreeInit PROVE Grown OBVIOUS
<1> USE PageTreeAssumption
<1>0. Planted(leaf) BY DEF TreeInit
<1>1. \A w \in Editors : editor[w] = Waits BY DEF TreeInit
<1>2. \A w \in Editors : \A p, x : ~GroupIn(editor[w], p, x) /\ ~ClaimOf(editor[w], p, x)
  BY <1>1 DEF Waits, GroupIn, ClaimOf, Editing, Ordering
<1>3. \A p \in Leaves : In(p) => Shaped(leaf[p]) /\ Stands(leaf[p])
  BY <1>0 DEF Planted, In, LeafRow, Fields, Shaped, Stands
<1>4. Shapes
  <2>1. leaf \in [Leaves -> LeafRow] BY <1>0 DEF Planted
  <2>2. leaf \in [Leaves -> {leaf[p] : p \in Leaves}] BY <2>1
  <2>3. editor \in [Editors -> {editor[w] : w \in Editors}] BY DEF TreeInit
  <2>4. story.known = {p \in Leaves : In(p)} /\ story \in Story BY DEF TreeInit, Story
  <2> QED BY <1>1, <1>3, <2>2, <2>3, <2>4 DEF Shapes, ShapedWork
<1>5. OneGroup BY <1>2 DEF OneGroup, Knows
<1>6. AllFit
  <2> SUFFICES ASSUME NEW p \in Leaves, In(p), leaf[p].parent \in Leaves PROVE FitsUnder(p, leaf[p])
    BY <1>2 DEF AllFit, Claim, FitsUnder
  <2>1. In(leaf[p].parent) /\ leaf[leaf[p].parent].group = leaf[p].group BY <1>0 DEF Planted, In
  <2>2. story.known = {q \in Leaves : In(q)} BY DEF TreeInit
  <2> QED BY <1>2, <2>1, <2>2 DEF FitsUnder, Knows
<1> QED BY <1>4, <1>5, <1>6 DEF Grown

-----------------------------------------------------------------------------
(* A request takes up work, or drops it: the table stays.                  *)

\* One request takes a page to be in one group.
LEMMA OneAnswer == ASSUME NEW e, NEW p, NEW g, NEW h, GroupIn(e, p, g), GroupIn(e, p, h) PROVE g = h
BY DEF GroupIn, Ordering

LEMMA TakeUp ==
  ASSUME Grown, Shapes', NEW w \in Editors, NEW e, leaf' = leaf, editor' = [editor EXCEPT ![w] = e],
         story.known \subseteq story'.known, story.moved \subseteq story'.moved, story.given \subseteq story'.given,
         \A p \in Leaves : \A g : GroupIn(e, p, g) /\ p \in story.known => Knows(p, g),
         \A p \in Leaves : \A row : ClaimOf(e, p, row) /\ row.parent \in Leaves =>
           /\ row.parent \in story.known
           /\ p \notin story'.given /\ row.parent \notin story.moved =>
                \A g : Knows(row.parent, g) => row.group = g
  PROVE  Grown'
<1>0. editor'[w] = e /\ \A v \in Editors \ {w} : editor'[v] = editor[v] BY DEF Grown, Shapes
<1>1. \A p, g : Knows(p, g)' => Knows(p, g) \/ GroupIn(e, p, g) BY <1>0 DEF Knows, GroupIn, Ordering, In
<1>2. \A p, row : Claim(p, row)' => Claim(p, row) \/ ClaimOf(e, p, row)
  BY <1>0 DEF Claim, ClaimOf, Editing, Ordering, In
<1>3. \A p \in story.known : \A g : p \in Leaves /\ Knows(p, g)' => Knows(p, g) BY <1>1
<1>4. OneGroup'
  BY <1>3, <1>1, KnownOnly, OneAnswer DEF OneGroup, Grown
<1>5. AllFit'
  BY <1>3, <1>2 DEF AllFit, FitsUnder, Grown
<1> QED BY <1>4, <1>5 DEF Grown

\* What a request holds keeps its shape while identities are only added.
LEMMA WorkKept ==
  ASSUME NEW e, NEW ids, NEW more, ids \subseteq more, ShapedWork(e, ids) PROVE ShapedWork(e, more)
BY DEF ShapedWork, ShapedEdit, ShapedOrder

LEMMA TakenUp ==
  ASSUME Shapes, NEW w \in Editors, NEW e, leaf' = leaf, editor' = [editor EXCEPT ![w] = e],
         story' \in Story, story.known \subseteq story'.known, ShapedWork(e, story'.known)
  PROVE  Shapes'
BY WorkKept DEF Shapes, In, Stands

-----------------------------------------------------------------------------
(* A request writes a row it holds, and goes on with less.                 *)

LEMMA SavedInPlace ==
  ASSUME Grown, NEW w \in Editors, NEW e, NEW q \in Leaves, NEW row,
         leaf' = [leaf EXCEPT ![q] = row], editor' = [editor EXCEPT ![w] = e],
         ClaimOf(editor[w], q, row), Stands(row) \/ row.parent = q,
         ShapedWork(e, story.known),
         \A p, r : ClaimOf(e, p, r) => ClaimOf(editor[w], p, r),
         \A p, g : GroupIn(e, p, g) => GroupIn(editor[w], p, g),
         story' \in Story, story'.known = story.known, story'.given = story.given,
         story.moved \subseteq story'.moved, q \notin story'.moved => Knows(q, row.group)
  PROVE  Grown'
<1>0. /\ editor'[w] = e /\ \A v \in Editors \ {w} : editor'[v] = editor[v]
      /\ leaf'[q] = row /\ \A p \in Leaves \ {q} : leaf'[p] = leaf[p]
  BY DEF Grown, Shapes
<1>1. Shaped(row) /\ q \in story.known
  <2>1. ShapedWork(editor[w], story.known) BY DEF Grown, Shapes
  <2> QED BY <2>1 DEF ShapedWork, ShapedEdit, ShapedOrder, ClaimOf, Editing, Ordering, Waits
<1>2. row # Missing BY <1>1 DEF Shaped, Missing
<1>3. \A p \in Leaves : In(p)' <=> In(p) \/ p = q BY <1>0, <1>2 DEF In
<1>4. Shapes'
  <2>1. editor' \in [Editors -> {editor'[v] : v \in Editors}] /\ leaf' \in [Leaves -> {leaf'[p] : p \in Leaves}]
    BY DEF Grown, Shapes
  <2>2. ASSUME NEW v \in Editors PROVE ShapedWork(editor'[v], story'.known) BY <1>0 DEF Grown, Shapes
  <2>3. ASSUME NEW p \in Leaves, In(p)' PROVE p \in story'.known /\ Shaped(leaf[p])' /\ Stands(leaf[p])'
    <3>1. CASE p = q
      BY <1>0, <1>1, <3>1, <1>3 DEF Shaped, Fields, Stands
    <3>2. CASE p # q
      <4>1. In(p) /\ leaf'[p] = leaf[p] /\ p \in story.known /\ Shaped(leaf[p]) /\ Stands(leaf[p])
        BY <1>0, <1>3, <2>3, <3>2 DEF Grown, Shapes
      <4>2. leaf[p].parent = Top \/ leaf[p].parent \in Leaves BY <4>1 DEF Shaped
      <4> QED BY <1>3, <4>1, <4>2 DEF Stands, Shaped
    <3> QED BY <3>1, <3>2
  <2> QED BY <2>1, <2>2, <2>3 DEF Shapes
<1>5. \A p \in Leaves : \A r : Claim(p, r)' => Claim(p, r)
  BY <1>0, <1>3 DEF Claim
<1>6. \A p \in Leaves \ story'.moved : \A g : Knows(p, g)' => Knows(p, g)
  BY <1>0, <1>3 DEF Knows
<1>7. OneGroup' BY <1>6 DEF Grown, OneGroup
<1>8. AllFit'
  BY <1>5, <1>6 DEF AllFit, Grown, FitsUnder
<1> QED BY <1>4, <1>7, <1>8 DEF Grown

LEMMA Counted ==
  ASSUME story \in Story, NEW e \in Nat, NEW s \in Nat
  PROVE  /\ Count(e, s) \in Story
         /\ Count(e, s).known = story.known /\ Count(e, s).moved = story.moved /\ Count(e, s).given = story.given
<1> DEFINE once == [story EXCEPT !.edits = story.edits + e]
<1>1. story.edits + e \in Nat /\ story.saves + s \in Nat BY DEF Story
<1>2. once \in Story /\ once.known = story.known /\ once.moved = story.moved /\ once.given = story.given
  BY <1>1 DEF Story
<1>3. Count(e, s) = [once EXCEPT !.saves = story.saves + s] BY DEF Count, Story
<1> QED BY <1>1, <1>2, <1>3 DEF Story

\* A page goes with all that is below it.
LEMMA Deleted ==
  ASSUME Grown, NEW w \in Editors, NEW p \in Leaves, DeletePage(w, p)
  PROVE  Grown'
<1>1. \A q \in Leaves : leaf'[q] = IF q \in Subtree(p) THEN Missing ELSE leaf[q] BY DEF DeletePage
<1>2. \A q \in Leaves : In(q)' => In(q) /\ q \notin Subtree(p) /\ leaf'[q] = leaf[q] BY <1>1 DEF In
<1>3. editor' = editor BY DEF DeletePage, Start, Grown, Shapes
<1>4. story' \in Story /\ story'.known = story.known /\ story'.given = story.given /\ story'.moved = story.moved
  <2>1. story' = Count(1, 1) BY DEF DeletePage
  <2> QED BY <2>1, Counted DEF Grown, Shapes
<1>5. Shapes'
  <2>1. leaf' \in [Leaves -> {leaf'[q] : q \in Leaves}] BY DEF DeletePage
  <2>2. ASSUME NEW q \in Leaves, In(q)' PROVE q \in story'.known /\ Shaped(leaf[q])' /\ Stands(leaf[q])'
    <3>1. In(q) /\ q \in story.known /\ Shaped(leaf[q]) /\ Stands(leaf[q]) /\ leaf'[q] = leaf[q]
      BY <1>2, <2>2 DEF Grown, Shapes
    <3>2. leaf[q].parent = Top \/ leaf[q].parent \in Leaves \ Subtree(p) BY <1>2, <2>2, <3>1, SubtreeClosed DEF Shaped
    <3>3. leaf[q].parent # Top => In(leaf[q].parent)' BY <1>1, <3>1, <3>2 DEF Stands, In
    <3> QED BY <1>4, <3>1, <3>3 DEF Stands, Shaped
  <2> QED BY <1>3, <1>4, <2>1, <2>2 DEF Grown, Shapes
<1>6. \A q \in Leaves : \A r : Claim(q, r)' => Claim(q, r) BY <1>2, <1>3 DEF Claim
<1>7. \A q \in Leaves : \A g : Knows(q, g)' => Knows(q, g) BY <1>2, <1>3 DEF Knows
<1>8. OneGroup' BY <1>4, <1>7 DEF Grown, OneGroup
<1>9. AllFit'
  BY <1>6, <1>4, <1>7 DEF AllFit, Grown, FitsUnder
<1> QED BY <1>5, <1>8, <1>9 DEF Grown

-----------------------------------------------------------------------------
(* Each request, and each step of one.                                     *)

\* What the invariant says of a page that is there.
LEMMA Standing ==
  ASSUME Grown, NEW p \in Leaves, In(p)
  PROVE  /\ p \in story.known /\ Shaped(leaf[p]) /\ Knows(p, leaf[p].group)
         /\ FitsUnder(p, leaf[p])
         /\ p \notin story.moved => \A g : Knows(p, g) => g = leaf[p].group
BY DEF Grown, Shapes, Knows, Claim, OneGroup, AllFit

LEMMA Begun ==
  ASSUME NEW w \in Editors, NEW e, Grown, Start(w, e)
  PROVE  editor' = [editor EXCEPT ![w] = e] /\ story.edits \in Nat
BY DEF Start, Grown, Shapes, Story

LEMMA AddStep == ASSUME Grown, NEW w \in Editors, NEW p \in Leaves, AddPage(w, p) PROVE Grown'
<1>1. PICK parent \in {Top} \cup {q \in Leaves : In(q) /\ (q \in Wikis <=> p \in Wikis)},
           group \in IF p \in Wikis THEN Circles ELSE {Outside} :
        Start(w, [step |-> "adding", page |-> p, row |-> Placed(parent, group), old |-> Missing])
  BY DEF AddPage
<1> DEFINE row == Placed(parent, group)
           e   == [step |-> "adding", page |-> p, row |-> row, old |-> Missing]
<1>2. editor' = [editor EXCEPT ![w] = e] /\ story.edits \in Nat BY <1>1, Begun
<1>3. leaf' = leaf /\ p \notin story.known /\ story \in Story BY DEF AddPage, Grown, Shapes
<1>4. Count(1, 0) \in Story /\ story' = [Count(1, 0) EXCEPT !.known = @ \cup {p}] BY <1>3, Counted DEF AddPage, Drawn
<1>5. /\ story' \in Story /\ story'.known = story.known \cup {p}
      /\ story'.moved = story.moved /\ story'.given = story.given
  BY <1>3, <1>4, Counted DEF Story
<1>6. Shaped(row) /\ row.parent = parent /\ (parent # Top => row.group = leaf[parent].group)
  BY <1>2 DEF Placed, Shaped, Fields
<1>7. ShapedWork(e, story'.known) BY <1>5, <1>6 DEF ShapedWork, ShapedEdit, Editing
<1>8. Shapes' BY <1>2, <1>3, <1>5, <1>7, TakenUp DEF Grown
<1>9. \A q \in Leaves : \A g : GroupIn(e, q, g) => q = p BY DEF GroupIn, Ordering
<1>10. parent \in Leaves => /\ parent \in story.known
                            /\ parent \notin story.moved => \A g : Knows(parent, g) => row.group = g
  BY <1>6, Standing, PageTreeAssumption
<1>11. \A q \in Leaves : \A r : ClaimOf(e, q, r) => r = row BY DEF ClaimOf, Ordering, Editing
<1> HIDE DEF e, row
<1> QED BY <1>2, <1>3, <1>5, <1>6, <1>8, <1>9, <1>10, <1>11, TakeUp

LEMMA CopyStep == ASSUME Grown, NEW w \in Editors, NEW p \in Leaves, NEW q \in Leaves, CopyLeaf(w, p, q) PROVE Grown'
<1> DEFINE row == [leaf[p] EXCEPT !.born = story.edits + 10]
           e   == [step |-> "adding", page |-> q, row |-> row, old |-> Missing]
<1>1. In(p) /\ q \notin story.known /\ leaf' = leaf /\ story \in Story /\ p \notin Wikis /\ Start(w, e)
  BY DEF CopyLeaf, Grown, Shapes
<1>2. editor' = [editor EXCEPT ![w] = e] /\ story.edits \in Nat BY <1>1, Begun
<1>4. Count(1, 0) \in Story /\ story' = [Count(1, 0) EXCEPT !.known = @ \cup {q}] BY <1>1, Counted DEF CopyLeaf, Drawn
<1>5. /\ story' \in Story /\ story'.known = story.known \cup {q}
      /\ story'.moved = story.moved /\ story'.given = story.given
  BY <1>1, <1>4, Counted DEF Story
<1>6. Shaped(row) /\ row.parent = leaf[p].parent /\ row.group = leaf[p].group
  <2>1. story.edits + 10 \in Nat \ {0} /\ leaf[p] = Fields(leaf[p]) /\ leaf[p].parent \in Leaves \cup {Top}
    BY <1>1, <1>2, Standing DEF Shaped
  <2> QED BY <2>1 DEF Shaped, Fields
<1>7. ShapedWork(e, story'.known) BY <1>5, <1>6 DEF ShapedWork, ShapedEdit, Editing
<1>8. Shapes' BY <1>1, <1>2, <1>5, <1>7, TakenUp DEF Grown
<1>9. \A x \in Leaves : \A g : GroupIn(e, x, g) => x = q BY DEF GroupIn, Ordering
<1>10. p \notin story.given /\ FitsUnder(p, leaf[p]) BY <1>1, Standing DEF Story
<1>11. \A x \in Leaves : \A r : ClaimOf(e, x, r) => r = row BY DEF ClaimOf, Ordering, Editing
<1>12. row.parent \in Leaves => /\ row.parent \in story.known
                                /\ row.parent \notin story.moved => \A g : Knows(row.parent, g) => row.group = g
  BY <1>6, <1>10 DEF FitsUnder
<1> HIDE DEF e, row
<1> QED BY <1>1, <1>2, <1>5, <1>8, <1>9, <1>11, <1>12, TakeUp

\* An edit of a page that is there, saved with a row of its own.
LEMMA EditBegins ==
  ASSUME Grown, NEW w \in Editors, NEW p \in Leaves, In(p), NEW row, Shaped(row), leaf' = leaf,
         Start(w, [step |-> "saving", page |-> p, row |-> row, old |-> leaf[p]]),
         story' \in Story, story'.known = story.known, story'.moved = story.moved, story.given \subseteq story'.given,
         row.parent \in Leaves =>
           /\ row.parent \in story.known
           /\ p \notin story'.given /\ row.parent \notin story.moved => \A g : Knows(row.parent, g) => row.group = g
  PROVE  Grown'
<1> DEFINE e == [step |-> "saving", page |-> p, row |-> row, old |-> leaf[p]]
<1>1. editor' = [editor EXCEPT ![w] = e] BY Begun
<1>2. ShapedWork(e, story'.known) BY Standing DEF ShapedWork, ShapedEdit, Editing
<1>3. Shapes' BY <1>1, <1>2, TakenUp DEF Grown
<1>4. \A x \in Leaves : \A g : GroupIn(e, x, g) => Knows(x, g)
  BY Standing DEF GroupIn, Ordering
<1>5. \A x \in Leaves : \A r : ClaimOf(e, x, r) => x = p /\ r = row BY DEF ClaimOf, Ordering, Editing
<1> HIDE DEF e
<1> QED BY <1>1, <1>3, <1>4, <1>5, TakeUp

LEMMA EditStep == ASSUME Grown, NEW w \in Editors, NEW p \in Leaves, EditPage(w, p) PROVE Grown'
<1>1. PICK row \in {leaf[p]} \cup (IF p \in Wikis THEN {Moved(leaf[p], to) : to \in {Top} \cup {q \in Wikis : In(q)}} ELSE {}) :
        Start(w, [step |-> "saving", page |-> p, row |-> row, old |-> leaf[p]])
  BY DEF EditPage
<1>2. In(p) /\ leaf' = leaf /\ story \in Story /\ story' = Count(1, 0) BY DEF EditPage, Grown, Shapes
<1>3. story' \in Story /\ story'.known = story.known /\ story'.moved = story.moved /\ story'.given = story.given
  BY <1>2, Counted
<1>4. CASE row = leaf[p] BY <1>1, <1>2, <1>3, <1>4, Standing, EditBegins DEF FitsUnder
<1>5. ASSUME NEW to \in {Top} \cup {q \in Wikis : In(q)}, row = Moved(leaf[p], to) PROVE Grown'
  <2>1. leaf[p] = Fields(leaf[p]) /\ leaf[p].born \in Nat \ {0} BY <1>2, Standing DEF Shaped
  <2>2. to = Top \/ (to \in Leaves /\ In(to)) BY PageTreeAssumption
  <2>3. Shaped(row) /\ row.parent = to /\ (to # Top => row.group = leaf[to].group)
    BY <1>5, <2>1, <2>2 DEF Moved, Shaped, Fields
  <2>4. to \in Leaves => to \in story.known /\ (to \notin story.moved => \A g : Knows(to, g) => row.group = g)
    BY <2>2, <2>3, Standing, PageTreeAssumption
  <2> QED BY <1>1, <1>2, <1>3, <2>3, <2>4, EditBegins
<1> QED BY <1>1, <1>4, <1>5

LEMMA ChooseStep == ASSUME Grown, NEW w \in Editors, NEW p \in Leaves, ChooseGroup(w, p) PROVE Grown'
<1>1. PICK group \in Circles \cup {Outside} :
        Start(w, [step |-> "saving", page |-> p, row |-> [leaf[p] EXCEPT !.group = group], old |-> leaf[p]])
  BY DEF ChooseGroup
<1>2. In(p) /\ p \in Wikis /\ leaf' = leaf /\ story \in Story /\ Count(1, 0) \in Story
      /\ story' = [Count(1, 0) EXCEPT !.given = @ \cup {p}]
  BY Counted DEF ChooseGroup, Grown, Shapes
<1>3. /\ story' \in Story /\ story'.known = story.known /\ story'.moved = story.moved
      /\ story'.given = story.given \cup {p}
  BY <1>2, Counted DEF Story
<1> DEFINE row == [leaf[p] EXCEPT !.group = group]
<1>4. Shaped(row) /\ row.parent = leaf[p].parent
  <2>1. leaf[p] = Fields(leaf[p]) /\ leaf[p].born \in Nat \ {0} /\ leaf[p].parent \in Leaves \cup {Top}
    BY <1>2, Standing DEF Shaped
  <2> QED BY <2>1 DEF Shaped, Fields
<1>5. row.parent \in Leaves => row.parent \in story.known BY <1>2, <1>4, Standing DEF FitsUnder
<1>6. Start(w, [step |-> "saving", page |-> p, row |-> row, old |-> leaf[p]]) BY <1>1
<1> HIDE DEF row
<1> QED BY <1>2, <1>3, <1>4, <1>5, <1>6, EditBegins

LEMMA Holds == ASSUME Grown, NEW w \in Editors PROVE ShapedWork(editor[w], story.known)
BY DEF Grown, Shapes

LEMMA WaitsHold == /\ \A ids : ShapedWork(Waits, ids)
                   /\ \A p, x : ~ClaimOf(Waits, p, x) /\ ~GroupIn(Waits, p, x)
BY DEF ShapedWork, ClaimOf, GroupIn, Waits, Editing, Ordering

\* A request ends, and writes nothing.
LEMMA Ended ==
  ASSUME Grown, NEW w \in Editors, leaf' = leaf, Finish(w), story' = story PROVE Grown'
BY WaitsHold, TakenUp, TakeUp DEF Finish, Grown, Shapes

LEMMA SaveStep == ASSUME Grown, NEW w \in Editors, SavePage(w) PROVE Grown'
<1> DEFINE e == editor[w]
           regrouped == \/ In(e.page) /\ leaf[e.page].group # e.row.group
                        \/ e.old.born > 0 /\ e.old.group # e.row.group
<1>1. Editing(e) /\ ShapedEdit(e, story.known) /\ Finish(w)
  BY Holds DEF SavePage, Editing, ShapedWork, Ordering, Waits
<1>2. CASE ~(Stands(e.row) \/ e.row.parent = e.page) BY <1>1, <1>2, Ended DEF SavePage
<1>3. CASE Stands(e.row) \/ e.row.parent = e.page
  <2>1. /\ leaf' = [leaf EXCEPT ![e.page] = e.row]
        /\ story' = [Count(0, 1) EXCEPT !.moved = IF regrouped THEN @ \cup {e.page} ELSE @]
    BY <1>3 DEF SavePage
  <2>2. story \in Story /\ Count(0, 1) \in Story /\ e.page \in Leaves
    BY <1>1, Counted DEF Grown, Shapes, Story, ShapedEdit
  <2>3. /\ story' \in Story /\ story'.known = story.known /\ story'.given = story.given
        /\ story'.moved = IF regrouped THEN story.moved \cup {e.page} ELSE story.moved
    <3> HIDE DEF regrouped, e
    <3> QED BY <2>1, <2>2, Counted, SMTT(30) DEF Story
  <2>4. ~regrouped => Knows(e.page, e.row.group)
    BY <1>1 DEF ShapedEdit, Shaped, GroupIn, Editing, Knows
  <2>5. ClaimOf(e, e.page, e.row) BY <1>1 DEF ClaimOf
  <2>6. editor' = [editor EXCEPT ![w] = Waits] BY <1>1 DEF Finish
  <2>7. story.moved \subseteq story'.moved /\ (e.page \notin story'.moved => Knows(e.page, e.row.group)) BY <2>3, <2>4
  <2>8. /\ ShapedWork(Waits, story.known)
        /\ \A p, r : ClaimOf(Waits, p, r) => ClaimOf(e, p, r)
        /\ \A p, g : GroupIn(Waits, p, g) => GroupIn(e, p, g)
    BY WaitsHold
  <2> HIDE DEF regrouped
  <2> QED BY <1>3, <2>1, <2>2, <2>3, <2>5, <2>6, <2>7, <2>8, SavedInPlace
<1> QED BY <1>2, <1>3

LEMMA ReorderStep == ASSUME Grown, NEW w \in Editors, NEW p \in Leaves, NEW place, Reorder(w, p, place) PROVE Grown'
<1> DEFINE siblings == InOrder(Under(leaf[p].parent), leaf)
           wanted   == Inserted(siblings, p, place)
           rows     == [q \in Under(leaf[p].parent) |->
                          [leaf[q] EXCEPT !.position = (CHOOSE i \in 1..Len(wanted) : wanted[i] = q) - 1]]
           e        == [step |-> "ordering", page |-> p, place |-> place, under |-> leaf[p].parent, before |-> siblings,
                        rows |-> rows, left |-> SelectSeq(wanted, LAMBDA q : rows[q] # leaf[q]), saves |-> story.saves]
<1>1. Start(w, e) /\ leaf' = leaf /\ story' = Count(1, 0) /\ story \in Story BY DEF Reorder, Grown, Shapes
<1>2. story' \in Story /\ story'.known = story.known /\ story'.moved = story.moved /\ story'.given = story.given
  BY <1>1, Counted
<1>3. DOMAIN rows = Under(leaf[p].parent) OBVIOUS
<1>4. ASSUME NEW q \in DOMAIN rows
      PROVE  /\ q \in Leaves /\ In(q) /\ q \in story.known /\ Shaped(rows[q])
             /\ rows[q].parent = leaf[q].parent /\ rows[q].group = leaf[q].group
  <2>1. q \in Leaves /\ In(q) BY <1>3, <1>4 DEF Under
  <2>2. Shaped(leaf[q]) /\ q \in story.known BY <2>1, Standing
  <2> DEFINE k == (CHOOSE i \in 1..Len(wanted) : wanted[i] = q) - 1
  <2>3. rows[q] = [leaf[q] EXCEPT !.position = k] BY <1>3, <1>4
  <2> HIDE DEF k, rows
  <2>4. leaf[q] = Fields(leaf[q]) /\ leaf[q].born \in Nat \ {0} /\ leaf[q].parent \in Leaves \cup {Top}
    BY <2>2 DEF Shaped
  <2>5. /\ rows[q] = [parent |-> leaf[q].parent, born |-> leaf[q].born, group |-> leaf[q].group, position |-> k]
    BY <2>3, <2>4 DEF Fields
  <2> QED BY <2>1, <2>2, <2>4, <2>5 DEF Shaped, Fields
<1> HIDE DEF rows, wanted, siblings
<1>5. e.step = "ordering" /\ e.rows = rows OBVIOUS
<1>6. ShapedWork(e, story'.known) BY <1>2, <1>4 DEF ShapedWork, ShapedOrder, Ordering
<1>7. \A x \in Leaves : \A g : GroupIn(e, x, g) => x \in DOMAIN rows /\ g = rows[x].group BY <1>5 DEF GroupIn
<1>8. \A x \in Leaves : \A r : ClaimOf(e, x, r) => x \in DOMAIN rows /\ r = rows[x] BY <1>5 DEF ClaimOf, Editing
<1> HIDE DEF e
<1>9. editor' = [editor EXCEPT ![w] = e] BY <1>1, Begun
<1>10. Shapes' BY <1>1, <1>2, <1>6, <1>9, TakenUp DEF Grown
<1>11. \A x \in Leaves : \A g : GroupIn(e, x, g) => Knows(x, g) BY <1>4, <1>7, Standing
<1>12. \A x \in Leaves : \A r : ClaimOf(e, x, r) /\ r.parent \in Leaves =>
         /\ r.parent \in story.known
         /\ x \notin story'.given /\ r.parent \notin story.moved => \A g : Knows(r.parent, g) => r.group = g
  BY <1>8, <1>4, <1>2, Standing DEF FitsUnder
<1> QED BY <1>1, <1>2, <1>9, <1>10, <1>11, <1>12, TakeUp

LEMMA OneLess ==
  ASSUME NEW o, NEW ids, ShapedOrder(o, ids), NEW rest, NEW n
  PROVE  [o EXCEPT !.left = rest, !.saves = n] =
           [step |-> o.step, page |-> o.page, place |-> o.place, under |-> o.under, before |-> o.before,
            rows |-> o.rows, left |-> rest, saves |-> n]
<1> DEFINE once == [o EXCEPT !.left = rest]
<1>1. once = [step |-> o.step, page |-> o.page, place |-> o.place, under |-> o.under, before |-> o.before,
              rows |-> o.rows, left |-> rest, saves |-> o.saves]
  BY DEF ShapedOrder
<1> HIDE DEF once
<1>2. [once EXCEPT !.saves = n] =
        [step |-> o.step, page |-> o.page, place |-> o.place, under |-> o.under, before |-> o.before,
         rows |-> o.rows, left |-> rest, saves |-> n]
  BY <1>1
<1> QED BY <1>2 DEF once

LEMMA SiblingStep == ASSUME Grown, NEW w \in Editors, SaveSibling(w) PROVE Grown'
<1>1. PICK q \in DOMAIN editor[w].rows :
        LET row == editor[w].rows[q]
        IN  IF Stands(row)
            THEN /\ leaf' = [leaf EXCEPT ![q] = row]
                 /\ editor' = [editor EXCEPT ![w].left = Tail(@), ![w].saves = @ + 1]
                 /\ story' = [Count(0, 1) EXCEPT !.moved = IF In(q) /\ leaf[q].group # row.group THEN @ \cup {q} ELSE @]
            ELSE Finish(w) /\ UNCHANGED <<leaf, story>>
  BY DEF SaveSibling
<1> DEFINE o == editor[w]
           row == o.rows[q]
<1>2. Ordering(o) /\ ShapedOrder(o, story.known) BY Holds DEF SaveSibling, Editing, ShapedWork, Ordering, Waits
<1>3. CASE ~Stands(row) BY <1>1, <1>3, Ended
<1>4. CASE Stands(row)
  <2>1. /\ leaf' = [leaf EXCEPT ![q] = row]
        /\ editor' = [editor EXCEPT ![w].left = Tail(@), ![w].saves = @ + 1]
        /\ story' = [Count(0, 1) EXCEPT !.moved = IF In(q) /\ leaf[q].group # row.group THEN @ \cup {q} ELSE @]
    BY <1>1, <1>4
  <2>2. story \in Story /\ Count(0, 1) \in Story /\ q \in Leaves
    BY <1>2, Counted DEF Grown, Shapes, Story, ShapedOrder
  <2>3. /\ story' \in Story /\ story'.known = story.known /\ story'.given = story.given
        /\ story.moved \subseteq story'.moved
    <3> DEFINE moved == IF In(q) /\ leaf[q].group # row.group THEN story.moved \cup {q} ELSE story.moved
    <3>1. moved \subseteq Leaves /\ story.moved \subseteq moved BY <2>2 DEF Story
    <3>2. story' = [Count(0, 1) EXCEPT !.moved = moved] BY <2>1, <2>2, Counted
    <3> HIDE DEF moved
    <3> QED BY <2>2, <3>1, <3>2, Counted DEF Story
  <2> DEFINE e == [step |-> o.step, page |-> o.page, place |-> o.place, under |-> o.under, before |-> o.before,
                   rows |-> o.rows, left |-> Tail(o.left), saves |-> o.saves + 1]
  <2>4. editor' = [editor EXCEPT ![w] = e]
    BY <1>2, OneLess, <2>1 DEF Grown, Shapes
  <2>5. ShapedWork(e, story.known) BY <1>2 DEF ShapedWork, ShapedOrder, Ordering
  <2>6. \A x, r : ClaimOf(e, x, r) => ClaimOf(o, x, r) BY <1>2 DEF ClaimOf, Ordering, Editing
  <2>7. \A x, g : GroupIn(e, x, g) => GroupIn(o, x, g) BY <1>2 DEF GroupIn, Ordering
  <2>8. ClaimOf(o, q, row) /\ Knows(q, row.group) BY <1>2 DEF ClaimOf, GroupIn, Knows
  <2> HIDE DEF e, row
  <2> QED BY <1>4, <2>1, <2>2, <2>3, <2>4, <2>5, <2>6, <2>7, <2>8, SavedInPlace
<1> QED BY <1>3, <1>4

LEMMA StillStep == ASSUME Grown, UNCHANGED tree PROVE Grown'
BY DEF tree, Grown, Shapes, OneGroup, AllFit, FitsUnder, Knows, Claim, In, Stands

LEMMA GrownStep == Grown /\ [TreeNext]_tree => Grown'
<1> SUFFICES ASSUME Grown, [TreeNext]_tree PROVE Grown' OBVIOUS
<1>1. ASSUME NEW w \in Editors, NEW p \in Leaves, Requested(w, p) PROVE Grown'
  BY <1>1, AddStep, EditStep, ChooseStep, Deleted, CopyStep, ReorderStep DEF Requested
<1>2. ASSUME NEW w \in Editors, ReorderDone(w) PROVE Grown' BY <1>2, Ended DEF ReorderDone
<1> QED BY <1>1, <1>2, SaveStep, SiblingStep, StillStep DEF TreeNext

\* Whatever requests overlap, and however they write back what they loaded, a wiki
\* is in the group of the wiki above it, but for the exceptions of GroupOfParent.
THEOREM GroupFollowsParent == TreeSpec => []GroupOfParent
BY GrownInit, GrownStep, GrownGives, PTL DEF TreeSpec

\* No row is left under a parent that is gone: what is below a deleted page goes with
\* it, and a copy that would come back without its parent is refused.
NoneBereft == \A p \in Leaves : In(p) => Stands(leaf[p])
THEOREM NoneBereftEver == TreeSpec => []NoneBereft
<1>1. Grown => NoneBereft BY DEF Grown, Shapes, NoneBereft
<1> QED BY <1>1, GrownInit, GrownStep, PTL DEF TreeSpec

-----------------------------------------------------------------------------
(***************************************************************************)
(* Files.                                                                  *)
(***************************************************************************)
FileRow  == [on : Editions, blocked : BOOLEAN, thumb : Editions \cup {NoThumb}]
CopyRow  == [of : Images, status : {"PENDING", "OK", "FAILED"}, shows : (Images \X Editions) \cup {<<>>}]
PageOf   == [step : {"loaded"}, kind : Pages, file : Images, row : FileRow, shows : Images \X Editions,
             does : {"touch", "thumb", "stream"}, found : BOOLEAN, older : BOOLEAN]
MissOf   == [step : {"missing"}, file : Images]
ResizeOf == [step : {"resizing"}, copy : Nat, row : CopyRow]
RowOf    == [step : {"scanning", "replacing", "deleting"}, file : Images, row : FileRow]
Doings   == {Ready} \cup PageOf \cup MissOf \cup ResizeOf \cup RowOf
Records  == [found : SUBSET (Images \X Editions), muddled : SUBSET Images,
             spent : 0..MaxServed, deaths : Nat, made : Nat]

Typed ==
  /\ stored \in [Images -> FileRow \cup {Absent}]
  /\ server \in [Servers -> Doings]
  /\ copies \in [DOMAIN copies -> CopyRow]
  /\ record \in Records
  /\ \A p \in Servers : Doing(p, "replacing") => server[p].row.on < MaxEdition

\* Every copy, and every task of one, has had its number given out.
Numbered ==
  /\ DOMAIN copies \subseteq 1..record.made /\ tasks \subseteq 1..record.made
  /\ \A p \in Servers : Doing(p, "resizing") => server[p].copy \in 1..record.made

\* A copy that is ready shows the file it is of.
Own(row) == row.status = "OK" => row.shows \in {row.of} \X Editions
CopiesOwn ==
  /\ \A i \in DOMAIN copies : Own(copies[i])
  /\ \A p \in Servers : Doing(p, "resizing") => server[p].row.status # "OK"

\* What a scan found is not newer than what the row points to, and if the row
\* still points to it, the row is blocked, unless a stale row was saved over it.
SealedFile(f) ==
  stored[f] # Absent /\ f \notin record.muddled =>
    /\ \A e \in Editions : <<f, e>> \in record.found => e <= stored[f].on
    /\ <<f, stored[f].on>> \in record.found => stored[f].blocked
Sealed == \A f \in Images : SealedFile(f)

\* A page that is under way streams its own file, of which nothing was found but
\* what archives and old copies may hold.
PageSound(p) == Doing(p, "loaded") => Cleared(server[p]) /\ server[p].shows[1] = server[p].file
PagesFit == \A p \in Servers : PageSound(p)
ShownSound == FoundNotServed /\ ServedIsOwn

DInv == Typed /\ Numbered /\ CopiesOwn /\ Sealed /\ PagesFit /\ ShownSound
-----------------------------------------------------------------------------
\* A process is doing one thing, whose state has the fields of it.
LEMMA DoingTyped ==
  ASSUME Typed, NEW p \in Servers
  PROVE  /\ Doing(p, "loaded") => server[p] \in PageOf
         /\ Doing(p, "missing") => server[p] \in MissOf
         /\ Doing(p, "resizing") => server[p] \in ResizeOf
         /\ \A step \in {"scanning", "replacing", "deleting"} :
              Doing(p, step) => server[p] \in RowOf /\ server[p].step = step
<1>1. server[p] \in Doings BY DEF Typed
<1> QED BY <1>1 DEF Doing, Doings, PageOf, MissOf, ResizeOf, RowOf

\* What one process does leaves the others where they are.
LEMMA Becoming ==
  ASSUME Typed, NEW p \in Servers, NEW state \in Doings, Become(p, state)
  PROVE  /\ server' \in [Servers -> Doings]
         /\ server'[p] = state
         /\ \A q \in Servers \ {p} : server'[q] = server[q]
         /\ \A step : Doing(p, step)' <=> state # Ready /\ state.step = step
         /\ \A q \in Servers \ {p} : \A step : Doing(q, step)' <=> Doing(q, step)
BY DEF Typed, Become, Doing

\* Numbers that were given out have a least one.
LEMMA LeastOne ==
  ASSUME NEW S, NEW n \in Nat, S \subseteq 1..n, S # {}
  PROVE  \E i \in S : \A j \in S : i <= j
<1>1. S \subseteq Nat OBVIOUS
<1>2. PICK i \in S : \A j \in S : ~(<<j, i>> \in OpToRel(<, Nat)) BY <1>1, NatLessThanWellFounded, WFMin, Zenon
<1>3. \A j \in S : ~(j < i) BY <1>1, <1>2 DEF OpToRel
<1> QED BY <1>1, <1>3

LEMMA DownloadsInitSound == DownloadsInit => DInv
<1> SUFFICES ASSUME DownloadsInit PROVE DInv OBVIOUS
<1> USE DownloadsAssumption DEF DownloadsInit
<1>1. Typed BY DEF Typed, FileRow, Doings, Records, Editions, NoThumb, Ready, CopyRow, Doing
<1>2. Numbered /\ CopiesOwn /\ PagesFit BY DEF Numbered, CopiesOwn, PagesFit, PageSound, Doing
<1>3. Sealed /\ ShownSound BY DEF Sealed, SealedFile, ShownSound, FoundNotServed, ServedIsOwn, Nothing, Cleared
<1> QED BY <1>1, <1>2, <1>3 DEF DInv

\* The invariant holds after a step that leaves the rows, the copies and the
\* history alone and gives one process something sound to do.
LEMMA Starting ==
  ASSUME DInv, NEW p \in Servers, NEW state \in Doings, Become(p, state),
         UNCHANGED <<stored, copies, shown>>,
         tasks' \subseteq tasks,
         record' \in Records, record'.found = record.found,
         record'.muddled = record.muddled, record'.made = record.made,
         state # Ready /\ state.step = "loaded" => Cleared(state) /\ state.shows[1] = state.file,
         state # Ready /\ state.step = "resizing" => state.copy \in 1..record.made /\ state.row.status # "OK",
         state # Ready /\ state.step = "replacing" => state.row.on < MaxEdition
  PROVE  DInv'
<1> USE DEF DInv
<1>1. /\ server' \in [Servers -> Doings]
      /\ server'[p] = state
      /\ \A q \in Servers \ {p} : server'[q] = server[q]
      /\ \A step : Doing(p, step)' <=> state # Ready /\ state.step = step
      /\ \A q \in Servers \ {p} : \A step : Doing(q, step)' <=> Doing(q, step)
  BY Becoming
<1>2. Typed' BY <1>1 DEF Typed
<1>3. Numbered' BY <1>1 DEF Numbered
<1>4. CopiesOwn' BY <1>1 DEF CopiesOwn
<1>5. Sealed' BY DEF Sealed, SealedFile
<1>6. PagesFit' BY <1>1 DEF PagesFit, PageSound, Cleared
<1>7. ShownSound' BY DEF ShownSound, FoundNotServed, ServedIsOwn
<1> QED BY <1>2, <1>3, <1>4, <1>5, <1>6, <1>7

LEMMA SpentRecord ==
  ASSUME record \in Records, record.spent < MaxServed
  PROVE  /\ Spent(record) \in Records
         /\ Spent(record).found = record.found /\ Spent(record).muddled = record.muddled
         /\ Spent(record).made = record.made
BY DownloadsAssumption DEF Records, Spent

LEMMA OpenPageSound ==
  ASSUME DInv, NEW p \in Servers, NEW kind \in Pages, NEW f \in Images, OpenPage(p, kind, f)
  PROVE  DInv'
<1>1. /\ record' = Spent(record) /\ record.spent < MaxServed
      /\ UNCHANGED <<stored, disk, taint, copies, tasks, shown>>
      /\ stored[f] # Absent /\ ~Refused(kind, stored[f])
  BY DEF OpenPage
<1>2. record' \in Records /\ record'.found = record.found /\ record'.muddled = record.muddled
      /\ record'.made = record.made
  BY <1>1, SpentRecord DEF DInv, Typed
<1>3. stored[f] \in FileRow BY <1>1 DEF DInv, Typed
<1>4. <<f, stored[f].on>> \in record.found /\ f \notin record.muddled => kind = "zip"
  BY <1>1, <1>3 DEF DInv, Sealed, SealedFile, Refused
<1>5. ASSUME NEW shows \in {f} \X Editions, Become(p, Loaded(kind, f, shows))
      PROVE  DInv'
  <2>1. Loaded(kind, f, shows) \in PageOf /\ Loaded(kind, f, shows).shows[1] = Loaded(kind, f, shows).file
    BY <1>3, <1>5 DEF Loaded, PageOf
  <2>2. Loaded(kind, f, shows).step = "loaded" BY DEF Loaded
  <2>3. Cleared(Loaded(kind, f, shows))
    <3>1. CASE shows[2] = stored[f].on
      <4>1. shows = <<f, stored[f].on>> BY <1>5, <3>1
      <4> QED BY <1>4, <4>1 DEF Loaded, Cleared
    <3>2. CASE shows[2] # stored[f].on BY <3>2 DEF Loaded, Cleared
    <3> QED BY <3>1, <3>2
  <2> QED BY <1>1, <1>2, <1>5, <2>1, <2>2, <2>3, Starting DEF Doings
<1>6. CASE Become(p, Loaded(kind, f, <<f, stored[f].on>>)) BY <1>3, <1>5, <1>6 DEF FileRow
<1>7. CASE kind \in Sizable /\ CopiesOf(f) = {} /\ Become(p, [step |-> "missing", file |-> f])
  BY <1>1, <1>2, <1>7, Starting DEF MissOf, Doings
<1>8. CASE /\ CopiesOf(f) # {} /\ copies[FirstCopy(f)].status = "OK"
           /\ Become(p, Loaded(kind, f, copies[FirstCopy(f)].shows))
  <2>1. PICK i \in CopiesOf(f) : \A j \in CopiesOf(f) : i <= j
    BY <1>8, LeastOne DEF DInv, Numbered, CopiesOf, Typed, Records
  <2>2. FirstCopy(f) \in CopiesOf(f) BY <2>1 DEF FirstCopy
  <2>3. FirstCopy(f) \in DOMAIN copies /\ copies[FirstCopy(f)].of = f BY <2>2 DEF CopiesOf
  <2>4. copies[FirstCopy(f)].shows \in {f} \X Editions BY <1>8, <2>3 DEF DInv, CopiesOwn, Own
  <2> QED BY <1>5, <1>8, <2>4
<1> QED BY <1>6, <1>7, <1>8 DEF OpenPage

LEMMA LoadRowSound ==
  ASSUME DInv, NEW p \in Servers, NEW step \in {"scanning", "replacing", "deleting"}, NEW f \in Images,
         LoadRow(p, step, f)
  PROVE  DInv'
BY SpentRecord, Starting DEF LoadRow, DInv, Typed, RowOf, Doings

LEMMA TakeResizeSound ==
  ASSUME DInv, NEW p \in Servers, NEW i \in tasks, TakeResize(p, i)
  PROVE  DInv'
<1>1. record \in Records BY DEF DInv, Typed
<1>2. CASE Settled(i)
  BY <1>2 DEF TakeResize, DInv, Typed, Numbered, CopiesOwn, Sealed, SealedFile, PagesFit, PageSound,
              ShownSound, FoundNotServed, ServedIsOwn, Doing
<1>3. CASE ~Settled(i)
  <2>1. i \in DOMAIN copies /\ copies[i].status # "OK" /\ copies[i] \in CopyRow BY <1>3 DEF Settled, DInv, Typed
  <2>2. i \in 1..record.made BY <2>1 DEF DInv, Numbered
  <2>3. [step |-> "resizing", copy |-> i, row |-> copies[i]] \in ResizeOf BY <2>1, <2>2, <1>1 DEF ResizeOf, Records
  <2> QED BY <1>1, <1>3, <2>1, <2>2, <2>3, Starting DEF TakeResize, Doings
<1> QED BY <1>2, <1>3

LEMMA WorkerDiesSound ==
  ASSUME DInv, NEW p \in Servers, WorkerDies(p)
  PROVE  DInv'
BY Starting DEF WorkerDies, DInv, Typed, Records, Doings

LEMMA PendingSound ==
  ASSUME DInv, ResizePendingImages
  PROVE  DInv'
<1>1. tasks' \subseteq 1..record.made BY DEF ResizePendingImages, DInv, Numbered
<1> QED
  BY <1>1 DEF ResizePendingImages, DInv, Typed, Numbered, CopiesOwn, Sealed, SealedFile, PagesFit, PageSound,
              ShownSound, FoundNotServed, ServedIsOwn, Doing

-----------------------------------------------------------------------------
\* What follows of a process that ends what it did.
LEMMA Ending ==
  ASSUME Typed, NEW p \in Servers, Become(p, Ready)
  PROVE  /\ server' \in [Servers -> Doings]
         /\ \A q \in Servers : \A step : Doing(q, step)' =>
              q # p /\ Doing(q, step) /\ server'[q] = server[q]
<1>1. Ready \in Doings BY DEF Doings
<1> QED BY <1>1, Becoming DEF Doing

\* Only the copies and their tasks move.
LEMMA CopiesMove ==
  ASSUME DInv, NEW p \in Servers, Become(p, Ready), UNCHANGED <<stored, shown>>,
         record' \in Records, record'.found = record.found, record'.muddled = record.muddled,
         record'.made \in {record.made, record.made + 1},
         copies' \in [DOMAIN copies' -> CopyRow], DOMAIN copies' \subseteq 1..record'.made,
         tasks' \subseteq 1..record'.made,
         \A i \in DOMAIN copies' : Own(copies'[i])
  PROVE  DInv'
<1> USE DEF DInv
<1>1. /\ server' \in [Servers -> Doings]
      /\ \A q \in Servers : \A step : Doing(q, step)' => Doing(q, step) /\ server'[q] = server[q]
  BY Ending
<1>2. Typed' BY <1>1 DEF Typed
<1>3. Numbered'
  <2>1. record.made \in Nat BY DEF Typed, Records
  <2> QED BY <1>1, <2>1 DEF Numbered
<1>4. CopiesOwn' BY <1>1 DEF CopiesOwn
<1>5. Sealed' /\ PagesFit' /\ ShownSound'
  BY <1>1 DEF Sealed, SealedFile, PagesFit, PageSound, ShownSound, FoundNotServed, ServedIsOwn
<1> QED BY <1>2, <1>3, <1>4, <1>5

LEMMA RequestCopySound ==
  ASSUME DInv, NEW p \in Servers, RequestCopy(p)
  PROVE  DInv'
<1>1. record \in Records /\ server[p] \in MissOf BY DoingTyped DEF DInv, Typed, RequestCopy
<1>2. record' \in Records /\ record'.found = record.found /\ record'.muddled = record.muddled
      /\ record'.made = record.made + 1 /\ record.made \in Nat
  BY <1>1 DEF RequestCopy, Records
<1>3. [of |-> server[p].file, status |-> "PENDING", shows |-> <<>>] \in CopyRow BY <1>1 DEF MissOf, CopyRow
<1>4. copies' \in [DOMAIN copies' -> CopyRow] /\ DOMAIN copies' = DOMAIN copies \cup {record'.made}
  BY <1>3 DEF RequestCopy, DInv, Typed
<1>5. DOMAIN copies' \subseteq 1..record'.made /\ tasks' \subseteq 1..record'.made
  BY <1>2, <1>4 DEF RequestCopy, DInv, Numbered
<1>6. \A i \in DOMAIN copies' : Own(copies'[i]) BY <1>4 DEF RequestCopy, DInv, CopiesOwn, Own
<1> QED BY <1>2, <1>4, <1>5, <1>6, CopiesMove DEF RequestCopy

LEMMA ImageResizeSound ==
  ASSUME DInv, NEW p \in Servers, ImageResize(p)
  PROVE  DInv'
<1> DEFINE s == server[p]
<1>1. record \in Records /\ s \in ResizeOf /\ s.copy \in 1..record.made
  BY DoingTyped DEF DInv, Typed, Numbered, ImageResize
<1>2. ASSUME NEW row \in CopyRow, Own(row), copies' = Written(s.copy, row)
      PROVE  DInv'
  <2>1. copies' \in [DOMAIN copies' -> CopyRow] /\ DOMAIN copies' = DOMAIN copies \cup {s.copy}
    BY <1>2 DEF Written, DInv, Typed
  <2>2. \A i \in DOMAIN copies' : Own(copies'[i]) BY <1>2, <2>1 DEF Written, DInv, CopiesOwn
  <2> QED BY <1>1, <2>1, <2>2, CopiesMove DEF ImageResize, DInv, Numbered
<1>3. CASE /\ stored[s.row.of] # Absent
           /\ copies' = Written(s.copy, [s.row EXCEPT !.status = "OK", !.shows = <<s.row.of, stored[s.row.of].on>>])
  <2>1. s.row \in CopyRow /\ stored[s.row.of] \in FileRow BY <1>1, <1>3 DEF ResizeOf, CopyRow, DInv, Typed
  <2>2. [s.row EXCEPT !.status = "OK", !.shows = <<s.row.of, stored[s.row.of].on>>] \in CopyRow
    BY <2>1 DEF CopyRow, FileRow
  <2>3. Own([s.row EXCEPT !.status = "OK", !.shows = <<s.row.of, stored[s.row.of].on>>])
    BY <2>1 DEF Own, CopyRow, FileRow
  <2> QED BY <1>2, <1>3, <2>2, <2>3
<1>4. CASE copies' = Written(s.copy, [s.row EXCEPT !.status = "FAILED"])
  BY <1>1, <1>2, <1>4 DEF ResizeOf, CopyRow, Own
<1> QED BY <1>3, <1>4 DEF ImageResize

-----------------------------------------------------------------------------
\* Only the row of a file, the history and what is shown move.
LEMMA RowMoves ==
  ASSUME DInv, NEW p \in Servers, NEW f \in Images, NEW row \in FileRow,
         Become(p, Ready), UNCHANGED <<copies, tasks>>,
         stored' \in {stored, [stored EXCEPT ![f] = row]},
         record' \in Records, record'.made = record.made,
         record.muddled \subseteq record'.muddled,
         \A g \in Images \ {f}, e \in Editions : <<g, e>> \in record'.found => <<g, e>> \in record.found,
         SealedFile(f)', ShownSound'
  PROVE  DInv'
<1> USE DEF DInv
<1>1. /\ server' \in [Servers -> Doings]
      /\ \A q \in Servers : \A step : Doing(q, step)' => Doing(q, step) /\ server'[q] = server[q]
  BY Ending
<1>2. stored' \in [Images -> FileRow \cup {Absent}] /\ \A g \in Images \ {f} : stored'[g] = stored[g] BY DEF Typed
<1>3. Typed' BY <1>1, <1>2 DEF Typed
<1>4. Numbered' /\ CopiesOwn' /\ PagesFit' BY <1>1 DEF Numbered, CopiesOwn, PagesFit, PageSound
<1>5. ASSUME NEW g \in Images \ {f} PROVE SealedFile(g)'
  BY <1>2 DEF Typed, FileRow, Sealed, SealedFile
<1>6. Sealed' BY <1>5 DEF Sealed
<1> QED BY <1>3, <1>4, <1>6

LEMMA Overwriting ==
  ASSUME record \in Records, NEW f \in Images, NEW row
  PROVE  /\ Overwrite(f, row, record) \in Records
         /\ Overwrite(f, row, record).made = record.made
         /\ Overwrite(f, row, record).found = record.found
         /\ record.muddled \subseteq Overwrite(f, row, record).muddled
         /\ f \notin Overwrite(f, row, record).muddled => row = stored[f] /\ f \notin record.muddled
BY DEF Overwrite, Records

LEMMA ShowPageSound ==
  ASSUME DInv, NEW p \in Servers, ShowPage(p)
  PROVE  DInv'
<1> DEFINE s == server[p]
           row == Touched(s.does, s.row, s.file)
           what == IF s.does = "thumb" THEN <<s.file, row.thumb>> ELSE s.shows
<1>1. /\ s \in PageOf /\ record \in Records
      /\ Cleared(s) /\ s.shows[1] = s.file
  BY DoingTyped DEF ShowPage, DInv, Typed, PagesFit, PageSound
<1>2. /\ s.file \in Images /\ s.row \in FileRow
      /\ row \in FileRow /\ row.on = s.row.on /\ row.blocked = s.row.blocked
  BY <1>1 DEF PageOf, Touched, FileRow
<1>3. ShownSound'
  BY <1>1 DEF ShowPage, ShownSound, FoundNotServed, ServedIsOwn, Nothing, Cleared
<1>4. \/ stored' = stored /\ record' = record
      \/ stored' = [stored EXCEPT ![s.file] = row] /\ record' = Overwrite(s.file, s.row, record)
  BY DEF ShowPage
<1>5. /\ record' \in Records /\ record'.made = record.made /\ record'.found = record.found
      /\ record.muddled \subseteq record'.muddled
      /\ s.file \notin record'.muddled /\ stored'[s.file] # Absent =>
           /\ stored[s.file] # Absent
           /\ stored'[s.file].on = stored[s.file].on /\ stored'[s.file].blocked = stored[s.file].blocked
  <2>1. CASE stored' = stored /\ record' = record BY <1>1, <2>1, Zenon
  <2>2. CASE stored' = [stored EXCEPT ![s.file] = row] /\ record' = Overwrite(s.file, s.row, record)
    <3>1. stored'[s.file] = row /\ row # Absent BY <1>2, <2>2 DEF DInv, Typed, FileRow, Absent, NoThumb, Editions
    <3>2. /\ record' \in Records /\ record'.made = record.made /\ record'.found = record.found
          /\ record.muddled \subseteq record'.muddled
          /\ s.file \notin record'.muddled => s.row = stored[s.file]
      BY <1>1, <1>2, <2>2, Overwriting
    <3>3. s.row # Absent BY <1>2 DEF FileRow, Absent, NoThumb, Editions
    <3> HIDE DEF s, row
    <3> QED BY <1>2, <3>1, <3>2, <3>3
  <2> QED BY <1>4, <2>1, <2>2
<1>f. PICK f \in Images : f = s.file BY <1>2
<1>6. SealedFile(f)' BY <1>5, <1>f DEF DInv, Sealed, SealedFile
<1>7. Become(p, Ready) /\ UNCHANGED <<copies, tasks>> BY DEF ShowPage
<1>8. stored' \in {stored, [stored EXCEPT ![s.file] = row]} BY <1>4
<1> HIDE DEF s, row, what
<1> QED BY <1>2, <1>f, <1>3, <1>5, <1>6, <1>7, <1>8, RowMoves

LEMMA FinishScanSound ==
  ASSUME DInv, NEW p \in Servers, FinishScan(p)
  PROVE  DInv'
<1>1. /\ record \in Records /\ stored \in [Images -> FileRow \cup {Absent}]
      /\ server[p] \in RowOf /\ server[p].step = "scanning"
  BY DoingTyped DEF FinishScan, DInv, Typed
<1>2. PICK f \in Images, old \in FileRow : server[p].file = f /\ server[p].row = old BY <1>1 DEF RowOf
<1>3. PICK verdict \in Verdicts(f, old) :
        /\ stored' = [stored EXCEPT ![f] = Judged(old, verdict)]
        /\ record' = [Overwrite(f, old, record) EXCEPT
                        !.found = IF verdict = "virus" THEN @ \cup {<<f, old.on>>} ELSE @ \ {<<f, old.on>>}]
  BY <1>2 DEF FinishScan
<1> DEFINE row == Judged(old, verdict)
<1>4. row \in FileRow /\ row.on = old.on /\ (verdict = "virus" => row.blocked)
  <2> DEFINE b == verdict \in {"missing", "virus"}
  <2>1. b \in BOOLEAN /\ (verdict = "virus" => b) OBVIOUS
  <2>2. row = [old EXCEPT !.blocked = b] BY DEF Judged
  <2> HIDE DEF row, b
  <2> QED BY <2>1, <2>2 DEF FileRow
<1>5. /\ record' \in Records /\ record'.made = record.made
      /\ record.muddled \subseteq record'.muddled
      /\ f \notin record'.muddled => old = stored[f] /\ f \notin record.muddled
      /\ \A g \in Images \ {f}, e \in Editions : <<g, e>> \in record'.found => <<g, e>> \in record.found
      /\ \A e \in Editions \ {old.on} : <<f, e>> \in record'.found => <<f, e>> \in record.found
      /\ <<f, old.on>> \in record'.found => verdict = "virus"
  <2>1. old.on \in Editions BY DEF FileRow
  <2> QED BY <1>1, <1>3, <2>1, Overwriting DEF Records
<1>6. SealedFile(f)'
  <2>1. stored'[f] = row BY <1>1, <1>3
  <2>2. old # Absent /\ old.on \in Int BY DEF FileRow, Absent, NoThumb, Editions
  <2> QED BY <1>4, <1>5, <2>1, <2>2 DEF DInv, Sealed, SealedFile
<1>7. ShownSound' BY DEF FinishScan, DInv, ShownSound, FoundNotServed, ServedIsOwn
<1>8. Become(p, Ready) /\ UNCHANGED <<copies, tasks>> BY DEF FinishScan
<1> HIDE DEF row
<1> QED BY <1>3, <1>4, <1>5, <1>6, <1>7, <1>8, RowMoves DEF row

LEMMA ReplaceSound ==
  ASSUME DInv, NEW p \in Servers, Replace(p)
  PROVE  DInv'
<1>1. /\ record \in Records /\ stored \in [Images -> FileRow \cup {Absent}]
      /\ server[p] \in RowOf /\ server[p].row.on < MaxEdition
  BY DoingTyped DEF Replace, DInv, Typed
<1>2. PICK f \in Images, old \in FileRow : server[p].file = f /\ server[p].row = old BY <1>1 DEF RowOf
<1> DEFINE row == [old EXCEPT !.on = old.on + 1, !.thumb = NoThumb]
<1>3. stored' = [stored EXCEPT ![f] = row] /\ record' = Overwrite(f, old, record) BY <1>2 DEF Replace
<1>4. row \in FileRow /\ row.on = old.on + 1 /\ old.on \in Int
  <2>1. old.on \in Editions /\ old.blocked \in BOOLEAN /\ old.on < MaxEdition BY <1>1, <1>2 DEF FileRow
  <2>2. old.on + 1 \in Editions /\ old.on \in Int BY <2>1, DownloadsAssumption DEF Editions
  <2> DEFINE mid == [old EXCEPT !.on = old.on + 1]
  <2>3. mid \in FileRow /\ mid.on = old.on + 1 BY <2>2 DEF FileRow
  <2>4. row = [mid EXCEPT !.thumb = NoThumb] BY Zenon
  <2> HIDE DEF row, mid
  <2> QED BY <2>2, <2>3, <2>4 DEF FileRow
<1>5. /\ record' \in Records /\ record'.made = record.made
      /\ record.muddled \subseteq record'.muddled /\ record'.found = record.found
      /\ f \notin record'.muddled => old = stored[f] /\ f \notin record.muddled
  BY <1>1, <1>3, Overwriting
<1>6. SealedFile(f)'
  <2>1. stored'[f] = row BY <1>1, <1>3
  <2>2. old # Absent BY DEF FileRow, Absent, NoThumb, Editions
  <2>3. \A e \in Editions : e \in Int BY DEF Editions
  <2>4. f \notin record'.muddled => \A e \in Editions : <<f, e>> \in record'.found => e <= old.on
    BY <1>5, <2>2 DEF DInv, Sealed, SealedFile
  <2>5. row.on \in Editions BY <1>4 DEF FileRow
  <2> HIDE DEF row
  <2> QED BY <1>4, <2>1, <2>3, <2>4, <2>5 DEF SealedFile
<1>7. ShownSound' BY DEF Replace, DInv, ShownSound, FoundNotServed, ServedIsOwn
<1>8. Become(p, Ready) /\ UNCHANGED <<copies, tasks>> BY DEF Replace
<1> HIDE DEF row
<1> QED BY <1>3, <1>4, <1>5, <1>6, <1>7, <1>8, RowMoves

LEMMA DropSound ==
  ASSUME DInv, NEW p \in Servers, Drop(p)
  PROVE  DInv'
<1> USE DEF DInv
<1>1. /\ server' \in [Servers -> Doings]
      /\ \A q \in Servers : \A step : Doing(q, step)' => Doing(q, step) /\ server'[q] = server[q]
  BY Ending DEF Drop
<1>2. server[p].file \in Images BY DoingTyped DEF Drop, RowOf
<1>3. PICK f \in Images : f = server[p].file BY <1>2
<1>4. /\ stored' = [stored EXCEPT ![f] = Absent]
      /\ copies' = [i \in DOMAIN copies \ CopiesOf(f) |-> copies[i]]
      /\ UNCHANGED <<tasks, shown, record>>
  BY <1>3 DEF Drop
<1>5. Typed' BY <1>1, <1>4 DEF Typed
<1>6. Numbered' /\ CopiesOwn' /\ PagesFit' /\ ShownSound'
  BY <1>1, <1>4 DEF Numbered, CopiesOwn, PagesFit, PageSound, ShownSound, FoundNotServed, ServedIsOwn
<1>7. ASSUME NEW g \in Images PROVE SealedFile(g)' BY <1>4 DEF Typed, Sealed, SealedFile
<1> QED BY <1>5, <1>6, <1>7 DEF Sealed

-----------------------------------------------------------------------------
LEMMA DownloadsStepSound == DInv /\ [DownloadsNext]_downloads => DInv'
<1> SUFFICES ASSUME DInv, [DownloadsNext]_downloads PROVE DInv' OBVIOUS
<1>1. CASE ResizePendingImages BY <1>1, PendingSound
<1>2. ASSUME NEW p \in Servers, Ask(p) PROVE DInv' BY <1>2, OpenPageSound, LoadRowSound DEF Ask
<1>3. ASSUME NEW p \in Servers, Serve(p) PROVE DInv'
  BY <1>3, RequestCopySound, ShowPageSound, ImageResizeSound, FinishScanSound, ReplaceSound, DropSound
     DEF Serve
<1>4. ASSUME NEW p \in Servers, TakeTask(p) \/ WorkerDies(p) PROVE DInv'
  BY <1>4, TakeResizeSound, WorkerDiesSound DEF TakeTask
<1>5. CASE UNCHANGED downloads
  BY <1>5 DEF downloads, DInv, Typed, Numbered, CopiesOwn, Sealed, SealedFile, PagesFit, PageSound,
              ShownSound, FoundNotServed, ServedIsOwn, Doing
<1> QED BY <1>1, <1>2, <1>3, <1>4, <1>5 DEF DownloadsNext

LEMMA DInvAlways == DownloadsSpec => []DInv
BY DownloadsInitSound, DownloadsStepSound, PTL DEF DownloadsSpec

\* Whatever pages, scans, replacements, deletions and resize tasks overlap, and
\* whichever worker dies: contents in which a scan found a virus are on no page
\* opened later (file/views.py, file/tasks.py) but an archive or a copy made of
\* what the file held before, unless a stale row was saved over the verdict; and
\* what a page streams is the file it was asked for or a copy of it
\* (get_resized_image).
THEOREM ServedSound == DownloadsSpec => []DownloadsSound
<1>1. DInv => DownloadsSound
  <2> SUFFICES ASSUME DInv PROVE DownloadsSound OBVIOUS
  <2>1. DownloadsTypeOK
    <3>1. \A f \in Images : stored[f] = Absent \/ (stored[f].on \in Editions /\ stored[f].thumb \in Editions \cup {NoThumb})
      BY DEF DInv, Typed, FileRow
    <3>2. \A i \in DOMAIN copies : copies[i].of \in Images /\ copies[i].status \in {"PENDING", "OK", "FAILED"}
      BY DEF DInv, Typed, CopyRow
    <3>3. \A i \in DOMAIN copies : copies[i].status = "OK" => copies[i].shows \in Images \X Editions
      BY <3>2 DEF DInv, CopiesOwn, Own
    <3>4. record.spent <= MaxServed BY DownloadsAssumption DEF DInv, Typed, Records
    <3> QED BY <3>1, <3>2, <3>3, <3>4 DEF DownloadsTypeOK
  <2> QED BY <2>1 DEF DInv, ShownSound, DownloadsSound
<1> QED BY <1>1, DInvAlways, PTL

\* A copy that is ready is never set back by another run of its task (image_resize,
\* resize_pending_images), except by one that took the row before it was ready.
THEOREM ReadyStaysAlways == DownloadsSpec => ReadyStays
<1> DEFINE Stays ==
      \A i \in DOMAIN copies :
        /\ copies[i].status = "OK" /\ i \in DOMAIN copies'
        /\ ~\E p \in Servers : Doing(p, "resizing") /\ server[p].copy = i /\ server[p].row.status # "OK"
        => copies'[i].status = "OK"
<1>1. DInv /\ [DownloadsNext]_downloads => [Stays]_downloads
  <2> SUFFICES ASSUME DInv, DownloadsNext PROVE Stays BY DEF Stays
  <2>1. ASSUME NEW p \in Servers, RequestCopy(p) PROVE Stays
    BY <2>1 DEF RequestCopy, DInv, Typed, Records, Numbered
  <2>2. ASSUME NEW p \in Servers, ImageResize(p) PROVE Stays
    BY <2>2 DEF ImageResize, DInv, CopiesOwn, Written
  <2>3. ASSUME NEW p \in Servers, Drop(p) PROVE Stays BY <2>3 DEF Drop
  <2>4. ASSUME UNCHANGED copies PROVE Stays BY <2>4
  <2> HIDE DEF Stays
  <2>5. ASSUME NEW p \in Servers, Ask(p) \/ Serve(p) \/ TakeTask(p) \/ WorkerDies(p) PROVE Stays
    BY <2>1, <2>2, <2>3, <2>4, <2>5
       DEF Ask, Serve, TakeTask, OpenPage, LoadRow, ShowPage, FinishScan, Replace, TakeResize, WorkerDies
  <2> QED BY <2>4, <2>5 DEF DownloadsNext, ResizePendingImages
<1> QED BY <1>1, DInvAlways, PTL DEF DownloadsSpec, ReadyStays
=============================================================================
