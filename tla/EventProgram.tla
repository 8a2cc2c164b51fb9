---------------------------- MODULE EventProgram ----------------------------
(***************************************************************************)
(* The programme of an event: its sub-events, which take their owner,      *)
(* access and publication from it whenever either is saved, and its slots, *)
(* lists of sub-events of which a visitor may attend one, kept in the      *)
(* event and again in each sub-event.  An event can be copied with its     *)
(* sub-events.  Requests save whole rows they loaded earlier.              *)
(***************************************************************************)
EXTENDS Naturals, FiniteSets

CONSTANTS
  Keys,        \* primary keys, 1..n
  Organisers, \* who own events
  Editors,    \* processes that serve requests
  MaxEdits    \* bound: requests

VARIABLES
  event,    \* rows of the events
  edit,     \* what a request has loaded and has still to do
  unused,   \* the next primary key
  loose,    \* history: what a request left undone in a family of events
  edits     \* requests so far

program == <<event, edit, unused, loose, edits>>

None == [parent |-> 0]     \* no row; 0 is the null parent
Top  == 0
Vacant == [step |-> "free"]

Exists(i)   == event[i] # None
SubEvents(i) == {j \in Keys : Exists(j) /\ event[j].parent = i}
Family(row) == IF row.parent = Top THEN row.id ELSE row.parent
Busy(w)     == edit[w] # Vacant
\* Slots can name sub-events of another event, as those of a copy do.
Strangers(row)  == {event[i].parent : i \in {i \in UNION row.slots : Exists(i) /\ event[i].parent # row.id}} \ {Top}
Involved(row, from) == {Family(row), from} \cup Strangers(row)
At(w)       == Involved(edit[w].row, edit[w].from)

-----------------------------------------------------------------------------
(* Saving an event.                                                        *)

FinalizeSubevent(row, parent) == [row EXCEPT !.owner = parent.owner, !.published = parent.published]

\* Each sub-event stores the members of its slot, itself included.
\* Mutant of FinalizeSlots: the previous setting is not reset.
FinalizeSlotsKept(row) ==
  [i \in Keys |-> IF ~Exists(i) \/ ~\E s \in row.slots : i \in s THEN event[i]
                 ELSE [event[i] EXCEPT !.shared = CHOOSE s \in row.slots : i \in s]]
FinalizeSlots(row) ==
  [i \in Keys |-> IF ~Exists(i) THEN None
                 ELSE IF \E s \in row.slots : i \in s THEN [event[i] EXCEPT !.shared = CHOOSE s \in row.slots : i \in s]
                 ELSE IF i \in SubEvents(row.id) THEN [event[i] EXCEPT !.shared = {}]
                 ELSE event[i]]

Lose(families, what) == [f \in Keys |-> IF f \in families THEN loose[f] \cup what ELSE loose[f]]
All == {"fields", "slots"}

\* The parent of a sub-event is read when it is saved; an event shares its slots.
Prepare(w) ==
  /\ edit[w].step = "loaded"
  /\ LET row == edit[w].row IN
     IF row.parent # Top
     THEN /\ Exists(row.parent)
          /\ edit' = [edit EXCEPT ![w].step = "ready", ![w].row = FinalizeSubevent(row, event[row.parent])]
          /\ UNCHANGED <<event, loose>>
     ELSE /\ event' = FinalizeSlots(row)
          /\ edit' = [edit EXCEPT ![w].step = "ready"]
          /\ loose' = Lose(Strangers(row), {"slots"})
  /\ UNCHANGED <<unused, edits>>

\* The whole row is written, or inserted when it was deleted; not when its parent was.
Store(w) ==
  /\ edit[w].step = "ready"
  /\ LET row == edit[w].row IN
     /\ row.parent # Top => Exists(row.parent)
     /\ event' = [event EXCEPT ![row.id] = row]
     /\ IF row.parent = Top
        THEN /\ edit' = [edit EXCEPT ![w].step = "children", ![w].todo = IF edit[w].copying THEN @ ELSE SubEvents(row.id)]
             /\ UNCHANGED loose
        ELSE /\ edit' = [edit EXCEPT ![w] = Vacant]
             /\ loose' = IF ~edit[w].alone THEN Lose(At(w), All)
                         ELSE IF edit[w].from # Family(row) THEN Lose({Family(row)}, {"slots"}) ELSE loose
  /\ UNCHANGED <<unused, edits>>

\* Mutant of Follow: a sub-event of an edited event is loaded and saved as it is.
FollowNot(child, parent) == child
Follow(child, parent) == FinalizeSubevent([child EXCEPT !.owner = parent.owner, !.published = parent.published], event[parent.id])

\* Every sub-event is loaded and saved again.
UpdateSubevent(w) ==
  /\ edit[w].step = "children" /\ ~edit[w].copying
  /\ \E i \in edit[w].todo :
       /\ edit' = [edit EXCEPT ![w].todo = @ \ {i}]
       /\ event' = IF Exists(i) /\ Exists(edit[w].row.id) THEN [event EXCEPT ![i] = Follow(@, edit[w].row)] ELSE event
  /\ UNCHANGED <<unused, loose, edits>>

SaveDone(w) ==
  /\ edit[w].step = "children" /\ edit[w].todo = {}
  /\ loose' = IF ~edit[w].alone THEN Lose(At(w), All)
              ELSE [loose EXCEPT ![edit[w].row.id] = {}]
  /\ edit' = [edit EXCEPT ![w] = Vacant]
  /\ UNCHANGED <<event, unused, edits>>

\* A row it needs is gone, or the process dies: what was stored stays.
Fail(w) ==
  /\ Busy(w)
  /\ loose' = Lose(At(w), All)
  /\ edit' = [edit EXCEPT ![w] = Vacant]
  /\ UNCHANGED <<event, unused, edits>>

-----------------------------------------------------------------------------
(* Requests.                                                               *)

\* A request takes a copy; requests on one family are no longer alone.
Load(w, row, from, todo, copying, new) ==
  LET crossing == {v \in Editors : Busy(v) /\ At(v) \cap Involved(row, from) # {}} IN
  /\ ~Busy(w) /\ edits < MaxEdits
  /\ edits' = edits + 1
  /\ unused' = unused + new
  /\ edit' = [v \in Editors |->
       CASE v = w -> [step |-> "loaded", row |-> row, from |-> from, todo |-> todo, copying |-> copying, alone |-> crossing = {}]
         [] v \in crossing -> [edit[v] EXCEPT !.alone = FALSE]
         [] OTHER -> edit[v]]
  /\ UNCHANGED <<event, loose>>

\* One slot for all sub-events, one for each, or none.
Slottings(i) == {{}, {{j} : j \in SubEvents(i)}} \cup IF SubEvents(i) = {} THEN {} ELSE {{SubEvents(i)}}

EditFields(w, i) ==
  \E o \in Organisers, p \in BOOLEAN :
    Load(w, [event[i] EXCEPT !.owner = o, !.published = p], Family(event[i]), {}, FALSE, 0)
EditSlots(w, i) ==
  /\ event[i].parent = Top
  /\ \E s \in Slottings(i) : Load(w, [event[i] EXCEPT !.slots = s], i, {}, FALSE, 0)
\* Only moves of a sub-event to another event are asked for.
Move(w, i) ==
  /\ event[i].parent # Top
  /\ \E p \in Keys \ {event[i].parent} :
       /\ Exists(p) /\ event[p].parent = Top
       /\ Load(w, [event[i] EXCEPT !.parent = p], event[i].parent, {}, FALSE, 0)

\* A sub-event of a sub-event is refused; slots given with a new event are not stored.
AddEvent(w, o) ==
  /\ unused \in Keys
  /\ \E p \in {Top} \cup {p \in Keys : Exists(p) /\ event[p].parent = Top} :
       LET row == [id |-> unused, parent |-> p, owner |-> o, published |-> TRUE, slots |-> {}, shared |-> {}]
       IN Load(w, row, Family(row), {}, FALSE, 1)

\* A copy is a draft of the copier; it keeps the slots, with the keys of the original.
\* Mutant of Copied: the copy is stored under the key of the original.
CopiedSame(row, i, o) == [row EXCEPT !.owner = o, !.published = FALSE]
Copied(row, i, o) == [row EXCEPT !.id = i, !.owner = o, !.published = FALSE]
CopyEvent(w, o, i) ==
  /\ event[i].parent = Top
  /\ unused + Cardinality(SubEvents(i)) \in Keys
  /\ Load(w, Copied(event[i], unused, o), i, SubEvents(i), TRUE, 1)

CopySubevent(w) ==
  /\ edit[w].step = "children" /\ edit[w].copying /\ unused \in Keys
  /\ \E i \in edit[w].todo :
       /\ Exists(i) /\ Exists(edit[w].row.id)
       /\ event' = [event EXCEPT ![unused] =
            FinalizeSubevent([Copied(event[i], unused, edit[w].row.owner) EXCEPT !.parent = edit[w].row.id], edit[w].row)]
       /\ edit' = [edit EXCEPT ![w].todo = @ \ {i}]
  /\ unused' = unused + 1
  /\ UNCHANGED <<loose, edits>>

\* Deleting an event deletes its sub-events; requests on them are not alone.
DeleteEvent(i) ==
  /\ edits < MaxEdits
  /\ event' = [j \in Keys |-> IF j \in {i} \cup SubEvents(i) THEN None ELSE event[j]]
  /\ edit' = [v \in Editors |-> IF Busy(v) /\ Family(event[i]) \in At(v) THEN [edit[v] EXCEPT !.alone = FALSE] ELSE edit[v]]
  /\ edits' = edits + 1
  /\ UNCHANGED <<unused, loose>>

ProgramInit ==
  /\ \E o \in Organisers, s \in {{}, {{2, 3}}, {{2}, {3}}} :
       LET row(i, p) == [id |-> i, parent |-> p, owner |-> o, published |-> TRUE,
                         slots |-> IF p = Top THEN s ELSE {},
                         shared |-> IF p # Top /\ s # {} THEN CHOOSE x \in s : i \in x ELSE {}]
       IN event = [i \in Keys |-> CASE i = 1 -> row(1, Top) [] i \in {2, 3} -> row(i, 1) [] OTHER -> None]
  /\ edit = [w \in Editors |-> Vacant]
  /\ unused = 4 /\ loose = [i \in Keys |-> {}] /\ edits = 0

ProgramNext ==
  \/ \E w \in Editors :
       \/ Prepare(w) \/ Store(w) \/ UpdateSubevent(w) \/ CopySubevent(w) \/ SaveDone(w) \/ Fail(w)
       \/ \E i \in Keys : Exists(i) /\ (EditFields(w, i) \/ EditSlots(w, i) \/ Move(w, i))
       \/ \E o \in Organisers : AddEvent(w, o) \/ \E i \in Keys : Exists(i) /\ CopyEvent(w, o, i)
  \/ \E i \in Keys : Exists(i) /\ DeleteEvent(i)

-----------------------------------------------------------------------------
ProgramTypeOK ==
  /\ \A i \in Keys : Exists(i) => /\ event[i].id = i /\ event[i].parent \in {Top} \cup Keys
                                 /\ event[i].owner \in Organisers /\ event[i].published \in BOOLEAN
                                 /\ event[i].slots \subseteq SUBSET Keys /\ event[i].shared \subseteq Keys
  /\ \A w \in Editors : edit[w].step \in {"free", "loaded", "ready", "children"}

Unattended(f) == \A w \in Editors : Busy(w) => f \notin At(w)

\* When no request is under way, a sub-event is published, and readable, exactly as
\* its event is, also after it was moved or copied, unless two requests overlapped
\* or one failed; and the next complete save of the event puts that right.
ChildrenFollow ==
  \A p \in Keys : Exists(p) /\ Unattended(p) /\ "fields" \notin loose[p] =>
    \A i \in SubEvents(p) : event[i].owner = event[p].owner /\ event[i].published = event[p].published

\* The sub-events a page says one has already chosen in the slot, which it reads in
\* the sub-event, are those registering refuses, which it reads in the event.
SlotsTold ==
  \A p \in Keys : Exists(p) /\ Unattended(p) /\ "slots" \notin loose[p] =>
    \A i, j \in SubEvents(p) : j \in event[i].shared <=> \E s \in event[p].slots : {i, j} \subseteq s

\* An event and its sub-events agree.
ProgramSound == ProgramTypeOK /\ ChildrenFollow /\ SlotsTold
=============================================================================
