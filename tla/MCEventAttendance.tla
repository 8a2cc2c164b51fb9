-------------------------- MODULE MCEventAttendance --------------------------
(***************************************************************************)
(* Instances of EventAttendance for TLC.  A scene narrows an execution to  *)
(* some events, people and kinds of request: a single event, or an event   *)
(* with two sub-events in one slot.                                        *)
(***************************************************************************)
EXTENDS EventAttendance, TLC

CONSTANTS gala, ev, sub1, sub2, ann, bob, cat,
          Scenes   \* the scenes of a run

VARIABLE scene

OneEvent    == {gala}
NoChildren  == [e \in OneEvent |-> {}]

\* gala stands alone; ev has two sub-events in the same slot.
SomeEvents   == {gala, ev, sub1, sub2}
SomeChildren == [e \in SomeEvents |-> IF e = ev THEN {sub1, sub2} ELSE {}]
SameSlot     == [e \in SomeEvents |-> IF e \in {sub1, sub2} THEN {sub1, sub2} \ {e} ELSE {}]

\* ann and bob have accounts; cat registers with an e-mail address only.
Members == {ann, bob}
Guests  == {cat}
Persons == Members \cup Guests

\* A row as registration leaves it; n is its primary key and time stamp.
RowOf(p, state, n) ==
  IF state = "absent" THEN NoRow
  ELSE [id |-> n, state |-> state, by |-> IF p \in Members THEN "user" ELSE "email",
        desk |-> "out", at |-> n]

\* Every way to be seated or waiting, cat first in line and bob last.
Line == [p \in Persons |-> CASE p = cat -> 1 [] p = ann -> 2 [] OTHER -> 3]
Choices(es, people) ==
  [es -> [people -> {"absent", "accept", "waitinglist"}]]
Table(st, es, people) ==
  [e \in Events |-> [p \in Persons |->
     IF e \in es /\ p \in people THEN RowOf(p, st[e][p], Line[p]) ELSE NoRow]]

\* Bob, last in line, waits or is yet to come.
GalaTables == {Table(st, {gala}, Persons) :
                 st \in {s \in Choices({gala}, Persons) : s[gala][bob] # "accept"}}

\* Nobody holds two seats of the slot, and only ann waits for one.
SlotEvents == {ev, sub1, sub2}
SlotTables ==
  {Table(st, SlotEvents, {ann, cat}) :
     st \in {s \in Choices(SlotEvents, {ann, cat}) :
               /\ \A p \in {ann, cat} : ~(s[sub1][p] = "accept" /\ s[sub2][p] = "accept")
               /\ \A e \in SlotEvents : s[e][cat] # "waitinglist"}}
AllTables == GalaTables \cup SlotTables

Script(events, people, kinds, wants, tables, requests) ==
  [events |-> events, people |-> people, kinds |-> kinds, wants |-> wants,
   tables |-> tables, requests |-> requests]

\* What each scene allows; "everything" is what the constants of the run allow.
Play ==
  "alone" :> Script({gala}, Persons, AllKinds \ {"crash"}, Wants \ {"invalid"}, GalaTables, 3)
  @@ "slots" :> Script(SlotEvents, {ann, cat}, {"attend", "confirm", "remove", "add", "edit", "crash"},
                       Wants \ {"invalid", "reject"}, SlotTables, 2)
  @@ "everything" :> Script(Events, Persons, Kinds, Wants, Tables, MaxRequests)

MCInit ==
  /\ Init
  /\ scene \in Scenes
  /\ rows \in Play[scene].tables
  /\ \A e \in Events \ (OneEvent \cap Play[scene].events) : maxAtt[e] = 1

Arrives(w) == pc[w] = "idle" /\ pc'[w] # "idle"
InScene(w) ==
  /\ job'[w].ev \in Play[scene].events
  /\ job'[w].who \in Play[scene].people
  /\ job'[w].kind \in Play[scene].kinds
  /\ job'[w].want \in Play[scene].wants
  /\ MaxRequests - left' <= Play[scene].requests

MCNext == /\ Next
          /\ \A w \in Workers :
               /\ Arrives(w) => InScene(w)
               /\ Crash(w) => "crash" \in Play[scene].kinds
          /\ UNCHANGED scene

MCSpec == MCInit /\ [][MCNext]_<<vars, scene>>
MCFairSpec == MCSpec /\ \A w \in Workers : WF_vars(Step(w))
=============================================================================
