------------------------------- MODULE MCEvents -------------------------------
(***************************************************************************)
(* The scenes of MCEventRange, and those of the programme of an event for  *)
(* TLC: two requests that overlap, or three that do not.                   *)
(***************************************************************************)
EXTENDS MCEventRange, EventProgram

VARIABLE act   \* what moves: "range", "overlapping" or "in turn"

EventsInit ==
  /\ act \in {"range", "overlapping", "in turn"}
  /\ ProgramInit
  /\ act = "range" => event[1].owner = "ann" /\ event[1].slots = {}
  /\ MCInit
  /\ act # "range" => /\ crew = {w1} /\ offer = {"complete"} /\ live = {1}
                     /\ occ[1].set = Free(2) /\ occ[1].att = {}

ProgramScene ==
  /\ ProgramNext
  /\ IF act = "overlapping" THEN edits' < MaxEdits
     ELSE edit'[w2] = Vacant /\ \A i \in Keys : loose'[i] \subseteq {"slots"}

EventsNext ==
  /\ UNCHANGED act
  /\ \/ act = "range" /\ UNCHANGED program /\ Next
     \/ act # "range" /\ UNCHANGED vars /\ ProgramScene
EventsSpec == EventsInit /\ [][EventsNext]_<<vars, program, act>> /\ \A w \in Workers : WF_vars(Step(w))
=============================================================================
