---------------------------- MODULE MCEventRange ----------------------------
(***************************************************************************)
(* Instances of EventRange for TLC.                                        *)
(***************************************************************************)
EXTENDS EventRange

CONSTANTS w1, w2

Free(n)        == [every |-> n, until |-> Never, limit |-> NoLimit]
UntilDay(d)    == [every |-> 2, until |-> d, limit |-> NoLimit]
AtMost(n)      == [every |-> 2, until |-> Never, limit |-> n]
FreeRange      == {Free(2)}
AllSettings    == {Free(2), Free(3), UntilDay(5), AtMost(2), AtMost(3)}

OneOrTwo  == {{w1}, {w1, w2}}
Together  == {{w1, w2}}
AllOffers == {{"complete"}, {"complete", "editAll"},
              {"complete", "editAll", "editOne", "delete"}}
Completing == {{"complete"}}

\* Two processes side by side only complete the range: edits and deletions are
\* steps of one process here.  Edits give a range any of the settings.
Sided == Cardinality(crew) > 1 => offer = {"complete"}
MCInit == Init /\ Sided /\ occ[1].set \in {Free(2), UntilDay(5), AtMost(3)}
MCSpec == MCInit /\ [][Next]_vars /\ \A w \in Workers : WF_vars(Step(w))
=============================================================================
