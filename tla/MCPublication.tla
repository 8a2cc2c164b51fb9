---------------------------- MODULE MCPublication ----------------------------
(***************************************************************************)
(* Instances of Publication for TLC.                                       *)
(***************************************************************************)
EXTENDS Publication

CONSTANTS w1, w2

Fill(text, pub, arch, del) == [text |-> text, pub |-> pub, arch |-> arch, del |-> del]

\* Another text; published later; archived later, or no more;
\* deleted later; archived and deleted, in the right and in the wrong order.
SomeInputs == {Fill(1, Keep, Keep, Keep), Fill(Keep, 1, Keep, Keep),
               Fill(Keep, Keep, 1, Keep), Fill(Keep, Keep, NoDate, Keep),
               Fill(Keep, Keep, Keep, 1), Fill(Keep, 1, 1, 2), Fill(Keep, Keep, 2, 1)}

OneOrTwo  == {{w1}, {w1, w2}}
SomeOffers == {{"add", "edit", "archive", "delete"}, {"add", "edit", "copy", "crash"},
               {"add", "edit"}}

\* Two processes side by side add and edit; the rest is for one process.
Sided == (Cardinality(crew) > 1) <=> (offer = {"add", "edit"})
MCInit == Init /\ Sided
MCSpec == MCInit /\ [][Next]_vars /\ WF_vars(Beat)
          /\ \A w \in Workers : WF_vars(Progress(w))
=============================================================================
