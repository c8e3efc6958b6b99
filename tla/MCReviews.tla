----------------------------- MODULE MCReviews -----------------------------
(* Instances of Reviews for TLC. *)
EXTENDS Reviews

CONSTANTS t1, t2

\* A change with a secret and a note on style in an authentication module,
\* and a larger one with an error and without tests.
Secret   == [findings |-> {[category |-> "SECURITY", severity |-> "BLOCKER"],
                           [category |-> "STYLE", severity |-> "INFO"]},
             critical |-> {"security"}, lines |-> 40, untested |-> FALSE]
Sprawl   == [findings |-> {[category |-> "SECURITY", severity |-> "ERROR"]},
             critical |-> {}, lines |-> 200, untested |-> TRUE]
Changes  == {Secret, Sprawl}
=============================================================================
