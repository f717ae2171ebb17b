-------------------------- MODULE MCCodingResolution --------------------------
EXTENDS CodingResolution
CONSTANTS r1, r2, w1, w2, w3
\* With this budget the same for a plan with and without a review: two tokens.
MCReservation == [t \in Tasks |-> IF t \in Writers THEN WriterReservation(TRUE) ELSE 1]
ASSUME WriterReservation(TRUE) = WriterReservation(FALSE) /\ AdmittedBudget(TRUE)
MCRepositories == <<"app", "lib">>
MCHome == [w \in Writers |-> IF w = w3 THEN "lib" ELSE "app"]
\* A writer depends on writers that are named before it.
MCInit ==
    /\ ResolutionInit
    /\ deps[w1] = {} /\ deps[w2] \subseteq {w1} /\ deps[w3] \subseteq {w1, w2}
MCSpec == MCInit /\ [][ResolutionNext]_<<vars, resolution>> /\ Fairness
=============================================================================
