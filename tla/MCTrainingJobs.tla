--------------------------- MODULE MCTrainingJobs ---------------------------
(* A short job on both Studios, and one of two updates on either. *)
EXTENDS TrainingJobs

Both == [world |-> 2, updates |-> 1]
Either == [world |-> 1, updates |-> 2]

EachKind == {Both, Either}
OneStudio == {Either}
=============================================================================
