---------------------------- MODULE MCImageJobs ----------------------------
(* Instances of ImageJobs for TLC. *)
EXTENDS ImageJobs

CONSTANTS a, b, edgeA  \* model values: jobs and a Studio

=============================================================================
