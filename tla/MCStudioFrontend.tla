-------------------------- MODULE MCStudioFrontend --------------------------
(* Two completions for TLC. *)
EXTENDS StudioFrontend

CONSTANTS r1, r2

TwoRequests == {r1, r2}
=============================================================================
