---------------------------- MODULE MCAgentRuns ----------------------------
(* Small instances of AgentRuns for TLC. *)
EXTENDS AgentRuns

CONSTANTS a, b, edgeA  \* model values: runs and a Studio

(* The run a alone meets every trouble.  With b behind it, it shares a     *)
(* slot in quiet times, and may be killed while it waits for its place.    *)
AloneInTrouble ==
    b \in ToSet(order) =>
        /\ order[1] = a /\ crashes + faults + stalls = 0
        /\ \A r \in Runs :
              state[r] \in {"kill_requested", "killed"} => node[r] = None
=============================================================================
