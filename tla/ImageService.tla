---------------------------- MODULE ImageService ----------------------------
(***************************************************************************)
(* What the image service promises its users, with no word of journals,    *)
(* workflows or workers: a job is accepted, may be given a Studio of its    *)
(* own, and ends once, with all its images visible or with none of them.   *)
(***************************************************************************)
EXTENDS Naturals

CONSTANTS Jobs, Nodes, None,
          Outputs     \* images in a batch

VARIABLES
    outcome,  \* None, open, or how the job ended
    holder,   \* the jobs each Studio works for
    stopping, \* jobs that somebody has asked to stop
    visible   \* how many images of each job can be fetched

vars == <<outcome, holder, stopping, visible>>

Ended == {"succeeded", "failed", "cancelled"}

Init ==
    /\ outcome = [j \in Jobs |-> None]
    /\ holder = [n \in Nodes |-> {}]
    /\ stopping = {}
    /\ visible = [j \in Jobs |-> 0]

Submit(j) ==
    /\ outcome[j] = None
    /\ outcome' = [outcome EXCEPT ![j] = "open"]
    /\ UNCHANGED <<holder, stopping, visible>>

(* A Studio takes one job at a time, and a job one Studio, once. *)
Place(j, n) ==
    /\ outcome[j] = "open" /\ j \notin stopping
    /\ \A m \in Nodes : j \notin holder[m]
    /\ holder[n] = {}
    /\ holder' = [holder EXCEPT ![n] = {j}]
    /\ UNCHANGED <<outcome, stopping, visible>>

(* Only work that has a Studio needs time to stop. *)
Stop(j) ==
    /\ outcome[j] = "open" /\ \E n \in Nodes : j \in holder[n]
    /\ stopping' = stopping \cup {j}
    /\ UNCHANGED <<outcome, holder, visible>>

(* The job ends, frees its Studio and shows either all it made or nothing. *)
(* One that is being stopped ends cancelled.                               *)
End(j, o) ==
    /\ outcome[j] = "open"
    /\ o = "succeeded" => \E n \in Nodes : j \in holder[n]
    /\ j \in stopping => o = "cancelled"
    /\ outcome' = [outcome EXCEPT ![j] = o]
    /\ holder' = [n \in Nodes |-> holder[n] \ {j}]
    /\ stopping' = IF o = "cancelled" THEN stopping \cup {j} ELSE stopping
    /\ visible' = [visible EXCEPT ![j] = IF o = "succeeded" THEN Outputs ELSE 0]

Next == \E j \in Jobs : \/ Submit(j) \/ Stop(j)
                        \/ \E n \in Nodes : Place(j, n)
                        \/ \E o \in Ended : End(j, o)

Spec == Init /\ [][Next]_vars

=============================================================================
