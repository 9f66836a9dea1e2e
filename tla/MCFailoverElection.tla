------------------------- MODULE MCFailoverElection -------------------------
(* Small instances of the election for TLC. *)
EXTENDS FailoverElection

(* Probes of the pairs in c fail, all others succeed. *)
Cut(c) == [m \in Members |-> [p \in Members |->
               IF <<m, p>> \in c THEN {"miss"} ELSE {"ok"}]]

(* The members of S and the others do not reach each other. *)
Apart(S) == {x \in Members \X Members : (x[1] \in S) # (x[2] \in S)}

(* Whole, or the Studios do not reach core although core reaches them. *)
Unheard == {Cut({}), Cut({<<EdgeA, Core>>, <<EdgeB, Core>>})}

(* Whole, core alone, or edge-b alone. *)
Alone == {Cut({}), Cut(Apart({Core})), Cut(Apart({EdgeB}))}

(* edge-a's probes of core are slow or lost, core's probes of edge-a are   *)
(* answered or lost, core and edge-b do not reach each other.              *)
Flapping ==
    {[Cut({<<Core, EdgeB>>, <<EdgeB, Core>>})
        EXCEPT ![EdgeA][Core] = {"miss", "slow"},
               ![Core][EdgeA] = {"miss", "ok"}]}

(* The instants at which the members poll in the behaviour the split-brain *)
(* run is about; it only shortens the search for a counterexample.         *)
FewPolls ==
    /\ moment[EdgeA] \in {0, 2, 4, 5, 6, 8, 10}
    /\ moment[EdgeB] \in {0, 2, 4, 6, 8, 10}
    /\ moment[Core] \in {0, 2, 3, 5, 7, 8, 10}
=============================================================================
