------------------------ MODULE StudioFrontendProofs ------------------------
(***************************************************************************)
(* The typing of the emergency frontend's model and the safety of its      *)
(* lease file, for every finite set of completions, every drain timeout    *)
(* and every bound on crashes and failing Docker calls.                    *)
(***************************************************************************)
EXTENDS StudioFrontend, FiniteSetTheorems, TLAPS

(* What the participant may believe to be in flight: what its frontend can *)
(* count, or the one request it assumes when it gets no answer.            *)
LEMMA CountType ==
    /\ Cardinality(Requests) \in Nat
    /\ 0 \in 0..Cardinality(Requests)
    /\ Cardinality(Counted) \in 0..Cardinality(Requests)
<1>1. IsFiniteSet(Requests) /\ Counted \in SUBSET Requests
  BY FrontendAssumption DEF Counted
<1>2. Cardinality(Requests) \in Nat
  BY <1>1, FS_CardinalityType
<1>3. IsFiniteSet(Counted) /\ Cardinality(Counted) <= Cardinality(Requests)
  BY <1>1, FS_Subset
<1>4. Cardinality(Counted) \in Nat
  BY <1>3, FS_CardinalityType
<1> QED BY <1>2, <1>3, <1>4

-----------------------------------------------------------------------------
(* The drain and the decisions of observe() *)

(* The drain's age is a time within the timeout. *)
LEMMA DrainType ==
    ASSUME TypeOK, NEW n \in Nat, DrainAndFinish(n)
    PROVE  /\ role' \in {"draining", "standby"}
           /\ last' \in {"draining", "handback"}
           /\ drainAge' \in 0..Drain
           /\ lease' = "none"
BY FrontendAssumption DEF TypeOK, DrainAndFinish

(* Whatever observe() decides, the variables of the participant keep their *)
(* types, and the lease file is there only for an elected member.          *)
LEMMA ObserveKeeps ==
    ASSUME TypeOK, armed, LeaseOnlyWhileElected,
           \/ Fence
           \/ Needed /\ DrainAndFinish(sample)
           \/ Campaign \/ StandDown \/ Hold
    PROVE  /\ role' \in Roles /\ drainAge' \in 0..Drain
           /\ last' \in {"none", "promoted", "draining", "handback", "fenced"}
           /\ lease' \in {"none", "current", "expired"}
           /\ lease' # "none" => role' = "elected"
<1>1. sample \in Nat
  BY CountType DEF TypeOK
<1>2. CASE Fence
  BY <1>2 DEF Fence, TypeOK, Roles
<1>3. CASE DrainAndFinish(sample)
  BY <1>1, <1>3, DrainType DEF Roles
<1>4. CASE Campaign
  BY <1>4 DEF Campaign, TypeOK, Roles
<1>5. CASE StandDown
  BY <1>5 DEF StandDown, TypeOK, Roles
<1>6. CASE Hold
  BY <1>6 DEF Hold, TypeOK, Roles, LeaseOnlyWhileElected
<1> QED BY <1>2, <1>3, <1>4, <1>5, <1>6

-----------------------------------------------------------------------------
(* The invariant *)

FrontendInv == TypeOK /\ LeaseOnlyWhileElected

(* A Studio starts disarmed and without a lease file. *)
LEMMA FrontendInit == Init => FrontendInv
<1> SUFFICES ASSUME Init PROVE TypeOK /\ LeaseOnlyWhileElected
  BY DEF FrontendInv
<1>1. 0 \in 0..Drain /\ 0 \in 0..MaxCrashes /\ 0 \in 0..MaxDockerFaults
  BY FrontendAssumption
<1>2. req \in [Requests -> {"new", "admitted", "counted", "done", "refused",
                            "killed"}]
  BY DEF Init
<1> QED BY <1>1, <1>2, CountType, Zenon DEF Init, TypeOK, Roles,
            LeaseOnlyWhileElected

(* No step of the poll loop, the lifecycle loop, the container, a client   *)
(* or the agent's restarts leaves a lease file beside an armed Studio that *)
(* is not elected.                                                         *)
LEMMA FrontendStep == FrontendInv /\ [Next]_vars => FrontendInv'
<1> SUFFICES ASSUME TypeOK, LeaseOnlyWhileElected, [Next]_vars
             PROVE  TypeOK' /\ LeaseOnlyWhileElected'
  BY DEF FrontendInv
<1> USE CountType
<1>1. CASE PollSample
  <2>1. sample' \in {0, 1, Cardinality(Counted)}
    BY <1>1 DEF PollSample
  <2> QED BY <1>1, <2>1 DEF PollSample, roleVars, TypeOK, LeaseOnlyWhileElected
<1>2. CASE PollObserve
  <2>1. /\ role' \in Roles /\ drainAge' \in 0..Drain
        /\ last' \in {"none", "promoted", "draining", "handback", "fenced"}
        /\ lease' \in {"none", "current", "expired"}
        /\ lease' # "none" => role' = "elected"
    BY <1>2, ObserveKeeps DEF PollObserve
  <2> QED BY <1>2, <2>1 DEF PollObserve, TypeOK, LeaseOnlyWhileElected
<1>3. CASE Handback
  <2>1. inFlight \in Nat
    BY DEF TypeOK
  <2>2. /\ role' \in Roles /\ last' \in {"draining", "handback"}
        /\ drainAge' \in 0..Drain /\ lease' = "none"
    BY <1>3, <2>1, DrainType DEF Handback, Roles
  <2> QED BY <1>3, <2>2 DEF Handback, pollVars, TypeOK, LeaseOnlyWhileElected
<1>4. CASE DrainTime
  BY <1>4, FrontendAssumption DEF DrainTime, pollVars, TypeOK,
      LeaseOnlyWhileElected
<1>5. CASE LeaseExpires
  BY <1>5 DEF LeaseExpires, pollVars, TypeOK, LeaseOnlyWhileElected
<1>6. CASE Inspect \/ Sync
  BY <1>6 DEF Inspect, Sync, pollVars, roleVars, TypeOK, LeaseOnlyWhileElected
<1>7. CASE DockerFault
  BY <1>7, FrontendAssumption DEF DockerFault, pollVars, roleVars, TypeOK,
      LeaseOnlyWhileElected
<1>8. CASE ContainerExits
  <2>1. req' \in [Requests -> {"new", "admitted", "counted", "done", "refused",
                               "killed"}]
    BY <1>8 DEF ContainerExits, TypeOK
  <2> QED BY <1>8, <2>1 DEF ContainerExits, pollVars, roleVars, TypeOK,
              LeaseOnlyWhileElected
<1>9. ASSUME NEW r \in Requests, Admit(r) \/ Count(r) \/ Complete(r)
      PROVE  TypeOK' /\ LeaseOnlyWhileElected'
  <2>1. req' \in [Requests -> {"new", "admitted", "counted", "done", "refused",
                               "killed"}]
    BY <1>9 DEF Admit, Count, Complete, TypeOK
  <2> QED BY <1>9, <2>1 DEF Admit, Count, Complete, pollVars, roleVars, TypeOK,
              LeaseOnlyWhileElected
<1>10. CASE Crash \/ Disarm
  <2>1. 0 \in 0..Drain /\ crashes' \in 0..MaxCrashes
    BY <1>10, FrontendAssumption DEF Crash, Disarm, Forget, TypeOK
  <2>2. /\ container' \in {"stopped", "running", "stopping"}
        /\ lease' \in {"none", "current", "expired"}
    BY <1>10 DEF Crash, Disarm, TypeOK
  <2> QED BY <1>10, <2>1, <2>2, Zenon DEF Crash, Disarm, Forget, TypeOK, Roles,
              LeaseOnlyWhileElected
<1>11. CASE Arm
  BY <1>11 DEF Arm, pollVars, TypeOK, LeaseOnlyWhileElected
<1>12. CASE UNCHANGED vars
  BY <1>12 DEF vars, pollVars, roleVars, TypeOK, LeaseOnlyWhileElected
<1> QED BY <1>1, <1>2, <1>3, <1>4, <1>5, <1>6, <1>7, <1>8, <1>9, <1>10, <1>11,
           <1>12 DEF Next

(* The poll loop, the lifecycle loop and the container keep every variable *)
(* in its type; the participant never counts more requests than there are. *)
THEOREM Typing == Spec => []TypeOK
<1>1. FrontendInv => TypeOK
  BY DEF FrontendInv
<1> QED BY <1>1, FrontendInit, FrontendStep, PTL DEF Spec

(* An armed Studio that is not elected has no lease file: not after a      *)
(* hand-back that arrives between two polls, not after a crash that left   *)
(* the file on disk, not after a changed membership.                       *)
THEOREM LeaseSafety == Spec => []LeaseOnlyWhileElected
<1>1. FrontendInv => LeaseOnlyWhileElected
  BY DEF FrontendInv
<1> QED BY <1>1, FrontendInit, FrontendStep, PTL DEF Spec
=============================================================================
