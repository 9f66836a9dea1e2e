----------------------- MODULE FailoverElectionProofs -----------------------
(***************************************************************************)
(* Proofs about FailoverElection, for every value of its constants.        *)
(***************************************************************************)
EXTENDS FailoverElection, TLAPS

USE ElectionAssumption, DampingAssumption

-----------------------------------------------------------------------------
(* Typing *)

(* Folding one heartbeat into a liveness record yields a liveness record. *)
LEMMA NoteType ==
    ASSUME NEW l \in LivenessRecords, NEW b \in Beats, NEW t \in Nat
    PROVE  Note(l, b, t) \in LivenessRecords
<1>1. CASE b = "miss"
  BY <1>1 DEF Note, NoteMiss, LivenessRecords, Times, NoTime, Healths, Beats
<1>2. CASE b = "slow"
  BY <1>2 DEF Note, NoteSlow, LivenessRecords, Times, NoTime, Healths, Beats
<1>3. CASE b = "ok"
  BY <1>3 DEF Note, NoteOk, LivenessRecords, Times, NoTime, Healths, Beats
<1> QED BY <1>1, <1>2, <1>3 DEF Beats

(* Adding the vote of one's own keeps a set of grants a set of grants. *)
LEMMA EnsureSelfGrantType ==
    ASSUME NEW m \in Members, NEW rc \in SUBSET Grants, NEW tm \in Terms,
           NEW t \in Nat
    PROVE  EnsureSelfGrant(m, rc, tm, t) \in SUBSET Grants
<1>1. t + Lease \in Nat
  OBVIOUS
<1>2. [term |-> tm, candidate |-> m, voter |-> m, expires |-> t + Lease]
          \in Grants
  BY <1>1 DEF Grants
<1> QED BY <1>2 DEF EnsureSelfGrant

(* A proof is a set of grants. *)
LEMMA ProofsType ==
    ASSUME NEW m \in Members, NEW rc \in SUBSET Grants, NEW tm, NEW t,
           NEW p \in Proofs(m, rc, tm, t)
    PROVE  p \in SUBSET Grants
BY DEF Proofs, Ballots

(* The start of the reclaim window is an instant, or absent. *)
LEMMA ReclaimFromType ==
    ASSUME TypeOK, NEW m \in Members, NEW l, NEW ov, NEW t \in Nat
    PROVE  ReclaimFrom(m, l, ov, t) \in Times
BY DEF ReclaimFrom, TypeOK, Times, NoTime

(* The part of TypeOK about the variables _advance may assign. *)
RoleVarsOK ==
    /\ role \in [Members -> Roles]
    /\ term \in [Members -> Terms]
    /\ proof \in [Members -> SUBSET Grants]
    /\ received \in [Members -> SUBSET Grants]
    /\ closed \in [Members -> BOOLEAN]
    /\ outage \in [Members -> BOOLEAN]
    /\ reclaimSince \in [Members -> Times]
    /\ drainStarted \in [Members -> Times]

(* The variables _advance may assign keep their types. *)
LEMMA AdvanceType ==
    ASSUME TypeOK, NEW m \in Members, NEW l, NEW rc \in SUBSET Grants, NEW ov,
           NEW fl \in BOOLEAN, NEW t \in Nat,
           Advance(m, l, rc, ov, fl, t)
    PROVE  RoleVarsOK'
<1>0. RoleVarsOK
  BY DEF TypeOK, RoleVarsOK
<1>1. ASSUME NEW lost \in BOOLEAN, Fence(m, rc, lost)
      PROVE  RoleVarsOK'
  BY <1>0, <1>1 DEF Fence, Roles, RoleVarsOK, Put
<1>2. CASE DrainAndFinish(m, fl, t) /\ received' = Put(received, m, rc)
  <2> DEFINE began == IF role[m] = "draining" THEN drainStarted[m] ELSE t
  <2>1. began \in Times
    BY <1>0 DEF Times, RoleVarsOK
  <2> QED BY <1>0, <1>2, <2>1 DEF DrainAndFinish, Roles, RoleVarsOK, Put
<1>3. CASE Hold(m, rc, ov, t)
  <2> DEFINE mine == EnsureSelfGrant(m, rc, term[m], t)
             found == Proofs(m, mine, term[m], t)
  <2>1. mine \in SUBSET Grants
    BY <1>0, EnsureSelfGrantType DEF RoleVarsOK
  <2>2. \A p \in found : p \in SUBSET Grants
    BY <2>1, ProofsType
  <2> HIDE DEF mine, found
  <2>3. /\ \/ received' = Put(received, m, rc)
           \/ received' = Put(received, m, mine)
        /\ \/ proof' = proof \/ proof' = Put(proof, m, {})
           \/ \E p \in found : proof' = Put(proof, m, p)
        /\ role' = role \/ role' = Put(role, m, "candidate")
        /\ UNCHANGED <<term, closed, outage, reclaimSince, drainStarted>>
    BY <1>3, Zenon DEF Hold, mine, found
  <2>4. received' \in [Members -> SUBSET Grants]
    BY <1>0, <2>1, <2>3 DEF Put, RoleVarsOK
  <2>5. proof' \in [Members -> SUBSET Grants]
    BY <1>0, <2>2, <2>3 DEF Put, RoleVarsOK
  <2>6. role' \in [Members -> Roles]
    BY <1>0, <2>3 DEF Put, RoleVarsOK, Roles
  <2> QED BY <1>0, <2>3, <2>4, <2>5, <2>6 DEF RoleVarsOK
<1>4. CASE StandDown(m, l, rc, ov, t)
  <2>1. ReclaimFrom(m, l, ov, t) \in Times
    BY ReclaimFromType
  <2> QED BY <1>0, <1>4, <2>1 DEF StandDown, Roles, RoleVarsOK, Put
<1>5. CASE Campaign(m, l, rc, ov, t)
  <2> DEFINE reopen == role[m] = "standby" /\ closed[m]
             tm     == IF reopen THEN term[m] + 1 ELSE term[m]
             mine   == EnsureSelfGrant(m, IF reopen THEN {} ELSE rc, tm, t)
             found  == Proofs(m, mine, tm, t)
  <2>1. tm \in Terms
    BY <1>0 DEF Terms, RoleVarsOK
  <2>2. mine \in SUBSET Grants
    BY <2>1, EnsureSelfGrantType
  <2>3. \A p \in found : p \in SUBSET Grants
    BY <2>2, ProofsType
  <2>4. ReclaimFrom(m, l, ov, t) \in Times
    BY ReclaimFromType
  <2> HIDE DEF tm, mine, found
  <2>5. /\ received' = Put(received, m, mine)
        /\ proof' = proof \/ \E p \in found : proof' = Put(proof, m, p)
        /\ \E r \in {"elected", "candidate"} : role' = Put(role, m, r)
        /\ term' = Put(term, m, tm)
        /\ \E c \in BOOLEAN : closed' = Put(closed, m, c)
        /\ \E c \in BOOLEAN : outage' = Put(outage, m, c)
        /\ \E r \in {NoTime, ReclaimFrom(m, l, ov, t)} :
               reclaimSince' = Put(reclaimSince, m, r)
        /\ UNCHANGED drainStarted
    BY <1>0, <1>5, Zenon DEF Campaign, tm, mine, found, RoleVarsOK
  <2>6. proof' \in [Members -> SUBSET Grants]
    BY <1>0, <2>3, <2>5 DEF Put, RoleVarsOK
  <2>7. /\ role' \in [Members -> Roles]
        /\ term' \in [Members -> Terms]
        /\ received' \in [Members -> SUBSET Grants]
    BY <1>0, <2>1, <2>2, <2>5 DEF Put, RoleVarsOK, Roles
  <2>8. closed' \in [Members -> BOOLEAN] /\ outage' \in [Members -> BOOLEAN]
    BY <1>0, <2>5 DEF Put, RoleVarsOK
  <2>9. reclaimSince' \in [Members -> Times]
    BY <1>0, <2>4, <2>5 DEF Put, RoleVarsOK, Times
  <2> QED BY <1>0, <2>5, <2>6, <2>7, <2>8, <2>9 DEF RoleVarsOK
<1> QED BY <1>1, <1>2, <1>3, <1>4, <1>5 DEF Advance

(* The override observe() works with is one the code knows. *)
LEMMA OverrideType ==
    ASSUME TypeOK, NEW m \in Members
    PROVE  ActiveOverride(m) \in Overrides
BY DEF TypeOK, ActiveOverride, Overrides

Leases == [grants : SUBSET Grants, glass : Times]

(* Publishing keeps the lease file a lease file. *)
LEMMA EmitType ==
    ASSUME TypeOK, NEW m \in Members, Emit(m),
           proof' \in [Members -> SUBSET Grants],
           seen' \in [Members -> Overrides]
    PROVE  leaseFile' \in [Members -> Leases]
<1> DEFINE new == LeaseOf(m, role'[m], proof'[m], seen'[m])
<1>1. new \in Leases
  <2>1. seen'[m].expires \in Nat /\ proof'[m] \in SUBSET Grants
    BY DEF Overrides, NoOverride
  <2> QED BY <2>1 DEF LeaseOf, NoLease, Leases, Times, NoTime
<1>2. leaseFile' = leaseFile \/ leaseFile' = Put(leaseFile, m, new)
  BY DEF Emit
<1>3. leaseFile \in [Members -> Leases]
  BY DEF TypeOK, Leases
<1> HIDE DEF new
<1> QED BY <1>1, <1>2, <1>3 DEF Put

(* What observe() may assign keeps its type. *)
LEMMA ObserveType ==
    ASSUME TypeOK, NEW m \in Members, NEW l, NEW rc \in SUBSET Grants,
           Observe(m, l, rc)
    PROVE  /\ RoleVarsOK'
           /\ leaseFile' \in [Members -> Leases]
           /\ busy' \in [Members -> BOOLEAN]
           /\ delivered' \in [Members -> Overrides]
           /\ seen' \in [Members -> Overrides]
<1>0. moment[m] \in Nat /\ ActiveOverride(m) \in Overrides
  BY OverrideType DEF TypeOK
<1>1. PICK fl \in BOOLEAN :
          /\ busy' = Put(busy, m, fl)
          /\ delivered' = Put(delivered, m, ActiveOverride(m))
          /\ seen' = Put(seen, m, ActiveOverride(m))
          /\ Advance(m, l, rc, ActiveOverride(m), fl, moment[m])
          /\ Emit(m)
  BY DEF Observe
<1>2. RoleVarsOK'
  BY <1>0, <1>1, AdvanceType
<1>3. /\ busy' \in [Members -> BOOLEAN]
      /\ delivered' \in [Members -> Overrides]
      /\ seen' \in [Members -> Overrides]
  BY <1>0, <1>1 DEF TypeOK, Put
<1>4. leaseFile' \in [Members -> Leases]
  BY <1>1, <1>2, <1>3, EmitType DEF RoleVarsOK
<1> QED BY <1>2, <1>3, <1>4

(* The tail of a poll keeps the types of the poll state and of core's      *)
(* hand-back state.                                                        *)
LEMMA EndTickType ==
    ASSUME TypeOK, NEW m \in Members, term' \in [Members -> Terms], EndTick(m)
    PROVE  /\ pc' \in [Members -> {"boot", "idle", "probing", "collecting",
                                   "retrying", "handback"}]
           /\ notices' \subseteq [holder : Studios, expires : Nat]
           /\ acked' \subseteq Studios
           /\ ackTerm' \in Terms
<1>1. pc' \in [Members -> {"boot", "idle", "probing", "collecting",
                           "retrying", "handback"}]
  BY DEF TypeOK, EndTick, Put
<1>2. acked' \subseteq Studios /\ ackTerm' \in Terms
  BY DEF TypeOK, EndTick, coreVars
<1>3. notices' \subseteq [holder : Studios, expires : Nat]
  <2>1. now + HandbackTTL \in Nat
    BY DEF TypeOK
  <2>2. \/ notices' = notices
        \/ notices' = [holder : Studios \ acked',
                       expires : {now + HandbackTTL}]
    BY DEF EndTick, coreVars
  <2>3. [holder : Studios \ acked', expires : {now + HandbackTTL}]
            \subseteq [holder : Studios, expires : Nat]
    BY <2>1, Zenon
  <2>4. notices \subseteq [holder : Studios, expires : Nat]
    BY DEF TypeOK
  <2> QED BY <2>2, <2>3, <2>4
<1> QED BY <1>1, <1>2, <1>3

(* Every step of the election preserves the types. *)
LEMMA TypeStep == TypeOK /\ [Next]_vars => TypeOK'
<1> SUFFICES ASSUME TypeOK, [Next]_vars PROVE TypeOK'
  OBVIOUS
<1> USE DEF pollVars, roleVars, sampleVars, coreVars, boundVars
<1>1. ASSUME NEW m \in Members, TickStart(m) PROVE TypeOK'
  BY <1>1 DEF TickStart, TypeOK, Put
<1>2. ASSUME NEW m \in Members, Probe(m) PROVE TypeOK'
  <2>1. PICK b \in ProbeResults(m) :
          LET l == [p \in Members |-> IF p = m THEN Unprobed
                                      ELSE Note(live[m][p], b[p], moment[m])]
          IN  live' = Put(live, m, l) /\ Observe(m, l, received[m])
    BY <1>2 DEF Probe
  <2> DEFINE l == [p \in Members |-> IF p = m THEN Unprobed
                                     ELSE Note(live[m][p], b[p], moment[m])]
  <2>2. l \in [Members -> LivenessRecords]
    <3>1. ASSUME NEW p \in Members, p # m
          PROVE  Note(live[m][p], b[p], moment[m]) \in LivenessRecords
      BY <3>1, NoteType DEF ProbeResults, TypeOK, Others
    <3>2. Unprobed \in LivenessRecords
      BY DEF Unprobed, LivenessRecords, Healths, Times, NoTime
    <3> QED BY <3>1, <3>2
  <2>3. received[m] \in SUBSET Grants /\ Observe(m, l, received[m])
    BY <2>1 DEF TypeOK
  <2> HIDE DEF l
  <2>4. /\ RoleVarsOK'
        /\ leaseFile' \in [Members -> Leases]
        /\ busy' \in [Members -> BOOLEAN]
        /\ delivered' \in [Members -> Overrides]
        /\ seen' \in [Members -> Overrides]
    BY <2>3, ObserveType
  <2>5. live' \in [Members -> [Members -> LivenessRecords]]
    BY <2>1, <2>2 DEF TypeOK, Put, l
  <2>6. CASE AskVotes(m, term'[m]) /\ pc' = Put(pc, m, "collecting")
             /\ UNCHANGED coreVars
    <3>1. requests' \subseteq
              [candidate : Members, term : Terms, voter : Members]
      BY <2>4, <2>6 DEF AskVotes, TypeOK, RoleVarsOK, Others
    <3>2. replies' \in [Members -> SUBSET Grants]
      BY <2>6 DEF AskVotes, TypeOK, Put
    <3>3. pc' \in [Members -> {"boot", "idle", "probing", "collecting",
                                   "retrying", "handback"}]
      BY <2>6 DEF TypeOK, Put
    <3> QED BY <1>2, <2>4, <2>5, <2>6, <3>1, <3>2, <3>3
            DEF Probe, TypeOK, RoleVarsOK, Leases
  <2>7. CASE EndTick(m) /\ UNCHANGED <<requests, replies>>
    <3>1. /\ pc' \in [Members -> {"boot", "idle", "probing", "collecting",
                                   "retrying", "handback"}]
          /\ notices' \subseteq [holder : Studios, expires : Nat]
          /\ acked' \subseteq Studios
          /\ ackTerm' \in Terms
      BY <2>4, <2>7, EndTickType DEF RoleVarsOK
    <3> QED BY <1>2, <2>4, <2>5, <2>7, <3>1 DEF Probe, TypeOK, RoleVarsOK,
                Leases
  <2> QED BY <1>2, <2>6, <2>7 DEF Probe
<1>3. ASSUME NEW m \in Members, Vote(m) PROVE TypeOK'
  <2>1. PICK r \in requests : /\ r.voter = m
            /\ requests' = requests \ {r}
            /\ IF GrantsVote(m, r)
               THEN \E g \in GrantsFor(m, r) :
                    /\ term' = Put(term, m, r.term)
                    /\ issued' = Put(issued, m,
                           {h \in issued[m] : h.term # g.term} \cup {g})
                    /\ \/ replies' = [replies EXCEPT ![r.candidate] = @ \cup {g}]
                       \/ UNCHANGED replies
               ELSE UNCHANGED <<term, issued, replies>>
    BY <1>3 DEF Vote
  <2>2. r \in [candidate : Members, term : Terms, voter : Members]
    BY DEF TypeOK
  <2>3. \A g \in GrantsFor(m, r) : g \in Grants
    BY <2>2 DEF GrantsFor, Grants, TypeOK
  <2>4. /\ term' \in [Members -> Terms]
        /\ issued' \in [Members -> SUBSET Grants]
        /\ replies' \in [Members -> SUBSET Grants]
    <3>1. CASE GrantsVote(m, r)
      <4>1. PICK g \in GrantsFor(m, r) :
                /\ term' = Put(term, m, r.term)
                /\ issued' = Put(issued, m,
                       {h \in issued[m] : h.term # g.term} \cup {g})
                /\ \/ replies' = [replies EXCEPT ![r.candidate] = @ \cup {g}]
                   \/ UNCHANGED replies
        BY <2>1, <3>1
      <4>2. g \in Grants /\ r.candidate \in Members /\ r.term \in Terms
        BY <2>2, <2>3
      <4>3. term' \in [Members -> Terms]
        BY <4>1, <4>2 DEF TypeOK, Put
      <4>4. issued' \in [Members -> SUBSET Grants]
        <5>1. issued \in [Members -> SUBSET Grants]
          BY DEF TypeOK
        <5>2. {h \in issued[m] : h.term # g.term} \cup {g} \in SUBSET Grants
          BY <4>2, <5>1
        <5> QED BY <4>1, <5>1, <5>2 DEF Put
      <4>5. replies' \in [Members -> SUBSET Grants]
        <5>1. replies \in [Members -> SUBSET Grants]
          BY DEF TypeOK
        <5> QED BY <4>1, <4>2, <5>1
      <4> QED BY <4>3, <4>4, <4>5
    <3>2. CASE ~GrantsVote(m, r)
      BY <2>1, <3>2 DEF TypeOK
    <3> QED BY <3>1, <3>2
  <2> QED BY <1>3, <2>1, <2>4 DEF Vote, TypeOK
<1>4. ASSUME NEW m \in Members, Retry(m) PROVE TypeOK'
  <2>1. term[m] + 1 \in Terms
    BY DEF TypeOK, Terms
  <2>2. requests' \subseteq [candidate : Members, term : Terms, voter : Members]
    BY <1>4, <2>1 DEF Retry, AskVotes, TypeOK, Others
  <2> QED BY <1>4, <2>1, <2>2 DEF Retry, AskVotes, TypeOK, Put
<1>5. ASSUME NEW m \in Members, Finish(m) PROVE TypeOK'
  <2>1. Receive(m, moment[m]) \in SUBSET Grants
    BY DEF Receive, TypeOK
  <2>2. /\ RoleVarsOK'
        /\ leaseFile' \in [Members -> Leases]
        /\ busy' \in [Members -> BOOLEAN]
        /\ delivered' \in [Members -> Overrides]
        /\ seen' \in [Members -> Overrides]
    BY <1>5, <2>1, ObserveType DEF Finish
  <2>3. /\ pc' \in [Members -> {"boot", "idle", "probing", "collecting",
                                 "retrying", "handback"}]
        /\ notices' \subseteq [holder : Studios, expires : Nat]
        /\ acked' \subseteq Studios
        /\ ackTerm' \in Terms
    BY <1>5, <2>2, EndTickType DEF RoleVarsOK, Finish
  <2>4. /\ replies' \in [Members -> SUBSET Grants]
        /\ requests' \subseteq requests
    BY <1>5 DEF Finish, TypeOK, Put
  <2> QED BY <1>5, <2>2, <2>3, <2>4 DEF Finish, TypeOK, RoleVarsOK, Leases
<1>6. ASSUME NEW m \in Members, Handback(m) PROVE TypeOK'
  <2>1. /\ role' \in [Members -> Roles] /\ closed' \in [Members -> BOOLEAN]
        /\ proof' \in [Members -> SUBSET Grants]
        /\ drainStarted' \in [Members -> Times]
        /\ UNCHANGED <<term, outage, reclaimSince>>
    <3>1. CASE DrainAndFinish(m, busy[m], now)
      <4> DEFINE began == IF role[m] = "draining" THEN drainStarted[m] ELSE now
      <4>1. began \in Times
        BY DEF TypeOK, Times
      <4> QED BY <3>1, <4>1 DEF DrainAndFinish, TypeOK, Put, Roles
    <3>2. CASE UNCHANGED <<role, closed, proof, drainStarted, term, outage,
                           reclaimSince>>
      BY <3>2 DEF TypeOK
    <3> QED BY <1>6, <3>1, <3>2 DEF Handback
  <2>2. leaseFile' \in [Members -> Leases]
    BY <1>6, <2>1, EmitType DEF Handback, TypeOK
  <2>3. notices' \subseteq notices /\ acked' \subseteq Studios
    BY <1>6 DEF Handback, TypeOK
  <2> QED BY <1>6, <2>1, <2>2, <2>3 DEF Handback, TypeOK, Leases
<1>7. ASSUME HandbackDone PROVE TypeOK'
  BY <1>7 DEF HandbackDone, TypeOK, Put
<1>8. ASSUME NEW m \in Members, NEW k \in OverrideKinds, DeliverOverride(m, k)
      PROVE  TypeOK'
  BY <1>8 DEF DeliverOverride, TypeOK, Put, Overrides
<1>9. ASSUME NEW m \in Members, Crash(m) PROVE TypeOK'
  <2>1. live' \in [Members -> [Members -> LivenessRecords]]
    BY <1>9 DEF Crash, TypeOK, Put, Unprobed, LivenessRecords, Healths, Times,
                NoTime
  <2>2. /\ RoleVarsOK'
        /\ issued' \in [Members -> SUBSET Grants]
        /\ replies' \in [Members -> SUBSET Grants]
    BY <1>9 DEF Crash, TypeOK, RoleVarsOK, Put, Roles, Terms, Times, NoTime
  <2>3. /\ busy' \in [Members -> BOOLEAN]
        /\ delivered' \in [Members -> Overrides]
        /\ seen' \in [Members -> Overrides]
        /\ moment' \in [Members -> Nat]
        /\ up' \in [Members -> BOOLEAN]
        /\ pc' \in [Members -> {"boot", "idle", "probing", "collecting",
                                 "retrying", "handback"}]
    BY <1>9 DEF Crash, TypeOK, Put, Overrides
  <2>4. /\ requests' \subseteq requests /\ notices' \subseteq notices
        /\ acked' \subseteq Studios /\ ackTerm' \in Terms
        /\ crashes' \in Nat
        /\ UNCHANGED <<now, link, fence, leaseFile, overrides, faults>>
    BY <1>9 DEF Crash, TypeOK, Terms
  <2> QED BY <2>1, <2>2, <2>3, <2>4 DEF TypeOK, RoleVarsOK
<1>10. ASSUME NEW m \in Members, Restart(m) PROVE TypeOK'
  BY <1>10 DEF Restart, TypeOK, Put, NoLease, Times, NoTime
<1>11. ASSUME NetworkChange PROVE TypeOK'
  BY <1>11 DEF NetworkChange, TypeOK
<1>12. ASSUME Elapse PROVE TypeOK'
  BY <1>12 DEF Elapse, TypeOK
<1>13. ASSUME UNCHANGED vars PROVE TypeOK'
  BY <1>13 DEF vars, TypeOK
<1> QED BY <1>1, <1>2, <1>3, <1>4, <1>5, <1>6, <1>7, <1>8, <1>9, <1>10, <1>11,
           <1>12, <1>13 DEF Next, Horizon

(* The freshly started members have the right types. *)
LEMMA TypeInit == Init => TypeOK
BY DEF Init, TypeOK, Roles, Terms, Times, NoTime, Overrides, NoLease, Unprobed,
       LivenessRecords, Healths

(* Every variable of the election keeps the type the code gives it. *)
THEOREM Typing == Spec => []TypeOK
BY TypeInit, TypeStep, PTL DEF Spec

=============================================================================
