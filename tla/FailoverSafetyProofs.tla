------------------------ MODULE FailoverSafetyProofs ------------------------
(***************************************************************************)
(* What the authority of a quorum host rests on, for every value of the    *)
(* thresholds: two hosts can clash in one way only, on edge-a's own vote.  *)
(* With Timely thresholds they cannot clash at all.                        *)
(***************************************************************************)
EXTENDS FailoverElectionProofs

(* The lease and the promotion threshold are whole units of time. *)
LEMMA LeaseType == Lease \in Nat /\ Promotion \in Nat
BY ElectionAssumption

(* The three members are different hosts. *)
LEMMA Distinct == Core # EdgeA /\ Core # EdgeB /\ EdgeA # EdgeB
BY ElectionAssumption

-----------------------------------------------------------------------------
(* What one observe() does to the grants a member holds *)

(* g is the vote of its own that m casts at t. *)
CastsOwn(m, g, t) ==
    /\ g.candidate = m /\ g.voter = m /\ g.expires = t + Lease
    /\ \A h \in issued[m] : h.candidate = m \/ ~Current(h, t)

(* m is in office, or takes it in this call. *)
InOffice(m, l, ov, t) == role[m] = "elected" \/ MayCampaign(m, l, ov, t)

(* The vote EnsureSelfGrant adds is one's own and is not cast while a vote *)
(* given to another member is current.                                     *)
LEMMA EnsureSelfGrantAdds ==
    ASSUME NEW m \in Members, NEW rc \in SUBSET Grants, NEW tm \in Terms,
           NEW t \in Nat, NEW g \in EnsureSelfGrant(m, rc, tm, t)
    PROVE  g \in rc \/ CastsOwn(m, g, t)
BY DEF EnsureSelfGrant, CastsOwn

(* A proof has two voters, and all its grants are current. *)
LEMMA ProofsAre ==
    ASSUME NEW m \in Members, NEW rc \in SUBSET Grants, NEW tm, NEW t,
           NEW p \in Proofs(m, rc, tm, t)
    PROVE  /\ p # {} /\ p \subseteq rc /\ TwoVoters(m, p)
           /\ \A g \in p : Current(g, t)
BY DEF Proofs, Ballots, TwoVoters

(* The three outcomes of observe() for the proof. *)
NoProof(m)   == proof'[m] = {} /\ role'[m] # "elected"
ByGlass(m, l, ov, t) ==
    /\ proof'[m] = {} /\ role'[m] = "elected" /\ BreakGlassOk(ov, t)
    /\ InOffice(m, l, ov, t)
KeptProof(m) ==
    /\ proof'[m] = proof[m] /\ proof[m] # {}
    /\ role[m] = "elected" /\ role'[m] = "elected"
NewProof(m, l, ov, t) ==
    /\ proof'[m] # {} /\ proof'[m] \subseteq received'[m]
    /\ TwoVoters(m, proof'[m]) /\ \A g \in proof'[m] : Current(g, t)
    /\ role'[m] = "elected" /\ InOffice(m, l, ov, t)

GrantStep(m, l, rc, ov, t) ==
    /\ \A n \in Others(m) : /\ received'[n] = received[n]
                            /\ proof'[n] = proof[n] /\ role'[n] = role[n]
    /\ \A g \in received'[m] :
           g \in rc \/ (CastsOwn(m, g, t) /\ InOffice(m, l, ov, t))
    /\ \/ NoProof(m) \/ KeptProof(m)
       \/ ByGlass(m, l, ov, t) \/ NewProof(m, l, ov, t)
    /\ role[m] = "standby" /\ role'[m] # "standby" => Unfenced(m, t)

(* What _advance does to the grants a member holds and to its proof: the   *)
(* only new grant is its own vote, and a new proof is one _try_proof found. *)
LEMMA AdvanceGrants ==
    ASSUME TypeOK, NEW m \in Members, NEW l, NEW rc \in SUBSET Grants, NEW ov,
           NEW fl \in BOOLEAN, NEW t \in Nat,
           Advance(m, l, rc, ov, fl, t),
           proof[m] # {} => role[m] = "elected"
    PROVE  GrantStep(m, l, rc, ov, t)
<1>0. RoleVarsOK
  BY DEF TypeOK, RoleVarsOK
<1>1. ASSUME NEW lost \in BOOLEAN, Fence(m, rc, lost)
      PROVE  GrantStep(m, l, rc, ov, t)
  BY <1>0, <1>1 DEF Fence, RoleVarsOK, Put, GrantStep, NoProof, Others
<1>2. CASE /\ DrainAndFinish(m, fl, t) /\ received' = Put(received, m, rc)
           /\ role[m] \in {"elected", "draining"}
  BY <1>0, <1>2 DEF DrainAndFinish, RoleVarsOK, Put, GrantStep, NoProof, Others
<1>3. CASE role[m] = "elected" /\ Hold(m, rc, ov, t)
  <2> DEFINE mine == EnsureSelfGrant(m, rc, term[m], t)
             found == Proofs(m, mine, term[m], t)
  <2>1. mine \in SUBSET Grants /\ \A g \in mine : g \in rc \/ CastsOwn(m, g, t)
    BY <1>0, EnsureSelfGrantType, EnsureSelfGrantAdds DEF RoleVarsOK
  <2>2. \A p \in found : /\ p # {} /\ p \subseteq mine /\ TwoVoters(m, p)
                         /\ \A g \in p : Current(g, t)
    BY <2>1, ProofsAre
  <2> HIDE DEF mine, found
  <2>3. \/ /\ received' = Put(received, m, rc) /\ UNCHANGED <<role, proof>>
           /\ ProofOk(m, t) \/ (proof[m] = {} /\ BreakGlassOk(ov, t))
        \/ /\ received' = Put(received, m, mine) /\ UNCHANGED role
           /\ \E p \in found : proof' = Put(proof, m, p)
        \/ /\ received' = Put(received, m, mine) /\ UNCHANGED <<role, proof>>
           /\ ProofOk(m, t)
        \/ /\ received' = Put(received, m, mine)
           /\ role' = Put(role, m, "candidate") /\ proof' = Put(proof, m, {})
    BY <1>3, Zenon DEF Hold, mine, found
  <2>4. /\ \A n \in Others(m) : /\ received'[n] = received[n]
                                /\ proof'[n] = proof[n] /\ role'[n] = role[n]
        /\ \A g \in received'[m] : g \in rc \/ CastsOwn(m, g, t)
    BY <1>0, <2>1, <2>3 DEF RoleVarsOK, Put, Others
  <2>5. \/ NoProof(m) \/ KeptProof(m)
        \/ ByGlass(m, l, ov, t) \/ NewProof(m, l, ov, t)
    BY <1>0, <1>3, <2>2, <2>3 DEF RoleVarsOK, Put, NoProof, KeptProof, ByGlass,
        NewProof, InOffice, ProofOk
  <2> QED BY <1>3, <2>4, <2>5 DEF GrantStep, InOffice
<1>4. CASE StandDown(m, l, rc, ov, t)
  BY <1>0, <1>4 DEF StandDown, RoleVarsOK, Put, GrantStep, NoProof, Others
<1>5. CASE /\ Campaign(m, l, rc, ov, t) /\ MayCampaign(m, l, ov, t)
           /\ role[m] # "elected"
  <2> DEFINE reopen == role[m] = "standby" /\ closed[m]
             tm     == IF reopen THEN term[m] + 1 ELSE term[m]
             old    == IF reopen THEN {} ELSE rc
             mine   == EnsureSelfGrant(m, old, tm, t)
             found  == Proofs(m, mine, tm, t)
  <2>1. tm \in Terms /\ old \in SUBSET Grants /\ old \subseteq rc
    BY <1>0 DEF Terms, RoleVarsOK
  <2> HIDE DEF tm, old
  <2>2. mine \in SUBSET Grants /\ \A g \in mine : g \in rc \/ CastsOwn(m, g, t)
    BY <2>1, EnsureSelfGrantType, EnsureSelfGrantAdds
  <2>3. \A p \in found : /\ p # {} /\ p \subseteq mine /\ TwoVoters(m, p)
                         /\ \A g \in p : Current(g, t)
    BY <2>2, ProofsAre
  <2> HIDE DEF mine, found
  <2>4. /\ received' = Put(received, m, mine)
        /\ \/ /\ found = {} /\ UNCHANGED proof
              /\ role' = Put(role, m, IF BreakGlassOk(ov, t) THEN "elected"
                                                             ELSE "candidate")
           \/ /\ \E p \in found : proof' = Put(proof, m, p)
              /\ role' = Put(role, m, "elected")
    BY <1>5, Zenon DEF Campaign, tm, old, mine, found
  <2>5. /\ \A n \in Others(m) : /\ received'[n] = received[n]
                                /\ proof'[n] = proof[n] /\ role'[n] = role[n]
        /\ \A g \in received'[m] : g \in rc \/ CastsOwn(m, g, t)
    BY <1>0, <2>2, <2>4 DEF RoleVarsOK, Put, Others
  <2>6. proof[m] = {}
    BY <1>5
  <2>7. \/ NoProof(m) \/ ByGlass(m, l, ov, t) \/ NewProof(m, l, ov, t)
    BY <1>0, <1>5, <2>3, <2>4, <2>6 DEF RoleVarsOK, Put, NoProof, ByGlass,
        NewProof, InOffice
  <2> QED BY <1>5, <2>5, <2>7 DEF GrantStep, InOffice, MayCampaign
<1> QED BY <1>1, <1>2, <1>3, <1>4, <1>5 DEF Advance

(* The lease file of a running Studio shows the proof and nothing else. *)
LEMMA EmitGrants ==
    ASSUME TypeOK, NEW m \in Members, Emit(m),
           proof' \in [Members -> SUBSET Grants],
           proof'[m] # {} => role'[m] = "elected",
           m = Core => leaseFile[m].grants = {},
           m # Core => leaseFile[m].grants = proof[m]
    PROVE  /\ \A n \in Others(m) : leaseFile'[n] = leaseFile[n]
           /\ m = Core => leaseFile'[m].grants = {}
           /\ m # Core => leaseFile'[m].grants = proof'[m]
<1>1. leaseFile \in [Members -> Leases]
  BY DEF TypeOK, Leases
<1> DEFINE new == LeaseOf(m, role'[m], proof'[m], seen'[m])
<1>2. new.grants = proof'[m]
  BY DEF LeaseOf, NoLease
<1>3. \/ leaseFile' = leaseFile /\ (m # Core => proof'[m] = proof[m])
      \/ leaseFile' = Put(leaseFile, m, new) /\ m # Core
  BY DEF Emit
<1> HIDE DEF new
<1> QED BY <1>1, <1>2, <1>3 DEF Put, Others

(* What observe() does to the grants, the roles and the lease files. *)
LEMMA ObserveGrants ==
    ASSUME TypeOK, NEW m \in Members, NEW l, NEW rc \in SUBSET Grants,
           Observe(m, l, rc), ProofsSound, up[m]
    PROVE  /\ GrantStep(m, l, rc, ActiveOverride(m), moment[m])
           /\ \A n \in Others(m) : /\ leaseFile'[n] = leaseFile[n]
                                   /\ seen'[n] = seen[n]
           /\ m = Core => leaseFile'[m].grants = {}
           /\ m # Core => leaseFile'[m].grants = proof'[m]
           /\ seen'[m] = ActiveOverride(m)
<1>1. PICK fl \in BOOLEAN :
          /\ seen' = Put(seen, m, ActiveOverride(m))
          /\ Advance(m, l, rc, ActiveOverride(m), fl, moment[m])
          /\ Emit(m)
  BY DEF Observe
<1>2. moment[m] \in Nat /\ seen \in [Members -> Overrides]
  BY DEF TypeOK
<1>3. GrantStep(m, l, rc, ActiveOverride(m), moment[m])
  BY <1>1, <1>2, AdvanceGrants DEF ProofsSound
<1>4. proof' \in [Members -> SUBSET Grants]
  BY ObserveType DEF RoleVarsOK
<1>5. proof'[m] # {} => role'[m] = "elected"
  BY <1>3 DEF GrantStep, NoProof, KeptProof, ByGlass, NewProof
<1>6. /\ \A n \in Others(m) : leaseFile'[n] = leaseFile[n]
      /\ m = Core => leaseFile'[m].grants = {}
      /\ m # Core => leaseFile'[m].grants = proof'[m]
  BY <1>1, <1>4, <1>5, EmitGrants DEF ProofsSound
<1>7. seen'[m] = ActiveOverride(m) /\ \A n \in Others(m) : seen'[n] = seen[n]
  BY <1>1, <1>2 DEF Put, Others
<1> QED BY <1>3, <1>6, <1>7

-----------------------------------------------------------------------------
(* Steps that give no new vote *)

(* No member gains a vote of another. *)
NoNewVote ==
    /\ now \in Nat /\ now' \in Nat /\ now <= now'
    /\ \A c \in Members : \A g \in Held(c)' : g.voter # c => g \in Held(c)

(* What a member holds are grants. *)
LEMMA HeldType ==
    ASSUME TypeOK, NEW c \in Members, NEW g \in Held(c)
    PROVE  g \in Grants
BY DEF TypeOK, Held

(* If no hand gains a vote of another member, no vote gets a second hand. *)
LEMMA OneVoteOutKept ==
    ASSUME TypeOK, NoNewVote, OneVoteOut
    PROVE  OneVoteOut' /\ \A m \in Members : VoteOut(m)' => VoteOut(m)
<1>1. \A c \in Members : \A g \in Held(c) :
          g.expires \in Nat /\ (Current(g, now)' => Current(g, now))
  BY HeldType DEF Grants, Current, NoNewVote
<1>2. OneVoteOut'
  <2> SUFFICES ASSUME NEW c \in Members, NEW d \in Members,
                      NEW g \in Held(c)', NEW h \in Held(d)',
                      g.voter = h.voter, g.voter \notin {c, d},
                      Current(g, now)', Current(h, now)'
               PROVE  c = d
    BY Zenon DEF OneVoteOut
  <2>1. g \in Held(c) /\ h \in Held(d)
    BY DEF NoNewVote
  <2>2. Current(g, now) /\ Current(h, now)
    BY <1>1, <2>1
  <2> QED BY <2>1, <2>2, Zenon DEF OneVoteOut
<1>3. ASSUME NEW m \in Members, VoteOut(m)' PROVE VoteOut(m)
  <2>1. PICK c \in Others(m) : \E g \in Held(c)' :
            g.voter = m /\ Current(g, now)'
    BY <1>3, Zenon DEF VoteOut
  <2>2. PICK g \in Held(c)' : g.voter = m /\ Current(g, now)'
    BY <2>1
  <2>3. c \in Members /\ g \in Held(c)
    BY <2>2 DEF Others, NoNewVote
  <2> QED BY <1>1, <2>2, <2>3, Zenon DEF VoteOut
<1> QED BY <1>2, <1>3

(* If no hand gains a vote of another member and no voter forgets one, every *)
(* vote is still remembered.                                               *)
LEMMA VotesBackedKept ==
    ASSUME TypeOK, NoNewVote, VotesBacked, UNCHANGED <<issued, fence, up>>
    PROVE  VotesBacked'
<1> SUFFICES ASSUME NEW c \in Members, NEW g \in Held(c)',
                    g.voter # c, Current(g, now)', up[g.voter]
             PROVE  \/ fence[g.voter] >= g.expires
                    \/ \E h \in issued[g.voter] :
                           h.candidate = c /\ h.expires >= g.expires
  BY DEF VotesBacked
<1>1. g \in Held(c)
  BY DEF NoNewVote
<1>2. Current(g, now)
  BY <1>1, HeldType DEF NoNewVote, Grants, Current
<1> QED BY <1>1, <1>2 DEF VotesBacked

-----------------------------------------------------------------------------
(* Steps that touch neither grants nor roles *)

QuietStep ==
    /\ UNCHANGED <<up, issued, fence, live, role, proof, received, replies,
                   leaseFile, seen>>
    /\ requests' \subseteq requests
    /\ now' \in Nat /\ now <= now'
    /\ moment' \in [Members -> Nat]
    /\ \A m \in Members : moment[m] <= moment'[m] /\ moment'[m] <= now'
    /\ \A m \in Members : ~up[m] => pc'[m] = pc[m]
    /\ pc'[EdgeA] # "probing" =>
           pc[EdgeA] # "probing" /\ moment'[EdgeA] = moment[EdgeA]

(* A step that touches no grant, role or record keeps the invariant: the   *)
(* clock, the network and the operator, and the start of a poll.           *)
LEMMA QuietKeeps ==
    ASSUME TypeOK, ElectionInv, QuietStep
    PROVE  ElectionInv'
<1> USE DEF ElectionInv, BallotInv, AgeingInv
<1>0. EdgeA \in Members
  BY DEF Members
<1>1. \A c \in Members : Held(c)' = Held(c)
  BY DEF QuietStep, Held
<1>2. NoNewVote
  BY <1>1 DEF NoNewVote, QuietStep, TypeOK
<1>3. OneVoteOut' /\ \A m \in Members : VoteOut(m)' => VoteOut(m)
  BY <1>2, OneVoteOutKept
<1>4. VotesBacked'
  BY <1>2, VotesBackedKept DEF QuietStep
<1>5. VotesGoUp'
  BY <1>1 DEF VotesGoUp, QuietStep
<1>6. DownForgets'
  BY DEF DownForgets, QuietStep
<1>7. Horizons'
  <2> SUFFICES ASSUME NEW m \in Members, NEW g \in Held(m) \cup issued[m]
               PROVE  g.expires <= now' + Lease
    BY <1>1 DEF Horizons, QuietStep
  <2>1. g.expires \in Nat
    BY HeldType DEF TypeOK, Grants
  <2>2. g.expires <= now + Lease
    BY DEF Horizons
  <2>3. now \in Nat /\ now' \in Nat /\ now <= now'
    BY DEF QuietStep, TypeOK
  <2> QED BY <2>1, <2>2, <2>3, LeaseType
<1>8. FenceRespected'
  BY DEF FenceRespected, QuietStep, TypeOK
<1>9. ProofsSound' /\ GlassOrProof'
  BY DEF ProofsSound, GlassOrProof, QuietStep, TwoVoters
<1>10. ASSUME Timely PROVE RecordDated'
  <2>1. CoreRecord \in LivenessRecords
    BY DEF CoreRecord, TypeOK, Members
  <2>2. CoreRecord' = CoreRecord
    BY DEF CoreRecord, QuietStep
  <2>3. CoreRecord.since \in Int /\ CoreRecord.downSince \in Int
    BY <2>1 DEF LivenessRecords, Times, NoTime
  <2>4. /\ moment[EdgeA] \in Nat /\ moment'[EdgeA] \in Nat
        /\ moment[EdgeA] <= moment'[EdgeA]
    BY <1>0 DEF QuietStep, TypeOK
  <2> QED BY <1>10, <2>2, <2>3, <2>4 DEF RecordDated, QuietStep
<1>11. OwnVotes' = OwnVotes /\ \A g \in OwnVotes : g.expires \in Nat
  BY <1>0 DEF OwnVotes, QuietStep, TypeOK, Grants
<1>12. ASSUME Timely PROVE OwnVoteAgeing'
  <2>1. CoreRecord' = CoreRecord
    BY DEF CoreRecord, QuietStep
  <2>0. /\ moment[EdgeA] \in Nat /\ moment'[EdgeA] \in Nat
        /\ moment[EdgeA] <= moment'[EdgeA]
    BY <1>0 DEF QuietStep, TypeOK
  <2>2. \A g \in OwnVotes : g.expires <= moment'[EdgeA] + Lease
    BY <1>11, <1>12, <2>0, LeaseType DEF OwnVoteAgeing
  <2>3. VoteOut(EdgeA)' => VoteOut(EdgeA)
    BY <1>0, <1>3
  <2> QED BY <1>11, <1>12, <2>1, <2>2, <2>3 DEF OwnVoteAgeing
<1>13. ASSUME Timely PROVE NoServiceWhileVoting'
  <2>1. VoteOut(EdgeA)' => VoteOut(EdgeA)
    BY <1>0, <1>3
  <2>2. moment[EdgeA] \in Nat /\ moment'[EdgeA] \in Nat
        /\ moment[EdgeA] <= moment'[EdgeA]
    BY <1>0 DEF QuietStep, TypeOK
  <2> QED BY <1>11, <1>13, <2>1, <2>2 DEF NoServiceWhileVoting, QuietStep
<1> QED BY <1>3, <1>4, <1>5, <1>6, <1>7, <1>8, <1>9, <1>10, <1>12, <1>13

-----------------------------------------------------------------------------
(* observe() *)

(* An observe() in the middle of a poll of m, with its surroundings: Probe *)
(* and Finish are such steps.                                              *)
ObserveStep(m, l, rc) ==
    /\ Observe(m, l, rc)
    /\ up[m] /\ rc \subseteq received[m] \cup replies[m]
    /\ \A g \in rc : g.voter = m => g \in received[m]
    /\ \A c \in Members : replies'[c] \subseteq replies[c]
    /\ \A r \in requests' : r.voter # r.candidate
    /\ UNCHANGED <<now, up, issued, fence, moment>>
    /\ \A n \in Others(m) : pc'[n] = pc[n]

(* An observe() gives its member no grant it did not hold but its own vote. *)
LEMMA ObserveHeld ==
    ASSUME TypeOK, ProofsSound, NEW m \in Members, NEW l, NEW rc,
           ObserveStep(m, l, rc)
    PROVE  /\ rc \in SUBSET Grants
           /\ GrantStep(m, l, rc, ActiveOverride(m), moment[m])
           /\ \A c \in Members : \A g \in Held(c)' :
                  \/ g \in Held(c)
                  \/ c = m /\ g \in received'[m] /\ CastsOwn(m, g, moment[m])
           /\ NoNewVote
<1>0. /\ rc \in SUBSET Grants /\ up[m] /\ Observe(m, l, rc)
  BY DEF ObserveStep, TypeOK
<1>1. /\ GrantStep(m, l, rc, ActiveOverride(m), moment[m])
      /\ \A n \in Others(m) : leaseFile'[n] = leaseFile[n]
      /\ m = Core => leaseFile'[m].grants = {}
      /\ m # Core => leaseFile'[m].grants = proof'[m]
  BY <1>0, ObserveGrants
<1>2. \A c \in Others(m) : \A g \in Held(c)' : g \in Held(c)
  BY <1>1 DEF Held, GrantStep, ObserveStep, Others
<1>3. \A g \in received'[m] : g \in Held(m) \/ CastsOwn(m, g, moment[m])
  BY <1>1 DEF GrantStep, ObserveStep, Held
<1>4. \A g \in proof'[m] : g \in received'[m] \/ g \in Held(m)
  BY <1>1 DEF GrantStep, NoProof, KeptProof, ByGlass, NewProof, Held
<1>5. \A g \in leaseFile'[m].grants : g \in proof'[m]
  BY <1>1
<1>6. \A g \in replies'[m] : g \in Held(m)
  BY DEF ObserveStep, Held
<1>7. \A g \in Held(m)' :
          g \in Held(m) \/ (g \in received'[m] /\ CastsOwn(m, g, moment[m]))
  <2> SUFFICES ASSUME NEW g \in Held(m)'
               PROVE  \/ g \in Held(m)
                      \/ g \in received'[m] /\ CastsOwn(m, g, moment[m])
    OBVIOUS
  <2>1. \/ g \in replies'[m] \/ g \in received'[m] \/ g \in proof'[m]
        \/ g \in leaseFile'[m].grants
    BY DEF Held
  <2> QED BY <1>3, <1>4, <1>5, <1>6, <2>1
<1>8. \A c \in Members : \A g \in Held(c)' :
          \/ g \in Held(c)
          \/ c = m /\ g \in received'[m] /\ CastsOwn(m, g, moment[m])
  BY <1>2, <1>7 DEF Others
<1>9. NoNewVote
  BY <1>8 DEF NoNewVote, CastsOwn, ObserveStep, TypeOK
<1> QED BY <1>0, <1>1, <1>8, <1>9

(* An observe() leaves offices that rest on a proof or on break glass. *)
LEMMA ObserveOffices ==
    ASSUME TypeOK, ProofsSound, GlassOrProof, NEW m \in Members, NEW l, NEW rc,
           ObserveStep(m, l, rc)
    PROVE  ProofsSound' /\ GlassOrProof'
<1>0. /\ rc \in SUBSET Grants
      /\ GrantStep(m, l, rc, ActiveOverride(m), moment[m])
  BY ObserveHeld
<1>1. /\ \A n \in Others(m) : /\ leaseFile'[n] = leaseFile[n]
                              /\ seen'[n] = seen[n]
      /\ m = Core => leaseFile'[m].grants = {}
      /\ m # Core => leaseFile'[m].grants = proof'[m]
      /\ seen'[m] = ActiveOverride(m)
  BY <1>0, ObserveGrants DEF ObserveStep
<1>2. ProofsSound'
  <2> SUFFICES ASSUME NEW n \in Members
               PROVE  /\ TwoVoters(n, proof'[n])
                      /\ TwoVoters(n, leaseFile'[n].grants)
                      /\ proof'[n] # {} => role'[n] = "elected"
                      /\ up[n] /\ n # Core => leaseFile'[n].grants = proof'[n]
                      /\ n = Core => leaseFile'[n].grants = {}
    BY DEF ProofsSound, ObserveStep, TwoVoters
  <2>1. CASE n # m
    BY <1>0, <1>1, <2>1 DEF ProofsSound, GrantStep, Others
  <2>2. CASE n = m
    <3>1. TwoVoters(m, proof'[m]) /\ (proof'[m] # {} => role'[m] = "elected")
      BY <1>0 DEF GrantStep, NoProof, KeptProof, ByGlass, NewProof, TwoVoters,
                  ProofsSound
    <3> QED BY <1>1, <2>2, <3>1 DEF TwoVoters
  <2> QED BY <2>1, <2>2
<1>3. GlassOrProof'
  <2> SUFFICES ASSUME NEW n \in Members, role'[n] = "elected"
               PROVE  proof'[n] # {} \/ seen'[n].kind = "break_glass"
    BY DEF GlassOrProof
  <2>1. CASE n # m
    BY <1>0, <1>1, <2>1 DEF GlassOrProof, GrantStep, Others
  <2>2. CASE n = m
    BY <1>0, <1>1, <2>2 DEF GrantStep, NoProof, KeptProof, ByGlass, NewProof,
                            BreakGlassOk
  <2> QED BY <2>1, <2>2
<1> QED BY <1>2, <1>3

(* The parts of the invariant that hold whatever the timing. *)
LEMMA ObserveKeeps ==
    ASSUME TypeOK, ElectionInv, NEW m \in Members, NEW l, NEW rc,
           ObserveStep(m, l, rc)
    PROVE  /\ VotesGoUp' /\ DownForgets' /\ Horizons' /\ VotesBacked'
           /\ FenceRespected' /\ OneVoteOut' /\ ProofsSound' /\ GlassOrProof'
           /\ \A n \in Members : VoteOut(n)' => VoteOut(n)
<1> USE DEF ElectionInv, BallotInv, AgeingInv
<1>0. /\ rc \in SUBSET Grants
      /\ GrantStep(m, l, rc, ActiveOverride(m), moment[m])
      /\ NoNewVote
  BY ObserveHeld
<1>1. \A c \in Members : \A g \in Held(c)' :
          \/ g \in Held(c)
          \/ c = m /\ g \in received'[m] /\ CastsOwn(m, g, moment[m])
  BY ObserveHeld
<1>2. OneVoteOut' /\ \A n \in Members : VoteOut(n)' => VoteOut(n)
  BY <1>0, OneVoteOutKept
<1>3. VotesBacked'
  BY <1>0, VotesBackedKept DEF ObserveStep
<1>4. VotesGoUp'
  <2>1. \A r \in requests' : r.voter # r.candidate
    BY DEF ObserveStep
  <2>2. ASSUME NEW n \in Members
        PROVE  /\ \A g \in issued'[n] : g.voter = n /\ g.candidate \in Higher(n)
               /\ \A g, h \in issued'[n] : g.term = h.term => g = h
               /\ \A g \in replies'[n] : g.voter # n
    BY DEF ObserveStep, VotesGoUp
  <2>3. ASSUME NEW n \in Members, NEW g \in Held(n)'
        PROVE  g.candidate = n /\ (g.voter = n \/ n \in Higher(g.voter))
    BY <1>1 DEF VotesGoUp, CastsOwn
  <2> QED BY <2>1, <2>2, <2>3 DEF VotesGoUp, Higher, Rank
<1>5. DownForgets'
  <2> SUFFICES ASSUME NEW n \in Members, ~up[n]
               PROVE  pc'[n] = "boot" /\ role'[n] = "standby" /\ issued[n] = {}
    BY DEF DownForgets, ObserveStep
  <2>1. n \in Others(m)
    BY DEF Others, ObserveStep
  <2> QED BY <1>0, <2>1 DEF DownForgets, ObserveStep, GrantStep
<1>6. Horizons'
  <2>1. moment' = moment /\ now' = now /\ issued' = issued
    BY DEF ObserveStep
  <2>2. ASSUME NEW n \in Members, NEW g \in Held(n)'
        PROVE  g.expires <= now + Lease
    <3>1. CASE g \in Held(n)
      BY <3>1 DEF Horizons
    <3>2. CASE CastsOwn(m, g, moment[m])
      BY <3>2, LeaseType DEF CastsOwn, Horizons, TypeOK
    <3> QED BY <1>1, <3>1, <3>2
  <2> QED BY <2>1, <2>2 DEF Horizons
<1>7. FenceRespected'
  <2> SUFFICES ASSUME NEW n \in Members, issued[n] # {} \/ role'[n] # "standby"
               PROVE  fence[n] <= now
    BY DEF FenceRespected, ObserveStep
  <2>1. CASE issued[n] # {} \/ role[n] # "standby"
    BY <2>1 DEF FenceRespected
  <2>2. CASE role[n] = "standby" /\ role'[n] # "standby"
    <3>1. n = m
      BY <1>0, <2>2 DEF GrantStep, Others
    <3>2. Unfenced(m, moment[m])
      BY <1>0, <2>2, <3>1 DEF GrantStep
    <3> QED BY <3>1, <3>2 DEF Unfenced, Horizons, TypeOK
  <2> QED BY <2>1, <2>2
<1>8. ProofsSound' /\ GlassOrProof'
  BY ObserveOffices
<1> QED BY <1>2, <1>3, <1>4, <1>5, <1>6, <1>7, <1>8

(* While a vote of m is current in other hands, m casts no vote of its own. *)
LEMMA NoOwnVoteWhileVoting ==
    ASSUME TypeOK, ElectionInv, NEW m \in Members, NEW l, NEW rc,
           ObserveStep(m, l, rc), VoteOut(m), NEW g \in received'[m]
    PROVE  g \in rc
<1> USE DEF ElectionInv, BallotInv, AgeingInv
<1>0. GrantStep(m, l, rc, ActiveOverride(m), moment[m])
  BY ObserveHeld
<1>1. PICK c \in Others(m) : \E v \in Held(c) : v.voter = m /\ Current(v, now)
  BY DEF VoteOut
<1>2. PICK v \in Held(c) : v.voter = m /\ Current(v, now)
  BY <1>1
<1>3. c \in Members /\ c # m /\ v.expires \in Nat /\ moment[m] <= now
      /\ moment[m] \in Nat /\ now \in Nat /\ fence[m] \in Nat
  BY HeldType DEF Others, Grants, Horizons, TypeOK
<1>4. CASE fence[m] >= v.expires
  <2>1. fence[m] > now
    BY <1>2, <1>3, <1>4 DEF Current
  <2>2. role[m] = "standby" /\ ~Unfenced(m, moment[m])
    BY <1>3, <2>1 DEF FenceRespected, Unfenced
  <2> QED BY <1>0, <2>2 DEF GrantStep, InOffice, MayCampaign
<1>5. CASE \E h \in issued[m] : h.candidate = c /\ h.expires >= v.expires
  <2>1. PICK h \in issued[m] : h.candidate = c /\ h.expires >= v.expires
    BY <1>5
  <2>2. h.expires \in Nat
    BY DEF TypeOK, Grants
  <2>3. h.candidate # m /\ Current(h, moment[m])
    BY <1>2, <1>3, <2>1, <2>2 DEF Current
  <2> QED BY <1>0, <2>3 DEF GrantStep, CastsOwn
<1> QED BY <1>2, <1>3, <1>4, <1>5 DEF VotesBacked, ObserveStep

-----------------------------------------------------------------------------
(* edge-a's record of core and the age of edge-a's own vote *)

(* A run of misses is dated from its first miss, and with a limit of two a *)
(* run that has not condemned the peer is the miss just noted.             *)
Dated(r, t) ==
    /\ r.failures = 0 <=> r.downSince = NoTime
    /\ r.downSince <= t
    /\ r.health = "unreachable" => r.since # NoTime /\ r.since <= t
    /\ r.health # "unreachable" /\ r.downSince # NoTime =>
           r.failures < FailureLimit

(* Folding a heartbeat into the record of core keeps its dates consistent. *)
LEMMA NoteDated ==
    ASSUME FailureLimit <= 2, NEW r \in LivenessRecords, NEW b \in Beats,
           NEW t \in Nat, Dated(r, t)
    PROVE  LET q == Note(r, b, t) IN
           /\ Dated(q, t)
           /\ q.health # "unreachable" /\ q.downSince # NoTime =>
                  q.downSince = t
<1>1. /\ r.failures \in Nat /\ r.since \in Int /\ r.downSince \in Int
      /\ FailureLimit \in Nat
  BY DampingAssumption DEF LivenessRecords, Times, NoTime
<1>2. CASE b = "miss"
  BY <1>1, <1>2 DEF Note, NoteMiss, Dated, NoTime
<1>3. CASE b = "slow"
  BY <1>1, <1>3 DEF Note, NoteSlow, Dated, NoTime
<1>4. CASE b = "ok"
  BY <1>1, <1>4 DEF Note, NoteOk, Dated, NoTime
<1> QED BY <1>2, <1>3, <1>4 DEF Beats

(* e is within a lease of everything the record dates an outage from. *)
Aged(e, r) ==
    /\ r.downSince # NoTime => e <= r.downSince + Lease
    /\ r.health = "unreachable" => e <= r.since + Lease

(* A heartbeat leaves e within a lease of the outage if it was so before   *)
(* and is within a lease of the heartbeat itself.                          *)
LEMMA NoteAged ==
    ASSUME NEW r \in LivenessRecords, NEW b \in Beats, NEW t \in Nat,
           NEW e \in Nat, e <= t + Lease, Aged(e, r)
    PROVE  Aged(e, Note(r, b, t))
<1>1. r.failures \in Nat /\ r.since \in Int /\ r.downSince \in Int
  BY DEF LivenessRecords, Times, NoTime
<1>2. CASE b = "miss"
  BY <1>1, <1>2 DEF Note, NoteMiss, Aged, NoTime
<1>3. CASE b = "slow"
  BY <1>1, <1>3 DEF Note, NoteSlow, Aged, NoTime
<1>4. CASE b = "ok"
  BY <1>1, <1>4 DEF Note, NoteOk, Aged, NoTime
<1> QED BY <1>2, <1>3, <1>4 DEF Beats

(* An observe() of edge-a on a record that is dated and on old votes that  *)
(* have aged leaves no vote of its own that could outlive its patience.    *)
LEMMA EdgeAKeeps ==
    ASSUME Timely, TypeOK, ElectionInv, NEW l, NEW rc,
           ObserveStep(EdgeA, l, rc), CoreRecord' = l[Core],
           CoreRecord' \in LivenessRecords, RecordDated',
           pc'[EdgeA] # "probing",
           VoteOut(EdgeA) => \A g \in OwnVotes : Aged(g.expires, CoreRecord')
    PROVE  OwnVoteAgeing' /\ NoServiceWhileVoting'
<1> USE DEF ElectionInv, BallotInv, AgeingInv
<1> DEFINE t == moment[EdgeA]
           ov == ActiveOverride(EdgeA)
           cr == CoreRecord'
<1>0. EdgeA \in Members
  BY DEF Members
<1>1. /\ rc \in SUBSET Grants
      /\ GrantStep(EdgeA, l, rc, ov, t)
  BY <1>0, ObserveHeld
<1>2. VoteOut(EdgeA)' => VoteOut(EdgeA)
  BY <1>0, ObserveKeeps
<1>3. t \in Nat /\ moment' = moment
  BY <1>0 DEF TypeOK, ObserveStep
<1>4. cr.since \in Int /\ cr.downSince \in Int
  BY DEF LivenessRecords, Times, NoTime
<1>5. \A g \in OwnVotes' : g \in OwnVotes \/ g.expires = t + Lease
  BY <1>1 DEF OwnVotes, GrantStep, CastsOwn, ObserveStep
<1>6. \A g \in OwnVotes : g.expires \in Nat /\ g.expires <= t + Lease
  BY <1>0 DEF OwnVotes, OwnVoteAgeing, TypeOK, Grants
<1>7. \A g \in OwnVotes' : g.expires \in Nat /\ g.expires <= t + Lease
  BY <1>3, <1>5, <1>6, LeaseType
<1>8. VoteOut(EdgeA) => \A g \in OwnVotes' : g \in OwnVotes
  BY <1>0, NoOwnVoteWhileVoting DEF OwnVotes, ObserveStep
<1>9. cr.health # "unreachable" =>
          \A g \in OwnVotes' : Aged(g.expires, cr)
  <2>1. cr.health # "unreachable" /\ cr.downSince # NoTime => cr.downSince = t
    BY <1>3 DEF RecordDated
  <2> QED BY <1>7, <2>1 DEF Aged
<1>10. VoteOut(EdgeA) => \A g \in OwnVotes' : Aged(g.expires, cr)
  BY <1>8
<1>11. OwnVoteAgeing'
  BY <1>2, <1>3, <1>7, <1>9, <1>10 DEF OwnVoteAgeing, Aged
<1>12. ASSUME VoteOut(EdgeA), InOffice(EdgeA, l, ov, t), NEW g \in OwnVotes'
       PROVE  g.expires <= t
  <2>1. CASE role[EdgeA] = "elected"
    BY <1>8, <1>12, <2>1 DEF NoServiceWhileVoting
  <2>2. CASE MayCampaign(EdgeA, l, ov, t)
    <3>1. Core \in Higher(EdgeA)
      BY Distinct DEF Higher, Rank, Members
    <3>2. cr.health = "unreachable" /\ t - cr.since >= Promotion
      BY <2>2, <3>1 DEF MayCampaign, EligibleLeader, HigherStatus
    <3>3. g.expires <= cr.since + Lease
      BY <1>10, <1>12, <3>2 DEF Aged
    <3> QED BY <1>3, <1>4, <1>7, <3>2, <3>3, LeaseType DEF Timely, LeaseWithinPromotion
  <2> QED BY <1>12, <2>1, <2>2 DEF InOffice
<1>13. NoServiceWhileVoting'
  <2> SUFFICES ASSUME VoteOut(EdgeA)
               PROVE  /\ leaseFile'[EdgeA].grants = {}
                      /\ role'[EdgeA] = "elected" =>
                             \A g \in OwnVotes' : g.expires <= moment'[EdgeA]
    BY <1>2 DEF NoServiceWhileVoting
  <2>1. proof[EdgeA] = {}
    BY <1>0, Distinct DEF NoServiceWhileVoting, ProofsSound, ObserveStep
  <2>2. ~NewProof(EdgeA, l, ov, t)
    <3> SUFFICES ASSUME NewProof(EdgeA, l, ov, t) PROVE FALSE
      OBVIOUS
    <3>1. PICK g \in proof'[EdgeA] : g.voter = EdgeA
      BY DEF NewProof, TwoVoters
    <3>2. g \in OwnVotes' /\ Current(g, t)
      BY <3>1 DEF NewProof, OwnVotes
    <3>3. g.expires <= t
      BY <1>12, <3>2 DEF NewProof
    <3> QED BY <1>3, <1>7, <3>2, <3>3 DEF Current
  <2>3. NoProof(EdgeA) \/ ByGlass(EdgeA, l, ov, t)
    BY <1>1, <2>1, <2>2 DEF GrantStep, KeptProof
  <2>4. leaseFile'[EdgeA].grants = proof'[EdgeA]
    BY <1>0, <1>1, ObserveGrants, Distinct DEF ObserveStep
  <2> QED BY <1>3, <1>12, <2>3, <2>4 DEF NoProof, ByGlass
<1> QED BY <1>11, <1>13

(* An observe() of another member does not concern edge-a's own vote. *)
LEMMA OthersKeep ==
    ASSUME Timely, TypeOK, ElectionInv, NEW m \in Members, m # EdgeA, NEW l, NEW rc,
           ObserveStep(m, l, rc), live'[EdgeA] = live[EdgeA]
    PROVE  RecordDated' /\ OwnVoteAgeing' /\ NoServiceWhileVoting'
<1> USE DEF ElectionInv, BallotInv, AgeingInv
<1>0. EdgeA \in Members /\ EdgeA \in Others(m)
  BY DEF Members, Others
<1>1. VoteOut(EdgeA)' => VoteOut(EdgeA)
  BY <1>0, ObserveKeeps
<1>2. /\ received'[EdgeA] = received[EdgeA] /\ role'[EdgeA] = role[EdgeA]
      /\ moment' = moment /\ pc'[EdgeA] = pc[EdgeA]
  BY <1>0, ObserveHeld DEF GrantStep, ObserveStep
<1>3. leaseFile'[EdgeA] = leaseFile[EdgeA]
  BY <1>0, ObserveGrants, ObserveHeld DEF ObserveStep
<1>4. CoreRecord' = CoreRecord /\ OwnVotes' = OwnVotes
  BY <1>2 DEF CoreRecord, OwnVotes
<1>5. RecordDated'
  BY <1>2, <1>4 DEF RecordDated
<1>6. OwnVoteAgeing'
  BY <1>1, <1>2, <1>4 DEF OwnVoteAgeing
<1>7. NoServiceWhileVoting'
  BY <1>1, <1>2, <1>3, <1>4 DEF NoServiceWhileVoting
<1> QED BY <1>5, <1>6, <1>7

-----------------------------------------------------------------------------
(* One lemma per action *)

(* Probing and the first observe() of a poll keep the invariant. *)
LEMMA ProbeKeeps ==
    ASSUME TypeOK, TypeOK', ElectionInv, NEW m \in Members, Probe(m)
    PROVE  ElectionInv'
<1> USE DEF ElectionInv, BallotInv, AgeingInv
<1>1. PICK b \in ProbeResults(m) :
        LET l == [p \in Members |-> IF p = m THEN Unprobed
                                    ELSE Note(live[m][p], b[p], moment[m])]
        IN  live' = Put(live, m, l) /\ Observe(m, l, received[m])
  BY DEF Probe
<1> DEFINE l == [p \in Members |-> IF p = m THEN Unprobed
                                   ELSE Note(live[m][p], b[p], moment[m])]
<1>2. live' = Put(live, m, l) /\ Observe(m, l, received[m])
  BY <1>1
<1>3. l[Core] = IF m = Core THEN Unprobed
                ELSE Note(live[m][Core], b[Core], moment[m])
  BY DEF Members
<1> HIDE DEF l
<1>4. ObserveStep(m, l, received[m]) /\ pc'[m] # "probing"
  <2>1. up[m] /\ pc[m] = "probing"
    BY DEF Probe, DownForgets
  <2>2. \/ AskVotes(m, term'[m]) /\ pc' = Put(pc, m, "collecting")
        \/ EndTick(m) /\ UNCHANGED <<requests, replies>>
    BY DEF Probe
  <2>3. /\ \A r \in requests' : r.voter # r.candidate
        /\ \A c \in Members : replies'[c] \subseteq replies[c]
    BY <2>2 DEF AskVotes, Others, VotesGoUp, Put, TypeOK
  <2>4. pc'[m] # "probing" /\ \A n \in Others(m) : pc'[n] = pc[n]
    BY <2>2 DEF EndTick, Put, Others, TypeOK
  <2>5. UNCHANGED <<now, up, issued, fence, moment>>
    BY DEF Probe
  <2> QED BY <1>2, <2>1, <2>3, <2>4, <2>5 DEF ObserveStep
<1>5. /\ VotesGoUp' /\ DownForgets' /\ Horizons' /\ VotesBacked'
      /\ FenceRespected' /\ OneVoteOut' /\ ProofsSound' /\ GlassOrProof'
  BY <1>4, ObserveKeeps
<1>8. CASE ~Timely
  BY <1>5, <1>8
<1>6. CASE Timely /\ m # EdgeA
  <2>1. live'[EdgeA] = live[EdgeA]
    BY <1>2, <1>6 DEF Put, TypeOK, Members
  <2> QED BY <1>4, <1>5, <1>6, <2>1, OthersKeep
<1>7. CASE Timely /\ m = EdgeA
  <2>0. Core \in Members /\ EdgeA \in Members /\ Core \in Others(EdgeA)
    BY Distinct DEF Members, Others
  <2>1. CoreRecord' = l[Core] /\ CoreRecord' \in LivenessRecords
    BY <1>2, <1>7, <2>0 DEF CoreRecord, Put, TypeOK
  <2>2. CoreRecord' = Note(CoreRecord, b[Core], moment[EdgeA])
    BY <1>3, <1>7, <2>1, Distinct DEF CoreRecord
  <2>3. /\ b[Core] \in Beats /\ CoreRecord \in LivenessRecords
        /\ moment[EdgeA] \in Nat /\ moment' = moment
    BY <1>7, <2>0 DEF ProbeResults, CoreRecord, TypeOK, Probe
  <2>4. Dated(CoreRecord, moment[EdgeA])
    BY <1>7 DEF RecordDated, Dated
  <2>5. /\ Dated(CoreRecord', moment[EdgeA])
        /\ CoreRecord'.health # "unreachable" /\ CoreRecord'.downSince # NoTime
               => CoreRecord'.downSince = moment[EdgeA]
    BY <1>7, <2>2, <2>3, <2>4, NoteDated DEF Timely
  <2>6. RecordDated'
    BY <2>3, <2>5 DEF RecordDated, Dated
  <2>7. VoteOut(EdgeA) => \A g \in OwnVotes : Aged(g.expires, CoreRecord')
    <3> SUFFICES ASSUME VoteOut(EdgeA), NEW g \in OwnVotes
                 PROVE  Aged(g.expires, CoreRecord')
      OBVIOUS
    <3>1. g.expires \in Nat /\ g.expires <= moment[EdgeA] + Lease
      BY <1>7, <2>0 DEF OwnVotes, OwnVoteAgeing, TypeOK, Grants
    <3>2. Aged(g.expires, CoreRecord)
      BY <1>7 DEF OwnVoteAgeing, Aged
    <3> QED BY <2>2, <2>3, <3>1, <3>2, NoteAged
  <2>8. OwnVoteAgeing' /\ NoServiceWhileVoting'
    BY <1>4, <1>7, <2>1, <2>6, <2>7, EdgeAKeeps
  <2> QED BY <1>5, <2>6, <2>8
<1> QED BY <1>6, <1>7, <1>8

(* Gathering the grants and the last observe() of a poll keep the invariant. *)
LEMMA FinishKeeps ==
    ASSUME TypeOK, TypeOK', ElectionInv, NEW m \in Members, Finish(m)
    PROVE  ElectionInv'
<1> USE DEF ElectionInv, BallotInv, AgeingInv
<1> DEFINE rc == Receive(m, moment[m])
<1>1. ObserveStep(m, live[m], rc) /\ pc[m] # "probing" /\ pc'[m] # "probing"
  <2>1. up[m] /\ pc[m] # "probing"
    BY DEF Finish, DownForgets
  <2>2. rc \subseteq received[m] \cup replies[m]
    BY DEF Receive
  <2>3. \A g \in rc : g.voter = m => g \in received[m]
    BY <2>2 DEF VotesGoUp
  <2>4. \A r \in requests' : r.voter # r.candidate
    BY DEF Finish, VotesGoUp
  <2>5. \A c \in Members : replies'[c] \subseteq replies[c]
    BY DEF Finish, Put, TypeOK
  <2>6. pc'[m] # "probing" /\ \A n \in Others(m) : pc'[n] = pc[n]
    BY DEF Finish, EndTick, Put, Others, TypeOK
  <2>7. /\ UNCHANGED <<now, up, issued, fence, moment>>
        /\ Observe(m, live[m], rc)
    BY DEF Finish
  <2> HIDE DEF rc
  <2> QED BY <2>1, <2>2, <2>3, <2>4, <2>5, <2>6, <2>7 DEF ObserveStep
<1> HIDE DEF rc
<1>2. /\ VotesGoUp' /\ DownForgets' /\ Horizons' /\ VotesBacked'
      /\ FenceRespected' /\ OneVoteOut' /\ ProofsSound' /\ GlassOrProof'
  BY <1>1, ObserveKeeps
<1>3. live' = live
  BY DEF Finish
<1>6. CASE ~Timely
  BY <1>2, <1>6
<1>4. CASE Timely /\ m # EdgeA
  BY <1>1, <1>2, <1>3, <1>4, OthersKeep
<1>5. CASE Timely /\ m = EdgeA
  <2>1. CoreRecord' = CoreRecord /\ CoreRecord' = live[EdgeA][Core]
    BY <1>3 DEF CoreRecord
  <2>2. CoreRecord' \in LivenessRecords
    BY DEF CoreRecord, TypeOK, Members
  <2>3. RecordDated'
    BY <1>1, <1>5, <2>1 DEF RecordDated, ObserveStep
  <2>4. VoteOut(EdgeA) => \A g \in OwnVotes : Aged(g.expires, CoreRecord')
    BY <1>5, <2>1 DEF OwnVoteAgeing, Aged
  <2>5. OwnVoteAgeing' /\ NoServiceWhileVoting'
    BY <1>1, <1>5, <2>1, <2>2, <2>3, <2>4, EdgeAKeeps
  <2> QED BY <1>2, <2>3, <2>5
<1> QED BY <1>4, <1>5, <1>6

(* Giving a vote.  The voter gave no other that is still current, and      *)
(* edge-a votes only while core is visible to it.                          *)
LEMMA VoteKeeps ==
    ASSUME TypeOK, TypeOK', ElectionInv, NEW v \in Members, Vote(v)
    PROVE  ElectionInv'
<1> USE DEF ElectionInv, BallotInv, AgeingInv
<1>0. EdgeA \in Members
  BY DEF Members
<1>1. PICK r \in requests :
          /\ r.voter = v /\ up[v]
          /\ requests' = requests \ {r}
          /\ \/ /\ GrantsVote(v, r)
                /\ \E g \in GrantsFor(v, r) :
                     /\ issued' = Put(issued, v,
                            {h \in issued[v] : h.term # g.term} \cup {g})
                     /\ \/ replies' = [replies EXCEPT ![r.candidate] = @ \cup {g}]
                        \/ UNCHANGED replies
             \/ UNCHANGED <<term, issued, replies>>
  BY DEF Vote
<1>2. UNCHANGED <<now, up, live, fence, pc, moment, role, proof, received,
                  leaseFile, seen>>
  BY DEF Vote, sampleVars
<1>3. CASE UNCHANGED <<term, issued, replies>>
  <2>1. QuietStep
    BY <1>1, <1>2, <1>3 DEF QuietStep, TypeOK, Horizons
  <2> QED BY <2>1, QuietKeeps
<1>4. CASE /\ GrantsVote(v, r)
           /\ \E g \in GrantsFor(v, r) :
                /\ issued' = Put(issued, v,
                       {h \in issued[v] : h.term # g.term} \cup {g})
                /\ \/ replies' = [replies EXCEPT ![r.candidate] = @ \cup {g}]
                   \/ UNCHANGED replies
  <2> DEFINE c == r.candidate
  <2>1. PICK g \in GrantsFor(v, r) :
          /\ issued' = Put(issued, v,
                 {h \in issued[v] : h.term # g.term} \cup {g})
          /\ \/ replies' = [replies EXCEPT ![c] = @ \cup {g}]
             \/ UNCHANGED replies
    BY <1>4
  <2>2. c \in Members /\ c # v /\ c \in Higher(v)
    BY <1>1, <1>4 DEF VotesGoUp, GrantsVote, EligibleLeader, TypeOK
  <2> HIDE DEF c
  <2>3. /\ g.voter = v /\ g.candidate = c /\ g.expires \in Nat
        /\ g.expires <= now + Lease
        /\ \A h \in issued[v] : h.term = g.term /\ h.candidate = c =>
               h.expires <= g.expires
    <3>0. \A h \in issued[v] : /\ h.expires \in Nat /\ h.expires <= now + Lease
                               /\ h.voter = v
      BY DEF TypeOK, Grants, Horizons, VotesGoUp
    <3>1. CASE g \in issued[v] /\ Current(g, now)
      BY <1>4, <3>0, <3>1 DEF GrantsVote, VotesGoUp, c
    <3>2. CASE g = [term |-> r.term, candidate |-> r.candidate, voter |-> v,
                    expires |-> now + Lease]
      BY <3>0, <3>2, LeaseType DEF TypeOK, c
    <3> QED BY <3>1, <3>2 DEF GrantsFor
  <2>4. /\ issued'[v] = {h \in issued[v] : h.term # g.term} \cup {g}
        /\ \A n \in Members : n # v => issued'[n] = issued[n]
    BY <2>1 DEF Put, TypeOK
  <2>5. \A n \in Members : \A h \in Held(n)' :
            h \in Held(n) \/ (n = c /\ h = g)
    BY <1>2, <2>1, <2>2 DEF Held, TypeOK
  <2>6. \A n \in Members : \A h \in Held(n)' : h \in Held(n) \/ h.voter # n
    BY <2>2, <2>3, <2>5
  <2>7. \A h \in issued[v] : Current(h, now) => h.candidate = c
    BY <1>4 DEF GrantsVote, c
  <2>8. ASSUME NEW d \in Members, NEW h \in Held(d), d # v, h.voter = v,
               Current(h, now)
        PROVE  d = c
    <3>1. h.expires \in Nat /\ now \in Nat /\ fence[v] \in Nat
          /\ fence[v] <= now
      BY <1>4, HeldType DEF Grants, TypeOK, GrantsVote, Unfenced
    <3>2. ~(fence[v] >= h.expires)
      BY <2>8, <3>1 DEF Current
    <3>3. PICK e \in issued[v] : e.candidate = d /\ e.expires >= h.expires
      BY <1>1, <2>8, <3>2 DEF VotesBacked
    <3>4. Current(e, now)
      BY <2>8, <3>1, <3>3 DEF Current, TypeOK, Grants
    <3> QED BY <2>7, <3>3, <3>4
  <2>9. VotesGoUp'
    <3>1. ASSUME NEW n \in Members
          PROVE  /\ \A h \in issued'[n] : h.voter = n /\ h.candidate \in Higher(n)
                 /\ \A h, e \in issued'[n] : h.term = e.term => h = e
                 /\ \A h \in replies'[n] : h.voter # n
      <4>1. /\ \A h \in issued'[n] : h.voter = n /\ h.candidate \in Higher(n)
            /\ \A h, e \in issued'[n] : h.term = e.term => h = e
        <5>1. CASE n = v
          BY <2>2, <2>3, <2>4, <5>1 DEF VotesGoUp
        <5>2. CASE n # v
          BY <2>4, <5>2 DEF VotesGoUp
        <5> QED BY <5>1, <5>2
      <4>3. \A h \in replies'[n] : h \in replies[n] \/ (n = c /\ h = g)
        BY <2>1, <2>2 DEF TypeOK
      <4>4. \A h \in replies'[n] : h.voter # n
        BY <2>2, <2>3, <4>3 DEF VotesGoUp
      <4> QED BY <4>1, <4>4
    <3>2. ASSUME NEW n \in Members, NEW h \in Held(n)'
          PROVE  h.candidate = n /\ (h.voter = n \/ n \in Higher(h.voter))
      BY <2>2, <2>3, <2>5 DEF VotesGoUp
    <3> QED BY <1>1, <3>1, <3>2 DEF VotesGoUp, Higher, Rank
  <2>10. DownForgets'
    BY <1>1, <1>2, <2>4 DEF DownForgets
  <2>11. Horizons'
    BY <1>2, <2>3, <2>4, <2>5 DEF Horizons
  <2>12. VotesBacked'
    <3> SUFFICES ASSUME NEW d \in Members, NEW h \in Held(d)',
                        h.voter # d, Current(h, now), up[h.voter]
                 PROVE  \/ fence[h.voter] >= h.expires
                        \/ \E e \in issued'[h.voter] :
                               e.candidate = d /\ e.expires >= h.expires
      BY <1>2 DEF VotesBacked, Current
    <3>0. h \in Grants
      BY HeldType DEF TypeOK, Held
    <3>1. CASE h.voter # v
      BY <2>3, <2>4, <2>5, <3>0, <3>1 DEF VotesBacked, Grants
    <3>2. CASE h.voter = v /\ h = g /\ d = c
      BY <2>3, <2>4, <3>2
    <3>3. CASE h.voter = v /\ h \in Held(d)
      <4>1. d = c
        BY <2>8, <3>3
      <4>2. \/ fence[v] >= h.expires
            \/ \E e \in issued[v] : e.candidate = d /\ e.expires >= h.expires
        BY <3>3 DEF VotesBacked
      <4>3. CASE \E e \in issued[v] : e.candidate = d /\ e.expires >= h.expires
        <5>1. PICK e \in issued[v] : e.candidate = d /\ e.expires >= h.expires
          BY <4>3
        <5>2. e.expires \in Nat /\ h.expires \in Nat
          BY <3>0 DEF TypeOK, Grants
        <5>3. CASE e.term # g.term
          BY <2>4, <3>3, <5>1, <5>3
        <5>4. CASE e.term = g.term
          BY <2>3, <2>4, <3>3, <4>1, <5>1, <5>2, <5>4
        <5> QED BY <5>3, <5>4
      <4> QED BY <3>3, <4>2, <4>3
    <3> QED BY <2>5, <3>1, <3>2, <3>3
  <2>13. FenceRespected'
    BY <1>2, <1>4, <2>4 DEF FenceRespected, GrantsVote, Unfenced, TypeOK
  <2>14. OneVoteOut'
    <3> SUFFICES ASSUME NEW a \in Members, NEW d \in Members,
                        NEW e \in Held(a)', NEW h \in Held(d)',
                        e.voter = h.voter, e.voter \notin {a, d},
                        Current(e, now), Current(h, now)
                 PROVE  a = d
      BY <1>2 DEF OneVoteOut, Current
    <3>1. CASE e.voter = v
      <4>1. a = c
        BY <2>5, <2>8, <3>1
      <4>2. d = c
        BY <2>5, <2>8, <3>1
      <4> QED BY <4>1, <4>2
    <3>2. CASE e.voter # v
      BY <2>3, <2>5, <3>2 DEF OneVoteOut
    <3> QED BY <3>1, <3>2
  <2>15. ProofsSound' /\ GlassOrProof' /\ (Timely => RecordDated')
    <3>1. CoreRecord' = CoreRecord
      BY <1>2 DEF CoreRecord
    <3> QED BY <1>2, <3>1 DEF ProofsSound, GlassOrProof, RecordDated, TwoVoters
  <2>16. ASSUME VoteOut(EdgeA)', ~VoteOut(EdgeA)
         PROVE  /\ v = EdgeA /\ CoreRecord.health # "unreachable"
                /\ role[EdgeA] # "elected"
    <3>1. v = EdgeA
      <4>1. PICK n \in Others(EdgeA) : \E h \in Held(n)' :
                h.voter = EdgeA /\ Current(h, now)
        BY <1>2, <2>16 DEF VoteOut, Current
      <4>2. PICK h \in Held(n)' : h.voter = EdgeA /\ Current(h, now)
        BY <4>1
      <4>3. n \in Members /\ h \notin Held(n)
        BY <2>16, <4>2 DEF VoteOut, Others
      <4> QED BY <2>3, <2>5, <4>2, <4>3
    <3>2. c = Core
      BY <2>2, <3>1, Distinct DEF Higher, Rank, Members
    <3>3. Seen(live[EdgeA], Core)
      BY <1>4, <3>1, <3>2, Distinct
         DEF GrantsVote, EligibleLeader, HigherStatus, c
    <3> QED BY <1>4, <3>1, <3>3 DEF Seen, CoreRecord, GrantsVote
  <2>17. CoreRecord' = CoreRecord /\ OwnVotes' = OwnVotes
    BY <1>2 DEF CoreRecord, OwnVotes
  <2>18. ASSUME Timely PROVE OwnVoteAgeing'
    BY <1>2, <2>16, <2>17, <2>18 DEF OwnVoteAgeing
  <2>19. ASSUME Timely PROVE NoServiceWhileVoting'
    <3>1. CASE VoteOut(EdgeA)
      BY <1>2, <2>17, <2>19, <3>1 DEF NoServiceWhileVoting
    <3>2. CASE VoteOut(EdgeA)' /\ ~VoteOut(EdgeA)
      <4>1. v = EdgeA /\ role[EdgeA] # "elected"
        BY <2>16, <3>2
      <4>2. leaseFile[EdgeA].grants = {}
        BY <1>0, <1>1, <4>1, Distinct DEF ProofsSound
      <4> QED BY <1>2, <4>1, <4>2 DEF NoServiceWhileVoting
    <3> QED BY <3>1, <3>2 DEF NoServiceWhileVoting
  <2> QED BY <2>9, <2>10, <2>11, <2>12, <2>13, <2>14, <2>15, <2>18, <2>19
<1> QED BY <1>1, <1>3, <1>4

(* Steps in which members may forget grants, a proof, a role, or (Crash)   *)
(* everything; nobody votes, nobody takes office and no lease is written   *)
(* other than the empty one.                                               *)
GrantsForgotten(m) ==
    /\ replies'[m] \subseteq replies[m]
    /\ received'[m] \subseteq received[m]
    /\ proof'[m] = proof[m] \/ proof'[m] = {}
    /\ \/ leaseFile'[m].grants = leaseFile[m].grants
       \/ leaseFile'[m].grants = {}

OfficeForgotten(m) ==
    /\ proof'[m] # {} => role'[m] = "elected"
    /\ role'[m] = "elected" =>
           role[m] = "elected" /\ proof'[m] = proof[m] /\ seen'[m] = seen[m]
    /\ up'[m] /\ m # Core => leaseFile'[m].grants = proof'[m]
    /\ moment'[m] \in Nat /\ moment[m] <= moment'[m] /\ moment'[m] <= now

VotesForgotten(m) ==
    /\ issued'[m] = issued[m] \/ issued'[m] = {}
    /\ ~up'[m] => pc'[m] = "boot" /\ role'[m] = "standby" /\ issued'[m] = {}
    /\ \/ fence'[m] = fence[m] /\ (role'[m] # "standby" => role[m] # "standby")
       \/ role'[m] = "standby" /\ issued'[m] = {}
    /\ \/ ~up'[m]
       \/ up[m] /\ issued'[m] = issued[m] /\ fence'[m] = fence[m]
       \/ m = Core \/ fence'[m] = now + Lease

RecordForgotten ==
    \/ /\ live'[EdgeA] = live[EdgeA] /\ moment'[EdgeA] = moment[EdgeA]
       /\ \/ pc'[EdgeA] = pc[EdgeA]
          \/ pc'[EdgeA] # "probing" /\ pc[EdgeA] # "probing"
    \/ /\ live'[EdgeA] = [p \in Members |-> Unprobed]
       /\ received'[EdgeA] = {}

ForgetStep ==
    /\ \A m \in Members :
           GrantsForgotten(m) /\ OfficeForgotten(m) /\ VotesForgotten(m)
    /\ RecordForgotten
    /\ \A r \in requests' : r.voter # r.candidate
    /\ UNCHANGED now

(* A step that only forgets grants, office or records keeps the invariant. *)
LEMMA ForgetKeeps ==
    ASSUME TypeOK, TypeOK', ElectionInv, ForgetStep
    PROVE  ElectionInv'
<1> USE DEF ElectionInv, BallotInv, AgeingInv, GrantsForgotten, OfficeForgotten, VotesForgotten
<1>0. EdgeA \in Members /\ Core \in Members
  BY DEF Members
<1>1. \A c \in Members : \A g \in Held(c)' : g \in Held(c)
  BY DEF ForgetStep, Held
<1>2. NoNewVote
  BY <1>1 DEF NoNewVote, ForgetStep, TypeOK
<1>3. OneVoteOut' /\ \A m \in Members : VoteOut(m)' => VoteOut(m)
  BY <1>2, OneVoteOutKept
<1>4. VotesGoUp'
  <2>1. ASSUME NEW n \in Members
        PROVE  /\ \A g \in issued'[n] : g.voter = n /\ g.candidate \in Higher(n)
               /\ \A g, h \in issued'[n] : g.term = h.term => g = h
               /\ \A g \in replies'[n] : g.voter # n
               /\ \A g \in Held(n)' :
                      g.candidate = n /\ (g.voter = n \/ n \in Higher(g.voter))
    BY <1>1 DEF VotesGoUp, ForgetStep
  <2>2. \A r \in requests' : r.voter # r.candidate
    BY DEF ForgetStep
  <2> QED BY <2>1, <2>2 DEF VotesGoUp, Higher, Rank
<1>5. DownForgets'
  BY DEF DownForgets, ForgetStep
<1>6. Horizons'
  BY <1>1 DEF Horizons, ForgetStep
<1>7. VotesBacked'
  <2> SUFFICES ASSUME NEW c \in Members, NEW g \in Held(c),
                      g.voter # c, Current(g, now), up'[g.voter]
               PROVE  \/ fence'[g.voter] >= g.expires
                      \/ \E h \in issued'[g.voter] :
                             h.candidate = c /\ h.expires >= g.expires
    BY <1>1 DEF VotesBacked, ForgetStep, Current
  <2>1. g \in Grants /\ g.voter \in Members
    BY HeldType DEF Grants
  <2>2. g.voter # Core
    BY <2>1 DEF VotesGoUp, Higher, Rank
  <2>3. CASE up[g.voter] /\ issued'[g.voter] = issued[g.voter]
             /\ fence'[g.voter] = fence[g.voter]
    BY <2>1, <2>3 DEF VotesBacked
  <2>4. CASE fence'[g.voter] = now + Lease
    <3>1. g.expires <= now + Lease /\ now + Lease \in Nat /\ g.expires \in Nat
      BY <2>1, LeaseType DEF Horizons, TypeOK, Grants
    <3> QED BY <2>4, <3>1
  <2> QED BY <2>1, <2>2, <2>3, <2>4 DEF ForgetStep
<1>8. FenceRespected'
  BY DEF FenceRespected, ForgetStep
<1>9. ProofsSound'
  <2> SUFFICES ASSUME NEW n \in Members
               PROVE  /\ TwoVoters(n, proof'[n])
                      /\ TwoVoters(n, leaseFile'[n].grants)
                      /\ proof'[n] # {} => role'[n] = "elected"
                      /\ up'[n] /\ n # Core => leaseFile'[n].grants = proof'[n]
                      /\ n = Core => leaseFile'[n].grants = {}
    BY DEF ProofsSound, TwoVoters
  <2> QED BY DEF ForgetStep, ProofsSound, TwoVoters
<1>10. GlassOrProof'
  BY DEF GlassOrProof, ForgetStep
<1>11. VoteOut(EdgeA)' => VoteOut(EdgeA)
  BY <1>0, <1>3
<1>12. /\ \A g \in OwnVotes' : g \in OwnVotes /\ g.expires \in Nat
       /\ moment[EdgeA] \in Nat /\ moment'[EdgeA] \in Nat
       /\ moment[EdgeA] <= moment'[EdgeA]
  BY <1>0 DEF OwnVotes, ForgetStep, TypeOK, Grants
<1>17. CASE ~Timely
  BY <1>3, <1>4, <1>5, <1>6, <1>7, <1>8, <1>9, <1>10, <1>17
<1>13. Timely => \A g \in OwnVotes' : g.expires <= moment'[EdgeA] + Lease
  BY <1>12, LeaseType DEF OwnVoteAgeing
<1>14. Timely => NoServiceWhileVoting'
  BY <1>0, <1>11, <1>12 DEF NoServiceWhileVoting, ForgetStep
<1>15. CASE /\ Timely /\ live'[EdgeA] = live[EdgeA] /\ moment'[EdgeA] = moment[EdgeA]
            /\ \/ pc'[EdgeA] = pc[EdgeA]
               \/ pc'[EdgeA] # "probing" /\ pc[EdgeA] # "probing"
  <2>1. CoreRecord' = CoreRecord
    BY <1>15 DEF CoreRecord
  <2>2. RecordDated'
    BY <1>15, <2>1 DEF RecordDated
  <2>3. OwnVoteAgeing'
    BY <1>11, <1>12, <1>13, <1>15, <2>1 DEF OwnVoteAgeing
  <2> QED BY <1>3, <1>4, <1>5, <1>6, <1>7, <1>8, <1>9, <1>10, <1>14, <2>2, <2>3
<1>16. CASE /\ Timely /\ live'[EdgeA] = [p \in Members |-> Unprobed]
            /\ received'[EdgeA] = {}
  <2>1. CoreRecord' = Unprobed
    BY <1>0, <1>16 DEF CoreRecord
  <2>2. RecordDated'
    BY <1>12, <2>1 DEF RecordDated, Unprobed, NoTime
  <2>3. OwnVoteAgeing'
    BY <1>16 DEF OwnVoteAgeing, OwnVotes
  <2> QED BY <1>3, <1>4, <1>5, <1>6, <1>7, <1>8, <1>9, <1>10, <1>14, <2>2, <2>3
<1> QED BY <1>15, <1>16, <1>17 DEF ForgetStep, RecordForgotten

(* The second round of requests in the next term keeps the invariant. *)
LEMMA RetryKeeps ==
    ASSUME TypeOK, TypeOK', ElectionInv, NEW m \in Members, Retry(m)
    PROVE  ElectionInv'
<1> USE DEF ElectionInv, BallotInv, Put
<1>1. /\ \A c \in Members : /\ replies'[c] \subseteq replies[c]
                            /\ received'[c] \subseteq received[c]
      /\ \A r \in requests' : r.voter # r.candidate
      /\ \A n \in Members : ~up[n] => pc'[n] = "boot"
      /\ \/ pc'[EdgeA] = pc[EdgeA]
         \/ pc'[EdgeA] # "probing" /\ pc[EdgeA] # "probing"
  BY DEF Retry, AskVotes, VotesGoUp, DownForgets, TypeOK, Others, Members
<1>2. UNCHANGED <<now, up, live, issued, fence, moment, role, proof, leaseFile,
                  seen>>
  BY DEF Retry, sampleVars
<1>3. ASSUME NEW n \in Members
      PROVE  GrantsForgotten(n) /\ OfficeForgotten(n) /\ VotesForgotten(n)
  BY <1>1, <1>2 DEF GrantsForgotten, OfficeForgotten, VotesForgotten, ProofsSound,
                    DownForgets, Horizons, TypeOK
<1>4. ForgetStep
  BY <1>1, <1>2, <1>3 DEF ForgetStep, RecordForgotten
<1> QED BY <1>4, ForgetKeeps

(* A hand-back only takes office away. *)
LEMMA HandbackKeeps ==
    ASSUME TypeOK, TypeOK', ElectionInv, NEW h \in Members, Handback(h)
    PROVE  ElectionInv'
<1> USE DEF ElectionInv, BallotInv, AgeingInv
<1>1. /\ up[h] /\ Emit(h)
      /\ \/ DrainAndFinish(h, busy[h], now) /\ role[h] \in {"elected", "draining"}
         \/ role[h] \notin {"elected", "draining"} /\ UNCHANGED <<role, proof>>
      /\ UNCHANGED <<now, up, issued, fence, live, pc, moment, requests, replies,
                     received, seen>>
  BY DEF Handback, pollVars, sampleVars
<1>2. /\ \A n \in Others(h) : role'[n] = role[n] /\ proof'[n] = proof[n]
      /\ proof'[h] = {} /\ role'[h] # "elected"
      /\ role'[h] # "standby" => role[h] # "standby"
  BY <1>1 DEF DrainAndFinish, Put, Others, TypeOK, ProofsSound
<1>3. /\ \A n \in Others(h) : leaseFile'[n] = leaseFile[n]
      /\ h = Core => leaseFile'[h].grants = {}
      /\ h # Core => leaseFile'[h].grants = proof'[h]
  BY <1>1, <1>2, EmitGrants DEF ProofsSound, TypeOK
<1>4. ASSUME NEW n \in Members
      PROVE  GrantsForgotten(n) /\ OfficeForgotten(n) /\ VotesForgotten(n)
  <2>1. moment[n] \in Nat /\ moment[n] <= now
    BY DEF TypeOK, Horizons
  <2>2. CASE n = h
    <3>1. GrantsForgotten(h)
      BY <1>1, <1>2, <1>3 DEF GrantsForgotten
    <3>2. OfficeForgotten(h)
      BY <1>1, <1>2, <1>3, <2>1, <2>2 DEF OfficeForgotten
    <3>3. VotesForgotten(h)
      BY <1>1, <1>2 DEF VotesForgotten
    <3> QED BY <2>2, <3>1, <3>2, <3>3
  <2>3. CASE n # h
    <3>1. n \in Others(h)
      BY <2>3 DEF Others
    <3> QED BY <1>1, <1>2, <1>3, <2>1, <3>1
            DEF GrantsForgotten, OfficeForgotten, VotesForgotten, ProofsSound,
                DownForgets
  <2> QED BY <2>2, <2>3
<1>5. ForgetStep
  BY <1>1, <1>4 DEF ForgetStep, RecordForgotten, VotesGoUp
<1> QED BY <1>5, ForgetKeeps

(* A process that dies takes its memory along, and the invariant holds. *)
LEMMA CrashKeeps ==
    ASSUME TypeOK, TypeOK', ElectionInv, NEW m \in Members, Crash(m)
    PROVE  ElectionInv'
<1> USE DEF ElectionInv, BallotInv, AgeingInv
<1>1. ForgetStep
  <2>1. /\ \A c \in Others(m) : /\ replies'[c] = replies[c]
              /\ received'[c] = received[c] /\ proof'[c] = proof[c]
              /\ role'[c] = role[c] /\ seen'[c] = seen[c] /\ up'[c] = up[c]
              /\ pc'[c] = pc[c] /\ issued'[c] = issued[c]
              /\ live'[c] = live[c] /\ moment'[c] = moment[c]
        /\ replies'[m] = {} /\ received'[m] = {} /\ proof'[m] = {}
        /\ role'[m] = "standby" /\ up'[m] = FALSE /\ pc'[m] = "boot"
        /\ issued'[m] = {} /\ moment'[m] = now
        /\ live'[m] = [p \in Members |-> Unprobed]
    BY DEF Crash, Put, TypeOK, Others
  <2>2. /\ UNCHANGED <<now, fence, leaseFile>> /\ requests' \subseteq requests
    BY DEF Crash
  <2>3. \A n \in Members : moment[n] \in Nat /\ moment[n] <= now /\ now \in Nat
    BY DEF TypeOK, Horizons
  <2>4. EdgeA \in Members
    BY DEF Members
  <2>5. ASSUME NEW n \in Members
        PROVE  GrantsForgotten(n) /\ OfficeForgotten(n) /\ VotesForgotten(n)
    <3>1. CASE n = m
      BY <2>1, <2>2, <2>3, <2>4, <3>1
         DEF GrantsForgotten, OfficeForgotten, VotesForgotten
    <3>2. CASE n # m
      <4>1. n \in Others(m)
        BY <3>2 DEF Others
      <4> QED BY <2>1, <2>2, <2>3, <4>1
              DEF GrantsForgotten, OfficeForgotten, VotesForgotten, ProofsSound,
                  DownForgets
    <3> QED BY <3>1, <3>2
  <2>6. RecordForgotten
    BY <2>1, <2>2, <2>4 DEF RecordForgotten, Others
  <2> QED BY <2>2, <2>5, <2>6 DEF ForgetStep, VotesGoUp
<1> QED BY <1>1, ForgetKeeps

(* A restarted Studio is fenced until every vote its predecessor gave has  *)
(* expired; core gives no votes.                                           *)
LEMMA RestartKeeps ==
    ASSUME TypeOK, TypeOK', ElectionInv, NEW m \in Members, Restart(m)
    PROVE  ElectionInv'
<1> USE DEF ElectionInv, BallotInv, AgeingInv
<1>1. ForgetStep
  <2>1. /\ \A c \in Others(m) : /\ up'[c] = up[c] /\ fence'[c] = fence[c]
                                /\ leaseFile'[c] = leaseFile[c]
        /\ ~up[m] /\ up'[m] /\ leaseFile'[m].grants = {}
        /\ m # Core => fence'[m] = now + Lease
    BY DEF Restart, Put, TypeOK, Others, NoLease
  <2>2. UNCHANGED <<now, issued, live, pc, moment, requests, replies, role, proof,
                    received, seen>>
    BY DEF Restart, pollVars, sampleVars
  <2>3. \A n \in Members : moment[n] \in Nat /\ moment[n] <= now /\ now \in Nat
    BY DEF TypeOK, Horizons
  <2>4. role[m] = "standby" /\ issued[m] = {} /\ proof[m] = {}
    BY <2>1 DEF DownForgets, ProofsSound
  <2>5. ASSUME NEW n \in Members
        PROVE  GrantsForgotten(n) /\ OfficeForgotten(n) /\ VotesForgotten(n)
    <3>1. CASE n = m
      <4>1. GrantsForgotten(m)
        BY <2>1, <2>2 DEF GrantsForgotten
      <4>2. OfficeForgotten(m)
        BY <2>1, <2>2, <2>3, <2>4 DEF OfficeForgotten
      <4>3. VotesForgotten(m)
        BY <2>1, <2>2, <2>4 DEF VotesForgotten
      <4> QED BY <3>1, <4>1, <4>2, <4>3
    <3>2. CASE n # m
      <4>1. n \in Others(m)
        BY <3>2 DEF Others
      <4> QED BY <2>1, <2>2, <2>3, <4>1
              DEF GrantsForgotten, OfficeForgotten, VotesForgotten, ProofsSound,
                  DownForgets
    <3> QED BY <3>1, <3>2
  <2>6. RecordForgotten
    BY <2>1, <2>2, <2>4 DEF RecordForgotten, Others
  <2> QED BY <2>2, <2>5, <2>6 DEF ForgetStep, VotesGoUp
<1> QED BY <1>1, ForgetKeeps

-----------------------------------------------------------------------------
(* The theorems *)

(* Every step keeps the invariant. *)
LEMMA InvStep ==
    ASSUME TypeOK, TypeOK', ElectionInv, [Next]_vars
    PROVE  ElectionInv'
<1> USE DEF pollVars, roleVars, sampleVars, coreVars, boundVars
<1>1. ASSUME NEW m \in Members, TickStart(m) PROVE ElectionInv'
  <2>1. QuietStep
    BY <1>1 DEF TickStart, QuietStep, TypeOK, Put, ElectionInv, BallotInv, Horizons,
                DownForgets
  <2> QED BY <2>1, QuietKeeps
<1>2. ASSUME HandbackDone PROVE ElectionInv'
  <2>1. QuietStep
    BY <1>2, Distinct DEF HandbackDone, QuietStep, TypeOK, Put, ElectionInv,
                BallotInv, Horizons, DownForgets, Members
  <2> QED BY <2>1, QuietKeeps
<1>3. ASSUME NEW m \in Members, NEW k \in OverrideKinds, DeliverOverride(m, k)
      PROVE  ElectionInv'
  <2>1. QuietStep
    BY <1>3 DEF DeliverOverride, QuietStep, TypeOK, ElectionInv, BallotInv, Horizons
  <2> QED BY <2>1, QuietKeeps
<1>4. ASSUME NetworkChange \/ UNCHANGED vars PROVE ElectionInv'
  <2>1. QuietStep
    BY <1>4 DEF NetworkChange, vars, QuietStep, TypeOK, ElectionInv, BallotInv, Horizons
  <2> QED BY <2>1, QuietKeeps
<1>5. ASSUME Elapse PROVE ElectionInv'
  <2>1. QuietStep
    BY <1>5 DEF Elapse, QuietStep, TypeOK, ElectionInv, BallotInv, Horizons
  <2> QED BY <2>1, QuietKeeps
<1> QED BY <1>1, <1>2, <1>3, <1>4, <1>5, ProbeKeeps, FinishKeeps, VoteKeeps,
           RetryKeeps, HandbackKeeps, CrashKeeps, RestartKeeps
        DEF Next, Horizon

(* The freshly started members satisfy the invariant. *)
LEMMA InvInit == Init => ElectionInv
<1> SUFFICES ASSUME Init PROVE ElectionInv
  OBVIOUS
<1>0. EdgeA \in Members /\ Core \in Members
  BY DEF Members
<1>1. \A m \in Members : Held(m) = {} /\ issued[m] = {} /\ replies[m] = {}
  BY DEF Init, Held, NoLease
<1>2. \A m \in Members : /\ proof[m] = {} /\ leaseFile[m].grants = {}
                         /\ role[m] = "standby" /\ up[m] /\ moment[m] = 0
  BY DEF Init, NoLease
<1>3. now = 0 /\ requests = {}
  BY DEF Init
<1>4. CoreRecord = Unprobed /\ OwnVotes = {}
  BY <1>0 DEF Init, CoreRecord, OwnVotes
<1>5. ~VoteOut(EdgeA)
  BY <1>1 DEF VoteOut, Others
<1>6. VotesGoUp /\ DownForgets /\ VotesBacked /\ FenceRespected /\ OneVoteOut
  BY <1>1, <1>2, <1>3 DEF VotesGoUp, DownForgets, VotesBacked, FenceRespected,
      OneVoteOut
<1>8. Horizons
  BY <1>1, <1>2, <1>3 DEF Horizons
<1>9. ProofsSound /\ GlassOrProof
  BY <1>2 DEF ProofsSound, GlassOrProof, TwoVoters
<1>7. RecordDated
  BY <1>0, <1>2, <1>4 DEF RecordDated, Unprobed, NoTime
<1> QED BY <1>4, <1>5, <1>6, <1>7, <1>8, <1>9
        DEF ElectionInv, BallotInv, AgeingInv, OwnVoteAgeing,
            NoServiceWhileVoting

(* A quorum host has a current vote of its own and a current one of a     *)
(* member of lower priority in its hands.                                  *)
LEMMA HostHasVotes ==
    ASSUME TypeOK, BallotInv, NEW m \in Members, QuorumServes(m)
    PROVE  LET authority == IF m = Core THEN proof[m] ELSE leaseFile[m].grants
           IN  /\ authority \subseteq Held(m)
               /\ \E g \in authority : g.voter = m /\ Current(g, now)
               /\ \E g \in authority :
                      /\ g.voter \in Members /\ g.voter # m
                      /\ m \in Higher(g.voter) /\ Current(g, now)
<1> USE DEF BallotInv
<1> DEFINE authority == IF m = Core THEN proof[m] ELSE leaseFile[m].grants
<1>1. /\ authority # {} /\ TwoVoters(m, authority) /\ authority \subseteq Held(m)
      /\ \A g \in authority : Current(g, now)
  BY DEF QuorumServes, ProofsSound, Held
<1> HIDE DEF authority
<1>2. PICK own \in authority, other \in authority :
          own.voter = m /\ other.voter # m
  BY <1>1 DEF TwoVoters
<1>3. other \in Held(m) /\ other \in Grants
  BY <1>1, HeldType
<1>4. other.voter \in Members /\ m \in Higher(other.voter)
  BY <1>2, <1>3 DEF VotesGoUp, Grants
<1>5. \E g \in authority : g.voter = m /\ Current(g, now)
  BY <1>1, <1>2
<1>6. \E g \in authority : /\ g.voter \in Members /\ g.voter # m
                            /\ m \in Higher(g.voter) /\ Current(g, now)
  BY <1>1, <1>2, <1>4
<1> QED BY <1>1, <1>5, <1>6 DEF authority

(* The votes alone leave one way to clash: edge-b has no proof, and its    *)
(* vote is current in one hand only.                                       *)
LEMMA BallotsSuffice ==
    ASSUME TypeOK, BallotInv
    PROVE  ClashNeedsOwnVote
<1> USE DEF BallotInv
<1>1. ~QuorumServes(EdgeB)
  BY HostHasVotes, Distinct DEF Higher, Rank, Members
<1>2. ASSUME QuorumServes(Core), QuorumServes(EdgeA)
      PROVE  /\ \E g \in proof[Core] : g.voter = EdgeA /\ Current(g, now)
             /\ \E g \in leaseFile[EdgeA].grants :
                    g.voter = EdgeA /\ Current(g, now)
  <2>0. Core \in Members /\ EdgeA \in Members
    BY DEF Members
  <2>1. PICK g \in proof[Core] : /\ g \in Held(Core) /\ g.voter \in Members
                                 /\ g.voter # Core /\ Current(g, now)
    BY <1>2, <2>0, HostHasVotes
  <2>2. /\ \E h \in Held(EdgeA) : h.voter = EdgeB /\ Current(h, now)
        /\ \E h \in leaseFile[EdgeA].grants : h.voter = EdgeA /\ Current(h, now)
    BY <1>2, <2>0, HostHasVotes, Distinct DEF Members, Higher, Rank
  <2>3. g.voter # EdgeB
    BY <2>1, <2>2, Distinct DEF OneVoteOut, Members
  <2> QED BY <2>1, <2>2, <2>3 DEF Members
<1> QED BY <1>1, <1>2 DEF ClashNeedsOwnVote, Members

(* With timely thresholds that way is closed too: edge-a has no proof      *)
(* while its vote for core is current.                                     *)
LEMMA InvSuffices ==
    ASSUME Timely, TypeOK, ElectionInv
    PROVE  AtMostOneQuorumHost
<1>1. ClashNeedsOwnVote
  BY BallotsSuffice DEF ElectionInv
<1>2. SUFFICES ASSUME NEW m \in Members, NEW n \in Members, m # n,
                      QuorumServes(m), QuorumServes(n)
               PROVE  FALSE
  BY DEF AtMostOneQuorumHost
<1>3. PICK g \in proof[Core] : g.voter = EdgeA /\ Current(g, now)
  BY <1>1, <1>2 DEF ClashNeedsOwnVote
<1>4. VoteOut(EdgeA)
  BY <1>3, Distinct DEF VoteOut, Others, Members, Held
<1>5. leaseFile[EdgeA].grants # {}
  BY <1>1, <1>2 DEF ClashNeedsOwnVote
<1> QED BY <1>4, <1>5 DEF ElectionInv, AgeingInv, NoServiceWhileVoting

(* The invariant behind the single quorum host holds in every reachable    *)
(* state: for all thresholds what it says of the votes, and for timely     *)
(* ones what it says of their age.                                         *)
THEOREM Invariance == Spec => []ElectionInv
<1>1. Init => TypeOK /\ ElectionInv
  BY TypeInit, InvInit
<1>2. TypeOK /\ ElectionInv /\ [Next]_vars => (TypeOK /\ ElectionInv)'
  BY TypeStep, InvStep
<1> QED BY <1>1, <1>2, PTL DEF Spec

(* For every value of the thresholds, the shipped ones included, two hosts *)
(* serve on a quorum at once in one way only: core on edge-a's vote and    *)
(* edge-a on a vote of its own that is still current.                      *)
THEOREM ClashSafety == Spec => []ClashNeedsOwnVote
<1>1. TypeOK /\ ElectionInv => ClashNeedsOwnVote
  BY BallotsSuffice DEF ElectionInv
<1> QED BY <1>1, Invariance, Typing, PTL

(* With timely thresholds at most one host serves on a quorum.  With the   *)
(* shipped limit of three misses it is false.                              *)
THEOREM QuorumSafety == ASSUME Timely PROVE Spec => []AtMostOneQuorumHost
<1>1. TypeOK /\ ElectionInv => AtMostOneQuorumHost
  BY InvSuffices
<1> QED BY <1>1, Invariance, Typing, PTL

=============================================================================
