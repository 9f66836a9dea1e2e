------------------------ MODULE FailoverOfficeProofs ------------------------
(***************************************************************************)
(* What holds of the offices whatever the timing: edge-b is never elected  *)
(* by votes, and an inhibit takes the lease file away.  Neither needs the  *)
(* lease to be shorter than the promotion threshold, nor a bound on the    *)
(* number of misses that condemn a peer.                                   *)
(***************************************************************************)
EXTENDS FailoverSafetyProofs

-----------------------------------------------------------------------------
(* The inductive invariant *)

(* Nobody is asked for a vote of his own, and a vote only goes up. *)
VotesUp ==
    /\ \A r \in requests : r.voter # r.candidate
    /\ \A m \in Members :
        /\ \A g \in issued[m] : g.voter = m
        /\ \A g \in Held(m) : g.voter = m \/ m \in Higher(g.voter)
        /\ \A g \in replies[m] : g.voter # m

(* No poll is ahead of the clock, and a dead process has no office. *)
NoOfficeDown ==
    \A m \in Members :
        /\ moment[m] <= now
        /\ ~up[m] => /\ pc[m] = "boot" /\ role[m] = "standby"
                     /\ seen[m] = NoOverride

(* A running Studio shows a lease only while elected, and is on standby    *)
(* from the moment it sees an inhibit.                                     *)
FileFollowsOffice ==
    \A m \in Studios :
        /\ up[m] /\ role[m] # "elected" => leaseFile[m] = NoLease
        /\ seen[m].kind = "inhibit" => role[m] = "standby"

OfficeInv ==
    VotesUp /\ ProofsSound /\ GlassOrProof /\ NoOfficeDown /\ FileFollowsOffice

(* The freshly started members satisfy the invariant. *)
LEMMA OfficeInit == Init => OfficeInv
<1> SUFFICES ASSUME Init PROVE OfficeInv
  OBVIOUS
<1>1. \A m \in Members : Held(m) = {} /\ issued[m] = {} /\ replies[m] = {}
  BY DEF Init, Held, NoLease
<1>2. \A m \in Members :
          /\ proof[m] = {} /\ leaseFile[m] = NoLease /\ role[m] = "standby"
          /\ up[m] /\ moment[m] = 0 /\ seen[m] = NoOverride
  BY DEF Init
<1>3. now = 0 /\ requests = {}
  BY DEF Init
<1>4. VotesUp
  BY <1>1, <1>3 DEF VotesUp
<1>5. ProofsSound /\ GlassOrProof
  BY <1>2 DEF ProofsSound, GlassOrProof, TwoVoters, NoLease
<1>6. NoOfficeDown /\ FileFollowsOffice
  BY <1>2, <1>3 DEF NoOfficeDown, FileFollowsOffice, Studios, Members
<1> QED BY <1>4, <1>5, <1>6 DEF OfficeInv

-----------------------------------------------------------------------------
(* Steps in which nobody takes office *)

(* The member's office stands as it stood. *)
OfficeKept(m) ==
    /\ up'[m] = up[m] /\ role'[m] = role[m] /\ proof'[m] = proof[m]
    /\ seen'[m] = seen[m] /\ leaseFile'[m] = leaseFile[m]
    /\ ~up[m] => pc'[m] = pc[m]
    /\ moment'[m] <= now'

(* The member has no office after the step, and no lease if it runs. *)
OfficeLeft(m) ==
    /\ proof'[m] = {} /\ role'[m] # "elected"
    /\ leaseFile'[m] = leaseFile[m] \/ leaseFile'[m] = NoLease
    /\ up'[m] /\ m # Core => leaseFile'[m] = NoLease
    /\ seen'[m].kind = "inhibit" => role'[m] = "standby"
    /\ ~up'[m] => /\ pc'[m] = "boot" /\ role'[m] = "standby"
                  /\ seen'[m] = NoOverride
    /\ moment'[m] <= now'

(* No member gains a grant, and no request names its sender as the voter. *)
GrantsShrink ==
    /\ \A r \in requests' : r.voter # r.candidate
    /\ \A m \in Members : /\ issued'[m] \subseteq issued[m]
                          /\ replies'[m] \subseteq replies[m]
                          /\ received'[m] \subseteq received[m]

(* A step after which every member has the office it had, or none, keeps   *)
(* what is said of offices.                                                *)
LEMMA OfficeKeeps ==
    ASSUME OfficeInv, \A m \in Members : OfficeKept(m) \/ OfficeLeft(m)
    PROVE  ProofsSound' /\ GlassOrProof' /\ NoOfficeDown' /\ FileFollowsOffice'
<1> USE DEF OfficeInv
<1>1. ASSUME NEW m \in Members
      PROVE  /\ TwoVoters(m, proof'[m]) /\ TwoVoters(m, leaseFile'[m].grants)
             /\ proof'[m] # {} => role'[m] = "elected"
             /\ up'[m] /\ m # Core => leaseFile'[m].grants = proof'[m]
             /\ m = Core => leaseFile'[m].grants = {}
  <2>1. CASE OfficeKept(m)
    BY <2>1 DEF OfficeKept, ProofsSound
  <2>2. CASE OfficeLeft(m)
    BY <2>2 DEF OfficeLeft, ProofsSound, TwoVoters, NoLease
  <2> QED BY <2>1, <2>2
<1>2. ProofsSound'
  BY <1>1 DEF ProofsSound, TwoVoters
<1>3. GlassOrProof'
  BY DEF GlassOrProof, OfficeKept, OfficeLeft
<1>4. NoOfficeDown'
  BY DEF NoOfficeDown, OfficeKept, OfficeLeft
<1>5. FileFollowsOffice'
  BY Distinct DEF FileFollowsOffice, OfficeKept, OfficeLeft, Studios, Members
<1> QED BY <1>2, <1>3, <1>4, <1>5

(* If grants only disappear, votes still only go up. *)
LEMMA VotesShrink ==
    ASSUME OfficeInv, GrantsShrink,
           \A m \in Members : OfficeKept(m) \/ OfficeLeft(m)
    PROVE  VotesUp'
<1>1. ASSUME NEW m \in Members
      PROVE  /\ proof'[m] \subseteq proof[m]
             /\ leaseFile'[m].grants \subseteq leaseFile[m].grants
  BY DEF OfficeKept, OfficeLeft, NoLease
<1>2. \A m \in Members : \A g \in Held(m)' : g \in Held(m)
  BY <1>1 DEF Held, GrantsShrink
<1> QED BY <1>2 DEF VotesUp, GrantsShrink, OfficeInv, Higher, Rank

(* The clock, the network, the operator and the start of a poll. *)
LEMMA QuietOffice ==
    ASSUME TypeOK, OfficeInv,
           UNCHANGED <<up, issued, role, proof, received, replies, leaseFile, seen>>,
           requests' \subseteq requests,
           \A m \in Members : moment'[m] <= now' /\ (~up[m] => pc'[m] = pc[m])
    PROVE  OfficeInv'
<1>1. \A m \in Members : OfficeKept(m)
  BY DEF OfficeKept
<1>2. GrantsShrink
  BY DEF GrantsShrink, OfficeInv, VotesUp
<1> QED BY <1>1, <1>2, OfficeKeeps, VotesShrink DEF OfficeInv

(* The second round of requests. *)
LEMMA RetryOffice ==
    ASSUME TypeOK, OfficeInv, NEW m \in Members, Retry(m)
    PROVE  OfficeInv'
<1> USE DEF OfficeInv
<1>1. UNCHANGED <<now, up, issued, moment, role, proof, leaseFile, seen>>
  BY DEF Retry, sampleVars
<1>2. /\ \A r \in requests' : r.voter # r.candidate
      /\ \A n \in Members : /\ replies'[n] \subseteq replies[n]
                            /\ received'[n] \subseteq received[n]
                            /\ ~up[n] => pc'[n] = pc[n]
  BY DEF Retry, AskVotes, Put, VotesUp, NoOfficeDown, TypeOK, Others
<1>3. \A n \in Members : OfficeKept(n)
  BY <1>1, <1>2 DEF OfficeKept, NoOfficeDown
<1>4. GrantsShrink
  BY <1>1, <1>2 DEF GrantsShrink
<1> QED BY <1>3, <1>4, OfficeKeeps, VotesShrink

(* A process dies: its office goes with it, its lease file stays. *)
LEMMA CrashOffice ==
    ASSUME TypeOK, OfficeInv, NEW m \in Members, Crash(m)
    PROVE  OfficeInv'
<1> USE DEF OfficeInv
<1>1. /\ \A n \in Others(m) :
             /\ replies'[n] = replies[n] /\ received'[n] = received[n]
             /\ proof'[n] = proof[n] /\ role'[n] = role[n] /\ seen'[n] = seen[n]
             /\ up'[n] = up[n] /\ pc'[n] = pc[n] /\ issued'[n] = issued[n]
             /\ moment'[n] = moment[n]
      /\ replies'[m] = {} /\ received'[m] = {} /\ proof'[m] = {}
      /\ role'[m] = "standby" /\ up'[m] = FALSE /\ pc'[m] = "boot"
      /\ issued'[m] = {} /\ moment'[m] = now /\ seen'[m] = NoOverride
  BY DEF Crash, Put, TypeOK, Others
<1>2. UNCHANGED <<now, leaseFile>> /\ requests' \subseteq requests
  BY DEF Crash
<1>3. ASSUME NEW n \in Members PROVE OfficeKept(n) \/ OfficeLeft(n)
  <2>1. CASE n = m
    BY <1>1, <1>2, <2>1 DEF OfficeLeft, TypeOK, NoOverride
  <2>2. CASE n \in Others(m)
    BY <1>1, <1>2, <2>2 DEF OfficeKept, NoOfficeDown
  <2> QED BY <2>1, <2>2 DEF Others
<1>4. GrantsShrink
  BY <1>1, <1>2 DEF GrantsShrink, VotesUp, Others
<1> QED BY <1>3, <1>4, OfficeKeeps, VotesShrink

(* A new process: a Studio deletes the lease file of the old one. *)
LEMMA RestartOffice ==
    ASSUME TypeOK, OfficeInv, NEW m \in Members, Restart(m)
    PROVE  OfficeInv'
<1> USE DEF OfficeInv
<1>1. /\ \A n \in Others(m) : up'[n] = up[n] /\ leaseFile'[n] = leaseFile[n]
      /\ ~up[m] /\ up'[m] /\ leaseFile'[m] = NoLease
  BY DEF Restart, Put, TypeOK, Others
<1>2. UNCHANGED <<now, issued, pc, moment, requests, replies, role, proof,
                  received, seen>>
  BY DEF Restart, pollVars, sampleVars
<1>3. role[m] = "standby" /\ proof[m] = {}
  BY <1>1 DEF NoOfficeDown, ProofsSound
<1>4. ASSUME NEW n \in Members PROVE OfficeKept(n) \/ OfficeLeft(n)
  <2>1. CASE n = m
    BY <1>1, <1>2, <1>3, <2>1 DEF OfficeLeft, NoOfficeDown
  <2>2. CASE n \in Others(m)
    BY <1>1, <1>2, <2>2 DEF OfficeKept, NoOfficeDown
  <2> QED BY <2>1, <2>2 DEF Others
<1>5. GrantsShrink
  BY <1>2 DEF GrantsShrink, VotesUp
<1> QED BY <1>4, <1>5, OfficeKeeps, VotesShrink

(* A running member that is not elected once it has published has no lease *)
(* on show.                                                                *)
LEMMA EmitLeaves ==
    ASSUME TypeOK, FileFollowsOffice, NEW m \in Members, Emit(m), up[m],
           role'[m] # "elected"
    PROVE  /\ \A n \in Others(m) : leaseFile'[n] = leaseFile[n]
           /\ m = Core => leaseFile'[m] = leaseFile[m]
           /\ m # Core => leaseFile'[m] = NoLease
<1>1. leaseFile \in [Members -> Leases]
  BY DEF TypeOK, Leases
<1>2. LeaseOf(m, role'[m], proof'[m], seen'[m]) = NoLease
  BY DEF LeaseOf
<1>3. m # Core /\ role[m] # "elected" => leaseFile[m] = NoLease
  BY DEF FileFollowsOffice, Studios, Members
<1>4. \/ leaseFile' = leaseFile /\ (m # Core => role'[m] = role[m])
      \/ leaseFile' = Put(leaseFile, m, NoLease) /\ m # Core
  BY <1>2 DEF Emit
<1> QED BY <1>1, <1>3, <1>4 DEF Put, Others

(* A hand-back takes office away, or meets a member that has none. *)
LEMMA HandbackOffice ==
    ASSUME TypeOK, OfficeInv, NEW h \in Members, Handback(h)
    PROVE  OfficeInv'
<1> USE DEF OfficeInv
<1>1. /\ up[h] /\ Emit(h)
      /\ \/ DrainAndFinish(h, busy[h], now) /\ role[h] \in {"elected", "draining"}
         \/ role[h] \notin {"elected", "draining"} /\ UNCHANGED <<role, proof>>
      /\ UNCHANGED <<now, up, issued, pc, moment, requests, replies, received,
                     seen>>
  BY DEF Handback, pollVars, sampleVars
<1>2. /\ \A n \in Others(h) : role'[n] = role[n] /\ proof'[n] = proof[n]
      /\ proof'[h] = {} /\ role'[h] # "elected"
      /\ role[h] = "standby" => role'[h] = "standby"
  BY <1>1 DEF DrainAndFinish, Put, Others, TypeOK, ProofsSound
<1>3. /\ \A n \in Others(h) : leaseFile'[n] = leaseFile[n]
      /\ h = Core => leaseFile'[h] = leaseFile[h]
      /\ h # Core => leaseFile'[h] = NoLease
  BY <1>1, <1>2, EmitLeaves
<1>4. h # Core /\ seen[h].kind = "inhibit" => role[h] = "standby"
  BY DEF FileFollowsOffice, Studios, Members
<1>5. h \in Studios
  BY DEF Handback, TypeOK
<1>6. OfficeLeft(h)
  BY <1>1, <1>2, <1>3, <1>4, <1>5, Distinct DEF OfficeLeft, NoOfficeDown, Studios
<1>7. \A n \in Members : OfficeKept(n) \/ OfficeLeft(n)
  BY <1>1, <1>2, <1>3, <1>6 DEF OfficeKept, NoOfficeDown, Others
<1>8. GrantsShrink
  BY <1>1 DEF GrantsShrink, VotesUp
<1> QED BY <1>7, <1>8, OfficeKeeps, VotesShrink

-----------------------------------------------------------------------------
(* Voting and observing *)

(* A vote goes to a member ahead of the voter. *)
LEMMA VoteOffice ==
    ASSUME TypeOK, OfficeInv, NEW v \in Members, Vote(v)
    PROVE  OfficeInv'
<1> USE DEF OfficeInv
<1>1. PICK r \in requests :
          /\ r.voter = v /\ up[v]
          /\ requests' = requests \ {r}
          /\ \/ /\ GrantsVote(v, r)
                /\ \E g \in GrantsFor(v, r) :
                     /\ issued' = Put(issued, v,
                            {h \in issued[v] : h.term # g.term} \cup {g})
                     /\ \/ replies' = [replies EXCEPT ![r.candidate] = @ \cup {g}]
                        \/ UNCHANGED replies
             \/ UNCHANGED <<issued, replies>>
  BY DEF Vote
<1>2. UNCHANGED <<now, up, pc, moment, role, proof, received, leaseFile, seen>>
  BY DEF Vote, sampleVars
<1>3. CASE UNCHANGED <<issued, replies>>
  BY <1>1, <1>2, <1>3, QuietOffice DEF NoOfficeDown
<1>4. CASE /\ GrantsVote(v, r)
           /\ \E g \in GrantsFor(v, r) :
                /\ issued' = Put(issued, v,
                       {h \in issued[v] : h.term # g.term} \cup {g})
                /\ \/ replies' = [replies EXCEPT ![r.candidate] = @ \cup {g}]
                   \/ UNCHANGED replies
  <2> DEFINE c == r.candidate
  <2>1. PICK g \in GrantsFor(v, r) :
          /\ issued' = Put(issued, v,
                 {h \in issued[v] : h.term # g.term} \cup {g})
          /\ \/ replies' = [replies EXCEPT ![c] = @ \cup {g}]
             \/ UNCHANGED replies
    BY <1>4
  <2>2. c \in Members /\ c # v /\ c \in Higher(v)
    BY <1>1, <1>4 DEF VotesUp, GrantsVote, EligibleLeader, TypeOK
  <2> HIDE DEF c
  <2>3. g.voter = v
    BY DEF GrantsFor, VotesUp
  <2>4. /\ \A h \in issued'[v] : h \in issued[v] \/ h = g
        /\ \A n \in Members : n # v => issued'[n] = issued[n]
        /\ \A n \in Members : \A h \in replies'[n] :
               h \in replies[n] \/ (n = c /\ h = g)
    BY <2>1, <2>2 DEF Put, TypeOK
  <2>5. \A n \in Members : \A h \in Held(n)' :
            h \in Held(n) \/ (n = c /\ h = g)
    BY <1>2, <2>4 DEF Held
  <2>6. VotesUp'
    <3>1. ASSUME NEW n \in Members
          PROVE  /\ \A h \in issued'[n] : h.voter = n
                 /\ \A h \in replies'[n] : h.voter # n
      BY <2>2, <2>3, <2>4 DEF VotesUp
    <3>2. ASSUME NEW n \in Members, NEW h \in Held(n)'
          PROVE  h.voter = n \/ n \in Higher(h.voter)
      BY <2>2, <2>3, <2>5 DEF VotesUp
    <3> QED BY <1>1, <3>1, <3>2 DEF VotesUp, Higher, Rank
  <2>7. \A n \in Members : OfficeKept(n)
    BY <1>2 DEF OfficeKept, NoOfficeDown
  <2> QED BY <2>6, <2>7, OfficeKeeps
<1> QED BY <1>1, <1>3, <1>4

(* An inhibit in force leaves _advance one way: the fence. *)
LEMMA InhibitFences ==
    ASSUME TypeOK, NEW m \in Studios, NEW l, NEW rc, Observe(m, l, rc),
           ActiveOverride(m).kind = "inhibit", moment[m] <= now
    PROVE  role'[m] = "standby"
<1>0. /\ m \in Members /\ m # Core
      /\ moment[m] \in Nat /\ now \in Nat /\ delivered[m] \in Overrides
      /\ role \in [Members -> Roles]
  BY Distinct DEF Studios, Members, TypeOK
<1>1. PICK fl \in BOOLEAN :
          Advance(m, l, rc, ActiveOverride(m), fl, moment[m])
  BY DEF Observe
<1>2. InhibitApplies(m, ActiveOverride(m), moment[m])
  BY <1>0 DEF ActiveOverride, InhibitApplies, NoOverride, Overrides
<1>3. Fence(m, rc, FALSE)
  BY <1>1, <1>2 DEF Advance
<1> QED BY <1>0, <1>3 DEF Fence, Put

(* An observe() in the middle of a poll. *)
LEMMA ObserveOffice ==
    ASSUME TypeOK, OfficeInv, NEW m \in Members, NEW l, NEW rc,
           ObserveStep(m, l, rc)
    PROVE  OfficeInv'
<1> USE DEF OfficeInv
<1>0. /\ rc \in SUBSET Grants /\ up[m] /\ Observe(m, l, rc)
      /\ GrantStep(m, l, rc, ActiveOverride(m), moment[m])
  BY ObserveHeld DEF ObserveStep
<1>1. \A c \in Members : \A g \in Held(c)' :
          \/ g \in Held(c)
          \/ c = m /\ CastsOwn(m, g, moment[m])
  BY ObserveHeld
<1>2. UNCHANGED <<now, up, issued, moment>>
  BY DEF ObserveStep
<1>3. \A n \in Others(m) : /\ leaseFile'[n] = leaseFile[n] /\ seen'[n] = seen[n]
                           /\ role'[n] = role[n] /\ pc'[n] = pc[n]
  BY <1>0, ObserveGrants DEF ObserveStep, GrantStep
<1>4. VotesUp'
  <2>1. \A r \in requests' : r.voter # r.candidate
    BY DEF ObserveStep
  <2>2. ASSUME NEW n \in Members
        PROVE  /\ \A g \in issued'[n] : g.voter = n
               /\ \A g \in replies'[n] : g.voter # n
    BY DEF ObserveStep, VotesUp
  <2>3. ASSUME NEW n \in Members, NEW g \in Held(n)'
        PROVE  g.voter = n \/ n \in Higher(g.voter)
    BY <1>1 DEF VotesUp, CastsOwn
  <2> QED BY <2>1, <2>2, <2>3 DEF VotesUp, Higher, Rank
<1>5. ProofsSound' /\ GlassOrProof'
  BY ObserveOffices
<1>6. NoOfficeDown'
  <2> SUFFICES ASSUME NEW n \in Members, ~up[n]
               PROVE  /\ pc'[n] = "boot" /\ role'[n] = "standby"
                      /\ seen'[n] = NoOverride
    BY <1>2 DEF NoOfficeDown
  <2> QED BY <1>0, <1>3 DEF NoOfficeDown, Others
<1>7. FileFollowsOffice'
  <2> SUFFICES ASSUME NEW n \in Studios
               PROVE  /\ up[n] /\ role'[n] # "elected" => leaseFile'[n] = NoLease
                      /\ seen'[n].kind = "inhibit" => role'[n] = "standby"
    BY <1>2 DEF FileFollowsOffice
  <2>0. n \in Members /\ n # Core
    BY Distinct DEF Studios, Members
  <2>1. CASE n # m
    BY <1>3, <2>0, <2>1 DEF FileFollowsOffice, Others
  <2>2. CASE n = m
    <3>1. Emit(m)
      BY <1>0 DEF Observe
    <3>2. role'[m] # "elected" => leaseFile'[m] = NoLease
      BY <1>0, <2>0, <2>2, <3>1, EmitLeaves
    <3>3. seen'[m] = ActiveOverride(m)
      BY <1>0, ObserveGrants
    <3>4. seen'[m].kind = "inhibit" => role'[m] = "standby"
      BY <1>0, <2>2, <3>3, InhibitFences DEF NoOfficeDown
    <3> QED BY <2>2, <3>2, <3>4
  <2> QED BY <2>1, <2>2
<1> QED BY <1>4, <1>5, <1>6, <1>7

(* Probing and the first observe() of a poll. *)
LEMMA ProbeOffice ==
    ASSUME TypeOK, OfficeInv, NEW m \in Members, Probe(m)
    PROVE  OfficeInv'
<1> USE DEF OfficeInv
<1>1. PICK l : Observe(m, l, received[m])
  BY DEF Probe
<1>2. up[m] /\ pc[m] = "probing"
  BY DEF Probe, NoOfficeDown
<1>3. \/ AskVotes(m, term'[m]) /\ pc' = Put(pc, m, "collecting")
      \/ EndTick(m) /\ UNCHANGED <<requests, replies>>
  BY DEF Probe
<1>4. /\ \A r \in requests' : r.voter # r.candidate
      /\ \A c \in Members : replies'[c] \subseteq replies[c]
  BY <1>3 DEF AskVotes, Others, VotesUp, Put, TypeOK
<1>5. \A n \in Others(m) : pc'[n] = pc[n]
  BY <1>3 DEF EndTick, Put, Others, TypeOK
<1>6. UNCHANGED <<now, up, issued, fence, moment>>
  BY DEF Probe
<1>7. ObserveStep(m, l, received[m])
  BY <1>1, <1>2, <1>4, <1>5, <1>6 DEF ObserveStep
<1> QED BY <1>7, ObserveOffice

(* Gathering the grants and the last observe() of a poll. *)
LEMMA FinishOffice ==
    ASSUME TypeOK, OfficeInv, NEW m \in Members, Finish(m)
    PROVE  OfficeInv'
<1> USE DEF OfficeInv
<1> DEFINE rc == Receive(m, moment[m])
<1>1. up[m]
  BY DEF Finish, NoOfficeDown
<1>2. rc \subseteq received[m] \cup replies[m]
  BY DEF Receive
<1>3. \A g \in rc : g.voter = m => g \in received[m]
  BY <1>2 DEF VotesUp
<1>4. /\ \A r \in requests' : r.voter # r.candidate
      /\ \A c \in Members : replies'[c] \subseteq replies[c]
  BY DEF Finish, Put, TypeOK, VotesUp
<1>5. \A n \in Others(m) : pc'[n] = pc[n]
  BY DEF Finish, EndTick, Put, Others, TypeOK
<1>6. /\ UNCHANGED <<now, up, issued, fence, moment>>
      /\ Observe(m, live[m], rc)
  BY DEF Finish
<1> HIDE DEF rc
<1>7. ObserveStep(m, live[m], rc)
  BY <1>1, <1>2, <1>3, <1>4, <1>5, <1>6 DEF ObserveStep
<1> QED BY <1>7, ObserveOffice

-----------------------------------------------------------------------------
(* The theorems *)

(* Every step keeps the invariant. *)
LEMMA OfficeStep == TypeOK /\ OfficeInv /\ [Next]_vars => OfficeInv'
<1> SUFFICES ASSUME TypeOK, OfficeInv, [Next]_vars PROVE OfficeInv'
  OBVIOUS
<1> USE DEF pollVars, roleVars, sampleVars, coreVars, boundVars
<1>0. /\ now \in Nat
      /\ \A m \in Members : /\ moment[m] \in Nat /\ moment[m] <= now
                            /\ ~up[m] => pc[m] = "boot"
  BY DEF TypeOK, OfficeInv, NoOfficeDown
<1>1. ASSUME NEW m \in Members, TickStart(m) PROVE OfficeInv'
  <2>1. \A n \in Members : moment'[n] <= now' /\ (~up[n] => pc'[n] = pc[n])
    BY <1>0, <1>1 DEF TickStart, Put, TypeOK
  <2> QED BY <1>1, <2>1, QuietOffice DEF TickStart
<1>2. ASSUME HandbackDone PROVE OfficeInv'
  <2>1. \A n \in Members : moment'[n] <= now' /\ (~up[n] => pc'[n] = pc[n])
    BY <1>0, <1>2 DEF HandbackDone, Put, TypeOK
  <2> QED BY <1>2, <2>1, QuietOffice DEF HandbackDone
<1>3. ASSUME NEW m \in Members, NEW k \in OverrideKinds, DeliverOverride(m, k)
      PROVE  OfficeInv'
  BY <1>0, <1>3, QuietOffice DEF DeliverOverride
<1>4. ASSUME NetworkChange \/ UNCHANGED vars PROVE OfficeInv'
  BY <1>0, <1>4, QuietOffice DEF NetworkChange, vars
<1>5. ASSUME Elapse PROVE OfficeInv'
  <2>1. \A n \in Members : moment'[n] <= now' /\ (~up[n] => pc'[n] = pc[n])
    BY <1>0, <1>5 DEF Elapse
  <2> QED BY <1>5, <2>1, QuietOffice DEF Elapse
<1> QED BY <1>1, <1>2, <1>3, <1>4, <1>5, ProbeOffice, FinishOffice, VoteOffice,
           RetryOffice, HandbackOffice, CrashOffice, RestartOffice
        DEF Next, Horizon

(* The invariant holds in every reachable state, whatever the lengths of   *)
(* lease, promotion and demotion and the number of misses tolerated.       *)
THEOREM Offices == Spec => []OfficeInv
BY OfficeInit, OfficeStep, Typing, PTL DEF Spec

(* A lone or lowest-priority survivor is never promoted automatically:     *)
(* nobody is behind edge-b to vote for it, so it holds no proof and is     *)
(* elected only on an operator's break-glass override.                     *)
THEOREM EdgeBSafety == Spec => []EdgeBNeedsBreakGlass
<1>1. TypeOK /\ OfficeInv => EdgeBNeedsBreakGlass
  <2> SUFFICES ASSUME TypeOK, OfficeInv PROVE EdgeBNeedsBreakGlass
    OBVIOUS
  <2>0. EdgeB \in Members
    BY DEF Members
  <2>1. proof[EdgeB] = {}
    <3> SUFFICES ASSUME proof[EdgeB] # {} PROVE FALSE
      OBVIOUS
    <3>1. PICK g \in proof[EdgeB] : g.voter # EdgeB
      BY <2>0 DEF OfficeInv, ProofsSound, TwoVoters
    <3>2. g.voter \in Members
      BY <2>0 DEF TypeOK, Grants
    <3>3. EdgeB \in Higher(g.voter)
      BY <2>0, <3>1 DEF OfficeInv, VotesUp, Held
    <3> QED BY <3>1, <3>2, <3>3, Distinct DEF Higher, Rank, Members
  <2> QED BY <2>0, <2>1 DEF EdgeBNeedsBreakGlass, OfficeInv, GlassOrProof
<1> QED BY <1>1, Offices, Typing, PTL

(* Once a poll has taken up an operator's inhibit, the Studio's frontend   *)
(* finds no lease until the inhibit has expired.                           *)
THEOREM InhibitSafety == Spec => []InhibitWithdraws
<1>1. OfficeInv => InhibitWithdraws
  <2> SUFFICES ASSUME OfficeInv, NEW m \in Studios, seen[m].kind = "inhibit"
               PROVE  leaseFile[m] = NoLease
    BY DEF InhibitWithdraws
  <2>1. up[m]
    BY DEF OfficeInv, NoOfficeDown, NoOverride, Studios, Members
  <2> QED BY <2>1 DEF OfficeInv, FileFollowsOffice
<1> QED BY <1>1, Offices, PTL

=============================================================================
