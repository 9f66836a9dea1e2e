-------------------------- MODULE FailoverElection --------------------------
(***************************************************************************)
(* The three-member quorum election that decides which host answers for    *)
(* the cluster: core, or one of the two Studios while core is away.        *)
(*                                                                         *)
(*   coire_core/failover_election.py   ElectionParticipant (all members)   *)
(*   coire_core/failover_poller.py     FailoverPoller.tick (all members)   *)
(*   coire_node/failover/participant.py  StudioParticipant: restart fence, *)
(*                                       overrides, lease file             *)
(*   coire_api/failover/poller.py      CoreFailoverPoller: hand-back       *)
(*                                                                         *)
(* Every member runs one poll loop.  A poll captures its moment once,      *)
(* probes the peers, observes, may ask for votes, may ask a second time in *)
(* the next term, and observes again, always with the captured moment.     *)
(* Votes, hand-backs and overrides reach a member between any two of these *)
(* steps.  Messages are lost or late; members crash and restart.           *)
(***************************************************************************)
EXTENDS PeerLiveness, FiniteSets

CONSTANTS
    Core, EdgeA, EdgeB,  \* the members, in priority order
    Lease,               \* failover_lease_ttl_s
    Promotion,           \* failover_promotion_threshold_s
    Demotion,            \* failover_demotion_threshold_s
    Drain,               \* failover_drain_timeout_s
    Interval,            \* failover_election_interval_s
    HandbackTTL,         \* validity of a hand-back notice
    OverrideTTL,         \* validity of an operator's override
    Networks,            \* the conditions the network may be in
    Late,                \* a request may be handled after its sender gave up
    MaxTime, MaxTerm, MaxCrashes, MaxOverrides, MaxFaults, \* bounds of the
                         \* exploration; a fault is a change of the network
    MaxPolling,          \* polls under way at once
    MaxLag,              \* how long a poll may be under way
    MaxIdle              \* how long a running member may not poll

Members == {Core, EdgeA, EdgeB}
Studios == {EdgeA, EdgeB}
Others(m) == Members \ {m}

(* Settings validates the signs and that demotion outlasts promotion. *)
ASSUME ElectionAssumption ==
    /\ Core # EdgeA /\ Core # EdgeB /\ EdgeA # EdgeB
    /\ {Lease, Promotion, Demotion, Drain, Interval, HandbackTTL, OverrideTTL}
           \subseteq Nat \ {0}
    /\ Promotion < Demotion
    /\ Late \in BOOLEAN
    /\ Networks \subseteq [Members -> [Members -> SUBSET Beats]]
    /\ {MaxTime, MaxTerm, MaxCrashes, MaxOverrides, MaxFaults, MaxPolling,
         MaxLag, MaxIdle} \subseteq Nat

(* Nothing in Settings relates the lease to the promotion threshold. *)
LeaseWithinPromotion == Lease <= Promotion

VARIABLES
    now,           \* the clock all expiry instants refer to
    up,            \* the process is running
    link,          \* link[m][p]: what a probe of a running p by m may report
    live,          \* PeerLiveness: one record per peer
    role, term, proof, received, issued, closed, outage,
    reclaimSince, drainStarted,
    busy,          \* in_flight > 0 when it was last sampled
    delivered,     \* StudioParticipant._delivered_override
    seen,          \* _override, as the last observe left it
    fence,         \* _restart_fence_until
    pc, moment,    \* where the poll loop is, and the moment it captured
    requests,      \* vote requests on their way
    replies,       \* grants gathered by the request round under way
    leaseFile,     \* what the Studio's frontend reads
    notices,       \* hand-back notices on their way
    acked, ackTerm, \* CoreFailoverPoller._acked, _ack_term
    crashes, overrides, faults

pollVars   == <<live, pc, moment, requests, replies>>
roleVars   == <<role, term, proof, received, closed, outage, reclaimSince,
                drainStarted, leaseFile>>
sampleVars == <<busy, delivered, seen>>
coreVars   == <<notices, acked, ackTerm>>
boundVars  == <<crashes, overrides, faults>>
vars == <<now, up, link, issued, fence, pollVars, roleVars, sampleVars, coreVars,
          boundVars>>

-----------------------------------------------------------------------------
(* Grants, proofs, overrides *)

Terms  == Nat \ {0}
Grants == [term : Terms, candidate : Members, voter : Members, expires : Nat]

Current(g, t) == g.expires > t

(* The last third of a grant's life is when its holder renews it. *)
Fresh(g, t) == 3 * (g.expires - t) > Lease

NoOverride == [kind |-> "none", expires |-> 0]
OverrideKinds == {"inhibit", "break_glass"}
Overrides == {NoOverride} \cup [kind : OverrideKinds, expires : Nat]

NoLease == [grants |-> {}, glass |-> NoTime]

Put(f, m, v) == [f EXCEPT ![m] = v]

-----------------------------------------------------------------------------
(* What a participant makes of its observations *)

Rank(m) == IF m = Core THEN 0 ELSE IF m = EdgeA THEN 1 ELSE 2
Higher(m) == {p \in Members : Rank(p) < Rank(m)}
Lower(m)  == {p \in Members : Rank(p) > Rank(m)}

Seen(l, p) == l[p].health \in {"healthy", "degraded"}

HigherStatus(l, p, t) ==
    IF Seen(l, p) THEN "leader"
    ELSE IF l[p].health = "unreachable" /\ t - l[p].since >= Promotion
         THEN "down" ELSE "wait"

(* Variant: an inhibit keeps a Studio from campaigning, never from serving. *)
InhibitAppliesToStandby(m, ov, t) ==
    /\ m # Core /\ ov.kind = "inhibit" /\ ov.expires > t
    /\ role[m] \in {"standby", "candidate"}

InhibitApplies(m, ov, t) ==
    m # Core /\ ov.kind = "inhibit" /\ ov.expires > t

BreakGlassOk(ov, t) == ov.kind = "break_glass" /\ ov.expires > t

(* eligible_leader() = c: everyone ahead of c is confirmed down, and c is  *)
(* either visible or the member itself.                                    *)
EligibleLeader(m, c, l, ov, t) ==
    /\ c \in Higher(m) \cup {m}
    /\ \A p \in Higher(c) : HigherStatus(l, p, t) = "down"
    /\ IF c = m THEN ~InhibitApplies(m, ov, t)
                ELSE HigherStatus(l, c, t) = "leader"

Majority(m, l) == \E p \in Others(m) : Seen(l, p)

HigherRecovered(m, l, t) ==
    \E p \in Higher(m) :
        l[p].health = "healthy" /\ t - l[p].since >= Demotion

LowerVisible(m, l) == \E p \in Lower(m) : Seen(l, p)

-----------------------------------------------------------------------------
(* Grants a participant holds *)

(* The vote of one's own is withheld while a grant issued to another       *)
(* member is current, and renewed in the last third of its life.           *)
EnsureSelfGrant(m, rc, tm, t) ==
    IF \/ \E g \in issued[m] : g.candidate # m /\ Current(g, t)
       \/ \E g \in rc : /\ g.term = tm /\ g.voter = m /\ g.candidate = m
                        /\ Current(g, t) /\ Fresh(g, t)
    THEN rc
    ELSE {g \in rc : ~(g.term = tm /\ g.voter = m)}
           \cup {[term |-> tm, candidate |-> m, voter |-> m,
                  expires |-> t + Lease]}

(* The grants _try_proof counts, and the pairs it may publish: one's own   *)
(* vote and that of the first other voter by name (names order as ranks).  *)
Ballots(m, rc, tm, t) ==
    {g \in rc : g.term = tm /\ g.candidate = m /\ Current(g, t)}

(* Variant: the vote of one's own is proof enough. *)
ProofsAlone(m, rc, tm, t) ==
    {p \in SUBSET Ballots(m, rc, tm, t) : \E own \in p :
        own.voter = m /\ p = {own}}

Proofs(m, rc, tm, t) ==
    LET b == Ballots(m, rc, tm, t) IN
    {p \in SUBSET b : \E own, other \in b :
        /\ own.voter = m /\ other.voter # m
        /\ \A g \in b : g.voter # m => Rank(other.voter) <= Rank(g.voter)
        /\ p = {own, other}}

ProofOk(m, t) == proof[m] # {} /\ \A g \in proof[m] : Current(g, t)

(* receive_grant for every reply of the round *)
Receive(m, t) ==
    LET Accepted == {g \in replies[m] :
            /\ g.candidate = m /\ g.term = term[m] /\ Current(g, t)
            /\ ~\E e \in received[m] :
                   /\ e.term = g.term /\ e.voter = g.voter
                   /\ Current(e, t) /\ g.expires <= e.expires}
    IN  {e \in received[m] : ~\E g \in Accepted :
             g.term = e.term /\ g.voter = e.voter} \cup Accepted

-----------------------------------------------------------------------------
(* ElectionParticipant.observe.  l, rc, ov and fl are the observations,    *)
(* the received grants, the override and the in-flight flag of this call;  *)
(* t is the moment the poll captured.                                      *)

(* _fence *)
Fence(m, rc, lost) ==
    /\ role' = Put(role, m, "standby")
    /\ proof' = Put(proof, m, {})
    /\ closed' = Put(closed, m, TRUE)
    /\ outage' = Put(outage, m, outage[m] \/ lost)
    /\ received' = Put(received, m, rc)
    /\ UNCHANGED <<term, reclaimSince, drainStarted>>

(* _begin_drain, then _finish_drain_if_idle *)
DrainAndFinish(m, fl, t) ==
    LET began == IF role[m] = "draining" THEN drainStarted[m] ELSE t
        stay  == fl /\ t - began < Drain
    IN  /\ role' = Put(role, m, IF stay THEN "draining" ELSE "standby")
        /\ closed' = Put(closed, m, closed[m] \/ ~stay)
        /\ proof' = Put(proof, m, {})
        /\ drainStarted' = Put(drainStarted, m, began)
        /\ UNCHANGED <<term, outage, reclaimSince>>

(* _hold_or_fence: with a majority or a break-glass override *)
Hold(m, rc, ov, t) ==
    LET mine  == EnsureSelfGrant(m, rc, term[m], t)
        found == Proofs(m, mine, term[m], t)
        keep  == \/ ProofOk(m, t) /\ \A g \in proof[m] : Fresh(g, t)
                 \/ proof[m] = {} /\ BreakGlassOk(ov, t)
    IN  /\ \/ /\ keep
              /\ received' = Put(received, m, rc)
              /\ UNCHANGED <<role, proof>>
           \/ /\ ~keep /\ found # {}
              /\ \E p \in found : proof' = Put(proof, m, p)
              /\ received' = Put(received, m, mine)
              /\ UNCHANGED role
           \/ /\ ~keep /\ found = {} /\ ProofOk(m, t)
              /\ received' = Put(received, m, mine)
              /\ UNCHANGED <<role, proof>>
           \/ /\ ~keep /\ found = {} /\ ~ProofOk(m, t)
              /\ role' = Put(role, m, "candidate")
              /\ proof' = Put(proof, m, {})
              /\ received' = Put(received, m, mine)
        /\ UNCHANGED <<term, closed, outage, reclaimSince, drainStarted>>

(* Variant: a restarted Studio takes part in elections at once. *)
UnfencedAtOnce(m, t) == TRUE

(* A restarted Studio neither votes nor campaigns for one lease. *)
Unfenced(m, t) == t >= fence[m]

(* _may_campaign refuses before the restart fence, without a majority, and *)
(* while a member that lost its lease waits out the demotion window.       *)
Reclaiming(m, l) == outage[m] /\ LowerVisible(m, l)

ReclaimFrom(m, l, ov, t) ==
    IF ~EligibleLeader(m, m, l, ov, t) THEN NoTime
    ELSE IF ~Unfenced(m, t) \/ ~(Majority(m, l) \/ BreakGlassOk(ov, t))
         THEN reclaimSince[m]
    ELSE IF ~Reclaiming(m, l) THEN NoTime
    ELSE IF reclaimSince[m] = NoTime THEN t ELSE reclaimSince[m]

MayCampaign(m, l, ov, t) ==
    /\ EligibleLeader(m, m, l, ov, t)
    /\ Unfenced(m, t)
    /\ Majority(m, l) \/ BreakGlassOk(ov, t)
    /\ Reclaiming(m, l) => t - ReclaimFrom(m, l, ov, t) >= Demotion

(* _campaign when it may not *)
StandDown(m, l, rc, ov, t) ==
    /\ role' = Put(role, m, "standby")
    /\ proof' = Put(proof, m, {})
    /\ reclaimSince' = Put(reclaimSince, m, ReclaimFrom(m, l, ov, t))
    /\ received' = Put(received, m, rc)
    /\ UNCHANGED <<term, closed, outage, drainStarted>>

(* _campaign when it may: a standby that closed its last term opens the    *)
(* next one and forgets the grants of the old.                             *)
Campaign(m, l, rc, ov, t) ==
    LET reopen == role[m] = "standby" /\ closed[m]
        tm     == IF reopen THEN term[m] + 1 ELSE term[m]
        mine   == EnsureSelfGrant(m, IF reopen THEN {} ELSE rc, tm, t)
        found  == Proofs(m, mine, tm, t)
        wins   == found # {} \/ BreakGlassOk(ov, t)
    IN  /\ term' = Put(term, m, tm)
        /\ received' = Put(received, m, mine)
        /\ closed' = Put(closed, m, closed[m] /\ role[m] # "standby")
        /\ role' = Put(role, m, IF wins THEN "elected" ELSE "candidate")
        /\ \/ found = {} /\ UNCHANGED proof
           \/ \E p \in found : proof' = Put(proof, m, p)
        /\ outage' = Put(outage, m, outage[m] /\ ~wins)
        /\ reclaimSince' = Put(reclaimSince, m,
               IF wins THEN NoTime ELSE ReclaimFrom(m, l, ov, t))
        /\ UNCHANGED drainStarted

(* _advance, branch by branch *)
Advance(m, l, rc, ov, fl, t) ==
    LET serving == role[m] \in {"elected", "draining"}
        inhibit == InhibitApplies(m, ov, t)
        back    == HigherRecovered(m, l, t)
    IN  \/ /\ inhibit
           /\ Fence(m, rc, FALSE)
        \/ /\ ~inhibit /\ serving /\ (back \/ role[m] = "draining")
           /\ received' = Put(received, m, rc)
           /\ DrainAndFinish(m, fl, t)
        \/ /\ ~inhibit /\ ~back /\ role[m] = "elected"
           /\ ~Majority(m, l) /\ ~BreakGlassOk(ov, t)
           /\ Fence(m, rc, TRUE)
        \/ /\ ~inhibit /\ ~back /\ role[m] = "elected"
           /\ Majority(m, l) \/ BreakGlassOk(ov, t)
           /\ Hold(m, rc, ov, t)
        \/ /\ ~inhibit /\ ~serving /\ ~MayCampaign(m, l, ov, t)
           /\ StandDown(m, l, rc, ov, t)
        \/ /\ ~inhibit /\ ~serving /\ MayCampaign(m, l, ov, t)
           /\ Campaign(m, l, rc, ov, t)

(* lease(): what the role and the proof allow a Studio to publish *)
LeaseOf(m, r, p, ov) ==
    IF r # "elected" THEN NoLease
    ELSE IF p # {} THEN [grants |-> p, glass |-> NoTime]
    ELSE IF ov.kind = "break_glass" THEN [grants |-> {}, glass |-> ov.expires]
    ELSE NoLease

(* _emit and publish_lease: the file is rewritten only when the role or    *)
(* the proof differs from what was published last.  Core has no file.      *)
Emit(m) ==
    leaseFile' =
        IF m = Core \/ (role'[m] = role[m] /\ proof'[m] = proof[m])
        THEN leaseFile
        ELSE Put(leaseFile, m,
                 LeaseOf(m, role'[m], proof'[m], seen'[m]))

(* active_override: an expired one is forgotten *)
ActiveOverride(m) ==
    IF delivered[m].expires > now THEN delivered[m] ELSE NoOverride

Observe(m, l, rc) ==
    \E fl \in BOOLEAN :
        /\ fl => role[m] \in {"elected", "draining"} /\ m # Core
        /\ busy' = Put(busy, m, fl)
        /\ delivered' = Put(delivered, m, ActiveOverride(m))
        /\ seen' = Put(seen, m, ActiveOverride(m))
        /\ Advance(m, l, rc, ActiveOverride(m), fl, moment[m])
        /\ Emit(m)

-----------------------------------------------------------------------------
(* FailoverPoller.tick *)

(* The first poll of a process starts at once, each later one after the    *)
(* loop has slept for the interval.  A poll opens at most two new terms.   *)
Polling == {p \in Members : pc[p] \notin {"boot", "idle"}}

TermsLeft(m) == term[m] + 2 <= MaxTerm

TickStart(m) ==
    /\ up[m]
    /\ pc[m] = "boot" \/ (pc[m] = "idle" /\ now >= moment[m] + Interval)
    /\ Cardinality(Polling) < MaxPolling
    /\ TermsLeft(m)
    /\ pc' = Put(pc, m, "probing")
    /\ moment' = Put(moment, m, now)
    /\ UNCHANGED <<now, up, link, live, issued, fence, requests, replies, roleVars,
                   sampleVars, coreVars, boundVars>>

(* Variant: the hand-back loop does not leave core itself out. *)
EndTickToAll(m) ==
    IF m = Core /\ role'[m] \in {"candidate", "elected"}
    THEN /\ pc' = Put(pc, m, "handback")
         /\ ackTerm' = term'[m]
         /\ acked' = IF term'[m] # ackTerm THEN {} ELSE acked
         /\ notices' = [holder : Members \ acked',
                        expires : {now + HandbackTTL}]
    ELSE /\ pc' = Put(pc, m, "idle")
         /\ UNCHANGED coreVars

(* The tail of CoreFailoverPoller.tick: a candidate or elected core asks   *)
(* every Studio that has not acknowledged in this term to drain.           *)
EndTick(m) ==
    IF m = Core /\ role'[m] \in {"candidate", "elected"}
    THEN /\ pc' = Put(pc, m, "handback")
         /\ ackTerm' = term'[m]
         /\ acked' = IF term'[m] # ackTerm THEN {} ELSE acked
         /\ notices' = [holder : Studios \ acked',
                        expires : {now + HandbackTTL}]
    ELSE /\ pc' = Put(pc, m, "idle")
         /\ UNCHANGED coreVars

(* issue_vote_request and the fan-out of _collect_grants.  A request of an *)
(* earlier round that is still under way is overtaken by the new one.      *)
AskVotes(m, tm) ==
    /\ requests' = {r \in requests : r.candidate # m}
           \cup [candidate : {m}, term : {tm}, voter : Others(m)]
    /\ replies' = Put(replies, m, {})

(* The answers a probe may get: a process that is down answers nothing. *)
ProbeResults(m) ==
    {b \in [Others(m) -> Beats] :
        \A p \in Others(m) :
            b[p] \in IF up[p] THEN link[m][p] ELSE {"miss"}}

Probe(m) ==
    /\ pc[m] = "probing"
    /\ \E b \in ProbeResults(m) :
         LET l == [p \in Members |-> IF p = m THEN Unprobed
                                     ELSE Note(live[m][p], b[p], moment[m])]
         IN  /\ live' = Put(live, m, l)
             /\ Observe(m, l, received[m])
    /\ IF /\ role'[m] \in {"candidate", "elected"}
          /\ EligibleLeader(m, m, live'[m], seen'[m], moment[m])
       THEN /\ AskVotes(m, term'[m])
            /\ pc' = Put(pc, m, "collecting")
            /\ UNCHANGED coreVars
       ELSE /\ EndTick(m)
            /\ UNCHANGED <<requests, replies>>
    /\ UNCHANGED <<now, up, link, issued, fence, moment, boundVars>>

(* vote(): the request handler of a peer, at the peer's own time.  A       *)
(* refusal changes nothing.                                                *)
GrantsVote(v, r) ==
    /\ Unfenced(v, now)
    /\ EligibleLeader(v, r.candidate, live[v], seen[v], now)
    /\ role[v] \notin {"elected", "draining"}
    /\ \A g \in issued[v] : g.candidate = r.candidate \/ ~Current(g, now)
    /\ r.term >= term[v]

(* The grant of this term is replayed until it enters its last third. *)
GrantsFor(v, r) ==
    LET replay == {g \in issued[v] : /\ g.term = r.term
                                     /\ Current(g, now) /\ Fresh(g, now)}
    IN  IF replay # {} THEN replay
        ELSE {[term |-> r.term, candidate |-> r.candidate, voter |-> v,
               expires |-> now + Lease]}

(* A peer answers; the answer may be lost, or come after the round ended. *)
Vote(v) ==
    \E r \in requests :
        /\ r.voter = v /\ up[v] /\ link[r.candidate][v] # {"miss"}
        /\ requests' = requests \ {r}
        /\ IF GrantsVote(v, r)
           THEN \E g \in GrantsFor(v, r) :
                /\ term' = Put(term, v, r.term)
                /\ issued' = Put(issued, v,
                       {h \in issued[v] : h.term # g.term} \cup {g})
                /\ \/ /\ pc[r.candidate] \in {"collecting", "retrying"}
                      /\ replies' = [replies EXCEPT ![r.candidate] = @ \cup {g}]
                   \/ /\ \/ "miss" \in link[r.candidate][v]
                         \/ pc[r.candidate] \notin {"collecting", "retrying"}
                      /\ UNCHANGED replies
           ELSE UNCHANGED <<term, issued, replies>>
        /\ UNCHANGED <<now, up, link, live, fence, pc, moment, role, proof, received,
                       closed, outage, reclaimSince, drainStarted, leaseFile,
                       sampleVars, coreVars, boundVars>>

(* Every request of the round was answered or has timed out. *)
RoundOver(m) ==
    \A r \in requests : r.candidate = m =>
        ~up[r.voter] \/ "miss" \in link[m][r.voter]

(* No grant at all and still a candidate: adopt_term and a second round. *)
Retry(m) ==
    /\ pc[m] = "collecting" /\ RoundOver(m)
    /\ replies[m] = {} /\ role[m] = "candidate"
    /\ term' = Put(term, m, term[m] + 1)
    /\ received' = Put(received, m, {})
    /\ AskVotes(m, term[m] + 1)
    /\ pc' = Put(pc, m, "retrying")
    /\ UNCHANGED <<now, up, link, live, issued, fence, moment, role, proof, closed,
                   outage, reclaimSince, drainStarted, leaseFile, sampleVars,
                   coreVars, boundVars>>

Finish(m) ==
    /\ \/ pc[m] = "collecting" /\ (replies[m] # {} \/ role[m] # "candidate")
       \/ pc[m] = "retrying"
    /\ RoundOver(m)
    /\ Observe(m, live[m], Receive(m, moment[m]))
    /\ EndTick(m)
    /\ replies' = Put(replies, m, {})
    /\ requests' = {r \in requests : Late \/ r.candidate # m}
    /\ UNCHANGED <<now, up, link, live, issued, fence, moment, boundVars>>

-----------------------------------------------------------------------------
(* Hand-back *)

(* accept_handback at the Studio: a standby acknowledges, a candidate      *)
(* refuses, a serving one drains on the in-flight count it last sampled.   *)
Handback(h) ==
    \E n \in notices :
        /\ n.holder = h /\ up[h] /\ link[Core][h] # {"miss"}
        /\ n.expires > now
        /\ notices' = notices \ {n}
        /\ IF role[h] \in {"elected", "draining"}
           THEN DrainAndFinish(h, busy[h], now)
           ELSE UNCHANGED <<role, closed, proof, drainStarted, term, outage,
                            reclaimSince>>
        /\ Emit(h)
        /\ \/ /\ role[h] # "candidate" /\ pc[Core] = "handback"
              /\ acked' = acked \cup {h}
           \/ /\ \/ role[h] = "candidate" \/ pc[Core] # "handback"
                 \/ "miss" \in link[Core][h]
              /\ UNCHANGED acked
        /\ UNCHANGED <<now, up, link, issued, fence, pollVars, received, sampleVars,
                       ackTerm, boundVars>>

(* The loop over the Studios ends; an unanswered notice may still arrive. *)
HandbackDone ==
    /\ pc[Core] = "handback"
    /\ \A n \in notices : \/ ~up[n.holder] \/ n.expires <= now
                         \/ "miss" \in link[Core][n.holder]
    /\ pc' = Put(pc, Core, "idle")
    /\ notices' = IF Late THEN notices ELSE {}
    /\ UNCHANGED <<now, up, link, issued, fence, live, moment, requests, replies,
                   roleVars, sampleVars, acked, ackTerm, boundVars>>

-----------------------------------------------------------------------------
(* Operator and environment *)

(* deliver_override on a Studio *)
DeliverOverride(m, k) ==
    /\ m \in Studios /\ up[m]
    /\ overrides < MaxOverrides
    /\ overrides' = overrides + 1
    /\ delivered' = Put(delivered, m,
                        [kind |-> k, expires |-> now + OverrideTTL])
    /\ UNCHANGED <<now, up, link, issued, fence, pollVars, roleVars, busy, seen,
                   coreVars, crashes, faults>>

(* The process dies: everything it kept in memory is gone, its lease file  *)
(* stays.                                                                  *)
Crash(m) ==
    /\ up[m] /\ crashes < MaxCrashes
    /\ crashes' = crashes + 1
    /\ up' = Put(up, m, FALSE)
    /\ live' = Put(live, m, [p \in Members |-> Unprobed])
    /\ role' = Put(role, m, "standby")
    /\ term' = Put(term, m, 1)
    /\ proof' = Put(proof, m, {})
    /\ received' = Put(received, m, {})
    /\ issued' = Put(issued, m, {})
    /\ closed' = Put(closed, m, FALSE)
    /\ outage' = Put(outage, m, m = Core)
    /\ reclaimSince' = Put(reclaimSince, m, NoTime)
    /\ drainStarted' = Put(drainStarted, m, NoTime)
    /\ busy' = Put(busy, m, FALSE)
    /\ delivered' = Put(delivered, m, NoOverride)
    /\ seen' = Put(seen, m, NoOverride)
    /\ pc' = Put(pc, m, "boot")
    /\ moment' = Put(moment, m, now)
    /\ requests' = {r \in requests : r.voter # m}
    /\ replies' = Put(replies, m, {})
    /\ notices' = {n \in notices : n.holder # m}
    /\ IF m = Core THEN acked' = {} /\ ackTerm' = 1
                   ELSE UNCHANGED <<acked, ackTerm>>
    /\ UNCHANGED <<now, link, fence, leaseFile, overrides, faults>>

(* A new process.  A Studio deletes the lease file of its predecessor and  *)
(* stays out of elections for one lease; core waits through _outage.       *)
Restart(m) ==
    /\ ~up[m]
    /\ up' = Put(up, m, TRUE)
    /\ fence' = Put(fence, m, IF m = Core THEN 0 ELSE now + Lease)
    /\ leaseFile' = Put(leaseFile, m, NoLease)
    /\ UNCHANGED <<now, link, issued, pollVars, role, term, proof, received, closed,
                   outage, reclaimSince, drainStarted, sampleVars, coreVars,
                   boundVars>>

NetworkChange ==
    /\ faults < MaxFaults
    /\ faults' = faults + 1
    /\ link' \in Networks \ {link}
    /\ UNCHANGED <<now, up, issued, fence, pollVars, roleVars, sampleVars,
                   coreVars, crashes, overrides>>

Elapse ==
    /\ now < MaxTime
    /\ \A m \in Polling : now < moment[m] + MaxLag
    /\ \A m \in Members \ Polling :
           up[m] /\ TermsLeft(m) => now < moment[m] + MaxIdle
    /\ now' = now + 1
    /\ UNCHANGED <<up, link, issued, fence, pollVars, roleVars, sampleVars, coreVars,
                   boundVars>>

(* The exploration ends at its horizon; the system itself does not stop. *)
Horizon == now = MaxTime /\ Polling = {} /\ UNCHANGED vars

-----------------------------------------------------------------------------

Init ==
    /\ now = 0
    /\ up = [m \in Members |-> TRUE]
    /\ live = [m \in Members |-> [p \in Members |-> Unprobed]]
    /\ role = [m \in Members |-> "standby"]
    /\ term = [m \in Members |-> 1]
    /\ proof = [m \in Members |-> {}]
    /\ received = [m \in Members |-> {}]
    /\ issued = [m \in Members |-> {}]
    /\ closed = [m \in Members |-> FALSE]
    /\ outage = [m \in Members |-> m = Core]
    /\ reclaimSince = [m \in Members |-> NoTime]
    /\ drainStarted = [m \in Members |-> NoTime]
    /\ busy = [m \in Members |-> FALSE]
    /\ delivered = [m \in Members |-> NoOverride]
    /\ seen = [m \in Members |-> NoOverride]
    /\ fence = [m \in Members |-> IF m = Core THEN 0 ELSE Lease]
    /\ pc = [m \in Members |-> "boot"]
    /\ moment = [m \in Members |-> 0]
    /\ requests = {}
    /\ replies = [m \in Members |-> {}]
    /\ leaseFile = [m \in Members |-> NoLease]
    /\ notices = {}
    /\ acked = {}
    /\ ackTerm = 1
    /\ link \in Networks
    /\ crashes = 0
    /\ overrides = 0
    /\ faults = 0

Next ==
    \/ \E m \in Members :
         \/ TickStart(m) \/ Probe(m) \/ Vote(m) \/ Retry(m) \/ Finish(m)
         \/ Handback(m) \/ Crash(m) \/ Restart(m)
         \/ \E k \in OverrideKinds : DeliverOverride(m, k)
    \/ HandbackDone
    \/ NetworkChange
    \/ Elapse
    \/ Horizon

Spec == Init /\ [][Next]_vars

-----------------------------------------------------------------------------
(* Properties *)

Roles == {"standby", "candidate", "elected", "draining"}

(* Every variable of the election keeps the type the code gives it. *)
TypeOK ==
    /\ now \in Nat /\ crashes \in Nat /\ overrides \in Nat /\ faults \in Nat
    /\ link \in Networks
    /\ up \in [Members -> BOOLEAN]
    /\ live \in [Members -> [Members -> LivenessRecords]]
    /\ role \in [Members -> Roles]
    /\ term \in [Members -> Terms]
    /\ proof \in [Members -> SUBSET Grants]
    /\ received \in [Members -> SUBSET Grants]
    /\ issued \in [Members -> SUBSET Grants]
    /\ replies \in [Members -> SUBSET Grants]
    /\ closed \in [Members -> BOOLEAN] /\ outage \in [Members -> BOOLEAN]
    /\ busy \in [Members -> BOOLEAN]
    /\ reclaimSince \in [Members -> Times]
    /\ drainStarted \in [Members -> Times]
    /\ delivered \in [Members -> Overrides] /\ seen \in [Members -> Overrides]
    /\ fence \in [Members -> Nat] /\ moment \in [Members -> Nat]
    /\ pc \in [Members ->
           {"boot", "idle", "probing", "collecting", "retrying", "handback"}]
    /\ requests \subseteq [candidate : Members, term : Terms, voter : Members]
    /\ leaseFile \in [Members -> [grants : SUBSET Grants, glass : Times]]
    /\ notices \subseteq [holder : Studios, expires : Nat]
    /\ acked \subseteq Studios /\ ackTerm \in Terms

(* serving() for core and _lease_serves of the frontend for a Studio, on   *)
(* the authority of a quorum.                                              *)
QuorumServes(m) ==
    LET authority == IF m = Core THEN proof[m] ELSE leaseFile[m].grants
    IN  authority # {} /\ \A g \in authority : Current(g, now)

(* "At most one host may be promoted at any time": no two hosts answer for *)
(* the cluster on the strength of a quorum, whatever is lost, late, stale  *)
(* or restarted.  Break-glass promotion is outside it by design.           *)
AtMostOneQuorumHost ==
    \A m, n \in Members : QuorumServes(m) /\ QuorumServes(n) => m = n

(* Two hosts can hold a quorum at once in one way only, whatever the       *)
(* thresholds: they are core and edge-a, core's quorum rests on edge-a's   *)
(* vote and edge-a's on a vote of its own that _ensure_self_grant cast     *)
(* before that one and nobody withdrew.  No other vote counts twice.       *)
ClashNeedsOwnVote ==
    \A m, n \in Members :
        QuorumServes(m) /\ QuorumServes(n) /\ m # n =>
            /\ {m, n} = {Core, EdgeA}
            /\ \E g \in proof[Core] : g.voter = EdgeA /\ Current(g, now)
            /\ \E g \in leaseFile[EdgeA].grants :
                   g.voter = EdgeA /\ Current(g, now)

(* A lone or lowest-priority survivor is never promoted automatically:     *)
(* edge-b campaigns only when it takes both others for unreachable, and    *)
(* then it sees no majority and nobody's vote; only break glass promotes   *)
(* it (FR-004 and FR-005 of the failover specification together, and       *)
(* acceptance 2 of user story 2).  Acceptance 4 of that story expects      *)
(* edge-b to promote while it "still has quorum", which never happens.     *)
EdgeBNeedsBreakGlass ==
    /\ proof[EdgeB] = {}
    /\ role[EdgeB] = "elected" => seen[EdgeB].kind = "break_glass"

(* An operator's inhibit, once a poll has taken it up, takes the lease     *)
(* file away from the Studio's frontend until it expires: neither a vote,  *)
(* nor a hand-back, nor a proof in hand brings the file back meanwhile.    *)
InhibitWithdraws ==
    \A m \in Studios :
        seen[m].kind = "inhibit" /\ seen[m].expires > now =>
            leaseFile[m] = NoLease

-----------------------------------------------------------------------------
(* The inductive invariant behind AtMostOneQuorumHost *)

(* The grants that name c as candidate and are in c's hands. *)
Held(c) ==
    replies[c] \cup received[c] \cup proof[c] \cup leaseFile[c].grants

(* Some other member holds a current vote of m. *)
VoteOut(m) ==
    \E c \in Others(m) : \E g \in Held(c) : g.voter = m /\ Current(g, now)

(* Votes only go up in priority, nobody is asked for a vote of his own, and *)
(* a voter keeps one grant per term.                                       *)
VotesGoUp ==
    /\ \A r \in requests : r.voter # r.candidate
    /\ \A m \in Members :
        /\ \A g \in issued[m] : g.voter = m /\ g.candidate \in Higher(m)
        /\ \A g, h \in issued[m] : g.term = h.term => g = h
        /\ \A g \in Held(m) :
               g.candidate = m /\ (g.voter = m \/ m \in Higher(g.voter))
        /\ \A g \in replies[m] : g.voter # m

(* A process that is down takes no step and has forgotten everything. *)
DownForgets ==
    \A m \in Members : ~up[m] =>
        pc[m] = "boot" /\ role[m] = "standby" /\ issued[m] = {}

(* Nothing outlives one lease from now, and no poll is ahead of the clock. *)
Horizons ==
    \A m \in Members :
        /\ moment[m] <= now
        /\ \A g \in Held(m) \cup issued[m] : g.expires <= now + Lease

(* A voter that is up remembers every current vote it gave, or is fenced   *)
(* until the votes its predecessor gave have expired.                      *)
VotesBacked ==
    \A c \in Members : \A g \in Held(c) :
        g.voter # c /\ Current(g, now) /\ up[g.voter] =>
            \/ fence[g.voter] >= g.expires
            \/ \E h \in issued[g.voter] :
                   h.candidate = c /\ h.expires >= g.expires

FenceRespected ==
    \A m \in Members :
        issued[m] # {} \/ role[m] # "standby" => fence[m] <= now

(* No member's vote is current in the hands of two others. *)
OneVoteOut ==
    \A c, d \in Members : \A g \in Held(c), h \in Held(d) :
        /\ g.voter = h.voter /\ g.voter \notin {c, d}
        /\ Current(g, now) /\ Current(h, now)
        => c = d

(* A proof is a vote of one's own and a vote of another, held only while   *)
(* elected, and a running Studio's lease file shows no other.              *)
TwoVoters(m, p) ==
    p # {} => \E own, other \in p : own.voter = m /\ other.voter # m

ProofsSound ==
    \A m \in Members :
        /\ TwoVoters(m, proof[m]) /\ TwoVoters(m, leaseFile[m].grants)
        /\ proof[m] # {} => role[m] = "elected"
        /\ up[m] /\ m # Core => leaseFile[m].grants = proof[m]
        /\ m = Core => leaseFile[m].grants = {}

(* A promotion without a proof rests on a break-glass override. *)
GlassOrProof ==
    \A m \in Members :
        role[m] = "elected" =>
            proof[m] # {} \/ seen[m].kind = "break_glass"

(* What edge-a's record of core says about time.  With a limit of two, the *)
(* only run of misses that has not condemned core yet is one miss long.    *)
CoreRecord == live[EdgeA][Core]

RecordDated ==
    /\ CoreRecord.failures = 0 <=> CoreRecord.downSince = NoTime
    /\ CoreRecord.downSince <= moment[EdgeA]
    /\ CoreRecord.health = "unreachable" =>
           /\ CoreRecord.since # NoTime /\ CoreRecord.since <= moment[EdgeA]
    /\ CoreRecord.health # "unreachable" /\ CoreRecord.downSince # NoTime =>
           /\ CoreRecord.failures < FailureLimit
           /\ pc[EdgeA] # "probing" => CoreRecord.downSince = moment[EdgeA]

OwnVotes == {g \in received[EdgeA] : g.voter = EdgeA}

(* While edge-a may vote for core, or such a vote is current, its own old  *)
(* vote expires within a lease of the first miss that could condemn core.  *)
OwnVoteAgeing ==
    /\ \A g \in OwnVotes : g.expires <= moment[EdgeA] + Lease
    /\ CoreRecord.health # "unreachable" \/ VoteOut(EdgeA) =>
           \A g \in OwnVotes :
               /\ CoreRecord.downSince # NoTime =>
                      g.expires <= CoreRecord.downSince + Lease
               /\ CoreRecord.health = "unreachable" =>
                      g.expires <= CoreRecord.since + Lease

(* While its vote for core is current, edge-a serves by break glass only. *)
NoServiceWhileVoting ==
    VoteOut(EdgeA) =>
        /\ leaseFile[EdgeA].grants = {}
        /\ role[EdgeA] = "elected" =>
               \A g \in OwnVotes : g.expires <= moment[EdgeA]

(* What holds of the votes whatever the thresholds are. *)
BallotInv ==
    /\ VotesGoUp /\ DownForgets /\ Horizons /\ VotesBacked /\ FenceRespected
    /\ OneVoteOut /\ ProofsSound /\ GlassOrProof

(* What holds of the age of edge-a's own vote. *)
AgeingInv == RecordDated /\ OwnVoteAgeing /\ NoServiceWhileVoting

(* The thresholds with which edge-a's own vote has expired when its        *)
(* patience with core has.  The shipped limit of three misses is not one.  *)
Timely == LeaseWithinPromotion /\ FailureLimit <= 2

(* Who remembers which vote, across losses and restarts: what a quorum     *)
(* host's authority rests on, and with timely thresholds how old it is.    *)
ElectionInv == BallotInv /\ (Timely => AgeingInv)

=============================================================================
