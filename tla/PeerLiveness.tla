---------------------------- MODULE PeerLiveness ----------------------------
(***************************************************************************)
(* How one member of the failover tier classifies its peers               *)
(* (coire_core/failover_poller.py, class PeerLiveness).                    *)
(*                                                                         *)
(* A prober keeps one record per peer.  `Note` folds the result of one     *)
(* heartbeat into the record; the election reads only `health` and         *)
(* `since` of it.  A prober that has not classified a peer yet has no      *)
(* entry for it, which is the health "unknown" here.                       *)
(***************************************************************************)
EXTENDS Integers

CONSTANTS FailureLimit,  \* node_probe_failures_before_unreachable
          RecoveryBeats  \* the poller passes the same setting

(* The constructor refuses damping of less than one beat. *)
ASSUME DampingAssumption ==
    FailureLimit \in Nat \ {0} /\ RecoveryBeats \in Nat \ {0}

(* A dictionary that has no entry for the peer. *)
NoTime == -1
Times == Nat \cup {NoTime}

(* What a probe reports: no valid signed answer, an answer within the     *)
(* latency budget, or an answer above it.                                  *)
Beats == {"miss", "ok", "slow"}

Healths == {"unknown", "healthy", "degraded", "unreachable"}

LivenessRecords ==
    [failures : Nat, recoveries : Nat, health : Healths,
     since : Times, downSince : Times]

Unprobed ==
    [failures |-> 0, recoveries |-> 0, health |-> "unknown",
     since |-> NoTime, downSince |-> NoTime]

(* A missed beat starts or lengthens a run of misses; the run condemns the *)
(* peer when it reaches the limit, dated from its first miss.              *)
NoteMiss(l, t) ==
    LET start   == IF l.downSince = NoTime THEN t ELSE l.downSince
        reached == l.failures + 1 >= FailureLimit
    IN  [failures   |-> l.failures + 1,
         recoveries |-> 0,
         health     |-> IF reached THEN "unreachable" ELSE l.health,
         since      |-> IF reached THEN start ELSE l.since,
         downSince  |-> start]

(* A slow answer is an answer: it ends the run of misses at once, and also *)
(* any recovery that was being counted.                                    *)
NoteSlow(l, t) ==
    [failures   |-> 0,
     recoveries |-> 0,
     health     |-> "degraded",
     since      |-> IF l.health = "degraded" THEN l.since ELSE t,
     downSince  |-> NoTime]

(* A prompt answer from a condemned or degraded peer counts towards its    *)
(* recovery; from any other peer it is plain health.                       *)
NoteOk(l, t) ==
    LET damped    == l.health \in {"unreachable", "degraded"}
        recovered == damped /\ l.recoveries + 1 >= RecoveryBeats
    IN  [failures   |-> 0,
         recoveries |-> IF recovered THEN 0
                        ELSE IF damped THEN l.recoveries + 1
                        ELSE l.recoveries,
         health     |-> IF damped /\ ~recovered THEN l.health ELSE "healthy",
         since      |-> IF recovered THEN t
                        ELSE IF damped THEN l.since
                        ELSE IF l.since = NoTime THEN t ELSE l.since,
         downSince  |-> NoTime]

Note(l, beat, t) ==
    CASE beat = "miss" -> NoteMiss(l, t)
      [] beat = "slow" -> NoteSlow(l, t)
      [] beat = "ok"   -> NoteOk(l, t)

=============================================================================
