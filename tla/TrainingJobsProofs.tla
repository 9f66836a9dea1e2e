------------------------- MODULE TrainingJobsProofs -------------------------
(***************************************************************************)
(* The training job, for every finite set of Studios, every set of job     *)
(* specs and every bound: a Studio whose memory core has given back trains *)
(* no more, an update a trainer was told is durable is never trained       *)
(* again, and only a job whose last update is committed is published.      *)
(***************************************************************************)
EXTENDS TrainingJobs, WellFoundedInduction, TLAPS

-----------------------------------------------------------------------------
(* The inductive invariant *)

(* Only the newest attempt is active, and only in a job that is at work. *)
AttemptInv ==
    /\ \A f \in Attempts :
          /\ f < F => att[f].state = "stopped"
          /\ f = F => att[f].state \in Active \cup {"stopped"}
          /\ f > F => att[f].state = None
    /\ Busy => job.state \in {"reserving", "running", "pausing", "recovering",
                              "cancelling"}

(* The attempt has no trainer on the Studio and never will have one. *)
Dead(f, n) ==
    /\ proc[f][n] \notin Alive
    /\ proc[f][n] = None => node[f][n].at \notin {None, "prepared"}

(* Calls and trainers belong to participants, and what is proved stopped   *)
(* is dead for good.                                                       *)
CallsInv == \A c \in calls : c[2] <= F /\ c[3] \in att[c[2]].team

TrainerInvAt(f, n) ==
    /\ proc[f][n] # None => node[f][n].at \notin {None, "rejected"}
    /\ proc[f][n] \in Alive => f <= F /\ n \in att[f].team
    /\ n \in att[f].team /\ att[f].state = "stopped" => Dead(f, n)
    /\ f = F /\ n \in att[f].team /\ row[n].proof => Dead(f, n)

TrainerInv == \A f \in Attempts, n \in Nodes : TrainerInvAt(f, n)

(* How far the newest checkpoint of the newest attempt has come: written   *)
(* and reported, staging, committed, acknowledged.                         *)
CommittedAt(f, u) == u >= 1 /\ ckpt[<<f, u>>] = "committed"

StagingAt(f) ==
    LET w == work[f] IN
    /\ \A u \in 1 .. MaxUpdates : u > w.done => ckpt[<<f, u>>] = None
    /\ \A n \in Nodes : "staged" \in box[n] =>
          /\ n = Lead(f) /\ w.phase = "wait"
          /\ w.done >= 1 /\ ckpt[<<f, w.done>>] = None
    /\ \A n \in Nodes : row[n].ack =>
          /\ n \in att[f].team \ w.acked /\ w.phase = "wait"
          /\ CommittedAt(f, w.done)
    /\ w.acked # {} => CommittedAt(f, w.done)
    /\ w.done >= 1 /\ ckpt[<<f, w.done>>] \in {"staging", "replicating"} =>
          w.phase = "wait"

StagingInv ==
    \A f \in Attempts : f = F /\ att[f].state \in Active => StagingAt(f)

FutureInv ==
    \A f \in Attempts : f > F =>
        work[f] = Idle /\ \A u \in 1 .. MaxUpdates : ckpt[<<f, u>>] = None

(* What the job and its trainers count on is committed, and a job that     *)
(* waits to be admitted again knows the newest checkpoint.                 *)
LatestInv ==
    /\ job.latest[2] # 0 => job.latest \in DOMAIN ckpt /\ ckpt[job.latest] = "committed"
    /\ job.state \in {"queued", "preflighting", "paused"} =>
          \A x \in DOMAIN ckpt : ckpt[x] = "committed" => job.latest[2] >= x[2]
    /\ job.state \in {"finalizing", "succeeded"} =>
          F # 0 /\ ckpt[<<F, Updates>>] = "committed"

KeptInv ==
    /\ \A f \in Attempts : work[f].kept # 0 => CommittedAt(f, work[f].kept)
    /\ AckedIsKept

TrainingInv ==
    /\ TypeOK /\ AttemptInv /\ CallsInv /\ TrainerInv
    /\ StagingInv /\ FutureInv /\ LatestInv /\ KeptInv

-----------------------------------------------------------------------------
(* Facts about the constants and the newest checkpoint *)

(* The bounds are whole numbers, and a job has at least one update. *)
LEMMA Bounds ==
    /\ MaxUpdates \in Nat /\ MaxFence \in Nat /\ MaxFence > 0
    /\ MaxRecoveries \in Nat /\ MaxControls \in Nat /\ MaxTroubles \in Nat
    /\ \A s \in Specs : s.updates \in 1 .. MaxUpdates
BY ModelAssumption

(* A nonempty set of natural numbers has a least member. *)
LEMMA Least ==
    ASSUME NEW T \in SUBSET Nat, T # {}
    PROVE  \E x \in T : \A y \in T : x <= y
<1>1. PICK x \in T : \A y \in T : ~(<<y, x>> \in OpToRel(<, Nat))
  BY WFMin, NatLessThanWellFounded
<1>2. \A y \in T : ~(y < x)
  BY <1>1 DEF OpToRel
<1> QED BY <1>2

CkptType == ckpt \in [Attempts \X (1 .. MaxUpdates) ->
                        {None, "staging", "replicating", "committed"}]

(* recovery_checkpoint returns a committed checkpoint that no other one    *)
(* surpasses, or says that there is none.                                  *)
LEMMA NewestIs ==
    ASSUME CkptType
    PROVE  /\ Newest \in (0 .. MaxFence) \X (0 .. MaxUpdates)
           /\ Newest[2] # 0 => Newest \in DOMAIN ckpt /\ ckpt[Newest] = "committed"
           /\ \A x \in DOMAIN ckpt : ckpt[x] = "committed" => Newest[2] >= x[2]
<1> DEFINE done == {x \in DOMAIN ckpt : ckpt[x] = "committed"}
           Top(x) == \A y \in done : x[2] > y[2] \/ (x[2] = y[2] /\ x[1] >= y[1])
<1>0. done \subseteq Attempts \X (1 .. MaxUpdates) /\ MaxUpdates \in Nat /\ MaxFence \in Nat
  BY Bounds DEF CkptType
<1>1. CASE done = {}
  <2>1. Newest = <<0, 0>>
    BY <1>1 DEF Newest
  <2> QED BY <1>0, <1>1, <2>1
<1>2. CASE done # {}
  <2>1. \E x \in done : Top(x)
    <3> DEFINE U == {MaxUpdates - x[2] : x \in done}
    <3>1. U \subseteq Nat /\ U # {}
      BY <1>0, <1>2
    <3>2. PICK u \in U : \A v \in U : u <= v
      BY <3>1, Least
    <3>3. PICK a \in done : u = MaxUpdates - a[2]
      BY <3>2
    <3>4. ASSUME NEW y \in done PROVE a[2] >= y[2]
      <4>1. MaxUpdates - y[2] \in U
        OBVIOUS
      <4>2. a[2] \in 1 .. MaxUpdates /\ y[2] \in 1 .. MaxUpdates
        BY <1>0
      <4>3. MaxUpdates - a[2] <= MaxUpdates - y[2]
        BY <3>2, <3>3, <4>1
      <4> QED BY <1>0, <4>2, <4>3
    <3> DEFINE G == {MaxFence - x[1] : x \in {z \in done : z[2] = a[2]}}
    <3>5. G \subseteq Nat /\ G # {}
      BY <1>0, <3>3 DEF Attempts
    <3>6. PICK g \in G : \A v \in G : g <= v
      BY <3>5, Least
    <3>7. PICK b \in done : b[2] = a[2] /\ g = MaxFence - b[1]
      BY <3>6
    <3>8. \A y \in done : y[2] = a[2] => b[1] >= y[1]
      BY <1>0, <3>6, <3>7 DEF Attempts
    <3>9. Top(b)
      BY <1>0, <3>4, <3>7, <3>8
    <3> QED BY <3>7, <3>9
  <2>2. Newest \in done /\ Top(Newest)
    BY <1>2, <2>1 DEF Newest
  <2>3. Newest \in Attempts \X (1 .. MaxUpdates)
    BY <1>0, <2>2
  <2> QED BY <1>0, <2>2, <2>3 DEF Attempts
<1> QED BY <1>1, <1>2

-----------------------------------------------------------------------------
(* The parts of the type invariant *)

AtWork == {"reserving", "running", "pausing", "recovering", "cancelling"}
JobStates == {"queued", "preflighting", "reserving", "running", "pausing", "paused",
              "recovering", "cancelling", "finalizing"} \cup Terminal

JobRecord == [state : JobStates, spec : Specs, origin : {None, "admin", "protective"},
              fence : 0 .. MaxFence, latest : (0 .. MaxFence) \X (0 .. MaxUpdates),
              retries : 0 .. MaxRecoveries]
AttemptRecord == [state : {None, "stopped"} \cup Active,
                  team : SUBSET Nodes, from : 0 .. MaxUpdates]
RowRecord == [prep : {"pending", "sent", "ready"},
              start : {None, "pending", "sent", "done"},
              stop : {None, "open", "void"}, pause : {None, "open", "done"},
              ack : BOOLEAN, pid : BOOLEAN, proof : BOOLEAN]
NodeRecord == [at : {None, "rejected", "prepared", "unsure", "stopped"},
               released : BOOLEAN, lease : BOOLEAN, pause : BOOLEAN]
WorkRecord == [done : 0 .. MaxUpdates, phase : {"train", "wait", "leave"},
               acked : SUBSET Nodes, kept : 0 .. MaxUpdates]

JobType == job \in JobRecord
AttType == att \in [Attempts -> AttemptRecord]
RowType == row \in [Nodes -> RowRecord]
NodeType == node \in [Attempts -> [Nodes -> NodeRecord]]
ProcType == proc \in [Attempts -> [Nodes -> {None, "gone", "lost"} \cup Alive]]
WorkType == work \in [Attempts -> WorkRecord]
BoxType == box \in [Nodes -> SUBSET {"staged", "failure"}]
CallsType == calls \subseteq {"prepare", "start"} \X Attempts \X Nodes \X BOOLEAN
ClockTypes ==
    /\ due \in [core : BOOLEAN, command : BOOLEAN]
    /\ over \in [queue : BOOLEAN, authority : BOOLEAN]
    /\ spent \in [controls : 0 .. MaxControls, troubles : 0 .. MaxTroubles]

(* The type invariant is the conjunction of its parts. *)
LEMMA TypeParts ==
    /\ TypeOK <=> /\ JobType /\ AttType /\ RowType /\ NodeType /\ ProcType /\ WorkType
                  /\ BoxType /\ CallsType /\ CkptType /\ ClockTypes
    /\ TypeOK' <=> /\ JobType' /\ AttType' /\ RowType' /\ NodeType' /\ ProcType'
                   /\ WorkType' /\ BoxType' /\ CallsType' /\ CkptType' /\ ClockTypes'
BY DEF TypeOK, JobType, AttType, RowType, NodeType, ProcType, WorkType, BoxType,
    CallsType, CkptType, ClockTypes, JobRecord, JobStates, AttemptRecord, RowRecord,
    NodeRecord, WorkRecord

(* A job that has an attempt has a valid fence. *)
LEMMA BusyFence ==
    ASSUME JobType, F # 0
    PROVE  F \in Attempts
BY Bounds DEF JobType, JobRecord, F, Attempts

-----------------------------------------------------------------------------
(* The moves of the job's row and of the attempts' rows *)

(* The job's state changes, not what it counts on. *)
SameJob == job'.spec = job.spec /\ job'.fence = job.fence

Steady ==
    /\ SameJob /\ job'.latest = job.latest /\ UNCHANGED att
    /\ \/ job'.state = job.state \/ job'.state \in AtWork
       \/ ~Busy /\ job'.state \in {"failed", "cancelled"}

Working ==
    /\ Busy /\ SameJob /\ job'.latest = job.latest /\ job'.state \in AtWork
    /\ \E a \in Active : att' = [att EXCEPT ![F].state = a]

Queueing ==
    /\ ~Busy /\ SameJob /\ UNCHANGED att
    /\ {job.state, job'.state} \subseteq {"queued", "preflighting", "paused"}
    /\ job'.latest \in {job.latest, Newest}

Finishing ==
    /\ ~Busy /\ SameJob /\ UNCHANGED att /\ job'.latest = job.latest
    /\ \/ Trained /\ job'.state = "finalizing"
       \/ job.state = "finalizing" /\ job'.state = "succeeded"

Stopping ==
    /\ Busy /\ SameJob /\ att' = [att EXCEPT ![F].state = "stopped"]
    /\ \/ job'.state \in {"cancelled", "recovering"} /\ job'.latest = job.latest
       \/ job'.state = "paused" /\ job'.latest = Newest

(* A proof that is not the last one, and the one that is. *)
Proves(n) ==
    row' = [row EXCEPT ![n].proof = TRUE] /\ UNCHANGED <<job, att, due, work, box>>

Closes(n) ==
    /\ AllProved([row EXCEPT ![n].proof = TRUE]) /\ Stopping
    /\ row' = [m \in Nodes |-> Fresh]
    /\ due' = [due EXCEPT !.core = FALSE]
    /\ work' = [work EXCEPT ![F] = [Idle EXCEPT !.kept = work[F].kept]]
    /\ box' = [m \in Nodes |-> {}]

(* What core has a proof of: the participant is dead. *)
Proven(n) == Busy /\ n \in Team /\ \E f \in Attempts : f = F /\ Dead(f, n)'

CoreMove == \/ Steady \/ Working \/ Queueing \/ Finishing \/ Commit
            \/ \E n \in Nodes : Proven(n) /\ Closes(n)
            \/ \E team \in SUBSET Nodes : Admit(team)

(* record_stop_proof notes a proof or, with the last one, ends the attempt. *)
LEMMA ProofMoves ==
    ASSUME JobType, AttemptInv, Busy, NEW n, RecordProof(n)
    PROVE  Proves(n) \/ Closes(n)
<1> DEFINE all == AllProved([row EXCEPT ![n].proof = TRUE])
<1>1. CASE ~all
  BY <1>1 DEF RecordProof, Proves
<1>2. CASE all
  <2>1. /\ att' = [att EXCEPT ![F].state = "stopped"]
        /\ job' = CASE job.state = "cancelling" -> [job EXCEPT !.state = "cancelled"]
                    [] job.state = "pausing" ->
                         [job EXCEPT !.state = "paused", !.latest = Newest]
                    [] job.state \in Terminal \cup {"finalizing"} -> job
                    [] OTHER -> [job EXCEPT !.state = "recovering"]
    BY <1>2 DEF RecordProof
  <2>2. job.state \in AtWork
    BY DEF AttemptInv, AtWork
  <2>3. \/ job' = [job EXCEPT !.state = "cancelled"]
        \/ job' = [job EXCEPT !.state = "paused", !.latest = Newest]
        \/ job' = [job EXCEPT !.state = "recovering"]
    BY <2>1, <2>2 DEF AtWork, Terminal
  <2>4. Stopping
    BY <2>1, <2>3 DEF Stopping, SameJob, JobType, JobRecord
  <2> QED BY <1>2, <2>4 DEF RecordProof, Closes
<1> QED BY <1>1, <1>2

(* reduce_command_receipt, seen from the job. *)
LEMMA StartMoves ==
    ASSUME JobType, AttemptInv, NEW n, ReduceStart(n)
    PROVE  Steady \/ Working
<1>1. CASE UNCHANGED <<job, att>>
  BY <1>1 DEF Steady, SameJob
<1>2. CASE ~UNCHANGED <<job, att>>
  <2>1. Busy /\ job.state \in AtWork
    BY <1>2 DEF ReduceStart, AttemptInv, AtWork
  <2>2. /\ job' = [job EXCEPT !.state = "running"] \/ UNCHANGED job
        /\ \/ att' = [att EXCEPT ![F].state = "running"]
           \/ att' = [att EXCEPT ![F].state = "stopping"]
    BY <1>2 DEF ReduceStart
  <2> QED BY <2>1, <2>2 DEF Working, SameJob, JobType, JobRecord, AtWork, Active
<1> QED BY <1>1, <1>2

(* What time alone leaves alone. *)
LEMMA PassKeeps ==
    ASSUME Pass
    PROVE  UNCHANGED <<job, att, row, ckpt, proc, work, box, calls>>
BY DEF Pass, QueueDeadline, AuthorityEnds, CoreLapse, CommandLapse, NodeLapse, nodeVars

(* What the watchdogs and the trainers leave alone. *)
LEMMA OperateKeeps ==
    ASSUME Operate
    PROVE  UNCHANGED <<job, att, row, due, ckpt, over, calls>>
<1>1. PICK f \in Attempts : \/ Train(f) \/ Continue(f)
                            \/ \E n \in Nodes : \/ Watchdog(f, n) \/ Leave(f, n)
                                                \/ Killed(f, n) \/ Fails(f, n)
  BY DEF Operate
<1> QED BY <1>1 DEF Train, Continue, Watchdog, Leave, Killed, Fails, Ends

(* The job's row keeps its type. *)
LEMMA JobStep ==
    ASSUME JobType, CkptType, AttemptInv, WorkType, [Next]_vars
    PROVE  JobType'
<1> USE DEF JobType
<1>0. ASSUME NEW s \in JobStates, NEW o \in {None, "admin", "protective"},
             NEW l \in {job.latest, Newest},
             \/ UNCHANGED job \/ job' = [job EXCEPT !.state = s]
             \/ job' = [job EXCEPT !.state = s, !.origin = o]
             \/ job' = [job EXCEPT !.state = s, !.latest = l]
             \/ job' = [job EXCEPT !.state = s, !.origin = o, !.latest = l]
      PROVE  JobType'
  <2>1. l \in (0 .. MaxFence) \X (0 .. MaxUpdates)
    BY <1>0, NewestIs DEF JobRecord
  <2> QED BY <1>0, <2>1 DEF JobRecord
<1> DEFINE Formed == \E s \in JobStates, o \in {None, "admin", "protective"},
                        l \in {job.latest, Newest} :
                          \/ UNCHANGED job \/ job' = [job EXCEPT !.state = s]
                          \/ job' = [job EXCEPT !.state = s, !.origin = o]
                          \/ job' = [job EXCEPT !.state = s, !.latest = l]
                          \/ job' = [job EXCEPT !.state = s, !.origin = o, !.latest = l]
<1>1. Formed => JobType'
  BY <1>0
<1>2. CASE \/ AdvanceQueueTimeout \/ AdvanceCancel \/ AdvanceRecover \/ AdvanceQueued
           \/ AdvanceFinalizing \/ AdvanceExhausted \/ AdmitWaits \/ AdmitImpossible
           \/ MirrorExpires \/ Finalize \/ Cancel
  <2>1. \E s \in JobStates : job' = [job EXCEPT !.state = s]
    BY <1>2 DEF AdvanceQueueTimeout, AdvanceCancel, AdvanceRecover, AdvanceQueued,
        AdvanceFinalizing, AdvanceExhausted, AdmitWaits, AdmitImpossible,
        MirrorExpires, Finalize, Cancel, JobStates, Terminal
  <2> QED BY <1>1, <2>1
<1>3. ASSUME NEW f, NEW n, NEW awaited,
             \/ ServeStart(f, n, awaited) \/ Spawn(f, n, awaited)
             \/ Ingest(n) \/ ObserveFails(n)
      PROVE  JobType'
  <2>1. UNCHANGED job \/ \E s \in JobStates : job' = [job EXCEPT !.state = s]
    BY <1>3 DEF ServeStart, Spawn, ReduceStart, Ingest, ObserveFails, JobStates
  <2> QED BY <1>1, <2>1
<1>4. CASE Breach \/ Pause
  <2>1. \E s \in JobStates, o \in {None, "admin", "protective"} :
           job' = [job EXCEPT !.state = s, !.origin = o]
    BY <1>4 DEF Breach, Pause, JobStates
  <2> QED BY <1>1, <2>1
<1>5. CASE Resume \/ ResumeAutomatic
  <2>1. \E l \in {job.latest, Newest} :
           job' = [job EXCEPT !.state = "queued", !.origin = None, !.latest = l]
    BY <1>5 DEF Resume, ResumeAutomatic, Requeue
  <2> QED BY <1>1, <2>1 DEF JobStates
<1>6. ASSUME NEW n \in Nodes, SendStop(n) \/ Observe(n) PROVE JobType'
  <2>1. CASE RecordProof(n)
    <3>1. \/ UNCHANGED job
          \/ job' = [job EXCEPT !.state = "cancelled"]
          \/ job' = [job EXCEPT !.state = "paused", !.latest = Newest]
          \/ job' = [job EXCEPT !.state = "recovering"]
      BY <2>1 DEF RecordProof
    <3> QED BY <1>1, <3>1 DEF JobStates, Terminal
  <2>2. CASE ~RecordProof(n)
    <3>1. UNCHANGED job \/ job' = [job EXCEPT !.state = "recovering"]
      BY <1>6, <2>2 DEF SendStop, Observe
    <3> QED BY <1>1, <3>1 DEF JobStates
  <2> QED BY <2>1, <2>2
<1>7. CASE Commit
  <2>1. F \in Attempts
    BY <1>7, BusyFence DEF Commit, CurrentAttempt, Busy
  <2>2. <<F, work[F].done>> \in (0 .. MaxFence) \X (0 .. MaxUpdates)
    BY <2>1 DEF WorkType, WorkRecord, Attempts
  <2>3. UNCHANGED job \/ job' = [job EXCEPT !.latest = <<F, work[F].done>>]
    BY <1>7 DEF Commit
  <2> QED BY <2>2, <2>3 DEF JobRecord
<1>8. ASSUME NEW team \in SUBSET Nodes, Admit(team) PROVE JobType'
  <2>1. PICK l \in {job.latest, Newest}, r \in 0 .. MaxRecoveries :
            job' = [job EXCEPT !.state = "reserving", !.fence = F + 1, !.latest = l,
                               !.retries = r]
    <3>1. job.retries \in 0 .. MaxRecoveries
      BY DEF JobRecord
    <3>2. CASE job.state = "recovering"
      <4>1. job.retries + 1 \in 0 .. MaxRecoveries
        BY <1>8, <3>1, <3>2, Bounds DEF Admit
      <4> QED BY <1>8, <3>2, <4>1 DEF Admit, F
    <3>3. CASE job.state # "recovering"
      BY <1>8, <3>1, <3>3 DEF Admit, F
    <3> QED BY <3>2, <3>3
  <2>2. l \in (0 .. MaxFence) \X (0 .. MaxUpdates)
    BY <2>1, NewestIs DEF JobRecord
  <2>3. F + 1 \in 0 .. MaxFence
    BY <1>8, Bounds DEF Admit, F, JobRecord
  <2> QED BY <2>1, <2>2, <2>3 DEF JobRecord, JobStates
<1>9. CASE \/ AdvancePause \/ AdvanceReserving \/ Mirror \/ Pass \/ Operate
           \/ \E n \in Nodes : \/ SendPrepare(n) \/ SendStart(n) \/ SendPause(n)
                               \/ SendAck(n)
  <2>1. UNCHANGED job
    BY <1>9, OperateKeeps, PassKeeps DEF AdvancePause, AdvanceReserving, Mirror,
        SendPrepare, SendStart, SendPause, SendAck
  <2> QED BY <2>1
<1>10. ASSUME NEW f, NEW n,
              \/ \E c \in calls : CallLate(c)
              \/ AgentCrash(f, n) \/ \E awaited \in BOOLEAN : ServePrepare(f, n, awaited)
       PROVE  JobType'
  <2>1. UNCHANGED job
    BY <1>10 DEF CallLate, AgentCrash, ServePrepare
  <2> QED BY <2>1
<1>11. CASE UNCHANGED vars
  BY <1>11 DEF vars
<1> QED
  BY <1>2, <1>3, <1>4, <1>5, <1>6, <1>7, <1>8, <1>9, <1>10, <1>11
  DEF Next, Advance, Dispatch, Serve, Follow, Administer

(* The attempts' rows keep their type. *)
LEMMA AttStep ==
    ASSUME JobType, CkptType, AttType, CoreMove
    PROVE  AttType'
<1>1. ASSUME NEW a \in {None, "stopped"} \cup Active, Busy,
             att' = [att EXCEPT ![F].state = a]
      PROVE  AttType'
  <2>1. F \in Attempts
    BY <1>1, BusyFence DEF Busy
  <2> QED BY <1>1, <2>1 DEF AttType, AttemptRecord
<1>2. ASSUME NEW team \in SUBSET Nodes, Admit(team) PROVE AttType'
  <2>1. PICK l \in {job.latest, Newest} :
           att' = [att EXCEPT ![F + 1] = [state |-> "preparing", team |-> team,
                                          from |-> l[2]]]
    BY <1>2 DEF Admit
  <2>2. l[2] \in 0 .. MaxUpdates
    BY <2>1, NewestIs DEF JobType, JobRecord
  <2> QED BY <2>1, <2>2 DEF AttType, AttemptRecord, Active
<1>3. CASE Steady \/ Queueing \/ Finishing \/ Commit
  BY <1>3 DEF Steady, Queueing, Finishing, Commit, AttType
<1> QED BY <1>1, <1>2, <1>3 DEF CoreMove, Working, Closes, Stopping

(* Only the newest attempt is active, and only in a job at work. *)
LEMMA AttemptStep ==
    ASSUME JobType, AttType, AttemptInv, CoreMove
    PROVE  AttemptInv'
<1> USE DEF JobType, JobRecord, F
<1>0. /\ F \in 0 .. MaxFence /\ MaxFence \in Nat
      /\ \A f \in Attempts : f \in Int
      /\ Active \cap {None, "stopped"} = {}
  BY Bounds DEF Attempts, Active, None
<1>1. CASE Steady \/ Queueing \/ Finishing \/ Commit
  <2>1. UNCHANGED att /\ F' = F
    BY <1>1 DEF Steady, Queueing, Finishing, Commit, SameJob
  <2>2. Busy' <=> Busy
    BY <2>1 DEF Busy
  <2>3. Busy => job'.state \in AtWork
    <3>1. CASE Commit
      BY <3>1 DEF Commit, AttemptInv, AtWork
    <3> QED BY <1>1, <3>1 DEF Steady, Queueing, Finishing, AttemptInv, AtWork
  <2> QED BY <2>1, <2>2, <2>3 DEF AttemptInv, AtWork
<1>2. CASE Working \/ Stopping
  <2>1. PICK a \in Active \cup {"stopped"} :
           att' = [att EXCEPT ![F].state = a] /\ (a \in Active => job'.state \in AtWork)
    BY <1>0, <1>2 DEF Working, Stopping
  <2>2. F \in Attempts /\ F' = F
    BY <1>2, BusyFence DEF Working, Stopping, Busy, SameJob
  <2>3. /\ att'[F].state = a
        /\ \A f \in Attempts : f # F => att'[f].state = att[f].state
    BY <2>1, <2>2 DEF AttType, AttemptRecord
  <2> QED BY <1>0, <2>1, <2>2, <2>3 DEF AttemptInv, Busy, AtWork
<1>3. ASSUME NEW team \in SUBSET Nodes, Admit(team) PROVE AttemptInv'
  <2>1. /\ ~Busy /\ F + 1 \in Attempts /\ F' = F + 1 /\ job'.state = "reserving"
        /\ att'[F + 1].state = "preparing"
        /\ \A f \in Attempts : f # F + 1 => att'[f] = att[f]
    BY <1>0, <1>3 DEF Admit, Attempts, AttType
  <2>2. \A f \in Attempts : f <= F => att[f].state = "stopped"
    BY <1>0, <2>1 DEF AttemptInv, Busy, Active, Attempts
  <2> QED BY <1>0, <2>1, <2>2 DEF AttemptInv, Active
<1> QED BY <1>1, <1>2, <1>3 DEF CoreMove, Closes

-----------------------------------------------------------------------------
(* What core knows of the participants *)

(* Two tables of participants agree on proofs and acknowledgements. *)
SameMarks(r, s) ==
    /\ s \in [Nodes -> RowRecord]
    /\ \A n \in Nodes : s[n].proof = r[n].proof /\ s[n].ack = r[n].ack

(* Renaming commands and enqueueing them leave proofs and acks alone. *)
LEMMA RenamedMarks ==
    ASSUME NEW r \in [Nodes -> RowRecord]
    PROVE  SameMarks(r, Renamed(r))
<1>1. ASSUME NEW n \in Nodes
      PROVE  /\ Renamed(r)[n] \in RowRecord
             /\ Renamed(r)[n].proof = r[n].proof /\ Renamed(r)[n].ack = r[n].ack
  <2>1. PICK s \in {None, "open", "void"}, p \in {None, "open", "done"} :
           Renamed(r)[n] = [r[n] EXCEPT !.stop = s, !.pause = p]
    <3>1. r[n].stop \in {None, "open", "void"} /\ r[n].pause \in {None, "open", "done"}
      BY DEF RowRecord
    <3> QED BY <3>1 DEF Renamed
  <2>2. r[n] \in RowRecord
    OBVIOUS
  <2> QED BY <2>1, <2>2 DEF RowRecord
<1>2. Renamed(r) \in [Nodes -> RowRecord]
  BY <1>1 DEF Renamed
<1> QED BY <1>1, <1>2 DEF SameMarks

(* enqueue_controls writes commands only. *)
LEMMA ToldMarks ==
    ASSUME NEW r \in [Nodes -> RowRecord], NEW c \in {"stop", "pause"}
    PROVE  SameMarks(r, Told(r, c))
<1>1. ASSUME NEW n \in Nodes
      PROVE  /\ Told(r, c)[n] \in RowRecord
             /\ Told(r, c)[n].proof = r[n].proof /\ Told(r, c)[n].ack = r[n].ack
  <2>1. r[n] \in RowRecord
    OBVIOUS
  <2>2. Told(r, c)[n] = r[n] \/ Told(r, c)[n] = [r[n] EXCEPT ![c] = "open"]
    BY DEF Told
  <2>3. CASE c = "stop"
    BY <2>1, <2>2, <2>3 DEF RowRecord
  <2>4. CASE c = "pause"
    BY <2>1, <2>2, <2>4 DEF RowRecord
  <2> QED BY <2>3, <2>4
<1>2. Told(r, c) \in [Nodes -> RowRecord]
  BY <1>1 DEF Told
<1> QED BY <1>1, <1>2 DEF SameMarks

(* A receipt changes commands and the known process of one participant. *)
LEMMA ReceiptMarks ==
    ASSUME RowType, NEW n \in Nodes,
           NEW r \in {row, [row EXCEPT ![n].prep = "sent"], [row EXCEPT ![n].prep = "ready"],
                      [row EXCEPT ![n].start = "sent"], [row EXCEPT ![n].stop = "void"],
                      [row EXCEPT ![n].pid = TRUE],
                      [row EXCEPT ![n].pause = "done", ![n].pid = TRUE],
                      [row EXCEPT ![n].start = "done", ![n].pid = TRUE]}
    PROVE  SameMarks(row, r)
<1>1. row[n] \in RowRecord
  BY DEF RowType
<1>2. PICK v \in RowRecord :
         r = [row EXCEPT ![n] = v] /\ v.proof = row[n].proof /\ v.ack = row[n].ack
  <2>1. r = row => r = [row EXCEPT ![n] = row[n]]
    BY DEF RowType
  <2>2. \A v \in {[row[n] EXCEPT !.prep = "sent"], [row[n] EXCEPT !.prep = "ready"],
                  [row[n] EXCEPT !.start = "sent"], [row[n] EXCEPT !.stop = "void"],
                  [row[n] EXCEPT !.pid = TRUE],
                  [row[n] EXCEPT !.pause = "done", !.pid = TRUE],
                  [row[n] EXCEPT !.start = "done", !.pid = TRUE]} :
           v \in RowRecord /\ v.proof = row[n].proof /\ v.ack = row[n].ack
    BY <1>1 DEF RowRecord
  <2> QED BY <1>1, <2>1, <2>2
<1> QED BY <1>2 DEF SameMarks, RowType

(* Marks that agree with marks that agree, agree. *)
LEMMA MarksCompose ==
    ASSUME NEW r, NEW s, NEW t, SameMarks(r, s), SameMarks(s, t)
    PROVE  SameMarks(r, t)
BY DEF SameMarks

(* The table of participants: marks are kept, a Studio that is dead gets   *)
(* its proof, a checkpoint is committed or acknowledged, or the table      *)
(* starts afresh.                                                          *)
RowMove ==
    \/ SameMarks(row, row')
    \/ \E n \in Nodes : Proven(n) /\ (Proves(n) \/ Closes(n))
    \/ Commit \/ \E n \in Nodes : SendAck(n)
    \/ \E team \in SUBSET Nodes : Admit(team)

(* The table keeps its type. *)
LEMMA RowStep ==
    ASSUME RowType, AttType, JobType, RowMove
    PROVE  RowType'
<1>1. CASE SameMarks(row, row')
  BY <1>1 DEF SameMarks, RowType
<1>2. Fresh \in RowRecord
  BY DEF Fresh, RowRecord
<1>3. ASSUME NEW n, Closes(n) PROVE RowType'
  BY <1>2, <1>3 DEF Closes, RowType
<1>4. ASSUME NEW n \in Nodes, Proves(n) PROVE RowType'
  <2>1. [row[n] EXCEPT !.proof = TRUE] \in RowRecord
    BY DEF RowType, RowRecord
  <2> QED BY <1>4, <2>1 DEF Proves, RowType
<1>5. CASE Commit
  <2>1. ASSUME NEW n \in Nodes PROVE [row[n] EXCEPT !.ack = n \in Team] \in RowRecord
    <3>1. row[n] \in RowRecord /\ (n \in Team) \in BOOLEAN
      BY DEF RowType
    <3> QED BY <3>1, Zenon DEF RowRecord
  <2> QED BY <1>5, <2>1 DEF Commit, RowType
<1>6. ASSUME NEW n \in Nodes, SendAck(n) PROVE RowType'
  <2>1. [row[n] EXCEPT !.ack = FALSE] \in RowRecord
    BY DEF RowType, RowRecord
  <2> QED BY <1>6, <2>1 DEF SendAck, RowType
<1>7. ASSUME NEW team, Admit(team) PROVE RowType'
  BY <1>2, <1>7 DEF Admit, RowType
<1> QED BY <1>1, <1>3, <1>4, <1>5, <1>6, <1>7 DEF RowMove

-----------------------------------------------------------------------------
(* The Studios *)

ProcStates == {None, "gone", "lost"} \cup Alive

(* A step leaves the attempt's record on the Studio, or marks one that is  *)
(* there as stopped or unsure; a trainer that is there may end.            *)
Stays(f, n) ==
    /\ proc'[f][n] = proc[f][n] \/ (proc[f][n] \in Alive /\ proc'[f][n] # None)
    /\ \/ node'[f][n].at = node[f][n].at
       \/ /\ node[f][n].at \notin {None, "rejected"}
          /\ node'[f][n].at \in {"stopped", "unsure"}

(* An attempt the Studio does not know is prepared or rejected. *)
Answers(f, n) ==
    /\ proc'[f][n] = proc[f][n] /\ node[f][n].at = None
    /\ node'[f][n].at \in {"prepared", "rejected"}
    /\ \E awaited \in BOOLEAN : <<"prepare", f, n, awaited>> \in calls

(* A stop of an attempt without a record rejects it for good. *)
Rejects(f, n) ==
    /\ proc'[f][n] = proc[f][n] /\ node[f][n].at \in {None, "rejected"}
    /\ node'[f][n].at = "rejected"

(* A prepared attempt starts. *)
Begins(f, n) ==
    /\ proc[f][n] = None /\ proc'[f][n] = "due"
    /\ node[f][n].at = "prepared" /\ node'[f][n].at = "prepared"
    /\ \E awaited \in BOOLEAN : <<"start", f, n, awaited>> \in calls

TrainerMove(f, n) == Stays(f, n) \/ Answers(f, n) \/ Rejects(f, n) \/ Begins(f, n)

(* Only one trainer's record and process are written. *)
Writes(g, m, v, p) ==
    node' = [node EXCEPT ![g][m] = v] /\ proc' = [proc EXCEPT ![g][m] = p]

(* A write of values of the right type changes that trainer only. *)
LEMMA WriteOne ==
    ASSUME NodeType, ProcType, NEW g \in Attempts, NEW m \in Nodes,
           NEW v \in NodeRecord, NEW p \in ProcStates, Writes(g, m, v, p)
    PROVE  /\ NodeType' /\ ProcType' /\ node'[g][m] = v /\ proc'[g][m] = p
           /\ \A f \in Attempts, n \in Nodes : <<f, n>> # <<g, m>> => Stays(f, n)
<1>1. NodeType' /\ node'[g][m] = v
  BY DEF Writes, NodeType
<1>2. ProcType' /\ proc'[g][m] = p
  BY DEF Writes, ProcType, ProcStates
<1>3. ASSUME NEW f \in Attempts, NEW n \in Nodes, <<f, n>> # <<g, m>>
      PROVE  node'[f][n] = node[f][n] /\ proc'[f][n] = proc[f][n]
  BY <1>3 DEF Writes, NodeType, ProcType
<1> QED BY <1>1, <1>2, <1>3 DEF Stays

StudioGoal == NodeType' /\ ProcType' /\ \A f \in Attempts, n \in Nodes : TrainerMove(f, n)

(* It is enough to look at the trainer that is written. *)
LEMMA WriteMoves ==
    ASSUME NodeType, ProcType, NEW g \in Attempts, NEW m \in Nodes,
           NEW v \in NodeRecord, NEW p \in ProcStates, Writes(g, m, v, p),
           node'[g][m] = v /\ proc'[g][m] = p => TrainerMove(g, m)
    PROVE  StudioGoal
BY WriteOne DEF StudioGoal, TrainerMove

(* A step that writes no record. *)
LEMMA NoWrite ==
    ASSUME NodeType, ProcType, UNCHANGED <<node, proc>>
    PROVE  StudioGoal
BY DEF StudioGoal, NodeType, ProcType, TrainerMove, Stays

(* Changes of a record that keep its type. *)
LEMMA NodeRecords ==
    ASSUME NEW v \in NodeRecord
    PROVE  /\ [v EXCEPT !.at = "prepared", !.lease = TRUE] \in NodeRecord
           /\ [v EXCEPT !.at = "rejected"] \in NodeRecord
           /\ [v EXCEPT !.at = "unsure"] \in NodeRecord
           /\ [v EXCEPT !.lease = TRUE] \in NodeRecord
           /\ [v EXCEPT !.lease = FALSE] \in NodeRecord
           /\ [v EXCEPT !.pause = TRUE] \in NodeRecord
           /\ [v EXCEPT !.released = TRUE] \in NodeRecord
           /\ [v EXCEPT !.lease = FALSE, !.pause = FALSE] \in NodeRecord
           /\ Blank \in NodeRecord
           /\ [Blank EXCEPT !.at = "stopped"] \in NodeRecord
           /\ [Blank EXCEPT !.at = "stopped", !.released = TRUE] \in NodeRecord
BY DEF NodeRecord, Blank

(* prepare *)
LEMMA PrepareMoves ==
    ASSUME NodeType, ProcType, NEW f \in Attempts, NEW n \in Nodes,
           NEW awaited \in BOOLEAN, ServePrepare(f, n, awaited)
    PROVE  StudioGoal
<1>1. node[f][n] \in NodeRecord /\ proc[f][n] \in ProcStates
  BY DEF NodeType, ProcType, ProcStates
<1>2. CASE UNCHANGED node
  BY <1>2, NoWrite DEF ServePrepare
<1>3. ASSUME NEW v \in {[node[f][n] EXCEPT !.at = "prepared", !.lease = TRUE],
                        [node[f][n] EXCEPT !.at = "rejected"]},
             node[f][n].at = None, node' = [node EXCEPT ![f][n] = v]
      PROVE  StudioGoal
  <2>1. v \in NodeRecord
    BY <1>1, <1>3, NodeRecords
  <2>2. Writes(f, n, v, proc[f][n])
    BY <1>3 DEF Writes, ServePrepare, ProcType
  <2>3. v.at \in {"prepared", "rejected"}
    BY <1>1, <1>3 DEF NodeRecord
  <2>4. node'[f][n] = v /\ proc'[f][n] = proc[f][n] => TrainerMove(f, n)
    BY <1>3, <2>3 DEF TrainerMove, Answers, ServePrepare
  <2> QED BY <1>1, <2>1, <2>2, <2>4, WriteMoves
<1>4. [node EXCEPT ![f][n].at = "prepared", ![f][n].lease = TRUE]
        = [node EXCEPT ![f][n] = [node[f][n] EXCEPT !.at = "prepared", !.lease = TRUE]]
  BY DEF NodeType
<1>5. \/ UNCHANGED node
      \/ /\ node[f][n].at = None
         /\ \E v \in {[node[f][n] EXCEPT !.at = "prepared", !.lease = TRUE],
                     [node[f][n] EXCEPT !.at = "rejected"]} :
              node' = [node EXCEPT ![f][n] = v]
  BY <1>4 DEF ServePrepare
<1> QED BY <1>2, <1>3, <1>5

(* start, the spawn, and an agent that dies in between. *)
LEMMA StartTrainer ==
    ASSUME NodeType, ProcType, NEW f \in Attempts, NEW n \in Nodes,
           NEW awaited \in BOOLEAN,
           \/ ServeStart(f, n, awaited) \/ Spawn(f, n, awaited) \/ AgentCrash(f, n)
    PROVE  StudioGoal
<1>1. node[f][n] \in NodeRecord /\ proc[f][n] \in ProcStates
  BY DEF NodeType, ProcType, ProcStates
<1>2. CASE UNCHANGED <<node, proc>>
  BY <1>2, NoWrite
<1>3. CASE /\ MayStart(f, n) /\ <<"start", f, n, awaited>> \in calls
           /\ node' = [node EXCEPT ![f][n].lease = TRUE]
           /\ proc' = [proc EXCEPT ![f][n] = "due"]
  <2> DEFINE v == [node[f][n] EXCEPT !.lease = TRUE]
  <2>1. v \in NodeRecord /\ v.at = node[f][n].at
    BY <1>1 DEF NodeRecord
  <2>2. Writes(f, n, v, "due")
    BY <1>3 DEF Writes
  <2>3. node'[f][n] = v /\ proc'[f][n] = "due" => TrainerMove(f, n)
    BY <1>3, <2>1 DEF TrainerMove, Begins, MayStart
  <2> QED BY <2>1, <2>2, <2>3, WriteMoves DEF ProcStates, Alive
<1>4. CASE /\ proc[f][n] = "due" /\ UNCHANGED node
           /\ \E left \in {"live", "stray", "lost"} : proc' = [proc EXCEPT ![f][n] = left]
  <2>1. PICK left \in {"live", "stray", "lost"} : proc' = [proc EXCEPT ![f][n] = left]
    BY <1>4
  <2>2. Writes(f, n, node[f][n], left)
    BY <1>4, <2>1 DEF Writes, NodeType
  <2>3. node'[f][n] = node[f][n] /\ proc'[f][n] = left => TrainerMove(f, n)
    BY <1>4, <2>1 DEF TrainerMove, Stays, Alive, None
  <2> QED BY <1>1, <2>1, <2>2, <2>3, WriteMoves DEF ProcStates, Alive, Running
<1> QED BY <1>2, <1>3, <1>4 DEF ServeStart, Spawn, AgentCrash

(* The node's stop: afterwards the attempt is dead there. *)
LEMMA StopMoves ==
    ASSUME NodeType, ProcType, TrainerInv, NEW f \in Attempts, NEW n \in Nodes,
           StopOnNode(f, n), proc[f][n] \notin {"due", "lost"}
    PROVE  StudioGoal /\ Dead(f, n)'
<1> DEFINE v == StoppedNode(node[f][n])
           p == IF proc[f][n] \in Running THEN "gone" ELSE proc[f][n]
<1>1. node[f][n] \in NodeRecord /\ proc[f][n] \in ProcStates
  BY DEF NodeType, ProcType, ProcStates
<1>2. proc[f][n] # None => node[f][n].at \notin {None, "rejected"}
  BY DEF TrainerInv, TrainerInvAt
<1>3. CASE node[f][n].at \in {None, "rejected"}
  <2>1. v \in NodeRecord /\ v.at = "rejected" /\ p = None /\ proc[f][n] = None
    <3>1. v = [node[f][n] EXCEPT !.at = "rejected"]
      BY <1>3 DEF StoppedNode
    <3>2. v \in NodeRecord /\ v.at = "rejected"
      BY <1>1, <3>1 DEF NodeRecord
    <3> QED BY <1>2, <1>3, <3>2 DEF Running, None
  <2>2. Writes(f, n, v, p)
    BY DEF Writes, StopOnNode
  <2>3. node'[f][n] = v /\ proc'[f][n] = p => TrainerMove(f, n)
    BY <1>3, <2>1 DEF TrainerMove, Rejects
  <2>4. StudioGoal /\ node'[f][n] = v /\ proc'[f][n] = p
    BY <2>1, <2>2, <2>3, WriteMoves, WriteOne DEF ProcStates
  <2> QED BY <2>1, <2>4 DEF Dead, Alive, Running, None
<1>4. CASE node[f][n].at \notin {None, "rejected"}
  <2>1. v \in NodeRecord /\ v.at = "stopped"
    <3>1. v = [Blank EXCEPT !.at = "stopped", !.released = TRUE]
      BY <1>4 DEF StoppedNode
    <3> QED BY <3>1 DEF Blank, NodeRecord
  <2>2. p \in ProcStates /\ p \notin Alive /\ (p = proc[f][n]
            \/ (proc[f][n] \in Alive /\ p # None))
    BY <1>1 DEF ProcStates, Alive, Running, None
  <2>3. Writes(f, n, v, p)
    BY DEF Writes, StopOnNode
  <2> HIDE DEF v, p
  <2>4. node'[f][n] = v /\ proc'[f][n] = p => TrainerMove(f, n)
    BY <1>4, <2>1, <2>2 DEF TrainerMove, Stays
  <2>5. StudioGoal /\ node'[f][n] = v /\ proc'[f][n] = p
    BY <1>1, <2>1, <2>2, <2>3, <2>4, WriteMoves, WriteOne
  <2> QED BY <2>1, <2>2, <2>5 DEF Dead, None
<1> QED BY <1>3, <1>4

(* A stop that proves nothing leaves a record that never starts. *)
LEMMA UnsureMoves ==
    ASSUME NodeType, ProcType, NEW f \in Attempts, NEW n \in Nodes,
           UNCHANGED proc, proc[f][n] = "lost" \/ Held(f, n),
           node' = [node EXCEPT ![f][n].at = IF proc[f][n] = None THEN "unsure" ELSE @]
    PROVE  StudioGoal
<1> DEFINE v == [node[f][n] EXCEPT !.at = IF proc[f][n] = None THEN "unsure" ELSE @]
<1>1. node[f][n] \in NodeRecord /\ proc[f][n] \in ProcStates
  BY DEF NodeType, ProcType, ProcStates
<1>2. /\ v \in NodeRecord
      /\ v.at = node[f][n].at \/ (v.at = "unsure" /\ node[f][n].at \notin {None, "rejected"})
  BY <1>1 DEF NodeRecord, Held, Record, None
<1>3. Writes(f, n, v, proc[f][n])
  BY DEF Writes, ProcType
<1> HIDE DEF v
<1>4. node'[f][n] = v /\ proc'[f][n] = proc[f][n] => TrainerMove(f, n)
  BY <1>2 DEF TrainerMove, Stays
<1> QED BY <1>1, <1>2, <1>3, <1>4, WriteMoves

(* Leases, pauses and releases are no concern of the trainer's. *)
LEMMA MarkMoves ==
    ASSUME NodeType, ProcType, NEW f \in Attempts, NEW n \in Nodes, UNCHANGED proc,
           \/ node' = [node EXCEPT ![f][n].lease = FALSE]
           \/ node' = [node EXCEPT ![f][n].pause = TRUE]
           \/ node' = [node EXCEPT ![f][n].released = TRUE]
    PROVE  StudioGoal
<1>1. node[f][n] \in NodeRecord /\ proc[f][n] \in ProcStates
  BY DEF NodeType, ProcType, ProcStates
<1>2. PICK v \in NodeRecord : node' = [node EXCEPT ![f][n] = v] /\ v.at = node[f][n].at
  <2>1. \A v \in {[node[f][n] EXCEPT !.lease = FALSE], [node[f][n] EXCEPT !.pause = TRUE],
                  [node[f][n] EXCEPT !.released = TRUE]} :
           v \in NodeRecord /\ v.at = node[f][n].at
    BY <1>1 DEF NodeRecord
  <2> QED BY <2>1
<1>3. Writes(f, n, v, proc[f][n])
  BY <1>2 DEF Writes, ProcType
<1>4. node'[f][n] = v /\ proc'[f][n] = proc[f][n] => TrainerMove(f, n)
  BY <1>2 DEF TrainerMove, Stays
<1> QED BY <1>1, <1>2, <1>3, <1>4, WriteMoves

(* An observation names the process it finds. *)
LEMMA SeenMoves ==
    ASSUME NodeType, ProcType, NEW f \in Attempts, NEW n \in Nodes, UNCHANGED node,
           proc' = Seen(f, n)
    PROVE  StudioGoal
<1> DEFINE p == IF proc[f][n] = "stray" THEN "live" ELSE proc[f][n]
<1>1. node[f][n] \in NodeRecord /\ proc[f][n] \in ProcStates
  BY DEF NodeType, ProcType, ProcStates
<1>2. /\ p \in ProcStates
      /\ p = proc[f][n] \/ (proc[f][n] \in Alive /\ p # None)
  BY <1>1 DEF ProcStates, Alive, Running, None
<1>3. Writes(f, n, node[f][n], p)
  BY DEF Writes, Seen, NodeType
<1> HIDE DEF p
<1>4. node'[f][n] = node[f][n] /\ proc'[f][n] = p => TrainerMove(f, n)
  BY <1>2 DEF TrainerMove, Stays
<1> QED BY <1>1, <1>2, <1>3, <1>4, WriteMoves

(* The watchdog *)
LEMMA WatchdogMoves ==
    ASSUME NodeType, ProcType, NEW f \in Attempts, NEW n \in Nodes, Watchdog(f, n)
    PROVE  StudioGoal
<1> DEFINE v == [Blank EXCEPT !.at = "stopped"]
           p == IF proc[f][n] \in Running THEN "gone" ELSE proc[f][n]
<1>1. /\ node[f][n] \in NodeRecord /\ proc[f][n] \in ProcStates
      /\ node[f][n].at \notin {None, "rejected"}
  BY DEF NodeType, ProcType, ProcStates, Watchdog, Held, Record
<1>2. CASE node' = [node EXCEPT ![f][n].released = TRUE] /\ UNCHANGED proc
  BY <1>2, MarkMoves
<1>3. CASE proc' = Seen(f, n) /\ UNCHANGED node
  BY <1>3, SeenMoves
<1>4. CASE node' = [node EXCEPT ![f][n] = v] /\ proc' = [proc EXCEPT ![f][n] = p]
  <2>1. v \in NodeRecord /\ v.at = "stopped"
    BY DEF Blank, NodeRecord
  <2>2. p \in ProcStates /\ (p = proc[f][n] \/ (proc[f][n] \in Alive /\ p # None))
    BY <1>1 DEF ProcStates, Alive, Running, None
  <2>3. Writes(f, n, v, p)
    BY <1>4 DEF Writes
  <2> HIDE DEF v, p
  <2>4. node'[f][n] = v /\ proc'[f][n] = p => TrainerMove(f, n)
    BY <1>1, <2>1, <2>2 DEF TrainerMove, Stays
  <2> QED BY <2>1, <2>2, <2>3, <2>4, WriteMoves
<1> QED BY <1>2, <1>3, <1>4 DEF Watchdog

(* A trainer ends. *)
LEMMA EndMoves ==
    ASSUME NodeType, ProcType, NEW f \in Attempts, NEW n \in Nodes, Ends(f, n)
    PROVE  StudioGoal
<1> DEFINE v == [node[f][n] EXCEPT !.lease = FALSE, !.pause = FALSE]
<1>1. node[f][n] \in NodeRecord /\ proc[f][n] \in Running
  BY DEF NodeType, Ends
<1>2. PICK p \in {"gone", "lost"} : proc' = [proc EXCEPT ![f][n] = p]
  BY DEF Ends
<1>3. v \in NodeRecord /\ v.at = node[f][n].at
  BY <1>1 DEF NodeRecord
<1>4. [node EXCEPT ![f][n].lease = FALSE, ![f][n].pause = FALSE]
        = [node EXCEPT ![f][n] = v]
  BY DEF NodeType
<1>5. Writes(f, n, v, p)
  BY <1>2, <1>4 DEF Writes, Ends
<1> HIDE DEF v
<1>6. node'[f][n] = v /\ proc'[f][n] = p => TrainerMove(f, n)
  BY <1>1, <1>2, <1>3 DEF TrainerMove, Stays, Alive, None
<1> QED BY <1>2, <1>3, <1>5, <1>6, WriteMoves DEF ProcStates

(* A stop that is answered with a proof, or any other stop. *)
LEMMA StopProves ==
    ASSUME JobType, AttemptInv, NodeType, ProcType, TrainerInv,
           NEW n \in Nodes, SendStop(n)
    PROVE  \/ Proven(n) /\ (Proves(n) \/ Closes(n))
           \/ UNCHANGED <<job, att>> /\ row' \in {row, [row EXCEPT ![n].stop = "void"]}
<1>1. Busy /\ n \in Team /\ F \in Attempts /\ proc[F][n] # "due"
  BY BusyFence DEF SendStop, Busy
<1>2. CASE StopOnNode(F, n) /\ proc[F][n] # "lost" /\ RecordProof(n)
  <2>1. PICK f \in Attempts : f = F
    BY <1>1
  <2>2. Dead(f, n)'
    BY <1>1, <1>2, <2>1, StopMoves
  <2> QED BY <1>1, <1>2, <2>1, <2>2, ProofMoves DEF Proven
<1> QED BY <1>2 DEF SendStop

(* An observation that is a proof, or any other. *)
LEMMA ObserveProves ==
    ASSUME JobType, AttemptInv, NodeType, ProcType, TrainerInv,
           NEW n \in Nodes, Observe(n)
    PROVE  \/ Proven(n) /\ (Proves(n) \/ Closes(n))
           \/ Liveness(F, n) # "stopped"
<1>1. Busy /\ n \in Team /\ F \in Attempts
  BY BusyFence DEF Observe, Observed, Busy
<1>2. CASE Liveness(F, n) = "stopped"
  <2>1. PICK f \in Attempts : f = F
    BY <1>1
  <2>2. RecordProof(n)
    BY <1>2 DEF Observe
  <2>3. Dead(f, n)'
    <3>1. UNCHANGED node /\ proc' = Seen(f, n)
      BY <2>1 DEF Observe
    <3>2. /\ proc[f][n] # None => node[f][n].at \notin {None, "rejected"}
          /\ proc[f][n] \in {None, "gone", "lost"} \cup Alive
      BY DEF TrainerInv, TrainerInvAt, ProcType
    <3>3. \/ proc[f][n] = "gone"
          \/ proc[f][n] = None /\ node[f][n].at \in {"rejected", "stopped"}
      BY <1>2, <2>1, <3>2 DEF Liveness, Alive, Running, None
    <3>4. proc'[f][n] = proc[f][n]
      BY <3>1, <3>3 DEF Seen, ProcType, None
    <3> QED BY <3>1, <3>3, <3>4 DEF Dead, Alive, Running, None
  <2> QED BY <1>1, <2>1, <2>2, <2>3, ProofMoves DEF Proven
<1> QED BY <1>2

(* Whatever happens, the rows of the job and of its attempts make one of   *)
(* these moves.                                                            *)
LEMMA CoreMoves ==
    ASSUME JobType, AttemptInv, NodeType, ProcType, TrainerInv, [Next]_vars
    PROVE  CoreMove
<1> USE DEF CoreMove
<1>0. Busy => job.state \in AtWork
  BY DEF AttemptInv, AtWork
<1>1. ASSUME UNCHANGED <<job, att>> PROVE CoreMove
  BY <1>1 DEF Steady, SameJob
<1>2. CASE AdvanceQueueTimeout \/ AdvanceExhausted \/ AdmitImpossible
  BY <1>2 DEF AdvanceQueueTimeout, AdvanceExhausted, AdmitImpossible, QueueExpired, Steady, SameJob,
      JobType, JobRecord
<1>3. CASE AdvanceCancel \/ AdvanceRecover \/ MirrorExpires \/ Cancel
  <2>1. \/ ~Busy /\ job' = [job EXCEPT !.state = "cancelled"] /\ UNCHANGED att
        \/ /\ Busy /\ att' = [att EXCEPT ![F].state = "stopping"]
           /\ \/ job' = [job EXCEPT !.state = "cancelling"]
              \/ job' = [job EXCEPT !.state = "recovering"]
    BY <1>3 DEF AdvanceCancel, AdvanceRecover, MirrorExpires, Cancel, EnqueueStop,
        CurrentAttempt
  <2> QED BY <2>1 DEF Steady, Working, SameJob, JobType, JobRecord, AtWork, Active
<1>4. CASE AdvancePause \/ \E n \in Nodes : SendPause(n)
  <2>1. /\ Busy /\ UNCHANGED job
        /\ UNCHANGED att \/ att' = [att EXCEPT ![F].state = "stopping"]
    BY <1>4 DEF AdvancePause, SendPause, EnqueueStop, ObserveRunning
  <2> QED BY <1>0, <2>1 DEF Steady, Working, SameJob, Active
<1>5. CASE AdvanceQueued \/ AdmitWaits \/ Resume \/ ResumeAutomatic
  BY <1>5 DEF AdvanceQueued, AdmitWaits, Resume, ResumeAutomatic, Requeue, Queueing,
      SameJob, JobType, JobRecord
<1>6. CASE AdvanceFinalizing \/ Finalize
  <2>1. ~Busy
    BY <1>0, <1>6 DEF AdvanceFinalizing, Finalize, AtWork
  <2> QED BY <1>6, <2>1 DEF AdvanceFinalizing, Finalize, Finishing, Steady, SameJob,
          JobType, JobRecord
<1>7. ASSUME NEW n \in Nodes, SendStop(n) PROVE CoreMove
  BY <1>1, <1>7, StopProves DEF Proves
<1>8. ASSUME NEW f, NEW n, NEW awaited, ServeStart(f, n, awaited) \/ Spawn(f, n, awaited)
      PROVE  CoreMove
  <2>1. ReduceStart(n) \/ UNCHANGED <<job, att>>
    BY <1>8 DEF ServeStart, Spawn
  <2> QED BY <1>1, <2>1, StartMoves
<1>9. ASSUME NEW n \in Nodes, Observe(n) PROVE CoreMove
  <2>1. Busy
    BY <1>9 DEF Observe, Observed
  <2>2. \/ Proven(n) /\ (Proves(n) \/ Closes(n))
        \/ /\ att' = [att EXCEPT ![F].state = "unknown"]
           /\ UNCHANGED job \/ job' = [job EXCEPT !.state = "recovering"]
        \/ UNCHANGED job /\ \/ UNCHANGED att
                            \/ att' = [att EXCEPT ![F].state = "stopping"]
    BY <1>9, ObserveProves DEF Observe, ObserveRunning, EnqueueStop
  <2>3. CASE Proven(n) /\ (Proves(n) \/ Closes(n))
    BY <1>1, <2>3 DEF Proves
  <2>4. CASE ~(Proven(n) /\ (Proves(n) \/ Closes(n)))
    BY <1>0, <2>1, <2>2, <2>4 DEF Steady, Working, SameJob, JobType, JobRecord,
        AtWork, Active
  <2> QED BY <2>3, <2>4
<1>10. ASSUME NEW n \in Nodes, ObserveFails(n) PROVE CoreMove
  <2>1. /\ Busy /\ att' = [att EXCEPT ![F].state = "unknown"]
        /\ UNCHANGED job \/ job' = [job EXCEPT !.state = "recovering"]
    BY <1>10 DEF ObserveFails, Observed
  <2> QED BY <1>0, <2>1 DEF Working, SameJob, JobType, JobRecord, AtWork, Active
<1>11. CASE Breach \/ Pause \/ \E n \in Nodes : Ingest(n)
  <2>1. /\ UNCHANGED att
        /\ \/ UNCHANGED job \/ job' = [job EXCEPT !.state = "recovering"]
           \/ \E o : job' = [job EXCEPT !.state = "pausing", !.origin = o]
           \/ job.state = "queued"
                /\ job' = [job EXCEPT !.state = "paused", !.origin = "admin"]
    BY <1>11 DEF Breach, Pause, Ingest
  <2> QED BY <1>0, <2>1 DEF Steady, Queueing, SameJob, JobType, JobRecord, AtWork
<1>12. CASE \/ AdvanceReserving \/ Mirror \/ QueueDeadline \/ AuthorityEnds \/ CoreLapse
            \/ CommandLapse \/ \E n \in Nodes : SendPrepare(n) \/ SendStart(n) \/ SendAck(n)
  BY <1>1, <1>12 DEF AdvanceReserving, Mirror, QueueDeadline, AuthorityEnds, CoreLapse,
      CommandLapse, SendPrepare, SendStart, SendAck
<1>13. CASE Operate
  BY <1>1, <1>13, OperateKeeps
<1>14. ASSUME NEW f, NEW n,
              \/ \E c \in calls : CallLate(c)
              \/ AgentCrash(f, n) \/ NodeLapse(f, n)
              \/ \E awaited \in BOOLEAN : ServePrepare(f, n, awaited)
       PROVE  CoreMove
  <2>1. UNCHANGED <<job, att>>
    BY <1>14 DEF CallLate, AgentCrash, NodeLapse, ServePrepare
  <2> QED BY <1>1, <2>1
<1>15. CASE UNCHANGED vars
  BY <1>1, <1>15 DEF vars
<1> QED
  BY <1>2, <1>3, <1>4, <1>5, <1>6, <1>7, <1>8, <1>9, <1>10, <1>11, <1>12, <1>13, <1>14,
     <1>15
  DEF Next, Advance, Dispatch, Serve, Follow, Administer, Pass

(* Every step changes the table in one of these ways. *)
LEMMA RowMoves ==
    ASSUME JobType, AttemptInv, RowType, NodeType, ProcType, TrainerInv, [Next]_vars
    PROVE  RowMove
<1> USE DEF RowMove
<1>0. row \in [Nodes -> RowRecord]
  BY DEF RowType
<1>1. ASSUME NEW n \in Nodes,
             NEW r \in {row, [row EXCEPT ![n].prep = "sent"],
                        [row EXCEPT ![n].prep = "ready"],
                        [row EXCEPT ![n].start = "sent"], [row EXCEPT ![n].stop = "void"],
                        [row EXCEPT ![n].pid = TRUE],
                        [row EXCEPT ![n].pause = "done", ![n].pid = TRUE],
                        [row EXCEPT ![n].start = "done", ![n].pid = TRUE]},
             row' = r \/ row' = Renamed(r) \/ row' = Told(r, "stop")
      PROVE  RowMove
  <2>1. SameMarks(row, r)
    BY <1>1, ReceiptMarks
  <2>2. r \in [Nodes -> RowRecord]
    BY <2>1 DEF SameMarks
  <2>3. SameMarks(r, Renamed(r)) /\ SameMarks(r, Told(r, "stop"))
    BY <2>2, RenamedMarks, ToldMarks
  <2> QED BY <1>1, <2>1, <2>3, MarksCompose
<1>2. ASSUME \/ UNCHANGED row
             \/ \E c \in {"stop", "pause"} : \/ row' = Told(row, c)
                                             \/ row' = Told(Renamed(row), c)
             \/ row' = Renamed(row)
      PROVE  RowMove
  <2>1. SameMarks(row, Renamed(row)) /\ Renamed(row) \in [Nodes -> RowRecord]
    BY <1>0, RenamedMarks DEF SameMarks
  <2>2. \A c \in {"stop", "pause"} : /\ SameMarks(row, Told(row, c))
                                     /\ SameMarks(Renamed(row), Told(Renamed(row), c))
    BY <1>0, <2>1, ToldMarks
  <2>3. SameMarks(row, row)
    BY <1>0 DEF SameMarks
  <2> QED BY <1>2, <2>1, <2>2, <2>3, MarksCompose
<1>3. CASE \/ AdvanceCancel \/ AdvanceRecover \/ AdvancePause \/ MirrorExpires \/ Breach
           \/ Pause \/ Cancel
  BY <1>2, <1>3 DEF AdvanceCancel, AdvanceRecover, AdvancePause, MirrorExpires, Breach,
      Pause, Cancel, EnqueueStop
<1>4. CASE AdvanceReserving
  <2>1. ASSUME NEW n \in Nodes
        PROVE  /\ row'[n] \in RowRecord
               /\ row'[n].proof = row[n].proof /\ row'[n].ack = row[n].ack
    <3>1. row[n] \in RowRecord
      BY <1>0
    <3>2. row'[n] = row[n] \/ row'[n] = [row[n] EXCEPT !.start = "pending"]
      BY <1>4 DEF AdvanceReserving
    <3> QED BY <3>1, <3>2 DEF RowRecord
  <2>2. row' \in [Nodes -> RowRecord]
    BY <1>4, <2>1 DEF AdvanceReserving
  <2> QED BY <2>1, <2>2 DEF SameMarks
<1>5. ASSUME NEW n \in Nodes, SendPrepare(n) \/ SendStart(n) \/ SendPause(n)
      PROVE  RowMove
  BY <1>1, <1>5 DEF SendPrepare, SendStart, SendPause, ObserveRunning, EnqueueStop
<1>6. ASSUME NEW n \in Nodes, SendStop(n) PROVE RowMove
  BY <1>1, <1>6, StopProves
<1>7. ASSUME NEW f \in Attempts, NEW n \in Nodes, NEW awaited \in BOOLEAN,
             \/ ServePrepare(f, n, awaited) \/ ServeStart(f, n, awaited)
             \/ Spawn(f, n, awaited)
      PROVE  RowMove
  <2>1. \/ row' \in {row, [row EXCEPT ![n].prep = "ready"]} \/ ReduceStart(n)
    BY <1>7 DEF ServePrepare, ServeStart, Spawn
  <2>2. CASE ReduceStart(n)
    <3> DEFINE r == [row EXCEPT ![n].start = "done", ![n].pid = TRUE]
    <3>1. row' = row \/ row' = r \/ row' = Renamed(r)
      BY <2>2 DEF ReduceStart
    <3> QED BY <1>1, <3>1
  <2> QED BY <1>1, <2>1, <2>2
<1>8. ASSUME NEW n \in Nodes, Observe(n) PROVE RowMove
  <2>1. CASE Liveness(F, n) # "stopped"
    <3>1. UNCHANGED row \/ ObserveRunning([row EXCEPT ![n].pid = TRUE])
      BY <1>8, <2>1 DEF Observe
    <3> QED BY <1>1, <3>1 DEF ObserveRunning, EnqueueStop
  <2> QED BY <1>8, <2>1, ObserveProves
<1>9. ASSUME NEW n \in Nodes, ObserveFails(n) \/ Ingest(n) PROVE RowMove
  BY <1>2, <1>9 DEF ObserveFails, Ingest
<1>10. CASE Pass \/ Operate
  BY <1>2, <1>10, PassKeeps, OperateKeeps
<1>11. ASSUME NEW f, NEW n, AgentCrash(f, n) \/ \E c \in calls : CallLate(c)
       PROVE  RowMove
  BY <1>2, <1>11 DEF AgentCrash, CallLate
<1>12. CASE \/ AdvanceQueueTimeout \/ AdvanceQueued \/ AdvanceFinalizing
            \/ AdvanceExhausted \/ AdmitWaits \/ AdmitImpossible \/ Finalize
            \/ Resume \/ ResumeAutomatic \/ Mirror \/ UNCHANGED vars
  BY <1>2, <1>12 DEF AdvanceQueueTimeout, AdvanceQueued, AdvanceFinalizing,
      AdvanceExhausted, AdmitWaits, AdmitImpossible, Finalize, Resume, ResumeAutomatic,
      Requeue, Mirror, vars
<1> QED
  BY <1>3, <1>4, <1>5, <1>6, <1>7, <1>8, <1>9, <1>10, <1>11, <1>12
  DEF Next, Advance, Dispatch, Serve, Follow, Administer

(* Every step writes at most one trainer's record and process, in one of   *)
(* the ways above.                                                         *)
LEMMA TrainerMoves ==
    ASSUME JobType, NodeType, ProcType, TrainerInv, [Next]_vars
    PROVE  StudioGoal
<1>1. ASSUME NEW f \in Attempts, NEW n \in Nodes, NEW awaited \in BOOLEAN,
             \/ ServePrepare(f, n, awaited) \/ ServeStart(f, n, awaited)
             \/ Spawn(f, n, awaited) \/ AgentCrash(f, n)
      PROVE  StudioGoal
  BY <1>1, PrepareMoves, StartTrainer
<1>2. ASSUME NEW n \in Nodes, SendStop(n) PROVE StudioGoal
  <2>1. F \in Attempts /\ proc[F][n] # "due"
    BY <1>2, BusyFence DEF SendStop, Busy
  <2>2. CASE proc[F][n] # "lost" /\ StopOnNode(F, n)
    BY <2>1, <2>2, StopMoves
  <2>3. CASE ~(proc[F][n] # "lost" /\ StopOnNode(F, n))
    BY <1>2, <2>1, <2>3, UnsureMoves DEF SendStop
  <2> QED BY <2>2, <2>3
<1>3. ASSUME NEW n \in Nodes, SendPause(n) PROVE StudioGoal
  <2>1. F \in Attempts
    BY <1>3, BusyFence DEF SendPause, Busy
  <2> QED BY <1>3, <2>1, MarkMoves DEF SendPause
<1>4. ASSUME NEW n \in Nodes, Observe(n) PROVE StudioGoal
  <2>1. F \in Attempts
    BY <1>4, BusyFence DEF Observe, Observed, Busy
  <2> QED BY <1>4, <2>1, SeenMoves DEF Observe
<1>5. ASSUME NEW f \in Attempts, NEW n \in Nodes, NodeLapse(f, n) PROVE StudioGoal
  BY <1>5, MarkMoves DEF NodeLapse
<1>6. ASSUME NEW f \in Attempts, NEW n \in Nodes,
             Watchdog(f, n) \/ Leave(f, n) \/ Killed(f, n) \/ Fails(f, n)
      PROVE  StudioGoal
  BY <1>6, WatchdogMoves, EndMoves DEF Leave, Killed, Fails
<1>7. ASSUME NEW f, Train(f) \/ Continue(f) PROVE StudioGoal
  BY <1>7, NoWrite DEF Train, Continue
<1>8. ASSUME Advance PROVE StudioGoal
  <2>1. UNCHANGED <<node, proc>>
    BY <1>8 DEF Advance, AdvanceQueueTimeout, AdvanceCancel, AdvanceRecover,
        AdvancePause, AdvanceQueued, AdvanceFinalizing, AdvanceExhausted, AdmitWaits,
        AdmitImpossible, AdvanceReserving, Admit, nodeVars
  <2> QED BY <2>1, NoWrite
<1>9. ASSUME NEW n, \/ SendPrepare(n) \/ SendStart(n) \/ SendAck(n) \/ Ingest(n)
                    \/ ObserveFails(n) \/ Mirror \/ Commit \/ MirrorExpires \/ Breach
                    \/ Finalize
      PROVE  StudioGoal
  <2>1. UNCHANGED <<node, proc>>
    BY <1>9 DEF SendPrepare, SendStart, SendAck, Ingest, ObserveFails, Mirror, Commit,
        MirrorExpires, Breach, Finalize, nodeVars
  <2> QED BY <2>1, NoWrite
<1>10. ASSUME \/ Administer \/ QueueDeadline \/ AuthorityEnds \/ CoreLapse
              \/ CommandLapse \/ UNCHANGED vars \/ \E c \in calls : CallLate(c)
       PROVE  StudioGoal
  <2>1. UNCHANGED <<node, proc>>
    BY <1>10 DEF Administer, Pause, Resume, ResumeAutomatic, Requeue, Cancel,
        QueueDeadline, AuthorityEnds, CoreLapse, CommandLapse, CallLate, nodeVars, vars
  <2> QED BY <2>1, NoWrite
<1> QED
  BY <1>1, <1>2, <1>3, <1>4, <1>5, <1>6, <1>7, <1>8, <1>9, <1>10
  DEF Next, Dispatch, Serve, Follow, Pass, Operate

(* The fence never goes back, and who takes part in an attempt, and from   *)
(* which update, is settled with its admission.                            *)
LEMMA FenceKeeps ==
    ASSUME JobType, AttType, CoreMove, NEW f \in Attempts, f <= F
    PROVE  /\ F <= F' /\ f <= F'
           /\ att'[f].team = att[f].team /\ att'[f].from = att[f].from
<1>0. F \in 0 .. MaxFence /\ MaxFence \in Nat /\ f \in Int
  BY Bounds DEF JobType, JobRecord, F, Attempts
<1>1. CASE Steady \/ Queueing \/ Finishing \/ Commit
  BY <1>0, <1>1 DEF Steady, Queueing, Finishing, Commit, SameJob, F, JobType, JobRecord
<1>2. CASE Working \/ Stopping
  <2>1. F' = F /\ \E a : att' = [att EXCEPT ![F].state = a]
    BY <1>2 DEF Working, Stopping, SameJob, F
  <2> QED BY <1>0, <2>1 DEF AttType, AttemptRecord
<1>3. ASSUME NEW team, Admit(team)
      PROVE  /\ F <= F' /\ f <= F'
             /\ att'[f].team = att[f].team /\ att'[f].from = att[f].from
  <2>1. F' = F + 1 /\ \E a : att' = [att EXCEPT ![F + 1] = a]
    BY <1>3 DEF Admit, F, JobType, JobRecord
  <2> QED BY <1>0, <2>1 DEF AttType, Attempts
<1> QED BY <1>1, <1>2, <1>3 DEF CoreMove, Closes

(* Calls go to participants only. *)
LEMMA CallsStep ==
    ASSUME JobType, AttType, CallsType, CallsInv, CoreMove, [Next]_vars
    PROVE  CallsType' /\ CallsInv'
<1> DEFINE Kinds == {"prepare", "start"} \X Attempts \X Nodes \X BOOLEAN
           Good(c) == c \in Kinds /\ c[2] <= F' /\ c[3] \in att'[c[2]].team
<1>0. ASSUME NEW op \in {"prepare", "start"}, NEW f \in Attempts, NEW n \in Nodes,
             NEW b \in BOOLEAN, f <= F, n \in att[f].team
      PROVE  Good(<<op, f, n, b>>)
  <2>1. f <= F' /\ att'[f].team = att[f].team
    BY <1>0, FenceKeeps
  <2> QED BY <1>0, <2>1
<1>1. ASSUME NEW c \in calls
      PROVE  Good(c) /\ Good(<<c[1], c[2], c[3], FALSE>>)
  <2>1. PICK op \in {"prepare", "start"}, f \in Attempts, n \in Nodes, b \in BOOLEAN :
           c = <<op, f, n, b>>
    BY DEF CallsType
  <2>2. f <= F /\ n \in att[f].team
    BY <2>1 DEF CallsInv
  <2>3. Good(<<op, f, n, b>>) /\ Good(<<op, f, n, FALSE>>)
    BY <1>0, <2>2
  <2> QED BY <2>1, <2>3
<1>2. ASSUME \A c \in calls' : Good(c) PROVE CallsType' /\ CallsInv'
  BY <1>2 DEF CallsType, CallsInv
<1>3. ASSUME NEW n \in Nodes, SendPrepare(n) \/ SendStart(n)
      PROVE  CallsType' /\ CallsInv'
  <2>0. F \in Attempts /\ n \in att[F].team
    BY <1>3, BusyFence DEF SendPrepare, SendStart, MayDispatch, Busy, Team
  <2>1. F <= F
    BY <2>0, Bounds DEF Attempts
  <2>2. PICK op \in {"prepare", "start"} : calls' = calls \cup {<<op, F, n, TRUE>>}
    BY <1>3 DEF SendPrepare, SendStart
  <2>3. Good(<<op, F, n, TRUE>>)
    BY <1>0, <2>0, <2>1
  <2> HIDE DEF Good
  <2> QED BY <1>1, <1>2, <2>2, <2>3
<1>4. ASSUME NEW c \in calls, CallLate(c) PROVE CallsType' /\ CallsInv'
  <2> HIDE DEF Good
  <2> QED BY <1>1, <1>2, <1>4 DEF CallLate
<1>5. ASSUME NEW f, NEW n, NEW awaited,
             \/ ServePrepare(f, n, awaited) \/ ServeStart(f, n, awaited)
             \/ Spawn(f, n, awaited) \/ AgentCrash(f, n)
      PROVE  calls' \subseteq calls
  BY <1>5 DEF ServePrepare, ServeStart, Spawn, AgentCrash
<1>6. ASSUME Advance \/ Administer \/ Pass \/ Operate \/ UNCHANGED vars
      PROVE  UNCHANGED calls
  <2>1. CASE Advance
    BY <2>1 DEF Advance, AdvanceQueueTimeout, AdvanceCancel, AdvanceRecover,
        AdvancePause, AdvanceQueued, AdvanceFinalizing, AdvanceExhausted, AdmitWaits,
        AdmitImpossible, AdvanceReserving, Admit
  <2> QED BY <1>6, <2>1, PassKeeps, OperateKeeps DEF Administer, Pause, Resume,
          ResumeAutomatic, Requeue, Cancel, vars
<1>7. ASSUME NEW n, \/ SendStop(n) \/ SendPause(n) \/ SendAck(n) \/ Ingest(n) \/ Observe(n)
                    \/ ObserveFails(n) \/ Mirror \/ Commit \/ MirrorExpires \/ Breach
                    \/ Finalize
      PROVE  UNCHANGED calls
  BY <1>7 DEF SendStop, SendPause, SendAck, Ingest, Observe, ObserveFails, Mirror, Commit,
      MirrorExpires, Breach, Finalize
<1>8. ASSUME calls' \subseteq calls PROVE CallsType' /\ CallsInv'
  BY <1>1, <1>2, <1>8
<1> QED BY <1>3, <1>4, <1>5, <1>6, <1>7, <1>8 DEF Next, Dispatch, Serve, Follow

(* The dead stay dead. *)
LEMMA DeadStays ==
    ASSUME TrainerInv, NEW f \in Attempts, NEW n \in Nodes, Dead(f, n), TrainerMove(f, n)
    PROVE  Dead(f, n)'
<1>1. proc[f][n] # None => node[f][n].at \notin {None, "rejected"}
  BY DEF TrainerInv, TrainerInvAt
<1>2. CASE Stays(f, n)
  BY <1>2 DEF Dead, Stays, None
<1>3. CASE Answers(f, n)
  BY <1>1, <1>3 DEF Dead, Answers
<1>4. CASE Rejects(f, n)
  BY <1>4 DEF Dead, Rejects, None
<1>5. CASE Begins(f, n)
  BY <1>5 DEF Dead, Begins
<1> QED BY <1>2, <1>3, <1>4, <1>5 DEF TrainerMove

(* A proof core has was there before or is of a Studio that is dead, and   *)
(* the attempt is the same.                                                *)
LEMMA ProofsKept ==
    ASSUME JobType, RowType, CoreMove, RowMove, NEW m \in Nodes, row'[m].proof
    PROVE  F' = F /\ (row[m].proof \/ Proven(m))
<1>0. ~Fresh.proof
  BY DEF Fresh
<1>1. ASSUME NEW n \in Nodes, Closes(n) PROVE FALSE
  BY <1>0, <1>1 DEF Closes
<1>2. ASSUME NEW team, Admit(team) PROVE FALSE
  BY <1>0, <1>2 DEF Admit
<1>3. F' = F
  BY <1>1, <1>2 DEF CoreMove, Steady, Working, Queueing, Finishing, Commit, SameJob, F,
      JobType, JobRecord
<1>4. CASE SameMarks(row, row')
  BY <1>3, <1>4 DEF SameMarks
<1>5. ASSUME NEW n \in Nodes, Proven(n), Proves(n) PROVE row[m].proof \/ Proven(m)
  <2>1. m = n \/ row'[m] = row[m]
    BY <1>5 DEF Proves, RowType
  <2> QED BY <1>5, <2>1
<1>6. CASE Commit
  <2>1. row'[m] = [row[m] EXCEPT !.ack = m \in Team]
    BY <1>6 DEF Commit
  <2> QED BY <1>3, <2>1 DEF RowType, RowRecord
<1>7. ASSUME NEW n \in Nodes, SendAck(n) PROVE row[m].proof
  <2>1. row'[m] = row[m] \/ row'[m] = [row[m] EXCEPT !.ack = FALSE]
    BY <1>7 DEF SendAck, RowType
  <2> QED BY <2>1 DEF RowType, RowRecord
<1> QED BY <1>1, <1>2, <1>3, <1>4, <1>5, <1>6, <1>7 DEF RowMove

(* Trainers belong to participants, and what is proved stopped is dead. *)
LEMMA TrainerStep ==
    ASSUME JobType, AttType, RowType, AttemptInv, CallsType, CallsInv, TrainerInv,
           CoreMove, RowMove, StudioGoal
    PROVE  TrainerInv'
<1> SUFFICES ASSUME NEW f \in Attempts, NEW n \in Nodes PROVE TrainerInvAt(f, n)'
  BY DEF TrainerInv
<1>0. TrainerInvAt(f, n) /\ TrainerMove(f, n)
  BY DEF TrainerInv, StudioGoal
<1>1. proc'[f][n] # None => node'[f][n].at \notin {None, "rejected"}
  <2>1. CASE Stays(f, n)
    BY <1>0, <2>1 DEF Stays, TrainerInvAt, Alive, Running, None
  <2>2. CASE Answers(f, n) \/ Rejects(f, n)
    BY <1>0, <2>2 DEF Answers, Rejects, TrainerInvAt
  <2>3. CASE Begins(f, n)
    BY <2>3 DEF Begins, None
  <2> QED BY <1>0, <2>1, <2>2, <2>3 DEF TrainerMove
<1>2. ASSUME proc'[f][n] \in Alive PROVE f <= F' /\ n \in att'[f].team
  <2>1. f <= F /\ n \in att[f].team
    <3>1. CASE proc[f][n] \in Alive
      BY <1>0, <3>1 DEF TrainerInvAt
    <3>2. CASE proc[f][n] \notin Alive
      <4>1. Begins(f, n)
        BY <1>0, <1>2, <3>2 DEF TrainerMove, Stays, Answers, Rejects
      <4>2. PICK awaited \in BOOLEAN : <<"start", f, n, awaited>> \in calls
        BY <4>1 DEF Begins
      <4> QED BY <4>2 DEF CallsInv
    <3> QED BY <3>1, <3>2
  <2> QED BY <2>1, FenceKeeps
<1>3. ASSUME n \in att'[f].team, att'[f].state = "stopped" PROVE Dead(f, n)'
  <2>1. CASE att[f].state = "stopped" /\ att'[f].team = att[f].team
    BY <1>0, <1>3, <2>1, DeadStays DEF TrainerInvAt
  <2>2. CASE Steady \/ Queueing \/ Finishing \/ Commit
    <3>1. UNCHANGED att
      BY <2>2 DEF Steady, Queueing, Finishing, Commit
    <3> QED BY <1>3, <2>1, <3>1
  <2>3. CASE Working
    <3>1. PICK a \in Active : att' = [att EXCEPT ![F].state = a]
      BY <2>3 DEF Working
    <3>2. f # F /\ att'[f] = att[f]
      BY <1>3, <3>1 DEF AttType, AttemptRecord, Active
    <3> QED BY <1>3, <2>1, <3>2
  <2>4. ASSUME NEW m \in Nodes, Proven(m), Closes(m) PROVE Dead(f, n)'
    <3>1. att' = [att EXCEPT ![F].state = "stopped"]
      BY <2>4 DEF Closes, Stopping
    <3>2. CASE f # F
      BY <1>3, <2>1, <3>1, <3>2 DEF AttType
    <3>3. CASE f = F
      <4>1. n \in Team /\ n \in att[f].team
        BY <1>3, <2>4, <3>1, <3>3 DEF Team, Proven, Busy, AttType, AttemptRecord
      <4>2. n = m \/ row[n].proof
        BY <2>4, <4>1 DEF Closes, AllProved, RowType
      <4>3. CASE n = m
        BY <2>4, <3>3, <4>3 DEF Proven
      <4>4. CASE row[n].proof
        BY <1>0, <3>3, <4>1, <4>4, DeadStays DEF TrainerInvAt
      <4> QED BY <4>2, <4>3, <4>4
    <3> QED BY <3>2, <3>3
  <2>5. ASSUME NEW team, Admit(team) PROVE Dead(f, n)'
    <3>1. f # F + 1 /\ att'[f] = att[f]
      BY <1>3, <2>5 DEF Admit, AttType
    <3> QED BY <1>3, <2>1, <3>1
  <2> QED BY <2>2, <2>3, <2>4, <2>5 DEF CoreMove
<1>4. ASSUME f = F', n \in att'[f].team, row'[n].proof PROVE Dead(f, n)'
  <2>1. F' = F /\ (row[n].proof \/ Proven(n))
    BY <1>4, ProofsKept
  <2>2. n \in att[f].team
    <3>1. f = F /\ f <= F
      BY <1>4, <2>1, Bounds DEF Attempts
    <3> QED BY <1>4, <3>1, FenceKeeps
  <2>3. CASE row[n].proof
    BY <1>0, <1>4, <2>1, <2>2, <2>3, DeadStays DEF TrainerInvAt
  <2>4. CASE Proven(n)
    BY <1>4, <2>1, <2>4 DEF Proven
  <2> QED BY <2>1, <2>3, <2>4
<1> QED BY <1>1, <1>2, <1>3, <1>4 DEF TrainerInvAt

-----------------------------------------------------------------------------
(* The trainers' work and the checkpoints *)

(* Nothing happens to the work, the mailboxes, the checkpoints or the      *)
(* acknowledgements, and the attempt is the same.                          *)
Quiet ==
    /\ UNCHANGED <<work, box, ckpt>> /\ \A n \in Nodes : row'[n].ack = row[n].ack
    /\ Steady \/ Working \/ Queueing \/ Finishing

DataMove ==
    \/ Quiet \/ Mirror \/ Commit \/ \E n \in Nodes : SendAck(n) \/ Ingest(n)
    \/ UNCHANGED ckpt /\ \E n \in Nodes : Closes(n)
    \/ \E team \in SUBSET Nodes : Admit(team)
    \/ \E f \in Attempts : Train(f) \/ Continue(f) \/ \E n \in Nodes : Fails(f, n)

(* Every step is one of these. *)
LEMMA DataMoves ==
    ASSUME JobType, RowType, AttemptInv, CoreMove, RowMove, [Next]_vars
    PROVE  DataMove
<1>1. ASSUME UNCHANGED <<work, box, ckpt>> PROVE DataMove
  <2>1. ASSUME NEW n \in Nodes, Proves(n), NEW m \in Nodes PROVE row'[m].ack = row[m].ack
    <3>1. row'[m] = row[m] \/ row'[m] = [row[m] EXCEPT !.proof = TRUE]
      BY <2>1 DEF Proves, RowType
    <3> QED BY <3>1 DEF RowType, RowRecord
  <2>2. \/ \A m \in Nodes : row'[m].ack = row[m].ack
        \/ Commit \/ \E n \in Nodes : Closes(n) \/ SendAck(n)
        \/ \E team \in SUBSET Nodes : Admit(team)
    BY <2>1 DEF RowMove, SameMarks
  <2> QED BY <1>1, <2>2 DEF CoreMove, DataMove, Quiet
<1>2. ASSUME NEW n \in Nodes, SendStop(n) \/ Observe(n) PROVE DataMove
  <2>1. Busy /\ UNCHANGED ckpt /\ (RecordProof(n) \/ UNCHANGED <<work, box>>)
    BY <1>2 DEF SendStop, Observe, Observed
  <2> QED BY <1>1, <2>1, ProofMoves DEF Proves, DataMove
<1>3. CASE Advance
  <2>1. (\E team \in SUBSET Nodes : Admit(team)) \/ UNCHANGED <<work, box, ckpt>>
    BY <1>3 DEF Advance, AdvanceQueueTimeout, AdvanceCancel, AdvanceRecover,
        AdvancePause, AdvanceQueued, AdvanceFinalizing, AdvanceExhausted, AdmitWaits,
        AdmitImpossible, AdvanceReserving, nodeVars
  <2> QED BY <1>1, <2>1 DEF DataMove
<1>4. ASSUME NEW n \in Nodes,
             \/ SendPrepare(n) \/ SendStart(n) \/ SendPause(n) \/ ObserveFails(n)
             \/ MirrorExpires \/ Breach \/ Finalize
      PROVE  UNCHANGED <<work, box, ckpt>>
  BY <1>4 DEF SendPrepare, SendStart, SendPause, ObserveFails, MirrorExpires, Breach,
      Finalize, nodeVars
<1>5. ASSUME NEW f \in Attempts, NEW n \in Nodes, NEW awaited \in BOOLEAN,
             \/ ServePrepare(f, n, awaited) \/ ServeStart(f, n, awaited)
             \/ Spawn(f, n, awaited) \/ AgentCrash(f, n) \/ \E c \in calls : CallLate(c)
      PROVE  UNCHANGED <<work, box, ckpt>>
  BY <1>5 DEF ServePrepare, ServeStart, Spawn, AgentCrash, CallLate, nodeVars
<1>6. ASSUME Administer \/ Pass \/ UNCHANGED vars \/ MirrorExpires \/ Breach \/ Finalize
      PROVE  UNCHANGED <<work, box, ckpt>>
  BY <1>6, PassKeeps DEF Administer, Pause, Resume, ResumeAutomatic, Requeue, Cancel,
      nodeVars, vars, MirrorExpires, Breach, Finalize
<1>7. ASSUME NEW f \in Attempts, NEW n \in Nodes,
             Watchdog(f, n) \/ Leave(f, n) \/ Killed(f, n)
      PROVE  UNCHANGED <<work, box, ckpt>>
  BY <1>7 DEF Watchdog, Leave, Killed, Ends
<1>8. CASE Serve
  BY <1>1, <1>5, <1>8 DEF Serve, CallLate, nodeVars
<1>9. CASE Operate
  BY <1>1, <1>7, <1>9 DEF Operate, DataMove
<1>10. CASE Dispatch \/ Follow
  BY <1>1, <1>2, <1>4, <1>6, <1>10 DEF Dispatch, Follow, DataMove
<1> QED BY <1>1, <1>3, <1>6, <1>8, <1>9, <1>10 DEF Next

(* A trainer belongs to the newest attempt, which is active. *)
LEMMA AliveIsActive ==
    ASSUME JobType, AttemptInv, TrainerInv
    PROVE  StoppedIsDead
<1> SUFFICES ASSUME NEW f \in Attempts, NEW n \in Nodes, proc[f][n] \in Alive
             PROVE  f = F /\ att[f].state \in Active
  BY DEF StoppedIsDead
<1>1. F \in Int /\ f \in Int
  BY Bounds DEF JobType, JobRecord, F, Attempts
<1>2. f <= F /\ n \in att[f].team /\ ~Dead(f, n)
  BY DEF TrainerInv, TrainerInvAt, Dead
<1>3. att[f].state # "stopped"
  BY <1>2 DEF TrainerInv, TrainerInvAt
<1> QED BY <1>1, <1>2, <1>3 DEF AttemptInv

(* So is an attempt whose trainers run together. *)
LEMMA TogetherIsActive ==
    ASSUME JobType, AttType, AttemptInv, TrainerInv, NEW f \in Attempts, Together(f)
    PROVE  f = F /\ att[f].state \in Active
<1>1. PICK n \in att[f].team : proc[f][n] \in Alive
  BY DEF Together, Alive
<1>2. n \in Nodes
  BY <1>1 DEF AttType, AttemptRecord
<1> QED BY <1>1, <1>2, AliveIsActive DEF StoppedIsDead

(* The record of an attempt's work keeps its type; a trainer counts no     *)
(* further than the job's last update.                                     *)
LEMMA WorkStep ==
    ASSUME JobType, CkptType, WorkType, DataMove
    PROVE  WorkType'
<1>0. ASSUME NEW g \in Attempts, NEW w \in WorkRecord, work' = [work EXCEPT ![g] = w]
      PROVE  WorkType'
  BY <1>0 DEF WorkType
<1>1. CASE Quiet \/ Mirror \/ Commit \/ \E n \in Nodes : Ingest(n)
  BY <1>1 DEF Quiet, Mirror, Commit, Ingest, nodeVars, WorkType
<1>2. ASSUME NEW n \in Nodes, SendAck(n) PROVE WorkType'
  <2>1. F \in Attempts
    BY <1>2, BusyFence DEF SendAck, MayDispatch, Busy
  <2> DEFINE w == [work[F] EXCEPT !.acked = @ \cup {n}, !.kept = work[F].done]
  <2>2. w \in WorkRecord
    <3>1. work[F] \in WorkRecord
      BY <2>1 DEF WorkType
    <3> QED BY <3>1 DEF WorkRecord
  <2>3. work' = [work EXCEPT ![F] = w]
    BY <1>2, <2>1 DEF SendAck, WorkType
  <2> QED BY <1>0, <2>1, <2>2, <2>3
<1>3. ASSUME NEW n \in Nodes, Closes(n) PROVE WorkType'
  <2>1. F \in Attempts
    BY <1>3, BusyFence DEF Closes, Stopping, Busy
  <2>2. [Idle EXCEPT !.kept = work[F].kept] \in WorkRecord
    BY <2>1, Bounds DEF WorkType, WorkRecord, Idle
  <2> QED BY <1>0, <1>3, <2>1, <2>2 DEF Closes
<1>4. ASSUME NEW team \in SUBSET Nodes, Admit(team) PROVE WorkType'
  <2>1. PICK l \in {job.latest, Newest} : work' = [work EXCEPT ![F + 1].done = l[2]]
    BY <1>4 DEF Admit
  <2>2. l[2] \in 0 .. MaxUpdates
    BY <2>1, NewestIs DEF JobType, JobRecord
  <2> QED BY <2>1, <2>2 DEF WorkType, WorkRecord
<1>5. ASSUME NEW f \in Attempts, Train(f) PROVE WorkType'
  <2> DEFINE w == [work[f] EXCEPT !.done = @ + 1, !.phase = "wait", !.acked = {}]
  <2>1. work[f] \in WorkRecord
    BY DEF WorkType
  <2>2. work[f].done + 1 \in 0 .. MaxUpdates
    <3>1. Updates \in 1 .. MaxUpdates
      BY Bounds DEF Updates, JobType, JobRecord
    <3> QED BY <1>5, <2>1, <3>1, Bounds DEF Train, More, WorkRecord
  <2>3. w \in WorkRecord
    BY <2>1, <2>2 DEF WorkRecord
  <2>4. work' = [work EXCEPT ![f] = w]
    BY <1>5 DEF Train, WorkType
  <2> QED BY <1>0, <2>3, <2>4
<1>6. ASSUME NEW f \in Attempts, Continue(f) PROVE WorkType'
  <2>1. \E p \in {"train", "leave"} : work' = [work EXCEPT ![f].phase = p]
    BY <1>6 DEF Continue
  <2> QED BY <2>1 DEF WorkType, WorkRecord
<1>7. ASSUME NEW f, NEW n, Fails(f, n) PROVE WorkType'
  BY <1>7 DEF Fails, Ends, WorkType
<1> QED BY <1>1, <1>2, <1>3, <1>4, <1>5, <1>6, <1>7 DEF DataMove

(* Mailboxes hold reports of checkpoints and of failures. *)
LEMMA BoxStep ==
    ASSUME BoxType, DataMove
    PROVE  BoxType'
<1>1. CASE \/ Quiet \/ Mirror \/ Commit
           \/ (\E n \in Nodes : SendAck(n)) \/ (\E f : Continue(f))
  BY <1>1 DEF Quiet, Mirror, Commit, SendAck, Continue, nodeVars, BoxType
<1>2. ASSUME NEW n \in Nodes, Ingest(n) PROVE BoxType'
  BY <1>2 DEF Ingest, BoxType
<1>3. CASE (\E n \in Nodes : Closes(n)) \/ (\E team \in SUBSET Nodes : Admit(team))
  BY <1>3 DEF Closes, Admit, BoxType
<1>4. ASSUME NEW f, NEW n, NEW event \in {"staged", "failure"}, Post(f, n, event)
      PROVE  BoxType'
  BY <1>4 DEF Post, BoxType
<1> QED BY <1>1, <1>2, <1>3, <1>4 DEF DataMove, Train, Fails

(* Checkpoints are staging, being copied or committed. *)
LEMMA CkptStep ==
    ASSUME CkptType, DataMove
    PROVE  CkptType'
<1>1. CASE Mirror \/ Commit
  BY <1>1 DEF Mirror, Commit, Committed, CkptType
<1>2. ASSUME NEW n \in Nodes, Ingest(n) PROVE CkptType'
  BY <1>2 DEF Ingest, CkptType
<1> QED BY <1>1, <1>2 DEF DataMove, Quiet, SendAck, Admit, Train, Continue, Fails, Ends,
        CkptType

(* The leases, the deadlines and the bounds of the exploration. *)
LEMMA ClockStep ==
    ASSUME ClockTypes, [Next]_vars
    PROVE  ClockTypes'
<1> DEFINE Leases == [core : BOOLEAN, command : BOOLEAN]
           Deadlines == [queue : BOOLEAN, authority : BOOLEAN]
           Counts == [controls : 0 .. MaxControls, troubles : 0 .. MaxTroubles]
<1>0. due \in Leases /\ over \in Deadlines /\ spent \in Counts
  BY DEF ClockTypes
<1>1. ASSUME NEW f, NEW n, NEW awaited, ServePrepare(f, n, awaited)
      PROVE  UNCHANGED <<due, over>> /\ (UNCHANGED spent \/ \E k : Strike(k))
  BY <1>1 DEF ServePrepare
<1>2. ASSUME NEW f, NEW n, NEW awaited,
             \/ ServeStart(f, n, awaited) \/ Spawn(f, n, awaited) \/ AgentCrash(f, n)
             \/ \E c \in calls : CallLate(c)
      PROVE  UNCHANGED <<due, over>> /\ (UNCHANGED spent \/ \E k : Strike(k))
  BY <1>2 DEF ServeStart, Spawn, AgentCrash, CallLate
<1>3. due' \in Leases
  <2>1. \/ UNCHANGED due \/ due' = [core |-> FALSE, command |-> FALSE]
        \/ due' = [core |-> TRUE, command |-> TRUE]
        \/ due' = [due EXCEPT !.core = FALSE]
        \/ \E b \in BOOLEAN : due' = [due EXCEPT !.command = b]
    <3>1. CASE Advance
      BY <3>1 DEF Advance, AdvanceQueueTimeout, AdvanceCancel, AdvanceRecover,
          AdvancePause, AdvanceQueued, AdvanceFinalizing, AdvanceExhausted, AdmitWaits,
          AdmitImpossible, AdvanceReserving, Admit
    <3>2. CASE Dispatch
      BY <3>2 DEF Dispatch, SendPrepare, SendStart, SendStop, SendPause, SendAck,
          RecordProof
    <3>3. CASE Serve
      BY <1>1, <1>2, <3>3 DEF Serve
    <3>4. CASE Follow
      BY <3>4 DEF Follow, Mirror, Commit, MirrorExpires, Breach, Finalize, Ingest, Observe,
          ObserveFails, RecordProof
    <3>5. CASE Administer
      BY <3>5 DEF Administer, Pause, Resume, ResumeAutomatic, Requeue, Cancel
    <3>6. CASE Pass
      BY <3>6 DEF Pass, QueueDeadline, AuthorityEnds, CoreLapse, CommandLapse, NodeLapse
    <3> QED BY <3>1, <3>2, <3>3, <3>4, <3>5, <3>6, OperateKeeps DEF Next, vars
  <2>2. ASSUME NEW b \in BOOLEAN, due' = [due EXCEPT !.command = b] PROVE due' \in Leases
    BY <1>0, <2>2, Zenon
  <2>3. /\ [core |-> FALSE, command |-> FALSE] \in Leases
        /\ [core |-> TRUE, command |-> TRUE] \in Leases
    OBVIOUS
  <2>4. [due EXCEPT !.core = FALSE] \in Leases
    BY <1>0
  <2> QED BY <1>0, <2>1, <2>2, <2>3, <2>4
<1>4. over' \in Deadlines
  <2>1. \/ UNCHANGED over
        \/ over' = [over EXCEPT !.queue = FALSE] \/ over' = [over EXCEPT !.queue = TRUE]
        \/ over' = [over EXCEPT !.authority = TRUE]
    <3>1. CASE Advance
      BY <3>1 DEF Advance, AdvanceQueueTimeout, AdvanceCancel, AdvanceRecover,
          AdvancePause, AdvanceQueued, AdvanceFinalizing, AdvanceExhausted, AdmitWaits,
          AdmitImpossible, AdvanceReserving, Admit
    <3>2. CASE Dispatch
      BY <3>2 DEF Dispatch, SendPrepare, SendStart, SendStop, SendPause, SendAck
    <3>3. CASE Serve
      BY <1>1, <1>2, <3>3 DEF Serve
    <3>4. CASE Follow
      BY <3>4 DEF Follow, Mirror, Commit, MirrorExpires, Breach, Finalize, Ingest, Observe,
          ObserveFails
    <3>5. CASE Administer
      BY <3>5 DEF Administer, Pause, Resume, ResumeAutomatic, Requeue, Cancel
    <3>6. CASE Pass
      BY <3>6 DEF Pass, QueueDeadline, AuthorityEnds, CoreLapse, CommandLapse, NodeLapse
    <3> QED BY <3>1, <3>2, <3>3, <3>4, <3>5, <3>6, OperateKeeps DEF Next, vars
  <2> QED BY <1>0, <2>1
<1>5. spent' \in Counts
  <2>1. ASSUME NEW k, Strike(k) PROVE spent' \in Counts
    <3>1. spent.troubles + 1 \in 0 .. MaxTroubles
      BY <1>0, <2>1, Bounds DEF Strike
    <3> QED BY <1>0, <2>1, <3>1 DEF Strike
  <2>2. ASSUME Control PROVE spent' \in Counts
    <3>1. spent.controls + 1 \in 0 .. MaxControls
      BY <1>0, <2>2, Bounds DEF Control
    <3> QED BY <1>0, <2>2, <3>1 DEF Control
  <2>3. UNCHANGED spent \/ Control \/ \E k : Strike(k)
    <3>1. CASE Advance
      BY <3>1 DEF Advance, AdvanceQueueTimeout, AdvanceCancel, AdvanceRecover,
          AdvancePause, AdvanceQueued, AdvanceFinalizing, AdvanceExhausted, AdmitWaits,
          AdmitImpossible, AdvanceReserving, Admit
    <3>2. CASE Dispatch
      BY <3>2 DEF Dispatch, SendPrepare, SendStart, SendStop, SendPause, SendAck
    <3>3. CASE Serve
      BY <1>1, <1>2, <3>3 DEF Serve
    <3>4. CASE Follow
      BY <3>4 DEF Follow, Mirror, Commit, MirrorExpires, Breach, Finalize, Ingest, Observe,
          ObserveFails
    <3>5. CASE Administer
      BY <3>5 DEF Administer, Pause, Resume, ResumeAutomatic, Requeue, Cancel
    <3>6. CASE Pass
      BY <3>6 DEF Pass, QueueDeadline, AuthorityEnds, CoreLapse, CommandLapse, NodeLapse
    <3>7. CASE Operate
      <4>1. PICK f \in Attempts : \/ Train(f) \/ Continue(f)
                                  \/ \E n \in Nodes : \/ Watchdog(f, n) \/ Leave(f, n)
                                                      \/ Killed(f, n) \/ Fails(f, n)
        BY <3>7 DEF Operate
      <4> QED BY <4>1 DEF Train, Continue, Watchdog, Leave, Killed, Fails
    <3> QED BY <3>1, <3>2, <3>3, <3>4, <3>5, <3>6, <3>7 DEF Next, vars
  <2> QED BY <1>0, <2>1, <2>2, <2>3
<1> QED BY <1>3, <1>4, <1>5 DEF ClockTypes

(* A step that reports a checkpoint finds the newest attempt at work on    *)
(* it, and the checkpoint without a row.                                   *)
LEMMA StagedIsNew ==
    ASSUME JobType, WorkType, StagingInv, NEW n \in Nodes, Ingest(n), "staged" \in box[n]
    PROVE  /\ F \in Attempts /\ att[F].state \in Active /\ StagingAt(F)
           /\ work[F].done \in 1 .. MaxUpdates /\ ckpt[<<F, work[F].done>>] = None
<1>1. F \in Attempts /\ att[F].state \in Active
  BY BusyFence DEF Ingest, Busy
<1>2. PICK f \in Attempts : f = F
  BY <1>1
<1>3. StagingAt(f)
  BY <1>1, <1>2 DEF StagingInv
<1> QED BY <1>1, <1>2, <1>3, Bounds DEF StagingAt, WorkType, WorkRecord

(* A committed checkpoint stays committed, and commit_checkpoint alone     *)
(* commits one.                                                            *)
LEMMA CommittedStays ==
    ASSUME JobType, WorkType, CkptType, StagingInv, DataMove,
           NEW x \in Attempts \X (1 .. MaxUpdates)
    PROVE  /\ ckpt[x] = "committed" => ckpt'[x] = "committed"
           /\ ckpt'[x] = "committed" => ckpt[x] = "committed" \/ Commit
<1>1. CASE Commit
  BY <1>1 DEF Commit, Committed, CkptType
<1>2. ASSUME NEW n \in Nodes, Ingest(n)
      PROVE  ckpt[x] = "committed" <=> ckpt'[x] = "committed"
  <2>1. CASE UNCHANGED ckpt
    BY <2>1
  <2>2. CASE ckpt' = [ckpt EXCEPT ![<<F, work[F].done>>] = "staging"] /\ "staged" \in box[n]
    <3>1. ckpt[<<F, work[F].done>>] = None
      BY <1>2, <2>2, StagedIsNew
    <3> QED BY <2>2, <3>1 DEF CkptType, None
  <2> QED BY <1>2, <2>1, <2>2 DEF Ingest
<1>3. CASE Mirror
  BY <1>3 DEF Mirror, At, CkptType
<1> QED BY <1>1, <1>2, <1>3
        DEF DataMove, Quiet, SendAck, Admit, Train, Continue, Fails, Ends

(* Nothing is known of an attempt that is not admitted yet. *)
LEMMA FutureStep ==
    ASSUME JobType, AttType, WorkType, CkptType, AttemptInv, TrainerInv, FutureInv,
           StagingInv, CoreMove, DataMove
    PROVE  FutureInv'
<1> SUFFICES ASSUME NEW f \in Attempts, f > F'
             PROVE  /\ work'[f] = Idle
                    /\ \A u \in 1 .. MaxUpdates : ckpt'[<<f, u>>] = None
  BY DEF FutureInv
<1>0. F \in 0 .. MaxFence /\ MaxFence \in Nat /\ f \in Int
  BY Bounds DEF JobType, JobRecord, F, Attempts
<1>1. F' = F \/ (F' = F + 1 /\ \E team \in SUBSET Nodes : Admit(team))
  BY DEF CoreMove, Steady, Working, Queueing, Finishing, Commit, Closes, Stopping,
      SameJob, Admit, F, JobType, JobRecord
<1>2. f > F /\ f # F /\ work[f] = Idle /\ \A u \in 1 .. MaxUpdates : ckpt[<<f, u>>] = None
  BY <1>0, <1>1 DEF FutureInv
<1>3. work'[f] = work[f]
  <2>1. ASSUME NEW team, Admit(team) PROVE work'[f] = work[f]
    <3>1. f # F + 1
      BY <1>0, <2>1 DEF Admit, F, JobType, JobRecord
    <3> QED BY <2>1, <3>1 DEF Admit, WorkType
  <2>2. ASSUME NEW g \in Attempts, Train(g) \/ Continue(g) PROVE work'[f] = work[f]
    <3>1. g = F
      BY <2>2, TogetherIsActive DEF Train, Continue
    <3> QED BY <1>2, <2>2, <3>1 DEF Train, Continue, WorkType
  <2>3. ASSUME NEW n \in Nodes, Closes(n) \/ SendAck(n) PROVE work'[f] = work[f]
    BY <1>2, <2>3 DEF Closes, SendAck, WorkType
  <2> QED BY <2>1, <2>2, <2>3 DEF DataMove, Quiet, Mirror, Commit, Ingest, Fails, Ends, nodeVars
<1>4. ASSUME NEW u \in 1 .. MaxUpdates PROVE ckpt'[<<f, u>>] = ckpt[<<f, u>>]
  <2>1. CASE Mirror \/ Commit
    BY <1>2, <2>1 DEF Mirror, Commit, Committed, CkptType
  <2>2. ASSUME NEW n \in Nodes, Ingest(n) PROVE ckpt'[<<f, u>>] = ckpt[<<f, u>>]
    BY <1>2, <2>2 DEF Ingest, CkptType
  <2> QED BY <2>1, <2>2 DEF DataMove, Quiet, SendAck, Admit, Train, Continue, Fails, Ends
<1> QED BY <1>2, <1>3, <1>4

(* A step that reports no checkpoint and enqueues no acknowledgement. *)
LEMMA StageStays ==
    ASSUME WorkType, NEW f \in Attempts, StagingAt(f), att'[f].team = att[f].team,
           work'[f] = work[f],
           \A u \in 1 .. MaxUpdates : ckpt'[<<f, u>>] = ckpt[<<f, u>>],
           \A n \in Nodes : /\ "staged" \in box'[n] => "staged" \in box[n]
                            /\ row'[n].ack => row[n].ack
    PROVE  StagingAt(f)'
<1>1. Lead(f)' = Lead(f)
  BY DEF Lead
<1>2. work[f].done \in 0 .. MaxUpdates /\ MaxUpdates \in Nat
  BY Bounds DEF WorkType, WorkRecord
<1>3. work[f].done >= 1 => ckpt'[<<f, work[f].done>>] = ckpt[<<f, work[f].done>>]
  BY <1>2
<1> QED BY <1>1, <1>2, <1>3 DEF StagingAt, CommittedAt

(* Where the newest checkpoint stands. *)
LEMMA StagingStep ==
    ASSUME JobType, AttType, RowType, WorkType, CkptType, BoxType, AttemptInv, TrainerInv,
           FutureInv, StagingInv, DataMove
    PROVE  StagingInv'
<1> SUFFICES ASSUME NEW f \in Attempts, f = F', att'[f].state \in Active
             PROVE  StagingAt(f)'
  BY DEF StagingInv
<1>0. /\ MaxUpdates \in Nat /\ MaxFence \in Nat /\ F \in 0 .. MaxFence
      /\ work[f] \in WorkRecord /\ work[f].done \in 0 .. MaxUpdates
  BY Bounds DEF JobType, JobRecord, F, WorkType, WorkRecord
<1>1. ASSUME f = F, att[f].state \in Active PROVE StagingAt(f)
  BY <1>1 DEF StagingInv
<1>2. CASE Quiet
  <2>1. f = F
    BY <1>2 DEF Quiet, Steady, Working, Queueing, Finishing, SameJob, F
  <2>2. att[f].state \in Active /\ att'[f].team = att[f].team
    <3>1. CASE Working
      BY <2>1, <3>1 DEF Working, Busy, AttType, AttemptRecord
    <3> QED BY <1>2, <3>1 DEF Quiet, Steady, Queueing, Finishing
  <2> QED BY <1>1, <1>2, <2>1, <2>2, StageStays DEF Quiet
<1>3. CASE Commit
  <2>1. f = F /\ UNCHANGED <<att, work, box>> /\ work[f].done >= 1
    BY <1>0, <1>3 DEF Commit, At, F, JobType, JobRecord, nodeVars
  <2>2. StagingAt(f) /\ ckpt[<<f, work[f].done>>] = "replicating"
    BY <1>1, <1>3, <2>1 DEF Commit, At
  <2>3. /\ ckpt'[<<f, work[f].done>>] = "committed"
        /\ \A u \in 1 .. MaxUpdates :
              u # work[f].done => ckpt'[<<f, u>>] = ckpt[<<f, u>>]
    BY <1>0, <1>3, <2>1 DEF Commit, Committed, CkptType
  <2>4. \A n \in Nodes : "staged" \notin box[n]
    BY <2>2 DEF StagingAt, None
  <2>5. work[f].acked = {} /\ work[f].phase = "wait"
    BY <2>1, <2>2 DEF StagingAt, CommittedAt
  <2>6. \A n \in Nodes : row'[n].ack => n \in att[f].team
    <3>1. ASSUME NEW n \in Nodes PROVE row'[n].ack = (n \in Team)
      <4>1. row'[n] = [row[n] EXCEPT !.ack = n \in Team]
        BY <1>3 DEF Commit
      <4>2. row[n] \in RowRecord
        BY DEF RowType
      <4> QED BY <4>1, <4>2 DEF RowRecord
    <3> QED BY <2>1, <3>1 DEF Team
  <2>7. \A u \in 1 .. MaxUpdates : u > work[f].done => ckpt'[<<f, u>>] = None
    BY <1>0, <2>2, <2>3 DEF StagingAt
  <2> QED BY <1>0, <2>1, <2>3, <2>4, <2>5, <2>6, <2>7 DEF StagingAt, CommittedAt
<1>4. ASSUME NEW n \in Nodes, SendAck(n) PROVE StagingAt(f)'
  <2>1. f = F /\ UNCHANGED <<att, ckpt, box>> /\ row[n].ack
    BY <1>4 DEF SendAck, F
  <2>2. StagingAt(f)
    BY <1>1, <2>1
  <2>3. /\ work'[f].done = work[f].done /\ work'[f].phase = work[f].phase
        /\ work'[f].acked = work[f].acked \cup {n}
    BY <1>0, <1>4, <2>1 DEF SendAck, WorkType, WorkRecord
  <2>4. \A m \in Nodes : row'[m].ack => m # n /\ row[m].ack
    BY <1>4 DEF SendAck, RowType, RowRecord
  <2>5. Lead(f)' = Lead(f)
    BY <2>1 DEF Lead
  <2> QED BY <2>1, <2>2, <2>3, <2>4, <2>5 DEF StagingAt, CommittedAt
<1>5. ASSUME NEW n \in Nodes, Ingest(n) PROVE StagingAt(f)'
  <2>1. Busy /\ UNCHANGED <<att, work>> /\ f = F
    BY <1>5 DEF Ingest, F, JobType, JobRecord
  <2>2. StagingAt(f)
    BY <1>1, <2>1
  <2>3. \A m \in Nodes : row'[m].ack = row[m].ack
    BY <1>5, RenamedMarks DEF Ingest, RowType, SameMarks
  <2>4. \A m \in Nodes : "staged" \in box'[m] => "staged" \in box[m]
    BY <1>5 DEF Ingest, BoxType
  <2>5. CASE UNCHANGED ckpt
    BY <2>1, <2>2, <2>3, <2>4, <2>5, StageStays
  <2>6. CASE /\ "staged" \in box[n] /\ box' = [box EXCEPT ![n] = @ \ {"staged"}]
             /\ ckpt' = [ckpt EXCEPT ![<<F, work[F].done>>] = "staging"]
    <3>1. work[f].done \in 1 .. MaxUpdates /\ ckpt[<<f, work[f].done>>] = None
      BY <1>5, <2>1, <2>6, StagedIsNew
    <3>2. n = Lead(f) /\ work[f].phase = "wait"
      BY <2>2, <2>6 DEF StagingAt
    <3>3. \A m \in Nodes : "staged" \notin box'[m]
      BY <2>2, <2>6, <3>2 DEF StagingAt, BoxType
    <3>4. work[f].acked = {} /\ \A m \in Nodes : ~row'[m].ack
      BY <2>2, <2>3, <3>1 DEF StagingAt, CommittedAt, None
    <3>5. \A u \in 1 .. MaxUpdates : u > work[f].done => ckpt'[<<f, u>>] = None
      BY <1>0, <2>1, <2>2, <2>6 DEF StagingAt, CkptType
    <3> QED BY <2>1, <3>2, <3>3, <3>4, <3>5 DEF StagingAt
  <2> QED BY <1>5, <2>5, <2>6 DEF Ingest
<1>6. ASSUME NEW n \in Nodes, Closes(n) PROVE FALSE
  <2>1. f = F /\ att' = [att EXCEPT ![f].state = "stopped"]
    BY <1>6 DEF Closes, Stopping, SameJob, F
  <2> QED BY <2>1 DEF AttType, AttemptRecord, Active
<1>7. ASSUME NEW team \in SUBSET Nodes, Admit(team) PROVE StagingAt(f)'
  <2>1. f = F + 1 /\ f > F /\ UNCHANGED ckpt
    BY <1>0, <1>7 DEF Admit, F, JobType, JobRecord
  <2>2. /\ \A u \in 1 .. MaxUpdates : ckpt'[<<f, u>>] = None
        /\ work[f] = Idle
    BY <2>1 DEF FutureInv
  <2>3. PICK d : work' = [work EXCEPT ![f].done = d]
    BY <1>7, <2>1 DEF Admit
  <2>4. work'[f].acked = {}
    BY <2>2, <2>3 DEF WorkType, Idle
  <2>5. \A n \in Nodes : "staged" \notin box'[n] /\ ~row'[n].ack
    BY <1>7 DEF Admit, Fresh
  <2>6. work'[f].done \in 0 .. MaxUpdates
    <3>1. WorkType'
      BY WorkStep
    <3> QED BY <3>1 DEF WorkType, WorkRecord
  <2>7. work'[f].done >= 1 => ckpt'[<<f, work'[f].done>>] = None
    BY <1>0, <2>2, <2>6
  <2> QED BY <2>2, <2>4, <2>5, <2>7 DEF StagingAt, None
<1>8. ASSUME NEW g \in Attempts, Train(g) PROVE StagingAt(f)'
  <2>1. f = F /\ g = f /\ UNCHANGED <<att, ckpt, row>>
    BY <1>8, TogetherIsActive DEF Train, F
  <2>2. StagingAt(f) /\ work[f].phase = "train"
    BY <1>1, <1>8, <2>1 DEF Train
  <2>3. /\ work'[f].done = work[f].done + 1 /\ work'[f].phase = "wait"
        /\ work'[f].acked = {}
    BY <1>0, <1>8, <2>1 DEF Train, WorkType, WorkRecord
  <2>4. work[f].done + 1 \in 1 .. MaxUpdates
    <3>1. Updates \in 1 .. MaxUpdates
      BY Bounds DEF Updates, JobType, JobRecord
    <3> QED BY <1>0, <1>8, <2>1, <3>1 DEF Train, More
  <2>5. \A u \in 1 .. MaxUpdates : u > work[f].done => ckpt'[<<f, u>>] = None
    BY <2>1, <2>2 DEF StagingAt
  <2>6. \A n \in Nodes : "staged" \in box'[n] => n = Lead(f)
    <3>1. \A n \in Nodes : "staged" \notin box[n]
      BY <2>2 DEF StagingAt
    <3> QED BY <1>8, <2>1, <3>1 DEF Train, Post, BoxType
  <2>7. \A n \in Nodes : ~row'[n].ack
    BY <2>1, <2>2 DEF StagingAt
  <2>8. Lead(f)' = Lead(f)
    BY <2>1 DEF Lead
  <2>9. /\ ckpt'[<<f, work[f].done + 1>>] = None
        /\ \A u \in 1 .. MaxUpdates : u > work[f].done + 1 => ckpt'[<<f, u>>] = None
    BY <1>0, <2>4, <2>5
  <2> QED BY <2>3, <2>4, <2>6, <2>7, <2>8, <2>9 DEF StagingAt
<1>9. ASSUME NEW g \in Attempts, Continue(g) PROVE StagingAt(f)'
  <2>1. f = F /\ g = f /\ UNCHANGED <<att, ckpt, row, box>>
    BY <1>9, TogetherIsActive DEF Continue, F
  <2>2. StagingAt(f) /\ work[f].acked = att[f].team /\ att[f].team # {}
    BY <1>1, <1>9, <2>1 DEF Continue, Together
  <2>3. CommittedAt(f, work[f].done)
    BY <2>2 DEF StagingAt
  <2>4. work'[f].done = work[f].done /\ work'[f].acked = work[f].acked
    BY <1>0, <1>9, <2>1 DEF Continue, WorkType, WorkRecord
  <2>5. \A n \in Nodes : "staged" \notin box'[n] /\ ~row'[n].ack
    BY <2>1, <2>2, <2>3 DEF StagingAt, CommittedAt, None
  <2>6. \A u \in 1 .. MaxUpdates : u > work[f].done => ckpt'[<<f, u>>] = None
    BY <2>1, <2>2 DEF StagingAt
  <2> QED BY <2>1, <2>3, <2>4, <2>5, <2>6 DEF StagingAt, CommittedAt
<1>10. ASSUME NEW g \in Attempts, NEW n \in Nodes, Fails(g, n) PROVE StagingAt(f)'
  <2>1. f = F /\ UNCHANGED <<att, ckpt, row, work>>
    BY <1>10 DEF Fails, Ends, F
  <2>2. \A m \in Nodes : "staged" \in box'[m] => "staged" \in box[m]
    BY <1>10 DEF Fails, Post, BoxType
  <2> QED BY <1>1, <2>1, <2>2, StageStays
<1>11. CASE Mirror
  <2>1. f = F /\ UNCHANGED <<att, row, work, box>> /\ work[f].done >= 1
    BY <1>0, <1>11 DEF Mirror, At, F, nodeVars
  <2>2. StagingAt(f) /\ ckpt[<<f, work[f].done>>] = "staging"
    BY <1>1, <1>11, <2>1 DEF Mirror, At
  <2>3. /\ ckpt'[<<f, work[f].done>>] = "replicating"
        /\ \A u \in 1 .. MaxUpdates :
              u # work[f].done => ckpt'[<<f, u>>] = ckpt[<<f, u>>]
    BY <1>0, <1>11, <2>1 DEF Mirror, CkptType
  <2>4. \A n \in Nodes : "staged" \notin box[n] /\ ~row[n].ack
    BY <2>2 DEF StagingAt, CommittedAt, None
  <2>5. work[f].acked = {} /\ work[f].phase = "wait"
    BY <2>1, <2>2 DEF StagingAt, CommittedAt
  <2>6. \A u \in 1 .. MaxUpdates : u > work[f].done => ckpt'[<<f, u>>] = None
    BY <1>0, <2>2, <2>3 DEF StagingAt
  <2> QED BY <2>1, <2>3, <2>4, <2>5, <2>6 DEF StagingAt
<1> QED BY <1>2, <1>3, <1>4, <1>5, <1>6, <1>7, <1>8, <1>9, <1>10, <1>11 DEF DataMove

(* What the job counts on is committed. *)
LEMMA LatestStep ==
    ASSUME JobType, WorkType, CkptType, StagingInv, LatestInv, CoreMove, DataMove
    PROVE  LatestInv'
<1> DEFINE Sound(l) == l[2] # 0 => l \in DOMAIN ckpt' /\ ckpt'[l] = "committed"
           Waits == {"queued", "preflighting", "paused"}
<1>0. DOMAIN ckpt = Attempts \X (1 .. MaxUpdates) /\ DOMAIN ckpt' = DOMAIN ckpt
  BY CkptStep DEF CkptType
<1>1. \A x \in DOMAIN ckpt : /\ ckpt[x] = "committed" => ckpt'[x] = "committed"
                             /\ ckpt'[x] = "committed" => ckpt[x] = "committed" \/ Commit
  BY <1>0, CommittedStays
<1>2. Sound(job.latest) /\ Sound(Newest)
  BY <1>0, <1>1, NewestIs DEF LatestInv
<1>3. ASSUME ~Commit, job'.latest = Newest
      PROVE  \A x \in DOMAIN ckpt' : ckpt'[x] = "committed" => job'.latest[2] >= x[2]
  BY <1>0, <1>1, <1>3, NewestIs
<1>4. ASSUME ~Commit, job'.latest = job.latest, job.state \in Waits
      PROVE  \A x \in DOMAIN ckpt' : ckpt'[x] = "committed" => job'.latest[2] >= x[2]
  BY <1>0, <1>1, <1>4 DEF LatestInv
<1>5. ASSUME job'.state = job.state, job.state \in {"finalizing", "succeeded"}, SameJob
      PROVE  F' # 0 /\ ckpt'[<<F', Updates'>>] = "committed"
  <2>1. F # 0 /\ ckpt[<<F, Updates>>] = "committed"
    BY <1>5 DEF LatestInv
  <2>2. <<F, Updates>> \in DOMAIN ckpt
    BY <1>0, <2>1, BusyFence, Bounds DEF Updates, JobType, JobRecord
  <2> QED BY <1>1, <1>5, <2>1, <2>2 DEF SameJob, F, Updates
<1>6. CASE Commit
  <2>1. /\ job'.state = job.state /\ job.state \in {"running", "pausing"}
        /\ job'.latest = job.latest \/ job'.latest = <<F, work[F].done>>
    BY <1>6 DEF Commit, CurrentAttempt, JobType, JobRecord
  <2>2. F \in Attempts
    BY <1>6, BusyFence DEF Commit, CurrentAttempt, Busy
  <2>3. work[F].done \in 0 .. MaxUpdates /\ MaxUpdates \in Nat /\ work[F].done # 0
    BY <1>6, <2>2, Bounds DEF WorkType, WorkRecord, Commit, At
  <2>4. Sound(<<F, work[F].done>>)
    BY <1>0, <1>6, <2>2, <2>3 DEF Commit, Committed
  <2> QED BY <1>2, <2>1, <2>4 DEF LatestInv
<1>7. CASE ~Commit /\ Steady
  <2>1. job'.state \in Waits => job.state \in Waits
    BY <1>7 DEF Steady, AtWork
  <2>2. job'.state \in {"finalizing", "succeeded"} => job'.state = job.state
    BY <1>7 DEF Steady, AtWork
  <2> QED BY <1>2, <1>4, <1>5, <1>7, <2>1, <2>2 DEF Steady, LatestInv
<1>8. CASE Working
  BY <1>2, <1>8 DEF Working, AtWork, LatestInv
<1>9. CASE ~Commit /\ Queueing
  <2>1. job'.state \in Waits /\ job.state \in Waits
    BY <1>9 DEF Queueing
  <2> QED BY <1>2, <1>3, <1>4, <1>9, <2>1 DEF Queueing, LatestInv
<1>10. CASE Finishing
  <2>1. Sound(job'.latest) /\ job'.state \in {"finalizing", "succeeded"}
    BY <1>2, <1>10 DEF Finishing
  <2>2. F # 0 /\ ckpt[<<F, Updates>>] = "committed"
    <3>1. CASE Trained
      <4>1. job.latest = <<F, Updates>> /\ Updates # 0
        BY <3>1, Bounds DEF Trained, Updates, JobType, JobRecord
      <4> QED BY <1>0, <4>1 DEF LatestInv, Attempts
    <3>2. CASE job.state = "finalizing"
      BY <3>2 DEF LatestInv
    <3> QED BY <1>10, <3>1, <3>2 DEF Finishing
  <2>3. <<F, Updates>> \in DOMAIN ckpt
    BY <1>0, <2>2, BusyFence, Bounds DEF Updates, JobType, JobRecord
  <2>4. F' # 0 /\ ckpt'[<<F', Updates'>>] = "committed"
    BY <1>1, <1>10, <2>2, <2>3 DEF Finishing, SameJob, F, Updates
  <2> QED BY <2>1, <2>4 DEF LatestInv
<1>11. ASSUME ~Commit, NEW n \in Nodes, Closes(n) PROVE LatestInv'
  BY <1>2, <1>3, <1>11 DEF Closes, Stopping, LatestInv
<1>12. ASSUME NEW team, Admit(team) PROVE LatestInv'
  <2>1. job'.state = "reserving" /\ job'.latest \in {job.latest, Newest}
    BY <1>12 DEF Admit, JobType, JobRecord
  <2> QED BY <1>2, <2>1 DEF LatestInv
<1> QED BY <1>6, <1>7, <1>8, <1>9, <1>10, <1>11, <1>12 DEF CoreMove

(* What was acknowledged is committed, and no later attempt starts before  *)
(* it.                                                                     *)
LEMMA KeptStep ==
    ASSUME JobType, AttType, WorkType, CkptType, AttemptInv, AttemptInv', TrainerInv,
           StagingInv, LatestInv, KeptInv, CoreMove, DataMove
    PROVE  KeptInv'
<1>0. /\ MaxUpdates \in Nat /\ MaxFence \in Nat /\ F \in 0 .. MaxFence
      /\ \A f \in Attempts : f \in Int /\ work[f] \in WorkRecord
      /\ \A f \in Attempts : work[f].kept \in 0 .. MaxUpdates
  BY Bounds DEF JobType, JobRecord, F, WorkType, WorkRecord, Attempts
<1>1. ASSUME NEW f \in Attempts
      PROVE  \/ work'[f].kept = work[f].kept
             \/ /\ f = F /\ F' = F /\ CommittedAt(f, work[f].done)
                /\ work'[f].kept = work[f].done
  <2>1. ASSUME NEW n \in Nodes, SendAck(n), f = F
        PROVE  /\ F' = F /\ CommittedAt(f, work[f].done)
               /\ work'[f].kept = work[f].done
    <3>1. StagingAt(f) /\ row[n].ack
      BY <2>1 DEF SendAck, MayDispatch, Busy, StagingInv
    <3>2. CommittedAt(f, work[f].done)
      BY <3>1 DEF StagingAt
    <3>3. work'[f].kept = work[f].done
      BY <1>0, <2>1 DEF SendAck, WorkType, WorkRecord
    <3> QED BY <2>1, <3>2, <3>3 DEF SendAck, F
  <2>2. ASSUME NEW n \in Nodes, SendAck(n), f # F PROVE work'[f].kept = work[f].kept
    BY <2>2 DEF SendAck, WorkType
  <2>3. ASSUME NEW n \in Nodes, Closes(n) PROVE work'[f].kept = work[f].kept
    BY <2>3 DEF Closes, WorkType, Idle
  <2>4. ASSUME NEW team, Admit(team) PROVE work'[f].kept = work[f].kept
    BY <1>0, <2>4 DEF Admit, WorkType, WorkRecord
  <2>5. ASSUME NEW g \in Attempts, Train(g) \/ Continue(g)
        PROVE  work'[f].kept = work[f].kept
    BY <1>0, <2>5 DEF Train, Continue, WorkType, WorkRecord
  <2> QED BY <2>1, <2>2, <2>3, <2>4, <2>5
          DEF DataMove, Quiet, Mirror, Commit, Ingest, Fails, Ends, nodeVars
<1>2. ASSUME NEW f \in Attempts, NEW u \in 0 .. MaxUpdates, CommittedAt(f, u)
      PROVE  CommittedAt(f, u)'
  <2>1. <<f, u>> \in Attempts \X (1 .. MaxUpdates)
    BY <1>0, <1>2 DEF CommittedAt
  <2> QED BY <1>2, <2>1, CommittedStays DEF CommittedAt
<1>3. ASSUME NEW f \in Attempts, work'[f].kept # 0 PROVE CommittedAt(f, work[f].kept)'
  <2>1. CASE work'[f].kept = work[f].kept
    <3>1. CommittedAt(f, work[f].kept)
      BY <1>3, <2>1 DEF KeptInv
    <3>2. ckpt'[<<f, work[f].kept>>] = "committed" /\ work[f].kept >= 1
      BY <1>0, <1>2, <3>1 DEF CommittedAt
    <3> QED BY <2>1, <3>2 DEF CommittedAt
  <2>2. CASE CommittedAt(f, work[f].done) /\ work'[f].kept = work[f].done
    <3>1. work[f].done \in 0 .. MaxUpdates
      BY <1>0 DEF WorkRecord
    <3>2. ckpt'[<<f, work[f].done>>] = "committed" /\ work[f].done >= 1
      BY <1>2, <2>2, <3>1 DEF CommittedAt
    <3> QED BY <2>2, <3>2 DEF CommittedAt
  <2> QED BY <1>1, <2>1, <2>2
<1>4. ASSUME NEW f \in Attempts, NEW g \in 1 .. f - 1, att'[f].state # None
      PROVE  att'[f].from >= work'[g].kept
  <2>0. g \in Attempts /\ g \in Int /\ g < f /\ f \in Int
    BY <1>0 DEF Attempts
  <2>1. F' \in Int /\ f <= F'
    <3>1. F' = F \/ F' = F + 1
      BY DEF CoreMove, Steady, Working, Queueing, Finishing, Commit, Closes, Stopping,
          SameJob, Admit, F, JobType, JobRecord
    <3> QED BY <1>0, <1>4, <2>0, <3>1 DEF AttemptInv
  <2>2. CASE f <= F
    <3>1. att'[f].from = att[f].from
      BY <2>2, FenceKeeps
    <3>2. att[f].state # None
      BY <1>0, <2>0, <2>2 DEF AttemptInv, Active, None
    <3>3. att[f].from >= work[g].kept
      BY <3>2 DEF KeptInv, AckedIsKept
    <3>4. work'[g].kept = work[g].kept
      BY <1>0, <1>1, <2>0, <2>2
    <3> QED BY <3>1, <3>3, <3>4
  <2>3. CASE ~(f <= F)
    <3>1. PICK team \in SUBSET Nodes : Admit(team)
      BY <1>0, <2>0, <2>1, <2>3 DEF CoreMove, Steady, Working, Queueing, Finishing,
          Commit, Closes, Stopping, SameJob, F, JobType, JobRecord
    <3>2. F' = F + 1 /\ f = F + 1
      BY <1>0, <2>0, <2>1, <2>3, <3>1 DEF Admit, F, JobType, JobRecord
    <3>3. work'[g].kept = work[g].kept
      BY <1>0, <1>1, <2>0, <3>2
    <3>4. PICK l \in {job.latest, Newest} :
             /\ att'[f].from = l[2]
             /\ l = Newest \/ job.state = "preflighting"
      <4>1. CASE job.state = "recovering"
        <5>1. att' = [att EXCEPT ![F + 1] =
                         [state |-> "preparing", team |-> team, from |-> Newest[2]]]
          BY <3>1, <4>1 DEF Admit
        <5> QED BY <3>2, <5>1 DEF AttType
      <4>2. CASE job.state # "recovering"
        <5>1. /\ job.state = "preflighting"
              /\ att' = [att EXCEPT ![F + 1] =
                         [state |-> "preparing", team |-> team, from |-> job.latest[2]]]
          BY <3>1, <4>2 DEF Admit
        <5> QED BY <3>2, <5>1 DEF AttType
      <4> QED BY <4>1, <4>2
    <3>5. \A x \in DOMAIN ckpt : ckpt[x] = "committed" => l[2] >= x[2]
      BY <3>4, NewestIs DEF LatestInv
    <3>6. l[2] \in 0 .. MaxUpdates
      BY <3>4, NewestIs DEF JobType, JobRecord
    <3>7. work[g].kept # 0 => l[2] >= work[g].kept
      <4>1. ASSUME work[g].kept # 0 PROVE CommittedAt(g, work[g].kept)
        BY <2>0, <4>1 DEF KeptInv
      <4>2. ASSUME work[g].kept # 0 PROVE <<g, work[g].kept>> \in DOMAIN ckpt
        BY <1>0, <2>0, <4>2 DEF CkptType
      <4> QED BY <3>5, <4>1, <4>2 DEF CommittedAt
    <3> QED BY <1>0, <2>0, <3>3, <3>4, <3>6, <3>7
  <2> QED BY <2>2, <2>3
<1> QED BY <1>3, <1>4 DEF KeptInv, AckedIsKept

-----------------------------------------------------------------------------
(* The theorems *)

(* The invariant holds initially. *)
LEMMA TrainingInit ==
    ASSUME Init
    PROVE  TrainingInv
<1> USE DEF Init
<1>0. PICK spec \in Specs : job = [state |-> "queued", spec |-> spec, origin |-> None,
                                   fence |-> 0, latest |-> <<0, 0>>, retries |-> 0]
  OBVIOUS
<1>1. F = 0 /\ ~Busy /\ job.latest = <<0, 0>> /\ job.state = "queued"
  BY <1>0 DEF F, Busy
<1>2. JobType
  BY <1>0, Bounds DEF JobType, JobRecord, JobStates
<1>3. AttType /\ RowType
  BY Bounds DEF AttType, AttemptRecord, RowType, RowRecord, Fresh
<1>4. NodeType /\ ProcType
  BY DEF NodeType, NodeRecord, ProcType, Blank
<1>5. WorkType /\ BoxType /\ CallsType /\ CkptType
  BY Bounds DEF WorkType, WorkRecord, Idle, BoxType, CallsType, CkptType
<1>6. ClockTypes
  BY Bounds DEF ClockTypes
<1>7. TypeOK
  BY <1>2, <1>3, <1>4, <1>5, <1>6, TypeParts
<1>8. AttemptInv /\ CallsInv
  BY <1>1, Bounds DEF AttemptInv, CallsInv, Attempts
<1>9. TrainerInv
  BY <1>1, Bounds DEF TrainerInv, TrainerInvAt, Attempts, Alive, Running, None
<1>10. StagingInv /\ FutureInv
  BY <1>1, Bounds DEF StagingInv, FutureInv, Attempts
<1>11. LatestInv
  BY <1>1, Bounds DEF LatestInv, None
<1>12. KeptInv
  BY Bounds DEF KeptInv, AckedIsKept, Idle
<1> QED BY <1>7, <1>8, <1>9, <1>10, <1>11, <1>12 DEF TrainingInv

(* Every step keeps it. *)
LEMMA TrainingStep ==
    ASSUME TrainingInv, [Next]_vars
    PROVE  TrainingInv'
<1>0. /\ JobType /\ AttType /\ RowType /\ NodeType /\ ProcType /\ WorkType /\ BoxType
      /\ CallsType /\ CkptType /\ ClockTypes /\ AttemptInv /\ CallsInv /\ TrainerInv
      /\ StagingInv /\ FutureInv /\ LatestInv /\ KeptInv
  BY TypeParts DEF TrainingInv
<1>1. CoreMove /\ RowMove /\ StudioGoal
  BY <1>0, CoreMoves, RowMoves, TrainerMoves
<1>2. DataMove
  BY <1>0, <1>1, DataMoves
<1>3. JobType' /\ AttType' /\ RowType' /\ CallsType' /\ CallsInv' /\ AttemptInv'
  BY <1>0, <1>1, JobStep, AttStep, RowStep, CallsStep, AttemptStep
<1>4. NodeType' /\ ProcType' /\ TrainerInv'
  BY <1>0, <1>1, TrainerStep DEF StudioGoal
<1>5. WorkType' /\ BoxType' /\ CkptType' /\ ClockTypes'
  BY <1>0, <1>2, WorkStep, BoxStep, CkptStep, ClockStep
<1>6. StagingInv' /\ FutureInv' /\ LatestInv'
  BY <1>0, <1>1, <1>2, StagingStep, FutureStep, LatestStep
<1>7. KeptInv'
  BY <1>0, <1>1, <1>2, <1>3, KeptStep
<1> QED BY <1>3, <1>4, <1>5, <1>6, <1>7, TypeParts DEF TrainingInv

(* The inductive invariant of the training job holds in every reachable    *)
(* state of control_training, advance_training and the node supervisors.   *)
THEOREM Invariance == Spec => []TrainingInv
<1>1. Init => TrainingInv
  BY TrainingInit
<1>2. TrainingInv /\ [Next]_vars => TrainingInv'
  BY TrainingStep
<1> QED BY <1>1, <1>2, PTL DEF Spec

(* The rows of core, the journals and the trainers keep their types. *)
THEOREM Typing == Spec => []TypeOK
<1>1. TrainingInv => TypeOK
  BY DEF TrainingInv
<1> QED BY <1>1, Invariance, PTL

(* record_stop_proof never gives the memory of a Studio back whose trainer *)
(* runs or may still be spawned, whatever calls arrive late.               *)
THEOREM StopSafety == Spec => []StoppedIsDead
<1>1. TrainingInv => StoppedIsDead
  BY AliveIsActive, TypeParts DEF TrainingInv
<1> QED BY <1>1, Invariance, PTL

(* No attempt resumes before an update that a trainer was told is durable: *)
(* commit_checkpoint, the acknowledgements and recovery_checkpoint agree.  *)
THEOREM KeptSafety == Spec => []AckedIsKept
<1>1. TrainingInv => AckedIsKept
  BY DEF TrainingInv, KeptInv
<1> QED BY <1>1, Invariance, PTL

(* A job is finalized only when its newest attempt has committed the last  *)
(* update and has been proved stopped.                                     *)
THEOREM PublishSafety == Spec => []SucceededIsTrained
<1>1. TrainingInv => SucceededIsTrained
  <2> SUFFICES ASSUME TrainingInv, job.state \in {"finalizing", "succeeded"}
               PROVE  ckpt[<<F, Updates>>] = "committed" /\ att[F].state = "stopped"
    BY DEF SucceededIsTrained
  <2>1. F # 0 /\ ckpt[<<F, Updates>>] = "committed"
    BY DEF TrainingInv, LatestInv
  <2>2. F \in Attempts
    BY <2>1, BusyFence, TypeParts DEF TrainingInv
  <2>3. att[F].state \in Active \cup {"stopped"} /\ ~Busy
    BY <2>2 DEF TrainingInv, AttemptInv
  <2> QED BY <2>1, <2>3 DEF Busy
<1> QED BY <1>1, Invariance, PTL

=============================================================================
