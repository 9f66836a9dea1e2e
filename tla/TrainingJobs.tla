---------------------------- MODULE TrainingJobs ----------------------------
(* One training job: its row and its successive attempts in core, the      *)
(* commands core sends to the Studios, each Studio's journal of attempts,  *)
(* its training supervisor and the trainer processes it owns.              *)
(*                                                                         *)
(* An action is one transaction of core, one handler of a node or one step *)
(* of a trainer.  A lease is renewed for as long as core wants it to be,   *)
(* so it is only said whether it is still current; a node's lease never    *)
(* outlasts core's, which issued it.                                       *)
EXTENDS Integers, FiniteSets

CONSTANTS
    Nodes,          \* the Studios
    Specs,          \* the jobs looked at: on how many Studios one trains, and
                    \* its updates, each of which ends in a checkpoint
    MaxRecoveries,  \* recoveries before the job fails; 3 in the code
    MaxUpdates,     \* bounds of the exploration: updates of a job,
    MaxFence,       \* attempts,
    MaxControls,    \* pauses, resumptions and cancellations,
    MaxTroubles,    \* troubles of all kinds together
    Troubles        \* the kinds of trouble that may happen

None == "none"

Attempts == 1 .. MaxFence

AllTroubles == {"late", "lost", "unsure", "refused", "poll", "death", "crash",
                "lapse", "slow", "mirror", "breach", "authority", "queue",
                "full", "extract"}

ASSUME ModelAssumption ==
    /\ IsFiniteSet(Nodes) /\ MaxUpdates \in Nat /\ MaxFence \in Nat \ {0}
    /\ Specs \subseteq [world : 1 .. Cardinality(Nodes), updates : 1 .. MaxUpdates]
    /\ {MaxRecoveries, MaxControls, MaxTroubles} \subseteq Nat
    /\ Troubles \subseteq AllTroubles

VARIABLES
    job,       \* the job's row
    att,       \* the attempts' rows, one per fence
    row,       \* per participant of the latest attempt: what core knows of
               \* its commands, its process and its stop
    due,       \* are the latest attempt's lease and the one written into its
               \* newest commands current
    ckpt,      \* the checkpoints' rows, by fence and update
    over,      \* has the queue deadline passed, has the authority ended
    node,      \* each Studio's journal of attempts
    proc,      \* the trainer processes
    work,      \* what the trainers of an attempt have done
    box,       \* events of the latest attempt that core has not read
    calls,     \* preparations and starts at a node: those the controller waits
               \* for, and those it gave up
    spent      \* controls and troubles used up

vars == <<job, att, row, due, ckpt, over, node, proc, work, box, calls, spent>>
nodeVars == <<node, proc, work, box>>

Active   == {"preparing", "running", "stopping", "unknown"}
Terminal == {"succeeded", "failed", "cancelled"}

(* A trainer is due between the journaled intent and its spawn, and a stray *)
(* while its identity is not in the journal.  A lost one cannot be proved   *)
(* to be gone.                                                              *)
Running  == {"stray", "live"}
Alive    == {"due"} \cup Running

Fresh == [prep |-> "pending", start |-> None, stop |-> None, pause |-> None,
          ack |-> FALSE, pid |-> FALSE, proof |-> FALSE]
Blank == [at |-> None, released |-> FALSE, lease |-> FALSE, pause |-> FALSE]
Idle  == [done |-> 0, phase |-> "train", acked |-> {}, kept |-> 0]

TypeOK ==
    /\ job \in [state : {"queued", "preflighting", "reserving", "running",
                         "pausing", "paused", "recovering", "cancelling",
                         "finalizing"} \cup Terminal,
                spec : Specs,
                origin : {None, "admin", "protective"},
                fence : 0 .. MaxFence,
                latest : (0 .. MaxFence) \X (0 .. MaxUpdates),
                retries : 0 .. MaxRecoveries]
    /\ att \in [Attempts -> [state : {None, "stopped"} \cup Active,
                             team : SUBSET Nodes, from : 0 .. MaxUpdates]]
    /\ row \in [Nodes -> [prep : {"pending", "sent", "ready"},
                          start : {None, "pending", "sent", "done"},
                          stop : {None, "open", "void"},
                          pause : {None, "open", "done"},
                          ack : BOOLEAN, pid : BOOLEAN, proof : BOOLEAN]]
    /\ due \in [core : BOOLEAN, command : BOOLEAN]
    /\ ckpt \in [Attempts \X (1 .. MaxUpdates) ->
                   {None, "staging", "replicating", "committed"}]
    /\ over \in [queue : BOOLEAN, authority : BOOLEAN]
    /\ node \in [Attempts -> [Nodes ->
          [at : {None, "rejected", "prepared", "unsure", "stopped"},
           released : BOOLEAN, lease : BOOLEAN, pause : BOOLEAN]]]
    /\ proc \in [Attempts -> [Nodes -> {None, "gone", "lost"} \cup Alive]]
    /\ work \in [Attempts -> [done : 0 .. MaxUpdates,
                              phase : {"train", "wait", "leave"},
                              acked : SUBSET Nodes, kept : 0 .. MaxUpdates]]
    /\ box \in [Nodes -> SUBSET {"staged", "failure"}]
    /\ calls \subseteq {"prepare", "start"} \X Attempts \X Nodes \X BOOLEAN
    /\ spent \in [controls : 0 .. MaxControls, troubles : 0 .. MaxTroubles]

-----------------------------------------------------------------------------
(* Bounds *)

Strike(kind) ==
    /\ kind \in Troubles /\ spent.troubles < MaxTroubles
    /\ spent' = [spent EXCEPT !.troubles = @ + 1]

Control ==
    /\ spent.controls < MaxControls
    /\ spent' = [spent EXCEPT !.controls = @ + 1]

-----------------------------------------------------------------------------
(* Core: the rows *)

F == job.fence
Updates == job.spec.updates
Busy == F # 0 /\ att[F].state \in Active
Team == IF F = 0 THEN {} ELSE att[F].team
Lead(f) == CHOOSE n \in att[f].team : TRUE

(* current_attempt: what a trainer's checkpoints need. *)
CurrentAttempt ==
    /\ Busy /\ att[F].state \in {"running", "stopping"}
    /\ job.state \in {"running", "pausing"} /\ due.core

(* recovery_checkpoint: the newest committed one; of two attempts' the     *)
(* later.                                                                  *)
Newest ==
    LET done == {x \in DOMAIN ckpt : ckpt[x] = "committed"} IN
    IF done = {} THEN <<0, 0>>
    ELSE CHOOSE x \in done : \A y \in done :
            x[2] > y[2] \/ (x[2] = y[2] /\ x[1] >= y[1])

(* A new version of the job's row gives the next stop and pause commands   *)
(* new identities; those that are open stay open.                          *)
Renamed(r) == [n \in Nodes |-> [r[n] EXCEPT
    !.stop = IF @ = "void" THEN None ELSE @,
    !.pause = IF @ = "done" THEN None ELSE @]]

(* Mutant: a participant without a known process is not told. *)
ToldStarted(r, command) == [n \in Nodes |->
    IF n \in Team /\ r[n].pid /\ ~r[n].proof /\ r[n][command] = None
    THEN [r[n] EXCEPT ![command] = "open"] ELSE r[n]]

(* enqueue_controls: one command per participant not yet proved stopped. *)
Told(r, command) == [n \in Nodes |->
    IF n \in Team /\ ~r[n].proof /\ r[n][command] = None
    THEN [r[n] EXCEPT ![command] = "open"] ELSE r[n]]

EnqueueStop(r) ==
    /\ row' = Told(r, "stop")
    /\ att' = [att EXCEPT ![F].state = "stopping"]

(* Mutant: the memory is given back with the first proof. *)
AllProvedAny(r) == \E n \in Team : r[n].proof

AllProved(r) == \A n \in Team : r[n].proof

(* record_stop_proof: the holds of all ranks are given back together, and  *)
(* the job goes where it was told to go.  What was known of the attempt's  *)
(* participants is of no more use; the lease written into its commands     *)
(* runs on.                                                                *)
RecordProof(n) ==
    LET r == [row EXCEPT ![n].proof = TRUE] IN
    IF ~AllProved(r) THEN row' = r /\ UNCHANGED <<job, att, due, work, box>>
    ELSE /\ att' = [att EXCEPT ![F].state = "stopped"]
         /\ job' = CASE job.state = "cancelling" ->
                          [job EXCEPT !.state = "cancelled"]
                     [] job.state = "pausing" ->
                          [job EXCEPT !.state = "paused", !.latest = Newest]
                     [] job.state \in Terminal \cup {"finalizing"} -> job
                     [] OTHER -> [job EXCEPT !.state = "recovering"]
         /\ row' = [m \in Nodes |-> Fresh]
         /\ due' = [due EXCEPT !.core = FALSE]
         /\ work' = [work EXCEPT ![F] = [Idle EXCEPT !.kept = work[F].kept]]
         /\ box' = [m \in Nodes |-> {}]

-----------------------------------------------------------------------------
(* Core: advance_training *)

(* The controller does nothing else for the job while it waits for a call. *)
Waiting == \E c \in calls : c[4]

QueueExpired ==
    /\ ~Busy /\ over.queue
    /\ job.state \in {"queued", "preflighting", "recovering"}
Unhindered == ~Waiting /\ ~QueueExpired /\ ~over.authority

AdvanceQueueTimeout ==
    /\ ~Waiting /\ QueueExpired
    /\ job' = [job EXCEPT !.state = "failed"]
    /\ UNCHANGED <<att, row, due, ckpt, over, nodeVars, calls, spent>>

(* A job without authority is cancelled; release_unstarted_job ends one    *)
(* that holds nothing.                                                     *)
AdvanceCancel ==
    /\ ~Waiting /\ ~QueueExpired /\ job.state \notin Terminal \cup {"paused"}
    /\ job.state = "cancelling" \/ over.authority
    /\ IF Busy
       THEN job' = [job EXCEPT !.state = "cancelling"] /\ EnqueueStop(row)
       ELSE job' = [job EXCEPT !.state = "cancelled"] /\ UNCHANGED <<att, row>>
    /\ UNCHANGED <<due, ckpt, over, nodeVars, calls, spent>>

AdvanceRecover ==
    /\ Unhindered /\ Busy
    /\ \/ job.state = "recovering"
       \/ job.state \in {"running", "reserving"} /\ ~due.core
    /\ job' = [job EXCEPT !.state = "recovering"] /\ EnqueueStop(row)
    /\ UNCHANGED <<due, ckpt, over, nodeVars, calls, spent>>

(* A pause that takes more than a minute becomes a stop. *)
AdvancePause ==
    /\ Unhindered /\ Busy /\ job.state = "pausing"
    /\ \/ row' = Told(row, "pause") /\ UNCHANGED <<att, spent>>
       \/ EnqueueStop(row) /\ Strike("slow")
    /\ UNCHANGED <<job, due, ckpt, over, nodeVars, calls>>

AdvanceQueued ==
    /\ Unhindered /\ ~Busy /\ job.state = "queued"
    /\ job' = [job EXCEPT !.state = "preflighting"]
    /\ UNCHANGED <<att, row, due, ckpt, over, nodeVars, calls, spent>>

(* Mutant: one update too few. *)
TrainedShort == job.latest = <<F, Updates - 1>>

Trained == job.latest = <<F, Updates>>

AdvanceFinalizing ==
    /\ Unhindered /\ ~Busy /\ job.state = "recovering" /\ Trained
    /\ job' = [job EXCEPT !.state = "finalizing"]
    /\ UNCHANGED <<att, row, due, ckpt, over, nodeVars, calls, spent>>

AdvanceExhausted ==
    /\ Unhindered /\ ~Busy /\ job.state = "recovering" /\ ~Trained
    /\ job.retries >= MaxRecoveries
    /\ job' = [job EXCEPT !.state = "failed"]
    /\ UNCHANGED <<att, row, due, ckpt, over, nodeVars, calls, spent>>

(* admit_training: the next fence, every rank's hold and preparation. *)
Admit(team) ==
    LET again == job.state = "recovering"
        from == IF again THEN Newest ELSE job.latest IN
    /\ Unhindered /\ ~Busy /\ F < MaxFence
    /\ \/ job.state = "preflighting"
       \/ again /\ ~Trained /\ job.retries < MaxRecoveries
    /\ Cardinality(team) = job.spec.world
    /\ job' = [job EXCEPT !.state = "reserving", !.fence = @ + 1, !.latest = from,
                          !.retries = IF again THEN @ + 1 ELSE @]
    /\ att' = [att EXCEPT ![F + 1] =
                  [state |-> "preparing", team |-> team, from |-> from[2]]]
    /\ row' = [n \in Nodes |-> Fresh]
    /\ due' = [core |-> TRUE, command |-> TRUE]
    /\ work' = [work EXCEPT ![F + 1].done = from[2]]
    /\ box' = [n \in Nodes |-> {}]
    /\ UNCHANGED <<ckpt, over, node, proc, calls, spent>>

(* No room, or no measured profile: the job waits in the queue. *)
AdmitWaits ==
    /\ Unhindered /\ ~Busy /\ job.state = "preflighting" /\ Strike("full")
    /\ job' = [job EXCEPT !.state = "queued"]
    /\ UNCHANGED <<att, row, due, ckpt, over, nodeVars, calls>>

(* impossible_fit: the Studios can never hold the job. *)
AdmitImpossible ==
    /\ Unhindered /\ ~Busy /\ Strike("full")
    /\ \/ job.state = "preflighting"
       \/ job.state = "recovering" /\ ~Trained /\ job.retries < MaxRecoveries
    /\ job' = [job EXCEPT !.state = "failed"]
    /\ UNCHANGED <<att, row, due, ckpt, over, nodeVars, calls>>

(* Every rank is prepared before any rank starts. *)
AdvanceReserving ==
    /\ Unhindered /\ Busy /\ job.state = "reserving" /\ due.core
    /\ att[F].state = "preparing"
    /\ \A n \in Team : row[n].prep = "ready" /\ row[n].start = None
    /\ row' = [n \in Nodes |->
                 IF n \in Team THEN [row[n] EXCEPT !.start = "pending"] ELSE row[n]]
    /\ due' = [due EXCEPT !.command = TRUE]
    /\ UNCHANGED <<job, att, ckpt, over, nodeVars, calls, spent>>

-----------------------------------------------------------------------------
(* The Studios: the journal of attempts *)

(* A record is in the journal's table; a rejection is a file beside it. *)
Record(f, n) == node[f][n].at \notin {None, "rejected"}
Held(f, n) == Record(f, n) /\ ~node[f][n].released

(* What accept asks of a command: no record of a later fence, and a lease. *)
Acceptable(f, n) ==
    /\ \A g \in Attempts : g > f => ~Record(g, n)
    /\ f = F => due.command

(* NativeProcesses.observe and discover, for an attempt with a record. *)
Liveness(f, n) ==
    CASE node[f][n].at = "rejected" -> "stopped"
      [] proc[f][n] \in Running -> "running"
      [] proc[f][n] = "gone" -> "stopped"
      [] proc[f][n] \in {"due", "lost"} -> "unknown"
      [] node[f][n].at = "unsure" -> "unknown"
      [] OTHER -> node[f][n].at

(* An observation writes the identity of the process it finds. *)
Seen(f, n) == [proc EXCEPT ![f][n] = IF @ = "stray" THEN "live" ELSE @]

(* A stop: an attempt without a record is rejected for good, one with a    *)
(* record is stopped and its slot released.                                *)
StoppedNode(v) ==
    IF v.at \in {None, "rejected"} THEN [v EXCEPT !.at = "rejected"]
    ELSE [Blank EXCEPT !.at = "stopped", !.released = TRUE]

StopOnNode(f, n) ==
    /\ node' = [node EXCEPT ![f][n] = StoppedNode(@)]
    /\ proc' = [proc EXCEPT ![f][n] = IF @ \in Running THEN "gone" ELSE @]

-----------------------------------------------------------------------------
(* Core and the Studios: dispatch_training_command *)

(* What every command but a stop and a pause needs. *)
MayDispatch ==
    /\ Busy /\ ~over.authority
    /\ job.state \in {"reserving", "running", "pausing"}

(* The preparations, and then the starts, are sent together. *)
SendPrepare(n) ==
    /\ MayDispatch /\ due.command /\ n \in Team
    /\ row[n].prep \in {"pending", "sent"} /\ <<"prepare", F, n, TRUE>> \notin calls
    /\ row' = [row EXCEPT ![n].prep = "sent"]
    /\ calls' = calls \cup {<<"prepare", F, n, TRUE>>}
    /\ UNCHANGED <<job, att, due, ckpt, over, nodeVars, spent>>

SendStart(n) ==
    /\ MayDispatch /\ due.command /\ n \in Team
    /\ row[n].start \in {"pending", "sent"} /\ <<"start", F, n, TRUE>> \notin calls
    /\ row' = [row EXCEPT ![n].start = "sent"]
    /\ calls' = calls \cup {<<"start", F, n, TRUE>>}
    /\ UNCHANGED <<job, att, due, ckpt, over, nodeVars, spent>>

(* The controller gives a call up after five seconds; the node serves it   *)
(* later, and the answer is lost.                                          *)
CallLate(c) ==
    /\ c \in calls /\ c[4] /\ Strike("late")
    /\ calls' = (calls \ {c}) \cup {<<c[1], c[2], c[3], FALSE>>}
    /\ UNCHANGED <<job, att, row, due, ckpt, over, nodeVars>>

(* prepare: the slot is taken, or the attempt rejected for good. *)
ServePrepare(f, n, awaited) ==
    LET v == node[f][n]
        free == Acceptable(f, n) /\ \A g \in Attempts : ~Held(g, n)
        Ready == row' = IF awaited /\ Busy
                        THEN [row EXCEPT ![n].prep = "ready"] ELSE row IN
    /\ <<"prepare", f, n, awaited>> \in calls
    /\ calls' = calls \ {<<"prepare", f, n, awaited>>}
    /\ \/ /\ v.at = None /\ free /\ Ready
          /\ node' = [node EXCEPT ![f][n].at = "prepared", ![f][n].lease = TRUE]
          /\ UNCHANGED spent
       \/ /\ v.at = None
          /\ IF free THEN Strike("refused") ELSE UNCHANGED spent
          /\ node' = [node EXCEPT ![f][n].at = "rejected"]
          /\ UNCHANGED row
       \/ /\ v.at # None
          /\ IF Acceptable(f, n) /\ v.at = "prepared" /\ ~v.released
             THEN Ready ELSE UNCHANGED row
          /\ UNCHANGED <<node, spent>>
    /\ UNCHANGED <<job, att, due, ckpt, over, proc, work, box>>

(* reduce_command_receipt: the job runs once every rank has started. *)
ReduceStart(n) ==
    IF ~Busy \/ row[n].start = "done" THEN UNCHANGED <<job, att, row>>
    ELSE LET r == [row EXCEPT ![n].start = "done", ![n].pid = TRUE] IN
         IF (\A m \in Team : r[m].pid) /\ job.state = "reserving" /\ due.core
         THEN /\ job' = [job EXCEPT !.state = "running"]
              /\ att' = [att EXCEPT ![F].state = "running"]
              /\ row' = Renamed(r)
         ELSE /\ row' = r /\ UNCHANGED job
              /\ att' = IF job.state \notin {"reserving", "running"} \/ ~due.core
                        THEN [att EXCEPT ![F].state = "stopping"] ELSE att

(* Mutant: a stopped preparation may still start. *)
MayStartStopped(f, n) ==
    Record(f, n) /\ Acceptable(f, n) /\ proc[f][n] = None

MayStart(f, n) ==
    /\ Record(f, n) /\ Acceptable(f, n) /\ proc[f][n] = None
    /\ node[f][n].at = "prepared" /\ ~node[f][n].released

(* start: the intent to spawn is journaled, or the node refuses a start    *)
(* whose inputs or interconnect it cannot verify.  A start that is         *)
(* repeated never spawns again: it is answered from the live process, or   *)
(* with the receipt of one that may be gone by now.                        *)
ServeStart(f, n, awaited) ==
    LET call == <<"start", f, n, awaited>>
        replied == awaited /\ Acceptable(f, n) IN
    /\ call \in calls /\ proc[f][n] # "due"
    /\ \/ /\ MayStart(f, n)
          /\ node' = [node EXCEPT ![f][n].lease = TRUE]
          /\ proc' = [proc EXCEPT ![f][n] = "due"]
          /\ UNCHANGED <<job, att, row, calls, spent>>
       \/ /\ calls' = calls \ {call}
          /\ \/ replied /\ proc[f][n] \in {"live", "gone"} /\ ReduceStart(n)
             \/ ~(replied /\ proc[f][n] = "live") /\ UNCHANGED <<job, att, row>>
          /\ IF MayStart(f, n) THEN Strike("refused") ELSE UNCHANGED spent
          /\ UNCHANGED <<node, proc>>
    /\ UNCHANGED <<due, ckpt, over, work, box>>

Spawn(f, n, awaited) ==
    LET call == <<"start", f, n, awaited>> IN
    /\ proc[f][n] = "due" /\ call \in calls
    /\ proc' = [proc EXCEPT ![f][n] = "live"]
    /\ calls' = calls \ {call}
    /\ IF awaited THEN ReduceStart(n) ELSE UNCHANGED <<job, att, row>>
    /\ UNCHANGED <<due, ckpt, over, node, work, box, spent>>

(* The agent dies between the intent and the journaled identity. *)
AgentCrash(f, n) ==
    /\ proc[f][n] = "due" /\ Strike("crash")
    /\ \E left \in {"stray", "lost"} : proc' = [proc EXCEPT ![f][n] = left]
    /\ calls' = {c \in calls : c[3] # n}
    /\ UNCHANGED <<job, att, row, due, ckpt, over, node, work, box>>

(* stop: the answer proves the stop, is lost, or says that nothing is      *)
(* proved; the last is kept for the command, which is then of no more use. *)
SendStop(n) ==
    /\ ~Waiting /\ Busy /\ n \in Team /\ row[n].stop = "open" /\ ~row[n].proof
    /\ proc[F][n] # "due"
    /\ \/ /\ proc[F][n] # "lost" /\ StopOnNode(F, n)
          /\ \/ RecordProof(n) /\ UNCHANGED spent
             \/ Strike("lost") /\ UNCHANGED <<job, att, row, due, work, box>>
       \/ /\ IF proc[F][n] = "lost" THEN UNCHANGED spent
             ELSE Held(F, n) /\ Strike("unsure")
          /\ node' = [node EXCEPT ![F][n].at =
                          IF proc[F][n] = None THEN "unsure" ELSE @]
          /\ row' = [row EXCEPT ![n].stop = "void"]
          /\ UNCHANGED <<job, att, proc, due, work, box>>
    /\ UNCHANGED <<ckpt, over, calls>>

(* observe_training of a live trainer. *)
ObserveRunning(r) ==
    IF job.state \in {"cancelling", "recovering"} THEN EnqueueStop(r)
    ELSE row' = r /\ UNCHANGED att

SendPause(n) ==
    /\ ~Waiting /\ Busy /\ n \in Team
    /\ row[n].pause = "open" /\ proc[F][n] = "live"
    /\ node' = [node EXCEPT ![F][n].pause = TRUE]
    /\ ObserveRunning([row EXCEPT ![n].pause = "done", ![n].pid = TRUE])
    /\ UNCHANGED <<job, due, ckpt, over, proc, work, box, calls, spent>>

SendAck(n) ==
    /\ ~Waiting /\ MayDispatch /\ due.core /\ n \in Team /\ row[n].ack
    /\ proc[F][n] = "live" /\ node[F][n].lease
    /\ row' = [row EXCEPT ![n].ack = FALSE]
    /\ work' = [work EXCEPT ![F].acked = @ \cup {n}, ![F].kept = work[F].done]
    /\ UNCHANGED <<job, att, due, ckpt, over, node, proc, box, calls, spent>>

-----------------------------------------------------------------------------
(* Core: _observe_node reads the mailbox, mirrors, then asks the status *)

(* ingest_training_event: in the order they were written. *)
Ingest(n) ==
    /\ ~Waiting /\ Busy /\ n \in Team
    /\ \/ /\ "staged" \in box[n] /\ CurrentAttempt
          /\ ckpt' = [ckpt EXCEPT ![<<F, work[F].done>>] = "staging"]
          /\ box' = [box EXCEPT ![n] = @ \ {"staged"}]
          /\ UNCHANGED <<job, row>>
       \/ /\ box[n] = {"failure"}
          /\ box' = [box EXCEPT ![n] = {}]
          /\ IF job.state \in Terminal \cup {"cancelling", "pausing", "paused"}
             THEN UNCHANGED <<job, row>>
             ELSE job' = [job EXCEPT !.state = "recovering"] /\ row' = Renamed(row)
          /\ UNCHANGED ckpt
    /\ UNCHANGED <<att, due, over, node, proc, work, calls, spent>>

At(u, states) == u # 0 /\ ckpt[<<F, u>>] \in states

(* mirror_checkpoint asks for the owner's authority, then lets both        *)
(* Studios copy and verify; a tick that gets no further is repeated.       *)
Mirror ==
    LET u == work[F].done IN
    /\ ~Waiting /\ CurrentAttempt /\ ~over.authority /\ At(u, {"staging"})
    /\ ckpt' = [ckpt EXCEPT ![<<F, u>>] = "replicating"]
    /\ UNCHANGED <<job, att, row, due, over, nodeVars, calls, spent>>

(* Mutant: acknowledged before both copies are verified and committed. *)
CommittedStaging(u) == ckpt

Committed(u) == [ckpt EXCEPT ![<<F, u>>] = "committed"]

(* Its last transaction, with commit_checkpoint and the acknowledgements:  *)
(* both copies are verified, so every rank may go on.  The attempt is      *)
(* looked at again, the authority is not.                                  *)
Commit ==
    LET u == work[F].done IN
    /\ ~Waiting /\ CurrentAttempt /\ At(u, {"replicating"})
    /\ \A n \in Team : ~row[n].ack
    /\ ckpt' = Committed(u)
    /\ job' = IF job.latest[2] < u THEN [job EXCEPT !.latest = <<F, u>>] ELSE job
    /\ row' = [n \in Nodes |-> [row[n] EXCEPT !.ack = n \in Team]]
    /\ UNCHANGED <<att, due, over, nodeVars, calls, spent>>

MirrorExpires ==
    /\ ~Waiting /\ CurrentAttempt /\ ~over.authority
    /\ At(work[F].done, {"staging", "replicating"}) /\ Strike("mirror")
    /\ job' = [job EXCEPT !.state = "recovering"] /\ EnqueueStop(row)
    /\ UNCHANGED <<due, ckpt, over, nodeVars, calls>>

(* A preparation that was not sent yet has no status. *)
Observed(n) ==
    /\ ~Waiting /\ Busy /\ n \in Team
    /\ ~(att[F].state = "preparing" /\ job.state = "reserving"
            /\ row[n].prep = "pending")

(* Can the mailbox be read no further? *)
Drained(n) == box[n] = {} \/ ("staged" \in box[n] /\ ~CurrentAttempt)

Observe(n) ==
    /\ Observed(n) /\ node[F][n].at # None
    /\ IF Drained(n) THEN UNCHANGED spent ELSE Strike("poll")
    /\ proc' = Seen(F, n)
    /\ CASE Liveness(F, n) = "stopped" -> RecordProof(n)
         [] Liveness(F, n) = "unknown" ->
              /\ att' = [att EXCEPT ![F].state = "unknown"]
              /\ job' = IF job.state \in {"cancelling", "pausing"} THEN job
                        ELSE [job EXCEPT !.state = "recovering"]
              /\ UNCHANGED <<row, due, work, box>>
         [] Liveness(F, n) = "running" ->
              /\ ObserveRunning([row EXCEPT ![n].pid = TRUE])
              /\ UNCHANGED <<job, due, work, box>>
         [] OTHER -> UNCHANGED <<job, att, row, due, work, box>>
    /\ UNCHANGED <<ckpt, over, node, calls>>

(* The node does not answer, or does not know the attempt. *)
ObserveFails(n) ==
    /\ Observed(n)
    /\ IF node[F][n].at = None THEN UNCHANGED spent ELSE Strike("poll")
    /\ att' = [att EXCEPT ![F].state = "unknown"]
    /\ IF job.state \in {"reserving", "running"}
       THEN job' = [job EXCEPT !.state = "recovering"] /\ row' = Renamed(row)
       ELSE UNCHANGED <<job, row>>
    /\ UNCHANGED <<due, ckpt, over, nodeVars, calls>>

(* guard_reason: memory, heat or the latency of chat. *)
Breach ==
    /\ ~Waiting /\ Busy /\ job.state = "running" /\ Strike("breach")
    /\ job' = [job EXCEPT !.state = "pausing", !.origin = "protective"]
    /\ row' = Told(Renamed(row), "pause")
    /\ UNCHANGED <<att, due, ckpt, over, nodeVars, calls>>

(* _finalize: the adapter is extracted, copied, and served once. *)
Finalize ==
    /\ job.state = "finalizing" /\ ~over.authority
    /\ \/ job' = [job EXCEPT !.state = "succeeded"] /\ UNCHANGED spent
       \/ job' = [job EXCEPT !.state = "failed"] /\ Strike("extract")
    /\ UNCHANGED <<att, row, due, ckpt, over, nodeVars, calls>>

-----------------------------------------------------------------------------
(* Administrators: control_training *)

Pause ==
    /\ Control
    /\ \/ /\ job.state = "running"
          /\ job' = [job EXCEPT !.state = "pausing", !.origin = "admin"]
          /\ row' = Told(Renamed(row), "pause")
       \/ /\ job.state = "queued"
          /\ job' = [job EXCEPT !.state = "paused", !.origin = "admin"]
          /\ UNCHANGED row
    /\ UNCHANGED <<att, due, ckpt, over, nodeVars, calls>>

(* The queue's deadline starts anew. *)
Requeue(latest) ==
    /\ job.state = "paused" /\ ~Busy /\ ~over.authority
    /\ job' = [job EXCEPT !.state = "queued", !.origin = None, !.latest = latest]
    /\ over' = [over EXCEPT !.queue = FALSE]
    /\ UNCHANGED <<att, row, due, ckpt, nodeVars, calls>>

Resume == Control /\ Requeue(Newest)

(* _resume_automatic, once the reason for a protective pause is gone. *)
ResumeAutomatic ==
    job.origin = "protective" /\ Requeue(job.latest) /\ UNCHANGED spent

Cancel ==
    /\ Control /\ job.state \notin Terminal
    /\ IF Busy
       THEN /\ job' = [job EXCEPT !.state = "cancelling"]
            /\ row' = Told(Renamed(row), "stop")
            /\ att' = [att EXCEPT ![F].state = "stopping"]
       ELSE job' = [job EXCEPT !.state = "cancelled"] /\ UNCHANGED <<att, row>>
    /\ UNCHANGED <<due, ckpt, over, nodeVars, calls>>

-----------------------------------------------------------------------------
(* Time *)

QueueDeadline ==
    /\ ~over.queue /\ Strike("queue")
    /\ over' = [over EXCEPT !.queue = TRUE]
    /\ UNCHANGED <<job, att, row, due, ckpt, nodeVars, calls>>

(* The owner loses the right to train, or the inputs changed. *)
AuthorityEnds ==
    /\ ~over.authority /\ Strike("authority")
    /\ over' = [over EXCEPT !.authority = TRUE]
    /\ UNCHANGED <<job, att, row, due, ckpt, nodeVars, calls>>

(* Core renews the latest attempt's leases while the job is to run. *)
Renewed(f) == f = F /\ Busy /\ job.state \in {"running", "reserving"}

NodeLapse(f, n) ==
    /\ Held(f, n) /\ node[f][n].lease
    /\ IF Renewed(f) THEN Strike("lapse") ELSE UNCHANGED spent
    /\ node' = [node EXCEPT ![f][n].lease = FALSE]
    /\ UNCHANGED <<job, att, row, due, ckpt, over, proc, work, box, calls>>

CoreLapse ==
    /\ Busy /\ due.core /\ \A n \in Team : ~(Held(F, n) /\ node[F][n].lease)
    /\ IF Renewed(F) THEN Strike("lapse") ELSE UNCHANGED spent
    /\ due' = [core |-> FALSE, command |-> FALSE]
    /\ UNCHANGED <<job, att, row, ckpt, over, nodeVars, calls>>

(* The lease written into a command is not renewed; it matters while the   *)
(* attempt holds its memory or a call is still under way.                  *)
CommandLapse ==
    /\ due.command /\ (Busy \/ calls # {})
    /\ IF Busy THEN Strike("slow") ELSE UNCHANGED spent
    /\ due' = [due EXCEPT !.command = FALSE]
    /\ UNCHANGED <<job, att, row, ckpt, over, nodeVars, calls>>

-----------------------------------------------------------------------------
(* The Studios: the watchdog and the trainers *)

Watchdog(f, n) ==
    /\ Held(f, n) /\ proc[f][n] # "due"
    /\ IF Liveness(f, n) = "stopped"
       THEN node' = [node EXCEPT ![f][n].released = TRUE] /\ UNCHANGED proc
       ELSE IF node[f][n].lease \/ proc[f][n] = "lost"
       THEN proc' = Seen(f, n) /\ UNCHANGED node
       ELSE /\ node' = [node EXCEPT ![f][n] = [Blank EXCEPT !.at = "stopped"]]
            /\ proc' = [proc EXCEPT ![f][n] = IF @ \in Running THEN "gone" ELSE @]
    /\ UNCHANGED <<job, att, row, due, ckpt, over, work, box, calls, spent>>

Together(f) == att[f].team # {} /\ \A n \in att[f].team : proc[f][n] \in Running

Post(f, n, event) ==
    box' = IF f = F THEN [box EXCEPT ![n] = @ \cup {event}] ELSE box

(* Mutant: a trainer resumed at its last update trains on. *)
MorePast(f) == work[f].done <= Updates

More(f) == work[f].done < Updates

(* One update and its checkpoint, which rank zero reports. *)
Train(f) ==
    /\ Together(f) /\ work[f].phase = "train" /\ More(f)
    /\ node[f][Lead(f)].lease
    /\ work' = [work EXCEPT ![f].done = @ + 1, ![f].phase = "wait", ![f].acked = {}]
    /\ Post(f, Lead(f), "staged")
    /\ UNCHANGED <<job, att, row, due, ckpt, over, node, proc, calls, spent>>

(* All ranks have the acknowledgement, and agree to go on or to leave. *)
Continue(f) ==
    /\ Together(f) /\ work[f].phase = "wait" /\ work[f].acked = att[f].team
    /\ work' = [work EXCEPT ![f].phase =
           IF work[f].done = Updates \/ \E n \in att[f].team : node[f][n].pause
           THEN "leave" ELSE "train"]
    /\ UNCHANGED <<job, att, row, due, ckpt, over, node, proc, box, calls, spent>>

Ends(f, n) ==
    /\ proc[f][n] \in Running
    /\ \E left \in {"gone"} \cup IF proc[f][n] = "stray" THEN {"lost"} ELSE {} :
          proc' = [proc EXCEPT ![f][n] = left]
    /\ node' = [node EXCEPT ![f][n].lease = FALSE, ![f][n].pause = FALSE]
    /\ UNCHANGED <<job, att, row, due, ckpt, over, work, calls>>

Leave(f, n) ==
    /\ work[f].phase = "leave" /\ Ends(f, n) /\ UNCHANGED <<box, spent>>

(* A guard without a lease, or a collective without its peer, kills the    *)
(* process; so may anything else.                                          *)
Killed(f, n) ==
    /\ Ends(f, n) /\ UNCHANGED box
    /\ IF \/ ~node[f][n].lease
          \/ /\ work[f].phase # "leave"
             /\ \E m \in att[f].team : proc[f][m] \in {"gone", "lost"}
       THEN UNCHANGED spent ELSE Strike("death")

(* A trainer that has nothing left to train, or waits for its              *)
(* acknowledgement in vain, fails and says so.                             *)
Fails(f, n) ==
    /\ node[f][n].lease /\ Ends(f, n) /\ Post(f, n, "failure")
    /\ \/ work[f].phase = "train" /\ att[f].from = Updates /\ UNCHANGED spent
       \/ /\ work[f].phase = "wait" /\ n \notin work[f].acked
          /\ IF f = F /\ CurrentAttempt THEN Strike("slow") ELSE UNCHANGED spent

-----------------------------------------------------------------------------

Init ==
    /\ \E spec \in Specs :
          job = [state |-> "queued", spec |-> spec, origin |-> None,
                 fence |-> 0, latest |-> <<0, 0>>, retries |-> 0]
    /\ att = [f \in Attempts |-> [state |-> None, team |-> {}, from |-> 0]]
    /\ row = [n \in Nodes |-> Fresh]
    /\ due = [core |-> FALSE, command |-> FALSE]
    /\ ckpt = [x \in Attempts \X (1 .. MaxUpdates) |-> None]
    /\ over = [queue |-> FALSE, authority |-> FALSE]
    /\ node = [f \in Attempts |-> [n \in Nodes |-> Blank]]
    /\ proc = [f \in Attempts |-> [n \in Nodes |-> None]]
    /\ work = [f \in Attempts |-> Idle]
    /\ box = [n \in Nodes |-> {}]
    /\ calls = {}
    /\ spent = [controls |-> 0, troubles |-> 0]

Advance ==
    \/ AdvanceQueueTimeout \/ AdvanceCancel \/ AdvanceRecover \/ AdvancePause
    \/ AdvanceQueued \/ AdvanceFinalizing \/ AdvanceExhausted \/ AdmitWaits
    \/ AdmitImpossible \/ AdvanceReserving \/ \E team \in SUBSET Nodes : Admit(team)

Dispatch ==
    \E n \in Nodes : \/ SendPrepare(n) \/ SendStart(n) \/ SendStop(n)
                     \/ SendPause(n) \/ SendAck(n)

Serve ==
    \/ \E c \in calls : CallLate(c)
    \/ \E f \in Attempts, n \in Nodes :
          \/ AgentCrash(f, n)
          \/ \E awaited \in BOOLEAN :
                \/ ServePrepare(f, n, awaited) \/ ServeStart(f, n, awaited)
                \/ Spawn(f, n, awaited)

Follow ==
    \/ Mirror \/ Commit \/ MirrorExpires \/ Breach \/ Finalize
    \/ \E n \in Nodes : Ingest(n) \/ Observe(n) \/ ObserveFails(n)

Administer == Pause \/ Resume \/ ResumeAutomatic \/ Cancel

Pass ==
    \/ QueueDeadline \/ AuthorityEnds \/ CoreLapse \/ CommandLapse
    \/ \E f \in Attempts, n \in Nodes : NodeLapse(f, n)

Operate ==
    \E f \in Attempts : \/ Train(f) \/ Continue(f)
                        \/ \E n \in Nodes : \/ Watchdog(f, n) \/ Leave(f, n)
                                            \/ Killed(f, n) \/ Fails(f, n)

Next == Advance \/ Dispatch \/ Serve \/ Follow \/ Administer \/ Pass \/ Operate

(* The controller ticks, and a Studio goes on: calls are served, leases    *)
(* nobody renews lapse, the watchdog looks and a guard kills its trainer.  *)
NodeGoes(f, n) ==
    \/ \E awaited \in BOOLEAN : \/ ServePrepare(f, n, awaited)
                                \/ ServeStart(f, n, awaited)
                                \/ Spawn(f, n, awaited)
    \/ NodeLapse(f, n) \/ Watchdog(f, n) \/ Killed(f, n)

Fairness ==
    /\ WF_vars(AdvanceCancel \/ AdvanceRecover) /\ WF_vars(CoreLapse)
    /\ \A n \in Nodes : /\ WF_vars(SendStop(n)) /\ WF_vars(Ingest(n))
                        /\ WF_vars(Observe(n) \/ ObserveFails(n))
    /\ \A f \in Attempts, n \in Nodes : WF_vars(NodeGoes(f, n))

Spec == Init /\ [][Next]_vars /\ Fairness

-----------------------------------------------------------------------------
(* Properties *)

(* A trainer runs, or is about to be spawned, only for an attempt whose    *)
(* memory core still holds: record_stop_proof never releases a Studio      *)
(* that still trains, whatever calls arrive late, and a job never has two  *)
(* generations of trainers.                                                *)
StoppedIsDead ==
    \A f \in Attempts, n \in Nodes :
        proc[f][n] \in Alive => f = F /\ att[f].state \in Active

(* What a trainer was told is durable is never trained again: each later   *)
(* attempt resumes from an update at least as new as any acknowledged one. *)
AckedIsKept ==
    \A f \in Attempts : \A g \in 1 .. f - 1 :
        att[f].state # None => att[f].from >= work[g].kept

(* An adapter is published only for a job whose newest attempt reached the *)
(* last update, has both copies of it, and has been proved stopped.        *)
SucceededIsTrained ==
    job.state \in {"finalizing", "succeeded"} =>
        ckpt[<<F, Updates>>] = "committed" /\ att[F].state = "stopped"

(* An attempt that is to end is eventually proved stopped on every Studio, *)
(* unless an agent died in the middle of a spawn: an answer that proves    *)
(* nothing is not repeated by core, and the node's watchdog has to end the *)
(* trainer whose lease is no longer renewed.                               *)
StopEnds ==
    (Busy /\ job.state \in {"cancelling", "recovering", "pausing"})
        ~> (~Busy \/ \E n \in Team : proc[F][n] = "lost")

(* A job all of whose updates are committed does not fail: data-model.md   *)
(* of spec 016 lets a recovering job fail "after exhausted recovery policy *)
(* and teardown" only.  AdvanceQueueTimeout breaks it; see the README.     *)
TrainedSucceeds ==
    F # 0 /\ ckpt[<<F, Updates>>] = "committed" => job.state # "failed"
=============================================================================
