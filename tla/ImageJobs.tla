----------------------------- MODULE ImageJobs -----------------------------
(***************************************************************************)
(* Image jobs: generated on a Studio, published from core.                 *)
(*                                                                         *)
(*   the API admits and cancels jobs (coire_api/images);                   *)
(*   the scheduler runs one workflow per job and purpose - dispatch,       *)
(*     observe, transfer, publish, cancel, expire - and unloads idle       *)
(*     workers (coire_scheduler/images.py, image_residency.py);            *)
(*   the node keeps a journal of attempts and supervises one worker        *)
(*     process (coire_node/image_dispatch.py, image_runtime);              *)
(*   the worker generates one job at a time.                               *)
(*                                                                         *)
(* An action is one database transaction, or one handler of the node,      *)
(* which holds the dispatcher's lock.  A workflow step that fails starts   *)
(* again from its beginning; its call may still arrive later.              *)
(***************************************************************************)
EXTENDS Integers, FiniteSets, FiniteSetsExt

CONSTANTS Jobs, Nodes,
          Outputs,     \* spec.n, images in a batch
          MaxPending,  \* image_pending_global
          Retained,    \* _MAX_RETAINED_JOBS
          Cancellable, \* jobs somebody may cancel
          Troubles,    \* what may go wrong, see AllTroubles
          MaxUnits,    \* bound on worker instances per Studio
          MaxStrikes   \* bound on how often something goes wrong

(* A step loses its call or is refused, a worker dies or does not die in   *)
(* time, an agent restarts, a Studio overheats, access or the model is     *)
(* withdrawn, a deadline passes.                                           *)
AllTroubles == {"call", "death", "stop", "restart", "heat", "access", "model",
                "time"}

ASSUME ImageJobsAssumption ==
    /\ IsFiniteSet(Jobs) /\ IsFiniteSet(Nodes) /\ Cancellable \subseteq Jobs
    /\ {Outputs, MaxPending, Retained, MaxUnits} \subseteq Nat \ {0}
    /\ Troubles \subseteq AllTroubles /\ MaxStrikes \in Nat

None == "none"

ASSUME NameAssumption == None \notin Jobs /\ None \notin Nodes

VARIABLES
    state,   \* ImageJobRow.state, None before admission
    place,   \* ImageJobRow.selected_node_id
    unit,    \* ImageJobRow.instance_id, 0 while unplaced
    lease,   \* an ImageExecutionLeaseRow is unreleased
    acked,   \* receipts are complete and node cleanup is acknowledged
    got,     \* outputs with a receipt and a staged file on core
    public,  \* ImageOutputRows are published
    age,     \* 0, 1 once the deadline passed, 2 once the lease expired
    lost,    \* what has been withdrawn from the job
    pending, held, stored,  \* ImageQuotaRow, counted in jobs
    inst,    \* image instance of each Studio in core
    dw, ow, tw, cw,  \* dispatch, observe, transfer and cancel steps
    seen,    \* journal state the last observation reported
    uw,      \* idle unload of each Studio
    journal, \* NodeImageJob.state, None without a journal file
    clean,   \* NodeImageJob.scratch_cleaned
    bound,   \* worker process the journal is bound to
    kept,    \* receipts are in the journal
    scratch, \* output directory of the attempt exists
    push,    \* transfer handler that holds the node's lock
    worker,  \* process record of the supervisor
    stopped, \* instance named by last-stopped.json
    work,    \* ImageWorkerStatus.state in the worker's memory
    late,    \* calls in flight whose caller has given up
    struck,  \* kinds of trouble there have been
    strikes  \* and how many in all

row == <<state, place, unit, lease, acked, got, public, age, lost>>
quota == <<pending, held, stored>>
flows == <<dw, ow, seen, tw, cw, uw>>
attempt == <<journal, clean, bound, kept, scratch>>
process == <<worker, stopped, work>>
bounds == <<struck, strikes>>
node == <<attempt, push, process>>
vars == <<row, quota, inst, flows, attempt, push, process, late, bounds>>

Terminal == {"succeeded", "failed", "cancelled"}
States == Terminal \cup {None, "queued", "reserving", "running",
                         "transferring", "cancelling"}
Idle == [job |-> None, sent |-> 0]
NoInst == [id |-> 0, at |-> None]
NoWorker == [id |-> 0, pid |-> 0, at |-> None, alive |-> FALSE]

(* Every variable keeps its type. *)
TypeOK ==
    /\ state \in [Jobs -> States] /\ place \in [Jobs -> Nodes \cup {None}]
    /\ unit \in [Jobs -> 0..MaxUnits]
    /\ {lease, acked, public, clean, kept, scratch} \subseteq [Jobs -> BOOLEAN]
    /\ got \in [Jobs -> 0..Outputs] /\ age \in [Jobs -> 0..2]
    /\ lost \in [Jobs -> SUBSET {"access", "model"}]
    /\ {pending, held, stored} \subseteq Nat
    /\ inst \in [Nodes -> [id : 0..MaxUnits,
                           at : {None, "launching", "ready", "draining"}]]
    /\ dw \in [Jobs -> {None, "go", "reserve", "load", "warm", "ready",
                        "start", "done"}]
    /\ ow \in [Jobs -> {None, "go", "ask", "saw", "done"}]
    /\ seen \in [Jobs -> States]
    /\ tw \in [Jobs -> {None, "go", "ask", "mint", "push", "wait", "ack", "done"}]
    /\ cw \in [Jobs -> {None, "go", "final", "done"}]
    /\ uw \in [Nodes -> {"idle", "stop", "confirm"}]
    /\ journal \in [Jobs -> States] /\ bound \in [Jobs -> Nat]
    /\ push \in [Nodes -> [job : Jobs \cup {None}, sent : 0..Outputs]]
    /\ worker \in [Nodes -> [id : 0..MaxUnits, pid : Nat, alive : BOOLEAN,
                             at : {None, "starting", "ready", "orphan"}]]
    /\ stopped \in [Nodes -> 0..MaxUnits]
    /\ work \in [Jobs -> {None, "running", "generated", "failed", "cancelled"}]
    /\ late \subseteq Jobs \X {"reserve", "load", "start", "push"}
    /\ struck \subseteq Troubles /\ strikes \in 0..MaxStrikes

Init ==
    LET all(v) == [j \in Jobs |-> v]
        each(v) == [n \in Nodes |-> v]
    IN  /\ state = all(None) /\ place = all(None) /\ unit = all(0)
        /\ lease = all(FALSE) /\ acked = all(FALSE) /\ got = all(0)
        /\ public = all(FALSE) /\ age = all(0) /\ lost = all({})
        /\ pending = 0 /\ held = 0 /\ stored = 0 /\ inst = each(NoInst)
        /\ dw = all(None) /\ ow = all(None) /\ tw = all(None) /\ cw = all(None)
        /\ seen = all(None) /\ uw = each("idle")
        /\ journal = all(None) /\ clean = all(FALSE) /\ bound = all(0)
        /\ kept = all(FALSE) /\ scratch = all(FALSE) /\ push = each(Idle)
        /\ worker = each(NoWorker) /\ stopped = each(0) /\ work = all(None)
        /\ late = {} /\ struck = {} /\ strikes = 0

Strike(kind) ==
    /\ kind \in Troubles /\ strikes < MaxStrikes
    /\ struck' = struck \cup {kind} /\ strikes' = strikes + 1

-----------------------------------------------------------------------------
(* Jobs in core *)

(* admit_image_job: the capacity hold is committed with the queued row. *)
Admit(j) ==
    /\ state[j] = None /\ pending < MaxPending
    /\ state' = [state EXCEPT ![j] = "queued"]
    /\ pending' = pending + 1 /\ held' = held + 1
    /\ UNCHANGED <<place, unit, lease, acked, got, public, age, lost, stored,
                   inst, flows, node, late, bounds>>

(* Mutant: the hold of a job that never ran is not returned. *)
EndQueuedHolds(j, outcome) ==
    /\ state' = [state EXCEPT ![j] = outcome]
    /\ pending' = pending - 1
    /\ UNCHANGED <<place, unit, lease, acked, got, public, age, lost, held,
                   stored>>

(* A queued job ends: release_pending_image_job_capacity. *)
EndQueued(j, outcome) ==
    /\ state' = [state EXCEPT ![j] = outcome]
    /\ pending' = pending - 1 /\ held' = held - 1
    /\ UNCHANGED <<place, unit, lease, acked, got, public, age, lost, stored>>

(* Mutant: the staged outputs are left behind. *)
EndPlacedKeeps(j, outcome) ==
    /\ state' = [state EXCEPT ![j] = outcome]
    /\ lease' = [lease EXCEPT ![j] = FALSE]
    /\ held' = held - 1
    /\ UNCHANGED <<place, unit, acked, got, public, age, lost, pending, stored>>

(* Mutant: the queue slot is given back a second time. *)
EndPlacedPending(j, outcome) ==
    /\ state' = [state EXCEPT ![j] = outcome]
    /\ got' = [got EXCEPT ![j] = 0]
    /\ lease' = [lease EXCEPT ![j] = FALSE]
    /\ held' = held - 1 /\ pending' = pending - 1
    /\ UNCHANGED <<place, unit, acked, public, age, lost, stored>>

(* A placed job ends without images: staging is purged, the hold and the  *)
(* lease are released in the transaction that records the outcome.        *)
EndPlaced(j, outcome) ==
    /\ state' = [state EXCEPT ![j] = outcome]
    /\ got' = [got EXCEPT ![j] = 0]
    /\ lease' = [lease EXCEPT ![j] = FALSE]
    /\ held' = held - 1
    /\ UNCHANGED <<place, unit, acked, public, age, lost, pending, stored>>

(* Cancel intent for work that a node may have begun: holds are kept. *)
Fence(j) ==
    /\ state' = [state EXCEPT ![j] = "cancelling"]
    /\ UNCHANGED <<place, unit, lease, acked, got, public, age, lost, quota>>

(* _request_cancel, for owners, admins and deleted inputs. *)
RequestCancel(j) ==
    /\ j \in Cancellable
    /\ \/ state[j] = "queued" /\ EndQueued(j, "cancelled")
       \/ state[j] \in {"reserving", "running", "transferring"} /\ Fence(j)
    /\ UNCHANGED <<inst, flows, node, late, bounds>>

(* expire_queued_image_job; the row is locked and looked at again. *)
Expire(j) ==
    /\ state[j] = "queued" /\ age[j] > 0
    /\ EndQueued(j, "failed")
    /\ UNCHANGED <<inst, flows, node, late, bounds>>

(* Time: first the job's deadline, later the expiry of its lease. *)
Age(j) ==
    /\ state[j] \notin Terminal \cup {None}
    /\ \/ age[j] = 0 /\ Strike("time")
       \/ age[j] = 1 /\ lease[j] /\ UNCHANGED bounds
    /\ age' = [age EXCEPT ![j] = @ + 1]
    /\ UNCHANGED <<state, place, unit, lease, acked, got, public, lost, quota,
                   inst, flows, node, late>>

(* An entitlement, a key or a user is revoked; a model changes. *)
Withdraw(j, what) ==
    /\ state[j] \notin Terminal \cup {None} /\ what \notin lost[j]
    /\ Strike(what)
    /\ lost' = [lost EXCEPT ![j] = @ \cup {what}]
    /\ UNCHANGED <<state, place, unit, lease, acked, got, public, age, quota,
                   inst, flows, node, late>>

-----------------------------------------------------------------------------
(* Dispatch *)

To(w, j, s) == [w EXCEPT ![j] = s]

StartDispatch(j) ==
    /\ dw[j] = None /\ state[j] = "queued" /\ age[j] = 0
    /\ dw' = To(dw, j, "go")
    /\ UNCHANGED <<row, quota, inst, ow, seen, tw, cw, uw, node, late, bounds>>

(* Mutant: a Studio whose worker drains is as good as any. *)
FreeOrDraining(n) == \A k \in Jobs : ~(lease[k] /\ place[k] = n)

(* _image_busy: no lease on the node and no draining worker. *)
Free(n) ==
    /\ \A k \in Jobs : ~(lease[k] /\ place[k] = n)
    /\ inst[n].at # "draining"

(* Placement in prepare_image_dispatch: lease, fence, instance and memory  *)
(* hold in one transaction.  Whether a Studio is healthy, cool and has the *)
(* memory is left open.                                                    *)
Place(j, n) ==
    /\ dw[j] = "go" /\ state[j] = "queued" /\ age[j] = 0 /\ lost[j] = {}
    /\ Free(n)
    /\ IF inst[n].at # None
       THEN UNCHANGED inst
       ELSE /\ inst[n].id < MaxUnits
            /\ inst' = [inst EXCEPT ![n] = [id |-> @.id + 1, at |-> "launching"]]
    /\ state' = [state EXCEPT ![j] = "reserving"]
    /\ place' = [place EXCEPT ![j] = n]
    /\ unit' = [unit EXCEPT ![j] = inst'[n].id]
    /\ lease' = [lease EXCEPT ![j] = TRUE]
    /\ pending' = pending - 1
    /\ dw' = To(dw, j, "reserve")
    /\ UNCHANGED <<acked, got, public, age, lost, held, stored, ow, seen, tw, cw, uw,
                   node, late, bounds>>

(* _cancel_revoked and _cancel_thermal look at a placed job. *)
Revoked(j) == \/ "access" \in lost[j] /\ UNCHANGED bounds
              \/ Strike("heat")

(* The other ends of prepare_image_dispatch.  _resume refuses a placed job *)
(* whose model has changed, on every retry.                                *)
Prepare(j) ==
    /\ dw[j] = "go"
    /\ LET live == state[j] \in {"reserving", "running"} IN
       \/ /\ state[j] = "queued" /\ age[j] = 0 /\ lost[j] # {}
          /\ EndQueued(j, "failed") /\ dw' = To(dw, j, "done")
          /\ UNCHANGED bounds
       \/ /\ live /\ Revoked(j)
          /\ Fence(j) /\ dw' = To(dw, j, "done")
       \/ /\ live /\ lost[j] = {}
          /\ dw' = To(dw, j, "reserve") /\ UNCHANGED <<row, quota, bounds>>
       \/ /\ ~live /\ ~(state[j] = "queued" /\ age[j] = 0)
          /\ dw' = To(dw, j, "done") /\ UNCHANGED <<row, quota, bounds>>
    /\ UNCHANGED <<inst, ow, seen, tw, cw, uw, node, late>>

-----------------------------------------------------------------------------
(* The node.  A handler is an operator of the job; reply is what its      *)
(* caller sees, fail for any error.                                       *)

Unlocked(j) == push[place[j]].job = None

(* The transfer handler works for the job. *)
Pushing(j) == place[j] # None /\ push[place[j]].job = j

Resident(n) == worker[n].at \in {"starting", "ready"}

(* private_control: this exact worker is ready and alive. *)
Control(j) ==
    LET w == worker[place[j]]
    IN  w.id = unit[j] /\ w.at = "ready" /\ w.alive

(* reserve_inputs and ImageJobJournal.begin. *)
Reserve(j, reply) ==
    LET other == Resident(place[j]) /\ worker[place[j]].id # unit[j] IN
    /\ Unlocked(j)
    /\ \/ /\ other \/ (journal[j] = None /\ age[j] > 0)
          /\ reply = "fail" /\ UNCHANGED attempt
       \/ /\ ~other /\ journal[j] = None /\ age[j] = 0
          /\ reply = "queued"
          /\ journal' = [journal EXCEPT ![j] = "queued"]
          /\ UNCHANGED <<clean, bound, kept, scratch>>
       \/ /\ ~other /\ journal[j] # None
          /\ reply = journal[j] /\ UNCHANGED attempt
    /\ UNCHANGED <<push, process>>

(* ImageProcessSupervisor.start: one process, started once per record.  A  *)
(* model copy that does not verify, a taken port or too little memory      *)
(* refuses it.                                                             *)
Load(j, reply) ==
    LET n == place[j]
        w == worker[n] IN
    /\ \/ /\ Resident(n) /\ w.id = unit[j]
          /\ reply = w.at /\ UNCHANGED worker
       \/ /\ w.at = "orphan" \/ (Resident(n) /\ w.id # unit[j])
          /\ reply = "fail" /\ UNCHANGED worker
       \/ w.at = None /\ reply = "fail" /\ UNCHANGED worker
       \/ /\ w.at = None
          /\ reply = "starting"
          /\ worker' = [worker EXCEPT ![n] = [id |-> unit[j], pid |-> @.pid + 1,
                                              at |-> "starting", alive |-> TRUE]]
    /\ UNCHANGED <<attempt, push, stopped, work>>

(* refresh_ready: health of the exact process makes it ready. *)
Refresh(n) ==
    worker' = [worker EXCEPT ![n].at =
                  IF @ = "starting" /\ worker[n].alive THEN "ready" ELSE @]

(* _reconcile and ImageJobJournal.advance: the journal follows the worker. *)
Reconcile(j) ==
    LET w == work[j]
        s == journal[j] IN
    /\ s \in {"reserving", "running", "transferring", "cancelling"}
    /\ journal' = [journal EXCEPT ![j] =
          IF w \in {"failed", "cancelled"} THEN w
          ELSE IF s = "cancelling" THEN s
          ELSE IF w = "running" THEN "running" ELSE "transferring"]
    /\ clean' = [clean EXCEPT ![j] = w = "failed"]
    /\ scratch' = [scratch EXCEPT ![j] = @ /\ w # "failed"]
    /\ UNCHANGED <<bound, kept>>

(* Attempts in the worker's memory, and those it forgets at its limit:    *)
(* generated ones whose scratch is gone.                                  *)
Table(n) == {k \in Jobs : place[k] = n /\ work[k] # None}
Prune(n) == IF Cardinality(Table(n)) < Retained THEN {}
            ELSE {k \in Table(n) : work[k] = "generated" /\ ~scratch[k]}

(* PUT /job of the worker takes one job at a time. *)
CanAccept(j) ==
    LET n == place[j]
    IN  /\ age[j] = 0
        /\ \A k \in Table(n) : work[k] # "running"
        /\ Cardinality(Table(n) \ Prune(n)) < Retained

Accept(j) ==
    /\ CanAccept(j)
    /\ work' = [k \in Jobs |-> IF k = j THEN "running"
                               ELSE IF k \in Prune(place[j]) THEN None
                               ELSE work[k]]
    /\ scratch' = [scratch EXCEPT ![j] = TRUE]

(* ImageNodeDispatcher.start: journal, then one PUT to the worker. *)
Start(j, reply) ==
    LET n == place[j]
        open == journal[j] \in {"queued", "reserving"}
        rebound == journal[j] = "reserving" /\ bound[j] # worker[n].pid
        up == worker[n].id = unit[j] /\ worker[n].alive
                 /\ worker[n].at \in {"starting", "ready"} IN
    /\ Unlocked(j) /\ journal[j] # None
    /\ \/ /\ ~open /\ reply = journal[j]
          /\ UNCHANGED <<attempt, worker, work>>
       \/ /\ open /\ ~Control(j) /\ reply = "fail"
          /\ UNCHANGED <<attempt, worker, work>>
       \/ /\ open /\ up /\ work[j] # None
          /\ Reconcile(j) /\ reply = journal'[j]
          /\ Refresh(n) /\ UNCHANGED work
       \/ /\ open /\ up /\ work[j] = None /\ rebound
          /\ reply = "conflict"
          /\ Refresh(n) /\ UNCHANGED <<attempt, work>>
       \/ /\ open /\ up /\ work[j] = None /\ ~rebound
          /\ bound' = [bound EXCEPT ![j] = worker[n].pid]
          /\ \/ /\ Accept(j) /\ reply = "running"
             \/ /\ Accept(j) /\ reply = "lost"
             \/ /\ reply = "lost" /\ UNCHANGED <<work, scratch>>
             \/ /\ ~CanAccept(j) /\ reply = "fail"
                /\ UNCHANGED <<work, scratch>>
          /\ journal' = [journal EXCEPT ![j] =
                IF reply = "running" THEN "running" ELSE "reserving"]
          /\ Refresh(n) /\ UNCHANGED <<clean, kept>>
    /\ UNCHANGED <<push, stopped>>

(* ImageNodeDispatcher.status: observes, and repairs terminal scratch. *)
Status(j, reply) ==
    LET s == journal[j] IN
    /\ Unlocked(j)
    /\ \/ /\ s \in {"failed", "cancelled"}
          /\ reply = s
          /\ clean' = [clean EXCEPT ![j] = TRUE]
          /\ scratch' = [scratch EXCEPT ![j] = @ /\ clean[j]]
          /\ UNCHANGED <<journal, bound, kept>>
       \/ /\ s \in {"transferring", "succeeded"}
          /\ reply = s /\ UNCHANGED attempt
       \/ /\ s \in {"queued", "reserving", "running", "cancelling"}
          /\ Control(j) /\ work[j] # None
          /\ Reconcile(j) /\ reply = journal'[j]
       \/ /\ \/ s = None
             \/ /\ s \in {"queued", "reserving", "running", "cancelling"}
                /\ ~Control(j) \/ work[j] = None
          /\ reply = "fail" /\ UNCHANGED attempt
    /\ UNCHANGED <<push, process>>

(* Can the supervisor prove that instance i is gone?  An old stop record  *)
(* of another instance is no proof, and forbids the census of processes;  *)
(* a process that was not adopted must have died by itself.               *)
Stoppable(n, i) ==
    IF worker[n].at = None THEN stopped[n] \in {0, i}
    ELSE worker[n].id = i /\ (worker[n].at = "orphan" => ~worker[n].alive)

(* A process takes its attempts with it. *)
Forget(n) == work' = [k \in Jobs |-> IF place[k] = n THEN None ELSE work[k]]

(* ImageProcessSupervisor.stop: TERM, KILL, and the record of the death. *)
Stop(n, i) ==
    /\ Stoppable(n, i)
    /\ worker' = [worker EXCEPT ![n] = [@ EXCEPT !.id = 0, !.at = None,
                                                 !.alive = FALSE]]
    /\ stopped' = [stopped EXCEPT ![n] = i]
    /\ Forget(n)

(* The death is not seen within the grace, or the process cannot be        *)
(* identified and is left alone; its record stays.                         *)
StopUnproved(n, i) ==
    /\ Resident(n) /\ worker[n].id = i /\ worker[n].alive
    /\ \/ UNCHANGED <<worker, work>>
       \/ worker' = [worker EXCEPT ![n].alive = FALSE] /\ Forget(n)
    /\ UNCHANGED stopped

(* Mutant: a worker that took the request counts as stopped. *)
ConfirmedEarly(j) ==
    /\ Control(j) /\ work[j] \in {"running", "cancelled"}
    /\ UNCHANGED process

(* _cooperative_cancel: the worker reports that the job is cancelled. *)
Confirmed(j) ==
    /\ Control(j) /\ work[j] \in {"running", "cancelled"}
    /\ work' = [work EXCEPT ![j] = "cancelled"]
    /\ UNCHANGED <<worker, stopped>>

(* ImageNodeDispatcher.cancel: intent, proof of the stop, then cleanup. *)
Cancel(j, reply) ==
    LET s == journal[j]
        active == s \in {"reserving", "running", "transferring", "cancelling"}
        end(to) == /\ reply = to
                   /\ journal' = [journal EXCEPT ![j] = to]
                   /\ clean' = [clean EXCEPT ![j] = TRUE]
                   /\ scratch' = [scratch EXCEPT ![j] = @ /\ clean[j]]
                   /\ UNCHANGED <<bound, kept>> IN
    /\ Unlocked(j)
    /\ \/ /\ s = None /\ reply = "fail"
          /\ UNCHANGED <<attempt, process>>
       \/ s \in Terminal /\ end(s) /\ UNCHANGED process
       \/ s = "queued" /\ end("cancelled") /\ UNCHANGED process
       \/ active /\ Confirmed(j) /\ end("cancelled")
       \/ active /\ Stop(place[j], unit[j]) /\ end("cancelled")
       \/ /\ active /\ ~Stoppable(place[j], unit[j])
          /\ reply = "fail"
          /\ journal' = [journal EXCEPT ![j] = "cancelling"]
          /\ UNCHANGED <<clean, bound, kept, scratch, process>>
    /\ UNCHANGED push

(* The worker does not confirm and its death cannot be proved: the intent  *)
(* stays in the journal.                                                   *)
CancelUnproved(j) ==
    /\ Unlocked(j)
    /\ journal[j] \in {"reserving", "running", "transferring", "cancelling"}
    /\ StopUnproved(place[j], unit[j])
    /\ journal' = [journal EXCEPT ![j] = "cancelling"]
    /\ UNCHANGED <<clean, bound, kept, scratch, push>>

(* ImageNodeDispatcher.transfer begins; it holds the lock until it ends. *)
BeginTransfer(j, reply) ==
    /\ Unlocked(j)
    /\ \/ /\ journal[j] = "transferring" /\ reply = "wait"
          /\ push' = [push EXCEPT ![place[j]] = [job |-> j, sent |-> 0]]
       \/ /\ journal[j] # "transferring" /\ UNCHANGED push
          /\ reply = IF journal[j] = "succeeded" THEN "ack" ELSE "go"
    /\ UNCHANGED <<attempt, process>>

-----------------------------------------------------------------------------
(* Dispatch, after placement *)

Replies == States \cup {"fail", "lost", "conflict", "starting", "ready"}

SendReserve(j) ==
    /\ dw[j] = "reserve"
    /\ \E r \in Replies :
          /\ Reserve(j, r)
          /\ dw' = To(dw, j, IF r = "fail" THEN "go"
                             ELSE IF r \in {"queued", "reserving"} THEN "load"
                             ELSE "done")
    /\ UNCHANGED <<row, quota, inst, ow, seen, tw, cw, uw, late, bounds>>

SendLoad(j) ==
    /\ dw[j] = "load"
    /\ \E r \in {"fail", "starting", "ready"} :
          /\ Load(j, r)
          /\ dw' = To(dw, j, IF r = "fail" THEN "go"
                             ELSE IF r = "starting" THEN "warm" ELSE "ready")
          /\ IF r = "fail" /\ worker[place[j]].at = None
             THEN Strike("call") ELSE UNCHANGED bounds
    /\ UNCHANGED <<row, quota, inst, ow, seen, tw, cw, uw, late>>

(* Polls the worker for readiness until a deadline. *)
Warm(j) ==
    LET w == worker[place[j]]
        up == Resident(place[j]) /\ w.id = unit[j] /\ w.alive IN
    /\ dw[j] = "warm"
    /\ dw' = To(dw, j, IF up THEN "ready" ELSE "go")
    /\ Refresh(place[j])
    /\ UNCHANGED <<row, quota, inst, ow, seen, tw, cw, uw, attempt, push,
                   stopped, work, late, bounds>>

(* _record_image_worker_ready *)
RecordReady(j) ==
    LET n == place[j]
        ok == inst[n].id = unit[j] /\ inst[n].at \in {"launching", "ready"} IN
    /\ dw[j] = "ready"
    /\ inst' = IF ok THEN [inst EXCEPT ![n].at = "ready"] ELSE inst
    /\ dw' = To(dw, j, IF ok THEN "start" ELSE "go")
    /\ UNCHANGED <<row, quota, ow, seen, tw, cw, uw, node, late, bounds>>

SendStart(j) ==
    /\ dw[j] = "start"
    /\ \E r \in Replies :
          /\ Start(j, r)
          /\ dw' = To(dw, j, IF r \in {"fail", "lost"} THEN "go" ELSE "done")
          /\ IF r = "lost" THEN Strike("call") ELSE UNCHANGED bounds
    /\ UNCHANGED <<row, quota, inst, ow, seen, tw, cw, uw, late>>

-----------------------------------------------------------------------------
(* Observation *)

StartObserve(j) ==
    /\ ow[j] = None /\ state[j] \in {"reserving", "running"}
    /\ ow' = To(ow, j, "go")
    /\ UNCHANGED <<row, quota, inst, dw, seen, tw, cw, uw, node, late, bounds>>

(* observe_image_job before the call: access and heat are looked at. *)
CheckAttempt(j) ==
    LET live == state[j] \in {"reserving", "running"} IN
    /\ ow[j] = "go"
    /\ \/ /\ live /\ Revoked(j)
          /\ Fence(j) /\ ow' = To(ow, j, "done")
       \/ /\ live /\ "access" \notin lost[j]
          /\ ow' = To(ow, j, "ask") /\ UNCHANGED <<row, quota, bounds>>
       \/ ~live /\ ow' = To(ow, j, "done") /\ UNCHANGED <<row, quota, bounds>>
    /\ UNCHANGED <<inst, dw, seen, tw, cw, uw, node, late>>

Observe(j) ==
    /\ ow[j] = "ask"
    /\ \E r \in Replies :
          /\ Status(j, r)
          /\ ow' = To(ow, j, IF r = "fail" THEN "go" ELSE "saw")
          /\ seen' = To(seen, j, IF r = "fail" THEN None ELSE r)
    /\ UNCHANGED <<row, quota, inst, dw, tw, cw, uw, late, bounds>>

(* finalize_failed_image_job or reconcile_image_observation, after the job *)
(* may have changed.                                                       *)
Apply(j) ==
    LET s == seen[j]
        live == state[j] \in {"reserving", "running"}
        move(to) == /\ state' = [state EXCEPT ![j] = to]
                    /\ UNCHANGED <<place, unit, lease, acked, got, public, age,
                                   lost, quota>> IN
    /\ ow[j] = "saw"
    /\ \/ live /\ s = "failed" /\ EndPlaced(j, "failed") /\ ow' = To(ow, j, "done")
       \/ /\ live /\ s \in {"transferring", "succeeded"}
          /\ move("transferring") /\ ow' = To(ow, j, "done")
       \/ live /\ s = "running" /\ move("running") /\ ow' = To(ow, j, "go")
       \/ /\ live /\ s \in {"queued", "reserving", "cancelled", "cancelling"}
          /\ ow' = To(ow, j, "go") /\ UNCHANGED <<row, quota>>
       \/ ~live /\ ow' = To(ow, j, "done") /\ UNCHANGED <<row, quota>>
    /\ seen' = To(seen, j, None)
    /\ UNCHANGED <<inst, dw, tw, cw, uw, node, late, bounds>>

-----------------------------------------------------------------------------
(* Transfer and publication *)

StartTransfer(j) ==
    /\ tw[j] = None /\ state[j] = "transferring" /\ ~acked[j]
    /\ tw' = To(tw, j, "go")
    /\ UNCHANGED <<row, quota, inst, dw, ow, seen, cw, uw, node, late, bounds>>

(* drive_image_transfer reads the row, and again before it mints grants. *)
CheckTransfer(j) ==
    /\ \/ /\ tw[j] = "go"
          /\ tw' = To(tw, j, IF state[j] = "transferring" THEN "ask" ELSE "done")
       \/ /\ tw[j] = "mint"
          /\ tw' = To(tw, j, IF state[j] = "transferring" THEN "push" ELSE "go")
    /\ UNCHANGED <<row, quota, inst, dw, ow, seen, cw, uw, node, late, bounds>>

(* Mutant: a journal that already succeeded is refused. *)
NextTransferStrict(r) == IF r = "transferring" THEN "mint" ELSE "go"

NextTransfer(r) == IF r = "transferring" THEN "mint"
                   ELSE IF r = "succeeded" THEN "ack" ELSE "go"

AskTransfer(j) ==
    /\ tw[j] = "ask"
    /\ \E r \in Replies : Status(j, r) /\ tw' = To(tw, j, NextTransfer(r))
    /\ UNCHANGED <<row, quota, inst, dw, ow, seen, cw, uw, late, bounds>>

SendTransfer(j) ==
    /\ tw[j] = "push"
    /\ \E r \in {"wait", "ack", "go"} : BeginTransfer(j, r) /\ tw' = To(tw, j, r)
    /\ UNCHANGED <<row, quota, inst, dw, ow, seen, cw, uw, late, bounds>>

(* The caller of the transfer handler learns how it ended, if it waits. *)
Told(j, s) == tw' = IF tw[j] = "wait" THEN To(tw, j, s) ELSE tw

(* One output arrives: receive_transfer, or its refusal, which ends the    *)
(* handler, as does a PUT that fails or whose answer is lost.              *)
Receive(j) ==
    LET n == place[j] IN
    /\ Pushing(j) /\ push[n].sent < Outputs /\ ~kept[j]
    /\ \/ /\ state[j] = "transferring"
          /\ got' = [got EXCEPT ![j] = Max({@, push[n].sent + 1})]
          /\ \/ /\ push' = [push EXCEPT ![n].sent = @ + 1]
                /\ UNCHANGED <<tw, bounds>>
             \/ /\ push' = [push EXCEPT ![n] = Idle]
                /\ Told(j, "go") /\ Strike("call")
       \/ /\ push' = [push EXCEPT ![n] = Idle]
          /\ Told(j, "go") /\ UNCHANGED got
          /\ IF state[j] = "transferring" THEN Strike("call") ELSE UNCHANGED bounds
    /\ UNCHANGED <<state, place, unit, lease, acked, public, age, lost, quota,
                   inst, dw, ow, seen, cw, uw, attempt, process, late>>

(* cleanup_image_outputs: receipts into the journal, then unlink. *)
KeepReceipts(j) ==
    /\ Pushing(j) /\ push[place[j]].sent = Outputs /\ ~kept[j]
    /\ kept' = [kept EXCEPT ![j] = TRUE]
    /\ UNCHANGED <<row, quota, inst, flows, journal, clean, bound, scratch, push,
                   process, late, bounds>>

Unlink(j) ==
    /\ Pushing(j) /\ kept[j]
    /\ scratch' = [scratch EXCEPT ![j] = FALSE]
    /\ journal' = [journal EXCEPT ![j] = "succeeded"]
    /\ clean' = [clean EXCEPT ![j] = TRUE]
    /\ push' = [push EXCEPT ![place[j]] = Idle]
    /\ Told(j, "ack")
    /\ UNCHANGED <<row, quota, inst, dw, ow, seen, cw, uw, bound, kept, process,
                   late, bounds>>

Acknowledge(j) ==
    /\ tw[j] = "ack"
    /\ \/ /\ state[j] = "transferring" /\ got[j] = Outputs
          /\ acked' = [acked EXCEPT ![j] = TRUE]
          /\ tw' = To(tw, j, "done")
       \/ /\ ~(state[j] = "transferring" /\ got[j] = Outputs)
          /\ tw' = To(tw, j, "go") /\ UNCHANGED acked
    /\ UNCHANGED <<state, place, unit, lease, got, public, age, lost, quota,
                   inst, dw, ow, seen, cw, uw, node, late, bounds>>

(* Mutant: cancel intent is not looked at. *)
ReadyToPublishAnyway(j) ==
    acked[j] /\ lease[j] /\ state[j] \in {"transferring", "cancelling"}

ReadyToPublish(j) == acked[j] /\ lease[j] /\ state[j] = "transferring"

(* publish_image_batch: all outputs, the hold and the lease at once. *)
Publish(j) ==
    /\ ReadyToPublish(j) /\ lost[j] = {} /\ age[j] < 2
    /\ state' = [state EXCEPT ![j] = "succeeded"]
    /\ public' = [public EXCEPT ![j] = TRUE]
    /\ lease' = [lease EXCEPT ![j] = FALSE]
    /\ held' = held - 1 /\ stored' = stored + 1
    /\ UNCHANGED <<place, unit, acked, got, age, lost, pending, inst, flows, node,
                   late, bounds>>

(* fail_revoked_image_batch *)
RefusePublication(j) ==
    /\ ReadyToPublish(j) /\ lost[j] # {} /\ ~public[j]
    /\ EndPlaced(j, "failed")
    /\ UNCHANGED <<inst, flows, node, late, bounds>>

-----------------------------------------------------------------------------
(* Cancellation *)

StartCancel(j) ==
    /\ cw[j] = None /\ state[j] = "cancelling"
    /\ cw' = To(cw, j, "go")
    /\ UNCHANGED <<row, quota, inst, dw, ow, seen, tw, uw, node, late, bounds>>

SendCancel(j) ==
    /\ cw[j] = "go"
    /\ \/ /\ \E r \in Terminal \cup {"fail"} :
                /\ Cancel(j, r)
                /\ cw' = To(cw, j, IF r = "fail" THEN "go" ELSE "final")
          /\ UNCHANGED bounds
       \/ CancelUnproved(j) /\ Strike("stop") /\ UNCHANGED cw
    /\ UNCHANGED <<row, quota, inst, dw, ow, seen, tw, uw, late>>

(* finalize_cancelled_image_job *)
FinalizeCancel(j) ==
    /\ cw[j] = "final" /\ state[j] = "cancelling" /\ ~public[j] /\ lease[j]
    /\ EndPlaced(j, "cancelled")
    /\ cw' = To(cw, j, "done")
    /\ UNCHANGED <<inst, dw, ow, seen, tw, uw, node, late, bounds>>

-----------------------------------------------------------------------------
(* Idle workers *)

(* _prepare_idle_unload.  The idle time outlasts the calls of a step and   *)
(* every call in flight.                                                   *)
PrepareUnload(n) ==
    /\ uw[n] = "idle" /\ inst[n].at # None
    /\ \A k \in Jobs : place[k] = n =>
          state[k] \in Terminal /\ ~lease[k] /\ dw[k] \notin {"reserve", "load"}
    /\ \A c \in late : place[c[1]] # n
    /\ inst' = [inst EXCEPT ![n].at = "draining"]
    /\ uw' = To(uw, n, "stop")
    /\ UNCHANGED <<row, quota, dw, ow, seen, tw, cw, node, late, bounds>>

SendUnload(n) ==
    /\ uw[n] = "stop"
    /\ \/ /\ Stop(n, inst[n].id)
          /\ uw' = To(uw, n, "confirm") /\ UNCHANGED bounds
       \/ /\ ~Stoppable(n, inst[n].id)
          /\ uw' = To(uw, n, "idle") /\ UNCHANGED <<process, bounds>>
       \/ /\ StopUnproved(n, inst[n].id) /\ Strike("stop")
          /\ uw' = To(uw, n, "idle")
    /\ UNCHANGED <<row, quota, inst, dw, ow, seen, tw, cw, attempt, push, late>>

(* _confirm_idle_unload *)
ConfirmUnload(n) ==
    /\ uw[n] = "confirm"
    /\ inst' = IF inst[n].at = "draining"
               THEN [inst EXCEPT ![n].at = None] ELSE inst
    /\ uw' = To(uw, n, "idle")
    /\ UNCHANGED <<row, quota, dw, ow, seen, tw, cw, node, late, bounds>>

-----------------------------------------------------------------------------
(* Worker, agent and faults *)

(* The generation ends.  A failure after the images were written leaves    *)
(* them in scratch; one before has removed the directory.                  *)
Finish(j) ==
    /\ work[j] = "running"
    /\ \/ /\ age[j] = 0
          /\ work' = [work EXCEPT ![j] = "generated"] /\ UNCHANGED scratch
       \/ /\ \/ work' = [work EXCEPT ![j] = "failed"]
             \/ /\ journal[j] = "cancelling"
                /\ work' = [work EXCEPT ![j] = "cancelled"]
          /\ scratch' \in {scratch, [scratch EXCEPT ![j] = FALSE]}
    /\ UNCHANGED <<row, quota, inst, flows, journal, clean, bound, kept, push,
                   worker, stopped, late, bounds>>

(* sweep_terminal_scratch *)
Sweep(j) ==
    /\ journal[j] \in {"failed", "cancelled"} /\ ~clean[j] /\ Unlocked(j)
    /\ clean' = [clean EXCEPT ![j] = TRUE]
    /\ scratch' = [scratch EXCEPT ![j] = FALSE]
    /\ UNCHANGED <<row, quota, inst, flows, journal, bound, kept, push, process,
                   late, bounds>>

WorkerDies(n) ==
    /\ worker[n].alive /\ Strike("death")
    /\ worker' = [worker EXCEPT ![n].alive = FALSE] /\ Forget(n)
    /\ UNCHANGED <<row, quota, inst, flows, attempt, push, stopped, late>>

(* The agent restarts, alone or with its Studio: adopt_from_state takes a  *)
(* live worker back as starting, or fails to verify it; it leaves that     *)
(* process, and the record of a dead one, alone.                           *)
AgentRestarts(n) ==
    /\ Strike("restart")
    /\ \E lives, adopted \in BOOLEAN :
          /\ lives => worker[n].alive
          /\ adopted => lives
          /\ worker' = [worker EXCEPT
                ![n].at = IF @ = None THEN None
                          ELSE IF adopted THEN "starting" ELSE "orphan",
                ![n].alive = lives]
          /\ IF lives THEN UNCHANGED work ELSE Forget(n)
    /\ push' = [push EXCEPT ![n] = Idle]
    /\ tw' = [j \in Jobs |-> IF tw[j] = "wait" /\ place[j] = n THEN "go"
                             ELSE tw[j]]
    /\ UNCHANGED <<row, quota, inst, dw, ow, seen, cw, uw, attempt, stopped, late>>

(* A step ends without its answer and starts again; the call may arrive. *)
LoseCall(j) ==
    /\ Strike("call")
    /\ \/ /\ dw[j] \in {"reserve", "load", "start"}
          /\ late' = late \cup {<<j, dw[j]>>}
          /\ dw' = To(dw, j, "go") /\ UNCHANGED tw
       \/ /\ tw[j] = "push"
          /\ late' = late \cup {<<j, "push">>}
          /\ tw' = To(tw, j, "go") /\ UNCHANGED dw
       \/ /\ tw[j] = "wait"
          /\ tw' = To(tw, j, "go") /\ UNCHANGED <<dw, late>>
    /\ UNCHANGED <<row, quota, inst, ow, seen, cw, uw, node>>

(* A call arrives without a caller, or never. *)
LateCall(j, op) ==
    /\ <<j, op>> \in late /\ late' = late \ {<<j, op>>}
    /\ \/ op = "reserve" /\ \E r \in Replies : Reserve(j, r)
       \/ op = "load" /\ \E r \in Replies : Load(j, r)
       \/ op = "start" /\ \E r \in Replies \ {"lost"} : Start(j, r)
       \/ op = "push" /\ \E r \in {"wait", "ack", "go"} : BeginTransfer(j, r)
       \/ UNCHANGED node
    /\ UNCHANGED <<row, quota, inst, flows, bounds>>

-----------------------------------------------------------------------------
DispatchStep(j) ==
    \/ StartDispatch(j) \/ Prepare(j) \/ SendReserve(j) \/ SendLoad(j)
    \/ Warm(j) \/ RecordReady(j) \/ SendStart(j)
ObserveStep(j) == StartObserve(j) \/ CheckAttempt(j) \/ Observe(j) \/ Apply(j)
TransferStep(j) ==
    \/ StartTransfer(j) \/ CheckTransfer(j) \/ AskTransfer(j)
    \/ SendTransfer(j) \/ Acknowledge(j)
PublishStep(j) == Publish(j) \/ RefusePublication(j)
CancelStep(j) == StartCancel(j) \/ SendCancel(j) \/ FinalizeCancel(j)
HandlerStep(j) == Receive(j) \/ KeepReceipts(j) \/ Unlink(j) \/ Sweep(j)
UnloadStep(n) == PrepareUnload(n) \/ SendUnload(n) \/ ConfirmUnload(n)

Next ==
    \/ \E j \in Jobs :
          \/ Admit(j) \/ RequestCancel(j) \/ Expire(j) \/ Age(j)
          \/ \E what \in {"access", "model"} : Withdraw(j, what)
          \/ \E n \in Nodes : Place(j, n)
          \/ DispatchStep(j) \/ ObserveStep(j) \/ TransferStep(j)
          \/ PublishStep(j) \/ CancelStep(j) \/ HandlerStep(j) \/ Finish(j)
          \/ LoseCall(j)
          \/ \E op \in {"reserve", "load", "start", "push"} : LateCall(j, op)
    \/ \E n \in Nodes : UnloadStep(n) \/ WorkerDies(n) \/ AgentRestarts(n)

(* The workflows are durable and their steps are retried for days, the     *)
(* node's handlers and the worker return, and the sweeps recur.  Nobody    *)
(* has to submit, cancel or fail anything, and a Studio need not be free.  *)
Fairness ==
    /\ \A j \in Jobs :
          /\ WF_vars(DispatchStep(j)) /\ WF_vars(ObserveStep(j))
          /\ WF_vars(TransferStep(j)) /\ WF_vars(PublishStep(j))
          /\ WF_vars(CancelStep(j)) /\ WF_vars(HandlerStep(j))
          /\ WF_vars(Finish(j))
    /\ \A n \in Nodes : WF_vars(UnloadStep(n))

Spec == Init /\ [][Next]_vars /\ Fairness

-----------------------------------------------------------------------------
(* The quota row agrees with the jobs at every commit, however cancel,     *)
(* expiry, placement, failure and publication race: no hold is returned    *)
(* twice or kept by a job that has ended (job_capacity.py, quota.py).      *)
QuotaBalances ==
    LET count(S) == Cardinality({j \in Jobs : state[j] \in S})
    IN  /\ pending = count({"queued"})
        /\ held = count(States \ (Terminal \cup {None}))
        /\ stored = count({"succeeded"})

(* What a Studio does for a job, it does under the job's unreleased        *)
(* execution lease: generate, keep images in scratch, or push them.  So    *)
(* the next job never meets the work of the last one, also after lost      *)
(* answers and late calls.                                                 *)
WorkUnderLease ==
    \A j \in Jobs :
        (work[j] = "running" \/ scratch[j] \/ Pushing(j))
            => lease[j]

(* A job that failed or was cancelled leaves no image anywhere, on core    *)
(* or on the Studio, and no work running for it.                           *)
EndedLeavesNothing ==
    \A j \in Jobs : state[j] \in {"failed", "cancelled"} =>
        /\ got[j] = 0 /\ ~public[j]
        /\ ~scratch[j] /\ work[j] # "running"

(* A worker process that lives, adopted or not, has its instance, and so   *)
(* its memory hold, in core: memory is not given to others before the stop *)
(* is proved (_confirm_idle_unload).                                       *)
MemoryIsHeld ==
    \A n \in Nodes : worker[n].alive =>
        inst[n].id = worker[n].id /\ inst[n].at # None

(* The worker remembers as many other attempts that failed or were         *)
(* cancelled as it may; only its unload makes it forget them.              *)
Crowded(j) ==
    Cardinality({k \in Table(place[j]) \ {j} :
                    work[k] \in {"failed", "cancelled"}}) >= Retained

(* The job was placed and its dispatch has to start again, but its model   *)
(* is another one by now: only a cancellation ends it (_resume).           *)
Unbound(j) ==
    /\ dw[j] = "go" /\ "model" \in lost[j]
    /\ state[j] \in {"reserving", "running"}

(* A job its Studio has journaled ends, whatever calls are lost or late    *)
(* and whoever cancels it, as long as the worker and the agent live, the   *)
(* job is in time and bound to its model and the worker is not crowded.    *)
KnownJobEnds ==
    \A j \in Jobs : journal[j] # None ~>
        \/ state[j] \in Terminal \/ age[j] > 0
        \/ struck \cap {"death", "restart"} # {}
        \/ Crowded(j) \/ Unbound(j)

(* An idle worker that drains is gone in the end and the Studio free again *)
(* (spec 015: the worker unloads and releases its reservation).  Stop      *)
(* breaks it for a worker that never started; see the README.              *)
UnloadEnds ==
    \A n \in Nodes : inst[n].at = "draining" ~> inst[n].at # "draining"

(* Workflows, journals and workers together keep the promise of            *)
(* ImageService: a job ends once, a Studio has one holder, a job that is   *)
(* being cancelled never shows its images, and all images of a job appear  *)
(* in one step.                                                            *)
Service == INSTANCE ImageService WITH
    outcome <- [j \in Jobs |-> IF state[j] \in Terminal \cup {None}
                               THEN state[j] ELSE "open"],
    holder <- [n \in Nodes |->
                 {j \in Jobs : lease[j] /\ place[j] = n}],
    stopping <- {j \in Jobs : state[j] \in {"cancelling", "cancelled"}},
    visible <- [j \in Jobs |-> IF public[j] THEN got[j] ELSE 0]

Refines == Service!Spec

=============================================================================
