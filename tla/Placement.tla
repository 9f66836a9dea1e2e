----------------------------- MODULE Placement -----------------------------
(***************************************************************************)
(* The memory ledger of one node and everything that writes it:            *)
(*                                                                         *)
(*   the placement workflow, which plans an admission under the node's     *)
(*     admission lock, evicts, reserves and loads, one transaction after   *)
(*     the other (coire_scheduler/placement.py);                           *)
(*   the launch and drain workflows of the model instances                 *)
(*     (coire_scheduler/instances.py) and the idle pass;                   *)
(*   the command executor, which carries loads and unloads to the node     *)
(*     one at a time (coire_api/placement/executor.py);                    *)
(*   the gateway's request leases and an operator's pins                   *)
(*     (coire_api/placement/service.py);                                   *)
(*   the reconciler, which follows the node's engines                      *)
(*     (coire_api/registry/reconciler.py).                                 *)
(*                                                                         *)
(* Every instance names this node in its policy, so a decision has one     *)
(* candidate node.  An action is one database transaction, or one call to  *)
(* the node together with the transaction that records its answer.         *)
(***************************************************************************)
EXTENDS Integers, Sequences, FiniteSets, SequencesExt

CONSTANTS Instances,    \* model instances, one decision and one engine each
          Resident,     \* the ones ready when the model starts
          Size,         \* required_bytes of each instance
          Budget,       \* ledger budget less the standing reservations
          NodeBudget,   \* the node's own limit, a fraction of its memory
          Expiring,     \* instances whose model has an idle TTL
          Pinnable,     \* instances an operator may pin or unpin
          Drainable,    \* instances an operator may drain
          Waits,        \* placement_busy_drain_timeout_s is positive
          Sampled,      \* the prober reports measured residency
          MaxAttempts,  \* attempts DBOS gives a placement step
          MaxLeases,    \* bound on requests in flight at one instance
          MaxCrashes,   \* bound on restarts of the scheduler
          MaxTimeouts,  \* bound on engine calls and queued loads that take too long
          MaxDeaths     \* bound on engines that exit by themselves

ASSUME PlacementAssumption ==
    /\ IsFiniteSet(Instances) /\ Resident \subseteq Instances
    /\ Size \in [Instances -> Nat \ {0}] /\ Budget \in Nat
    /\ NodeBudget \in Nat
    /\ UNION {Expiring, Pinnable, Drainable} \subseteq Instances
    /\ Waits \in BOOLEAN /\ Sampled \in BOOLEAN
    /\ MaxAttempts \in Nat \ {0} /\ MaxLeases \in Nat
    /\ {MaxCrashes, MaxTimeouts, MaxDeaths} \subseteq Nat

None == "none"
Idle == "idle_ttl"
Operator == "operator"

ASSUME NamesAssumption == {None, Idle, Operator} \cap Instances = {}

VARIABLES
    inst,      \* ModelInstanceRow.state
    dec,       \* PlacementDecisionRow.state
    pc,        \* where the placement workflow of the decision is
    attempt,   \* attempts of its step since the scheduler started
    victims,   \* reservations of its plan still to be unloaded, in LRU order
    snapshot,  \* what the holder of the lock read before it waited for a drain
    lock,      \* decision that holds the node's admission lock while it waits
    res,       \* MemoryReservationRow.state
    pinned,    \* MemoryReservationRow.pinned
    leases,    \* unexpired RequestLeaseRows of the reservation
    recency,   \* reservation rows in order of last_used_at
    engine,    \* EngineProcessRow.state
    proc,      \* the engine process as the node knows it
    measured,  \* NodeMemoryLedgerRow.measured_resident_bytes
    ttl,       \* reservation the idle pass has found idle and not yet released
    cmd,       \* PlacementCommandRow.state
    queue,     \* commands pending or running, oldest first
    call,      \* how far the executor is with the oldest
    crashes, timeouts, deaths

flow == <<inst, dec, pc, attempt, victims, snapshot, lock>>
ledger == <<res, pinned, leases, recency>>
work == <<cmd, queue, call>>
faults == <<crashes, timeouts, deaths>>
vars == <<flow, ledger, engine, proc, measured, ttl, work, faults>>

Loads == {<<"load", i, i>> : i \in Instances}
Unloads == {"unload"} \X (Instances \cup {Idle, Operator}) \X Instances
Commands == Loads \cup Unloads

Counted == {"pending", "held", "releasing"}
Terminal == {"stopped", "failed"}
Running == {"starting", "ready", "stopping"}
Steps == {"idle", "start", "plan", "draining", "evict", "unloading",
          "reserve", "loading", "done"}

(* Bytes of a set of instances *)
Bytes(S) == MapThenSumSet(LAMBDA i : Size[i], S)

(* Every variable keeps its type. *)
TypeOK ==
    /\ inst \in [Instances -> {"requested", "reserving", "launching", "ready",
                               "draining"} \cup Terminal]
    /\ dec \in [Instances -> {None, "requested", "evicting", "reserving",
                              "loading", "ready", "refused", "failed"}]
    /\ pc \in [Instances -> Steps]
    /\ attempt \in [Instances -> 0..MaxAttempts]
    /\ \A i \in Instances :
          /\ Len(victims[i]) \in 0..Cardinality(Instances)
          /\ ToSet(victims[i]) \subseteq Instances
    /\ lock \in Instances \cup {None}
    /\ snapshot.free \in Int /\ snapshot.held \subseteq Instances
    /\ res \in [Instances -> Counted \cup {None, "released", "failed"}]
    /\ pinned \in [Instances -> BOOLEAN]
    /\ leases \in [Instances -> 0..MaxLeases]
    /\ ToSet(recency) = {i \in Instances : res[i] # None}
    /\ Len(recency) = Cardinality(ToSet(recency))
    /\ engine \in [Instances -> Running \cup Terminal \cup {None}]
    /\ proc \in [Instances -> Running \cup Terminal \cup {None}]
    /\ measured \in {-1} \cup 0..Bytes(Instances)
    /\ ttl \in Instances \cup {None}
    /\ cmd \in [Commands -> {None, "queued", "succeeded", "failed"}]
    /\ ToSet(queue) = {c \in Commands : cmd[c] = "queued"}
    /\ Len(queue) = Cardinality(ToSet(queue))
    /\ call \in {"idle", "called", "applied"}
    /\ crashes \in 0..MaxCrashes /\ timeouts \in 0..MaxTimeouts
    /\ deaths \in 0..MaxDeaths

Init ==
    LET at(here, there) == [i \in Instances |-> IF i \in Resident THEN here
                                                ELSE there]
    IN  /\ inst = at("ready", "requested") /\ dec = at("ready", None)
        /\ pc = at("done", "idle") /\ attempt = [i \in Instances |-> 0]
        /\ victims = [i \in Instances |-> <<>>]
        /\ snapshot = [free |-> 0, held |-> {}] /\ lock = None
        /\ res = at("held", None) /\ pinned = [i \in Instances |-> FALSE]
        /\ leases = [i \in Instances |-> 0] /\ recency \in SetToSeqs(Resident)
        /\ engine = at("ready", None) /\ proc = at("ready", None)
        /\ measured = -1 /\ ttl = None
        /\ cmd = [c \in Commands |-> IF c \in Loads /\ c[3] \in Resident
                                     THEN "succeeded" ELSE None]
        /\ queue = <<>> /\ call = "idle"
        /\ crashes = 0 /\ timeouts = 0 /\ deaths = 0

-----------------------------------------------------------------------------
(* Admission: what the placement workflow decides *)

Holding(states) == {i \in Instances : res[i] \in states}

(* Variant: only engines that have come up are taken to occupy memory. *)
OccupiedByHeld ==
    LET reserved == Bytes(Holding({"held"}))
    IN  IF measured > reserved THEN measured ELSE reserved

(* effective_occupied_bytes: residency beyond the reservations counts too *)
Occupied ==
    LET reserved == Bytes(Holding(Counted))
    IN  IF measured > reserved THEN measured ELSE reserved

(* The reservations a plan may evict *)
Evictable(held) ==
    {v \in ToSet(recency) : v \in held /\ ~pinned[v] /\ leases[v] = 0}

(* u was used before v. *)
Older(u, v) ==
    \E j, k \in DOMAIN recency : j < k /\ recency[j] = u /\ recency[k] = v

(* plan_admission: the evictable reservations, least recently used first,  *)
(* until the shortage is freed and no further.  The set is empty when the  *)
(* admission is refused.                                                   *)
Plans(need, free, held) ==
    {plan \in UNION {SetToSeqs(V) : V \in SUBSET Evictable(held)} :
        /\ \A j, k \in DOMAIN plan : j < k => Older(plan[j], plan[k])
        /\ \A v \in ToSet(plan), u \in Evictable(held) :
              Older(u, v) => u \in ToSet(plan)
        /\ Bytes(ToSet(plan)) >= need - free
        /\ plan # <<>> => Bytes(ToSet(Front(plan))) < need - free}

(* Variant: every admission writes a row of its own. *)
MakePendingAgain(i) ==
    /\ res' = [res EXCEPT ![i] = "pending"]
    /\ recency' = Append(recency, i)

(* The reservation row of i becomes pending, and is created if need be. *)
MakePending(i) ==
    /\ res' = [res EXCEPT ![i] = "pending"]
    /\ recency' = IF res[i] = None THEN Append(recency, i) ELSE recency

(* A command is written unless its row exists already. *)
Enqueue(c) ==
    /\ cmd' = [cmd EXCEPT ![c] = IF cmd[c] = None THEN "queued" ELSE @]
    /\ queue' = IF cmd[c] = None THEN Append(queue, c) ELSE queue

Unchanged(others) == UNCHANGED <<engine, proc, measured, ttl, work, faults, others>>

(* The launch workflow's first transaction: the instance gets a decision, *)
(* and the dispatcher a workflow to start.                                 *)
Launch(i) ==
    /\ inst[i] = "requested"
    /\ inst' = [inst EXCEPT ![i] = "reserving"]
    /\ dec' = [dec EXCEPT ![i] = "requested"]
    /\ pc' = [pc EXCEPT ![i] = "start"]
    /\ UNCHANGED <<attempt, victims, snapshot, lock>> /\ Unchanged(ledger)

(* An attempt begins: a ready decision is left alone, one without a        *)
(* healthy node is refused.                                                *)
Start(i) ==
    /\ pc[i] = "start"
    /\ attempt' = [attempt EXCEPT ![i] = @ + 1]
    /\ \/ /\ dec[i] = "ready"
          /\ pc' = [pc EXCEPT ![i] = "done"] /\ dec' = dec
       \/ /\ dec[i] # "ready"
          /\ pc' = [pc EXCEPT ![i] = "plan"] /\ dec' = dec
       \/ /\ dec[i] # "ready"
          /\ pc' = [pc EXCEPT ![i] = "done"]
          /\ dec' = [dec EXCEPT ![i] = "refused"]
    /\ UNCHANGED <<inst, victims, snapshot, lock>> /\ Unchanged(ledger)

(* A plan is committed: the reservation is pending, its victims are named. *)
Admit(i, plan) ==
    /\ dec' = [dec EXCEPT ![i] = IF plan = <<>> THEN "reserving" ELSE "evicting"]
    /\ pc' = [pc EXCEPT ![i] = IF plan = <<>> THEN "reserve" ELSE "evict"]
    /\ victims' = [victims EXCEPT ![i] = plan]
    /\ MakePending(i)

(* No plan: the node is skipped, and there is no other. *)
Refuse(i) ==
    /\ dec' = [dec EXCEPT ![i] = "refused"]
    /\ pc' = [pc EXCEPT ![i] = "done"]
    /\ UNCHANGED <<victims, res, recency>>

(* The planning transaction, under the node's admission lock *)
Plan(i) ==
    /\ pc[i] = "plan" /\ lock = None
    /\ LET free == Budget - Occupied
           held == Holding({"held"})
           plans == Plans(Size[i], free, held)
           wait == /\ plans = {} /\ Waits
                   /\ \E v \in held : ~pinned[v] /\ leases[v] > 0
       IN  \/ /\ plans # {} /\ \E plan \in plans : Admit(i, plan)
              /\ UNCHANGED <<snapshot, lock>>
           \/ /\ wait
              /\ pc' = [pc EXCEPT ![i] = "draining"] /\ lock' = i
              /\ snapshot' = [free |-> free, held |-> held]
              /\ UNCHANGED <<dec, victims, res, recency>>
           \/ /\ plans = {} /\ ~wait /\ Refuse(i)
              /\ UNCHANGED <<snapshot, lock>>
    /\ UNCHANGED <<inst, attempt, pinned, leases>> /\ Unchanged(<<>>)

(* Variant: a refusal after the wait leaves the transaction open. *)
ReplanKeepingLock(i) ==
    /\ pc[i] = "draining"
    /\ LET plans == Plans(Size[i], snapshot.free, snapshot.held)
       IN  IF plans = {} THEN Refuse(i) /\ lock' = lock
           ELSE /\ \E plan \in plans : Admit(i, plan)
                /\ lock' = None
    /\ snapshot' = [free |-> 0, held |-> {}]
    /\ UNCHANGED <<inst, attempt, pinned, leases>> /\ Unchanged(<<>>)

(* The wait for a drain is over: the same transaction plans again, with    *)
(* the leases of now and the reservations of then.                         *)
Replan(i) ==
    /\ pc[i] = "draining"
    /\ LET plans == Plans(Size[i], snapshot.free, snapshot.held)
       IN  IF plans = {} THEN Refuse(i) ELSE \E plan \in plans : Admit(i, plan)
    /\ lock' = None /\ snapshot' = [free |-> 0, held |-> {}]
    /\ UNCHANGED <<inst, attempt, pinned, leases>> /\ Unchanged(<<>>)

(* execute_placement's handler: the decision fails, its pending            *)
(* reservation too, and the step is tried again while attempts are left.   *)
Fail(i) ==
    /\ dec' = [dec EXCEPT ![i] = "failed"]
    /\ res' = [res EXCEPT ![i] = IF @ = "pending" THEN "failed" ELSE @]
    /\ pc' = [pc EXCEPT ![i] = IF attempt[i] < MaxAttempts THEN "start"
                               ELSE "done"]
    /\ victims' = [victims EXCEPT ![i] = <<>>]

(* One victim's eviction transaction: its engine must be up, its           *)
(* reservation starts releasing whatever has happened to it since, and an  *)
(* unload is ordered.  No lock is taken.                                   *)
Evict(i) ==
    /\ pc[i] = "evict"
    /\ LET v == Head(victims[i]) IN
          IF engine[v] \in {"starting", "ready"}
          THEN /\ res' = [res EXCEPT ![v] = "releasing"]
               /\ Enqueue(<<"unload", i, v>>)
               /\ pc' = [pc EXCEPT ![i] = "unloading"]
               /\ UNCHANGED <<dec, victims>>
          ELSE Fail(i) /\ UNCHANGED <<cmd, queue>>
    /\ UNCHANGED <<inst, attempt, snapshot, lock, pinned, leases, recency,
                   engine, proc, measured, ttl, call, faults>>

(* _wait_command on the unload of the victim *)
Unloaded(i) ==
    /\ pc[i] = "unloading"
    /\ LET rest == Tail(victims[i])
           state == cmd[<<"unload", i, Head(victims[i])>>]
       IN  \/ /\ state = "succeeded"
              /\ victims' = [victims EXCEPT ![i] = rest]
              /\ pc' = [pc EXCEPT ![i] = IF rest = <<>> THEN "reserve"
                                         ELSE "evict"]
              /\ UNCHANGED <<dec, res>>
           \/ state = "failed" /\ Fail(i)
    /\ UNCHANGED <<inst, attempt, snapshot, lock, pinned, leases, recency>>
    /\ Unchanged(<<>>)

(* The reserving transaction: under the lock, but with no second look at   *)
(* the capacity.  An engine row, or a load command, that exists is kept.   *)
Reserve(i) ==
    /\ pc[i] = "reserve" /\ lock = None
    /\ MakePending(i)
    /\ engine' = [engine EXCEPT ![i] = IF @ = None THEN "starting" ELSE @]
    /\ Enqueue(<<"load", i, i>>)
    /\ dec' = [dec EXCEPT ![i] = "loading"]
    /\ pc' = [pc EXCEPT ![i] = "loading"]
    /\ UNCHANGED <<inst, attempt, victims, snapshot, lock, pinned, leases,
                   proc, measured, ttl, call, faults>>

(* _wait_command on the load, and the transaction that ends the decision *)
Loaded(i) ==
    /\ pc[i] = "loading"
    /\ \/ /\ cmd[<<"load", i, i>>] = "succeeded"
          /\ dec' = [dec EXCEPT ![i] = "ready"]
          /\ pc' = [pc EXCEPT ![i] = "done"]
          /\ UNCHANGED <<victims, res>>
       \/ cmd[<<"load", i, i>>] = "failed" /\ Fail(i)
    /\ UNCHANGED <<inst, attempt, snapshot, lock, pinned, leases, recency>>
    /\ Unchanged(<<>>)

(* The scheduler restarts: its transactions roll back, and the workflows   *)
(* DBOS had not finished begin their step again.                           *)
Crash ==
    /\ crashes < MaxCrashes /\ crashes' = crashes + 1
    /\ pc' = [i \in Instances |-> IF pc[i] \in {"idle", "done"} THEN pc[i]
                                  ELSE "start"]
    /\ attempt' = [i \in Instances |-> 0]
    /\ victims' = [i \in Instances |-> <<>>]
    /\ snapshot' = [free |-> 0, held |-> {}]
    /\ lock' = None /\ ttl' = None /\ call' = "idle"
    /\ UNCHANGED <<inst, dec, ledger, engine, proc, measured, cmd, queue,
                   timeouts, deaths>>

-----------------------------------------------------------------------------
(* The instance workflows *)

(* The launch workflow polls its decision: it fails with it and gives the  *)
(* reservation back, *)
LaunchFails(i) ==
    /\ inst[i] \in {"reserving", "launching"} /\ dec[i] \in {"refused", "failed"}
    /\ inst' = [inst EXCEPT ![i] = "failed"]
    /\ res' = [res EXCEPT ![i] = IF @ \in Counted THEN "failed" ELSE @]
    /\ UNCHANGED <<dec, pc, attempt, victims, snapshot, lock, pinned, leases,
                   recency>>
    /\ Unchanged(<<>>)

(* follows it while it loads, *)
LaunchLoads(i) ==
    /\ inst[i] = "reserving" /\ dec[i] = "loading"
    /\ inst' = [inst EXCEPT ![i] = "launching"]
    /\ UNCHANGED <<dec, pc, attempt, victims, snapshot, lock>>
    /\ Unchanged(ledger)

(* and is ready once reservation and engine are.  Until then it raises and *)
(* is tried again.                                                         *)
LaunchReady(i) ==
    /\ inst[i] \in {"reserving", "launching"} /\ dec[i] = "ready"
    /\ res[i] = "held" /\ engine[i] = "ready"
    /\ inst' = [inst EXCEPT ![i] = "ready"]
    /\ UNCHANGED <<dec, pc, attempt, victims, snapshot, lock>>
    /\ Unchanged(ledger)

(* DELETE /instances/{id} *)
DrainRequest(i) ==
    /\ i \in Drainable /\ inst[i] = "ready"
    /\ inst' = [inst EXCEPT ![i] = "draining"]
    /\ UNCHANGED <<dec, pc, attempt, victims, snapshot, lock>>
    /\ Unchanged(ledger)

(* The drain workflow: no lease is left, or the deadline has passed and    *)
(* the leases that are left end with it.                                   *)
Drain(i) ==
    /\ inst[i] = "draining" /\ cmd[<<"unload", Operator, i>>] = None
    /\ leases' = [leases EXCEPT ![i] = 0]
    /\ res' = [res EXCEPT ![i] = "releasing"]
    /\ Enqueue(<<"unload", Operator, i>>)
    /\ UNCHANGED <<flow, pinned, recency, engine, proc, measured, ttl, call,
                   faults>>

(* Its unload ended *)
Drained(i) ==
    /\ inst[i] = "draining"
    /\ \/ /\ cmd[<<"unload", Operator, i>>] = "succeeded"
          /\ inst' = [inst EXCEPT ![i] = "stopped"]
       \/ /\ cmd[<<"unload", Operator, i>>] = "failed"
          /\ inst' = [inst EXCEPT ![i] = "failed"]
    /\ UNCHANGED <<dec, pc, attempt, victims, snapshot, lock>>
    /\ Unchanged(ledger)

-----------------------------------------------------------------------------
(* The idle pass: one transaction that reads and then writes, no lock *)

(* It finds an idle reservation with an engine that is up. *)
IdleFound(i) ==
    /\ ttl = None /\ i \in Expiring
    /\ res[i] = "held" /\ ~pinned[i] /\ leases[i] = 0 /\ engine[i] = "ready"
    /\ ttl' = i
    /\ UNCHANGED <<flow, ledger, engine, proc, measured, work, faults>>

(* It commits the release and a fresh unload command. *)
IdleReleased ==
    /\ ttl # None
    /\ LET unload == <<"unload", Idle, ttl>> IN
          /\ res' = [res EXCEPT ![ttl] = "releasing"]
          /\ cmd' = [cmd EXCEPT ![unload] = "queued"]
          /\ queue' = IF cmd[unload] = "queued" THEN queue ELSE Append(queue, unload)
    /\ ttl' = None
    /\ UNCHANGED <<flow, pinned, leases, recency, engine, proc, measured, call,
                   faults>>

-----------------------------------------------------------------------------
(* The gateway and the operator, under the node's admission lock *)

Touch(i) == Append(RemoveFirst(recency, i), i)

(* acquire_lease *)
AcquireLease(i) ==
    /\ lock = None /\ res[i] = "held" /\ inst[i] = "ready"
    /\ leases[i] < MaxLeases
    /\ leases' = [leases EXCEPT ![i] = @ + 1]
    /\ recency' = Touch(i)
    /\ UNCHANGED <<flow, res, pinned>> /\ Unchanged(<<>>)

(* release_lease, or a lease nobody refreshes any more *)
EndLease(i) ==
    /\ leases[i] > 0
    /\ leases' = [leases EXCEPT ![i] = @ - 1]
    /\ UNCHANGED <<flow, res, pinned, recency>> /\ Unchanged(<<>>)

(* set_pin *)
SetPin(i) ==
    /\ i \in Pinnable /\ lock = None
    /\ res[i] \notin {None, "releasing"} /\ inst[i] # "draining"
    /\ pinned' = [pinned EXCEPT ![i] = ~@]
    /\ UNCHANGED <<flow, res, leases, recency>> /\ Unchanged(<<>>)

-----------------------------------------------------------------------------
(* The executor works on the oldest command only *)

Current == Head(queue)
IsCurrent(op) == queue # <<>> /\ Current[1] = op
Target == Current[3]

(* The command ends, one way or the other. *)
Finish(state) ==
    /\ cmd' = [cmd EXCEPT ![Current] = state]
    /\ queue' = Tail(queue) /\ call' = "idle"

Fits(i) ==
    Bytes({j \in Instances : proc[j] \in Running}) + Size[i] <= NodeBudget

(* start_engine: the node returns the engine it is serving, starts one, or *)
(* refuses by its own budget.                                              *)
LoadCall ==
    /\ IsCurrent("load") /\ call = "idle"
    /\ \/ /\ proc[Target] \in {"starting", "ready"}
          /\ call' = "called" /\ UNCHANGED <<proc, cmd, queue>>
       \/ /\ proc[Target] \notin {"starting", "ready"} /\ Fits(Target)
          /\ proc' = [proc EXCEPT ![Target] = "starting"]
          /\ call' = "called" /\ UNCHANGED <<cmd, queue>>
       \/ /\ proc[Target] \notin {"starting", "ready"} /\ ~Fits(Target)
          /\ Finish("failed") /\ proc' = proc
    /\ UNCHANGED <<flow, ledger, engine, measured, ttl, faults>>

(* The engine is seen ready: the reservation is held. *)
LoadApply ==
    /\ IsCurrent("load") /\ call = "called" /\ proc[Target] = "ready"
    /\ res' = [res EXCEPT ![Target] = "held"]
    /\ engine' = [engine EXCEPT ![Target] = "ready"]
    /\ call' = "applied"
    /\ UNCHANGED <<flow, pinned, leases, recency, proc, measured, ttl, cmd,
                   queue, faults>>

(* stop_engine; an engine that has exited, or that the node does not know, *)
(* is stopped already.                                                     *)
UnloadCall ==
    /\ IsCurrent("unload") /\ call = "idle"
    /\ proc' = [proc EXCEPT ![Target] = IF @ \in Running THEN "stopping"
                                        ELSE "stopped"]
    /\ call' = "called"
    /\ UNCHANGED <<flow, ledger, engine, measured, ttl, cmd, queue, faults>>

(* Variant: an instance that was not draining is forgotten. *)
UnloadApplyDrainingOnly ==
    /\ IsCurrent("unload") /\ call = "called"
    /\ proc[Target] = "stopped"
    /\ res' = [res EXCEPT ![Target] = "released"]
    /\ inst' = [inst EXCEPT ![Target] = IF @ = "draining"
                                        THEN "stopped" ELSE @]
    /\ engine' = [engine EXCEPT ![Target] = "stopped"]
    /\ call' = "applied"
    /\ UNCHANGED <<dec, pc, attempt, victims, snapshot, lock, pinned, leases,
                   recency, proc, measured, ttl, cmd, queue, faults>>

(* Variant: the memory is given back once the node was asked to stop. *)
UnloadApplyAtOnce ==
    /\ IsCurrent("unload") /\ call = "called"
    /\ res' = [res EXCEPT ![Target] = "released"]
    /\ inst' = [inst EXCEPT ![Target] = IF @ \in {"ready", "draining"}
                                        THEN "stopped" ELSE @]
    /\ engine' = [engine EXCEPT ![Target] = "stopped"]
    /\ call' = "applied"
    /\ UNCHANGED <<dec, pc, attempt, victims, snapshot, lock, pinned, leases,
                   recency, proc, measured, ttl, cmd, queue, faults>>

(* The unload is confirmed: only now is the memory given back. *)
UnloadApply ==
    /\ IsCurrent("unload") /\ call = "called"
    /\ proc[Target] = "stopped"
    /\ res' = [res EXCEPT ![Target] = "released"]
    /\ inst' = [inst EXCEPT ![Target] = IF @ \in {"ready", "draining"}
                                        THEN "stopped" ELSE @]
    /\ engine' = [engine EXCEPT ![Target] = "stopped"]
    /\ call' = "applied"
    /\ UNCHANGED <<dec, pc, attempt, victims, snapshot, lock, pinned, leases,
                   recency, proc, measured, ttl, cmd, queue, faults>>

(* A second transaction marks the command. *)
Succeed ==
    /\ call = "applied" /\ Finish("succeeded")
    /\ UNCHANGED <<flow, ledger, engine, proc, measured, ttl, faults>>

(* The deadline passes while the engine is still starting or stopping. *)
Expire ==
    /\ call = "called" /\ proc[Target] \in {"starting", "stopping"}
    /\ timeouts < MaxTimeouts /\ timeouts' = timeouts + 1
    /\ Finish("failed")
    /\ UNCHANGED <<flow, ledger, engine, proc, measured, ttl, crashes, deaths>>

(* The engine to be loaded has failed. *)
LoadDies ==
    /\ IsCurrent("load") /\ call = "called" /\ proc[Target] = "failed"
    /\ Finish("failed")
    /\ UNCHANGED <<flow, ledger, engine, proc, measured, ttl, faults>>

-----------------------------------------------------------------------------
(* The node, its prober and the reconciler *)

(* An engine comes up or is gone, *)
Progress(i) ==
    /\ \/ proc[i] = "starting" /\ proc' = [proc EXCEPT ![i] = "ready"]
       \/ proc[i] = "stopping" /\ proc' = [proc EXCEPT ![i] = "stopped"]
    /\ UNCHANGED <<flow, ledger, engine, measured, ttl, work, faults>>

(* or dies. *)
Die(i) ==
    /\ proc[i] \in {"starting", "ready"} /\ deaths < MaxDeaths
    /\ proc' = [proc EXCEPT ![i] = "failed"] /\ deaths' = deaths + 1
    /\ UNCHANGED <<flow, ledger, engine, measured, ttl, work, crashes, timeouts>>

(* measured_node_residency, as of the last probe *)
Sample ==
    /\ Sampled
    /\ measured' = Bytes({i \in Instances : proc[i] \in Running})
    /\ measured' # measured
    /\ UNCHANGED <<flow, ledger, engine, proc, ttl, work, faults>>

(* _fail_instance_for_engine: an engine that is gone fails its instance    *)
(* and gives its memory back.                                              *)
FailInstance(i) ==
    LET fails == inst[i] \notin Terminal \cup {"draining"}
    IN  /\ inst' = [inst EXCEPT ![i] = IF fails THEN "failed" ELSE @]
        /\ res' = [res EXCEPT ![i] = IF fails /\ @ \in Counted
                                     THEN "released" ELSE @]

(* _sync_engines: the row follows the node. *)
Sync(i) ==
    /\ engine[i] \in Running /\ proc[i] \notin {None, engine[i]}
    /\ engine' = [engine EXCEPT ![i] = proc[i]]
    /\ IF proc[i] \in Terminal THEN FailInstance(i) ELSE UNCHANGED <<inst, res>>
    /\ UNCHANGED <<dec, pc, attempt, victims, snapshot, lock, pinned, leases,
                   recency, proc, measured, ttl, work, faults>>

(* _engine_start_in_flight: a load that waits in the queue past the start  *)
(* grace, or was refused by the node, leaves an engine nobody knows.       *)
Unknown(i) ==
    /\ engine[i] = "starting" /\ proc[i] = None
    /\ timeouts < MaxTimeouts /\ timeouts' = timeouts + 1
    /\ engine' = [engine EXCEPT ![i] = "failed"] /\ FailInstance(i)
    /\ UNCHANGED <<dec, pc, attempt, victims, snapshot, lock, pinned, leases,
                   recency, proc, measured, ttl, work, crashes, deaths>>

(* _release_terminal_instance_reservations *)
ReleaseTerminal(i) ==
    /\ inst[i] \in Terminal /\ res[i] \in Counted
    /\ res' = [res EXCEPT ![i] = "released"]
    /\ UNCHANGED <<flow, pinned, leases, recency>> /\ Unchanged(<<>>)

-----------------------------------------------------------------------------
Decision(i) ==
    \/ Start(i) \/ Plan(i) \/ Replan(i) \/ Evict(i) \/ Unloaded(i)
    \/ Reserve(i) \/ Loaded(i)
Instance(i) ==
    \/ Launch(i) \/ LaunchFails(i) \/ LaunchLoads(i) \/ LaunchReady(i)
    \/ Drain(i) \/ Drained(i)
Executor ==
    \/ LoadCall \/ LoadApply \/ UnloadCall \/ UnloadApply \/ Succeed \/ LoadDies
Reconciler(i) == Sync(i) \/ ReleaseTerminal(i)
Environment(i) ==
    \/ DrainRequest(i) \/ AcquireLease(i) \/ EndLease(i) \/ SetPin(i) \/ Die(i)

Next ==
    \/ \E i \in Instances :
          \/ Decision(i) \/ Instance(i) \/ IdleFound(i) \/ Progress(i)
          \/ Reconciler(i) \/ Unknown(i) \/ Environment(i)
    \/ Executor \/ IdleReleased \/ Expire \/ Sample \/ Crash

Spec == Init /\ [][Next]_vars

(* What the scheduler's loops and the node promise to go on doing; leases, *)
(* operators, deadlines, probes and faults promise nothing.                *)
Fairness ==
    /\ \A i \in Instances :
          /\ WF_vars(Decision(i)) /\ WF_vars(Instance(i))
          /\ WF_vars(Progress(i)) /\ WF_vars(Reconciler(i))
    /\ WF_vars(Executor) /\ WF_vars(IdleReleased)

FairSpec == Spec /\ Fairness

-----------------------------------------------------------------------------
(* A ready instance has its memory counted: nothing gives the reservation  *)
(* of an instance back, or hands it to a pending load, while the gateway   *)
(* may route to it (executor.py unload, reconciler, launch and retries).   *)
ReadyIsCounted ==
    \A i \in Instances :
        inst[i] \in {"ready", "draining"} => res[i] \in {"held", "releasing"}

(* The loads under way, what they have brought up for the decision that    *)
(* asked for them, and what is routed to fit the budget together.  Plans   *)
(* evict in one transaction and reserve in another without counting again, *)
(* yet no two of them spend the same memory, whatever restarts, leases,    *)
(* idle releases, drains, timeouts and deaths come between.                *)
Admitted ==
    {i \in Instances :
        /\ inst[i] \notin Terminal
        /\ \/ /\ pc[i] \in {"reserve", "loading"}
              /\ cmd[<<"load", i, i>>] \in {None, "queued"}
           \/ /\ pc[i] = "loading" /\ cmd[<<"load", i, i>>] = "succeeded"
              /\ res[i] = "held"
           \/ /\ dec[i] = "ready"
              /\ res[i] = "held" \/ inst[i] \in {"ready", "draining"}}
AdmittedFit == Bytes(Admitted) <= Budget

(* FR-004, FR-011 and SC-008 of the placement specification: loads under   *)
(* way and reservations held or being released never add up to more than   *)
(* the budget.  It does not hold when an instance that was released by the *)
(* idle pass, or loaded for a decision begun before a restart, is still    *)
(* counted beside the next admission.                                      *)
Committed ==
    {i \in Instances :
        /\ inst[i] \notin Terminal
        /\ res[i] \in {"held", "releasing"} \/ (res[i] = "pending" /\ dec[i] = "loading")}
LedgerFits == Bytes(Committed) <= Budget

(* The engines that run, or are still stopping, for instances that have    *)
(* not ended and whose load was not given up fit the budget: memory is     *)
(* given away only when its engine is gone (executor.py), as long as the   *)
(* scheduler does not restart and the idle pass releases residents only.   *)
LiveEnginesFit ==
    Bytes({i \in Instances : /\ inst[i] \notin Terminal /\ proc[i] \in Running
                             /\ cmd[<<"load", i, i>>] # "failed"}) <= Budget

(* What the gateway may route to fits the budget, whatever fails: after    *)
(* restarts, retries, timeouts and deaths no admission that was not paid   *)
(* for by its evictions ends in a ready instance.                          *)
RoutedFit ==
    Bytes({i \in Instances : inst[i] \in {"ready", "draining"}}) <= Budget

(* FR-004 to the letter: no load is admitted that overfills the node,      *)
(* whatever has become of the instance it was for.                         *)
EnginesFit == Bytes({i \in Instances : proc[i] \in Running}) <= Budget

(* FR-014 and research R4: an admitted request is never unloaded beneath   *)
(* itself.                                                                 *)
LeasedStaysUp ==
    \A i \in Instances : leases[i] > 0 => proc[i] \in {"starting", "ready"}

(* Every placement decision ends, whatever it waits for: the admission     *)
(* lock, a drain, its victims' unloads, its load (_run_ordinary_decision,  *)
(* _wait_command and the executor).                                        *)
DecisionEnds == \A i \in Instances : pc[i] = "start" ~> pc[i] = "done"

(* Specification 005, SC-001: a launch ends, restarts of the scheduler     *)
(* included.                                                               *)
LaunchEnds ==
    \A i \in Instances :
        inst[i] \in {"reserving", "launching"} ~> inst[i] \notin {"reserving", "launching"}
=============================================================================
