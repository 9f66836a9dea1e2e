# Coire: formal models of the control plane

Coire runs one *core* host (API, scheduler, Postgres) and two *Studios* (edge-a,
edge-b) that run the model engines. This directory holds TLA+ models of its
coordination logic, TLC configurations and TLAPS proofs. Five subsystems are
covered: control-plane failover (which host answers for the cluster when core goes
away, and how the answer comes back to core), the placement of models on a node (who
may occupy its memory, and what is unloaded to make room), agent runs (containers on
the Studios, driven by durable workflows and commands), image jobs (generated on a
Studio, published from core) and training jobs (on one or both Studios, in attempts
that may be interrupted and resumed from checkpoints).

## 1. Inventory

| Component | State | Operations | Hard behaviour | What makes it correct |
|---|---|---|---|---|
| Peer liveness (`coire_core/failover_poller.py`) | per peer: run of misses, run of recoveries, health, dates | `note`, `observations` | damping, dates of an outage | an outage is dated from its first miss; a slow beat is a beat |
| Election participant (`coire_core/failover_election.py`) | role, term, proof, received and issued grants, closed term, outage, reclaim and drain windows | `observe`, `vote`, `receive_grant`, `accept_handback`, `adopt_term` | three independent processes, expiring grants, handlers between the awaits of a poll | at most one quorum host; the lowest member never promoted automatically |
| Poll loops (`failover_poller.py`, `coire_api/failover/poller.py`) | captured moment, acknowledgements of a hand-back | `tick`, hand-back loop | lost, late and repeated answers; a moment that ages during the poll | as above |
| Studio participant (`coire_node/failover/participant.py`) | restart fence, delivered override, lease file | `deliver_override`, `publish_lease`, restart | forgets its votes when it restarts | fence outlasts forgotten votes; inhibit withdraws the lease |
| Studio controller (`coire_node/failover/poller.py`) | armed participant, container | `_arm`, `_disarm`, `_sync_frontend`, `_in_flight`, snapshot refresh, journal reconcile | two loops and a container, Docker failures | a frontend without office stops; no lease left behind |
| Emergency frontend (`coire_failover/app.py`) | in-flight count | admit, count, complete | admission and counting are apart | serves only on a current lease |
| Snapshot and journal (`failover_snapshot.py`, `failover/publication.py`, `failover/reconcile.py`, `failover/journal.py`) | signed snapshot, bounded journal | publish, refresh, reconcile | staleness, full journal | a stale snapshot never arms; events recorded once |
| Placement (`coire_api/placement`, `coire_scheduler/placement.py`) | per-node memory ledger, residents, leases, pins, waits | admit, reserve, evict, release, pin | row locks, multi-transaction placement, idle eviction | no over-commit; nothing leased or pinned is evicted |
| Instances and sharding (`coire_scheduler/instances.py`, `sharded_instances.py`, `coire_api/sharding.py`) | instance states, member engines | start, stop, reconcile, compensate | half of a two-node start fails | both members run or neither holds memory |
| Gateway (`coire_api/gateway`) | cold waits, stream leases | resolve, wait, stream, cancel | client cancels during a load | every lease is released |
| Runs (`coire_api/run*.py`, `coire_scheduler/runs.py`, `coire_node/runs.py`) | run row, commands, credential, container | request, place, execute, finalise, kill, reconcile | two workflows, two command lanes and a reconciler; lost and late calls; restarts | a run ends once and rightly, within the cap, with one valid credential, and leaves no container |
| Chat (`coire_api/chat`) | turns, stream lease | send, stop, retry, recover | stop racing completion | one active turn per conversation |
| Images (`coire_scheduler/image*.py`, `coire_api/images`, `coire_node/image*`) | job row, execution lease, quota, worker instance, the Studio's journal, scratch and process record | admit, dispatch, observe, transfer, publish, cancel, expire, unload | six workflows per job, calls that arrive late, a journal and a worker that can each be lost | one holder per Studio, all images or none, holds that balance, memory given back only after a proved stop |
| Training (`coire_scheduler/training*.py`, `coire_api/training*`, `coire_node/training`) | job, attempts with fences, participants, commands, checkpoints; the Studio's journal, trainers and their leases | admit, prepare, start, pause, stop, acknowledge, observe, recover, resume, finalise | two ranks that start and stop together; late and repeated commands; a crash in a spawn; leases that lapse; checkpoints between two attempts | no trainer without a hold, no acknowledged update lost, nothing unfinished published, every stop proved in the end |
| Evaluation, feedback (`evaluation*.py`, `feedback.py`) | durable jobs, capacity holds | admit, dispatch, cancel, recover | recovery after a crash of the scheduler | a hold exists exactly while a job needs it |
| Acquisition, registry, files | downloads, publication states | fetch, verify, publish, purge | retry of what was done | nothing half-verified is published |
| Upgrades (`coire_api/upgrades`, `coire_core/upgrade_*.py`, `coire_node/upgrade_*.py`, executor) | journal of stages | stage, cut over, roll back | crash between journal and effect | every effect is journalled before it happens |
| Node agent engines (`coire_node/engines.py`, `agent.py`) | engine processes | launch, stop, report | process dies unseen | reported and real engines agree |
| Ops, identity, MCP, agent harness, web, deployment | tokens; otherwise none of their own | confirm, authenticate, adapt, render | a confirmation used twice | one action per confirmation |

Core and the Studios talk over HTTP (heartbeats, votes, hand-back notices,
overrides). Within a Studio, the participant and the frontend container share the
lease file; the participant and the lifecycle loop share the role in memory.
On core, scheduler, gateway, command executor and reconciler share the database:
the scheduler writes commands, the executor carries them to the node's agent and
writes the outcome into reservations, engines and instances, and the reconciler
corrects those rows after what the agent reports. Runs use the same pattern with a
command table of their own and a second lane for kills. Image jobs have no commands:
each workflow calls the node's image routes itself, and the node keeps its own journal
of attempts, so that a call can be repeated. Training commands are rows like those of
runs; the controller sends them itself, tick by tick, to a node that journals every
command identity and every attempt.

## 2. Modules

| Module | Models |
|---|---|
| `PeerLiveness` | `PeerLiveness.note`, as an operator on one peer's record |
| `FailoverElection` | three participants, their poll loops, messages, lease files, clock, crashes, overrides (extends `PeerLiveness`) |
| `StudioFrontend` | one Studio: poll loop, lifecycle loop, container, completions |
| `Placement` | the memory ledger of one node: placement, launch and drain workflows, idle pass, executor, leases, pins, engines, reconciler |
| `AgentRuns` | requests, placement, the run and kill workflows, the command executor, run managers of the Studios, the orphan reconciler |
| `ImageService` | what users are promised of image jobs |
| `ImageJobs` | image jobs in core, their workflows, the Studio's dispatcher, journal, supervisor and worker; refines `ImageService` |
| `TrainingJobs` | one training job: its row, attempts and commands in core, the controller, the Studios' journals, supervisors and trainers |
| `MCFailoverElection`, `MCStudioFrontend`, `MCPlacement`, `MCAgentRuns`, `MCImageJobs`, `MCTrainingJobs` | networks, request sets, sizes and names for TLC |
| `FailoverElectionProofs` | the type invariant, proved |
| `FailoverSafetyProofs` | the inductive invariant of votes; in what one way two quorum hosts can clash, and with which thresholds they cannot |
| `FailoverOfficeProofs` | offices, lease files and overrides, proved without conditions on the timing |
| `StudioFrontendProofs` | typing and the lease file of an armed Studio |
| `PlacementProofs` | typing; what is routed to is counted and fits, also beside the loads under way; under conditions the whole ledger and the engines |
| `AgentRunsProofs` | typing, credentials, success, and the cap among punctual runs |
| `ImageJobsProofs` | typing, quota, leases, memory, what an ended job leaves, and the refinement of `ImageService` |
| `TrainingJobsProofs` | typing, proved stops, acknowledged updates and publication |

### FailoverElection

Each variable is an attribute of the code's objects, as a function of the member.
A poll is four actions, cut at the code's awaits:

* `TickStart` captures `moment`; `Probe` folds the heartbeats and runs the first
  `observe`; `Vote` is a peer's handler at the peer's own time; `Retry` is the
  second round in the next term; `Finish` receives the grants and observes again
  at the captured moment. `EndTick` is core's hand-back fan-out.
* `Observe` runs `Advance`, whose disjuncts are the branches of `_advance` in the
  code's order: inhibit, drain, fence, hold, stand down, campaign. `Emit` rewrites
  the lease file only when role or proof changed, as `_emit` does.
* `Handback`, `HandbackDone`, `DeliverOverride`, `Crash`, `Restart` are the other
  entry points. `NetworkChange` and `Elapse` are the environment.

Abstractions: a grant is (term, candidate, voter, expiry) and its signature always
verifies; the membership epoch does not change; there is one clock; the in-flight
count is "some or none", chosen freely for a Studio in office; core samples none.
A request of an earlier round by the same candidate that is still under way is
replaced by the new one. With `Late`, a request or a notice may be handled after
the poll that sent it has ended.

`RECURSIVE` is not used anywhere.

### StudioFrontend

The election's decision is left open (`PollObserve` may fence, drain, campaign,
stand down or hold), so the module covers every decision `FailoverElection` can
take. What matters here is *when* things are read: `PollSample` reads the in-flight
count, `PollObserve` uses it later; `Inspect` looks at the container, `Sync` acts
later on the role of that moment; `Admit` reads the lease, `Count` counts later.
`Disarm` cancels the loops and deletes the lease file; the container is then told to stop,
or is left running when Docker refuses or the agent dies between the two.

### Placement

An action is one database transaction, or one call to the node's agent. Per
instance, `inst`, `dec`, `res`, `pinned`, `leases`, `engine` and `cmd` are columns of
the database; `pc`, `attempt` and `victims` are where the DBOS step of its decision
is; `proc` is what the node's agent knows; `queue` and `call` are the executor, which
serves one command at a time.

* A decision goes `Start`, `Plan`, perhaps `Replan`, then `Evict` and `Unloaded` per
  victim, `Reserve`, `Loaded`. Only `Plan`, `Replan` and `Reserve` hold the admission
  lock, and only the wait for a drain holds it across actions (`lock`, `snapshot`).
  `Plans` is `plan_admission`: the sequences of evictable reservations in order of age
  (`Older`), leaving out none that is older than one taken, that free the shortage and
  would not without their last member. There is one such sequence or none.
  `Fail` is the handler of `execute_placement`, in the same action as the step that
  raises; the step runs again until `MaxAttempts`.
* `Launch`, `LaunchFails`, `LaunchLoads`, `LaunchReady`, `DrainRequest`, `Drain`,
  `Drained` are the instance workflows; `IdleFound` and `IdleReleased` the read and
  the write of the idle pass, which releases one reservation per pass here.
* `LoadCall`, `LoadApply`, `UnloadCall`, `UnloadApply`, `Succeed`, `Expire` and
  `LoadDies` are the executor: the call, the transaction that applies its answer and
  the one that ends the command.
* `Sync`, `Unknown`, `ReleaseTerminal` are the reconciler, `Progress` and `Die` the
  engines, `Sample` the prober, `Crash` a restart of the scheduler, after which every
  unfinished step starts over while the commands it wrote stay.

Abstractions: one node, which every instance's policy names; each instance is of its
own model; standing reservations are subtracted from `Budget`; the load command's
target is the instance's only engine row; `waiting_for_drain` is never committed and
so not visible; `warming` lasts within one transaction; a retryable node error is a
stutter; a drain's deadline may pass at any time, and so may an idle TTL; the
reconciler's pass is one action per row; an engine the agent gives up on while it
starts is gone at once. `LaunchReady` is disabled where the code raises and DBOS tries
the step again. `LaunchReady` reads and writes in one step; the code reads the row without
a lock and locks it later without reading it anew (see the end of section 3).
`Budget` and `NodeBudget` are separate settings in the code.

### AgentRuns

An action is one database transaction or one effect on a Studio.

* `OpenRequest` and `CommitRequest` are the two ends of the requesting transaction,
  whose beginning is the run's place in the queue; transactions of several requests may
  overlap. `KillRequest` is the admin's and the ops agent's kill, `StopByOwner` the owner's.
  `late` is a history variable: the runs that were committed after a younger one
  (`Overtaken`). No action reads it.
* `Dispatch`, `Choose`, `CommitPlacement`, `Gate` are `place_run` and the test after it;
  the probe of the node lies between `Choose` and `CommitPlacement`. `BeginExecution`,
  `Submit`, `Proceed`, `Fail` are `execute_run`: one command after the other, and from the
  top again when one raises (`Raise`); a collected MCP apply also raises when it does not
  match the artifact on its Studio. `Finalize` and `Done` are `finalize_run`;
  `DispatchKill`, `BeginKill`, `AwaitKill`, `MarkKilled` are the kill workflow.
* `Pick` and `Mint` are the lane of the ordinary commands, one at a time and the oldest
  first, `SendKill` the lane of the kills. `GiveUp`, `KillUnanswered` and `KillTimesOut`
  are calls without an answer; the call may still be served. A create carries the
  credential minted for it, so several may be in flight.
* `ServeCreate` ... `ServeKill` are the run manager; `Exit` the harness; `Observe` and
  `ServeReap` the reconciler, whose second reading and whose request to the node may be
  apart (`SlowReap`); `Crash` a restart of the scheduler. A run at the gate may then be
  back in `place_run`, if DBOS had not recorded the return of that step.

`box` is the run's containers on its Studio: none, only the relay, created, running or
exited. Abstractions: `choose_studio`'s ranking is a choice; the health of a node is a
probe that may fail; a run's time limit may be reached whenever WAIT is served;
activity pages, workspaces, evaluation runs, upgrade gates and what a credential may
spend are left out.

### ImageJobs and ImageService

An action is one transaction of core, or one handler of the node, which holds the
dispatcher's lock; only the transfer holds it across actions (`push`). `dw`, `ow`, `tw`,
`cw` say where each job's dispatch, observation, transfer and cancellation are, `uw` where
a Studio's idle unload is; a workflow step that fails goes back to `"go"`, as DBOS runs
it again.

* `Admit`, `RequestCancel`, `Expire`, `Publish`, `RefusePublication`, `FinalizeCancel`,
  `Apply` change the job's row; those that end a job do it through `EndQueued` or
  `EndPlaced`, which return the holds. `Fence` is cancel intent for work that may have
  begun.
* `Reserve`, `Load`, `Start`, `Status`, `Cancel`, `BeginTransfer`, `Stop` are the node's
  handlers, written as relations between the state and the reply; the workflows' actions
  (`SendReserve` ... `SendUnload`) conjoin one of them with what the caller does with the
  reply, and `LateCall` uses the same handlers without a caller.
* `worker` is the supervisor's process record together with the fact whether the process
  lives, `stopped` the file `last-stopped.json`, `work` the worker's own table of attempts.

`Strike` bounds what goes wrong: a lost call, a dead worker, a restarted agent (alone or
with its Studio), heat, withdrawn access, a changed model, a deadline, a stop whose death
cannot be proved (`StopUnproved`, `CancelUnproved`: the record and the memory it holds
stay). A restarted agent adopts a live worker or keeps an `"orphan"` it can neither use nor
stop; a load may be refused; a transfer whose PUT fails starts over; a placed job whose model
has changed is refused at every resumption of its dispatch (`Unbound`). `age` counts the deadline and the expiry of the execution lease. Abstractions: a batch is a number of
outputs; content, hashes, grants and binding checks always agree; the memory and health
of a Studio are a choice; quota is counted in jobs; an idle TTL (900 s) outlasts every
call in flight; the supervisor's `Popen` and its record (`supervisor.py:545-562`) are one
step, so that an agent that dies exactly between them, leaving a process it has no record
of, is not covered. Inputs, presets, LoRA, classification, downloads, retention, per-owner
quota and the coexistence with chat are left out.

`ImageService` has four variables: how a job ended, whom a Studio works for, who is being
stopped, how many images are visible. `Refines` maps `lease` and `place` to the holder and
the published outputs to what is visible, and TLC shows that every step of `ImageJobs` is
a step of `ImageService` or leaves it unchanged.

### TrainingJobs

One job and its attempts, numbered by the fence. An action is one transaction of core,
one handler of a node, or one step of the trainers.

* `Advance...` are the branches of `advance_training`, each with the tests that precede
  it in the code: queue deadline, authority, lease, cancel, pause, recovery, queued, the
  last checkpoint, exhausted recoveries, admission, reserving. `Admit`, `AdmitWaits` and
  `AdmitImpossible` are the outcomes of `admit_training` and its caller.
* `SendPrepare`, `SendStart` put a call at the node; `ServePrepare`, `ServeStart`, `Spawn`
  serve it, and their answers go through `ReduceStart`. `Waiting` says that the
  controller's tick waits for the calls it sent; `CallLate` is its timeout of five
  seconds, after which the node may still serve the call. `SendStop`, `SendPause`,
  `SendAck` are call, handler and answer in one action: the controller waits for them, and
  they are repeated under the same identity; a lost answer of a stop is its own case.
* `Ingest`, `Mirror`, `Commit`, `MirrorExpires`, `Observe`, `ObserveFails` are
  `_observe_node`: the mailbox, the mirror, the status. `Mirror` asks for the owner's
  authority; `Commit`, its last transaction, does not ask again. `RecordProof` is `record_stop_proof`, the only way out
  of an active attempt.
* `Pause`, `Resume`, `Cancel` are `control_training`, `ResumeAutomatic` the end of a
  protective pause that `Breach` began, `Finalize` the extraction and smoke test.
* `Watchdog` is the supervisor's; `Train`, `Continue`, `Leave`, `Killed`, `Fails` are the
  trainers of an attempt, which move together because every update is a collective.
  `proc` is `"due"` between the journaled intent and the spawn, `"stray"` when the agent
  died before it journaled the identity of a process that `discover` finds, `"lost"` when
  nothing can be found and nothing proved.

Abstractions: a lease is current or not; core's outlasts the node's because it issued it,
and one that is renewed lapses only as a trouble (`Strike("lapse")`), whereas the
leases of an attempt that core no longer renews lapse by themselves. Every update ends in
a checkpoint. A late answer of a stop or a pause is a lost one. When an attempt is proved
stopped, what core knew of its participants and the events nobody reads any more are
reset. A preparation whose inputs are on their way is still being served. Left out:
datasets and their analysis, measurements and profiles, the idle models that are drained
for a job and restored after it, metrics, corrupt checkpoints and retention, preference
training, evaluation pauses, the execution deadline (it cancels, as lost authority
does), upgrade gates, the steps of the extraction.
Three simplifications allow what the code allows and name another cause: a rank that is
not ready (`training.py:843-845`) is found by `Observe`, a pause whose own 30 s are over is
one that was not delivered (`SendPause` is not fair), and a `Commit` may follow the `Mirror`
of an earlier tick. The lease written into commands (`due.command`) outlives the attempt:
a late prepare or start is refused by the node's journal, not by that lease.

Symbols named `...AtOnce`, `...Again`, `...Alone` and the like, marked "Variant" or
"Mutant" in their comments, are deliberately wrong forms of the definition that follows them.
Substituting one makes the property it belongs to fail, which shows that the
property depends on that line of the code. No specification uses them.

## 3. Runs

| Run | Instance | Checks | Result |
|---|---|---|---|
| `election_restart` | one crash, one change of network, late messages, unit lease | `TypeOK`, `AtMostOneQuorumHost`, `ElectionInv` | holds, 2.2 M states |
| `election_override` | two overrides, core or edge-b alone | `EdgeBNeedsBreakGlass`, `InhibitWithdraws` | holds, 0.3 M |
| `election_split_brain` | three misses to condemn | `AtMostOneQuorumHost` | **violated** |
| `frontend_lifecycle` | two requests, two crashes or rearmings, one Docker fault | `TypeOK`, `LeaseOnlyWhileElected`, `DrainEnds`, `FrontendStops` | holds, 140 k |
| `placement_restart` | three instances, an idle TTL on a newcomer, one restart, one death, sampled residency | `RoutedFit`, `ReadyIsCounted`, `AdmittedFit` | holds, 3.3 M |
| `placement_decisions` | three instances, one attempt repeated, one timeout, a pin, a drain, leases, drain waits | `TypeOK`, `AdmittedFit`, `LiveEnginesFit`, `DecisionEnds` | holds, 0.28 M |
| `placement_resume` | room for both, one restart | `LaunchEnds` | **violated** |
| `runs_lifecycle` | one run with a restart, a lost answer, a stalled kill, slow reaping; or two runs, one slot, and a kill while waiting | `TypeOK`, `CredentialFits`, `SuccessIsEarned`, `PunctualRunsFit`, `RunEnds`, `OrphansGo` | holds, 0.75 M |
| `runs_overlap` | two runs, one slot, no faults | `CapHeld` | **violated** |
| `runs_killed` | one run, no faults | `KilledIsStopped` | **violated** |
| `images_lifecycle` | two jobs, one Studio, two outputs, one trouble of any kind | `TypeOK`, `QuotaBalances`, `WorkUnderLease`, `EndedLeavesNothing`, `MemoryIsHeld`, `Refines`, `KnownJobEnds` | holds, 0.31 M |
| `training_lifecycle` | one job on both Studios or one of two updates on either; one control, one trouble of any kind, two attempts | `TypeOK`, `StoppedIsDead`, `AckedIsKept`, `SucceededIsTrained`, `StopEnds` | holds, 0.71 M |

Three properties say how much memory is given away. `AdmittedFit` is about what an
admission was paid for: the loads under way, what they brought up for the decision that
asked for them, and what is routed to. `RoutedFit` is about the last part alone. Both hold
with restarts and any idle TTL: an admission that was not paid for by its evictions does
not end in `ready`. `LiveEnginesFit` is about processes, of instances that have not ended
and loads that were not given up (a load that outlasts its command frees its reservation
while its engine goes on loading). It is checked, and proved, under two conditions, without
which TLC finds it violated:

* the scheduler does not restart. With `Instances = {a, b, c, d}`, `Resident = {a, d}`,
  `Size <- BigC`, `Budget = 2`, `Expiring = {d}`, one restart, one attempt: a restart in the
  middle of a load runs the plan again, which names another victim; the idle pass unloads
  that one first, so `Evict` finds no engine and fails, and `Fail` gives up the reservation
  whose engine is up by now; the next newcomer is admitted beside it;
* an idle TTL of a newcomer does not run out before its launch has ended, or the idle pass
  sets a reservation that was released back to releasing (`Expiring = {b}`).

The letter of the specification, `LedgerFits`, fails in the same two cases and is among the
disagreements below. `DecisionEnds` is about decisions and not
launches, because a launch may also hang without a restart: a model evicted between its
load and the launch's last transaction leaves a launch that raises for ever.

The liveness properties name the cases in which the code does stop. `RunEnds` excepts
`Stuck` runs (a workflow that ended in an error, after a kill that took more than four
seconds or a finalisation whose Studio did not answer five times; or `place_run` executed
again for a run that has its node, see below) and `Jammed`, a START for a
container that Docker no longer has, which is retried for ever in the one lane all
commands share. `KnownJobEnds` begins when the Studio has the job in its journal and
excepts jobs past their deadline (nothing ends a placed job whose reserve, accept or
publication the deadline forbids), dead workers and restarted agents (status then
answers unavailable for ever), `Unbound`, a placed job whose dispatch resumes with another
model, and `Crowded`, a worker whose table is full of failed and cancelled attempts. `StopEnds` excepts a trainer that was being spawned when its agent
died and cannot be found again: its attempt stays unknown and its memory held, which is
what the code intends. Each exception was added after TLC had shown the behaviour.

Bounds. In `Placement` one unit is the size of a small model, and the newcomers do
not fit without an eviction, so that plan, eviction, reservation and load always
happen; two attempts instead of three are enough for a retry after a failure; one
fault of each kind can hit any step. CHECK_DEADLOCK is off because a system in
which everything has ended and nobody asks for anything may rest. `AgentRuns` is
checked with one run and every fault, and with two runs and one slot, in quiet times, for
what they do to each other: the constraint `AloneInTrouble` cuts requests, kills and faults
only, none of which is fair, so that what must happen is not cut; two attempts stand for the 100 and 5 of the code, enough for one retry
and for giving up. In `ImageJobs` two jobs on one Studio are needed for a Studio that is
given on, two outputs for a batch that is half received, two worker instances for a
worker that is unloaded and started again, and `Retained = 1` for a full table; two
troubles in one behaviour are beyond the time of a run. In `TrainingJobs` two ranks are
needed for a stop that is half proved, two updates for a checkpoint in the middle, two
attempts for a recovery that meets calls and trainers of the attempt before; one recovery
stands for the three of the code. The failover's
member set is fixed at three by the code. Time is in abstract units; what matters
are the orders between lease, promotion, demotion and interval, and the thirds of
a lease. `MaxTime` covers an outage, a promotion and core's return. `MaxTerm`
allows each member two new terms in a poll, the most the code opens. `MaxLag` and
`MaxIdle` say how old a poll may be and how long a member may not poll. The runs
let one member poll at a time and a poll end within one unit; overlapping and
older polls (`MaxPolling`, `MaxLag`) are covered by the proofs, which hold for
every bound. Every bound is in a guard and named. No symmetry is used: the
members' priorities differ, and the other runs check liveness or finish without
it. `Horizon` lets a behaviour stutter at `MaxTime`, so that TLC's deadlock check
still finds every other stop.

Fairness. All modules but `FailoverElection` state liveness. In `Placement` weak
fairness is given to the workflows of an instance, the executor, the idle pass's
second half, the reconciler and the engines' own progress: all are loops that
catch their exceptions and sleep for a bounded time, and DBOS resumes workflows.
Requests, operators, the beginning of an idle pass, deadlines, probes and faults
get none. In `AgentRuns` the workflows, both lanes, the Studios and the reconciler are
fair, for the same reasons; users, the harness (which need not end, WAIT's time limit
ends it) and faults are not. In `ImageJobs` each workflow of a job is fair, as DBOS
retries its step a hundred times with growing pauses and the dispatcher starts it once
per job, so are the node's handlers, the worker's generation and the unload sweep;
`Place` is not, because a Studio need not have room. In `TrainingJobs` the controller's
recovery and cancellation, the delivery of stops and its observation are fair (a tick
every few seconds, each exception caught per job), so are the passing of leases, the
node's handlers, its watchdog and the guard inside a trainer; admission, training, pauses
and administrators are not. In `StudioFrontend` weak fairness of the two loops holds because each is
a `while True` that catches its exceptions and sleeps a fixed interval; of
`DrainTime` because time passes; of `ContainerExits` because Docker kills after
its grace; of `Arm` because launchd restarts the agent. Requests get no fairness:
a completion may run for ever.

### Disagreements with the documents

**Two quorum hosts** (`election_split_brain`). `_ensure_self_grant` withholds a
member's own vote while a vote for another is current, but does not withdraw the
own vote it cast before. With the shipped limit of three misses: edge-a is
candidate or elected and renews its own vote after core's first miss; core, which
still reaches edge-a, asks for its vote and gets it because core is not condemned
before the third miss; the outage, once declared, is dated from the first miss, so
edge-a may campaign again while its old own vote is current, and adds edge-b's.
Both proofs are current. It takes a poll gap of more than a third of the lease (5 s
with shipped values, against a 2 s interval and 1 s probe timeouts) and a link that
fails in one direction. `specs/020-control-plane-failover/spec.md:154` excludes it.
With a limit of two, and a lease within the promotion threshold, it cannot happen (theorem
`QuorumSafety`). With every threshold it takes exactly these two hosts and this old vote
(theorem `ClashSafety`).

**A launch that never ends** (`placement_resume`). After a restart while a decision is
loading, the step runs again and sets the reservation back to pending, but the load
command exists and is not run again, so the reservation is never held once more and
the launch raises for ever. SC-001 of
`specs/005-instances-cluster-state/spec.md:158` promises that it reaches `ready`.

**A killed run goes on** (`runs_killed`). A kill that arrives after `run_workflow` passed
its gate and before CREATE is written finds no container; the run becomes `killed`. Only
`kill_requested` stops `_submit`, the executor and the mint, so the next attempt of
`execute_run` writes CREATE, for which a credential is minted (the run's first one; one that
was minted before and revoked would be made valid again), and START runs the container until `finalize_run` or the reconciler removes it. FR-012 of
`specs/023-control-plane-efficiency/spec.md:70` says "without restoring revoked tokens".
`OrphansGo` shows that the container goes in the end.

**One run too many** (`runs_overlap`). The queue is ordered by `requested_at`, the server's
`now()`, that is the begin of the requesting transaction (`coire_api/db.py:452`). A row that
commits late goes ahead of a head that has already counted the free slots and probes the
node; it counts the same slots, and `commit_run_placement` counts nothing. Both runs are
placed. FR-006 and the edge case at `specs/011-container-run-orchestration/spec.md:117`
promise that a run queues instead. It takes two requests that overlap and a probe that
outlasts the later commit. What does hold is `PunctualRunsFit`: runs whose rows
appeared in the order of the queue keep the cap among themselves (theorem `CapSafety`).

Further disagreements, found with the same modules. The properties are stated in the
modules; they have no run of their own, and the values that show them are given here.

* `StopAfterRequests` (StudioFrontend, no faults): the count a hand-back decides on is
  the one of the last poll, so requests admitted since then do not delay the demotion,
  and the lifecycle loop stops the container under them with only Docker's 30 s grace;
  `specs/020-control-plane-failover/spec.md:136` says they must complete first.
* `LeasedStaysUp` (Placement, two instances, `Expiring = {a}`, one lease): only planning
  looks at leases under the node lock. The idle pass and the eviction transaction look at
  nothing again, so a request admitted in between loses its engine, against
  `specs/004-placement-scheduler/research.md:38-42` and FR-014 (`spec.md:123`).
* `EnginesFit` (Placement, three instances, a drain, two attempts): DBOS retries a
  placement whose first failure has ended the instance; the retry loads, the reconciler
  gives the ended instance's memory away, and a second engine is admitted into it,
  against FR-004 (`spec.md:113`). The node's own budget and measured residency narrow it.
* `KillEnds` (AgentRuns, `MaxStalls = 1`): the timeout of four seconds is no `NodeError`,
  so the kill command fails for good and the run stays in `kill_requested`;
  `docs/runbooks/container-runs.md:26` says that an unavailable Studio is retried.
* `StartedOnce` (AgentRuns, `MaxFaults = 1`): a START whose answer was lost is sent again
  and starts the harness a second time if it has ended in between; user story 5 of
  `specs/011` asks that a run executes exactly once.
* `Stuck` (AgentRuns, `MaxCrashes = 1`): a restart after `commit_run_placement` and before
  DBOS has recorded the return of `place_run` executes the step again; it waits until the run
  is the head of the queue, but `fifo_head` (`coire_scheduler/runs.py:97-107`) looks at runs
  without a node only. The run stays in `placing` and keeps its slot until it is killed,
  against FR-017 and SC-005 of `specs/011` (`spec.md:146`, `:166`).
* `LedgerFits` (Placement, the values of `placement_restart` with or without the restart):
  what the idle pass sets back to releasing, or a decision run again reserves, stays counted
  beside the next admission, so held, releasing and pending reservations together exceed the
  budget, against the letter of FR-004, FR-011 and SC-008 of `specs/004`
  (`spec.md:113`, `:120`, `:152`). What is admitted and routed to fits (`AdmittedFit`).
* `UnloadEnds` (ImageJobs, two jobs, one lost call): an instance whose load
  never reached the node has no process. When it is idle, `_stop` looks for proof that it
  is gone; if `last-stopped.json` names another instance, it raises before the census of
  processes it makes when the file is missing (`image_runtime/supervisor.py:407`). The
  instance stays draining, its memory held, and the Studio takes no image job again,
  against `specs/015-image-generation/spec.md:119`.
* `TrainedSucceeds` (TrainingJobs, `Specs <- OneStudio`, `MaxControls = 0`,
  `Troubles = {"queue"}`): `record_stop_proof` puts a job whose trainers left after the
  last checkpoint into `recovering`, and the next tick tests `queue_deadline_at`, which is
  set at submission and renewed by a resume only, before it looks for the last
  checkpoint (`coire_scheduler/training.py:673`). A job that is still training 24 hours
  after its submission fails with `queue_timeout` and all its updates committed, and so
  does any recovery after that time.
  `specs/016-sft-training-jobs/data-model.md:118` lets a recovering job fail "after
  exhausted recovery policy and teardown" only, and its plan (`plan.md:393`) allows 72
  hours of execution beside the 24 hours of the queue.
* A job that is paused at its last checkpoint and resumed cannot end well: the new attempt
  has nothing left to train, its worker refuses (`training/worker.py:837`), and the
  checkpoint carries the older fence, so that the job is recovered until it fails.
  `TypeOK` and `SucceededIsTrained` hold throughout.
* An administrator's pause may be lost: `mirror_checkpoint` turns `pausing` into
  `recovering` when its minute is over (`training_executor.py:770`), and the job trains
  again without the explicit resume of `docs/runbooks/sft-training.md:283`.

* `EdgeBNeedsBreakGlass` holds, and `specs/020-control-plane-failover/spec.md:75-76` says that
  edge-b promotes when edge-a becomes unreachable "and edge-b still has quorum". The code never
  lets it: edge-b campaigns only when it takes core and edge-a for unreachable, nobody votes
  for a candidate of lower priority, and so its own vote stays alone. The specification
  contradicts itself here: with three members FR-004 (the higher ones are unreachable)
  and FR-005 (a majority is visible), `spec.md:151-152`, leave edge-b no case, and the
  independent test and acceptance scenario 2 (`spec.md:66-72`) agree with the code.
  The property states the code's side.
* `execute_instance_launch` (`instances.py:247-310`) reads the instance without a lock, and
  `transition` (`instance/service.py:91-99`) locks it without reading it anew. A launch that
  read `launching` can therefore write `ready` over a `failed` that the reconciler
  (`reconciler.py:893-928`) committed in between. `LaunchReady` is one step and does not show
  it; found by reading.

Hazards that are known and have no property: clocks that differ between the hosts
(`failover_election.py:355`), a lease file whose write fails (`failover_election.py:573`), a
worker that dies in the middle of an image (`image_dispatch.py:381`: its status stays
unavailable and nothing fails the job).

## 4. Proofs

No proof uses fairness, and every theorem holds for every value of the
constants that satisfies the modules' `ASSUME`s: any finite set of jobs, runs, Studios,
instances and requests, any bound, any set of networks. Further conditions are in the
statement and named below. Each safety proof has the same outline: an inductive
invariant, which TLC checked on an instance before it was proved; a lemma that the
initial states satisfy it; one lemma or case per action; a last step that combines them.

| Module | Theorem | States | Condition |
|---|---|---|---|
| `FailoverElectionProofs` | `Typing` | `[]TypeOK` | |
| `FailoverSafetyProofs` | `Invariance`, `ClashSafety` | `[]ElectionInv`, `[]ClashNeedsOwnVote` | |
| `FailoverSafetyProofs` | `QuorumSafety` | `[]AtMostOneQuorumHost` | `Timely`: lease within promotion, `FailureLimit <= 2` |
| `FailoverOfficeProofs` | `EdgeBSafety`, `InhibitSafety` | `[]EdgeBNeedsBreakGlass`, `[]InhibitWithdraws` | |
| `StudioFrontendProofs` | `Typing`, `LeaseSafety` | `[]TypeOK`, `[]LeaseOnlyWhileElected` | |
| `PlacementProofs` | `Typing`, `ReadySafety` | `[]TypeOK`, `[]ReadyIsCounted` | |
| `PlacementProofs` | `RoutedSafety`, `AdmittedSafety` | `[]RoutedFit`, `[]AdmittedFit` | the residents fit at the start |
| `PlacementProofs` | `LedgerSafety`, `EnginesSafety` | `[](crashes = 0 => LedgerFits)`, `[](crashes = 0 => LiveEnginesFit)` | the same, and `Expiring \subseteq Resident` |
| `AgentRunsProofs` | `Typing`, `CredentialSafety`, `SuccessSafety` | `[]TypeOK`, `[]CredentialFits`, `[]SuccessIsEarned` | |
| `AgentRunsProofs` | `CapSafety` | `[]PunctualRunsFit` | |
| `ImageJobsProofs` | `Typing`, `QuotaSafety`, `LeaseSafety`, `EndedSafety`, `MemorySafety` | `[]TypeOK`, `[]QuotaBalances`, `[]WorkUnderLease`, `[]EndedLeavesNothing`, `[]MemoryIsHeld` | |
| `ImageJobsProofs` | `Refinement` | `Refines`, that is `ImageService`'s specification under the mapping | |
| `TrainingJobsProofs` | `Typing`, `StopSafety`, `KeptSafety`, `PublishSafety` | `[]TypeOK`, `[]StoppedIsDead`, `[]AckedIsKept`, `[]SucceededIsTrained` | |

### The election

`ElectionInv` is `BallotInv /\ (Timely => AgeingInv)`. `BallotInv` holds with every threshold:

* `VotesGoUp`: votes are given only to members of higher priority, so edge-b gets
  none, and only core and edge-a can clash;
* `VotesBacked`, `FenceRespected`, `DownForgets`, `Horizons`: a current vote is
  remembered by its voter, or the voter is fenced until it expires;
* `OneVoteOut`: hence no vote is current in two other hands, and edge-b cannot
  support both;
* `ProofsSound`, `GlassOrProof`: a proof is an own vote and another's, and a
  running Studio's file shows exactly its proof.

This leaves one way to clash, which `ClashNeedsOwnVote` names: core serves on edge-a's vote
while edge-a serves on an own vote it cast before. `AgeingInv` excludes it under `Timely`,
that is `LeaseWithinPromotion` (Settings does not enforce it; the defaults satisfy it with
equality) and `FailureLimit <= 2` (the default is 3, where `election_split_brain` shows the
clash):

* `RecordDated`, `OwnVoteAgeing`, `NoServiceWhileVoting`: what is left is edge-a's
  own vote against its vote for core. Before it votes for core, edge-a sees core;
  once it stops seeing core it waits a promotion threshold from the first miss; its
  old own vote expires within a lease of that miss. With a limit of three it may be
  renewed between the first and the last miss, which is the counterexample.

There is one lemma per action; actions that touch no grant go through `QuietKeeps`
and those that only forget through `ForgetKeeps`. `election_restart` checks
the same `ElectionInv` with TLC.

That edge-b is promoted by break glass only, and that an inhibit withdraws the lease file,
must not depend on thresholds. `OfficeInv` keeps of `ElectionInv` what needs none
(votes go up, proofs are sound, an office rests on glass or a proof) and adds that a
member that is down holds no office (`NoOfficeDown`) and that the file follows the role
(`FileFollowsOffice`), so both hold with the shipped limit of three as well.

### The Studio

`LeaseOnlyWhileElected` is inductive together with `TypeOK`, although the decision of the
election is left open: only the poll that elects writes the file, and each way to lose the
office (hand-back, disarming, restart) removes it in the same step.

### Placement

`ReadyIsCounted` relates a row the launch workflow writes to one that five others write.
`LedgerInv` adds that a routed instance's decision is `ready`, and that a ready decision's
workflow is done, which neither a retry nor a restart undoes: so no later plan sets the
reservation back to pending, and what takes it (unload, reconciler) ends the instance
in the same transaction.

The other theorems are about sums and sequences. `Bytes` is a fold, which the library
defines by a choice of functions, so its laws (`BytesNat`, `BytesAdd`, `BytesDiff`)
are proved first, from a least counterexample over cardinalities in place of an
induction. `TypeInv` strengthens `TypeOK` until it is inductive: rows are never deleted
and whatever names one names an existing one (`RowInv`), the queue and the LRU order have
no repetitions. Then each variable gets one lemma that says what a step of the whole
system may do to it and who does it (`WorkEffect`, `ResEffect`, `FlowEffect`,
`NameEffect`, `LockEffect`, `CourseEffect`, `EngineEffect`, `ProcEffect`); the invariants
follow from those lemmas, without a look at the actions.

That a budget is kept is not inductive: an admission is entered before its victims are
gone, several decisions may be on their way, and each was planned against what the ledger
held then. `Fit(K)` says of a set of instances that every non-empty part of it has a
member, the last one admitted, beside which the rest of that part fits once its victims
have left; `Seen(K)` that what the holder of the lock read still covers the set while it
waits for a drain. `FitKeeps` shows that both survive every step, provided that only an
admission adds to the set and that a decision forgets only victims that are no longer in
it. A set whose decisions have no victims left then fits as a whole. It is used twice:

* `RoutedSafety` and `AdmittedSafety`, with restarts and any TTL: the set is `Claimants`, the instances that may still
  become ready. A restart or a failed attempt ends the claim of a decision under way,
  which takes a new admission to claim again, and an unload that succeeded leaves its instance unroutable for good (`GoneInv`, which
  needs `UpInv`: only what was loaded, or is being loaded right now, is ever evicted).
* `LedgerSafety` and `EnginesSafety`, up to the first restart and without a newcomer's TTL:
  the set is `LiveSet`,
  everything that has not ended and is counted. `CourseInv` says why nothing else comes
  to be counted: a reservation is pending until its load is applied and counted as long
  as its engine row is up (`CountAt`), an engine runs only for a load and with its row
  (`EngineAt`), and an unload that was carried out has freed its memory (`FreedInv`).
  Running engines are then live by `EngineAt` and `CountAt`, and past their victims by
  `LoadAt`.

### Runs

`RunInv` has five parts. `TypeInv` types the queues as sequences without repetitions that
hold exactly the open commands, with the executor's command at the head; this is
needed before anything can be said of a command that succeeded. `CreateInv`: the newest create in
flight carries the newest credential, and once a create has succeeded none is left,
so no older credential comes later. `TokenInv` and `ExitInv`: a credential is
revoked only with the end of a run, and an exit WAIT has reported stands. `FlowInv`: how
far a workflow and its row have come is backed by commands that succeeded. Steps are
classified as core's, the executor's and the Studios' (`CoreStep`, `ExecStep`,
`StudioStep`), and each part has one frame lemma per class. `CapSafety` adds `CapInv`:
only the head of the queue is probed for, on a Studio that has a slot left among the
punctual runs, and whatever goes ahead of it later is `late`. No condition is needed:
overlapping transactions only make runs late.

### Images

`ImageInv` adds to the properties: `RowInv` (an execution lease exists exactly while a job
is placed and open, a Studio has one, images belong to jobs that may show them),
`JournalInv` (what is on the Studio agrees with its journal), `KnownInv` (what core's
workflows believe of the journal is true and stays true: a cleaned job stays clean),
`MemoryInv` (whoever may still start a worker has a serving instance; an unload that is
confirmed has no process). The classified moves of a job's row and of its journal carry
most of the proof. `Refinement` shows that the initial states map to initial states and,
under `ImageInv`, every step to a step of `ImageService` or a stutter.

### Training

`TrainingInv`: only the newest attempt is active (`AttemptInv`); calls concern
participants (`CallsInv`); a participant proved stopped is dead for good, that is it has no
trainer and its journal will never spawn one (`TrainerInv`), which is what makes late
prepare and start calls harmless; how far the newest checkpoint is between trainer,
mailbox, mirror and acknowledgement (`StagingInv`, `FutureInv`); what the job resumes from
is the newest committed checkpoint (`LatestInv`); what was acknowledged is committed
(`KeptInv`). Steps are classified by what they touch: `CoreMove`, `RowMove`,
`TrainerMove`, `DataMove`.

### Only model-checked

* Liveness (`DrainEnds`, `FrontendStops`, `DecisionEnds`, `RunEnds`, `OrphansGo`,
  `KnownJobEnds`, `StopEnds`): out of the prover's reach.

Every invariant and action property that a passing run checks, and the refinement, is
stated by a theorem: `AtMostOneQuorumHost` and `LiveEnginesFit` under the conditions named
above, the others without.

## 5. Not modelled

Signatures, canonical JSON and the membership epoch (a message that does not
verify is a lost one); clock skew; failing lease-file writes; snapshot and journal.
Of placement: the choice between nodes (`single:auto`), sharded instances, changes of
a node's budget, image and training holds, upgrade maintenance and smoke scopes,
adoption of engines after a restart of the agent. Of runs, images and training: what the
sections above list as left out. Chat, evaluation, acquisition, files,
upgrades, gateway and operations are durable workflows of the same kinds over other
tables, and together far larger than what is modelled; agent harness, MCP server, web
console and deployment have no shared state of their own. `PROJECT.json` lists each part
with its status.

## 6. Plan

1. Placement, model: a second node with automatic choice; an abstract ledger (`admit`,
   `release`) that the transactions refine.
2. `ShardedStart`: two-node start with compensation; `ChatTurn`: stop against
   completion and lease recovery; the memory training and placement share.
3. `FailoverJournal`: snapshot freshness, bounded journal, reconciliation.
4. `UpgradeJournal`: crash between journal and effect; rollback.
5. Election: per-member clock offsets, failing lease writes, progress after a
   restart.
6. An abstract specification of a single office (vacant or held by one host) and
   the refinement of it by `FailoverElection` on quorum service.
