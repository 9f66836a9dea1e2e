----------------------------- MODULE AgentRuns -----------------------------
(***************************************************************************)
(* Agent runs: containers on the Studios, driven from core.                *)
(*                                                                         *)
(*   run_workflow places a run, executes it step by step and finalises it; *)
(*     run_kill_workflow ends one on request.  DBOS resumes both after a   *)
(*     restart at the step that had not returned                           *)
(*     (coire_scheduler/runs.py);                                          *)
(*   the command executor carries the commands the workflows write to the  *)
(*     Studio, the oldest one first and one at a time, kills in a lane of  *)
(*     their own (coire_api/run_executor.py);                              *)
(*   the run manager of the Studio serves the calls (coire_node/runs.py);  *)
(*   the reconciler has it remove containers that no active run owns       *)
(*     (coire_api/run_reconciler.py);                                      *)
(*   admins, owners and the ops agent ask for kills.                       *)
(*                                                                         *)
(* An action is one database transaction or one effect on a Studio.  A     *)
(* call in flight outlives the caller that gave up on it.                  *)
(***************************************************************************)
EXTENDS Integers, Sequences, FiniteSets, SequencesExt

CONSTANTS Runs,          \* the runs users may request
          Studios,       \* the nodes that can host one
          Cap,           \* run_concurrency_cap
          Killable,      \* runs somebody may kill
          SlowReap,      \* a reap request may be overtaken on its way
          Attempts,      \* attempts of the execution step
          FinalAttempts, \* attempts of the finalisation step
          MaxCrashes,    \* bound on restarts of the scheduler
          MaxFaults,     \* bound on calls whose answer is lost
          MaxStalls      \* bound on kill calls that exceed their time limit

ASSUME AgentRunsAssumption ==
    /\ IsFiniteSet(Runs) /\ IsFiniteSet(Studios) /\ Killable \subseteq Runs
    /\ Cap \in Nat \ {0} /\ {Attempts, FinalAttempts} \subseteq Nat \ {0}
    /\ SlowReap \in BOOLEAN
    /\ {MaxCrashes, MaxFaults, MaxStalls} \subseteq Nat

None == "none"

ASSUME StudioAssumption == None \notin Studios /\ None \notin Runs

VARIABLES
    order,   \* runs in the order of requested_at
    state,   \* AgentRunRow.state, None until the row is committed
    node,    \* AgentRunRow.node_id
    known,   \* AgentRunRow.container_id is set
    token,   \* RunTokenRow: None, active or revoked
    gen,     \* how often the credential has been minted or rotated
    cmd,     \* RunCommandRow.state, per operation
    queue,   \* open commands other than kills, oldest first
    wf,      \* stage of run_workflow
    step,    \* command the stage is about to submit, or waits for
    asked,   \* its row is written and the stage polls it
    early,   \* current_state of execute_run is before RUNNING
    tries,   \* failed attempts of the current DBOS step
    detail,  \* what finalize_run is told, None for success
    cand,    \* node that choose_studio has found
    kw,      \* stage of run_kill_workflow
    lane,    \* what the executor does with the oldest command
    killing, \* runs whose kill call the kill lane waits for
    sent,    \* calls in flight to the Studio other than creates
    creates, \* credentials of the create calls in flight, in order
    box,     \* the run's containers on its Studio
    held,    \* credential the container holds
    starts,  \* how often the container has been started
    exit,    \* what WAIT reported
    reap,    \* reap request in flight, with the runs it spares
    late,    \* runs whose row appeared after that of a younger request
    crashes, faults, stalls

row == <<order, state, node, known, token, gen>>
commands == <<cmd, queue>>
flow == <<wf, step, asked, early, tries, detail, cand>>
lanes == <<lane, killing>>
wire == <<sent, creates>>
studio == <<box, held, starts, exit>>
bounds == <<late, crashes, faults, stalls>>
vars == <<row, commands, flow, kw, lanes, wire, studio, reap, bounds>>

Ops == {"create", "start", "wait", "logs", "collect", "remove", "kill"}
Failures == {"failed", "timed_out", "result_collection_failed"}
Terminal == Failures \cup {"succeeded", "killed"}
States == Terminal \cup {None, "queued", "placing", "creating", "running",
                         "collecting", "kill_requested"}
Exited == {"ok", "bad"}
NoWork == [run |-> None, op |-> None, at |-> "idle"]
NoScan == [on |-> FALSE, keep |-> {}]
Scan(S) == [on |-> TRUE, keep |-> S]

(* Every variable keeps its type. *)
TypeOK ==
    /\ ToSet(order) \subseteq Runs /\ Len(order) = Cardinality(ToSet(order))
    /\ state \in [Runs -> States]
    /\ node \in [Runs -> Studios \cup {None}]
    /\ known \in [Runs -> BOOLEAN]
    /\ token \in [Runs -> {None, "active", "revoked"}]
    /\ gen \in [Runs -> Nat]
    /\ cmd \in [Runs -> [Ops -> {None, "open", "succeeded", "failed"}]]
    /\ ToSet(queue) =
           {c \in Runs \X (Ops \ {"kill"}) : cmd[c[1]][c[2]] = "open"}
    /\ Len(queue) = Cardinality(ToSet(queue))
    /\ wf \in [Runs -> {None, "place", "probe", "gate", "run", "final", "done",
                        "error"}]
    /\ step \in [Runs -> Ops \cup {None}]
    /\ asked \in [Runs -> BOOLEAN] /\ early \in [Runs -> BOOLEAN]
    /\ tries \in [Runs -> Nat]
    /\ detail \in [Runs -> {None, "run_timeout", "run_result", "run_failed"}]
    /\ cand \in [Runs -> Studios \cup {None}]
    /\ kw \in [Runs -> {None, "start", "await", "mark", "done", "error"}]
    /\ lane = NoWork
       \/ lane \in [run : Runs, op : Ops \ {"kill"},
                    at : {"checked", "sent"}]
    /\ killing \subseteq Runs
    /\ sent \subseteq Runs \X (Ops \ {"create"})
    /\ creates \in [Runs -> Seq(Nat)]
    /\ box \in [Runs -> {"absent", "relay", "created", "running"} \cup Exited]
    /\ held \in [Runs -> Nat] /\ starts \in [Runs -> Nat]
    /\ exit \in [Runs -> {None, "timed_out"} \cup Exited]
    /\ reap \in [Studios -> [on : BOOLEAN, keep : SUBSET Runs]]
    /\ late \subseteq Runs
    /\ crashes \in 0..MaxCrashes /\ faults \in 0..MaxFaults
    /\ stalls \in 0..MaxStalls

Init ==
    LET all(v) == [r \in Runs |-> v]
    IN  /\ order = <<>> /\ state = all(None) /\ node = all(None)
        /\ known = all(FALSE) /\ token = all(None) /\ gen = all(0)
        /\ cmd = all([o \in Ops |-> None]) /\ queue = <<>>
        /\ wf = all(None) /\ step = all(None) /\ asked = all(FALSE)
        /\ early = all(FALSE) /\ tries = all(0) /\ detail = all(None)
        /\ cand = all(None) /\ kw = all(None)
        /\ lane = NoWork /\ killing = {} /\ sent = {}
        /\ creates = all(<<>>)
        /\ box = all("absent") /\ held = all(0) /\ starts = all(0)
        /\ exit = all(None) /\ reap = [n \in Studios |-> NoScan]
        /\ late = {} /\ crashes = 0 /\ faults = 0 /\ stalls = 0

-----------------------------------------------------------------------------
(* Requests and kill requests *)

(* Mutant: the runs that have ended count as well. *)
ActiveForever(n) == {r \in Runs : node[r] = n}

Active(n) == {r \in Runs : node[r] = n /\ state[r] \notin Terminal}

(* A request's transaction begins: requested_at is the time it began, and  *)
(* transactions of several requests may overlap.                           *)
OpenRequest(r) ==
    /\ r \notin ToSet(order)
    /\ order' = Append(order, r)
    /\ UNCHANGED <<state, node, known, token, gen, commands, flow, kw, lanes,
                   wire, studio, reap, bounds>>

(* A younger request has been committed before r. *)
Overtaken(r) ==
    \E i, j \in DOMAIN order : i < j /\ order[i] = r /\ state[order[j]] # None

(* create_run commits.  late records the order of the commits; the code    *)
(* has no such column, and no action reads it.                             *)
CommitRequest(r) ==
    /\ r \in ToSet(order) /\ state[r] = None
    /\ state' = [state EXCEPT ![r] = "queued"]
    /\ late' = IF Overtaken(r) THEN late \cup {r} ELSE late
    /\ UNCHANGED <<order, node, known, token, gen, commands, flow, kw, lanes,
                   wire, studio, reap, crashes, faults, stalls>>

(* transition, which refuses to leave a terminal state, and a pending kill *)
(* for anything but KILLED.                                                *)
MayMove(r, to) ==
    /\ state[r] \notin Terminal
    /\ state[r] = "kill_requested" => to = "killed"

Revoke(r) == token' = [token EXCEPT ![r] = IF @ = None THEN None ELSE "revoked"]

(* A command row is written unless it exists. *)
Write(r, o) ==
    /\ cmd' = [cmd EXCEPT ![r][o] = IF @ = None THEN "open" ELSE @]
    /\ queue' = IF cmd[r][o] = None /\ o # "kill" THEN Append(queue, <<r, o>>)
                ELSE queue

(* An admin or the confirmed ops agent kills the run. *)
KillRequest(r) ==
    /\ r \in Killable /\ state[r] \notin {None, "kill_requested"}
    /\ MayMove(r, "kill_requested")
    /\ Revoke(r)
    /\ state' = [state EXCEPT ![r] = "kill_requested"]
    /\ IF node[r] # None THEN Write(r, "kill") ELSE UNCHANGED commands
    /\ UNCHANGED <<order, node, known, gen, flow, kw, lanes, wire, studio,
                   reap, bounds>>

(* The owner stops the run: without a node it is killed at once. *)
StopByOwner(r) ==
    /\ r \in Killable /\ state[r] \notin Terminal \cup {None}
    /\ Revoke(r)
    /\ state' = [state EXCEPT ![r] = IF node[r] = None THEN "killed"
                                     ELSE "kill_requested"]
    /\ IF node[r] # None THEN Write(r, "kill") ELSE UNCHANGED commands
    /\ UNCHANGED <<order, node, known, gen, flow, kw, lanes, wire, studio,
                   reap, bounds>>

-----------------------------------------------------------------------------
(* Placement *)

(* The dispatcher starts a workflow for every active run; DBOS starts one  *)
(* id once.                                                                *)
Dispatch(r) ==
    /\ wf[r] = None
    /\ state[r] \notin Terminal \cup {None, "kill_requested"}
    /\ wf' = [wf EXCEPT ![r] = "place"]
    /\ UNCHANGED <<step, asked, early, tries, detail, cand>>
    /\ UNCHANGED <<row, commands, kw, lanes, wire, studio, reap, bounds>>

(* _advance: a step forward that a pending kill or a terminal state skips *)
Advance(r, to) ==
    state' = [state EXCEPT ![r] = IF @ \in Terminal \cup {"kill_requested"}
                                  THEN @ ELSE to]

(* Mutant: only queued runs, not those whose placement has begun *)
UnplacedQueued == {r \in Runs : node[r] = None /\ state[r] = "queued"}

Unplaced == {r \in Runs : node[r] = None /\ state[r] \in {"queued", "placing"}}

(* The earliest request among the unplaced runs whose rows are visible *)
FifoHead(r) ==
    /\ r \in Unplaced
    /\ \A i, j \in DOMAIN order :
          order[i] = r /\ order[j] \in Unplaced => i <= j

(* Mutant: a Studio at its cap still takes one *)
HasSlotOrFull(n, r) == Cardinality(Active(n) \ {r}) <= Cap

HasSlot(n, r) == Cardinality(Active(n) \ {r}) < Cap

(* place_run, one round: choose_studio finds a node with a free slot for   *)
(* the head of the queue, and the node's health is probed next.            *)
Choose(r) ==
    /\ wf[r] = "place" /\ state[r] \in {"queued", "placing"}
    /\ Advance(r, "placing")
    /\ \/ /\ FifoHead(r)
          /\ \E n \in Studios :
                /\ HasSlot(n, r)
                /\ cand' = [cand EXCEPT ![r] = n]
          /\ wf' = [wf EXCEPT ![r] = "probe"]
       \/ /\ ~FifoHead(r) \/ \A n \in Studios : ~HasSlot(n, r)
          /\ state[r] = "queued"
          /\ UNCHANGED <<cand, wf>>
    /\ UNCHANGED <<step, asked, early, tries, detail, order, node, known, token,
                   gen, commands, kw, lanes, wire, studio, reap, bounds>>

(* place_run returns without a placement once the run is being killed. *)
PlaceStopped(r) ==
    /\ wf[r] = "place" /\ state[r] \in {"kill_requested", "killed"}
    /\ wf' = [wf EXCEPT ![r] = "gate"]
    /\ UNCHANGED <<step, asked, early, tries, detail, cand>>
    /\ UNCHANGED <<row, commands, kw, lanes, wire, studio, reap, bounds>>

(* The probe of the chosen node fails, and the round ends without one. *)
ProbeFails(r) ==
    /\ wf[r] = "probe" /\ faults < MaxFaults /\ faults' = faults + 1
    /\ wf' = [wf EXCEPT ![r] = "place"]
    /\ cand' = [cand EXCEPT ![r] = None]
    /\ UNCHANGED <<step, asked, early, tries, detail, late, crashes, stalls>>
    /\ UNCHANGED <<row, commands, kw, lanes, wire, studio, reap>>

(* commit_run_placement: the probed node is taken unless the run is being  *)
(* killed.  The slots are not counted again.                               *)
CommitPlacement(r) ==
    /\ wf[r] = "probe"
    /\ node' = [node EXCEPT ![r] =
                    IF state[r] \in Terminal \cup {"kill_requested"} THEN @
                    ELSE cand[r]]
    /\ wf' = [wf EXCEPT ![r] = "gate"]
    /\ cand' = [cand EXCEPT ![r] = None]
    /\ UNCHANGED <<order, state, known, token, gen, step, asked, early, tries,
                   detail>>
    /\ UNCHANGED <<commands, kw, lanes, wire, studio, reap, bounds>>

(* run_workflow looks at the state before it executes. *)
Gate(r) ==
    /\ wf[r] = "gate"
    /\ wf' = [wf EXCEPT ![r] = IF state[r] \in {"kill_requested", "killed"}
                               THEN "done" ELSE "run"]
    /\ UNCHANGED <<step, asked, early, tries, detail, cand>>
    /\ UNCHANGED <<row, commands, kw, lanes, wire, studio, reap, bounds>>

-----------------------------------------------------------------------------
(* Execution: execute_run and finalize_run, the steps of run_workflow *)

(* The stage goes on with the next command. *)
Continue(r, o) ==
    /\ step' = [step EXCEPT ![r] = o]
    /\ asked' = [asked EXCEPT ![r] = FALSE]

(* The stage ends, and finalize_run begins with what it found. *)
Conclude(r, why) ==
    /\ wf' = [wf EXCEPT ![r] = "final"]
    /\ detail' = [detail EXCEPT ![r] = why]
    /\ tries' = [tries EXCEPT ![r] = 0]
    /\ Continue(r, None)

(* The step raises: DBOS runs it again from the top, until its attempts    *)
(* are used up and the workflow catches the exception.                     *)
Raise(r, why) ==
    IF tries[r] + 1 < Attempts
    THEN /\ tries' = [tries EXCEPT ![r] = @ + 1]
         /\ Continue(r, None)
         /\ UNCHANGED <<wf, detail>>
    ELSE Conclude(r, why)

(* execute_run begins: a run without a container creates it first. *)
BeginExecution(r) ==
    /\ wf[r] = "run" /\ step[r] = None
    /\ IF known[r]
       THEN /\ Continue(r, "start") /\ UNCHANGED state
            /\ early' = [early EXCEPT ![r] =
                             state[r] \in {"queued", "placing", "creating"}]
       ELSE /\ Advance(r, "creating") /\ Continue(r, "create")
            /\ early' = [early EXCEPT ![r] = TRUE]
    /\ UNCHANGED <<order, node, known, token, gen, wf, tries, detail, cand>>
    /\ UNCHANGED <<commands, kw, lanes, wire, studio, reap, bounds>>

(* _submit writes the command unless a kill is pending, in which case only *)
(* a removal may still be asked for.                                       *)
Submit(r) ==
    /\ wf[r] \in {"run", "final"} /\ step[r] # None /\ ~asked[r]
    /\ IF state[r] = "kill_requested" /\ step[r] # "remove"
       THEN Raise(r, "run_failed") /\ UNCHANGED commands
       ELSE /\ Write(r, step[r])
            /\ asked' = [asked EXCEPT ![r] = TRUE]
            /\ UNCHANGED <<wf, step, tries, detail>>
    /\ UNCHANGED <<early, cand, row, kw, lanes, wire, studio, reap,
                   bounds>>

(* The command has succeeded: what execute_run does until the next one. *)
Proceed(r) ==
    /\ wf[r] = "run" /\ asked[r] /\ cmd[r][step[r]] = "succeeded"
    /\ CASE step[r] = "create" ->
              /\ known' = [known EXCEPT ![r] = TRUE]
              /\ Continue(r, "start")
              /\ UNCHANGED <<state, wf, tries, detail>>
         [] step[r] = "start" ->
              /\ IF early[r] THEN Advance(r, "running") ELSE UNCHANGED state
              /\ Continue(r, "wait")
              /\ UNCHANGED <<known, wf, tries, detail>>
         [] step[r] = "wait" ->
              /\ Continue(r, "logs")
              /\ UNCHANGED <<state, known, wf, tries, detail>>
         [] step[r] = "logs" /\ exit[r] = "ok" ->
              /\ Advance(r, "collecting") /\ Continue(r, "collect")
              /\ UNCHANGED <<known, wf, tries, detail>>
         [] step[r] = "logs" /\ exit[r] # "ok" ->
              /\ Conclude(r, IF exit[r] = "timed_out" THEN "run_timeout"
                             ELSE "run_failed")
              /\ UNCHANGED <<state, known>>
         [] step[r] = "collect" ->
              Conclude(r, None) /\ UNCHANGED <<state, known>>
    /\ UNCHANGED <<order, node, token, gen, early, cand>>
    /\ UNCHANGED <<commands, kw, lanes, wire, studio, reap, bounds>>

(* The command has failed, or the result of an MCP apply does not match    *)
(* the artifact on its Studio, and so does the attempt.                    *)
Fail(r) ==
    /\ wf[r] = "run" /\ asked[r]
    /\ \/ /\ cmd[r][step[r]] = "failed"
          /\ Raise(r, IF step[r] = "collect" THEN "run_result" ELSE "run_failed")
       \/ /\ step[r] = "collect" /\ cmd[r]["collect"] = "succeeded"
          /\ Raise(r, "run_failed")
    /\ UNCHANGED <<early, cand, row, commands, kw, lanes, wire, studio,
                   reap, bounds>>

(* Mutant: a missing result counts as success. *)
OutcomeLenient(why) ==
    CASE why \in {None, "run_result"} -> "succeeded"
      [] why = "run_timeout" -> "timed_out"
      [] OTHER -> "failed"

(* The terminal state finalize_run derives from the detail *)
Outcome(why) ==
    CASE why = None -> "succeeded"
      [] why = "run_timeout" -> "timed_out"
      [] why = "run_result" -> "result_collection_failed"
      [] OTHER -> "failed"

(* finalize_run cannot reach the Studio for the last activity records: the *)
(* step is tried again, and after its last attempt the workflow fails.     *)
DrainFails(r) ==
    /\ wf[r] = "final" /\ step[r] = None
    /\ faults < MaxFaults /\ faults' = faults + 1
    /\ tries' = [tries EXCEPT ![r] = @ + 1]
    /\ wf' = [wf EXCEPT ![r] = IF tries[r] + 1 < FinalAttempts THEN @
                               ELSE "error"]
    /\ UNCHANGED <<step, asked, early, detail, cand, late, crashes, stalls>>
    /\ UNCHANGED <<row, commands, kw, lanes, wire, studio, reap>>

(* finalize_run settles the run, unless it has ended or a kill is pending, *)
(* and asks for the removal of the container.                              *)
Finalize(r) ==
    /\ wf[r] = "final" /\ step[r] = None
    /\ IF state[r] \in Terminal \cup {"kill_requested"}
       THEN UNCHANGED <<state, token>>
       ELSE /\ Revoke(r)
            /\ state' = [state EXCEPT ![r] = Outcome(detail[r])]
    /\ Continue(r, "remove")
    /\ UNCHANGED <<order, node, known, gen, wf, early, tries, detail, cand>>
    /\ UNCHANGED <<commands, kw, lanes, wire, studio, reap, bounds>>

(* The removal is done, or has failed, which is only logged. *)
Done(r) ==
    /\ wf[r] = "final" /\ asked[r]
    /\ cmd[r]["remove"] \in {"succeeded", "failed"}
    /\ wf' = [wf EXCEPT ![r] = "done"]
    /\ Continue(r, None)
    /\ UNCHANGED <<early, tries, detail, cand>>
    /\ UNCHANGED <<row, commands, kw, lanes, wire, studio, reap, bounds>>

-----------------------------------------------------------------------------
(* The kill workflow *)

(* dispatch_kills starts it once per run. *)
DispatchKill(r) ==
    /\ state[r] = "kill_requested" /\ kw[r] = None
    /\ kw' = [kw EXCEPT ![r] = "start"]
    /\ UNCHANGED <<row, commands, flow, lanes, wire, studio, reap, bounds>>

(* A run without a node has nothing to kill. *)
BeginKill(r) ==
    /\ kw[r] = "start"
    /\ \/ /\ state[r] # "kill_requested"
          /\ kw' = [kw EXCEPT ![r] = "done"] /\ UNCHANGED commands
       \/ /\ state[r] = "kill_requested" /\ node[r] = None
          /\ kw' = [kw EXCEPT ![r] = "mark"] /\ UNCHANGED commands
       \/ /\ state[r] = "kill_requested" /\ node[r] # None
          /\ kw' = [kw EXCEPT ![r] = "await"] /\ Write(r, "kill")
    /\ UNCHANGED <<row, flow, lanes, wire, studio, reap, bounds>>

(* A kill command that failed fails the workflow; nothing starts it again. *)
AwaitKill(r) ==
    /\ kw[r] = "await"
    /\ \/ cmd[r]["kill"] = "succeeded" /\ kw' = [kw EXCEPT ![r] = "mark"]
       \/ cmd[r]["kill"] = "failed" /\ kw' = [kw EXCEPT ![r] = "error"]
    /\ UNCHANGED <<row, commands, flow, lanes, wire, studio, reap, bounds>>

MarkKilled(r) ==
    /\ kw[r] = "mark"
    /\ kw' = [kw EXCEPT ![r] = "done"]
    /\ state' = [state EXCEPT ![r] = IF @ = "kill_requested" THEN "killed"
                                     ELSE @]
    /\ UNCHANGED <<order, node, known, token, gen>>
    /\ UNCHANGED <<commands, flow, lanes, wire, studio, reap, bounds>>

-----------------------------------------------------------------------------
(* The command executor *)

(* Mutant: the command is reported and stays in the queue. *)
CloseKeeps(r, o, result) ==
    /\ cmd' = [cmd EXCEPT ![r][o] = result]
    /\ UNCHANGED queue

(* A command ends.  Kills have their lane; any other one that ends is the  *)
(* oldest, which the executor has taken.                                   *)
Close(r, o, result) ==
    /\ cmd' = [cmd EXCEPT ![r][o] = result]
    /\ queue' = IF o = "kill" THEN queue ELSE Tail(queue)

(* The executor takes the oldest open command.  It fails when a kill is    *)
(* pending, and a start also when its requester has lost the right to run. *)
Pick ==
    /\ lane = NoWork /\ queue # <<>>
    /\ LET r == Head(queue)[1]
           o == Head(queue)[2]
           stop == state[r] = "kill_requested" /\ o # "remove"
       IN  \/ /\ stop \/ o = "start"
              /\ Close(r, o, "failed") /\ UNCHANGED <<lane, sent>>
           \/ /\ ~stop
              /\ lane' = [run |-> r, op |-> o,
                          at |-> IF o = "create" THEN "checked" ELSE "sent"]
              /\ sent' = IF o = "create" THEN sent ELSE sent \cup {<<r, o>>}
              /\ UNCHANGED commands
    /\ UNCHANGED <<row, flow, kw, killing, creates, studio, reap, bounds>>

(* A create mints or rotates the run's credential under the row's lock and *)
(* sends it; a pending kill or a lost right fails the command.             *)
Mint ==
    /\ lane.at = "checked"
    /\ LET r == lane.run
       IN  \/ /\ Close(r, "create", "failed") /\ lane' = NoWork
              /\ UNCHANGED <<token, gen, creates>>
           \/ /\ state[r] # "kill_requested"
              /\ token' = [token EXCEPT ![r] = "active"]
              /\ gen' = [gen EXCEPT ![r] = @ + 1]
              /\ creates' = [creates EXCEPT ![r] = Append(@, gen[r] + 1)]
              /\ lane' = [lane EXCEPT !.at = "sent"]
              /\ UNCHANGED commands
    /\ UNCHANGED <<order, state, node, known, flow, kw, killing, sent, studio,
                   reap, bounds>>

(* A call ends with an error that invites a retry: the command stays open. *)
(* The Studio may still serve the call.                                    *)
GiveUp ==
    /\ lane.at = "sent" /\ faults < MaxFaults /\ faults' = faults + 1
    /\ lane' = NoWork
    /\ \/ UNCHANGED wire
       \/ /\ lane.op = "create"
          /\ creates' = [creates EXCEPT ![lane.run] = Front(@)]
          /\ UNCHANGED sent
       \/ /\ lane.op # "create"
          /\ sent' = sent \ {<<lane.run, lane.op>>}
          /\ UNCHANGED creates
    /\ UNCHANGED <<row, commands, flow, kw, killing, studio, reap,
                   late, crashes, stalls>>

(* The kill lane calls the Studio, for at most Cap runs of a node at once. *)
SendKill(r) ==
    /\ cmd[r]["kill"] = "open" /\ r \notin killing
    /\ Cardinality({s \in killing : node[s] = node[r]}) < Cap
    /\ killing' = killing \cup {r}
    /\ sent' = sent \cup {<<r, "kill">>}
    /\ UNCHANGED <<row, commands, flow, kw, lane, creates, studio, reap,
                   bounds>>

(* The Studio refuses the connection: the kill command stays open. *)
KillUnanswered(r) ==
    /\ r \in killing /\ faults < MaxFaults /\ faults' = faults + 1
    /\ killing' = killing \ {r}
    /\ sent' \in {sent, sent \ {<<r, "kill">>}}
    /\ UNCHANGED <<row, commands, flow, kw, lane, creates, studio, reap,
                   late, crashes, stalls>>

(* The kill takes more than four seconds: the timeout is not a NodeError,  *)
(* so the command fails.                                                   *)
KillTimesOut(r) ==
    /\ r \in killing /\ stalls < MaxStalls /\ stalls' = stalls + 1
    /\ killing' = killing \ {r}
    /\ Close(r, "kill", "failed")
    /\ sent' \in {sent, sent \ {<<r, "kill">>}}
    /\ UNCHANGED <<row, flow, kw, lane, creates, studio, reap, late,
                   crashes, faults>>

-----------------------------------------------------------------------------
(* The run manager of a Studio.  When the executor still waits for the     *)
(* answer, it is recorded with it.                                         *)

Waiting(r, o) == lane = [run |-> r, op |-> o, at |-> "sent"]

Answer(r, o, result) ==
    IF Waiting(r, o) THEN Close(r, o, result) /\ lane' = NoWork
    ELSE UNCHANGED <<commands, lane>>

(* The call answers 503, which the executor takes for a reason to retry. *)
Unavailable(r, o) ==
    /\ lane' = IF Waiting(r, o) THEN NoWork ELSE lane
    /\ UNCHANGED commands

Serve(r, o) == <<r, o>> \in sent /\ sent' = sent \ {<<r, o>>}

(* Mutant: any container of the run is taken for the one asked for. *)
ReusableAny(r, g) == box[r] \notin {"absent", "relay"}

(* _token_matches: the container was created with this credential. *)
Reusable(r, g) == box[r] \notin {"absent", "relay"} /\ held[r] = g

(* create: an existing container with another credential is replaced if it *)
(* does not run.  A refusal can leave the relay behind.                    *)
ServeCreate(r) ==
    /\ creates[r] # <<>>
    /\ LET g == Head(creates[r])
           last == Len(creates[r]) = 1
           reply(result) == IF last THEN Answer(r, "create", result)
                            ELSE UNCHANGED <<commands, lane>>
       IN  \/ /\ box[r] = "running" \/ Reusable(r, g)
              /\ reply(IF Reusable(r, g) THEN "succeeded" ELSE "failed")
              /\ UNCHANGED <<box, held>>
           \/ /\ box[r] # "running" /\ ~Reusable(r, g)
              /\ box' = [box EXCEPT ![r] = "created"]
              /\ held' = [held EXCEPT ![r] = g]
              /\ reply("succeeded")
           \/ /\ box[r] # "running" /\ ~Reusable(r, g)
              /\ box' = [box EXCEPT ![r] = "relay"]
              /\ held' = [held EXCEPT ![r] = 0]
              /\ reply("failed")
    /\ creates' = [creates EXCEPT ![r] = Tail(@)]
    /\ UNCHANGED <<row, flow, kw, killing, sent, starts, exit, reap, bounds>>

(* start: Docker starts a container that is created or has exited, and     *)
(* answers 404 when there is none, which becomes a 503.                    *)
ServeStart(r) ==
    /\ Serve(r, "start")
    /\ \/ /\ box[r] \in {"absent", "relay"}
          /\ Unavailable(r, "start") /\ UNCHANGED <<box, starts>>
       \/ /\ box[r] \in {"created"} \cup Exited
          /\ box' = [box EXCEPT ![r] = "running"]
          /\ starts' = [starts EXCEPT ![r] = @ + 1]
          /\ Answer(r, "start", "succeeded")
       \/ /\ box[r] = "running"
          /\ Answer(r, "start", "succeeded") /\ UNCHANGED <<box, starts>>
    /\ UNCHANGED <<row, flow, kw, killing, creates, held, exit, reap, bounds>>

(* The harness ends by itself. *)
Exit(r) ==
    /\ box[r] = "running"
    /\ \E e \in Exited : box' = [box EXCEPT ![r] = e]
    /\ UNCHANGED <<row, commands, flow, kw, lanes, wire, held, starts, exit,
                   reap, bounds>>

(* wait: the container has exited, or its time is up and it is killed. *)
ServeWait(r) ==
    /\ Serve(r, "wait")
    /\ \/ /\ box[r] \in Exited
          /\ exit' = [exit EXCEPT ![r] = box[r]]
          /\ Answer(r, "wait", "succeeded") /\ UNCHANGED box
       \/ /\ box[r] = "running"
          /\ exit' = [exit EXCEPT ![r] = "timed_out"]
          /\ box' = [box EXCEPT ![r] = "bad"]
          /\ Answer(r, "wait", "succeeded")
       \/ /\ box[r] \in {"absent", "relay"}
          /\ Answer(r, "wait", "failed") /\ UNCHANGED <<box, exit>>
    /\ UNCHANGED <<row, flow, kw, killing, creates, held, starts, reap,
                   bounds>>

(* logs and collect read from the container; a result may be missing. *)
ServeRead(r, o) ==
    /\ Serve(r, o) /\ o \in {"logs", "collect"}
    /\ \/ /\ box[r] \notin {"absent", "relay"} /\ Answer(r, o, "succeeded")
       \/ /\ box[r] \in {"absent", "relay"} \/ o = "collect"
          /\ Answer(r, o, "failed")
    /\ UNCHANGED <<row, flow, kw, killing, creates, studio, reap, bounds>>

(* remove, with or without a kill: containers, relay and network go. *)
ServeRemove(r) ==
    /\ Serve(r, "remove")
    /\ box' = [box EXCEPT ![r] = "absent"]
    /\ Answer(r, "remove", "succeeded")
    /\ UNCHANGED <<row, flow, kw, killing, creates, held, starts, exit,
                   reap, bounds>>

ServeKill(r) ==
    /\ Serve(r, "kill")
    /\ box' = [box EXCEPT ![r] = "absent"]
    /\ IF r \in killing THEN Close(r, "kill", "succeeded") ELSE UNCHANGED commands
    /\ killing' = killing \ {r}
    /\ UNCHANGED <<row, flow, kw, lane, creates, held, starts, exit, reap,
                   bounds>>

-----------------------------------------------------------------------------
(* Reconciliation *)

Managed(n) == {r \in Runs : node[r] = n /\ box[r] # "absent"}

Sweep(n, keep) ==
    box' = [r \in Runs |-> IF r \in Managed(n) \ keep THEN "absent" ELSE box[r]]

(* reconcile_once: the Studio reports a container of a run that was not    *)
(* active when the reconciler read the rows.  It reads them again and has  *)
(* the containers of all other runs removed.  The first reading only       *)
(* decides whether there is a second, and an outdated one can do that too. *)
Observe(n) ==
    /\ ~reap[n].on
    /\ \/ ~SlowReap /\ ~(Managed(n) \subseteq Active(n))
          /\ Sweep(n, Active(n)) /\ UNCHANGED reap
       \/ SlowReap /\ Managed(n) # {}
          /\ reap' = [reap EXCEPT ![n] = Scan(Active(n))] /\ UNCHANGED box
    /\ UNCHANGED <<row, commands, flow, kw, lanes, wire, held, starts, exit,
                   bounds>>

ServeReap(n) ==
    /\ reap[n].on
    /\ Sweep(n, reap[n].keep)
    /\ reap' = [reap EXCEPT ![n] = NoScan]
    /\ UNCHANGED <<row, commands, flow, kw, lanes, wire, held, starts, exit,
                   bounds>>

-----------------------------------------------------------------------------
(* The scheduler restarts: executor and reconciler forget what they were   *)
(* doing, workflows resume at the beginning of their current step.  For a  *)
(* run at the gate that is place_run again if its return was not recorded; *)
(* a run that has its node is no head of the queue and waits there.        *)
Crash ==
    /\ crashes < MaxCrashes /\ crashes' = crashes + 1
    /\ lane' = NoWork /\ killing' = {}
    /\ \E lost \in SUBSET {r \in Runs : wf[r] = "gate"} :
          wf' = [r \in Runs |-> IF wf[r] = "probe" \/ r \in lost THEN "place"
                                ELSE wf[r]]
    /\ cand' = [r \in Runs |-> None]
    /\ step' = [r \in Runs |-> None] /\ asked' = [r \in Runs |-> FALSE]
    /\ tries' = [r \in Runs |-> 0]
    /\ kw' = [r \in Runs |-> IF kw[r] \in {"await", "mark"} THEN "start"
                             ELSE kw[r]]
    /\ UNCHANGED <<row, commands, early, detail, wire, studio, reap, late,
                   faults, stalls>>

-----------------------------------------------------------------------------
User(r) == OpenRequest(r) \/ CommitRequest(r) \/ KillRequest(r) \/ StopByOwner(r)

Workflow(r) ==
    \/ Dispatch(r) \/ Choose(r) \/ PlaceStopped(r) \/ CommitPlacement(r) \/ Gate(r)
    \/ BeginExecution(r) \/ Submit(r) \/ Proceed(r) \/ Fail(r)
    \/ Finalize(r) \/ Done(r)

KillWorkflow(r) ==
    DispatchKill(r) \/ BeginKill(r) \/ AwaitKill(r) \/ MarkKilled(r)

Executor == Pick \/ Mint

Studio(r) ==
    \/ ServeCreate(r) \/ ServeStart(r) \/ ServeWait(r)
    \/ \E o \in {"logs", "collect"} : ServeRead(r, o)
    \/ ServeRemove(r) \/ ServeKill(r)

Reconcile(n) == Observe(n) \/ ServeReap(n)

Fault(r) ==
    ProbeFails(r) \/ DrainFails(r) \/ KillUnanswered(r) \/ KillTimesOut(r)

Next ==
    \/ \E r \in Runs :
          \/ User(r) \/ Workflow(r) \/ KillWorkflow(r) \/ SendKill(r)
          \/ Studio(r) \/ Exit(r) \/ Fault(r)
    \/ Executor \/ GiveUp \/ Crash
    \/ \E n \in Studios : Reconcile(n)

(* Workflows, the two lanes, the Studios and the reconciler go on;   *)
(* nobody need request or kill a run, and a harness need not end.          *)
Fairness ==
    /\ \A r \in Runs :
          /\ WF_vars(CommitRequest(r)) /\ WF_vars(Workflow(r))
          /\ WF_vars(KillWorkflow(r)) /\ WF_vars(SendKill(r))
          /\ WF_vars(ServeCreate(r)) /\ WF_vars(ServeStart(r))
          /\ WF_vars(ServeWait(r)) /\ WF_vars(ServeRemove(r))
          /\ WF_vars(ServeKill(r))
          /\ \A o \in {"logs", "collect"} : WF_vars(ServeRead(r, o))
    /\ WF_vars(Executor)
    /\ \A n \in Studios : WF_vars(Reconcile(n))

Spec == Init /\ [][Next]_vars /\ Fairness

-----------------------------------------------------------------------------
(* Properties *)

(* specs/011 FR-006: no Studio hosts more unfinished runs than             *)
(* run_concurrency_cap (choose_studio, commit_run_placement).              *)
CapHeld == \A n \in Studios : Cardinality(Active(n)) <= Cap

(* The runs whose rows appeared in the order of requested_at keep the cap  *)
(* among themselves: the count that choose_studio takes before the probe   *)
(* still holds for them when commit_run_placement writes the node without  *)
(* counting again, because only the head of the queue may place.           *)
PunctualRunsFit == \A n \in Studios : Cardinality(Active(n) \ late) <= Cap

(* A container that works for a run known to be running holds the          *)
(* credential that was minted last, and it has not been revoked: creates   *)
(* that were retried or answered late never leave an older one in use.     *)
CredentialFits ==
    \A r \in Runs :
        state[r] \in {"running", "collecting"} /\ box[r] = "running" =>
            held[r] = gen[r] /\ token[r] = "active"

(* A run that is reported as succeeded has run, its container ended well,  *)
(* its result was collected and its credential is revoked.                 *)
SuccessIsEarned ==
    \A r \in Runs :
        state[r] = "succeeded" =>
            /\ starts[r] > 0 /\ exit[r] = "ok"
            /\ cmd[r]["collect"] = "succeeded" /\ token[r] = "revoked"

(* Docker no longer knows the container that an open START is for: the     *)
(* command is retried for ever.                                            *)
Jammed ==
    \E r \in Runs : cmd[r]["start"] = "open" /\ box[r] \in {"absent", "relay"}

(* An open run that nothing moves on, and that keeps its slot: one of its  *)
(* workflows has failed for good, or a restart came between the commit of  *)
(* the placement and the return of place_run, and the step that runs again *)
(* waits to be the head of a queue it has left (against FR-017 and SC-005  *)
(* of specs/011).                                                          *)
Stuck(r) ==
    /\ state[r] \notin Terminal
    /\ "error" \in {wf[r], kw[r]} \/ (wf[r] = "place" /\ node[r] # None)

(* Again and again no run is open: whatever is requested ends, also behind *)
(* others that are killed while they wait at the head of the queue, unless *)
(* a run is stuck for good or a start for a lost container holds up the    *)
(* executor.                                                               *)
RunEnds ==
    []<>(\/ \A r \in Runs : state[r] \in Terminal \cup {None}
         \/ Jammed \/ \E r \in Runs : Stuck(r))

(* The containers of runs that have ended are gone in the end, and stay    *)
(* away: finalize_run, the kill or the reconciler removes them.            *)
OrphansGo ==
    <>[](\A r \in Runs : state[r] \in Terminal => box[r] = "absent")

(* A killed run is not running, and its credential stays revoked. *)
KilledIsStopped ==
    \A r \in Runs :
        state[r] = "killed" => box[r] # "running" /\ token[r] # "active"

(* A run whose kill was accepted is killed. *)
KillEnds ==
    \A r \in Runs : state[r] = "kill_requested" ~> state[r] = "killed"

(* A run executes at most once. *)
StartedOnce == \A r \in Runs : starts[r] <= 1
=============================================================================
