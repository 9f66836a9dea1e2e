--------------------------- MODULE StudioFrontend ---------------------------
(***************************************************************************)
(* The emergency frontend of one Studio and the three loops that share it: *)
(*                                                                         *)
(*   the poll loop, which samples the requests in flight and then lets the *)
(*     election decide (failover_poller.py tick, failover_election.py);    *)
(*   the lifecycle loop, which inspects the container and starts or stops  *)
(*     it to follow the role (coire_node/failover/poller.py);              *)
(*   the container itself, which admits completions on the lease file and  *)
(*     counts them (coire_failover/app.py).                                *)
(*                                                                         *)
(* Core's hand-back reaches the participant between any two steps.  Which  *)
(* decision the election takes is left open here; FailoverElection says    *)
(* when it takes which.                                                    *)
(***************************************************************************)
EXTENDS Integers, FiniteSets

CONSTANTS Requests,         \* completions that clients may send
          Drain,            \* failover_drain_timeout_s
          MaxCrashes,       \* bound on crashes and rearmings of the agent
          MaxDockerFaults   \* bound on Docker calls that fail

ASSUME FrontendAssumption ==
    /\ IsFiniteSet(Requests) /\ Drain \in Nat \ {0}
    /\ MaxCrashes \in Nat /\ MaxDockerFaults \in Nat

VARIABLES
    armed,      \* a participant, its poll loop and its lifecycle loop run
    role,       \* ElectionParticipant.role
    inFlight,   \* ElectionParticipant.in_flight, as the last observe left it
    drainAge,   \* time since _drain_started, up to Drain
    last,       \* kind of the last event in the journal
    poll, sample,  \* where the poll loop is, and the count it has read
    lease,      \* the lease file
    life,       \* what the lifecycle loop saw when it inspected
    container,  \* the precreated coire-failover container
    req,        \* where each completion is
    crashes, faults

pollVars == <<poll, sample>>
roleVars == <<role, inFlight, drainAge, last, lease>>
vars == <<armed, pollVars, roleVars, life, container, req, crashes, faults>>

Roles == {"standby", "candidate", "elected", "draining"}
Needed == role \in {"elected", "draining"}

(* FailoverRuntime.in_flight *)
Counted == {r \in Requests : req[r] = "counted"}

(* Every variable keeps its type; the participant never believes in more   *)
(* requests than clients can have sent, or in one it could not count.      *)
TypeOK ==
    /\ armed \in BOOLEAN /\ role \in Roles
    /\ inFlight \in 0..Cardinality(Requests) \cup {1}
    /\ sample \in 0..Cardinality(Requests) \cup {1}
    /\ drainAge \in 0..Drain
    /\ last \in {"none", "promoted", "draining", "handback", "fenced"}
    /\ poll \in {"asleep", "observing"}
    /\ lease \in {"none", "current", "expired"}
    /\ life \in {"asleep", "saw_stopped", "saw_running"}
    /\ container \in {"stopped", "running", "stopping"}
    /\ req \in [Requests -> {"new", "admitted", "counted", "done", "refused",
                             "killed"}]
    /\ crashes \in 0..MaxCrashes /\ faults \in 0..MaxDockerFaults

-----------------------------------------------------------------------------
(* The participant *)

(* Variant: a drain waits for the last request however long it takes. *)
DrainAndFinishPatiently(n) ==
    LET began == IF role = "draining" THEN drainAge ELSE 0
        stay  == n > 0
    IN  /\ role' = IF stay THEN "draining" ELSE "standby"
        /\ last' = IF stay THEN "draining" ELSE "handback"
        /\ drainAge' = began
        /\ lease' = "none"

(* _begin_drain, _finish_drain_if_idle and _emit, with n requests in       *)
(* flight as far as the participant knows.                                 *)
DrainAndFinish(n) ==
    LET began == IF role = "draining" THEN drainAge ELSE 0
        stay  == n > 0 /\ began < Drain
    IN  /\ role' = IF stay THEN "draining" ELSE "standby"
        /\ last' = IF stay THEN "draining" ELSE "handback"
        /\ drainAge' = began
        /\ lease' = "none"

(* _fence and _emit *)
Fence ==
    /\ role' = "standby" /\ lease' = "none"
    /\ last' = IF Needed THEN "fenced" ELSE last
    /\ UNCHANGED drainAge

(* A candidate wins, or goes on waiting; a leader whose proof ran out is a *)
(* candidate again; a leader that renews its proof rewrites the file.      *)
Campaign ==
    /\ role \in {"standby", "candidate"}
    /\ \E won \in BOOLEAN :
         /\ role' = IF won THEN "elected" ELSE "candidate"
         /\ lease' = IF won THEN "current" ELSE "none"
         /\ last' = IF won THEN "promoted" ELSE last
    /\ UNCHANGED drainAge

StandDown ==
    /\ role \in {"standby", "candidate"}
    /\ role' = "standby" /\ lease' = "none"
    /\ UNCHANGED <<drainAge, last>>

Hold ==
    /\ role = "elected"
    /\ \/ lease' \in {lease, "current"} /\ UNCHANGED role
       \/ role' = "candidate" /\ lease' = "none"
    /\ UNCHANGED <<drainAge, last>>

(* Variant: an answer that does not come adds one to the count. *)
PollSampleAdding ==
    /\ armed /\ poll = "asleep"
    /\ poll' = "observing"
    /\ sample' \in IF ~Needed THEN {0}
                   ELSE IF container = "stopped" THEN {1}
                   ELSE {Cardinality(Counted) + 1, Cardinality(Counted)}
    /\ UNCHANGED <<armed, roleVars, life, container, req, crashes, faults>>

(* _in_flight of the controller: only a Studio in office asks its frontend, *)
(* and an answer that does not come counts as one request.                 *)
PollSample ==
    /\ armed /\ poll = "asleep"
    /\ poll' = "observing"
    /\ sample' \in IF ~Needed THEN {0}
                   ELSE IF container = "stopped" THEN {1}
                   ELSE {1, Cardinality(Counted)}
    /\ UNCHANGED <<armed, roleVars, life, container, req, crashes, faults>>

(* observe() with the count read before *)
PollObserve ==
    /\ armed /\ poll = "observing"
    /\ poll' = "asleep"
    /\ inFlight' = sample
    /\ \/ Fence
       \/ Needed /\ DrainAndFinish(sample)
       \/ Campaign \/ StandDown \/ Hold
    /\ UNCHANGED <<armed, sample, life, container, req, crashes, faults>>

(* accept_handback of a Studio in office *)
Handback ==
    /\ armed /\ Needed
    /\ DrainAndFinish(inFlight)
    /\ UNCHANGED <<armed, pollVars, inFlight, life, container, req, crashes,
                   faults>>

DrainTime ==
    /\ role = "draining" /\ drainAge < Drain
    /\ drainAge' = drainAge + 1
    /\ UNCHANGED <<armed, pollVars, role, inFlight, last, lease, life, container,
                   req, crashes, faults>>

LeaseExpires ==
    /\ lease = "current"
    /\ lease' = "expired"
    /\ UNCHANGED <<armed, pollVars, role, inFlight, drainAge, last, life,
                   container, req, crashes, faults>>

-----------------------------------------------------------------------------
(* _sync_frontend: inspect, then start or stop by the role of that moment *)

Inspect ==
    /\ armed /\ life = "asleep"
    /\ life' = IF container = "stopped" THEN "saw_stopped" ELSE "saw_running"
    /\ UNCHANGED <<armed, pollVars, roleVars, container, req, crashes, faults>>

(* Variant: the container is stopped only after a fence. *)
SyncFencedOnly ==
    /\ armed /\ life # "asleep"
    /\ life' = "asleep"
    /\ container' =
         IF Needed /\ life = "saw_stopped" THEN "running"
         ELSE IF ~Needed /\ life = "saw_running" /\ container = "running"
                 /\ last = "fenced"
         THEN "stopping" ELSE container
    /\ UNCHANGED <<armed, pollVars, roleVars, req, crashes, faults>>

Sync ==
    /\ armed /\ life # "asleep"
    /\ life' = "asleep"
    /\ container' =
         IF Needed /\ life = "saw_stopped" THEN "running"
         ELSE IF ~Needed /\ life = "saw_running" /\ container = "running"
         THEN "stopping" ELSE container
    /\ UNCHANGED <<armed, pollVars, roleVars, req, crashes, faults>>

(* The call raises; the loop logs it and tries again a second later. *)
DockerFault ==
    /\ armed /\ life # "asleep" /\ faults < MaxDockerFaults
    /\ faults' = faults + 1
    /\ life' = "asleep"
    /\ UNCHANGED <<armed, pollVars, roleVars, container, req, crashes>>

(* Docker gives a stopping container time to finish, then kills it. *)
ContainerExits ==
    /\ container = "stopping"
    /\ container' = "stopped"
    /\ req' = [r \in Requests |-> IF req[r] \in {"admitted", "counted"}
                                  THEN "killed" ELSE req[r]]
    /\ UNCHANGED <<armed, pollVars, roleVars, life, crashes, faults>>

-----------------------------------------------------------------------------
(* completions(): the lease is read first, the request is counted after    *)
(* the resident engines of both Studios have been looked up.               *)

Admit(r) ==
    /\ container = "running" /\ req[r] = "new"
    /\ req' = [req EXCEPT ![r] = IF lease = "current" THEN "admitted"
                                                      ELSE "refused"]
    /\ UNCHANGED <<armed, pollVars, roleVars, life, container, crashes, faults>>

Count(r) ==
    /\ req[r] = "admitted"
    /\ \E s \in {"counted", "refused"} : req' = [req EXCEPT ![r] = s]
    /\ UNCHANGED <<armed, pollVars, roleVars, life, container, crashes, faults>>

Complete(r) ==
    /\ req[r] = "counted"
    /\ req' = [req EXCEPT ![r] = "done"]
    /\ UNCHANGED <<armed, pollVars, roleVars, life, container, crashes, faults>>

-----------------------------------------------------------------------------
(* The node agent *)

Forget ==
    /\ armed' = FALSE
    /\ role' = "standby" /\ inFlight' = 0 /\ drainAge' = 0
    /\ poll' = "asleep" /\ sample' = 0 /\ life' = "asleep"
    /\ crashes < MaxCrashes /\ crashes' = crashes + 1
    /\ UNCHANGED <<last, req, faults>>

(* The agent dies: the file and the container stay as they are. *)
Crash == armed /\ Forget /\ UNCHANGED <<lease, container>>

(* _disarm on a changed membership: the loops are cancelled and the file   *)
(* is deleted, then the container is stopped.  A stop that Docker refuses, *)
(* or that the agent does not live to send, leaves it running.             *)
Disarm ==
    /\ armed /\ Forget
    /\ lease' = "none"
    /\ container' \in {container,
                       IF container = "running" THEN "stopping" ELSE container}

(* Variant: the lease file of the predecessor is kept. *)
ArmKeepingLease ==
    /\ ~armed /\ armed' = TRUE
    /\ UNCHANGED <<pollVars, roleVars, life, container, req, crashes, faults>>

(* _arm: a new participant deletes the lease file of its predecessor. *)
Arm ==
    /\ ~armed /\ armed' = TRUE
    /\ lease' = "none"
    /\ UNCHANGED <<pollVars, role, inFlight, drainAge, last, life, container, req,
                   crashes, faults>>

-----------------------------------------------------------------------------

Init ==
    /\ armed = FALSE /\ role = "standby" /\ inFlight = 0 /\ drainAge = 0
    /\ last = "none" /\ poll = "asleep" /\ sample = 0 /\ lease = "none"
    /\ life = "asleep" /\ container = "stopped"
    /\ req = [r \in Requests |-> "new"] /\ crashes = 0 /\ faults = 0

Next ==
    \/ PollSample \/ PollObserve \/ Handback \/ DrainTime \/ LeaseExpires
    \/ Inspect \/ Sync \/ DockerFault \/ ContainerExits
    \/ \E r \in Requests : Admit(r) \/ Count(r) \/ Complete(r)
    \/ Crash \/ Disarm \/ Arm

(* The two loops never stop while the participant is armed, time passes,   *)
(* Docker ends a stop, and the agent is started again after it died.       *)
Fairness ==
    /\ WF_vars(PollSample) /\ WF_vars(PollObserve) /\ WF_vars(DrainTime)
    /\ WF_vars(Inspect) /\ WF_vars(Sync) /\ WF_vars(ContainerExits)
    /\ WF_vars(Arm)

Spec == Init /\ [][Next]_vars /\ Fairness

-----------------------------------------------------------------------------
(* Properties *)

(* The lease file is the only signal the frontend trusts, so an armed      *)
(* Studio that is not elected has none: not after a hand-back between two  *)
(* polls, not after a crash, not after a changed membership.               *)
LeaseOnlyWhileElected == armed /\ lease # "none" => role = "elected"

(* A request that never ends does not keep a Studio in the drain, whatever *)
(* its frontend reports or fails to report.                                *)
DrainEnds == role = "draining" ~> role # "draining"

(* A Studio that lost its office stops its frontend, unless it is elected  *)
(* again, even when Docker fails and the agent restarts in between.        *)
FrontendStops == (armed /\ ~Needed) ~> (container = "stopped" \/ Needed)

(* "in-flight requests MUST complete before demotion stops the emergency   *)
(* frontend": a hand-back inside the drain window never stops a frontend   *)
(* that has requests in flight.                                            *)
StopAfterRequests ==
    container = "stopping" /\ last = "handback" /\ drainAge < Drain =>
        Counted = {}

=============================================================================
