-------------------------- MODULE AgentRunsProofs --------------------------
(***************************************************************************)
(* Agent runs, for every finite set of runs and Studios and every bound: a *)
(* container that works for a run holds the credential in force, a run     *)
(* reported as succeeded has earned it, and the runs whose rows appeared   *)
(* in the order of requested_at keep the cap of their Studio.              *)
(***************************************************************************)
EXTENDS AgentRuns, FiniteSetTheorems, TLAPS

-----------------------------------------------------------------------------
(* The inductive invariant *)

(* The operations that go through the queue *)
Queued == Ops \ {"kill"}

NoDup(s) == \A i, j \in 1 .. Len(s) : s[i] = s[j] => i = j

Scans == [on : BOOLEAN, keep : SUBSET Runs]

(* The types, with the two sequences free of repetitions. *)
RowType ==
    /\ order \in Seq(Runs) /\ NoDup(order)
    /\ state \in [Runs -> States]
    /\ node \in [Runs -> Studios \cup {None}]
    /\ known \in [Runs -> BOOLEAN]
    /\ token \in [Runs -> {None, "active", "revoked"}]
    /\ gen \in [Runs -> Nat]

CommandType ==
    /\ cmd \in [Runs -> [Ops -> {None, "open", "succeeded", "failed"}]]
    /\ queue \in Seq(Runs \X Queued) /\ NoDup(queue)
    /\ lane = NoWork
       \/ lane \in [run : Runs, op : Queued, at : {"checked", "sent"}]

FlowType ==
    /\ wf \in [Runs -> {None, "place", "probe", "gate", "run", "final", "done",
                        "error"}]
    /\ step \in [Runs -> Ops \cup {None}]
    /\ asked \in [Runs -> BOOLEAN] /\ early \in [Runs -> BOOLEAN]
    /\ tries \in [Runs -> Nat]
    /\ detail \in [Runs -> {None, "run_timeout", "run_result", "run_failed"}]
    /\ cand \in [Runs -> Studios \cup {None}]
    /\ kw \in [Runs -> {None, "start", "await", "mark", "done", "error"}]

StudioType ==
    /\ killing \subseteq Runs
    /\ sent \subseteq Runs \X (Ops \ {"create"})
    /\ creates \in [Runs -> Seq(Nat)]
    /\ box \in [Runs -> {"absent", "relay", "created", "running"} \cup Exited]
    /\ held \in [Runs -> Nat] /\ starts \in [Runs -> Nat]
    /\ exit \in [Runs -> {None, "timed_out"} \cup Exited]
    /\ reap \in [Studios -> Scans]

BoundType ==
    /\ late \subseteq Runs
    /\ crashes \in 0..MaxCrashes /\ faults \in 0..MaxFaults
    /\ stalls \in 0..MaxStalls

(* The queue holds the open commands, and the executor works on its head. *)
InLine(c) == \E i \in 1 .. Len(queue) : queue[i] = c

QueueInv ==
    /\ \A r \in Runs, o \in Queued : InLine(<<r, o>>) <=> cmd[r][o] = "open"
    /\ lane # NoWork => queue # <<>> /\ Head(queue) = <<lane.run, lane.op>>
    /\ lane.at = "checked" => lane.op = "create"

TypeInv ==
    RowType /\ CommandType /\ FlowType /\ StudioType /\ BoundType /\ QueueInv

Has(r, o) == cmd[r][o] = "succeeded"
Boxed(r) == box[r] \notin {"absent", "relay"}

(* The newest create call carries the newest credential, and a create that *)
(* has succeeded leaves no other behind.                                   *)
CreateAt(r) ==
    /\ Waiting(r, "create") =>
           creates[r] # <<>> /\ creates[r][Len(creates[r])] = gen[r]
    /\ creates[r] # <<>> => gen[r] > 0
    /\ Has(r, "create") => /\ creates[r] = <<>> /\ gen[r] > 0
                           /\ Boxed(r) => held[r] = gen[r]

CreateInv == \A r \in Runs : CreateAt(r)

(* A credential is revoked only with the end of the run, or its kill. *)
TokenAt(r) ==
    /\ gen[r] > 0 <=> token[r] # None
    /\ token[r] = "revoked" => state[r] \in Terminal \cup {"kill_requested"}

TokenInv == \A r \in Runs : TokenAt(r)

(* What has run was started, and the exit that WAIT has reported stands. *)
ExitAt(r) ==
    /\ box[r] \in {"running"} \cup Exited => starts[r] > 0
    /\ exit[r] # None => starts[r] > 0
    /\ Has(r, "wait") => <<r, "wait">> \notin sent

ExitInv == \A r \in Runs : ExitAt(r)

Earned(r) ==
    /\ Has(r, "create") /\ Has(r, "wait") /\ Has(r, "collect")
    /\ exit[r] = "ok"

(* How far the workflow has come is backed by the commands it waited for. *)
Stage(r) ==
    /\ wf[r] \notin {"run", "final"} => step[r] = None
    /\ asked[r] => step[r] # None
    /\ wf[r] = "run" =>
           /\ step[r] \in {None, "create", "start", "wait", "logs", "collect"}
           /\ step[r] \notin {None, "create"} => Has(r, "create")
           /\ step[r] \in {"logs", "collect"} => Has(r, "wait")
           /\ step[r] = "collect" => exit[r] = "ok"
    /\ wf[r] = "final" =>
           /\ step[r] \in {None, "remove"}
           /\ detail[r] = None => Earned(r)

Backed(r) ==
    /\ known[r] \/ state[r] \in {"running", "collecting"} => Has(r, "create")
    /\ state[r] = "succeeded" => Earned(r) /\ token[r] = "revoked"

FlowInv == \A r \in Runs : Stage(r) /\ Backed(r)

RunInv == TypeInv /\ CreateInv /\ TokenInv /\ ExitInv /\ FlowInv

(* The stages up to the look before the execution, and the states there *)
Early == {None, "place", "probe", "gate"}
Before == {None, "queued", "placing", "kill_requested"} \cup Terminal

(* A run gets its node after it is committed and probed for, not before. *)
PlaceInv ==
    \A r \in Runs :
        /\ state[r] # None => \E i \in 1 .. Len(order) : order[i] = r
        /\ wf[r] # None => state[r] # None
        /\ wf[r] \in {None, "probe"} => node[r] = None
        /\ wf[r] \in Early => state[r] \in Before
        /\ wf[r] = "probe" => cand[r] \in Studios

(* No other punctual run that waits for a node is older. *)
Leads(r) ==
    \A i, j \in 1 .. Len(order) :
        order[i] = r /\ order[j] \in Unplaced \ late => i <= j

(* Of the punctual runs only the oldest is being probed for, on a Studio   *)
(* with a slot left for it.                                                *)
HeadInv ==
    \A r \in Unplaced \ late : wf[r] = "probe" =>
        Leads(r) /\ Cardinality(Active(cand[r]) \ late) < Cap

CapInv == PlaceInv /\ HeadInv /\ PunctualRunsFit

-----------------------------------------------------------------------------
(* Sequences without repetitions *)

(* A sequence without repetitions is as long as its set is large. *)
LEMMA NoDupLength ==
    ASSUME NEW S, NEW s \in Seq(S), NoDup(s)
    PROVE  Len(s) = Cardinality(ToSet(s))
<1>1. s \in Bijection(1 .. Len(s), ToSet(s))
  BY DEF Bijection, Injection, Surjection, IsInjective, ToSet, NoDup
<1>2. ExistsBijection(1 .. Len(s), ToSet(s))
  BY <1>1 DEF ExistsBijection
<1>3. /\ IsFiniteSet(1 .. Len(s)) /\ Cardinality(1 .. Len(s)) = Len(s)
  <2>1. Len(s) \in Int /\ 1 \in Int /\ Len(s) >= 0
    OBVIOUS
  <2>2. Cardinality(1 .. Len(s)) = IF 1 > Len(s) THEN 0 ELSE Len(s) - 1 + 1
    BY <2>1, FS_Interval
  <2>3. IsFiniteSet(1 .. Len(s))
    BY <2>1, FS_Interval
  <2> QED BY <2>1, <2>2, <2>3
<1> QED BY <1>2, <1>3, FS_Bijection

(* One more element at the end *)
LEMMA NoDupAppend ==
    ASSUME NEW S, NEW s \in Seq(S), NEW x \in S, NoDup(s),
           \A i \in 1 .. Len(s) : s[i] # x,
           NEW t, t = Append(s, x)
    PROVE  /\ t \in Seq(S) /\ NoDup(t) /\ t # <<>>
           /\ s # <<>> => Head(t) = Head(s)
           /\ \A y : (\E i \in 1 .. Len(t) : t[i] = y)
                        <=> y = x \/ \E i \in 1 .. Len(s) : s[i] = y
<1>1. /\ t \in Seq(S) /\ Len(t) = Len(s) + 1 /\ Len(s) \in Nat
      /\ t[Len(s) + 1] = x /\ \A i \in 1 .. Len(s) : t[i] = s[i]
  OBVIOUS
<1>2. NoDup(t)
  BY <1>1 DEF NoDup
<1>3. t # <<>> /\ (s # <<>> => Head(t) = Head(s))
  BY <1>1
<1>4. ASSUME NEW y
      PROVE  (\E i \in 1 .. Len(t) : t[i] = y)
                 <=> y = x \/ \E i \in 1 .. Len(s) : s[i] = y
  <2>1. \A i \in 1 .. Len(t) : i \in 1 .. Len(s) \/ i = Len(s) + 1
    BY <1>1
  <2>2. /\ Len(s) + 1 \in 1 .. Len(t)
        /\ \A i \in 1 .. Len(s) : i \in 1 .. Len(t)
    BY <1>1
  <2> QED BY <1>1, <2>1, <2>2
<1> QED BY <1>1, <1>2, <1>3, <1>4

(* The head is taken off *)
LEMMA NoDupTail ==
    ASSUME NEW S, NEW s \in Seq(S), NoDup(s), s # <<>>
    PROVE  /\ Tail(s) \in Seq(S) /\ NoDup(Tail(s))
           /\ Head(s) \in S
           /\ \A y : (\E i \in 1 .. Len(Tail(s)) : Tail(s)[i] = y)
                        <=> y # Head(s) /\ \E i \in 1 .. Len(s) : s[i] = y
<1> DEFINE t == Tail(s)
<1>1. /\ t \in Seq(S) /\ Len(s) \in Nat /\ Len(s) >= 1 /\ Len(t) = Len(s) - 1
      /\ \A i \in 1 .. Len(t) : t[i] = s[i + 1]
      /\ Head(s) = s[1] /\ Head(s) \in S
  OBVIOUS
<1> HIDE DEF t
<1>2. NoDup(t)
  <2> SUFFICES ASSUME NEW i \in 1 .. Len(t), NEW j \in 1 .. Len(t), t[i] = t[j]
               PROVE  i = j
    BY DEF NoDup
  <2>1. i + 1 \in 1 .. Len(s) /\ j + 1 \in 1 .. Len(s) /\ s[i + 1] = s[j + 1]
    BY <1>1
  <2>2. i + 1 = j + 1
    BY <2>1 DEF NoDup
  <2> QED BY <2>2
<1>3. ASSUME NEW y
      PROVE  (\E i \in 1 .. Len(t) : t[i] = y)
                 <=> y # Head(s) /\ \E i \in 1 .. Len(s) : s[i] = y
  <2>1. ASSUME NEW i \in 1 .. Len(t), t[i] = y
        PROVE  y # Head(s) /\ \E j \in 1 .. Len(s) : s[j] = y
    <3>1. i + 1 \in 1 .. Len(s) /\ 1 \in 1 .. Len(s) /\ i + 1 # 1
          /\ s[i + 1] = y
      BY <1>1, <2>1
    <3> QED BY <1>1, <3>1 DEF NoDup
  <2>2. ASSUME NEW j \in 1 .. Len(s), s[j] = y, y # Head(s)
        PROVE  \E i \in 1 .. Len(t) : t[i] = y
    <3>1. j - 1 \in 1 .. Len(t) /\ (j - 1) + 1 = j
      BY <1>1, <2>2
    <3>2. t[j - 1] = y
      BY <1>1, <2>2, <3>1
    <3> QED BY <3>1, <3>2
  <2> QED BY <2>1, <2>2
<1> QED BY <1>1, <1>2, <1>3 DEF t

(* The strengthened types imply the types. *)
LEMMA TypeSuffices == TypeInv => TypeOK
<1> SUFFICES ASSUME TypeInv PROVE TypeOK
  OBVIOUS
<1> USE DEF TypeInv
<1>1. ToSet(order) \subseteq Runs /\ Len(order) = Cardinality(ToSet(order))
  BY NoDupLength DEF RowType, ToSet
<1>2. Len(queue) = Cardinality(ToSet(queue))
  BY NoDupLength DEF CommandType
<1>3. ToSet(queue) =
          {c \in Runs \X (Ops \ {"kill"}) : cmd[c[1]][c[2]] = "open"}
  <2>1. ASSUME NEW c PROVE c \in ToSet(queue) <=> InLine(c)
    BY DEF ToSet, InLine, CommandType
  <2>2. ASSUME NEW c, InLine(c) PROVE c \in Runs \X Queued
    BY <2>2 DEF InLine, CommandType
  <2>3. ASSUME NEW c \in Runs \X Queued
        PROVE  InLine(c) <=> cmd[c[1]][c[2]] = "open"
    <3>1. PICK r \in Runs, o \in Queued : c = <<r, o>>
      OBVIOUS
    <3>2. c[1] = r /\ c[2] = o
      BY <3>1
    <3> QED BY <3>1, <3>2 DEF QueueInv
  <2> QED BY <2>1, <2>2, <2>3 DEF Queued
<1> QED BY <1>1, <1>2, <1>3 DEF TypeOK, RowType, CommandType, FlowType, StudioType,
            BoundType, Queued, Scans

(* The system starts within the invariant. *)
LEMMA RunInit == Init => RunInv
<1> SUFFICES ASSUME Init PROVE RunInv
  OBVIOUS
<1> USE AgentRunsAssumption DEF Init
<1>1. RowType /\ FlowType
  BY DEF RowType, FlowType, NoDup, States
<1>2. CommandType
  BY DEF CommandType, NoDup
<1>3. StudioType
  BY DEF StudioType, NoScan, Scans
<1>4. BoundType
  BY DEF BoundType
<1>5. QueueInv
  <2>1. \A r \in Runs, o \in Queued : ~InLine(<<r, o>>) /\ cmd[r][o] # "open"
    BY DEF InLine, Queued, None
  <2> QED BY <2>1 DEF QueueInv, NoWork
<1>6. \A r \in Runs, o \in Ops : ~Has(r, o)
  BY DEF Has, None
<1>7. CreateInv
  BY <1>6 DEF CreateInv, CreateAt, Waiting, NoWork, Ops
<1>8. TokenInv /\ ExitInv
  BY <1>6 DEF TokenInv, TokenAt, ExitInv, ExitAt, None, Exited, Ops
<1>9. FlowInv
  BY DEF FlowInv, Stage, Backed, None
<1> QED BY <1>1, <1>2, <1>3, <1>4, <1>5, <1>7, <1>8, <1>9 DEF RunInv, TypeInv

-----------------------------------------------------------------------------
(* What a step does to the commands and to the executor's lane *)

Results == {"succeeded", "failed"}

Rests == lane' \in {lane, NoWork} /\ UNCHANGED commands

Takes ==
    /\ lane = NoWork /\ queue # <<>> /\ UNCHANGED commands
    /\ lane' = [run |-> Head(queue)[1], op |-> Head(queue)[2],
                at |-> IF Head(queue)[2] = "create" THEN "checked" ELSE "sent"]

Sends ==
    /\ lane.at = "checked" /\ UNCHANGED commands
    /\ lane' = [lane EXCEPT !.at = "sent"]

Asks == lane' = lane /\ \E r \in Runs, o \in Ops : Write(r, o)

Kills == lane' = lane /\ \E r \in Runs, x \in Results : Close(r, "kill", x)

(* The oldest command ends, with success only if the executor has waited   *)
(* for the answer.                                                         *)
EndsWith(r, o, x) ==
    /\ queue # <<>> /\ Head(queue) = <<r, o>> /\ lane' = NoWork
    /\ Close(r, o, x) /\ (x = "succeeded" => Waiting(r, o))

Ends == \E r \in Runs, o \in Queued, x \in Results : EndsWith(r, o, x)

WorkMove == Rests \/ Takes \/ Sends \/ Asks \/ Kills \/ Ends

(* The answer of a Studio to the executor *)
LEMMA AnswerMove ==
    ASSUME TypeInv, NEW r \in Runs, NEW o \in Queued, NEW x \in Results,
           Answer(r, o, x)
    PROVE  (Rests /\ lane' = lane) \/ EndsWith(r, o, x)
<1>1. CASE Waiting(r, o)
  <2>1. queue # <<>> /\ Head(queue) = <<r, o>>
    BY <1>1, StudioAssumption DEF TypeInv, QueueInv, Waiting, NoWork
  <2> QED BY <1>1, <2>1 DEF Answer, EndsWith
<1>2. CASE ~Waiting(r, o)
  BY <1>2 DEF Answer, Rests, commands
<1> QED BY <1>1, <1>2

(* The head of the queue is a command. *)
LEMMA HeadOfQueue ==
    ASSUME TypeInv, queue # <<>>
    PROVE  /\ Head(queue) \in Runs \X Queued
           /\ Head(queue)[1] \in Runs /\ Head(queue)[2] \in Queued
           /\ Head(queue) = <<Head(queue)[1], Head(queue)[2]>>
<1>1. Head(queue) \in Runs \X Queued
  BY NoDupTail DEF TypeInv, CommandType
<1> QED BY <1>1

(* Every step moves the commands and the lane in one of these ways. *)
LEMMA WorkMoves == TypeInv /\ [Next]_vars => WorkMove
<1> SUFFICES ASSUME TypeInv, [Next]_vars PROVE WorkMove
  OBVIOUS
<1> USE DEF row, commands, flow, lanes, wire, studio, bounds
<1>1. ASSUME NEW r \in Runs,
             OpenRequest(r) \/ CommitRequest(r) \/ Dispatch(r) \/ Choose(r)
      PROVE  WorkMove
  BY <1>1 DEF OpenRequest, CommitRequest, Dispatch, Choose, WorkMove, Rests
<1>2. ASSUME NEW r \in Runs,
             \/ PlaceStopped(r) \/ CommitPlacement(r) \/ Gate(r)
             \/ BeginExecution(r)
      PROVE  WorkMove
  BY <1>2 DEF PlaceStopped, CommitPlacement, Gate, BeginExecution, WorkMove, Rests
<1>3. ASSUME NEW r \in Runs, Proceed(r) \/ Fail(r) \/ Finalize(r) \/ Done(r)
      PROVE  WorkMove
  BY <1>3 DEF Proceed, Fail, Finalize, Done, WorkMove, Rests
<1>4. ASSUME NEW r \in Runs,
             \/ DispatchKill(r) \/ AwaitKill(r) \/ MarkKilled(r) \/ SendKill(r)
             \/ Exit(r)
      PROVE  WorkMove
  BY <1>4 DEF DispatchKill, AwaitKill, MarkKilled, SendKill, Exit, WorkMove, Rests
<1>5. ASSUME NEW r \in Runs,
             ProbeFails(r) \/ DrainFails(r) \/ KillUnanswered(r)
      PROVE  WorkMove
  BY <1>5 DEF ProbeFails, DrainFails, KillUnanswered, WorkMove, Rests
<1>6. ASSUME NEW n \in Studios, Reconcile(n) PROVE WorkMove
  BY <1>6 DEF Reconcile, Observe, ServeReap, WorkMove, Rests
<1>7. ASSUME GiveUp \/ Crash \/ UNCHANGED vars PROVE WorkMove
  BY <1>7 DEF GiveUp, Crash, vars, WorkMove, Rests
<1>8. ASSUME NEW r \in Runs, KillRequest(r) \/ StopByOwner(r) PROVE WorkMove
  <2>1. lane' = lane /\ (Write(r, "kill") \/ UNCHANGED commands)
    BY <1>8, Zenon DEF KillRequest, StopByOwner
  <2>2. "kill" \in Ops
    BY DEF Ops
  <2> QED BY <2>1, <2>2, Zenon DEF WorkMove, Rests, Asks
<1>9. ASSUME NEW r \in Runs, Submit(r) PROVE WorkMove
  <2>1. lane' = lane /\ (Write(r, step[r]) \/ UNCHANGED commands) /\ step[r] # None
    BY <1>9, Zenon DEF Submit
  <2>2. step[r] \in Ops
    BY <2>1 DEF TypeInv, FlowType
  <2> QED BY <2>1, <2>2, Zenon DEF WorkMove, Rests, Asks
<1>10. ASSUME NEW r \in Runs, BeginKill(r) PROVE WorkMove
  <2>1. lane' = lane /\ (Write(r, "kill") \/ UNCHANGED commands)
    BY <1>10, Zenon DEF BeginKill
  <2>2. "kill" \in Ops
    BY DEF Ops
  <2> QED BY <2>1, <2>2, Zenon DEF WorkMove, Rests, Asks
<1>11. ASSUME Pick PROVE WorkMove
  <2> DEFINE r == Head(queue)[1]
             o == Head(queue)[2]
  <2>1. queue # <<>> /\ lane = NoWork
    BY <1>11 DEF Pick
  <2>2. r \in Runs /\ o \in Queued /\ Head(queue) = <<r, o>>
    BY <2>1, HeadOfQueue
  <2>3. \/ Close(r, o, "failed") /\ UNCHANGED lane
        \/ Takes
    BY <1>11, <2>1, Zenon DEF Pick, Takes
  <2>4. Close(r, o, "failed") /\ UNCHANGED lane => EndsWith(r, o, "failed")
    BY <2>1, <2>2 DEF EndsWith
  <2> HIDE DEF r, o
  <2> QED BY <2>2, <2>3, <2>4 DEF WorkMove, Ends, Results
<1>12. ASSUME Mint PROVE WorkMove
  <2>1. /\ lane.at = "checked"
        /\ \/ Close(lane.run, "create", "failed") /\ lane' = NoWork
           \/ lane' = [lane EXCEPT !.at = "sent"] /\ UNCHANGED commands
    BY <1>12, Zenon DEF Mint
  <2>2. /\ lane.run \in Runs /\ lane.op = "create" /\ queue # <<>>
        /\ Head(queue) = <<lane.run, "create">>
    BY <2>1 DEF TypeInv, QueueInv, CommandType, NoWork
  <2>3. "create" \in Queued
    BY DEF Queued, Ops
  <2>4. Close(lane.run, "create", "failed") /\ lane' = NoWork =>
            EndsWith(lane.run, "create", "failed")
    BY <2>2 DEF EndsWith
  <2> QED BY <2>1, <2>2, <2>3, <2>4 DEF WorkMove, Sends, Ends, Results
<1>13. ASSUME NEW r \in Runs, KillTimesOut(r) \/ ServeKill(r) PROVE WorkMove
  <2>1. /\ lane' = lane
        /\ \/ Close(r, "kill", "failed") \/ Close(r, "kill", "succeeded")
           \/ UNCHANGED commands
    BY <1>13, Zenon DEF KillTimesOut, ServeKill
  <2> QED BY <2>1 DEF WorkMove, Rests, Kills, Results
<1>14. ASSUME NEW r \in Runs, NEW o \in Queued, NEW x \in Results,
              Answer(r, o, x)
       PROVE  WorkMove
  BY <1>14, AnswerMove DEF WorkMove, Ends
<1>15. {"create", "start", "wait", "logs", "collect", "remove"} \subseteq Queued
  BY DEF Queued, Ops
<1>16. ASSUME NEW r \in Runs, ServeCreate(r) PROVE WorkMove
  <2>1. \/ \E x \in Results : Answer(r, "create", x)
        \/ UNCHANGED <<commands, lane>>
    BY <1>16 DEF ServeCreate, Results
  <2> QED BY <1>14, <1>15, <2>1 DEF WorkMove, Rests
<1>17. ASSUME NEW r \in Runs, ServeStart(r) PROVE WorkMove
  <2>1. Answer(r, "start", "succeeded") \/ Unavailable(r, "start")
    BY <1>17, Zenon DEF ServeStart
  <2>2. Unavailable(r, "start") => Rests
    BY DEF Unavailable, Rests
  <2> QED BY <1>14, <1>15, <2>1, <2>2 DEF WorkMove, Results
<1>18. ASSUME NEW r \in Runs, ServeWait(r) \/ ServeRemove(r) PROVE WorkMove
  <2>1. \E x \in Results : Answer(r, "wait", x) \/ Answer(r, "remove", x)
    BY <1>18 DEF ServeWait, ServeRemove, Results
  <2> QED BY <1>14, <1>15, <2>1
<1>19. ASSUME NEW r \in Runs, NEW o \in {"logs", "collect"}, ServeRead(r, o)
       PROVE  WorkMove
  <2>1. \E x \in Results : Answer(r, o, x)
    BY <1>19 DEF ServeRead, Results
  <2> QED BY <1>14, <1>15, <2>1
<1> QED
  BY <1>1, <1>2, <1>3, <1>4, <1>5, <1>6, <1>7, <1>8, <1>9, <1>10, <1>11, <1>12,
     <1>13, <1>16, <1>17, <1>18, <1>19
     DEF Next, User, Workflow, KillWorkflow, Executor, Studio, Fault

(* The queue keeps to the open commands and the lane to the queue's head. *)
LEMMA QueueStep ==
    ASSUME TypeInv, WorkMove
    PROVE  CommandType' /\ QueueInv'
<1> USE DEF TypeInv
<1>0. /\ cmd \in [Runs -> [Ops -> {None, "open", "succeeded", "failed"}]]
      /\ queue \in Seq(Runs \X Queued) /\ NoDup(queue)
  BY DEF CommandType
<1>1. \A r \in Runs, o \in Queued : InLine(<<r, o>>) <=> cmd[r][o] = "open"
  BY DEF QueueInv
<1>2. CASE UNCHANGED commands
  <2>0. cmd' = cmd /\ queue' = queue
    BY <1>2 DEF commands
  <2>1. /\ NoDup(queue)'
        /\ \A r \in Runs, o \in Queued : InLine(<<r, o>>)' <=> cmd'[r][o] = "open"
    BY <1>0, <1>1, <2>0 DEF InLine, NoDup
  <2>2. CASE Rests
    BY <2>0, <2>1, <2>2 DEF Rests, CommandType, QueueInv, NoWork
  <2>3. CASE Takes
    <3>1. /\ Head(queue)[1] \in Runs /\ Head(queue)[2] \in Queued
          /\ Head(queue) = <<Head(queue)[1], Head(queue)[2]>>
      BY <2>3, HeadOfQueue DEF Takes
    <3> QED BY <2>0, <2>1, <2>3, <3>1 DEF Takes, CommandType, QueueInv, NoWork
  <2>4. CASE Sends
    <3>1. /\ lane \in [run : Runs, op : Queued, at : {"checked", "sent"}]
          /\ lane # NoWork
      BY <2>4 DEF Sends, CommandType, NoWork
    <3>2. /\ lane' \in [run : Runs, op : Queued, at : {"checked", "sent"}]
          /\ lane'.run = lane.run /\ lane'.op = lane.op /\ lane'.at = "sent"
      BY <2>4, <3>1 DEF Sends
    <3> QED BY <2>0, <2>1, <3>1, <3>2 DEF CommandType, QueueInv
  <2>5. CASE (Asks \/ Kills) /\ lane' = lane
    BY <2>0, <2>1, <2>5 DEF CommandType, QueueInv
  <2>6. CASE Ends
    <3>1. lane' = NoWork
      BY <2>6 DEF Ends, EndsWith
    <3> QED BY <2>0, <2>1, <3>1 DEF CommandType, QueueInv, NoWork
  <2> QED BY <2>2, <2>3, <2>4, <2>5, <2>6 DEF WorkMove, Asks, Kills
<1>3. CASE Asks
  <2>1. PICK r \in Runs, o \in Ops : Write(r, o)
    BY <1>3 DEF Asks
  <2>2. /\ cmd' \in [Runs -> [Ops -> {None, "open", "succeeded", "failed"}]]
        /\ cmd'[r][o] = IF cmd[r][o] = None THEN "open" ELSE cmd[r][o]
        /\ \A s \in Runs, p \in Ops : s # r \/ p # o => cmd'[s][p] = cmd[s][p]
    BY <1>0, <2>1 DEF Write
  <2>3. lane' = lane
    BY <1>3 DEF Asks
  <2>4. CASE cmd[r][o] = None /\ o # "kill"
    <3>1. queue' = Append(queue, <<r, o>>) /\ o \in Queued
          /\ <<r, o>> \in Runs \X Queued
      BY <2>1, <2>4 DEF Write, Queued
    <3>2. \A i \in 1 .. Len(queue) : queue[i] # <<r, o>>
      BY <1>1, <2>4, <3>1 DEF InLine, None
    <3> DEFINE c == <<r, o>>
    <3>a. /\ c \in Runs \X Queued /\ queue' = Append(queue, c)
          /\ \A i \in 1 .. Len(queue) : queue[i] # c
      BY <3>1, <3>2
    <3> HIDE DEF c
    <3>3. /\ queue' \in Seq(Runs \X Queued) /\ NoDup(queue') /\ queue' # <<>>
          /\ queue # <<>> => Head(queue') = Head(queue)
          /\ \A y : (\E i \in 1 .. Len(queue') : queue'[i] = y)
                        <=> y = c \/ \E i \in 1 .. Len(queue) : queue[i] = y
      <4> DEFINE C == Runs \X Queued
      <4>1. queue \in Seq(C) /\ c \in C
        BY <1>0, <3>a
      <4> HIDE DEF C
      <4>2. NoDup(queue)
        BY <1>0
      <4>3. PICK t : t = queue'
        OBVIOUS
      <4>4. /\ t = Append(queue, c)
            /\ \A i \in 1 .. Len(queue) : queue[i] # c
        BY <3>a, <4>3
      <4>5. /\ t \in Seq(C) /\ t # <<>>
            /\ queue # <<>> => Head(t) = Head(queue)
        BY <4>1, <4>4
      <4>7. NoDup(t)
        BY <4>1, <4>2, <4>4, NoDupAppend
      <4>6. \A y : (\E i \in 1 .. Len(t) : t[i] = y)
                        <=> y = c \/ \E i \in 1 .. Len(queue) : queue[i] = y
        BY <4>1, <4>2, <4>4, NoDupAppend
      <4> QED BY <4>3, <4>5, <4>6, <4>7 DEF C
    <3>4. ASSUME NEW s \in Runs, NEW p \in Queued
          PROVE  InLine(<<s, p>>)' <=> cmd'[s][p] = "open"
      <4>1. InLine(<<s, p>>)' <=> <<s, p>> = <<r, o>> \/ InLine(<<s, p>>)
        BY <3>3 DEF InLine, c
      <4>2. p \in Ops
        BY DEF Queued
      <4> QED BY <1>1, <2>2, <2>4, <4>1, <4>2
    <3>5. CommandType'
      BY <2>2, <2>3, <3>3 DEF CommandType
    <3> QED BY <2>3, <3>3, <3>4, <3>5 DEF QueueInv
  <2>5. CASE cmd[r][o] # None \/ o = "kill"
    <3>1. queue' = queue
      BY <2>1, <2>5 DEF Write
    <3>2. \A s \in Runs, p \in Queued : cmd'[s][p] = cmd[s][p]
      BY <2>2, <2>5 DEF Queued
    <3> QED BY <1>1, <2>2, <2>3, <3>1, <3>2 DEF CommandType, QueueInv, InLine, NoDup
  <2> QED BY <2>4, <2>5
<1>4. CASE Kills
  <2>1. PICK r \in Runs, x \in Results : Close(r, "kill", x)
    BY <1>4 DEF Kills
  <2>2. "kill" \in Ops /\ x \in {None, "open", "succeeded", "failed"}
    BY DEF Ops, Results
  <2>3. /\ cmd' \in [Runs -> [Ops -> {None, "open", "succeeded", "failed"}]]
        /\ \A s \in Runs, p \in Queued : cmd'[s][p] = cmd[s][p]
    BY <1>0, <2>1, <2>2 DEF Close, Queued
  <2>4. queue' = queue /\ lane' = lane
    BY <1>4, <2>1 DEF Close, Kills
  <2>5. ASSUME NEW s \in Runs, NEW p \in Queued
        PROVE  InLine(<<s, p>>)' <=> cmd'[s][p] = "open"
    <3>1. InLine(<<s, p>>)' <=> InLine(<<s, p>>)
      BY <2>4 DEF InLine
    <3> QED BY <1>1, <2>3, <3>1
  <2>6. NoDup(queue')
    BY <1>0, <2>4
  <2>7. CommandType'
    BY <2>3, <2>4, <2>6 DEF CommandType
  <2> QED BY <2>4, <2>5, <2>7 DEF QueueInv
<1>5. CASE Ends
  <2>1. PICK r \in Runs, o \in Queued, x \in Results : EndsWith(r, o, x)
    BY <1>5 DEF Ends
  <2>2. /\ queue # <<>> /\ Head(queue) = <<r, o>> /\ lane' = NoWork
        /\ queue' = Tail(queue) /\ cmd' = [cmd EXCEPT ![r][o] = x]
    BY <2>1 DEF EndsWith, Close, Queued
  <2>3. o \in Ops /\ x \in {None, "open", "succeeded", "failed"} /\ x # "open"
    BY DEF Queued, Results
  <2>4. /\ cmd' \in [Runs -> [Ops -> {None, "open", "succeeded", "failed"}]]
        /\ cmd'[r][o] = x
        /\ \A s \in Runs, p \in Ops : s # r \/ p # o => cmd'[s][p] = cmd[s][p]
    BY <1>0, <2>2, <2>3
  <2>5. /\ queue' \in Seq(Runs \X Queued) /\ NoDup(queue')
        /\ \A y : (\E i \in 1 .. Len(queue') : queue'[i] = y)
               <=> y # <<r, o>> /\ \E i \in 1 .. Len(queue) : queue[i] = y
    BY <1>0, <2>2, NoDupTail
  <2>6. ASSUME NEW s \in Runs, NEW p \in Queued
        PROVE  InLine(<<s, p>>)' <=> cmd'[s][p] = "open"
    <3>1. InLine(<<s, p>>)' <=> <<s, p>> # <<r, o>> /\ InLine(<<s, p>>)
      BY <2>5 DEF InLine
    <3>2. p \in Ops
      BY DEF Queued
    <3> QED BY <1>1, <2>3, <2>4, <3>1, <3>2
  <2>7. CommandType'
    BY <2>2, <2>4, <2>5 DEF CommandType
  <2> QED BY <2>2, <2>6, <2>7 DEF QueueInv, NoWork
<1> QED BY <1>2, <1>3, <1>4, <1>5 DEF WorkMove, Rests, Takes, Sends

(* The command at the head of the queue is open. *)
LEMMA HeadIsOpen ==
    ASSUME TypeInv, NEW r \in Runs, NEW o \in Queued, queue # <<>>,
           Head(queue) = <<r, o>>
    PROVE  cmd[r][o] = "open"
<1>1. queue[1] = <<r, o>> /\ 1 \in 1 .. Len(queue)
  BY DEF TypeInv, CommandType
<1> QED BY <1>1 DEF TypeInv, QueueInv, InLine

(* A queued command that has succeeded stays so, and one succeeds only by  *)
(* the answer the executor waits for.                                      *)
LEMMA SettledStays ==
    ASSUME TypeInv, WorkMove, NEW r \in Runs, NEW o \in Queued
    PROVE  /\ Has(r, o) => Has(r, o)'
           /\ Has(r, o)' => Has(r, o) \/ EndsWith(r, o, "succeeded")
<1> USE DEF TypeInv
<1>0. /\ cmd \in [Runs -> [Ops -> {None, "open", "succeeded", "failed"}]]
      /\ o \in Ops /\ o # "kill"
  BY DEF CommandType, Queued
<1>1. CASE UNCHANGED commands
  BY <1>1 DEF commands, Has
<1>2. CASE Asks
  <2>1. PICK s \in Runs, p \in Ops : Write(s, p)
    BY <1>2 DEF Asks
  <2>2. cmd'[r][o] = cmd[r][o] \/ (cmd[r][o] = None /\ cmd'[r][o] = "open")
    BY <1>0, <2>1 DEF Write
  <2> QED BY <2>2 DEF Has, None
<1>3. CASE Kills
  <2>1. PICK s \in Runs, x \in Results : Close(s, "kill", x)
    BY <1>3 DEF Kills
  <2>2. cmd'[r][o] = cmd[r][o]
    BY <1>0, <2>1 DEF Close
  <2> QED BY <2>2 DEF Has
<1>4. CASE Ends
  <2>1. PICK s \in Runs, p \in Queued, x \in Results : EndsWith(s, p, x)
    BY <1>4 DEF Ends
  <2>2. cmd' = [cmd EXCEPT ![s][p] = x]
    BY <2>1 DEF EndsWith, Close
  <2>3. cmd[s][p] = "open"
    BY <2>1, HeadIsOpen DEF EndsWith
  <2>4. p \in Ops
    BY DEF Queued
  <2>5. CASE s = r /\ p = o
    <3>1. cmd'[r][o] = x
      BY <1>0, <2>2, <2>5
    <3> QED BY <2>1, <2>3, <2>5, <3>1 DEF Has
  <2>6. CASE s # r \/ p # o
    <3>1. cmd'[r][o] = cmd[r][o]
      BY <1>0, <2>2, <2>4, <2>6
    <3> QED BY <3>1 DEF Has
  <2> QED BY <2>5, <2>6
<1> QED BY <1>1, <1>2, <1>3, <1>4 DEF WorkMove, Rests, Takes, Sends

(* A queued command succeeds only when the Studio serves its call and the  *)
(* executor still waits for the answer.                                    *)
Answers(r, o) ==
    /\ Waiting(r, o) /\ lane' = NoWork
    /\ \/ o = "create" /\ ServeCreate(r)
       \/ o = "start" /\ ServeStart(r)
       \/ o = "wait" /\ ServeWait(r)
       \/ o \in {"logs", "collect"} /\ ServeRead(r, o)
       \/ o = "remove" /\ ServeRemove(r)

(* Commands succeed by such answers alone. *)
LEMMA SuccessIsAnswered ==
    ASSUME TypeInv, [Next]_vars, NEW r \in Runs, NEW o \in Queued,
           ~Has(r, o), Has(r, o)'
    PROVE  Answers(r, o)
<1>1. EndsWith(r, o, "succeeded")
  BY WorkMoves, SettledStays
<1>2. /\ Waiting(r, o) /\ lane # NoWork /\ lane.at = "sent" /\ lane' = NoWork
      /\ lane' # lane
  BY <1>1, StudioAssumption DEF EndsWith, Waiting, NoWork
<1>3. ~UNCHANGED commands
  BY DEF commands, Has
<1> USE DEF row, commands, flow, lanes, wire, studio, bounds
<1>4. ASSUME NEW s \in Runs, User(s) PROVE lane' = lane
  BY <1>4 DEF User, OpenRequest, CommitRequest, KillRequest, StopByOwner
<1>5. ASSUME NEW s \in Runs, Workflow(s) PROVE lane' = lane
  <2>1. ASSUME \/ Dispatch(s) \/ Choose(s) \/ PlaceStopped(s)
               \/ CommitPlacement(s) \/ Gate(s)
        PROVE  lane' = lane
    BY <2>1 DEF Dispatch, Choose, PlaceStopped, CommitPlacement, Gate
  <2>2. ASSUME \/ BeginExecution(s) \/ Submit(s) \/ Proceed(s) \/ Fail(s)
               \/ Finalize(s) \/ Done(s)
        PROVE  lane' = lane
    BY <2>2 DEF BeginExecution, Submit, Proceed, Fail, Finalize, Done
  <2> QED BY <1>5, <2>1, <2>2 DEF Workflow
<1>6. ASSUME NEW s \in Runs, KillWorkflow(s) \/ SendKill(s) \/ Exit(s)
      PROVE  lane' = lane
  BY <1>6 DEF KillWorkflow, DispatchKill, BeginKill, AwaitKill, MarkKilled,
              SendKill, Exit
<1>7. ASSUME NEW s \in Runs, Fault(s) \/ ServeKill(s) PROVE lane' = lane
  BY <1>7 DEF Fault, ProbeFails, DrainFails, KillUnanswered, KillTimesOut, ServeKill
<1>8. ASSUME NEW n \in Studios, Reconcile(n) PROVE lane' = lane
  BY <1>8 DEF Reconcile, Observe, ServeReap
<1>9. ASSUME GiveUp \/ Crash \/ UNCHANGED vars PROVE UNCHANGED commands
  BY <1>9 DEF GiveUp, Crash, vars
<1>10. ~Executor
  BY <1>2 DEF Executor, Pick, Mint
<1>11. ASSUME NEW s \in Runs, NEW p, NEW x, Answer(s, p, x)
       PROVE  s = r /\ p = o
  <2>1. Waiting(s, p)
    BY <1>3, <1>11 DEF Answer
  <2> QED BY <1>2, <2>1 DEF Waiting
<1>12. ASSUME NEW s \in Runs, ServeCreate(s) PROVE Answers(r, o)
  <2>1. \E x \in Results : Answer(s, "create", x)
    BY <1>3, <1>12 DEF ServeCreate, Results
  <2> QED BY <1>2, <1>11, <1>12, <2>1 DEF Answers
<1>13. ASSUME NEW s \in Runs, ServeStart(s) PROVE Answers(r, o)
  <2>1. Answer(s, "start", "succeeded")
    BY <1>3, <1>13, Zenon DEF ServeStart, Unavailable
  <2> QED BY <1>2, <1>11, <1>13, <2>1 DEF Answers
<1>14. ASSUME NEW s \in Runs, ServeWait(s) PROVE Answers(r, o)
  <2>1. \E x \in Results : Answer(s, "wait", x)
    BY <1>14 DEF ServeWait, Results
  <2> QED BY <1>2, <1>11, <1>14, <2>1 DEF Answers
<1>15. ASSUME NEW s \in Runs, NEW p \in {"logs", "collect"}, ServeRead(s, p)
       PROVE  Answers(r, o)
  <2>1. \E x \in Results : Answer(s, p, x)
    BY <1>15 DEF ServeRead, Results
  <2> QED BY <1>2, <1>11, <1>15, <2>1 DEF Answers
<1>16. ASSUME NEW s \in Runs, ServeRemove(s) PROVE Answers(r, o)
  <2>1. Answer(s, "remove", "succeeded")
    BY <1>16 DEF ServeRemove
  <2> QED BY <1>2, <1>11, <1>16, <2>1 DEF Answers
<1> QED
  BY <1>2, <1>3, <1>4, <1>5, <1>6, <1>7, <1>8, <1>9, <1>10, <1>12, <1>13, <1>14,
     <1>15, <1>16 DEF Next, Studio

-----------------------------------------------------------------------------
(* The three kinds of step *)

(* Users and workflows: the Studios and the calls are left alone. *)
CoreStep ==
    \/ \E r \in Runs : \/ User(r) \/ Workflow(r) \/ KillWorkflow(r)
                       \/ ProbeFails(r) \/ DrainFails(r)
    \/ Crash \/ UNCHANGED vars

(* The executor and its two lanes: workflows and Studios are left alone. *)
ExecStep ==
    \/ Pick \/ Mint \/ GiveUp
    \/ \E r \in Runs : SendKill(r) \/ KillUnanswered(r) \/ KillTimesOut(r)

(* The Studios: rows and workflows are left alone. *)
StudioStep ==
    \/ \E r \in Runs : Studio(r) \/ Exit(r)
    \/ \E n \in Studios : Reconcile(n)

(* Every step is one of core's, of its executor or of a Studio. *)
LEMMA Steps == [Next]_vars => CoreStep \/ ExecStep \/ StudioStep
BY Zenon DEF Next, Executor, Fault, CoreStep, ExecStep, StudioStep

(* A step of core touches neither the wire nor a Studio; it can only empty
   the lanes (a crash). *)
LEMMA CoreFrame ==
    ASSUME CoreStep
    PROVE  /\ UNCHANGED <<gen, wire, studio, reap>>
           /\ lane' \in {lane, NoWork} /\ killing' \in {killing, {}}
<1> DEFINE Goal == /\ UNCHANGED <<gen, wire, studio, reap>>
                   /\ lane' \in {lane, NoWork} /\ killing' \in {killing, {}}
<1> USE DEF row, commands, flow, lanes, wire, studio, bounds
<1>1. ASSUME NEW r \in Runs, User(r) PROVE Goal
  BY <1>1 DEF User, OpenRequest, CommitRequest, KillRequest, StopByOwner
<1>2. ASSUME NEW r \in Runs, Dispatch(r) \/ Choose(r) \/ PlaceStopped(r) PROVE Goal
  BY <1>2 DEF Dispatch, Choose, PlaceStopped
<1>3. ASSUME NEW r \in Runs, CommitPlacement(r) \/ Gate(r) \/ BeginExecution(r)
      PROVE  Goal
  BY <1>3 DEF CommitPlacement, Gate, BeginExecution
<1>4. ASSUME NEW r \in Runs, Submit(r) \/ Proceed(r) \/ Fail(r) PROVE Goal
  BY <1>4 DEF Submit, Proceed, Fail
<1>5. ASSUME NEW r \in Runs, \/ Finalize(r) \/ Done(r) \/ ProbeFails(r)
                             \/ DrainFails(r)
      PROVE  Goal
  BY <1>5 DEF Finalize, Done, ProbeFails, DrainFails
<1>6. ASSUME NEW r \in Runs, KillWorkflow(r) PROVE Goal
  BY <1>6 DEF KillWorkflow, DispatchKill, BeginKill, AwaitKill, MarkKilled
<1>7. ASSUME Crash \/ UNCHANGED vars PROVE Goal
  BY <1>7 DEF Crash, vars
<1> QED BY <1>1, <1>2, <1>3, <1>4, <1>5, <1>6, <1>7 DEF CoreStep, Workflow

(* A step of the executor leaves the rows, the workflows and the Studios. *)
LEMMA ExecFrame ==
    ASSUME ExecStep
    PROVE  UNCHANGED <<order, state, node, known, flow, kw, studio, reap>>
<1> USE DEF row, commands, flow, lanes, wire, studio, bounds
<1>1. ASSUME Pick \/ Mint \/ GiveUp
      PROVE  UNCHANGED <<order, state, node, known, flow, kw, studio, reap>>
  BY <1>1 DEF Pick, Mint, GiveUp
<1>2. ASSUME NEW r \in Runs, SendKill(r) \/ KillUnanswered(r) \/ KillTimesOut(r)
      PROVE  UNCHANGED <<order, state, node, known, flow, kw, studio, reap>>
  BY <1>2 DEF SendKill, KillUnanswered, KillTimesOut
<1> QED BY <1>1, <1>2 DEF ExecStep

(* A step of a Studio leaves rows, workflows and bounds. *)
LEMMA StudioFrame ==
    ASSUME StudioStep
    PROVE  UNCHANGED <<row, flow, kw, bounds>>
<1> USE DEF row, commands, flow, lanes, wire, studio, bounds
<1>1. ASSUME NEW r \in Runs, ServeCreate(r) \/ ServeStart(r) \/ ServeWait(r)
      PROVE  UNCHANGED <<row, flow, kw, bounds>>
  BY <1>1 DEF ServeCreate, ServeStart, ServeWait
<1>2. ASSUME NEW r \in Runs, ServeRemove(r) \/ ServeKill(r) \/ Exit(r)
      PROVE  UNCHANGED <<row, flow, kw, bounds>>
  BY <1>2 DEF ServeRemove, ServeKill, Exit
<1>3. ASSUME NEW r \in Runs, NEW o, ServeRead(r, o)
      PROVE  UNCHANGED <<row, flow, kw, bounds>>
  BY <1>3 DEF ServeRead
<1>4. ASSUME NEW n \in Studios, Reconcile(n)
      PROVE  UNCHANGED <<row, flow, kw, bounds>>
  BY <1>4 DEF Reconcile, Observe, ServeReap
<1> QED BY <1>1, <1>2, <1>3, <1>4 DEF StudioStep, Studio

-----------------------------------------------------------------------------
(* Types *)

(* What execute_run does after each command that has succeeded *)
Created(r) ==
    /\ step[r] = "create"
    /\ known' = [known EXCEPT ![r] = TRUE]
    /\ Continue(r, "start") /\ UNCHANGED <<state, wf, tries, detail>>

Started(r) ==
    /\ step[r] = "start"
    /\ Advance(r, "running") \/ UNCHANGED state
    /\ Continue(r, "wait") /\ UNCHANGED <<known, wf, tries, detail>>

Waited(r) ==
    /\ step[r] = "wait"
    /\ Continue(r, "logs") /\ UNCHANGED <<state, known, wf, tries, detail>>

Logged(r) ==
    /\ step[r] = "logs" /\ exit[r] = "ok"
    /\ Advance(r, "collecting") /\ Continue(r, "collect")
    /\ UNCHANGED <<known, wf, tries, detail>>

Collected(r) ==
    /\ UNCHANGED <<state, known>>
    /\ \/ step[r] = "collect" /\ Conclude(r, None)
       \/ step[r] = "logs" /\ \E x \in {"run_timeout", "run_failed"} : Conclude(r, x)

(* A command that has succeeded is one of these five. *)
LEMMA ProceedCases ==
    ASSUME FlowInv, NEW r \in Runs, Proceed(r)
    PROVE  /\ wf[r] = "run" /\ Has(r, step[r])
           /\ UNCHANGED <<order, node, token, gen, early, cand, kw>>
           /\ Created(r) \/ Started(r) \/ Waited(r) \/ Logged(r) \/ Collected(r)
<1>1. /\ wf[r] = "run" /\ asked[r] /\ Has(r, step[r])
      /\ UNCHANGED <<order, node, token, gen, early, cand, kw>>
  BY DEF Proceed, Has
<1>2. step[r] \in {"create", "start", "wait", "logs", "collect"}
  BY <1>1 DEF FlowInv, Stage
<1>3. CASE step[r] = "create"
  BY <1>1, <1>3 DEF Proceed, Created
<1>4. CASE step[r] = "start"
  BY <1>1, <1>4 DEF Proceed, Started
<1>5. CASE step[r] = "wait"
  BY <1>1, <1>5 DEF Proceed, Waited
<1>6. CASE step[r] = "logs" /\ exit[r] = "ok"
  BY <1>1, <1>6 DEF Proceed, Logged
<1>7. CASE step[r] = "logs" /\ exit[r] # "ok"
  BY <1>1, <1>7 DEF Proceed, Collected
<1>8. CASE step[r] = "collect"
  BY <1>1, <1>8 DEF Proceed, Collected
<1> QED BY <1>1, <1>2, <1>3, <1>4, <1>5, <1>6, <1>7, <1>8

(* Users and workflows keep the rows' types. *)
LEMMA CoreRowType ==
    ASSUME TypeInv, FlowInv, CoreStep
    PROVE  RowType'
<1> USE DEF TypeInv, row, commands, flow, lanes, wire, studio, bounds
<1>1. ASSUME UNCHANGED row PROVE RowType'
  BY <1>1 DEF RowType, NoDup
<1>2. ASSUME NEW r \in Runs, OpenRequest(r) PROVE RowType'
  <2>1. order' = Append(order, r) /\ UNCHANGED <<state, node, known, token, gen>>
    BY <1>2 DEF OpenRequest
  <2>2. \A i \in 1 .. Len(order) : order[i] # r
    BY <1>2 DEF OpenRequest, ToSet, RowType
  <2>3. order \in Seq(Runs) /\ NoDup(order)
    BY DEF RowType
  <2>4. PICK t : t = order'
    OBVIOUS
  <2>5. t = Append(order, r)
    BY <2>1, <2>4
  <2>6. t \in Seq(Runs)
    BY <2>3, <2>5
  <2>7. NoDup(t)
    BY <2>2, <2>3, <2>5, NoDupAppend
  <2>8. NoDup(order)'
    BY <2>4, <2>7 DEF NoDup
  <2> QED BY <2>1, <2>4, <2>6, <2>8 DEF RowType
<1>3. ASSUME NEW r \in Runs, NEW x \in States,
             state' = [state EXCEPT ![r] = x],
             UNCHANGED <<order, node, gen>>,
             known' \in [Runs -> BOOLEAN],
             token' \in [Runs -> {None, "active", "revoked"}]
      PROVE  RowType'
  BY <1>3 DEF RowType, NoDup
<1>4. ASSUME UNCHANGED token
      PROVE  token' \in [Runs -> {None, "active", "revoked"}]
  BY <1>4 DEF RowType
<1>5. ASSUME UNCHANGED known PROVE known' \in [Runs -> BOOLEAN]
  BY <1>5 DEF RowType
<1>6. ASSUME NEW r \in Runs, Revoke(r)
      PROVE  token' \in [Runs -> {None, "active", "revoked"}]
  BY <1>6 DEF Revoke, RowType
<1>7. ASSUME NEW r \in Runs PROVE state[r] \in States
  BY DEF RowType
<1>8. /\ {"queued", "placing", "creating", "running", "collecting",
          "kill_requested", "killed"} \subseteq States
      /\ \A why : Outcome(why) \in States
  BY DEF States, Terminal, Failures, Outcome
<1>9. ASSUME NEW r \in Runs, CommitRequest(r) PROVE RowType'
  BY <1>3, <1>4, <1>5, <1>8, <1>9 DEF CommitRequest
<1>10. ASSUME NEW r \in Runs, KillRequest(r) \/ StopByOwner(r) PROVE RowType'
  <2>1. /\ Revoke(r) /\ UNCHANGED <<order, node, known, gen>>
        /\ \E x \in States : state' = [state EXCEPT ![r] = x]
    BY <1>8, <1>10 DEF KillRequest, StopByOwner
  <2> QED BY <1>3, <1>5, <1>6, <2>1
<1>11. ASSUME NEW r \in Runs, NEW to \in States, Advance(r, to)
       PROVE  \E x \in States : state' = [state EXCEPT ![r] = x]
  BY <1>7, <1>11 DEF Advance
<1>12. ASSUME NEW r \in Runs, Choose(r) PROVE RowType'
  <2>1. Advance(r, "placing") /\ UNCHANGED <<order, node, known, token, gen>>
    BY <1>12 DEF Choose
  <2> QED BY <1>3, <1>4, <1>5, <1>8, <1>11, <2>1
<1>13. ASSUME NEW r \in Runs, CommitPlacement(r) PROVE RowType'
  <2>1. /\ UNCHANGED <<order, state, known, token, gen>>
        /\ node' = [node EXCEPT ![r] =
                    IF state[r] \in Terminal \cup {"kill_requested"} THEN @
                    ELSE cand[r]]
    BY <1>13 DEF CommitPlacement
  <2>2. node' \in [Runs -> Studios \cup {None}]
    BY <2>1 DEF RowType, FlowType
  <2> QED BY <2>1, <2>2 DEF RowType, NoDup
<1>14. ASSUME NEW r \in Runs, BeginExecution(r) PROVE RowType'
  <2>1. (UNCHANGED state \/ Advance(r, "creating"))
        /\ UNCHANGED <<order, node, known, token, gen>>
    BY <1>14 DEF BeginExecution
  <2> QED BY <1>1, <1>3, <1>4, <1>5, <1>8, <1>11, <2>1
<1>15. ASSUME NEW r \in Runs, Proceed(r) PROVE RowType'
  <2>1. /\ UNCHANGED <<order, node, token, gen>>
        /\ UNCHANGED state \/ Advance(r, "running") \/ Advance(r, "collecting")
        /\ UNCHANGED known \/ known' = [known EXCEPT ![r] = TRUE]
    BY <1>15, ProceedCases DEF Created, Started, Waited, Logged, Collected
  <2>2. known' \in [Runs -> BOOLEAN]
    BY <2>1 DEF RowType
  <2>3. CASE UNCHANGED state
    BY <2>1, <2>2, <2>3 DEF RowType, NoDup
  <2> QED BY <1>3, <1>4, <1>8, <1>11, <2>1, <2>2, <2>3
<1>16. ASSUME NEW r \in Runs, Finalize(r) PROVE RowType'
  <2>1. /\ UNCHANGED <<order, node, known, gen>>
        /\ \/ UNCHANGED <<state, token>>
           \/ Revoke(r) /\ state' = [state EXCEPT ![r] = Outcome(detail[r])]
    BY <1>16, Zenon DEF Finalize
  <2> QED BY <1>1, <1>3, <1>5, <1>6, <1>8, <2>1
<1>17. ASSUME NEW r \in Runs, MarkKilled(r) PROVE RowType'
  <2>1. /\ UNCHANGED <<order, node, known, token, gen>>
        /\ \E x \in States : state' = [state EXCEPT ![r] = x]
    BY <1>7, <1>8, <1>17 DEF MarkKilled
  <2> QED BY <1>3, <1>4, <1>5, <2>1
<1>18. ASSUME NEW r \in Runs,
              \/ Dispatch(r) \/ PlaceStopped(r) \/ Gate(r) \/ Submit(r)
              \/ Fail(r) \/ Done(r)
       PROVE  UNCHANGED row
  BY <1>18 DEF Dispatch, PlaceStopped, Gate, Submit, Fail, Done
<1>19. ASSUME NEW r \in Runs,
              \/ DispatchKill(r) \/ BeginKill(r) \/ AwaitKill(r)
              \/ ProbeFails(r) \/ DrainFails(r)
       PROVE  UNCHANGED row
  BY <1>19 DEF DispatchKill, BeginKill, AwaitKill, ProbeFails, DrainFails
<1>20. ASSUME Crash \/ UNCHANGED vars PROVE UNCHANGED row
  BY <1>20 DEF Crash, vars
<1> QED
  BY <1>1, <1>2, <1>9, <1>10, <1>12, <1>13, <1>14, <1>15, <1>16, <1>17, <1>18,
     <1>19, <1>20 DEF CoreStep, User, Workflow, KillWorkflow

(* Users and workflows keep the workflows' types. *)
LEMMA CoreFlowType ==
    ASSUME TypeInv, FlowInv, CoreStep
    PROVE  FlowType'
<1> USE DEF TypeInv, row, commands, flow, lanes, wire, studio, bounds
<1> DEFINE Stages == {None, "place", "probe", "gate", "run", "final", "done",
                      "error"}
           Details == {None, "run_timeout", "run_result", "run_failed"}
<1>1. ASSUME UNCHANGED <<flow, kw>> PROVE FlowType'
  BY <1>1 DEF FlowType
<1>2. ASSUME NEW r \in Runs, NEW o \in Ops \cup {None}, Continue(r, o)
      PROVE  step' \in [Runs -> Ops \cup {None}] /\ asked' \in [Runs -> BOOLEAN]
  BY <1>2 DEF Continue, FlowType
<1>3. ASSUME NEW r \in Runs, NEW why \in Details, Conclude(r, why)
      PROVE  /\ wf' \in [Runs -> Stages] /\ detail' \in [Runs -> Details]
             /\ tries' \in [Runs -> Nat]
             /\ step' \in [Runs -> Ops \cup {None}] /\ asked' \in [Runs -> BOOLEAN]
  <2>1. Continue(r, None)
    BY <1>3 DEF Conclude
  <2>2. /\ wf' \in [Runs -> Stages] /\ detail' \in [Runs -> Details]
        /\ tries' \in [Runs -> Nat]
    BY <1>3 DEF Conclude, FlowType
  <2> QED BY <1>2, <2>1, <2>2
<1>4. ASSUME NEW r \in Runs, NEW why \in Details, Raise(r, why)
      PROVE  /\ wf' \in [Runs -> Stages] /\ detail' \in [Runs -> Details]
             /\ tries' \in [Runs -> Nat]
             /\ step' \in [Runs -> Ops \cup {None}] /\ asked' \in [Runs -> BOOLEAN]
  <2>1. CASE Conclude(r, why)
    BY <1>3, <2>1
  <2>2. CASE /\ tries' = [tries EXCEPT ![r] = @ + 1] /\ Continue(r, None)
             /\ UNCHANGED <<wf, detail>>
    <3>1. /\ wf' \in [Runs -> Stages] /\ detail' \in [Runs -> Details]
          /\ tries' \in [Runs -> Nat]
      BY <2>2 DEF FlowType
    <3> QED BY <1>2, <2>2, <3>1
  <2> QED BY <1>4, <2>1, <2>2 DEF Raise
<1>5. ASSUME NEW r \in Runs, Dispatch(r) \/ PlaceStopped(r) \/ Gate(r)
      PROVE  FlowType'
  <2>1. \E x \in {"place", "gate", "run", "done"} : wf' = [wf EXCEPT ![r] = x]
    BY <1>5 DEF Dispatch, PlaceStopped, Gate
  <2>2. UNCHANGED <<step, asked, early, tries, detail, cand, kw>>
    BY <1>5 DEF Dispatch, PlaceStopped, Gate
  <2> QED BY <2>1, <2>2 DEF FlowType
<1>6. ASSUME NEW r \in Runs, Choose(r) \/ CommitPlacement(r) \/ ProbeFails(r)
      PROVE  FlowType'
  <2>1. /\ \/ UNCHANGED wf
           \/ \E x \in {"place", "probe", "gate"} : wf' = [wf EXCEPT ![r] = x]
        /\ \/ UNCHANGED cand
           \/ \E n \in Studios \cup {None} : cand' = [cand EXCEPT ![r] = n]
    BY <1>6 DEF Choose, CommitPlacement, ProbeFails
  <2>2. UNCHANGED <<step, asked, early, tries, detail, kw>>
    BY <1>6 DEF Choose, CommitPlacement, ProbeFails
  <2>3. wf' \in [Runs -> Stages]
    BY <2>1 DEF FlowType
  <2>4. cand' \in [Runs -> Studios \cup {None}]
    BY <2>1 DEF FlowType
  <2> QED BY <2>2, <2>3, <2>4 DEF FlowType
<1>7. ASSUME NEW r \in Runs, BeginExecution(r) PROVE FlowType'
  <2>1. /\ Continue(r, "start") \/ Continue(r, "create")
        /\ UNCHANGED <<wf, tries, detail, cand, kw>>
    BY <1>7, Zenon DEF BeginExecution
  <2>2. early' \in [Runs -> BOOLEAN]
    <3> DEFINE b == state[r] \in {"queued", "placing", "creating"}
    <3>1. early' = [early EXCEPT ![r] = b] \/ early' = [early EXCEPT ![r] = TRUE]
      BY <1>7, Zenon DEF BeginExecution
    <3>2. b \in BOOLEAN
      OBVIOUS
    <3> HIDE DEF b
    <3> QED BY <3>1, <3>2 DEF FlowType
  <2>3. "start" \in Ops \cup {None} /\ "create" \in Ops \cup {None}
    BY DEF Ops
  <2>4. step' \in [Runs -> Ops \cup {None}] /\ asked' \in [Runs -> BOOLEAN]
    BY <1>2, <2>1, <2>3
  <2> QED BY <2>1, <2>2, <2>4 DEF FlowType
<1>8. ASSUME NEW r \in Runs, Submit(r) PROVE FlowType'
  <2>1. /\ UNCHANGED <<early, cand, kw>>
        /\ \/ Raise(r, "run_failed")
           \/ /\ asked' = [asked EXCEPT ![r] = TRUE]
              /\ UNCHANGED <<wf, step, tries, detail>>
    BY <1>8 DEF Submit
  <2>2. CASE Raise(r, "run_failed")
    BY <1>4, <2>1, <2>2 DEF FlowType
  <2>3. CASE /\ asked' = [asked EXCEPT ![r] = TRUE]
             /\ UNCHANGED <<wf, step, tries, detail>>
    BY <2>1, <2>3 DEF FlowType
  <2> QED BY <2>1, <2>2, <2>3
<1>9. ASSUME NEW r \in Runs, Proceed(r) PROVE FlowType'
  <2>1. UNCHANGED <<early, cand, kw>>
    BY <1>9 DEF Proceed
  <2>2. \/ \E o \in Ops : Continue(r, o) /\ UNCHANGED <<wf, tries, detail>>
        \/ \E why \in Details : Conclude(r, why)
    BY <1>9, ProceedCases DEF Created, Started, Waited, Logged, Collected, Ops
  <2>3. ASSUME NEW o \in Ops, Continue(r, o), UNCHANGED <<wf, tries, detail>>
        PROVE  FlowType'
    BY <1>2, <2>1, <2>3 DEF FlowType
  <2>4. ASSUME NEW why \in Details, Conclude(r, why) PROVE FlowType'
    BY <1>3, <2>1, <2>4 DEF FlowType
  <2> QED BY <2>2, <2>3, <2>4
<1>10. ASSUME NEW r \in Runs, Fail(r) PROVE FlowType'
  <2>1. UNCHANGED <<early, cand, kw>> /\ \E why \in Details : Raise(r, why)
    BY <1>10 DEF Fail
  <2> QED BY <1>4, <2>1 DEF FlowType
<1>11. ASSUME NEW r \in Runs, DrainFails(r) PROVE FlowType'
  <2>1. /\ tries' = [tries EXCEPT ![r] = @ + 1]
        /\ UNCHANGED <<step, asked, early, detail, cand, kw>>
        /\ wf' = [wf EXCEPT ![r] = IF tries[r] + 1 < FinalAttempts THEN @
                               ELSE "error"]
    BY <1>11 DEF DrainFails
  <2>2. wf' \in [Runs -> Stages]
    BY <2>1 DEF FlowType
  <2> QED BY <2>1, <2>2 DEF FlowType
<1>12. ASSUME NEW r \in Runs, Finalize(r) PROVE FlowType'
  <2>1. Continue(r, "remove") /\ UNCHANGED <<wf, early, tries, detail, cand, kw>>
    BY <1>12 DEF Finalize
  <2>2. "remove" \in Ops \cup {None}
    BY DEF Ops
  <2> QED BY <1>2, <2>1, <2>2 DEF FlowType
<1>13. ASSUME NEW r \in Runs, Done(r) PROVE FlowType'
  <2>1. /\ Continue(r, None) /\ UNCHANGED <<early, tries, detail, cand, kw>>
        /\ wf' = [wf EXCEPT ![r] = "done"]
    BY <1>13 DEF Done
  <2> QED BY <1>2, <2>1 DEF FlowType
<1>14. ASSUME NEW r \in Runs, KillWorkflow(r) PROVE FlowType'
  <2>1. /\ UNCHANGED flow
        /\ \E x \in {"start", "await", "mark", "done", "error"} :
               kw' = [kw EXCEPT ![r] = x]
    BY <1>14 DEF KillWorkflow, DispatchKill, BeginKill, AwaitKill, MarkKilled
  <2> QED BY <2>1 DEF FlowType
<1>15. ASSUME NEW r \in Runs, User(r) PROVE UNCHANGED <<flow, kw>>
  BY <1>15 DEF User, OpenRequest, CommitRequest, KillRequest, StopByOwner
<1>16. ASSUME Crash PROVE FlowType'
  BY <1>16 DEF Crash, FlowType
<1>17. ASSUME UNCHANGED vars PROVE UNCHANGED <<flow, kw>>
  BY <1>17 DEF vars
<1> QED
  BY <1>1, <1>5, <1>6, <1>7, <1>8, <1>9, <1>10, <1>11, <1>12, <1>13, <1>14, <1>15,
     <1>16, <1>17 DEF CoreStep, Workflow

(* Only the commit of a request makes it late. *)
LEMMA LateStep ==
    ASSUME [Next]_vars
    PROVE  UNCHANGED late \/ \E r \in Runs : CommitRequest(r)
<1> USE DEF row, commands, flow, lanes, wire, studio, bounds
<1>1. ASSUME NEW r \in Runs, \/ ProbeFails(r) \/ DrainFails(r)
                             \/ KillUnanswered(r) \/ KillTimesOut(r)
      PROVE  UNCHANGED late
  BY <1>1 DEF ProbeFails, DrainFails, KillUnanswered, KillTimesOut
<1>2. ASSUME GiveUp \/ Crash \/ Pick \/ Mint \/ UNCHANGED vars PROVE UNCHANGED late
  BY <1>2 DEF GiveUp, Crash, Pick, Mint, vars
<1>3. ASSUME StudioStep PROVE UNCHANGED late
  BY <1>3, StudioFrame
<1>4. ASSUME NEW r \in Runs, \/ OpenRequest(r) \/ KillRequest(r) \/ StopByOwner(r)
                             \/ KillWorkflow(r) \/ SendKill(r)
      PROVE  UNCHANGED late
  BY <1>4 DEF OpenRequest, KillRequest, StopByOwner,
              KillWorkflow, DispatchKill, BeginKill, AwaitKill, MarkKilled, SendKill
<1>5. ASSUME NEW r \in Runs, \/ Dispatch(r) \/ Choose(r) \/ PlaceStopped(r)
                             \/ CommitPlacement(r) \/ Gate(r)
      PROVE  UNCHANGED late
  BY <1>5 DEF Dispatch, Choose, PlaceStopped, CommitPlacement, Gate
<1>6. ASSUME NEW r \in Runs, \/ BeginExecution(r) \/ Submit(r) \/ Proceed(r)
                             \/ Fail(r) \/ Finalize(r) \/ Done(r)
      PROVE  UNCHANGED late
  BY <1>6 DEF BeginExecution, Submit, Proceed, Fail, Finalize, Done
<1> QED
  BY <1>1, <1>2, <1>3, <1>4, <1>5, <1>6, Steps
     DEF CoreStep, ExecStep, User, Workflow

(* The counters stay within their bounds. *)
LEMMA BoundStep ==
    ASSUME TypeInv, [Next]_vars
    PROVE  BoundType'
<1> USE DEF TypeInv, row, commands, flow, lanes, wire, studio, bounds
<1>0. MaxCrashes \in Nat /\ MaxFaults \in Nat /\ MaxStalls \in Nat
  BY AgentRunsAssumption
<1>1. ASSUME UNCHANGED bounds PROVE BoundType'
  BY <1>1 DEF BoundType
<1>2. ASSUME \/ crashes < MaxCrashes /\ crashes' = crashes + 1
                /\ UNCHANGED <<late, faults, stalls>>
             \/ faults < MaxFaults /\ faults' = faults + 1
                /\ UNCHANGED <<late, crashes, stalls>>
             \/ stalls < MaxStalls /\ stalls' = stalls + 1
                /\ UNCHANGED <<late, crashes, faults>>
      PROVE  BoundType'
  BY <1>0, <1>2 DEF BoundType
<1>3. ASSUME NEW r \in Runs, ProbeFails(r) \/ DrainFails(r) \/ KillUnanswered(r)
      PROVE  BoundType'
  BY <1>2, <1>3, Zenon DEF ProbeFails, DrainFails, KillUnanswered
<1>4. ASSUME NEW r \in Runs, KillTimesOut(r) PROVE BoundType'
  BY <1>2, <1>4, Zenon DEF KillTimesOut
<1>5. ASSUME GiveUp \/ Crash PROVE BoundType'
  BY <1>2, <1>5, Zenon DEF GiveUp, Crash
<1>6. ASSUME StudioStep PROVE BoundType'
  BY <1>1, <1>6, StudioFrame
<1>7. ASSUME NEW r \in Runs, \/ OpenRequest(r) \/ KillRequest(r) \/ StopByOwner(r)
                             \/ KillWorkflow(r) \/ SendKill(r)
      PROVE  UNCHANGED bounds
  BY <1>7 DEF OpenRequest, KillRequest, StopByOwner,
              KillWorkflow, DispatchKill, BeginKill, AwaitKill, MarkKilled, SendKill
<1>11. ASSUME NEW r \in Runs, CommitRequest(r) PROVE BoundType'
  <2>1. UNCHANGED <<crashes, faults, stalls>> /\ late' \subseteq late \cup {r}
    BY <1>11 DEF CommitRequest
  <2> QED BY <2>1 DEF BoundType
<1>8. ASSUME NEW r \in Runs, \/ Dispatch(r) \/ Choose(r) \/ PlaceStopped(r)
                             \/ CommitPlacement(r) \/ Gate(r)
      PROVE  UNCHANGED bounds
  BY <1>8 DEF Dispatch, Choose, PlaceStopped, CommitPlacement, Gate
<1>9. ASSUME NEW r \in Runs, \/ BeginExecution(r) \/ Submit(r) \/ Proceed(r)
                             \/ Fail(r) \/ Finalize(r) \/ Done(r)
      PROVE  UNCHANGED bounds
  BY <1>9 DEF BeginExecution, Submit, Proceed, Fail, Finalize, Done
<1>10. ASSUME Pick \/ Mint \/ UNCHANGED vars PROVE UNCHANGED bounds
  BY <1>10 DEF Pick, Mint, vars
<1> QED
  BY <1>1, <1>3, <1>4, <1>5, <1>6, <1>7, <1>8, <1>9, <1>10, <1>11, Steps
     DEF CoreStep, ExecStep, User, Workflow

(* The first calls of a queue of calls, and the others *)
LEMMA CallsLeft ==
    ASSUME NEW s \in Seq(Nat)
    PROVE  /\ Front(s) \in Seq(Nat) /\ (Front(s) # <<>> => s # <<>>)
           /\ s # <<>> =>
                 /\ Tail(s) \in Seq(Nat) /\ Head(s) \in Nat
                 /\ Len(s) = 1 => Tail(s) = <<>> /\ Head(s) = s[Len(s)]
                 /\ Len(s) # 1 => /\ Tail(s) # <<>>
                                  /\ Tail(s)[Len(Tail(s))] = s[Len(s)]
<1>1. Len(s) \in Nat /\ (Len(s) = 0 <=> s = <<>>)
  OBVIOUS
<1>2. Front(s) \in Seq(Nat) /\ (Front(s) # <<>> => s # <<>>)
  BY <1>1 DEF Front
<1>3. ASSUME s # <<>>
      PROVE  /\ Tail(s) \in Seq(Nat) /\ Head(s) \in Nat
             /\ Len(s) = 1 => Tail(s) = <<>> /\ Head(s) = s[Len(s)]
             /\ Len(s) # 1 => /\ Tail(s) # <<>>
                              /\ Tail(s)[Len(Tail(s))] = s[Len(s)]
  <2>1. /\ Tail(s) \in Seq(Nat) /\ Len(Tail(s)) = Len(s) - 1
        /\ \A i \in 1 .. Len(s) - 1 : Tail(s)[i] = s[i + 1]
        /\ Head(s) = s[1] /\ Len(s) >= 1
    BY <1>1, <1>3
  <2>2. Head(s) \in Nat
    BY <1>3
  <2>3. Len(Tail(s)) = 0 <=> Tail(s) = <<>>
    <3>1. \A t \in Seq(Nat) : Len(t) = 0 <=> t = <<>>
      OBVIOUS
    <3> QED BY <2>1, <3>1
  <2>4. CASE Len(s) = 1
    <3>1. Len(Tail(s)) = 0 /\ Head(s) = s[Len(s)]
      BY <2>1, <2>4
    <3> QED BY <2>1, <2>2, <2>3, <2>4, <3>1
  <2>5. CASE Len(s) # 1
    <3>1. Len(s) - 1 \in 1 .. Len(s) - 1 /\ Len(Tail(s)) = Len(s) - 1
      BY <1>1, <2>1, <2>5
    <3>2. Tail(s)[Len(s) - 1] = s[Len(s) - 1 + 1]
      BY <2>1, <3>1
    <3>3. Len(s) - 1 + 1 = Len(s) /\ Len(Tail(s)) # 0
      BY <1>1, <2>1, <2>5
    <3> QED BY <2>1, <2>2, <2>3, <2>5, <3>1, <3>2, <3>3
  <2> QED BY <2>4, <2>5
<1> QED BY <1>2, <1>3

(* The executor at work has a run. *)
LEMMA LaneHasRun ==
    ASSUME TypeInv, lane.at # "idle"
    PROVE  lane.run \in Runs /\ lane.op \in Queued /\ lane # NoWork
BY DEF TypeInv, CommandType, NoWork

(* The rows, the Studios and the calls keep their types under the executor. *)
LEMMA ExecTypes ==
    ASSUME TypeInv, ExecStep
    PROVE  RowType' /\ StudioType'
<1> USE DEF TypeInv, row, commands, flow, lanes, wire, studio, bounds
<1>0. /\ UNCHANGED <<order, state, node, known, box, held, starts, exit, reap>>
      /\ order \in Seq(Runs) /\ NoDup(order)
  BY ExecFrame DEF RowType
<1>1. ASSUME UNCHANGED <<token, gen>> PROVE RowType'
  BY <1>0, <1>1 DEF RowType, NoDup
<1>2. ASSUME killing' \subseteq Runs, creates' \in [Runs -> Seq(Nat)],
             sent' \subseteq Runs \X (Ops \ {"create"})
      PROVE  StudioType'
  BY <1>0, <1>2 DEF StudioType
<1>3. /\ killing \subseteq Runs /\ creates \in [Runs -> Seq(Nat)]
      /\ sent \subseteq Runs \X (Ops \ {"create"})
  BY DEF StudioType
<1>4. ASSUME Pick PROVE RowType' /\ StudioType'
  <2> DEFINE r == Head(queue)[1]
             o == Head(queue)[2]
  <2>1. /\ UNCHANGED <<token, gen, killing, creates>> /\ queue # <<>>
        /\ UNCHANGED sent \/ (sent' = IF o = "create" THEN sent ELSE sent \cup {<<r, o>>})
    BY <1>4 DEF Pick
  <2>2. r \in Runs /\ o \in Queued
    BY <2>1, HeadOfQueue
  <2> HIDE DEF r, o
  <2>3. sent' \subseteq Runs \X (Ops \ {"create"})
    BY <1>3, <2>1, <2>2 DEF Queued
  <2> QED BY <1>1, <1>2, <1>3, <2>1, <2>3
<1>5. ASSUME Mint PROVE RowType' /\ StudioType'
  <2>1. /\ UNCHANGED <<killing, sent>> /\ lane.at = "checked"
        /\ \/ UNCHANGED <<token, gen, creates>>
           \/ /\ token' = [token EXCEPT ![lane.run] = "active"]
              /\ gen' = [gen EXCEPT ![lane.run] = @ + 1]
              /\ creates' = [creates EXCEPT ![lane.run] = Append(@, gen[lane.run] + 1)]
    BY <1>5 DEF Mint
  <2>2. lane.run \in Runs
    BY <2>1, LaneHasRun
  <2>3. CASE UNCHANGED <<token, gen, creates>>
    BY <1>1, <1>2, <1>3, <2>1, <2>3
  <2>4. CASE /\ token' = [token EXCEPT ![lane.run] = "active"]
             /\ gen' = [gen EXCEPT ![lane.run] = @ + 1]
             /\ creates' = [creates EXCEPT ![lane.run] = Append(@, gen[lane.run] + 1)]
    <3>1. gen[lane.run] + 1 \in Nat /\ creates[lane.run] \in Seq(Nat)
      BY <1>3, <2>2 DEF RowType
    <3>2. Append(creates[lane.run], gen[lane.run] + 1) \in Seq(Nat)
      BY <3>1
    <3>3. creates' \in [Runs -> Seq(Nat)]
      BY <1>3, <2>2, <2>4, <3>2
    <3>4. RowType'
      BY <1>0, <2>2, <2>4, <3>1 DEF RowType, NoDup
    <3> QED BY <1>2, <1>3, <2>1, <3>3, <3>4
  <2> QED BY <2>1, <2>3, <2>4
<1>6. ASSUME GiveUp PROVE RowType' /\ StudioType'
  <2>1. /\ UNCHANGED <<token, gen, killing>> /\ lane.at = "sent"
        /\ UNCHANGED sent \/ sent' = sent \ {<<lane.run, lane.op>>}
        /\ \/ UNCHANGED creates
           \/ creates' = [creates EXCEPT ![lane.run] = Front(@)]
    BY <1>6 DEF GiveUp
  <2>2. lane.run \in Runs
    BY <2>1, LaneHasRun
  <2>3. Front(creates[lane.run]) \in Seq(Nat)
    BY <1>3, <2>2, CallsLeft
  <2>4. creates' \in [Runs -> Seq(Nat)]
    BY <1>3, <2>1, <2>2, <2>3
  <2>5. killing' \subseteq Runs /\ sent' \subseteq Runs \X (Ops \ {"create"})
    BY <1>3, <2>1
  <2> QED BY <1>1, <1>2, <2>1, <2>4, <2>5
<1>7. ASSUME NEW r \in Runs, SendKill(r) \/ KillUnanswered(r) \/ KillTimesOut(r)
      PROVE  RowType' /\ StudioType'
  <2>1. /\ UNCHANGED <<token, gen, creates>>
        /\ killing' \subseteq killing \cup {r}
        /\ sent' \subseteq sent \cup {<<r, "kill">>}
    BY <1>7 DEF SendKill, KillUnanswered, KillTimesOut
  <2>2. killing' \subseteq Runs /\ sent' \subseteq Runs \X (Ops \ {"create"})
    BY <1>3, <2>1 DEF Ops
  <2> QED BY <1>1, <1>2, <1>3, <2>1, <2>2
<1> QED BY <1>4, <1>5, <1>6, <1>7 DEF ExecStep

(* The Studios keep their types. *)
LEMMA StudioTypes ==
    ASSUME TypeInv, StudioStep
    PROVE  StudioType'
<1> USE DEF TypeInv, row, commands, flow, lanes, wire, studio, bounds
<1> DEFINE Boxes == {"absent", "relay", "created", "running"} \cup Exited
           Exits == {None, "timed_out"} \cup Exited
           Calls == Runs \X (Ops \ {"create"})
<1>0. /\ killing \subseteq Runs /\ creates \in [Runs -> Seq(Nat)]
      /\ sent \subseteq Calls /\ box \in [Runs -> Boxes]
      /\ held \in [Runs -> Nat] /\ starts \in [Runs -> Nat]
      /\ exit \in [Runs -> Exits] /\ reap \in [Studios -> Scans]
  BY DEF StudioType
<1>1. ASSUME killing' \subseteq Runs, creates' \in [Runs -> Seq(Nat)],
             sent' \subseteq Calls, box' \in [Runs -> Boxes],
             held' \in [Runs -> Nat], starts' \in [Runs -> Nat],
             exit' \in [Runs -> Exits], reap' \in [Studios -> Scans]
      PROVE  StudioType'
  BY <1>1 DEF StudioType
<1>2. ASSUME NEW r \in Runs, ServeCreate(r) PROVE StudioType'
  <2>1. /\ UNCHANGED <<killing, sent, starts, exit, reap>> /\ creates[r] # <<>>
        /\ creates' = [creates EXCEPT ![r] = Tail(@)]
        /\ UNCHANGED box \/ \E x \in Boxes : box' = [box EXCEPT ![r] = x]
        /\ \/ UNCHANGED held
           \/ \E x \in {Head(creates[r]), 0} : held' = [held EXCEPT ![r] = x]
    BY <1>2 DEF ServeCreate
  <2>2. Tail(creates[r]) \in Seq(Nat) /\ Head(creates[r]) \in Nat
    BY <1>0, <2>1, CallsLeft
  <2>3. creates' \in [Runs -> Seq(Nat)]
    BY <1>0, <2>1, <2>2
  <2>4. box' \in [Runs -> Boxes]
    BY <1>0, <2>1
  <2>5. held' \in [Runs -> Nat]
    <3>1. \A x \in {Head(creates[r]), 0} : x \in Nat
      BY <2>2
    <3>2. UNCHANGED held \/ \E x \in Nat : held' = [held EXCEPT ![r] = x]
      BY <2>1, <3>1
    <3> QED BY <1>0, <3>2
  <2> QED BY <1>0, <1>1, <2>1, <2>3, <2>4, <2>5
<1>3. ASSUME NEW r \in Runs, ServeStart(r) PROVE StudioType'
  <2>1. /\ UNCHANGED <<killing, creates, held, exit, reap>> /\ sent' \subseteq sent
        /\ UNCHANGED box \/ box' = [box EXCEPT ![r] = "running"]
        /\ UNCHANGED starts \/ starts' = [starts EXCEPT ![r] = @ + 1]
    BY <1>3 DEF ServeStart, Serve
  <2>2. box' \in [Runs -> Boxes]
    BY <1>0, <2>1
  <2>3. starts' \in [Runs -> Nat]
    BY <1>0, <2>1
  <2> QED BY <1>0, <1>1, <2>1, <2>2, <2>3
<1>4. ASSUME NEW r \in Runs, ServeWait(r) PROVE StudioType'
  <2>1. /\ UNCHANGED <<killing, creates, held, starts, reap>> /\ sent' \subseteq sent
        /\ UNCHANGED box \/ box' = [box EXCEPT ![r] = "bad"]
        /\ UNCHANGED exit \/ \E x \in Exits : exit' = [exit EXCEPT ![r] = x]
    BY <1>4 DEF ServeWait, Serve
  <2>2. box' \in [Runs -> Boxes] /\ exit' \in [Runs -> Exits]
    BY <1>0, <2>1 DEF Exited
  <2> QED BY <1>0, <1>1, <2>1, <2>2
<1>5. ASSUME NEW r \in Runs, NEW o, ServeRead(r, o) PROVE StudioType'
  <2>1. /\ UNCHANGED <<killing, creates, box, held, starts, exit, reap>>
        /\ sent' \subseteq sent
    BY <1>5 DEF ServeRead, Serve
  <2> QED BY <1>0, <1>1, <2>1
<1>6. ASSUME NEW r \in Runs, ServeRemove(r) \/ ServeKill(r) \/ Exit(r)
      PROVE  StudioType'
  <2>1. /\ UNCHANGED <<creates, held, starts, exit, reap>>
        /\ sent' \subseteq sent /\ killing' \subseteq killing
        /\ \E x \in Boxes : box' = [box EXCEPT ![r] = x]
    BY <1>6 DEF ServeRemove, ServeKill, Serve, Exit
  <2>2. box' \in [Runs -> Boxes]
    BY <1>0, <2>1
  <2> QED BY <1>0, <1>1, <2>1, <2>2
<1>7. ASSUME NEW n \in Studios, Reconcile(n) PROVE StudioType'
  <2>1. /\ UNCHANGED <<killing, creates, sent, held, starts, exit>>
        /\ UNCHANGED box \/ \E K : Sweep(n, K)
        /\ \/ UNCHANGED reap
           \/ \E x \in {Scan(Active(n)), NoScan} : reap' = [reap EXCEPT ![n] = x]
    BY <1>7 DEF Reconcile, Observe, ServeReap
  <2>2. box' \in [Runs -> Boxes]
    BY <1>0, <2>1 DEF Sweep
  <2>3. Scan(Active(n)) \in Scans /\ NoScan \in Scans
    BY DEF Scan, NoScan, Scans, Active
  <2>4. reap' \in [Studios -> Scans]
    BY <1>0, <2>1, <2>3
  <2> QED BY <1>0, <1>1, <2>1, <2>2, <2>4
<1> QED BY <1>2, <1>3, <1>4, <1>5, <1>6, <1>7 DEF StudioStep, Studio

(* Every step keeps the types. *)
LEMMA TypeStep ==
    ASSUME TypeInv, FlowInv, [Next]_vars
    PROVE  TypeInv'
<1>1. CommandType' /\ QueueInv'
  BY WorkMoves, QueueStep
<1>2. BoundType'
  BY BoundStep
<1>3. CASE CoreStep
  <2>1. StudioType'
    BY <1>3, CoreFrame DEF TypeInv, StudioType, wire, studio
  <2> QED BY <1>1, <1>2, <1>3, <2>1, CoreRowType, CoreFlowType DEF TypeInv
<1>4. CASE ExecStep
  <2>1. FlowType'
    BY <1>4, ExecFrame DEF TypeInv, FlowType, flow
  <2> QED BY <1>1, <1>2, <1>4, <2>1, ExecTypes DEF TypeInv
<1>5. CASE StudioStep
  <2>1. FlowType' /\ RowType'
    BY <1>5, StudioFrame DEF TypeInv, FlowType, flow, RowType, row, NoDup
  <2> QED BY <1>1, <1>2, <1>5, <2>1, StudioTypes DEF TypeInv
<1> QED BY <1>3, <1>4, <1>5, Steps

-----------------------------------------------------------------------------
(* How rows and workflows move *)

Ending == Terminal \cup {"kill_requested"}

(* The row of a run, in a step of the workflows or a user: an end is not   *)
(* left, and a run moves ahead on commands that have succeeded.            *)
RowMove(r) ==
    /\ state[r] \in Ending => state'[r] \in Ending
    /\ state[r] = "succeeded" => state'[r] = "succeeded"
    /\ \/ token'[r] = token[r]
       \/ token[r] # None /\ token'[r] = "revoked" /\ state'[r] \in Ending
    /\ known'[r] => known[r] \/ Has(r, "create")
    /\ state'[r] \in {"running", "collecting"} =>
           state[r] \in {"running", "collecting"} \/ Has(r, "create")
    /\ state'[r] = "succeeded" /\ state[r] # "succeeded" =>
           /\ wf[r] = "final" /\ detail[r] = None
           /\ token[r] # None => token'[r] = "revoked"

(* The row of a run moves in one of the ways RowMove lists. *)
LEMMA RowMoves ==
    ASSUME TypeInv, FlowInv, CoreStep, NEW r \in Runs
    PROVE  RowMove(r)
<1> USE DEF row, commands, flow, lanes, wire, studio, bounds
<1>0. /\ state \in [Runs -> States] /\ known \in [Runs -> BOOLEAN]
      /\ token \in [Runs -> {None, "active", "revoked"}]
  BY DEF TypeInv, RowType
<1>1. ASSUME state'[r] = state[r], token'[r] = token[r], known'[r] = known[r]
      PROVE  RowMove(r)
  BY <1>1 DEF RowMove
<1>2. ASSUME UNCHANGED <<state, token, known>> PROVE RowMove(r)
  BY <1>1, <1>2
<1>3. ASSUME NEW a \in Runs, CommitRequest(a) PROVE RowMove(r)
  BY <1>0, <1>3 DEF CommitRequest, RowMove, Ending, Terminal, Failures, None
<1>4. ASSUME NEW a \in Runs, KillRequest(a) \/ StopByOwner(a) PROVE RowMove(r)
  <2>1. /\ Revoke(a) /\ UNCHANGED known /\ state[a] \notin Terminal
        /\ \E x \in {"kill_requested", "killed"} : state' = [state EXCEPT ![a] = x]
    BY <1>4 DEF KillRequest, StopByOwner, MayMove
  <2> QED BY <1>0, <2>1 DEF Revoke, RowMove, Ending, Terminal, Failures
<1>5. ASSUME NEW a \in Runs, Choose(a) PROVE RowMove(r)
  <2>1. Advance(a, "placing") /\ UNCHANGED <<known, token>>
    BY <1>5 DEF Choose
  <2> QED BY <1>0, <2>1 DEF Advance, RowMove, Ending, Terminal, Failures
<1>6. ASSUME NEW a \in Runs, BeginExecution(a) PROVE RowMove(r)
  <2>1. (UNCHANGED state \/ Advance(a, "creating")) /\ UNCHANGED <<known, token>>
    BY <1>6 DEF BeginExecution
  <2> QED BY <1>0, <2>1 DEF Advance, RowMove, Ending, Terminal, Failures
<1>7. ASSUME NEW a \in Runs, Proceed(a) PROVE RowMove(r)
  <2>1. UNCHANGED token /\ Has(a, step[a]) /\ wf[a] = "run"
    BY <1>7, ProceedCases
  <2>2. step[a] \notin {None, "create"} => Has(a, "create")
    BY <2>1 DEF FlowInv, Stage
  <2>3. CASE Created(a)
    BY <1>0, <2>1, <2>3 DEF Created, RowMove
  <2>4. CASE Started(a) \/ Logged(a)
    <3>1. /\ Has(a, "create") /\ UNCHANGED known
          /\ UNCHANGED state \/ Advance(a, "running") \/ Advance(a, "collecting")
      BY <2>2, <2>4 DEF Started, Logged, None
    <3> QED BY <1>0, <2>1, <3>1 DEF Advance, RowMove, Ending, Terminal, Failures
  <2>5. CASE Waited(a) \/ Collected(a)
    BY <1>2, <2>1, <2>5 DEF Waited, Collected
  <2> QED BY <1>7, <2>3, <2>4, <2>5, ProceedCases
<1>8. ASSUME NEW a \in Runs, Finalize(a) PROVE RowMove(r)
  <2>1. /\ wf[a] = "final" /\ UNCHANGED known
        /\ \/ UNCHANGED <<state, token>>
           \/ /\ Revoke(a) /\ state[a] \notin Ending
              /\ state' = [state EXCEPT ![a] = Outcome(detail[a])]
    BY <1>8, Zenon DEF Finalize, Ending
  <2>2. /\ Outcome(detail[a]) \in Ending
        /\ Outcome(detail[a]) \notin {"running", "collecting"}
        /\ Outcome(detail[a]) = "succeeded" => detail[a] = None
    BY DEF Outcome, Ending, Terminal, Failures
  <2>3. CASE UNCHANGED <<state, token>>
    BY <1>2, <2>1, <2>3
  <2>4. CASE /\ Revoke(a) /\ state[a] \notin Ending
             /\ state' = [state EXCEPT ![a] = Outcome(detail[a])]
    <3>1. CASE a # r
      <4>1. state'[r] = state[r] /\ token'[r] = token[r] /\ known'[r] = known[r]
        BY <1>0, <2>1, <2>4, <3>1 DEF Revoke
      <4> QED BY <1>1, <4>1
    <3>2. CASE a = r
      <4>1. /\ state'[r] = Outcome(detail[r]) /\ known'[r] = known[r]
            /\ token'[r] = IF token[r] = None THEN None ELSE "revoked"
        BY <1>0, <2>1, <2>4, <3>2 DEF Revoke
      <4>2. state[r] # "succeeded"
        BY <2>4, <3>2 DEF Ending, Terminal
      <4> QED BY <2>1, <2>2, <2>4, <3>2, <4>1, <4>2 DEF RowMove
    <3> QED BY <3>1, <3>2
  <2> QED BY <2>1, <2>3, <2>4
<1>9. ASSUME NEW a \in Runs, MarkKilled(a) PROVE RowMove(r)
  <2>1. /\ UNCHANGED <<known, token>>
        /\ state' = [state EXCEPT ![a] = IF @ = "kill_requested" THEN "killed"
                                         ELSE @]
    BY <1>9 DEF MarkKilled
  <2> QED BY <1>0, <2>1 DEF RowMove, Ending, Terminal
<1>10. ASSUME NEW a \in Runs,
              \/ OpenRequest(a) \/ Dispatch(a) \/ PlaceStopped(a) \/ Gate(a)
              \/ Submit(a) \/ Fail(a) \/ Done(a) \/ CommitPlacement(a)
       PROVE  UNCHANGED <<state, token, known>>
  BY <1>10 DEF OpenRequest, Dispatch, PlaceStopped, Gate, Submit, Fail, Done,
               CommitPlacement
<1>11. ASSUME NEW a \in Runs,
              \/ DispatchKill(a) \/ BeginKill(a) \/ AwaitKill(a)
              \/ ProbeFails(a) \/ DrainFails(a)
       PROVE  UNCHANGED <<state, token, known>>
  BY <1>11 DEF DispatchKill, BeginKill, AwaitKill, ProbeFails, DrainFails
<1>12. ASSUME Crash \/ UNCHANGED vars PROVE UNCHANGED <<state, token, known>>
  BY <1>12 DEF Crash, vars
<1> QED
  BY <1>2, <1>3, <1>4, <1>5, <1>6, <1>7, <1>8, <1>9, <1>10, <1>11, <1>12
     DEF CoreStep, User, Workflow, KillWorkflow

(* What has succeeded stays, and so does what was earned while the exit    *)
(* stands.                                                                 *)
Keeps(r) == \A o \in Queued : Has(r, o) => Has(r, o)'

(* Commands that have succeeded stay so. *)
LEMMA Kept ==
    ASSUME TypeInv, [Next]_vars, NEW r \in Runs
    PROVE  Keeps(r)
BY WorkMoves, SettledStays DEF Keeps

(* What an exit has earned stays earned while the exit is remembered. *)
LEMMA EarnedKept ==
    ASSUME NEW r, Keeps(r), exit'[r] = exit[r]
    PROVE  /\ Earned(r) => Earned(r)'
           /\ Has(r, "create") => Has(r, "create")'
           /\ Has(r, "wait") => Has(r, "wait")'
<1>1. {"create", "wait", "collect"} \subseteq Queued
  BY DEF Queued, Ops
<1> QED BY <1>1 DEF Keeps, Earned

(* A workflow that rests keeps its stage. *)
LEMMA StageKept ==
    ASSUME NEW r, Stage(r), Keeps(r), exit'[r] = exit[r], wf'[r] = wf[r],
           step'[r] = step[r], asked'[r] = asked[r], detail'[r] = detail[r]
    PROVE  Stage(r)'
BY EarnedKept DEF Stage

(* Users and workflows keep the stages. *)
LEMMA CoreStage ==
    ASSUME TypeInv, FlowInv, CoreStep, [Next]_vars, NEW r \in Runs
    PROVE  Stage(r)'
<1> USE DEF row, commands, flow, lanes, wire, studio, bounds
<1>0. /\ Stage(r) /\ Keeps(r) /\ exit' = exit
  BY Kept, CoreFrame DEF FlowInv
<1>1. /\ wf \in [Runs -> {None, "place", "probe", "gate", "run", "final", "done",
                          "error"}]
      /\ step \in [Runs -> Ops \cup {None}] /\ asked \in [Runs -> BOOLEAN]
      /\ detail \in [Runs -> {None, "run_timeout", "run_result", "run_failed"}]
  BY DEF TypeInv, FlowType
<1>2. ASSUME wf'[r] = wf[r], step'[r] = step[r], asked'[r] = asked[r],
             detail'[r] = detail[r]
      PROVE  Stage(r)'
  BY <1>0, <1>2, StageKept
<1>3. ASSUME UNCHANGED <<wf, step, asked, detail>> PROVE Stage(r)'
  BY <1>2, <1>3
<1>4. ASSUME NEW a \in Runs, NEW o, Continue(a, o)
      PROVE  /\ a = r => step'[r] = o /\ asked'[r] = FALSE
             /\ a # r => step'[r] = step[r] /\ asked'[r] = asked[r]
  BY <1>1, <1>4 DEF Continue
<1>5. ASSUME NEW a \in Runs, NEW why, Conclude(a, why),
             a = r => why # None \/ Earned(r)
      PROVE  Stage(r)'
  <2>1. Continue(a, None)
    BY <1>5 DEF Conclude
  <2>2. CASE a = r
    <3>1. wf'[r] = "final" /\ detail'[r] = why
      BY <1>1, <1>5, <2>2 DEF Conclude
    <3>2. step'[r] = None /\ ~asked'[r]
      BY <1>4, <2>1, <2>2
    <3>3. detail'[r] = None => Earned(r)'
      BY <1>0, <1>5, <2>2, <3>1, EarnedKept
    <3> QED BY <3>1, <3>2, <3>3 DEF Stage
  <2>3. CASE a # r
    <3>1. wf'[r] = wf[r] /\ detail'[r] = detail[r]
      BY <1>1, <1>5, <2>3 DEF Conclude
    <3> QED BY <1>2, <1>4, <2>1, <2>3, <3>1
  <2> QED BY <2>2, <2>3
<1>6. ASSUME NEW a \in Runs, NEW why \in {"run_result", "run_failed"},
             Raise(a, why), wf[a] = "run"
      PROVE  Stage(r)'
  <2>1. CASE Conclude(a, why)
    BY <1>5, <2>1 DEF None
  <2>2. CASE Continue(a, None) /\ UNCHANGED <<wf, detail>>
    <3>1. CASE a = r
      <4>1. step'[r] = None /\ ~asked'[r] /\ wf'[r] = "run"
        BY <1>4, <1>6, <2>2, <3>1
      <4> QED BY <4>1 DEF Stage, None
    <3>2. CASE a # r
      BY <1>2, <1>4, <2>2, <3>2
    <3> QED BY <3>1, <3>2
  <2> QED BY <1>6, <2>1, <2>2 DEF Raise
<1>7. ASSUME NEW a \in Runs, Continue(a, "start") \/ Continue(a, "create"),
             UNCHANGED <<wf, detail>>, wf[a] = "run",
             Continue(a, "start") => Has(a, "create")
      PROVE  Stage(r)'
  <2>1. CASE a = r
    <3>1. /\ wf'[r] = "run" /\ ~asked'[r]
          /\ step'[r] = "create" \/ (step'[r] = "start" /\ Has(r, "create"))
      BY <1>4, <1>7, <2>1
    <3>2. Has(r, "create") => Has(r, "create")'
      BY <1>0, EarnedKept
    <3> QED BY <3>1, <3>2 DEF Stage, None
  <2>2. CASE a # r
    BY <1>2, <1>4, <1>7, <2>2
  <2> QED BY <2>1, <2>2
<1>8. ASSUME NEW a \in Runs, BeginExecution(a) PROVE Stage(r)'
  <2>1. /\ wf[a] = "run" /\ UNCHANGED <<wf, detail>>
        /\ \/ known[a] /\ Continue(a, "start")
           \/ Continue(a, "create")
    BY <1>8, Zenon DEF BeginExecution
  <2>2. CASE known[a] /\ Continue(a, "start")
    <3>1. Has(a, "create")
      BY <2>2 DEF FlowInv, Backed
    <3> QED BY <1>7, <2>1, <2>2, <3>1
  <2>3. CASE Continue(a, "create")
    <3>1. ~Continue(a, "start")
      BY <1>1, <2>3 DEF Continue
    <3> QED BY <1>7, <2>1, <2>3, <3>1
  <2> QED BY <2>1, <2>2, <2>3
<1>9. ASSUME NEW a \in Runs, Submit(a) PROVE Stage(r)'
  <2>1. CASE Raise(a, "run_failed") /\ step[a] # "remove"
    <3>1. wf[a] = "run"
      BY <1>9, <2>1 DEF Submit, FlowInv, Stage
    <3> QED BY <1>6, <2>1, <3>1
  <2>2. CASE asked' = [asked EXCEPT ![a] = TRUE] /\ UNCHANGED <<wf, step, detail>>
    <3>1. CASE a = r
      <4>1. step[r] # None
        BY <1>9, <3>1 DEF Submit
      <4>2. wf'[r] = wf[r] /\ step'[r] = step[r] /\ detail'[r] = detail[r]
        BY <2>2
      <4>3. /\ Earned(r) => Earned(r)'
            /\ Has(r, "create") => Has(r, "create")'
            /\ Has(r, "wait") => Has(r, "wait")'
        BY <1>0, EarnedKept
      <4> QED BY <1>0, <4>1, <4>2, <4>3 DEF Stage
    <3>2. CASE a # r
      BY <1>1, <1>2, <2>2, <3>2
    <3> QED BY <3>1, <3>2
  <2> QED BY <1>9, <2>1, <2>2, Zenon DEF Submit
<1>10. ASSUME NEW a \in Runs, Proceed(a) PROVE Stage(r)'
  <2>1. Has(a, step[a]) /\ wf[a] = "run" /\ Stage(a)
    BY <1>10, ProceedCases DEF FlowInv
  <2>2. CASE Created(a)
    BY <1>7, <2>1, <2>2 DEF Created
  <2>3. CASE Started(a) \/ Waited(a) \/ Logged(a)
    <3>1. UNCHANGED <<wf, detail>>
      BY <2>3 DEF Started, Waited, Logged
    <3>2. CASE a = r
      <4>1. /\ \/ step[r] = "start" /\ Continue(r, "wait")
               \/ step[r] = "wait" /\ Continue(r, "logs")
               \/ step[r] = "logs" /\ exit[r] = "ok" /\ Continue(r, "collect")
        BY <2>3, <3>2 DEF Started, Waited, Logged
      <4>2. Has(r, "create") /\ (step[r] \in {"wait", "logs"} => Has(r, "wait"))
        BY <2>1, <3>2, <4>1 DEF Stage, None
      <4>3. Has(r, "create")' /\ (step[r] \in {"wait", "logs"} => Has(r, "wait")')
        BY <1>0, <4>2, EarnedKept
      <4>4. /\ wf'[r] = "run" /\ ~asked'[r]
            /\ \/ step[r] = "start" /\ step'[r] = "wait"
               \/ step[r] = "wait" /\ step'[r] = "logs"
               \/ step[r] = "logs" /\ exit[r] = "ok" /\ step'[r] = "collect"
        BY <1>4, <2>1, <3>1, <3>2, <4>1
      <4>5. exit'[r] = exit[r]
        BY <1>0
      <4> QED BY <4>3, <4>4, <4>5 DEF Stage, None
    <3>3. CASE a # r
      <4>1. \E o : Continue(a, o)
        BY <2>3 DEF Started, Waited, Logged
      <4> QED BY <1>2, <1>4, <3>1, <3>3, <4>1
    <3> QED BY <3>2, <3>3
  <2>4. CASE Collected(a)
    <3>1. CASE step[a] = "collect" /\ Conclude(a, None)
      <4>1. Earned(a)
        BY <2>1, <3>1 DEF Stage, Earned, None
      <4> QED BY <1>5, <3>1, <4>1
    <3>2. CASE \E x \in {"run_timeout", "run_failed"} : Conclude(a, x)
      BY <1>5, <3>2 DEF None
    <3> QED BY <2>4, <3>1, <3>2 DEF Collected
  <2> QED BY <1>10, <2>2, <2>3, <2>4, ProceedCases
<1>11. ASSUME NEW a \in Runs, Fail(a) PROVE Stage(r)'
  <2>1. wf[a] = "run" /\ \E why \in {"run_result", "run_failed"} : Raise(a, why)
    BY <1>11 DEF Fail
  <2> QED BY <1>6, <2>1
<1>12. ASSUME NEW a \in Runs, Finalize(a) PROVE Stage(r)'
  <2>1. Continue(a, "remove") /\ UNCHANGED <<wf, detail>> /\ wf[a] = "final"
    BY <1>12 DEF Finalize
  <2>2. CASE a = r
    <3>1. /\ wf'[r] = "final" /\ step'[r] = "remove" /\ ~asked'[r]
          /\ detail'[r] = detail[r]
      BY <1>4, <2>1, <2>2
    <3>2. Earned(r) => Earned(r)'
      BY <1>0, EarnedKept
    <3> QED BY <1>0, <2>1, <2>2, <3>1, <3>2 DEF Stage
  <2>3. CASE a # r
    BY <1>2, <1>4, <2>1, <2>3
  <2> QED BY <2>2, <2>3
<1>13. ASSUME NEW a \in Runs, Done(a) PROVE Stage(r)'
  <2>1. /\ Continue(a, None) /\ UNCHANGED detail
        /\ wf' = [wf EXCEPT ![a] = "done"]
    BY <1>13 DEF Done
  <2>2. CASE a = r
    <3>1. wf'[r] = "done" /\ step'[r] = None /\ ~asked'[r]
      BY <1>1, <1>4, <2>1, <2>2
    <3> QED BY <3>1 DEF Stage
  <2>3. CASE a # r
    <3>1. wf'[r] = wf[r]
      BY <1>1, <2>1, <2>3
    <3> QED BY <1>2, <1>4, <2>1, <2>3, <3>1
  <2> QED BY <2>2, <2>3
<1>14. ASSUME NEW a \in Runs, NEW x, UNCHANGED <<step, asked, detail>>,
              wf' = [wf EXCEPT ![a] = x],
              a = r => x # "final" /\ step[r] = None
       PROVE  Stage(r)'
  <2>1. CASE a = r
    <3>1. /\ wf'[r] # "final" /\ step'[r] = None /\ asked'[r] = asked[r]
      BY <1>1, <1>14, <2>1
    <3>2. ~asked'[r]
      BY <1>0, <1>14, <2>1, <3>1 DEF Stage
    <3> QED BY <3>1, <3>2 DEF Stage, None
  <2>2. CASE a # r
    <3>1. wf'[r] = wf[r]
      BY <1>1, <1>14, <2>2
    <3> QED BY <1>2, <1>14, <3>1
  <2> QED BY <2>1, <2>2
<1>15. ASSUME NEW a \in Runs,
              \/ Dispatch(a) \/ Choose(a) \/ PlaceStopped(a)
              \/ CommitPlacement(a) \/ Gate(a) \/ ProbeFails(a)
       PROVE  Stage(r)'
  <2>1. /\ UNCHANGED <<step, asked, detail>> /\ wf[a] \notin {"run", "final"}
        /\ \/ UNCHANGED wf
           \/ \E x \in {"place", "probe", "gate", "run", "done"} :
                  wf' = [wf EXCEPT ![a] = x]
    BY <1>15 DEF Dispatch, Choose, PlaceStopped, CommitPlacement, Gate, ProbeFails,
                 None
  <2>2. a = r => step[r] = None
    BY <1>0, <2>1 DEF Stage
  <2> QED BY <1>3, <1>14, <2>1, <2>2
<1>16. ASSUME NEW a \in Runs, DrainFails(a) PROVE Stage(r)'
  <2>1. /\ UNCHANGED <<step, asked, detail>> /\ step[a] = None
        /\ UNCHANGED wf \/ wf' = [wf EXCEPT ![a] = "error"]
    BY <1>1, <1>16 DEF DrainFails
  <2> QED BY <1>3, <1>14, <2>1
<1>17. ASSUME NEW a \in Runs, User(a) \/ KillWorkflow(a)
       PROVE  UNCHANGED <<wf, step, asked, detail>>
  BY <1>17 DEF User, OpenRequest, CommitRequest, KillRequest, StopByOwner,
               KillWorkflow, DispatchKill, BeginKill, AwaitKill, MarkKilled
<1>18. ASSUME Crash PROVE Stage(r)'
  <2>1. /\ step'[r] = None /\ ~asked'[r] /\ detail'[r] = detail[r]
        /\ wf'[r] = "final" => wf[r] = "final"
    BY <1>1, <1>18 DEF Crash
  <2>2. Earned(r) => Earned(r)'
    BY <1>0, EarnedKept
  <2> QED BY <1>0, <2>1, <2>2 DEF Stage, None
<1>19. ASSUME UNCHANGED vars PROVE UNCHANGED <<wf, step, asked, detail>>
  BY <1>19 DEF vars
<1> QED
  BY <1>3, <1>8, <1>9, <1>10, <1>11, <1>12, <1>13, <1>15, <1>16, <1>17, <1>18,
     <1>19 DEF CoreStep, Workflow

-----------------------------------------------------------------------------
(* The invariant's parts, one after the other *)

(* The credentials of the create calls *)
LEMMA CreateStep ==
    ASSUME RunInv, [Next]_vars, NEW r \in Runs
    PROVE  CreateAt(r)'
<1> USE DEF row, commands, flow, lanes, wire, studio, bounds
<1>0. /\ TypeInv /\ CreateAt(r)
  BY DEF RunInv, CreateInv
<1>1. /\ creates \in [Runs -> Seq(Nat)] /\ gen \in [Runs -> Nat]
      /\ held \in [Runs -> Nat] /\ "create" \in Queued
      /\ cmd \in [Runs -> [Ops -> {None, "open", "succeeded", "failed"}]]
  BY <1>0 DEF TypeInv, RowType, StudioType, CommandType, Queued, Ops
<1>2. ASSUME creates'[r] = creates[r], gen'[r] = gen[r], held'[r] = held[r],
             Boxed(r)' => Boxed(r), Waiting(r, "create")' => Waiting(r, "create"),
             Has(r, "create")' => Has(r, "create")
      PROVE  CreateAt(r)'
  BY <1>0, <1>2 DEF CreateAt
<1>3. ASSUME lane' \in {lane, NoWork}
      PROVE  Waiting(r, "create")' => Waiting(r, "create")
  BY <1>3 DEF Waiting, NoWork
<1>4. ASSUME creates' = creates PROVE Has(r, "create")' => Has(r, "create")
  <2>1. ASSUME ServeCreate(r) PROVE FALSE
    <3>1. creates[r] # <<>> /\ creates'[r] = Tail(creates[r])
      BY <1>1, <2>1 DEF ServeCreate
    <3>2. creates[r] \in Seq(Nat) /\ Tail(creates[r]) = creates[r]
      BY <1>1, <1>4, <3>1
    <3>3. \A s \in Seq(Nat) : s # <<>> => Len(Tail(s)) # Len(s)
      OBVIOUS
    <3> QED BY <3>1, <3>2, <3>3
  <2> QED BY <1>0, <1>1, <2>1, SuccessIsAnswered DEF Answers
<1>5. CASE CoreStep
  <2>1. /\ UNCHANGED <<creates, gen, held, box>> /\ lane' \in {lane, NoWork}
    BY <1>5, CoreFrame
  <2> QED BY <1>2, <1>3, <1>4, <2>1 DEF Boxed
<1>6. CASE Pick
  <2>1. UNCHANGED <<creates, gen, held, box>>
    BY <1>6 DEF Pick
  <2>2. Waiting(r, "create")' => Waiting(r, "create")
    BY <1>6 DEF Pick, Waiting
  <2> QED BY <1>2, <1>4, <2>1, <2>2 DEF Boxed
<1>7. CASE Mint
  <2>1. lane.at = "checked" /\ UNCHANGED <<held, box>>
    BY <1>7 DEF Mint
  <2>2. /\ lane.run \in Runs /\ lane.op = "create" /\ lane # NoWork
        /\ queue # <<>> /\ Head(queue) = <<lane.run, "create">>
    BY <1>0, <2>1, LaneHasRun DEF TypeInv, QueueInv
  <2>3. CASE UNCHANGED <<gen, creates>> /\ lane' = NoWork
    BY <1>2, <1>3, <1>4, <2>1, <2>3 DEF Boxed
  <2>4. CASE /\ gen' = [gen EXCEPT ![lane.run] = @ + 1]
             /\ creates' = [creates EXCEPT ![lane.run] = Append(@, gen[lane.run] + 1)]
             /\ lane' = [lane EXCEPT !.at = "sent"] /\ UNCHANGED commands
    <3>1. CASE lane.run = r
      <4>1. /\ gen'[r] = gen[r] + 1 /\ gen[r] \in Nat
            /\ creates'[r] = Append(creates[r], gen[r] + 1)
            /\ creates[r] \in Seq(Nat)
        BY <1>1, <2>4, <3>1
      <4>2. gen'[r] > 0
        BY <4>1
      <4>3. creates'[r] # <<>> /\ creates'[r][Len(creates'[r])] = gen'[r]
        <5>1. \A s \in Seq(Nat), g \in Nat :
                  Append(s, g) # <<>> /\ Append(s, g)[Len(Append(s, g))] = g
          OBVIOUS
        <5>2. gen[r] + 1 \in Nat
          BY <4>1
        <5> QED BY <4>1, <5>1, <5>2
      <4>4. cmd[r]["create"] = "open"
        BY <1>0, <1>1, <2>2, <3>1, HeadIsOpen
      <4>5. ~Has(r, "create")'
        BY <2>4, <4>4 DEF Has
      <4> QED BY <4>2, <4>3, <4>5 DEF CreateAt
    <3>2. CASE lane.run # r
      <4>1. gen'[r] = gen[r] /\ creates'[r] = creates[r] /\ held'[r] = held[r]
        BY <1>1, <2>1, <2>4, <3>2
      <4>2. lane'.run = lane.run
        BY <1>0, <2>2, <2>4 DEF TypeInv, CommandType
      <4>3. ~Waiting(r, "create")'
        BY <3>2, <4>2 DEF Waiting
      <4>4. Has(r, "create")' <=> Has(r, "create")
        BY <2>4 DEF Has
      <4> QED BY <1>2, <2>1, <4>1, <4>3, <4>4 DEF Boxed
    <3> QED BY <3>1, <3>2
  <2> QED BY <1>7, <2>3, <2>4, Zenon DEF Mint
<1>8. CASE GiveUp
  <2>1. /\ lane' = NoWork /\ UNCHANGED <<gen, held, box, cmd>> /\ lane.at = "sent"
        /\ \/ UNCHANGED creates
           \/ creates' = [creates EXCEPT ![lane.run] = Front(@)]
    BY <1>8 DEF GiveUp
  <2>2. creates'[r] # <<>> => creates[r] # <<>>
    BY <1>1, <2>1, CallsLeft
  <2>3. ~Waiting(r, "create")'
    BY <2>1 DEF Waiting, NoWork
  <2>4. gen'[r] = gen[r] /\ held'[r] = held[r] /\ (Boxed(r)' <=> Boxed(r))
        /\ (Has(r, "create")' <=> Has(r, "create"))
    BY <2>1 DEF Boxed, Has
  <2> QED BY <1>0, <2>2, <2>3, <2>4 DEF CreateAt
<1>9. ASSUME NEW a \in Runs, SendKill(a) \/ KillUnanswered(a) \/ KillTimesOut(a)
      PROVE  CreateAt(r)'
  <2>1. UNCHANGED <<creates, gen, held, box, lane>>
    BY <1>9 DEF SendKill, KillUnanswered, KillTimesOut
  <2> QED BY <1>2, <1>3, <1>4, <2>1 DEF Boxed
<1>10. ASSUME NEW a \in Runs, NEW o, NEW x, Answer(a, o, x)
       PROVE  lane' \in {lane, NoWork}
  BY <1>10 DEF Answer
<1>11. ASSUME NEW a \in Runs, ServeCreate(a) PROVE CreateAt(r)'
  <2>1. /\ UNCHANGED gen /\ creates[a] # <<>>
        /\ creates' = [creates EXCEPT ![a] = Tail(@)]
        /\ lane' \in {lane, NoWork}
    BY <1>10, <1>11 DEF ServeCreate
  <2>2. CASE a # r
    <3>1. /\ creates'[r] = creates[r] /\ gen'[r] = gen[r] /\ held'[r] = held[r]
          /\ box'[r] = box[r]
      BY <1>0, <1>1, <1>11, <2>1, <2>2 DEF ServeCreate, TypeInv, StudioType
    <3>2. Has(r, "create")' => Has(r, "create")
      <4>1. SUFFICES ASSUME Has(r, "create")', ~Has(r, "create") PROVE FALSE
        OBVIOUS
      <4>2. ServeCreate(r)
        BY <1>0, <1>1, <4>1, SuccessIsAnswered DEF Answers
      <4>3. creates[r] # <<>> /\ creates'[r] = Tail(creates[r])
        BY <1>1, <4>2 DEF ServeCreate
      <4>4. creates[r] \in Seq(Nat) /\ Tail(creates[r]) = creates[r]
        BY <1>1, <3>1, <4>3
      <4>5. \A s \in Seq(Nat) : s # <<>> => Len(Tail(s)) # Len(s)
        OBVIOUS
      <4> QED BY <4>3, <4>4, <4>5
    <3> QED BY <1>2, <1>3, <2>1, <3>1, <3>2 DEF Boxed
  <2>3. CASE a = r
    <3> DEFINE g == Head(creates[r])
    <3>1. /\ creates'[r] = Tail(creates[r]) /\ creates[r] # <<>>
          /\ creates[r] \in Seq(Nat) /\ gen'[r] = gen[r] /\ gen[r] > 0
          /\ ~Has(r, "create")
      BY <1>0, <1>1, <2>1, <2>3 DEF CreateAt
    <3>2. /\ Len(creates[r]) = 1 =>
                 creates'[r] = <<>> /\ g = creates[r][Len(creates[r])]
          /\ Len(creates[r]) # 1 =>
                 /\ creates'[r] # <<>>
                 /\ creates'[r][Len(creates'[r])] = creates[r][Len(creates[r])]
      BY <3>1, CallsLeft
    <3>3. ASSUME Waiting(r, "create")'
          PROVE  creates'[r] # <<>> /\ creates'[r][Len(creates'[r])] = gen'[r]
      <4>1. Waiting(r, "create") /\ lane' # NoWork
        BY <1>3, <2>1, <3>3 DEF Waiting, NoWork
      <4>2. Len(creates[r]) # 1
        BY <1>11, <2>3, <4>1 DEF ServeCreate, Answer
      <4> QED BY <1>0, <3>1, <3>2, <4>1, <4>2 DEF CreateAt
    <3>4. ASSUME Has(r, "create")'
          PROVE  creates'[r] = <<>> /\ held'[r] = gen'[r]
      <4>1. Waiting(r, "create") /\ g \in Nat
        <5>1. Waiting(r, "create")
          BY <1>0, <1>1, <3>1, <3>4, SuccessIsAnswered DEF Answers
        <5> QED BY <3>1, <5>1, CallsLeft
      <4>2. ~UNCHANGED commands
        BY <3>1, <3>4 DEF Has
      <4>3. Len(creates[r]) = 1
        BY <1>11, <2>3, <4>2 DEF ServeCreate
      <4>4. ~Answer(r, "create", "failed")
        <5>1. Answer(r, "create", "failed") => cmd'[r]["create"] = "failed"
          BY <1>1, <4>1 DEF Answer, Close, Ops
        <5> QED BY <3>4, <5>1 DEF Has
      <4>5. g = gen[r]
        BY <1>0, <3>2, <4>1, <4>3 DEF CreateAt
      <4>6. \/ Reusable(r, g) /\ UNCHANGED held
            \/ held' = [held EXCEPT ![r] = g]
        BY <1>11, <2>3, <4>3, <4>4 DEF ServeCreate
      <4>7. held'[r] = g
        BY <1>1, <4>6 DEF Reusable
      <4> QED BY <3>1, <3>2, <4>3, <4>5, <4>7
    <3> HIDE DEF g
    <3> QED BY <3>1, <3>3, <3>4 DEF CreateAt
  <2> QED BY <2>2, <2>3
<1>12. ASSUME UNCHANGED <<creates, gen, held>>, lane' \in {lane, NoWork},
              Boxed(r)' => Boxed(r)
       PROVE  CreateAt(r)'
  BY <1>2, <1>3, <1>4, <1>12
<1>13. box \in [Runs -> {"absent", "relay", "created", "running"} \cup Exited]
  BY <1>0 DEF TypeInv, StudioType
<1>14. ASSUME NEW a \in Runs, ServeStart(a) PROVE CreateAt(r)'
  <2>1. /\ UNCHANGED <<creates, gen, held>> /\ lane' \in {lane, NoWork}
    BY <1>10, <1>14 DEF ServeStart, Unavailable
  <2>2. \/ UNCHANGED box
        \/ box[a] \notin {"absent", "relay"} /\ box' = [box EXCEPT ![a] = "running"]
    BY <1>14 DEF ServeStart, Exited
  <2>3. Boxed(r)' => Boxed(r)
    BY <1>13, <2>2 DEF Boxed
  <2> QED BY <1>12, <2>1, <2>3
<1>15. ASSUME NEW a \in Runs, ServeWait(a) \/ Exit(a) PROVE CreateAt(r)'
  <2>1. /\ UNCHANGED <<creates, gen, held>> /\ lane' \in {lane, NoWork}
    BY <1>10, <1>15 DEF ServeWait, Exit
  <2>2. \/ UNCHANGED box
        \/ box[a] = "running" /\ \E x : box' = [box EXCEPT ![a] = x]
    BY <1>15 DEF ServeWait, Exit
  <2>3. Boxed(r)' => Boxed(r)
    BY <1>13, <2>2 DEF Boxed
  <2> QED BY <1>12, <2>1, <2>3
<1>16. ASSUME NEW a \in Runs, NEW o, ServeRead(a, o) PROVE CreateAt(r)'
  <2>1. /\ UNCHANGED <<creates, gen, held, box>> /\ lane' \in {lane, NoWork}
    BY <1>10, <1>16 DEF ServeRead
  <2> QED BY <1>12, <2>1 DEF Boxed
<1>17. ASSUME NEW a \in Runs, ServeRemove(a) \/ ServeKill(a) PROVE CreateAt(r)'
  <2>1. /\ UNCHANGED <<creates, gen, held>> /\ lane' \in {lane, NoWork}
        /\ box' = [box EXCEPT ![a] = "absent"]
    BY <1>10, <1>17 DEF ServeRemove, ServeKill
  <2> QED BY <1>12, <1>13, <2>1 DEF Boxed
<1>18. ASSUME NEW n \in Studios, Reconcile(n) PROVE CreateAt(r)'
  <2>1. /\ UNCHANGED <<creates, gen, held, lane>>
        /\ UNCHANGED box \/ \E K : Sweep(n, K)
    BY <1>18 DEF Reconcile, Observe, ServeReap
  <2>2. Boxed(r)' => Boxed(r)
    BY <1>13, <2>1 DEF Sweep, Boxed
  <2> QED BY <1>12, <2>1, <2>2
<1> QED
  BY <1>5, <1>6, <1>7, <1>8, <1>9, <1>11, <1>14, <1>15, <1>16, <1>17, <1>18, Steps
     DEF ExecStep, StudioStep, Studio

(* The credential's row *)
LEMMA TokenStep ==
    ASSUME RunInv, [Next]_vars, NEW r \in Runs
    PROVE  TokenAt(r)'
<1>0. /\ TypeInv /\ FlowInv /\ TokenAt(r)
  BY DEF RunInv, TokenInv
<1>1. /\ gen \in [Runs -> Nat] /\ token \in [Runs -> {None, "active", "revoked"}]
  BY <1>0 DEF TypeInv, RowType
<1>2. CASE CoreStep
  <2>1. RowMove(r) /\ gen'[r] = gen[r]
    BY <1>0, <1>2, RowMoves, CoreFrame
  <2> QED BY <1>0, <2>1 DEF TokenAt, RowMove, Ending, None
<1>3. ASSUME gen' = gen, token' = token, state' = state PROVE TokenAt(r)'
  BY <1>0, <1>3 DEF TokenAt
<1>4. CASE StudioStep
  BY <1>3, <1>4, StudioFrame DEF row
<1>5. CASE Mint
  <2>1. /\ lane.at = "checked" /\ UNCHANGED state
        /\ \/ UNCHANGED <<token, gen>>
           \/ /\ token' = [token EXCEPT ![lane.run] = "active"]
              /\ gen' = [gen EXCEPT ![lane.run] = @ + 1]
    BY <1>5 DEF Mint
  <2>2. CASE UNCHANGED <<token, gen>>
    BY <1>3, <2>1, <2>2
  <2>3. CASE /\ token' = [token EXCEPT ![lane.run] = "active"]
             /\ gen' = [gen EXCEPT ![lane.run] = @ + 1]
    <3>1. CASE lane.run = r
      <4>1. token'[r] = "active" /\ gen'[r] = gen[r] + 1 /\ gen[r] \in Nat
        BY <1>1, <2>3, <3>1
      <4>2. gen'[r] > 0
        BY <4>1
      <4> QED BY <4>1, <4>2 DEF TokenAt, None
    <3>2. CASE lane.run # r
      <4>1. token'[r] = token[r] /\ gen'[r] = gen[r] /\ state'[r] = state[r]
        BY <1>1, <2>1, <2>3, <3>2
      <4> QED BY <1>0, <4>1 DEF TokenAt
    <3> QED BY <3>1, <3>2
  <2> QED BY <2>1, <2>2, <2>3
<1>6. CASE Pick \/ GiveUp
  <2>1. UNCHANGED <<gen, token, state>>
    BY <1>6 DEF Pick, GiveUp, row
  <2> QED BY <1>3, <2>1
<1>7. ASSUME NEW a \in Runs, SendKill(a) \/ KillUnanswered(a) \/ KillTimesOut(a)
      PROVE  TokenAt(r)'
  <2>1. UNCHANGED <<gen, token, state>>
    BY <1>7 DEF SendKill, KillUnanswered, KillTimesOut, row
  <2> QED BY <1>3, <2>1
<1> QED BY <1>2, <1>4, <1>5, <1>6, <1>7, Steps DEF ExecStep

(* What ran was started, and a wait that has succeeded is not repeated. *)
LEMMA ExitStep ==
    ASSUME RunInv, [Next]_vars, NEW r \in Runs
    PROVE  ExitAt(r)'
<1> USE DEF row, commands, flow, lanes, wire, studio, bounds
<1>0. /\ TypeInv /\ ExitAt(r) /\ "wait" \in Queued
  BY DEF RunInv, ExitInv, Queued, Ops
<1>1. /\ box \in [Runs -> {"absent", "relay", "created", "running"} \cup Exited]
      /\ starts \in [Runs -> Nat] /\ exit \in [Runs -> {None, "timed_out"} \cup Exited]
  BY <1>0 DEF TypeInv, StudioType
<1>2. ASSUME Has(r, "wait") => <<r, "wait">> \notin sent'
      PROVE  Has(r, "wait")' => <<r, "wait">> \notin sent'
  <2>1. SUFFICES ASSUME Has(r, "wait")', ~Has(r, "wait")
                 PROVE  <<r, "wait">> \notin sent'
    BY <1>2
  <2>2. ServeWait(r)
    BY <1>0, <2>1, SuccessIsAnswered DEF Answers
  <2> QED BY <2>2 DEF ServeWait, Serve
<1>3. ASSUME UNCHANGED <<box, starts, exit>>,
             Has(r, "wait") => <<r, "wait">> \notin sent'
      PROVE  ExitAt(r)'
  BY <1>0, <1>2, <1>3 DEF ExitAt
<1>4. CASE CoreStep
  <2>1. UNCHANGED <<box, starts, exit, sent>>
    BY <1>4, CoreFrame
  <2> QED BY <1>0, <1>3, <2>1 DEF ExitAt
<1>5. CASE ExecStep
  <2>1. UNCHANGED <<box, starts, exit>>
    BY <1>5, ExecFrame
  <2>2. ASSUME Has(r, "wait") PROVE <<r, "wait">> \notin sent'
    <3>0. <<r, "wait">> \notin sent
      BY <1>0, <2>2 DEF ExitAt
    <3>1. CASE Pick
      <4>1. queue # <<>>
        BY <3>1 DEF Pick
      <4>2. Head(queue) # <<r, "wait">>
        BY <1>0, <2>2, <4>1, HeadIsOpen DEF Has
      <4>3. sent' \subseteq sent \cup {<<Head(queue)[1], Head(queue)[2]>>}
        BY <3>1 DEF Pick
      <4>4. Head(queue) = <<Head(queue)[1], Head(queue)[2]>>
        BY <1>0, <4>1, HeadOfQueue
      <4> QED BY <3>0, <4>2, <4>3, <4>4
    <3>2. CASE Mint \/ GiveUp
      <4>1. sent' \subseteq sent
        BY <3>2 DEF Mint, GiveUp
      <4> QED BY <3>0, <4>1
    <3>3. ASSUME NEW a \in Runs, SendKill(a) \/ KillUnanswered(a) \/ KillTimesOut(a)
          PROVE  <<r, "wait">> \notin sent'
      <4>1. sent' \subseteq sent \cup {<<a, "kill">>}
        BY <3>3 DEF SendKill, KillUnanswered, KillTimesOut
      <4> QED BY <3>0, <4>1
    <3> QED BY <1>5, <3>1, <3>2, <3>3 DEF ExecStep
  <2> QED BY <1>3, <2>1, <2>2
<1>6. CASE StudioStep
  <2>1. ASSUME NEW a \in Runs, NEW o, Serve(a, o) PROVE sent' \subseteq sent
    BY <2>1 DEF Serve
  <2>2. ASSUME sent' \subseteq sent
        PROVE  Has(r, "wait")' => <<r, "wait">> \notin sent'
    BY <1>0, <1>2, <2>2 DEF ExitAt
  <2>3. ASSUME sent' \subseteq sent, starts'[r] = starts[r], exit'[r] = exit[r],
               \/ box'[r] \in {box[r], "absent", "relay", "created"}
               \/ box[r] = "running"
        PROVE  ExitAt(r)'
    BY <1>0, <2>2, <2>3 DEF ExitAt, Exited
  <2>4. ASSUME NEW a \in Runs, ServeCreate(a) PROVE ExitAt(r)'
    <3>1. /\ UNCHANGED <<sent, starts, exit>>
          /\ \/ UNCHANGED box
             \/ \E x \in {"created", "relay"} : box' = [box EXCEPT ![a] = x]
      BY <2>4 DEF ServeCreate
    <3>2. box'[r] \in {box[r], "created", "relay"}
      BY <1>1, <3>1
    <3> QED BY <2>3, <3>1, <3>2
  <2>5. ASSUME NEW a \in Runs, ServeStart(a) PROVE ExitAt(r)'
    <3>1. sent' \subseteq sent /\ exit' = exit
      BY <2>1, <2>5 DEF ServeStart
    <3>2. \/ UNCHANGED <<box, starts>>
          \/ /\ box' = [box EXCEPT ![a] = "running"]
             /\ starts' = [starts EXCEPT ![a] = @ + 1]
      BY <2>5, Zenon DEF ServeStart
    <3>3. CASE starts'[r] = starts[r] /\ box'[r] = box[r]
      BY <2>3, <3>1, <3>3
    <3>4. CASE starts'[r] = starts[r] + 1
      <4>1. starts'[r] > 0
        BY <1>1, <3>4
      <4> QED BY <2>2, <3>1, <4>1 DEF ExitAt
    <3> QED BY <1>1, <3>2, <3>3, <3>4
  <2>6. ASSUME NEW a \in Runs, ServeWait(a) PROVE ExitAt(r)'
    <3>1. sent' \subseteq sent /\ starts' = starts
      BY <2>1, <2>6 DEF ServeWait
    <3>2. \/ UNCHANGED <<box, exit>>
          \/ /\ box[a] \in {"running"} \cup Exited
             /\ UNCHANGED box \/ box' = [box EXCEPT ![a] = "bad"]
             /\ \E x : exit' = [exit EXCEPT ![a] = x]
      BY <2>6 DEF ServeWait
    <3>3. CASE box'[r] = box[r] /\ exit'[r] = exit[r]
      BY <2>3, <3>1, <3>3
    <3>4. CASE box[r] \in {"running"} \cup Exited
      <4>1. starts'[r] > 0
        BY <1>0, <3>1, <3>4 DEF ExitAt
      <4> QED BY <2>2, <3>1, <4>1 DEF ExitAt
    <3> QED BY <1>1, <3>2, <3>3, <3>4
  <2>7. ASSUME NEW a \in Runs, NEW o, ServeRead(a, o) PROVE ExitAt(r)'
    <3>1. sent' \subseteq sent /\ UNCHANGED <<box, starts, exit>>
      BY <2>1, <2>7 DEF ServeRead
    <3> QED BY <2>3, <3>1
  <2>8. ASSUME NEW a \in Runs, ServeRemove(a) \/ ServeKill(a) PROVE ExitAt(r)'
    <3>1. /\ sent' \subseteq sent /\ UNCHANGED <<starts, exit>>
          /\ box' = [box EXCEPT ![a] = "absent"]
      BY <2>1, <2>8 DEF ServeRemove, ServeKill
    <3>2. box'[r] \in {box[r], "absent"}
      BY <1>1, <3>1
    <3> QED BY <2>3, <3>1, <3>2
  <2>9. ASSUME NEW a \in Runs, Exit(a) PROVE ExitAt(r)'
    <3>1. /\ UNCHANGED <<sent, starts, exit>> /\ box[a] = "running"
          /\ \E x \in Exited : box' = [box EXCEPT ![a] = x]
      BY <2>9 DEF Exit
    <3>2. box'[r] = box[r] \/ box[r] = "running"
      BY <1>1, <3>1
    <3> QED BY <2>3, <3>1, <3>2
  <2>10. ASSUME NEW n \in Studios, Reconcile(n) PROVE ExitAt(r)'
    <3>1. /\ UNCHANGED <<sent, starts, exit>>
          /\ UNCHANGED box \/ \E K : Sweep(n, K)
      BY <2>10 DEF Reconcile, Observe, ServeReap
    <3>2. box'[r] \in {box[r], "absent"}
      BY <3>1 DEF Sweep
    <3> QED BY <2>3, <3>1, <3>2
  <2> QED
    BY <1>6, <2>4, <2>5, <2>6, <2>7, <2>8, <2>9, <2>10 DEF StudioStep, Studio
<1> QED BY <1>4, <1>5, <1>6, Steps

(* The exit that a wait has reported stands. *)
LEMMA ExitStands ==
    ASSUME RunInv, [Next]_vars, NEW r \in Runs, Has(r, "wait")
    PROVE  exit'[r] = exit[r]
<1> USE DEF row, commands, flow, lanes, wire, studio, bounds
<1>1. /\ <<r, "wait">> \notin sent /\ exit \in [Runs -> {None, "timed_out"} \cup Exited]
  BY DEF RunInv, ExitInv, ExitAt, TypeInv, StudioType
<1>2. CASE CoreStep \/ ExecStep
  BY <1>2, CoreFrame, ExecFrame
<1>3. ASSUME NEW a \in Runs, ServeWait(a) PROVE exit'[r] = exit[r]
  <2>1. a # r
    BY <1>1, <1>3 DEF ServeWait, Serve
  <2> QED BY <1>1, <1>3, <2>1 DEF ServeWait
<1>4. ASSUME NEW a \in Runs,
             \/ ServeCreate(a) \/ ServeStart(a) \/ ServeRemove(a) \/ ServeKill(a)
             \/ Exit(a)
      PROVE  exit'[r] = exit[r]
  BY <1>4 DEF ServeCreate, ServeStart, ServeRemove, ServeKill, Exit
<1>5. ASSUME NEW a \in Runs, NEW o, ServeRead(a, o) PROVE exit'[r] = exit[r]
  BY <1>5 DEF ServeRead
<1>6. ASSUME NEW n \in Studios, Reconcile(n) PROVE exit'[r] = exit[r]
  BY <1>6 DEF Reconcile, Observe, ServeReap
<1> QED BY <1>2, <1>3, <1>4, <1>5, <1>6, Steps DEF StudioStep, Studio

(* The workflow's stage and the row are backed by what has succeeded. *)
LEMMA FlowStep ==
    ASSUME RunInv, [Next]_vars, NEW r \in Runs
    PROVE  Stage(r)' /\ Backed(r)'
<1>0. /\ TypeInv /\ FlowInv /\ Stage(r) /\ Backed(r) /\ CreateAt(r) /\ TokenAt(r)
  BY DEF RunInv, FlowInv, CreateInv, TokenInv
<1>1. Keeps(r)
  BY <1>0, Kept
<1>2. /\ Has(r, "create") => Has(r, "create")'
      /\ Has(r, "wait") => Has(r, "wait")' /\ exit'[r] = exit[r]
      /\ Earned(r) => Earned(r)'
  <2>1. {"create", "wait", "collect"} \subseteq Queued
    BY DEF Queued, Ops
  <2>2. Has(r, "wait") => exit'[r] = exit[r]
    BY ExitStands
  <2> QED BY <1>1, <2>1, <2>2 DEF Keeps, Earned
<1>3. CASE CoreStep
  <2>1. Stage(r)' /\ RowMove(r)
    BY <1>0, <1>3, CoreStage, RowMoves
  <2>2. ASSUME state'[r] = "succeeded" PROVE Earned(r) /\ token'[r] = "revoked"
    <3>1. CASE state[r] = "succeeded"
      BY <1>0, <2>1, <3>1 DEF Backed, RowMove
    <3>2. CASE state[r] # "succeeded"
      <4>1. /\ wf[r] = "final" /\ detail[r] = None
            /\ token[r] # None => token'[r] = "revoked"
        BY <2>1, <2>2, <3>2 DEF RowMove
      <4>2. Earned(r)
        BY <1>0, <4>1 DEF Stage
      <4>3. token[r] # None
        BY <1>0, <4>2 DEF Earned, CreateAt, TokenAt
      <4> QED BY <4>1, <4>2, <4>3
    <3> QED BY <3>1, <3>2
  <2>3. known'[r] \/ state'[r] \in {"running", "collecting"} => Has(r, "create")
    BY <1>0, <2>1 DEF Backed, RowMove
  <2> QED BY <1>2, <2>1, <2>2, <2>3 DEF Backed
<1>4. ASSUME UNCHANGED <<flow, state, known>>,
             state[r] = "succeeded" => token'[r] = "revoked"
      PROVE  Stage(r)' /\ Backed(r)'
  <2>1. Stage(r)'
    <3>1. /\ wf'[r] = wf[r] /\ step'[r] = step[r] /\ asked'[r] = asked[r]
          /\ detail'[r] = detail[r]
      BY <1>4 DEF flow
    <3> QED BY <1>0, <1>2, <3>1 DEF Stage
  <2>2. Backed(r)'
    BY <1>0, <1>2, <1>4 DEF Backed
  <2> QED BY <2>1, <2>2
<1>5. CASE StudioStep
  <2>1. UNCHANGED <<flow, state, known, token>>
    BY <1>5, StudioFrame DEF row
  <2> QED BY <1>0, <1>4, <2>1 DEF Backed
<1>6. CASE ExecStep
  <2>1. UNCHANGED <<flow, state, known>>
    BY <1>6, ExecFrame
  <2>2. ASSUME state[r] = "succeeded" PROVE token'[r] = "revoked"
    <3>0. Has(r, "create") /\ token[r] = "revoked"
      BY <1>0, <2>2 DEF Backed, Earned
    <3>1. CASE Mint
      <4>1. /\ lane.at = "checked"
            /\ \/ UNCHANGED token
               \/ token' = [token EXCEPT ![lane.run] = "active"]
        BY <3>1 DEF Mint
      <4>2. /\ lane.run \in Runs /\ queue # <<>> /\ "create" \in Queued
            /\ Head(queue) = <<lane.run, "create">>
        BY <1>0, <4>1, LaneHasRun DEF TypeInv, QueueInv
      <4>3. lane.run # r
        BY <1>0, <3>0, <4>2, HeadIsOpen DEF Has
      <4> QED BY <1>0, <3>0, <4>1, <4>2, <4>3 DEF TypeInv, RowType
    <3>2. CASE Pick \/ GiveUp
      BY <3>0, <3>2 DEF Pick, GiveUp, row
    <3>3. ASSUME NEW a \in Runs, SendKill(a) \/ KillUnanswered(a) \/ KillTimesOut(a)
          PROVE  token'[r] = "revoked"
      BY <3>0, <3>3 DEF SendKill, KillUnanswered, KillTimesOut, row
    <3> QED BY <1>6, <3>1, <3>2, <3>3 DEF ExecStep
  <2> QED BY <1>4, <2>1, <2>2
<1> QED BY <1>3, <1>5, <1>6, Steps

(* Every step keeps the invariant. *)
LEMMA RunStep == RunInv /\ [Next]_vars => RunInv'
<1> SUFFICES ASSUME RunInv, [Next]_vars PROVE RunInv'
  OBVIOUS
<1>1. TypeInv'
  BY TypeStep DEF RunInv
<1>2. CreateInv'
  BY CreateStep DEF CreateInv
<1>3. TokenInv'
  BY TokenStep DEF TokenInv
<1>4. ExitInv'
  BY ExitStep DEF ExitInv
<1>5. FlowInv'
  BY FlowStep DEF FlowInv
<1> QED BY <1>1, <1>2, <1>3, <1>4, <1>5 DEF RunInv

(* The invariant holds in every state: the queue is the set of open        *)
(* commands, the newest create carries the newest credential, and how far  *)
(* a workflow has come is backed by commands that have succeeded.          *)
THEOREM Invariance == Spec => []RunInv
BY RunInit, RunStep, PTL DEF Spec

(* The types hold in every state. *)
THEOREM Typing == Spec => []TypeOK
<1>1. RunInv => TypeOK
  BY TypeSuffices DEF RunInv
<1> QED BY <1>1, Invariance, PTL

(* A container that works for a running run holds the credential minted    *)
(* last, and that one is not revoked.                                      *)
THEOREM CredentialSafety == Spec => []CredentialFits
<1>1. RunInv => CredentialFits
  <2> SUFFICES ASSUME RunInv, NEW r \in Runs, box[r] = "running",
                      state[r] \in {"running", "collecting"}
               PROVE  held[r] = gen[r] /\ token[r] = "active"
    BY DEF CredentialFits
  <2>1. /\ CreateAt(r) /\ TokenAt(r) /\ Backed(r)
        /\ token[r] \in {None, "active", "revoked"}
    BY DEF RunInv, CreateInv, TokenInv, FlowInv, TypeInv, RowType
  <2>2. Has(r, "create")
    BY <2>1 DEF Backed
  <2>3. held[r] = gen[r] /\ token[r] # None
    BY <2>1, <2>2 DEF CreateAt, TokenAt, Boxed
  <2>4. token[r] # "revoked"
    BY <2>1 DEF TokenAt, Terminal, Failures, None
  <2> QED BY <2>1, <2>3, <2>4
<1> QED BY <1>1, Invariance, PTL

(* A run reported as succeeded was started, ended well, had its result     *)
(* collected and its credential revoked.                                   *)
THEOREM SuccessSafety == Spec => []SuccessIsEarned
<1>1. RunInv => SuccessIsEarned
  <2> SUFFICES ASSUME RunInv, NEW r \in Runs, state[r] = "succeeded"
               PROVE  /\ starts[r] > 0 /\ exit[r] = "ok"
                      /\ cmd[r]["collect"] = "succeeded" /\ token[r] = "revoked"
    BY DEF SuccessIsEarned
  <2>1. Earned(r) /\ token[r] = "revoked" /\ ExitAt(r)
    BY DEF RunInv, FlowInv, Backed, ExitInv
  <2> QED BY <2>1 DEF Earned, Has, ExitAt, None
<1> QED BY <1>1, Invariance, PTL

-----------------------------------------------------------------------------
(* The cap, when request transactions do not overlap *)

(* A step that lets no run join the unplaced ones or a Studio, and has no  *)
(* node chosen.                                                            *)
Calm ==
    /\ order' = order /\ late' = late /\ Unplaced' \subseteq Unplaced
    /\ \A n \in Studios : Active(n)' \subseteq Active(n)
    /\ \A r \in Runs : /\ state'[r] = None <=> state[r] = None
                       /\ wf'[r] = "probe" => wf[r] = "probe" /\ cand'[r] = cand[r]

(* Calm steps keep the stages before the execution. *)
Keen(r) ==
    /\ wf'[r] \in Early => /\ wf[r] \in Early
                           /\ state[r] \in Before => state'[r] \in Before
    /\ wf'[r] \in {None, "probe"} => wf[r] = wf'[r] /\ node'[r] = node[r]
    /\ wf'[r] # None => wf[r] # None \/ state[r] # None

(* Calm steps keep the head of the queue and the cap. *)
LEMMA CalmCap ==
    ASSUME TypeInv, CapInv, Calm, \A r \in Runs : Keen(r)
    PROVE  CapInv'
<1> USE DEF CapInv
<1> DEFINE Fit(n) == Active(n) \ late
<1>0. late' = late
  BY DEF Calm
<1>1. ASSUME NEW n \in Studios
      PROVE  /\ Cardinality(Fit(n)') <= Cardinality(Fit(n))
             /\ Cardinality(Fit(n)') \in Nat /\ Cardinality(Fit(n)) \in Nat
  <2>1. IsFiniteSet(Fit(n))
    BY AgentRunsAssumption, FS_Subset DEF Active
  <2>2. Fit(n)' \subseteq Fit(n)
    BY DEF Calm
  <2> QED BY <2>1, <2>2, FS_Subset, FS_CardinalityType
<1>2. PunctualRunsFit'
  <2>1. ASSUME NEW n \in Studios PROVE Cardinality(Fit(n)') <= Cap
    <3>1. Cardinality(Fit(n)) <= Cap /\ Cap \in Nat
      BY AgentRunsAssumption DEF PunctualRunsFit
    <3> HIDE DEF Fit
    <3> QED BY <1>1, <3>1
  <2> QED BY <2>1 DEF PunctualRunsFit
<1>4. ASSUME NEW r \in (Unplaced \ late)', wf'[r] = "probe"
      PROVE  Leads(r)' /\ Cardinality((Active(cand[r]) \ late)') < Cap
  <2>1. /\ r \in Runs /\ r \in Unplaced \ late /\ wf[r] = "probe"
        /\ cand'[r] = cand[r]
    BY <1>4 DEF Calm, Unplaced
  <2>2. Leads(r) /\ Cardinality(Active(cand[r]) \ late) < Cap
    BY <2>1 DEF HeadInv
  <2>3. Leads(r)'
    BY <1>4, <2>2 DEF Leads, Calm
  <2>4. PICK n \in Studios : n = cand[r]
    BY <2>1 DEF PlaceInv
  <2>5. Cardinality(Fit(n)') < Cap
    <3>1. Cardinality(Fit(n)) < Cap /\ Cap \in Nat
      BY <2>2, <2>4, AgentRunsAssumption
    <3> HIDE DEF Fit
    <3> QED BY <1>1, <3>1
  <2>6. (Active(cand[r]) \ late)' = Fit(n)'
    BY <2>1, <2>4 DEF Active
  <2> QED BY <2>3, <2>5, <2>6
<1>5. HeadInv'
  BY <1>4 DEF HeadInv
<1>6. ASSUME NEW r \in Runs
      PROVE  /\ state'[r] # None => \E i \in 1 .. Len(order') : order'[i] = r
             /\ wf'[r] # None => state'[r] # None
             /\ wf'[r] \in {None, "probe"} => node'[r] = None
             /\ wf'[r] \in Early => state'[r] \in Before
             /\ wf'[r] = "probe" => cand'[r] \in Studios
  <2>1. /\ state[r] # None => \E i \in 1 .. Len(order) : order[i] = r
        /\ wf[r] # None => state[r] # None
        /\ wf[r] \in {None, "probe"} => node[r] = None
        /\ wf[r] \in Early => state[r] \in Before
        /\ wf[r] = "probe" => cand[r] \in Studios
    BY DEF PlaceInv
  <2> QED BY <2>1 DEF Calm, Keen
<1>7. PlaceInv'
  BY <1>6 DEF PlaceInv, Early, Before
<1> QED BY <1>2, <1>5, <1>7

(* The steps that are calm: all but a request, its commit, the choice of a *)
(* node and the placement on it.                                           *)
LEMMA CalmSteps ==
    ASSUME TypeInv, FlowInv, PlaceInv, [Next]_vars
    PROVE  \/ Calm /\ \A r \in Runs : Keen(r)
           \/ \E a \in Runs : \/ OpenRequest(a) \/ CommitRequest(a)
                              \/ Choose(a) \/ CommitPlacement(a)
<1> DEFINE Goal == \/ Calm /\ \A r \in Runs : Keen(r)
                   \/ \E r \in Runs : CommitRequest(r)
<1> USE DEF row, commands, flow, lanes, wire, studio, bounds
<1>0. /\ state \in [Runs -> States] /\ node \in [Runs -> Studios \cup {None}]
      /\ wf \in [Runs -> {None, "place", "probe", "gate", "run", "final", "done",
                          "error"}]
      /\ cand \in [Runs -> Studios \cup {None}]
  BY DEF TypeInv, RowType, FlowType
<1>1. ASSUME UNCHANGED <<order, node>>,
             \A r \in Runs :
                /\ state'[r] = None <=> state[r] = None
                /\ state'[r] \in {"queued", "placing"} => state'[r] = state[r]
                /\ state[r] \in Terminal => state'[r] \in Terminal
                /\ wf'[r] = "probe" => wf[r] = "probe" /\ cand'[r] = cand[r]
                /\ wf'[r] \in Early => /\ wf[r] \in Early
                                       /\ state'[r] \in Ending \cup {state[r]}
                /\ wf'[r] \in {None, "probe"} => wf[r] = wf'[r]
                /\ wf'[r] # None => wf[r] # None \/ state[r] # None
      PROVE  Goal
  <2>1. ASSUME UNCHANGED late PROVE Calm
    BY <1>1, <2>1 DEF Calm, Unplaced, Active
  <2>2. \A r \in Runs : Keen(r)
    BY <1>1 DEF Keen, Ending, Before
  <2> QED BY <2>1, <2>2, LateStep
<1> HIDE DEF Goal
<1>2. ASSUME UNCHANGED <<order, state, node, wf, cand>> PROVE Goal
  BY <1>1, <1>2
<1>3. ASSUME NEW a \in Runs, NEW x \in Ending, UNCHANGED <<order, node, wf, cand>>,
             state' = [state EXCEPT ![a] = x],
             state[a] # None, state[a] \in Terminal => x \in Terminal
      PROVE  Goal
  <2>1. x \notin {None, "queued", "placing"}
    BY DEF Ending, Terminal, Failures, None
  <2> QED BY <1>0, <1>1, <1>3, <2>1
<1>4. ASSUME NEW a \in Runs, NEW y \in {"place", "gate", "run", "final", "done",
                                        "error"},
             UNCHANGED <<order, node, state>>, wf' = [wf EXCEPT ![a] = y],
             \A r \in Runs : r # a => cand'[r] = cand[r],
             wf[a] # None \/ state[a] # None, y \in Early => wf[a] \in Early
      PROVE  Goal
  <2>1. ASSUME NEW r \in Runs
        PROVE  /\ wf'[r] = "probe" => wf[r] = "probe" /\ cand'[r] = cand[r]
               /\ wf'[r] \in Early => wf[r] \in Early
               /\ wf'[r] \in {None, "probe"} => wf[r] = wf'[r]
               /\ wf'[r] # None => wf[r] # None \/ state[r] # None
    <3>1. CASE r = a
      <4>1. wf'[r] = y
        BY <1>0, <1>4, <3>1
      <4> QED BY <1>4, <3>1, <4>1 DEF Early, None
    <3>2. CASE r # a
      BY <1>0, <1>4, <3>2
    <3> QED BY <3>1, <3>2
  <2> QED BY <1>1, <1>4, <2>1
<1>5. ASSUME NEW a \in Runs, wf[a] \in {"run", "final"},
             UNCHANGED <<order, node, cand>>,
             NEW y \in {"run", "final", "done", "error"},
             wf' = [wf EXCEPT ![a] = y],
             NEW x \in States \ {None, "queued", "placing"},
             \/ UNCHANGED state
             \/ /\ state' = [state EXCEPT ![a] = x]
                /\ state[a] \in Terminal => x \in Terminal
      PROVE  Goal
  <2>1. state[a] # None
    BY <1>5 DEF PlaceInv, None
  <2>2. ASSUME NEW r \in Runs
        PROVE  /\ state'[r] = None <=> state[r] = None
               /\ state'[r] \in {"queued", "placing"} => state'[r] = state[r]
               /\ state[r] \in Terminal => state'[r] \in Terminal
               /\ wf'[r] = "probe" => wf[r] = "probe" /\ cand'[r] = cand[r]
               /\ wf'[r] \in Early => /\ wf[r] \in Early
                                      /\ state'[r] \in Ending \cup {state[r]}
               /\ wf'[r] \in {None, "probe"} => wf[r] = wf'[r]
               /\ wf'[r] # None => wf[r] # None \/ state[r] # None
    <3>1. CASE r = a
      <4>1. wf'[r] = y /\ (state'[r] = state[r] \/ state'[r] = x)
        BY <1>0, <1>5, <3>1
      <4>2. state[r] \in Terminal => state'[r] \in Terminal
        BY <1>0, <1>5, <3>1
      <4> QED BY <1>5, <2>1, <3>1, <4>1, <4>2 DEF Early, None
    <3>2. CASE r # a
      BY <1>0, <1>5, <3>2
    <3> QED BY <3>1, <3>2
  <2> QED BY <1>1, <1>5, <2>2
<1>6. /\ {"creating", "running", "collecting", "kill_requested", "killed"}
            \subseteq States \ {None, "queued", "placing"}
      /\ Ending \subseteq States \ {None, "queued", "placing"}
      /\ {"killed", "kill_requested"} \subseteq Ending /\ "killed" \in Terminal
      /\ \A why : Outcome(why) \in Terminal
  BY DEF States, Ending, Terminal, Failures, None, Outcome
<1>7. ASSUME NEW a \in Runs, KillRequest(a) \/ StopByOwner(a) PROVE Goal
  <2>1. /\ UNCHANGED <<order, node, wf, cand>> /\ state[a] \notin Terminal \cup {None}
        /\ \E x \in {"kill_requested", "killed"} : state' = [state EXCEPT ![a] = x]
    BY <1>7 DEF KillRequest, StopByOwner, MayMove
  <2> QED BY <1>3, <1>6, <2>1
<1>8. ASSUME NEW a \in Runs, MarkKilled(a) PROVE Goal
  <2>1. /\ UNCHANGED <<order, node, wf, cand>>
        /\ state' = [state EXCEPT ![a] = IF @ = "kill_requested" THEN "killed"
                                         ELSE @]
    BY <1>8 DEF MarkKilled
  <2>2. CASE state[a] = "kill_requested"
    <3>1. state' = [state EXCEPT ![a] = "killed"]
      BY <2>1, <2>2
    <3> QED BY <1>3, <1>6, <2>1, <2>2, <3>1 DEF None
  <2>3. CASE state[a] # "kill_requested"
    <3>1. state' = state
      BY <1>0, <2>1, <2>3
    <3> QED BY <1>2, <2>1, <3>1
  <2> QED BY <2>2, <2>3
<1>9. ASSUME NEW a \in Runs, Dispatch(a) \/ PlaceStopped(a) \/ Gate(a) \/ ProbeFails(a)
      PROVE  Goal
  <2>1. /\ UNCHANGED <<order, node, state>>
        /\ UNCHANGED cand \/ cand' = [cand EXCEPT ![a] = None]
        /\ wf[a] # None \/ state[a] # None
        /\ \E y \in {"place", "gate", "run", "done"} :
               /\ wf' = [wf EXCEPT ![a] = y]
               /\ y \in Early => wf[a] \in Early
    BY <1>9 DEF Dispatch, PlaceStopped, Gate, ProbeFails, Early, None
  <2>2. \A r \in Runs : r # a => cand'[r] = cand[r]
    BY <1>0, <2>1
  <2> QED BY <1>4, <2>1, <2>2
<1>10. ASSUME NEW a \in Runs, NEW why, Raise(a, why)
       PROVE  \E y \in {wf[a], "final"} : wf' = [wf EXCEPT ![a] = y]
  BY <1>0, <1>10 DEF Raise, Conclude
<1>11. ASSUME NEW a \in Runs, Submit(a) \/ Fail(a) \/ DrainFails(a) \/ Done(a)
       PROVE  Goal
  <2>1. wf[a] \in {"run", "final"} /\ UNCHANGED <<order, node, state, cand>>
    BY <1>11 DEF Submit, Fail, DrainFails, Done
  <2>2. \/ \E why : Raise(a, why)
        \/ UNCHANGED wf
        \/ \E y \in {"done", "error"} : wf' = [wf EXCEPT ![a] = y]
    BY <1>0, <1>11 DEF Submit, Fail, DrainFails, Done
  <2>3. \E y \in {"run", "final", "done", "error"} : wf' = [wf EXCEPT ![a] = y]
    BY <1>0, <1>10, <2>1, <2>2
  <2> QED BY <1>5, <1>6, <2>1, <2>3
<1>12. ASSUME NEW a \in Runs, NEW to \in {"creating", "running", "collecting"},
              Advance(a, to)
       PROVE  \/ UNCHANGED state
              \/ state' = [state EXCEPT ![a] = to] /\ state[a] \notin Terminal
  BY <1>0, <1>12 DEF Advance
<1>13. ASSUME NEW a \in Runs, BeginExecution(a) \/ Proceed(a) PROVE Goal
  <2>1. wf[a] = "run" /\ UNCHANGED <<order, node, cand>>
    BY <1>13 DEF BeginExecution, Proceed
  <2>2. \/ UNCHANGED state
        \/ \E x \in {"creating", "running", "collecting"} : Advance(a, x)
    BY <1>13, ProceedCases DEF BeginExecution, Created, Started, Waited, Logged,
                                Collected
  <2>3. UNCHANGED wf \/ wf' = [wf EXCEPT ![a] = "final"]
    BY <1>13, ProceedCases DEF BeginExecution, Created, Started, Waited, Logged,
                                Collected, Conclude
  <2>4. \E y \in {"run", "final"} : wf' = [wf EXCEPT ![a] = y]
    BY <1>0, <2>1, <2>3
  <2>5. \E x \in States \ {None, "queued", "placing"} :
            \/ UNCHANGED state
            \/ /\ state' = [state EXCEPT ![a] = x]
               /\ state[a] \in Terminal => x \in Terminal
    BY <1>6, <1>12, <2>2
  <2> QED BY <1>5, <2>1, <2>4, <2>5
<1>14. ASSUME NEW a \in Runs, Finalize(a) PROVE Goal
  <2>1. /\ UNCHANGED <<order, node, wf, cand>> /\ wf[a] = "final"
        /\ \/ UNCHANGED state
           \/ state' = [state EXCEPT ![a] = Outcome(detail[a])]
    BY <1>14 DEF Finalize
  <2>2. state[a] # None
    BY <2>1 DEF PlaceInv, None
  <2>3. Outcome(detail[a]) \in Terminal /\ Outcome(detail[a]) \in Ending
    BY <1>6 DEF Ending
  <2> QED BY <1>2, <1>3, <2>1, <2>2, <2>3
<1>15. ASSUME Crash PROVE Goal
  <2>1. /\ UNCHANGED <<order, node, state>>
        /\ \A r \in Runs : \/ (wf'[r] = wf[r] /\ wf[r] # "probe")
                            \/ (wf'[r] = "place" /\ wf[r] \in {"probe", "gate"})
    BY <1>15 DEF Crash
  <2>2. ASSUME NEW r \in Runs
        PROVE  /\ wf'[r] # "probe" /\ (wf'[r] \in Early => wf[r] \in Early)
               /\ (wf'[r] = None <=> wf[r] = None)
    BY <2>1 DEF Early, None
  <2> QED BY <1>1, <2>1, <2>2
<1>16. ASSUME NEW a \in Runs, DispatchKill(a) \/ BeginKill(a) \/ AwaitKill(a)
       PROVE  Goal
  <2>1. UNCHANGED <<order, state, node, wf, cand>>
    BY <1>16 DEF DispatchKill, BeginKill, AwaitKill
  <2> QED BY <1>2, <2>1
<1>17. CASE UNCHANGED vars \/ ExecStep \/ StudioStep
  <2>1. UNCHANGED <<order, state, node, wf, cand>>
    BY <1>17, ExecFrame, StudioFrame DEF vars
  <2> QED BY <1>2, <2>1 DEF Goal
<1> QED
  BY <1>7, <1>8, <1>9, <1>11, <1>13, <1>14, <1>15, <1>16, <1>17, Steps
     DEF CoreStep, User, Workflow, KillWorkflow, Goal

(* A request, its commit, the choice of a node and the placement on it     *)
LEMMA OpenCap ==
    ASSUME TypeInv, CapInv, NEW a \in Runs, OpenRequest(a)
    PROVE  CapInv'
<1> USE DEF CapInv
<1>1. /\ order' = Append(order, a) /\ order \in Seq(Runs)
      /\ UNCHANGED <<state, node, wf, cand, late>>
  BY DEF OpenRequest, TypeInv, RowType, flow, bounds
<1>2. /\ Len(order') = Len(order) + 1 /\ Len(order) \in Nat
      /\ order'[Len(order) + 1] = a
      /\ \A i \in 1 .. Len(order) : order'[i] = order[i] /\ i \in 1 .. Len(order')
      /\ \A i \in 1 .. Len(order') : i \in 1 .. Len(order) \/ i = Len(order) + 1
  BY <1>1
<1>3. \A i \in 1 .. Len(order) : order[i] # a
  BY <1>1 DEF OpenRequest, ToSet
<1>4. state[a] = None
  BY <1>3 DEF PlaceInv
<1>5. PlaceInv'
  BY <1>1, <1>2 DEF PlaceInv
<1>7. Unplaced' = Unplaced /\ a \notin Unplaced
  BY <1>1, <1>4 DEF Unplaced, None
<1>8. ASSUME NEW r \in Unplaced, Leads(r) PROVE Leads(r)'
  BY <1>1, <1>2, <1>7, <1>8 DEF Leads
<1>9. HeadInv' /\ PunctualRunsFit'
  <2>1. ASSUME NEW r \in Unplaced \ late, wf[r] = "probe"
        PROVE  Leads(r)' /\ Cardinality((Active(cand[r]) \ late)') < Cap
    <3>1. (Active(cand[r]) \ late)' = Active(cand[r]) \ late
      BY <1>1 DEF Active
    <3> QED BY <1>8, <2>1, <3>1 DEF HeadInv
  <2>2. \A n : (Active(n) \ late)' = Active(n) \ late
    BY <1>1 DEF Active
  <2> QED BY <1>1, <1>7, <2>1, <2>2 DEF HeadInv, PunctualRunsFit
<1> QED BY <1>5, <1>9

(* A request that commits occupies no slot; if a younger run is being      *)
(* probed for, it is late.                                                 *)
LEMMA CommitCap ==
    ASSUME TypeInv, CapInv, NEW a \in Runs, CommitRequest(a)
    PROVE  CapInv'
<1> USE DEF CapInv
<1>1. /\ UNCHANGED <<order, node, wf, cand>> /\ order \in Seq(Runs)
      /\ state[a] = None /\ state \in [Runs -> States]
      /\ state' = [state EXCEPT ![a] = "queued"]
      /\ late' = IF Overtaken(a) THEN late \cup {a} ELSE late
      /\ DOMAIN order = 1 .. Len(order)
  BY DEF CommitRequest, TypeInv, RowType, flow
<1>2. /\ state'[a] = "queued" /\ \A r \in Runs : r # a => state'[r] = state[r]
      /\ \A r \in Runs : r # a => (r \in late' <=> r \in late)
      /\ late \subseteq late'
  BY <1>1
<1>3. PICK k \in 1 .. Len(order) : order[k] = a
  BY <1>1 DEF CommitRequest, ToSet
<1>5. wf[a] = None /\ node[a] = None
  BY <1>1 DEF PlaceInv
<1>6. PlaceInv'
  BY <1>1, <1>2, <1>3, <1>5 DEF PlaceInv, Before, None
<1>8. ASSUME NEW n \in Studios
      PROVE  (Active(n) \ late)' = Active(n) \ late /\ a \notin Active(n)
  <2>1. \A r \in Runs : r # a => (r \in Active(n)' <=> r \in Active(n))
    BY <1>1, <1>2 DEF Active
  <2>2. a \notin Active(n) /\ a \notin Active(n)'
    BY <1>1, <1>5, StudioAssumption DEF Active
  <2>3. Active(n) \subseteq Runs /\ Active(n)' \subseteq Runs
    BY DEF Active
  <2> QED BY <1>2, <2>1, <2>2, <2>3
<1>9. ASSUME NEW r \in (Unplaced \ late)', wf'[r] = "probe"
      PROVE  Leads(r)' /\ Cardinality((Active(cand[r]) \ late)') < Cap
  <2>1. r \in Runs /\ r # a /\ wf[r] = "probe" /\ r \in Unplaced \ late
    BY <1>1, <1>2, <1>5, <1>9 DEF Unplaced, None
  <2>2. /\ Leads(r) /\ Cardinality(Active(cand[r]) \ late) < Cap
        /\ cand[r] \in Studios /\ state[r] # None
    BY <2>1 DEF HeadInv, PlaceInv, None
  <2>3. \A s \in (Unplaced \ late)' : s \in Unplaced \ late \/ s = a
    BY <1>1, <1>2 DEF Unplaced
  <2>4. ASSUME NEW i \in 1 .. Len(order), NEW j \in 1 .. Len(order),
               order[i] = r, order[j] \in (Unplaced \ late)'
        PROVE  i <= j
    <3>1. CASE order[j] \in Unplaced \ late
      BY <2>2, <2>4, <3>1 DEF Leads
    <3>2. CASE order[j] = a
      <4>1. SUFFICES ASSUME j < i PROVE FALSE
        BY <1>1
      <4>2. Overtaken(a)
        BY <1>1, <2>2, <2>4, <3>2, <4>1 DEF Overtaken
      <4> QED BY <1>1, <2>4, <3>2, <4>2
    <3> QED BY <2>3, <2>4, <3>1, <3>2
  <2>5. Leads(r)'
    BY <1>1, <2>4 DEF Leads
  <2>6. (Active(cand[r]) \ late)' = Active(cand[r]) \ late
    <3>1. PICK n \in Studios : n = cand[r]
      BY <2>2
    <3>2. (Active(cand[r]) \ late)' = (Active(n) \ late)'
      BY <1>1, <3>1 DEF Active
    <3> QED BY <1>8, <3>1, <3>2
  <2> QED BY <2>2, <2>5, <2>6
<1>10. HeadInv' /\ PunctualRunsFit'
  BY <1>8, <1>9 DEF HeadInv, PunctualRunsFit
<1> QED BY <1>6, <1>10

(* The head of the queue chooses a Studio with a free slot. *)
LEMMA ChooseCap ==
    ASSUME TypeInv, CapInv, NEW a \in Runs, Choose(a)
    PROVE  CapInv'
<1> USE DEF CapInv
<1>1. /\ UNCHANGED <<order, node, late>> /\ wf[a] = "place"
      /\ state[a] \in {"queued", "placing"} /\ Advance(a, "placing")
      /\ state \in [Runs -> States] /\ order \in Seq(Runs)
      /\ wf \in [Runs -> {None, "place", "probe", "gate", "run", "final", "done",
                          "error"}]
      /\ cand \in [Runs -> Studios \cup {None}]
  BY DEF Choose, TypeInv, RowType, FlowType, bounds
<1>2. state'[a] = "placing" /\ \A r \in Runs : r # a => state'[r] = state[r]
  BY <1>1 DEF Advance, Terminal, Failures
<1>3. \/ UNCHANGED <<cand, wf>>
      \/ /\ FifoHead(a) /\ wf' = [wf EXCEPT ![a] = "probe"]
         /\ \E n \in Studios : HasSlot(n, a) /\ cand' = [cand EXCEPT ![a] = n]
  BY Zenon DEF Choose
<1>4. \A r \in Runs : /\ r # a => wf'[r] = wf[r] /\ cand'[r] = cand[r]
                      /\ \/ wf'[a] = "place"
                         \/ /\ wf'[a] = "probe" /\ cand'[a] \in Studios
                            /\ node[a] = None
  BY <1>1, <1>3 DEF FifoHead, Unplaced
<1>5. PlaceInv'
  BY <1>1, <1>2, <1>4 DEF PlaceInv, Before, None
<1>7. Unplaced' = Unplaced
  BY <1>1, <1>2 DEF Unplaced
<1>8. \A n \in Studios : (Active(n) \ late)' = Active(n) \ late
  BY <1>1, <1>2 DEF Active, Terminal, Failures
<1>9. \A r \in Runs : Leads(r)' <=> Leads(r)
  BY <1>1, <1>7 DEF Leads
<1>10. ASSUME NEW r \in (Unplaced \ late)', wf'[r] = "probe"
       PROVE  Leads(r)' /\ Cardinality((Active(cand[r]) \ late)') < Cap
  <2>0. r \in Runs /\ r \in Unplaced \ late
    BY <1>1, <1>7, <1>10 DEF Unplaced
  <2>1. Leads(r) /\ \E n \in Studios : /\ n = cand'[r]
                                       /\ Cardinality(Active(n) \ late) < Cap
    <3>1. CASE r = a
      <4>1. FifoHead(a) /\ \E n \in Studios : HasSlot(n, a) /\ n = cand'[a]
        BY <1>1, <1>3, <1>10, <3>1
      <4>2. PICK n \in Studios : HasSlot(n, a) /\ n = cand'[a]
        BY <4>1
      <4>3. Active(n) \ late \subseteq Active(n) \ {a}
        BY <4>1, StudioAssumption DEF Active, FifoHead, Unplaced
      <4>4. IsFiniteSet(Active(n) \ {a})
        BY AgentRunsAssumption, FS_Subset DEF Active
      <4>5. /\ Cardinality(Active(n) \ late) <= Cardinality(Active(n) \ {a})
            /\ Cardinality(Active(n) \ {a}) \in Nat
            /\ Cardinality(Active(n) \ late) \in Nat
        BY <4>3, <4>4, FS_Subset, FS_CardinalityType
      <4>6. Cardinality(Active(n) \ {a}) < Cap /\ Cap \in Nat
        BY <4>2, AgentRunsAssumption DEF HasSlot
      <4>7. Cardinality(Active(n) \ late) < Cap
        BY <4>5, <4>6
      <4>8. Leads(a)
        BY <1>1, <4>1 DEF Leads, FifoHead
      <4> QED BY <3>1, <4>2, <4>7, <4>8
    <3>2. CASE r # a
      <4>1. wf[r] = "probe" /\ cand'[r] = cand[r]
        BY <1>4, <1>10, <2>0, <3>2
      <4> QED BY <2>0, <4>1 DEF HeadInv, PlaceInv
    <3> QED BY <3>1, <3>2
  <2>2. PICK n \in Studios : n = cand'[r] /\ Cardinality(Active(n) \ late) < Cap
    BY <2>1
  <2>3. (Active(cand[r]) \ late)' = (Active(n) \ late)'
    BY <2>2 DEF Active
  <2> QED BY <1>8, <1>9, <2>0, <2>1, <2>2, <2>3
<1>11. HeadInv' /\ PunctualRunsFit'
  BY <1>8, <1>10 DEF HeadInv, PunctualRunsFit
<1> QED BY <1>5, <1>11

(* One punctual run at a time is placed, so the count before the probe     *)
(* still holds; a late one is not counted.                                 *)
LEMMA PlacementCap ==
    ASSUME TypeInv, CapInv, NEW a \in Runs, CommitPlacement(a)
    PROVE  CapInv'
<1> USE DEF CapInv
<1>1. /\ UNCHANGED <<order, state, late>> /\ wf[a] = "probe"
      /\ wf \in [Runs -> {None, "place", "probe", "gate", "run", "final", "done",
                          "error"}]
      /\ cand \in [Runs -> Studios \cup {None}] /\ state \in [Runs -> States]
      /\ node \in [Runs -> Studios \cup {None}]
      /\ wf' = [wf EXCEPT ![a] = "gate"] /\ cand' = [cand EXCEPT ![a] = None]
      /\ node' = [node EXCEPT ![a] = IF state[a] \in Ending THEN node[a] ELSE cand[a]]
      /\ cand[a] \in Studios /\ node[a] = None
  BY DEF CommitPlacement, TypeInv, RowType, FlowType, PlaceInv, Ending, bounds
<1>2. /\ wf'[a] = "gate"
      /\ \A r \in Runs : r # a => /\ wf'[r] = wf[r] /\ cand'[r] = cand[r]
                                  /\ node'[r] = node[r]
  BY <1>1
<1>3. PlaceInv'
  BY <1>1, <1>2 DEF PlaceInv, Early, None
<1>4. CASE state[a] \in Ending
  <2>1. UNCHANGED node
    BY <1>1, <1>4
  <2>2. Calm
    BY <1>1, <1>2, <2>1 DEF Calm, Unplaced, Active
  <2>3. \A r \in Runs : Keen(r)
    BY <1>1, <1>2, <2>1 DEF Keen, Early, None
  <2> QED BY <2>2, <2>3, CalmCap
<1>5. CASE state[a] \notin Ending
  <2>1. /\ node'[a] = cand[a]
    BY <1>1, <1>5
  <2>2. state[a] \in {"queued", "placing"}
    BY <1>1, <1>5 DEF PlaceInv, Early, Before, Ending, None
  <2>3. a \in Unplaced
    BY <1>1, <2>2 DEF Unplaced
  <2>4. Unplaced' \subseteq Unplaced /\ a \notin Unplaced'
    BY <1>1, <1>2, <2>1, StudioAssumption DEF Unplaced
  <2>5. ASSUME NEW n \in Studios
        PROVE  /\ \/ (Active(n) \ late)' = Active(n) \ late
                  \/ /\ n = cand[a] /\ a \notin late
                     /\ (Active(n) \ late)' = (Active(n) \ late) \cup {a}
               /\ a \in late => (Active(n) \ late)' = Active(n) \ late
               /\ a \notin Active(n)
    <3>1. \A r \in Runs : r # a => (r \in Active(n)' <=> r \in Active(n))
      BY <1>1, <1>2 DEF Active
    <3>2. a \notin Active(n)
      BY <1>1, StudioAssumption DEF Active
    <3>3. a \in Active(n)' => n = cand[a]
      BY <2>1 DEF Active
    <3>4. Active(n) \subseteq Runs /\ Active(n)' \subseteq Runs
      BY DEF Active
    <3> QED BY <1>1, <3>1, <3>2, <3>3, <3>4
  <2>6. ASSUME NEW r \in (Unplaced \ late)', wf'[r] = "probe"
        PROVE  Leads(r)' /\ Cardinality((Active(cand[r]) \ late)') < Cap
    <3>1. /\ r \in Runs /\ r \in Unplaced \ late /\ r # a /\ wf[r] = "probe"
          /\ cand'[r] = cand[r]
      BY <1>1, <1>2, <2>4, <2>6 DEF Unplaced
    <3>2. Leads(r) /\ Cardinality(Active(cand[r]) \ late) < Cap
          /\ cand[r] \in Studios
      BY <3>1 DEF HeadInv, PlaceInv
    <3>3. a \in late
      <4>1. SUFFICES ASSUME a \notin late PROVE FALSE
        OBVIOUS
      <4>2. Leads(a)
        BY <1>1, <2>3, <4>1 DEF HeadInv
      <4>3. PICK i \in 1 .. Len(order) : order[i] = a
        BY <1>1 DEF PlaceInv, None
      <4>4. PICK j \in 1 .. Len(order) : order[j] = r
        BY <3>1 DEF PlaceInv, None
      <4>5. i <= j
        BY <3>1, <4>2, <4>3, <4>4 DEF Leads
      <4>6. j <= i
        BY <2>3, <3>2, <4>1, <4>3, <4>4 DEF Leads
      <4>7. i = j
        BY <4>5, <4>6
      <4> QED BY <3>1, <4>3, <4>4, <4>7
    <3>4. Leads(r)'
      BY <1>1, <2>4, <3>2 DEF Leads
    <3>5. PICK n \in Studios : n = cand[r]
      BY <3>2
    <3>6. (Active(cand[r]) \ late)' = (Active(n) \ late)'
      BY <3>1, <3>5 DEF Active
    <3> QED BY <2>5, <3>2, <3>3, <3>4, <3>5, <3>6
  <2>7. ASSUME NEW n \in Studios PROVE Cardinality((Active(n) \ late)') <= Cap
    <3>1. IsFiniteSet(Active(n) \ late) /\ Cardinality(Active(n) \ late) \in Nat
      BY AgentRunsAssumption, FS_Subset, FS_CardinalityType DEF Active
    <3>2. CASE (Active(n) \ late)' = Active(n) \ late
      BY <3>2 DEF PunctualRunsFit
    <3>3. CASE /\ n = cand[a] /\ a \notin late
               /\ (Active(n) \ late)' = (Active(n) \ late) \cup {a}
      <4>1. Cardinality(Active(n) \ late) < Cap
        BY <1>1, <2>3, <3>3 DEF HeadInv
      <4>2. Cardinality((Active(n) \ late) \cup {a}) = Cardinality(Active(n) \ late) + 1
        BY <2>5, <3>1, FS_AddElement
      <4> QED BY <3>1, <3>3, <4>1, <4>2, AgentRunsAssumption
    <3> QED BY <2>5, <3>2, <3>3
  <2>8. HeadInv' /\ PunctualRunsFit'
    BY <2>6, <2>7 DEF HeadInv, PunctualRunsFit
  <2> QED BY <1>3, <2>8
<1> QED BY <1>4, <1>5

(* The cap holds among the runs whose rows appeared in the order of        *)
(* requested_at, however requests, probes, kills and restarts interleave:  *)
(* of these only the oldest is ever being placed, so the count that        *)
(* choose_studio took still holds when the placement is committed.  If no  *)
(* request overtakes another, these are all runs, and this is CapHeld.     *)
THEOREM CapSafety == Spec => []PunctualRunsFit
<1>1. Init => CapInv
  <2> SUFFICES ASSUME Init PROVE CapInv
    OBVIOUS
  <2>1. PlaceInv
    BY DEF Init, PlaceInv, Before, None
  <2>2. Unplaced = {}
    BY DEF Init, Unplaced, None
  <2>3. HeadInv
    BY <2>2 DEF HeadInv
  <2>4. ASSUME NEW n \in Studios PROVE Cardinality(Active(n) \ late) <= Cap
    <3>1. Active(n) \ late = {}
      BY StudioAssumption DEF Init, Active
    <3> QED BY <3>1, FS_EmptySet, AgentRunsAssumption
  <2> QED BY <2>1, <2>3, <2>4 DEF CapInv, PunctualRunsFit
<1>2. RunInv /\ CapInv /\ [Next]_vars => CapInv'
  <2> SUFFICES ASSUME RunInv, CapInv, [Next]_vars PROVE CapInv'
    OBVIOUS
  <2>1. TypeInv /\ FlowInv /\ PlaceInv
    BY DEF RunInv, CapInv
  <2> QED BY <2>1, CalmSteps, CalmCap, OpenCap, CommitCap, ChooseCap, PlacementCap
<1>3. CapInv => PunctualRunsFit
  BY DEF CapInv
<1> QED BY <1>1, <1>2, <1>3, Invariance, PTL DEF Spec

=============================================================================
