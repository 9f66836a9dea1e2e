-------------------------- MODULE ImageJobsProofs --------------------------
(***************************************************************************)
(* Image jobs, for every finite set of jobs and Studios, every batch size  *)
(* and every bound: the quota row balances, a Studio works for a job only  *)
(* under the job's lease, ended jobs leave nothing behind, a live worker's *)
(* memory is held in core, and workflows, journals and workers together    *)
(* implement ImageService.                                                 *)
(***************************************************************************)
EXTENDS ImageJobs, FiniteSetTheorems, TLAPS

-----------------------------------------------------------------------------
(* The inductive invariant *)

(* States in which a job has a Studio. *)
Placed == {"reserving", "running", "transferring", "cancelling"}

(* What the row of a job in core says about itself and about the others. *)
RowInvAt(j) ==
    /\ lease[j] <=> state[j] \in Placed
    /\ lease[j] => place[j] \in Nodes
    /\ \A k \in Jobs : lease[j] /\ lease[k] /\ place[j] = place[k] => j = k
    /\ public[j] <=> state[j] = "succeeded"
    /\ acked[j] /\ state[j] \notin {"failed", "cancelled"} => got[j] = Outputs
    /\ state[j] \in {None, "queued", "failed", "cancelled"} => got[j] = 0
    /\ state[j] \in {None, "queued"} => place[j] = None

RowInv == \A j \in Jobs : RowInvAt(j)

(* What the Studio's journal says about what is on the Studio. *)
JournalInvAt(j) ==
    /\ journal[j] # None => place[j] \in Nodes
    /\ scratch[j] => journal[j] # None /\ ~clean[j]
    /\ clean[j] => journal[j] \in Terminal
    /\ journal[j] = "succeeded" => clean[j]
    /\ work[j] = "running" =>
          journal[j] \in {"reserving", "running", "cancelling"}
    /\ \A n \in Nodes : push[n].job = j =>
          place[j] = n /\ journal[j] = "transferring"

JournalInv == \A j \in Jobs : JournalInvAt(j)

(* What the workflows in core know of the journal. *)
KnownInvAt(j) ==
    /\ place[j] = None => /\ dw[j] \in {None, "go", "done"} /\ tw[j] = None
                          /\ \A c \in late : c[1] # j
    /\ seen[j] = "failed" => journal[j] = "failed" /\ clean[j]
    /\ cw[j] = "final" => clean[j]
    /\ tw[j] = "ack" \/ acked[j] => journal[j] = "succeeded"
    /\ state[j] \in Terminal /\ place[j] # None => clean[j]

KnownInv == \A j \in Jobs : KnownInvAt(j)

(* The instance the job was placed on is in core and is not draining. *)
Serving(j) ==
    /\ place[j] \in Nodes /\ inst[place[j]].id = unit[j]
    /\ inst[place[j]].at \in {"launching", "ready"}

(* Who may still start a worker, and how far an unload has come. *)
MemoryInv ==
    /\ \A j \in Jobs :
          lease[j] \/ dw[j] \in {"reserve", "load"} \/ <<j, "load">> \in late
              => Serving(j)
    /\ \A n \in Nodes :
          /\ uw[n] # "idle" => inst[n].at = "draining"
          /\ uw[n] = "confirm" => worker[n].at = None
          /\ worker[n].at = None => ~worker[n].alive
    /\ MemoryIsHeld

ImageInv ==
    /\ TypeOK /\ QuotaBalances /\ RowInv
    /\ JournalInv /\ KnownInv /\ MemoryInv

-----------------------------------------------------------------------------
(* The moves of a job's row *)

rowPart == <<state, place, lease, acked, got, public, quota>>

Admits(j) ==
    /\ state[j] = None /\ state' = [state EXCEPT ![j] = "queued"]
    /\ pending' = pending + 1 /\ held' = held + 1
    /\ UNCHANGED <<place, lease, acked, got, public, stored>>

Places(j, n) ==
    /\ state[j] = "queued" /\ Free(n)
    /\ state' = [state EXCEPT ![j] = "reserving"]
    /\ place' = [place EXCEPT ![j] = n]
    /\ lease' = [lease EXCEPT ![j] = TRUE]
    /\ pending' = pending - 1
    /\ UNCHANGED <<acked, got, public, held, stored>>

Moves(j, to) ==
    /\ state[j] \in {"reserving", "running"}
    /\ state' = [state EXCEPT ![j] = to]
    /\ UNCHANGED <<place, lease, acked, got, public, quota>>

Receives(j, g) ==
    /\ state[j] = "transferring" /\ g >= got[j] /\ got' = [got EXCEPT ![j] = g]
    /\ UNCHANGED <<state, place, lease, acked, public, quota>>

Acknowledges(j) ==
    /\ state[j] = "transferring" /\ got[j] = Outputs
    /\ acked' = [acked EXCEPT ![j] = TRUE]
    /\ UNCHANGED <<state, place, lease, got, public, quota>>

Publishes(j) ==
    /\ ReadyToPublish(j)
    /\ state' = [state EXCEPT ![j] = "succeeded"]
    /\ public' = [public EXCEPT ![j] = TRUE]
    /\ lease' = [lease EXCEPT ![j] = FALSE]
    /\ held' = held - 1 /\ stored' = stored + 1
    /\ UNCHANGED <<place, acked, got, pending>>

EndsQueued(j, o) == state[j] = "queued" /\ EndQueued(j, o)

EndsPlaced(j, o) ==
    /\ state[j] \in Placed /\ (state[j] = "cancelling" => o = "cancelled")
    /\ EndPlaced(j, o)

Fences(j) == state[j] \in {"reserving", "running", "transferring"} /\ Fence(j)

RowMove ==
    \/ UNCHANGED rowPart
    \/ \E j \in Jobs :
          \/ Admits(j) \/ Acknowledges(j) \/ Publishes(j) \/ Fences(j)
          \/ \E n \in Nodes : Places(j, n)
          \/ \E to \in {"running", "transferring"} : Moves(j, to)
          \/ \E g \in 0..Outputs : Receives(j, g)
          \/ \E o \in {"failed", "cancelled"} : EndsQueued(j, o) \/ EndsPlaced(j, o)

(* An output that arrives never lowers the number of receipts. *)
LEMMA MaxOfTwo ==
    ASSUME NEW x \in Int, NEW y \in Int
    PROVE  Max({x, y}) \in {x, y} /\ Max({x, y}) >= x /\ Max({x, y}) >= y
BY DEF Max

(* Whatever the system does, the row of one job makes one of these moves. *)
LEMMA RowMoves ==
    ASSUME TypeOK, [Next]_vars
    PROVE  RowMove
<1> USE DEF RowMove
<1> DEFINE Rest == UNCHANGED rowPart
<1>1. ASSUME NEW j \in Jobs, Admit(j) PROVE RowMove
  BY <1>1 DEF Admit, Admits
<1>2. ASSUME NEW j \in Jobs, RequestCancel(j) PROVE RowMove
  BY <1>2 DEF RequestCancel, EndsQueued, Fences
<1>3. ASSUME NEW j \in Jobs, Expire(j) PROVE RowMove
  BY <1>3 DEF Expire, EndsQueued
<1>4. ASSUME NEW j \in Jobs, Age(j) \/ \E what \in {"access", "model"} : Withdraw(j, what)
      PROVE  Rest
  BY <1>4 DEF Age, Withdraw, rowPart, quota
<1>5. ASSUME NEW j \in Jobs, NEW n \in Nodes, Place(j, n) PROVE RowMove
  BY <1>5 DEF Place, Places
<1>6. ASSUME NEW j \in Jobs, Prepare(j) PROVE RowMove
  BY <1>6 DEF Prepare, EndsQueued, Fences, row, rowPart
<1>7. ASSUME NEW j \in Jobs, CheckAttempt(j) PROVE RowMove
  BY <1>7 DEF CheckAttempt, Fences, row, rowPart
<1>8. ASSUME NEW j \in Jobs, Apply(j) PROVE RowMove
  BY <1>8 DEF Apply, EndsPlaced, Moves, Placed, row, rowPart, quota
<1>9. ASSUME NEW j \in Jobs, Receive(j) PROVE RowMove
  <2>1. CASE UNCHANGED got
    BY <1>9, <2>1 DEF Receive, rowPart
  <2>2. CASE state[j] = "transferring" /\ ~UNCHANGED got
    <3> DEFINE next == push[place[j]].sent + 1
               g == Max({got[j], next})
    <3>1. place[j] \in Nodes
      BY <1>9 DEF Receive, Pushing, TypeOK
    <3>2. next \in 0..Outputs
      <4>1. push[place[j]].sent \in 0..Outputs /\ push[place[j]].sent < Outputs
        BY <1>9, <3>1 DEF Receive, TypeOK
      <4> QED BY <4>1, ImageJobsAssumption
    <3>3. got[j] \in 0..Outputs /\ Outputs \in Nat
      BY ImageJobsAssumption DEF TypeOK
    <3>4. got' = [got EXCEPT ![j] = g]
      BY <1>9, <2>2 DEF Receive
    <3> HIDE DEF next
    <3>5. g \in 0..Outputs /\ g >= got[j]
      <4>1. got[j] \in Int /\ next \in Int
        BY <3>2, <3>3
      <4>2. g \in {got[j], next} /\ g >= got[j]
        BY <4>1, MaxOfTwo, Zenon
      <4> QED BY <3>2, <3>3, <4>2
    <3> HIDE DEF g
    <3>6. Receives(j, g)
      BY <1>9, <2>2, <3>4, <3>5 DEF Receive, Receives
    <3> QED BY <3>5, <3>6
  <2> QED BY <1>9, <2>1, <2>2 DEF Receive
<1>10. ASSUME NEW j \in Jobs, Acknowledge(j) PROVE RowMove
  BY <1>10 DEF Acknowledge, Acknowledges, rowPart
<1>11. ASSUME NEW j \in Jobs, PublishStep(j) PROVE RowMove
  <2>1. CASE Publish(j)
    BY <2>1 DEF Publish, Publishes
  <2>2. CASE RefusePublication(j)
    BY <2>2 DEF RefusePublication, EndsPlaced, ReadyToPublish, Placed
  <2> QED BY <1>11, <2>1, <2>2 DEF PublishStep
<1>12. ASSUME NEW j \in Jobs, FinalizeCancel(j) PROVE RowMove
  BY <1>12 DEF FinalizeCancel, EndsPlaced, Placed
<1>13. ASSUME NEW j \in Jobs,
              \/ StartDispatch(j) \/ SendReserve(j) \/ SendLoad(j) \/ Warm(j)
              \/ RecordReady(j) \/ SendStart(j) \/ StartObserve(j) \/ Observe(j)
       PROVE  Rest
  BY <1>13 DEF StartDispatch, SendReserve, SendLoad, Warm, RecordReady, SendStart,
      StartObserve, Observe, row, rowPart
<1>14. ASSUME NEW j \in Jobs,
              \/ StartTransfer(j) \/ CheckTransfer(j) \/ AskTransfer(j)
              \/ SendTransfer(j) \/ StartCancel(j) \/ SendCancel(j)
              \/ KeepReceipts(j) \/ Unlink(j) \/ Sweep(j) \/ Finish(j) \/ LoseCall(j)
       PROVE  Rest
  BY <1>14 DEF StartTransfer, CheckTransfer, AskTransfer, SendTransfer, StartCancel,
      SendCancel, KeepReceipts, Unlink, Sweep, Finish, LoseCall, row, rowPart
<1>15. ASSUME NEW j \in Jobs, NEW op, LateCall(j, op) PROVE Rest
  BY <1>15 DEF LateCall, row, rowPart
<1>16. ASSUME NEW n \in Nodes, UnloadStep(n) \/ WorkerDies(n) \/ AgentRestarts(n)
       PROVE  Rest
  BY <1>16 DEF UnloadStep, PrepareUnload, SendUnload, ConfirmUnload, WorkerDies,
      AgentRestarts, row, rowPart
<1>17. CASE UNCHANGED vars
  BY <1>17 DEF vars, row, rowPart
<1> QED
  BY <1>1, <1>2, <1>3, <1>4, <1>5, <1>6, <1>7, <1>8, <1>9, <1>10, <1>11, <1>12,
     <1>13, <1>14, <1>15, <1>16, <1>17
  DEF Next, DispatchStep, ObserveStep, TransferStep, CancelStep, HandlerStep

-----------------------------------------------------------------------------
(* The rows *)

(* The types of the columns that the moves change. *)
RowTypes ==
    /\ state \in [Jobs -> States] /\ place \in [Jobs -> Nodes \cup {None}]
    /\ lease \in [Jobs -> BOOLEAN] /\ acked \in [Jobs -> BOOLEAN]
    /\ public \in [Jobs -> BOOLEAN] /\ got \in [Jobs -> 0..Outputs]

(* A batch has at least one image. *)
LEMMA OutputsType == Outputs \in Nat /\ Outputs > 0
BY ImageJobsAssumption

(* A move gives every column a value of its type. *)
LEMMA RowMoveTypes ==
    ASSUME RowTypes, RowMove
    PROVE  RowTypes'
<1> USE OutputsType DEF RowTypes, States, Terminal
<1>1. CASE UNCHANGED rowPart
  BY <1>1 DEF rowPart
<1>2. ASSUME NEW j \in Jobs, Admits(j) \/ Acknowledges(j) \/ Publishes(j) \/ Fences(j)
      PROVE  RowTypes'
  BY <1>2 DEF Admits, Acknowledges, Publishes, Fences, Fence
<1>3. ASSUME NEW j \in Jobs, NEW n \in Nodes, Places(j, n)
      PROVE  RowTypes'
  BY <1>3 DEF Places
<1>4. ASSUME NEW j \in Jobs, NEW to \in {"running", "transferring"}, Moves(j, to)
      PROVE  RowTypes'
  BY <1>4 DEF Moves
<1>5. ASSUME NEW j \in Jobs, NEW g \in 0..Outputs, Receives(j, g)
      PROVE  RowTypes'
  BY <1>5 DEF Receives
<1>6. ASSUME NEW j \in Jobs, NEW o \in {"failed", "cancelled"},
             EndsQueued(j, o) \/ EndsPlaced(j, o)
      PROVE  RowTypes'
  <2>1. CASE EndsQueued(j, o)
    BY <2>1 DEF EndsQueued, EndQueued
  <2>2. CASE EndsPlaced(j, o)
    BY <2>2 DEF EndsPlaced, EndPlaced
  <2> QED BY <1>6, <2>1, <2>2
<1> QED BY <1>1, <1>2, <1>3, <1>4, <1>5, <1>6 DEF RowMove

(* A move keeps lease and state together, gives a Studio to one job at a   *)
(* time, and keeps images only for a job that may still show them.         *)
LEMMA RowMoveInv ==
    ASSUME RowTypes, RowInv, RowMove
    PROVE  RowInv'
<1> USE OutputsType, NameAssumption DEF RowTypes, RowInv, RowInvAt, Placed, None, States,
        Terminal
<1>1. CASE UNCHANGED rowPart
  BY <1>1 DEF rowPart
<1>2. ASSUME NEW j \in Jobs, Admits(j) PROVE RowInv'
  BY <1>2 DEF Admits
<1>3. ASSUME NEW j \in Jobs, Acknowledges(j) PROVE RowInv'
  BY <1>3 DEF Acknowledges
<1>4. ASSUME NEW j \in Jobs, Publishes(j) PROVE RowInv'
  BY <1>4 DEF Publishes, ReadyToPublish
<1>5. ASSUME NEW j \in Jobs, Fences(j) PROVE RowInv'
  BY <1>5 DEF Fences, Fence
<1>6. ASSUME NEW j \in Jobs, NEW n \in Nodes, Places(j, n)
      PROVE  RowInv'
  BY <1>6 DEF Places, Free
<1>7. ASSUME NEW j \in Jobs, NEW to \in {"running", "transferring"}, Moves(j, to)
      PROVE  RowInv'
  BY <1>7 DEF Moves
<1>8. ASSUME NEW j \in Jobs, NEW g \in 0..Outputs, Receives(j, g)
      PROVE  RowInv'
  BY <1>8 DEF Receives
<1>9. ASSUME NEW j \in Jobs, NEW o \in {"failed", "cancelled"}, EndsQueued(j, o)
      PROVE  RowInv'
  BY <1>9 DEF EndsQueued, EndQueued
<1>10. ASSUME NEW j \in Jobs, NEW o \in {"failed", "cancelled"}, EndsPlaced(j, o)
       PROVE  RowInv'
  BY <1>10 DEF EndsPlaced, EndPlaced
<1> QED BY <1>1, <1>2, <1>3, <1>4, <1>5, <1>6, <1>7, <1>8, <1>9, <1>10 DEF RowMove

-----------------------------------------------------------------------------
(* The quota *)

Census(S) == {j \in Jobs : state[j] \in S}

(* How many jobs are in a set of states after one of them has moved. *)
LEMMA CensusMove ==
    ASSUME state \in [Jobs -> States], NEW j \in Jobs, NEW s \in States, NEW S,
           state' = [state EXCEPT ![j] = s]
    PROVE  /\ Cardinality(Census(S)) \in Nat
           /\ Cardinality(Census(S)') = Cardinality(Census(S))
                - (IF state[j] \in S THEN 1 ELSE 0) + (IF s \in S THEN 1 ELSE 0)
<1>1. IsFiniteSet(Census(S))
  BY ImageJobsAssumption, FS_Subset DEF Census
<1>2. Cardinality(Census(S)) \in Nat
  BY <1>1, FS_CardinalityType
<1>3. CASE state[j] \in S /\ s \in S
  <2>1. Census(S)' = Census(S)
    BY <1>3 DEF Census
  <2> QED BY <1>2, <1>3, <2>1
<1>4. CASE state[j] \in S /\ s \notin S
  <2>1. Census(S)' = Census(S) \ {j} /\ j \in Census(S)
    BY <1>4 DEF Census
  <2> QED BY <1>1, <1>2, <1>4, <2>1, FS_RemoveElement
<1>5. CASE state[j] \notin S /\ s \in S
  <2>1. Census(S)' = Census(S) \cup {j} /\ j \notin Census(S)
    BY <1>5 DEF Census
  <2> QED BY <1>1, <1>2, <1>5, <2>1, FS_AddElement
<1>6. CASE state[j] \notin S /\ s \notin S
  <2>1. Census(S)' = Census(S)
    BY <1>6 DEF Census
  <2> QED BY <1>2, <1>6, <2>1
<1> QED BY <1>3, <1>4, <1>5, <1>6

(* The quota row in terms of the census. *)
LEMMA QuotaAsCensus ==
    /\ QuotaBalances <=>
          /\ pending = Cardinality(Census({"queued"}))
          /\ held = Cardinality(Census(States \ (Terminal \cup {None})))
          /\ stored = Cardinality(Census({"succeeded"}))
    /\ QuotaBalances' <=>
          /\ pending' = Cardinality(Census({"queued"})')
          /\ held' = Cardinality(Census(States \ (Terminal \cup {None}))')
          /\ stored' = Cardinality(Census({"succeeded"})')
BY DEF QuotaBalances, Census

(* No move returns a hold twice or forgets one. *)
LEMMA RowMoveQuota ==
    ASSUME RowTypes, RowInv, QuotaBalances, RowMove
    PROVE  QuotaBalances'
<1> DEFINE Open == States \ (Terminal \cup {None})
           Due(S, s) == IF s \in S THEN 1 ELSE 0
           Balanced(j, s) ==
               /\ pending' = pending - Due({"queued"}, state[j]) + Due({"queued"}, s)
               /\ held' = held - Due(Open, state[j]) + Due(Open, s)
               /\ stored' = stored - Due({"succeeded"}, state[j])
                                   + Due({"succeeded"}, s)
<1>1. ASSUME NEW j \in Jobs, NEW s \in States,
             state' = [state EXCEPT ![j] = s], Balanced(j, s)
      PROVE  QuotaBalances'
  <2>1. \A S : Cardinality(Census(S)') =
                 Cardinality(Census(S)) - Due(S, state[j]) + Due(S, s)
    BY <1>1, CensusMove DEF RowTypes
  <2> HIDE DEF Due, Open
  <2>2. /\ pending = Cardinality(Census({"queued"}))
        /\ held = Cardinality(Census(Open))
        /\ stored = Cardinality(Census({"succeeded"}))
    BY QuotaAsCensus DEF Open
  <2>3. /\ pending' = Cardinality(Census({"queued"})')
        /\ held' = Cardinality(Census(Open)')
        /\ stored' = Cardinality(Census({"succeeded"})')
    BY <1>1, <2>1, <2>2
  <2> QED BY <2>3, QuotaAsCensus DEF Open
<1>2. pending \in Int /\ held \in Int /\ stored \in Int
  <2>1. \A S : Cardinality(Census(S)) \in Nat
    BY ImageJobsAssumption, FS_Subset, FS_CardinalityType DEF Census
  <2> QED BY <2>1, QuotaAsCensus
<1> HIDE DEF Balanced
<1> USE <1>2 DEF RowTypes, Placed, States, Terminal, None
<1>3. CASE UNCHANGED <<state, quota>>
  BY <1>3 DEF QuotaBalances, quota
<1>4. ASSUME NEW j \in Jobs, Admits(j) PROVE QuotaBalances'
  <2>1. /\ state' = [state EXCEPT ![j] = "queued"] /\ "queued" \in States
        /\ Balanced(j, "queued")
    BY <1>4 DEF Balanced, Admits
  <2> QED BY <1>1, <2>1
<1>5. ASSUME NEW j \in Jobs, Publishes(j) PROVE QuotaBalances'
  <2>1. /\ state' = [state EXCEPT ![j] = "succeeded"] /\ "succeeded" \in States
        /\ Balanced(j, "succeeded")
    BY <1>5 DEF Balanced, Publishes, ReadyToPublish
  <2> QED BY <1>1, <2>1
<1>6. ASSUME NEW j \in Jobs, Fences(j) PROVE QuotaBalances'
  <2>1. /\ state' = [state EXCEPT ![j] = "cancelling"] /\ "cancelling" \in States
        /\ Balanced(j, "cancelling")
    BY <1>6 DEF Balanced, Fences, Fence, quota
  <2> QED BY <1>1, <2>1
<1>7. ASSUME NEW j \in Jobs, NEW n \in Nodes, Places(j, n)
      PROVE  QuotaBalances'
  <2>1. /\ state' = [state EXCEPT ![j] = "reserving"] /\ "reserving" \in States
        /\ Balanced(j, "reserving")
    BY <1>7 DEF Balanced, Places
  <2> QED BY <1>1, <2>1
<1>8. ASSUME NEW j \in Jobs, NEW to \in {"running", "transferring"}, Moves(j, to)
      PROVE  QuotaBalances'
  <2>1. /\ state' = [state EXCEPT ![j] = to] /\ to \in States
        /\ Balanced(j, to)
    BY <1>8 DEF Balanced, Moves, quota
  <2> QED BY <1>1, <2>1
<1>9. ASSUME NEW j \in Jobs, NEW o \in {"failed", "cancelled"}, EndsQueued(j, o)
      PROVE  QuotaBalances'
  <2>1. /\ state' = [state EXCEPT ![j] = o] /\ o \in States
        /\ Balanced(j, o)
    BY <1>9 DEF Balanced, EndsQueued, EndQueued
  <2> QED BY <1>1, <2>1
<1>10. ASSUME NEW j \in Jobs, NEW o \in {"failed", "cancelled"}, EndsPlaced(j, o)
       PROVE  QuotaBalances'
  <2>1. /\ state' = [state EXCEPT ![j] = o] /\ o \in States
        /\ Balanced(j, o)
    BY <1>10 DEF Balanced, EndsPlaced, EndPlaced
  <2> QED BY <1>1, <2>1
<1> QED BY <1>3, <1>4, <1>5, <1>6, <1>7, <1>8, <1>9, <1>10
        DEF RowMove, rowPart, Acknowledges, Receives

-----------------------------------------------------------------------------
(* The refinement, step by step *)

(* Nobody has submitted anything. *)
LEMMA ServiceInit == Init => Service!Init
BY NameAssumption DEF Init, Service!Init, None, Terminal

(* Every move of a row is a step of the service, or none. *)
LEMMA RowMoveService ==
    ASSUME RowTypes, RowInv, RowMove
    PROVE  [Service!Next]_Service!vars
<1> USE NameAssumption, OutputsType
    DEF RowTypes, RowInv, RowInvAt, Placed, States, Terminal, None
<1>1. CASE UNCHANGED rowPart
  BY <1>1 DEF rowPart, Service!vars
<1>2. ASSUME NEW j \in Jobs, Admits(j) PROVE Service!Submit(j)
  BY <1>2 DEF Admits, Service!Submit
<1>3. ASSUME NEW j \in Jobs, Acknowledges(j) PROVE UNCHANGED Service!vars
  BY <1>3 DEF Acknowledges, Service!vars
<1>4. ASSUME NEW j \in Jobs, Publishes(j) PROVE Service!End(j, "succeeded")
  BY <1>4 DEF Publishes, ReadyToPublish, Service!End
<1>5. ASSUME NEW j \in Jobs, Fences(j) PROVE Service!Stop(j)
  BY <1>5 DEF Fences, Fence, Service!Stop
<1>6. ASSUME NEW j \in Jobs, NEW n \in Nodes, Places(j, n)
      PROVE  Service!Place(j, n)
  <2> DEFINE Of(m) == {k \in Jobs : lease[k] /\ place[k] = m}
  <2>1. /\ state[j] = "queued" /\ ~lease[j]
        /\ \A k \in Jobs : ~(lease[k] /\ place[k] = n)
    BY <1>6 DEF Places, Free
  <2>2. Of(n) = {} /\ \A m \in Nodes : j \notin Of(m)
    BY <2>1
  <2>3. \A m \in Nodes : Of(m)' = IF m = n THEN {j} ELSE Of(m)
    BY <1>6, <2>1 DEF Places
  <2>4. [m \in Nodes |-> Of(m)]' = [[m \in Nodes |-> Of(m)] EXCEPT ![n] = {j}]
    BY <2>3
  <2>5. UNCHANGED <<[i \in Jobs |-> IF state[i] \in Terminal \cup {None}
                                    THEN state[i] ELSE "open"],
                    {i \in Jobs : state[i] \in {"cancelling", "cancelled"}},
                    [i \in Jobs |-> IF public[i] THEN got[i] ELSE 0]>>
    BY <1>6, <2>1 DEF Places
  <2> QED BY <2>1, <2>2, <2>4, <2>5 DEF Service!Place
<1>7. ASSUME NEW j \in Jobs, NEW to \in {"running", "transferring"}, Moves(j, to)
      PROVE  UNCHANGED Service!vars
  BY <1>7 DEF Moves, Service!vars
<1>8. ASSUME NEW j \in Jobs, NEW g \in 0..Outputs, Receives(j, g)
      PROVE  UNCHANGED Service!vars
  BY <1>8 DEF Receives, Service!vars
<1>9. ASSUME NEW j \in Jobs, NEW o \in {"failed", "cancelled"}, EndsQueued(j, o)
      PROVE  Service!End(j, o)
  BY <1>9 DEF EndsQueued, EndQueued, Service!End
<1>10. ASSUME NEW j \in Jobs, NEW o \in {"failed", "cancelled"}, EndsPlaced(j, o)
       PROVE  Service!End(j, o)
  BY <1>10 DEF EndsPlaced, EndPlaced, Service!End
<1> QED BY <1>1, <1>2, <1>3, <1>4, <1>5, <1>6, <1>7, <1>8, <1>9, <1>10
        DEF RowMove, Service!Next, Service!Ended

-----------------------------------------------------------------------------
(* The Studio's moves *)

WorkerRecord == [id : 0..MaxUnits, pid : Nat, alive : BOOLEAN,
                 at : {None, "starting", "ready", "orphan"}]

NodeTypes ==
    /\ journal \in [Jobs -> States] /\ clean \in [Jobs -> BOOLEAN]
    /\ bound \in [Jobs -> Nat] /\ kept \in [Jobs -> BOOLEAN]
    /\ scratch \in [Jobs -> BOOLEAN]
    /\ push \in [Nodes -> [job : Jobs \cup {None}, sent : 0..Outputs]]
    /\ worker \in [Nodes -> WorkerRecord]
    /\ stopped \in [Nodes -> 0..MaxUnits]
    /\ work \in [Jobs -> {None, "running", "generated", "failed", "cancelled"}]

(* A handler is called for a job that core has placed. *)
CallTypes(j) ==
    /\ j \in Jobs /\ place \in [Jobs -> Nodes \cup {None}]
    /\ place[j] \in Nodes /\ unit[j] \in 0..MaxUnits

(* What a handler leaves alone: a clean attempt stays clean, and an        *)
(* attempt that has ended keeps its end.                                   *)
Keeps ==
    \A k \in Jobs :
        /\ clean[k] => clean'[k]
        /\ journal[k] \in Terminal => journal'[k] = journal[k]

(* The instance constants are whole numbers. *)
LEMMA UnitsType == MaxUnits \in Nat /\ MaxStrikes \in Nat
BY ImageJobsAssumption

(* reserve_inputs opens a journal once. *)
LEMMA ReserveKeeps ==
    ASSUME NodeTypes, JournalInv, NEW j, CallTypes(j), NEW r, Reserve(j, r),
           UNCHANGED place
    PROVE  NodeTypes' /\ JournalInv' /\ Keeps
<1> USE NameAssumption DEF NodeTypes, CallTypes, States, Terminal, None
<1>1. UNCHANGED <<clean, bound, kept, scratch, push, worker, stopped, work>>
  BY DEF Reserve, attempt, process
<1>2. \/ UNCHANGED journal
      \/ journal[j] = None /\ journal' = [journal EXCEPT ![j] = "queued"]
  BY DEF Reserve, attempt
<1>3. NodeTypes'
  BY <1>1, <1>2
<1>4. JournalInv' /\ Keeps
  BY <1>1, <1>2 DEF JournalInv, JournalInvAt, Keeps
<1> QED BY <1>3, <1>4

(* ImageProcessSupervisor.start touches the process record only. *)
LEMMA LoadKeeps ==
    ASSUME NodeTypes, JournalInv, NEW j, CallTypes(j), NEW r, Load(j, r),
           UNCHANGED place
    PROVE  NodeTypes' /\ JournalInv' /\ Keeps
<1> USE NameAssumption DEF NodeTypes, CallTypes
<1>1. UNCHANGED <<journal, clean, bound, kept, scratch, push, stopped, work>>
  BY DEF Load, attempt
<1>2. worker' \in [Nodes -> WorkerRecord]
  <2> DEFINE w == [id |-> unit[j], pid |-> worker[place[j]].pid + 1,
                   at |-> "starting", alive |-> TRUE]
  <2>1. UNCHANGED worker \/ worker' = [worker EXCEPT ![place[j]] = w]
    BY DEF Load
  <2>2. w \in WorkerRecord
    <3>1. worker[place[j]].pid + 1 \in Nat
      BY SMT DEF WorkerRecord
    <3>2. unit[j] \in 0..MaxUnits
      BY SMT
    <3> QED BY <3>1, <3>2, Zenon DEF WorkerRecord
  <2> HIDE DEF w
  <2> QED BY <2>1, <2>2
<1>3. NodeTypes'
  BY <1>1, <1>2
<1>4. JournalInv' /\ Keeps
  BY <1>1 DEF JournalInv, JournalInvAt, Keeps
<1> QED BY <1>3, <1>4

(* refresh_ready touches the process record only. *)
LEMMA RefreshType ==
    ASSUME NodeTypes, NEW n \in Nodes, Refresh(n)
    PROVE  worker' \in [Nodes -> WorkerRecord]
<1>1. worker[n] \in WorkerRecord
  BY DEF NodeTypes
<1>2. [worker[n] EXCEPT !.at = "ready"] \in WorkerRecord
  BY <1>1 DEF WorkerRecord
<1>3. UNCHANGED worker \/ worker' = [worker EXCEPT ![n].at = "ready"]
  BY DEF NodeTypes, Refresh, WorkerRecord
<1> QED BY <1>2, <1>3 DEF NodeTypes

(* The attempt of one job, as its handler leaves it. *)
AttemptTypes ==
    /\ journal \in [Jobs -> States] /\ clean \in [Jobs -> BOOLEAN]
    /\ bound \in [Jobs -> Nat] /\ kept \in [Jobs -> BOOLEAN]
    /\ scratch \in [Jobs -> BOOLEAN]

(* A handler that holds the lock works for nobody's transfer. *)
LEMMA UnlockedFree ==
    ASSUME NodeTypes, JournalInv, NEW j, CallTypes(j), Unlocked(j)
    PROVE  \A n \in Nodes : push[n].job # j
BY NameAssumption DEF NodeTypes, CallTypes, JournalInv, JournalInvAt, Unlocked, None

(* The journal follows the worker and never calls an attempt clean whose   *)
(* scratch is left.                                                        *)
LEMMA ReconcileKeeps ==
    ASSUME NodeTypes, JournalInv, NEW j, CallTypes(j), Unlocked(j), work[j] # None,
           Reconcile(j), UNCHANGED <<work, place, push>>
    PROVE  AttemptTypes' /\ JournalInv' /\ Keeps
<1> USE NameAssumption DEF NodeTypes, CallTypes, States, Terminal, None
<1> DEFINE w == work[j]
           to == IF w \in {"failed", "cancelled"} THEN w
                 ELSE IF journal[j] = "cancelling" THEN "cancelling"
                 ELSE IF w = "running" THEN "running" ELSE "transferring"
<1>1. /\ journal[j] \in {"reserving", "running", "transferring", "cancelling"}
      /\ journal' = [journal EXCEPT ![j] = to]
      /\ UNCHANGED <<bound, kept>>
  BY DEF Reconcile
<1>2. /\ clean' \in [Jobs -> BOOLEAN] /\ scratch' \in [Jobs -> BOOLEAN]
      /\ clean'[j] <=> (w = "failed")
      /\ scratch'[j] <=> (scratch[j] /\ w # "failed")
      /\ \A k \in Jobs : k # j => clean'[k] = clean[k] /\ scratch'[k] = scratch[k]
  BY DEF Reconcile
<1>3. to \in States
  BY DEF CallTypes
<1>4. AttemptTypes'
  BY <1>1, <1>2, <1>3 DEF AttemptTypes
<1>5. /\ journal'[j] = to
      /\ \A k \in Jobs : k # j => journal'[k] = journal[k]
  BY <1>1
<1>6. w \in {"running", "generated", "failed", "cancelled"}
  BY DEF CallTypes
<1>7. ~clean[j]
  BY <1>1 DEF JournalInv, JournalInvAt
<1>8. Keeps
  BY <1>1, <1>2, <1>5, <1>7 DEF Keeps
<1>9. JournalInvAt(j)'
  <2>1. \A n \in Nodes : push'[n].job # j
    BY UnlockedFree
  <2> QED BY <1>1, <1>2, <1>5, <1>6, <2>1 DEF JournalInvAt
<1>10. ASSUME NEW k \in Jobs, k # j PROVE JournalInvAt(k)'
  BY <1>2, <1>5, <1>10 DEF JournalInv, JournalInvAt
<1> QED BY <1>4, <1>8, <1>9, <1>10 DEF JournalInv

(* PUT /job begins scratch for the job and lets go of cleaned attempts. *)
LEMMA AcceptKeeps ==
    ASSUME NodeTypes, NEW j, CallTypes(j), Accept(j)
    PROVE  /\ work' \in [Jobs -> {None, "running", "generated", "failed", "cancelled"}]
           /\ scratch' = [scratch EXCEPT ![j] = TRUE]
           /\ work'[j] = "running"
           /\ \A k \in Jobs : k # j => work'[k] \in {None, work[k]}
BY DEF NodeTypes, CallTypes, Accept

(* ImageNodeDispatcher.start *)
LEMMA StartKeeps ==
    ASSUME NodeTypes, JournalInv, NEW j, CallTypes(j), NEW r, Start(j, r),
           UNCHANGED place
    PROVE  NodeTypes' /\ JournalInv' /\ Keeps
<1> USE NameAssumption
<1>1. Unlocked(j) /\ journal[j] # None /\ UNCHANGED <<push, stopped>>
  BY DEF Start
<1>2. CASE UNCHANGED <<attempt, worker, work>>
  BY <1>1, <1>2 DEF attempt, NodeTypes, JournalInv, JournalInvAt, Keeps
<1>3. CASE Refresh(place[j]) /\ UNCHANGED <<attempt, work>>
  <2>1. NodeTypes'
    BY <1>1, <1>3, RefreshType DEF attempt, NodeTypes, CallTypes
  <2> QED BY <1>1, <1>3, <2>1 DEF attempt, JournalInv, JournalInvAt, Keeps
<1>4. CASE Refresh(place[j]) /\ UNCHANGED work /\ work[j] # None /\ Reconcile(j)
  <2>1. AttemptTypes' /\ JournalInv' /\ Keeps
    BY <1>1, <1>4, ReconcileKeeps
  <2>2. NodeTypes'
    BY <1>1, <1>4, <2>1, RefreshType DEF AttemptTypes, NodeTypes, CallTypes
  <2> QED BY <2>1, <2>2
<1>5. CASE /\ Refresh(place[j]) /\ UNCHANGED <<clean, kept>>
           /\ journal[j] \in {"queued", "reserving"}
           /\ bound' = [bound EXCEPT ![j] = worker[place[j]].pid]
           /\ Accept(j) \/ UNCHANGED <<work, scratch>>
           /\ \/ journal' = [journal EXCEPT ![j] = "running"]
              \/ journal' = [journal EXCEPT ![j] = "reserving"]
  <2>1. bound' \in [Jobs -> Nat]
    BY <1>5 DEF NodeTypes, CallTypes, WorkerRecord
  <2>2. /\ work' \in [Jobs -> {None, "running", "generated", "failed", "cancelled"}]
        /\ scratch' \in [Jobs -> BOOLEAN]
        /\ \A k \in Jobs : k # j => /\ work'[k] \in {None, work[k]}
                                    /\ scratch'[k] = scratch[k]
    <3>1. CASE Accept(j)
      <4>1. /\ work' \in [Jobs -> {None, "running", "generated", "failed",
                                   "cancelled"}]
            /\ scratch' = [scratch EXCEPT ![j] = TRUE]
            /\ \A k \in Jobs : k # j => work'[k] \in {None, work[k]}
        BY <3>1, AcceptKeeps
      <4> QED BY <4>1 DEF NodeTypes
    <3>2. CASE UNCHANGED <<work, scratch>>
      BY <3>2 DEF NodeTypes
    <3> QED BY <1>5, <3>1, <3>2
  <2>3. /\ journal' \in [Jobs -> States] /\ journal'[j] \in {"running", "reserving"}
        /\ \A k \in Jobs : k # j => journal'[k] = journal[k]
    BY <1>5 DEF NodeTypes, CallTypes, States, Terminal
  <2>4. NodeTypes'
    BY <1>1, <1>5, <2>1, <2>2, <2>3, RefreshType DEF NodeTypes, CallTypes
  <2>5. ~clean[j] /\ journal[j] \notin Terminal
    BY <1>5 DEF JournalInv, JournalInvAt, CallTypes, Terminal
  <2>6. Keeps
    BY <1>5, <2>3, <2>5 DEF Keeps
  <2>7. \A n \in Nodes : push'[n].job # j
    BY <1>1, UnlockedFree
  <2>8. JournalInvAt(j)'
    BY <1>1, <1>5, <2>3, <2>5, <2>7 DEF JournalInvAt, CallTypes, None
  <2>9. ASSUME NEW k \in Jobs, k # j PROVE JournalInvAt(k)'
    BY <1>1, <1>5, <2>2, <2>3, <2>9 DEF JournalInv, JournalInvAt, None
  <2> QED BY <2>4, <2>6, <2>8, <2>9 DEF JournalInv
<1> QED BY <1>2, <1>3, <1>4, <1>5 DEF Start

(* ImageNodeDispatcher.status: terminal scratch is removed before the      *)
(* attempt is called clean.                                                *)
LEMMA StatusKeeps ==
    ASSUME NodeTypes, JournalInv, NEW j \in Jobs,
           place \in [Jobs -> Nodes \cup {None}], unit[j] \in 0..MaxUnits,
           NEW r, Status(j, r), UNCHANGED place
    PROVE  /\ NodeTypes' /\ JournalInv' /\ Keeps /\ UNCHANGED <<push, process>>
           /\ r = "failed" => journal'[j] = "failed" /\ clean'[j]
           /\ r = "succeeded" => journal'[j] = "succeeded"
<1> USE NameAssumption
<1>1. Unlocked(j) /\ UNCHANGED <<push, worker, stopped, work>>
  BY DEF Status, process
<1>2. CASE UNCHANGED attempt /\ (r = "fail" \/ r = "transferring" \/ (r = "succeeded" /\ journal[j] = "succeeded"))
  BY <1>1, <1>2 DEF attempt, process, NodeTypes, JournalInv, JournalInvAt, Keeps
<1>3. CASE Control(j) /\ work[j] # None /\ Reconcile(j) /\ r = journal'[j]
  <2>1. CallTypes(j)
    BY <1>3 DEF CallTypes, Reconcile, JournalInv, JournalInvAt, None
  <2>2. AttemptTypes' /\ JournalInv' /\ Keeps
    BY <1>1, <1>3, <2>1, ReconcileKeeps
  <2>3. NodeTypes'
    BY <1>1, <2>2 DEF AttemptTypes, NodeTypes
  <2>4. /\ r = "failed" => clean'[j]
        /\ r # "succeeded"
    BY <1>3 DEF Reconcile, NodeTypes, None
  <2> QED BY <1>1, <1>3, <2>2, <2>3, <2>4 DEF process
<1>4. CASE /\ journal[j] \in {"failed", "cancelled"} /\ r = journal[j]
           /\ clean' = [clean EXCEPT ![j] = TRUE]
           /\ scratch' = [scratch EXCEPT ![j] = @ /\ clean[j]]
           /\ UNCHANGED <<journal, bound, kept>>
  <2>1. /\ clean' \in [Jobs -> BOOLEAN] /\ scratch' \in [Jobs -> BOOLEAN]
        /\ clean'[j] /\ ~scratch'[j]
        /\ \A k \in Jobs : k # j => clean'[k] = clean[k] /\ scratch'[k] = scratch[k]
    BY <1>4 DEF NodeTypes, JournalInv, JournalInvAt
  <2>2. NodeTypes'
    BY <1>1, <1>4, <2>1 DEF NodeTypes
  <2>3. Keeps
    BY <1>4, <2>1 DEF Keeps
  <2>4. JournalInv'
    BY <1>1, <1>4, <2>1 DEF JournalInv, JournalInvAt, Terminal
  <2> QED BY <1>1, <1>4, <2>1, <2>2, <2>3, <2>4 DEF process
<1> QED BY <1>2, <1>3, <1>4 DEF Status

ProcessTypes ==
    /\ worker \in [Nodes -> WorkerRecord]
    /\ stopped \in [Nodes -> 0..MaxUnits]
    /\ work \in [Jobs -> {None, "running", "generated", "failed", "cancelled"}]

(* ImageProcessSupervisor.stop, proved or not. *)
LEMMA StopTypes ==
    ASSUME NodeTypes, NEW n \in Nodes, NEW i \in 0..MaxUnits,
           Stop(n, i) \/ StopUnproved(n, i)
    PROVE  /\ ProcessTypes' /\ \A k \in Jobs : work'[k] \in {None, work[k]}
           /\ Stop(n, i) => \A k \in Jobs : place[k] = n => work'[k] = None
<1>1. worker[n] \in WorkerRecord /\ 0 \in 0..MaxUnits
  BY UnitsType DEF NodeTypes
<1>2. /\ [worker[n] EXCEPT !.id = 0, !.at = None, !.alive = FALSE] \in WorkerRecord
      /\ [worker[n] EXCEPT !.alive = FALSE] \in WorkerRecord
  BY <1>1 DEF WorkerRecord
<1>3. CASE Stop(n, i)
  <2>1. worker' \in [Nodes -> WorkerRecord]
    BY <1>2, <1>3 DEF Stop, NodeTypes
  <2>2. stopped' \in [Nodes -> 0..MaxUnits]
    BY <1>3 DEF Stop, NodeTypes
  <2>3. /\ work' \in [Jobs -> {None, "running", "generated", "failed", "cancelled"}]
        /\ \A k \in Jobs : /\ work'[k] \in {None, work[k]}
                           /\ place[k] = n => work'[k] = None
    <3>1. Forget(n)
      BY <1>3 DEF Stop
    <3> QED BY <3>1 DEF Forget, NodeTypes
  <2> QED BY <2>1, <2>2, <2>3 DEF ProcessTypes
<1>4. CASE StopUnproved(n, i) /\ ~Stop(n, i)
  <2>1. worker' \in [Nodes -> WorkerRecord]
    BY <1>2, <1>4 DEF StopUnproved, NodeTypes
  <2>2. UNCHANGED stopped /\ (UNCHANGED work \/ Forget(n))
    BY <1>4 DEF StopUnproved
  <2>3. CASE UNCHANGED work
    BY <1>4, <2>1, <2>2, <2>3 DEF ProcessTypes, NodeTypes
  <2>4. CASE Forget(n)
    <3>1. stopped' \in [Nodes -> 0..MaxUnits]
      BY <2>2 DEF NodeTypes
    <3>2. /\ work' \in [Jobs -> {None, "running", "generated", "failed", "cancelled"}]
          /\ \A k \in Jobs : work'[k] \in {None, work[k]}
      BY <2>4 DEF Forget, NodeTypes
    <3> QED BY <1>4, <2>1, <3>1, <3>2 DEF ProcessTypes
  <2> QED BY <2>2, <2>3, <2>4
<1> QED BY <1>3, <1>4

(* ImageNodeDispatcher.cancel: an attempt ends only after its worker has   *)
(* confirmed or its death is proved, and is then clean.                    *)
LEMMA CancelKeeps ==
    ASSUME NodeTypes, JournalInv, NEW j \in Jobs,
           place \in [Jobs -> Nodes \cup {None}], unit[j] \in 0..MaxUnits,
           NEW r, Cancel(j, r), UNCHANGED place
    PROVE  /\ NodeTypes' /\ JournalInv' /\ Keeps
           /\ r # "fail" => clean'[j]
<1> USE NameAssumption
<1> DEFINE s == journal[j]
           active == s \in {"reserving", "running", "transferring", "cancelling"}
           End(to) == /\ r = to
                      /\ journal' = [journal EXCEPT ![j] = to]
                      /\ clean' = [clean EXCEPT ![j] = TRUE]
                      /\ scratch' = [scratch EXCEPT ![j] = @ /\ clean[j]]
                      /\ UNCHANGED <<bound, kept>>
<1>1. Unlocked(j) /\ UNCHANGED push
  BY DEF Cancel
<1>2. CASE s = None /\ r = "fail" /\ UNCHANGED <<attempt, process>>
  BY <1>1, <1>2 DEF attempt, process, NodeTypes, JournalInv, JournalInvAt, Keeps
<1>3. s # None => CallTypes(j)
  BY DEF CallTypes, JournalInv, JournalInvAt
<1>4. ASSUME NEW to \in Terminal, End(to), s # None, s \in Terminal => to = s,
             ProcessTypes', \A k \in Jobs : k # j => work'[k] \in {None, work[k]},
             work'[j] # "running"
      PROVE  NodeTypes' /\ JournalInv' /\ Keeps /\ clean'[j]
  <2>1. /\ clean' \in [Jobs -> BOOLEAN] /\ scratch' \in [Jobs -> BOOLEAN]
        /\ clean'[j] /\ ~scratch'[j]
        /\ \A k \in Jobs : k # j => clean'[k] = clean[k] /\ scratch'[k] = scratch[k]
    BY <1>4 DEF NodeTypes, JournalInv, JournalInvAt
  <2>2. /\ journal' \in [Jobs -> States] /\ journal'[j] = to
        /\ \A k \in Jobs : k # j => journal'[k] = journal[k]
    BY <1>4 DEF NodeTypes, States
  <2>3. NodeTypes'
    BY <1>1, <1>4, <2>1, <2>2 DEF NodeTypes, ProcessTypes
  <2>4. Keeps
    BY <1>4, <2>1, <2>2 DEF Keeps
  <2>5. \A n \in Nodes : push'[n].job # j
    BY <1>1, <1>3, <1>4, UnlockedFree
  <2>6. JournalInvAt(j)'
    BY <1>3, <1>4, <2>1, <2>2, <2>5 DEF JournalInvAt, CallTypes
  <2>7. ASSUME NEW k \in Jobs, k # j PROVE JournalInvAt(k)'
    BY <1>1, <1>4, <2>1, <2>2, <2>7 DEF JournalInv, JournalInvAt, None
  <2> QED BY <2>1, <2>3, <2>4, <2>6, <2>7 DEF JournalInv
<1>5. CASE s \in Terminal /\ End(s) /\ UNCHANGED process
  <2>1. ProcessTypes' /\ \A k \in Jobs : work'[k] = work[k]
    BY <1>5 DEF NodeTypes, ProcessTypes, process
  <2>2. work[j] # "running" /\ s # None
    BY <1>5 DEF JournalInv, JournalInvAt, Terminal, None
  <2> QED BY <1>4, <1>5, <2>1, <2>2
<1>6. CASE s = "queued" /\ End("cancelled") /\ UNCHANGED process
  <2>1. ProcessTypes' /\ \A k \in Jobs : work'[k] = work[k]
    BY <1>6 DEF NodeTypes, ProcessTypes, process
  <2>2. work[j] # "running" /\ s # None /\ s \notin Terminal
    BY <1>6 DEF JournalInv, JournalInvAt, Terminal, None
  <2> QED BY <1>4, <1>6, <2>1, <2>2 DEF Terminal
<1>7. CASE active /\ Confirmed(j) /\ End("cancelled")
  <2>1. /\ ProcessTypes' /\ work'[j] = "cancelled"
        /\ \A k \in Jobs : k # j => work'[k] = work[k]
    BY <1>7 DEF NodeTypes, ProcessTypes, Confirmed
  <2>2. s # None /\ s \notin Terminal
    BY <1>7 DEF Terminal, None
  <2> QED BY <1>4, <1>7, <2>1, <2>2 DEF Terminal
<1>8. CASE active /\ Stop(place[j], unit[j]) /\ End("cancelled")
  <2>1. s # None /\ s \notin Terminal
    BY <1>8 DEF Terminal, None
  <2>2. /\ ProcessTypes' /\ \A k \in Jobs : work'[k] \in {None, work[k]}
        /\ work'[j] = None
    BY <1>3, <1>8, <2>1, StopTypes DEF CallTypes
  <2> QED BY <1>4, <1>8, <2>1, <2>2 DEF Terminal, None
<1>9. CASE /\ active /\ r = "fail"
           /\ journal' = [journal EXCEPT ![j] = "cancelling"]
           /\ UNCHANGED <<clean, bound, kept, scratch, process>>
  <2>1. /\ journal' \in [Jobs -> States] /\ journal'[j] = "cancelling"
        /\ \A k \in Jobs : k # j => journal'[k] = journal[k]
    BY <1>9 DEF NodeTypes, States
  <2>2. NodeTypes'
    BY <1>1, <1>9, <2>1 DEF NodeTypes, process
  <2>3. ~clean[j] /\ s # None /\ s \notin Terminal
    BY <1>9 DEF JournalInv, JournalInvAt, Terminal, None
  <2>4. Keeps
    BY <1>9, <2>1, <2>3 DEF Keeps
  <2>5. \A n \in Nodes : push'[n].job # j
    BY <1>1, <1>3, <2>3, UnlockedFree
  <2>6. JournalInvAt(j)'
    BY <1>3, <1>9, <2>1, <2>3, <2>5 DEF JournalInvAt, CallTypes, None
  <2>7. ASSUME NEW k \in Jobs, k # j PROVE JournalInvAt(k)'
    BY <1>1, <1>9, <2>1, <2>7 DEF JournalInv, JournalInvAt, process
  <2> QED BY <1>9, <2>2, <2>4, <2>6, <2>7 DEF JournalInv
<1> QED BY <1>2, <1>5, <1>6, <1>7, <1>8, <1>9 DEF Cancel

(* The intent of a cancel that could not be proved stays in the journal. *)
LEMMA CancelUnprovedKeeps ==
    ASSUME NodeTypes, JournalInv, NEW j \in Jobs,
           place \in [Jobs -> Nodes \cup {None}], unit[j] \in 0..MaxUnits,
           CancelUnproved(j), UNCHANGED place
    PROVE  NodeTypes' /\ JournalInv' /\ Keeps
<1> USE NameAssumption
<1>1. /\ Unlocked(j) /\ StopUnproved(place[j], unit[j])
      /\ journal[j] \in {"reserving", "running", "transferring", "cancelling"}
      /\ journal' = [journal EXCEPT ![j] = "cancelling"]
      /\ UNCHANGED <<clean, bound, kept, scratch, push>>
  BY DEF CancelUnproved
<1>2. CallTypes(j)
  BY <1>1 DEF CallTypes, JournalInv, JournalInvAt, None
<1>3. ProcessTypes' /\ \A k \in Jobs : work'[k] \in {None, work[k]}
  BY <1>1, <1>2, StopTypes DEF CallTypes
<1>4. /\ journal' \in [Jobs -> States] /\ journal'[j] = "cancelling"
      /\ \A k \in Jobs : k # j => journal'[k] = journal[k]
  BY <1>1 DEF NodeTypes, States
<1>5. NodeTypes'
  BY <1>1, <1>3, <1>4 DEF NodeTypes, ProcessTypes
<1>6. ~clean[j] /\ journal[j] \notin Terminal
  BY <1>1 DEF JournalInv, JournalInvAt, Terminal
<1>7. Keeps
  BY <1>1, <1>4, <1>6 DEF Keeps
<1>8. \A n \in Nodes : push'[n].job # j
  BY <1>1, <1>2, UnlockedFree
<1>9. JournalInvAt(j)'
  BY <1>1, <1>2, <1>4, <1>6, <1>8 DEF JournalInvAt, CallTypes, None
<1>10. ASSUME NEW k \in Jobs, k # j PROVE JournalInvAt(k)'
  BY <1>1, <1>3, <1>4, <1>10 DEF JournalInv, JournalInvAt, None
<1> QED BY <1>5, <1>7, <1>9, <1>10 DEF JournalInv

(* The transfer handler takes the lock of the Studio the job is placed on. *)
LEMMA BeginTransferKeeps ==
    ASSUME NodeTypes, JournalInv, NEW j \in Jobs, NEW r, BeginTransfer(j, r),
           UNCHANGED place
    PROVE  /\ NodeTypes' /\ JournalInv' /\ Keeps /\ UNCHANGED <<attempt, process>>
           /\ r = "ack" => journal[j] = "succeeded"
<1> USE NameAssumption, OutputsType
<1>1. Unlocked(j) /\ UNCHANGED <<attempt, process>>
  BY DEF BeginTransfer
<1>2. CASE UNCHANGED push /\ (r = "ack" => journal[j] = "succeeded")
  BY <1>1, <1>2 DEF attempt, process, NodeTypes, JournalInv, JournalInvAt, Keeps
<1>3. CASE /\ journal[j] = "transferring" /\ r = "wait"
           /\ push' = [push EXCEPT ![place[j]] = [job |-> j, sent |-> 0]]
  <2>1. place[j] \in Nodes
    BY <1>3 DEF JournalInv, JournalInvAt, None
  <2>2. [job |-> j, sent |-> 0] \in [job : Jobs \cup {None}, sent : 0..Outputs]
    BY SMT
  <2>3. push' \in [Nodes -> [job : Jobs \cup {None}, sent : 0..Outputs]]
    BY <1>3, <2>1, <2>2 DEF NodeTypes
  <2>4. NodeTypes'
    BY <1>1, <2>3 DEF attempt, process, NodeTypes
  <2>5. \A n \in Nodes, k \in Jobs :
           push'[n].job = k => push[n].job = k \/ (n = place[j] /\ k = j)
    BY <1>3, <2>1 DEF NodeTypes
  <2> QED BY <1>1, <1>3, <2>4, <2>5 DEF attempt, process, JournalInv,
              JournalInvAt, Keeps
<1> QED BY <1>2, <1>3 DEF BeginTransfer

(* An output arrives or is refused. *)
LEMMA ReceiveKeeps ==
    ASSUME NodeTypes, JournalInv, NEW j \in Jobs, Receive(j)
    PROVE  NodeTypes' /\ JournalInv' /\ Keeps
<1> USE NameAssumption, OutputsType
<1> DEFINE n == place[j]
           Push == [job : Jobs \cup {None}, sent : 0..Outputs]
<1>1. UNCHANGED <<attempt, process, place>>
  BY DEF Receive
<1>2. push[n].job = j /\ push[n].sent < Outputs /\ n # None
  BY DEF Receive, Pushing
<1>3. UNCHANGED push \/ n \in Nodes
  BY DEF Receive, NodeTypes
<1>4. CASE n \in Nodes
  <2>1. push[n] \in Push
    BY <1>4 DEF NodeTypes
  <2>2. /\ Idle \in Push
        /\ [push[n] EXCEPT !.sent = @ + 1] \in Push
        /\ [push[n] EXCEPT !.sent = @ + 1].job = j
    BY <1>2, <2>1 DEF Idle
  <2>3. \/ push' = [push EXCEPT ![n].sent = @ + 1]
        \/ push' = [push EXCEPT ![n] = Idle]
    BY DEF Receive
  <2>4. push' \in [Nodes -> Push]
    BY <1>4, <2>2, <2>3 DEF NodeTypes
  <2>5. \A m \in Nodes, k \in Jobs : push'[m].job = k => push[m].job = k
    BY <1>2, <1>4, <2>2, <2>3 DEF NodeTypes, Idle, None
  <2> QED BY <1>1, <2>4, <2>5 DEF attempt, process, NodeTypes, JournalInv,
              JournalInvAt, Keeps
<1>5. CASE UNCHANGED push
  BY <1>1, <1>5 DEF attempt, process, NodeTypes, JournalInv, JournalInvAt, Keeps
<1> QED BY <1>3, <1>4, <1>5

(* The transfer handler cleans up, then gives the lock back. *)
LEMMA UnlinkKeeps ==
    ASSUME NodeTypes, JournalInv, NEW j \in Jobs,
           place \in [Jobs -> Nodes \cup {None}], KeepReceipts(j) \/ Unlink(j)
    PROVE  /\ NodeTypes' /\ JournalInv' /\ Keeps
           /\ Unlink(j) => journal'[j] = "succeeded"
<1> USE NameAssumption, OutputsType
<1>1. CASE KeepReceipts(j) /\ ~Unlink(j)
  <2>1. kept' \in [Jobs -> BOOLEAN]
    BY <1>1 DEF KeepReceipts, NodeTypes
  <2> QED BY <1>1, <2>1 DEF KeepReceipts, row, process, NodeTypes, JournalInv,
              JournalInvAt, Keeps
<1>2. CASE Unlink(j)
  <2>1. /\ scratch' = [scratch EXCEPT ![j] = FALSE]
        /\ journal' = [journal EXCEPT ![j] = "succeeded"]
        /\ clean' = [clean EXCEPT ![j] = TRUE]
        /\ push' = [push EXCEPT ![place[j]] = Idle]
        /\ UNCHANGED <<place, bound, kept, worker, stopped, work>>
    BY <1>2 DEF Unlink, row, process
  <2>2. push[place[j]].job = j /\ place[j] # None
    BY <1>2 DEF Unlink, Pushing
  <2>3. /\ push' \in [Nodes -> [job : Jobs \cup {None}, sent : 0..Outputs]]
        /\ \A n \in Nodes, k \in Jobs : push'[n].job = k => push[n].job = k /\ k # j
    <3>1. Idle \in [job : Jobs \cup {None}, sent : 0..Outputs] /\ Idle.job = None
      BY DEF Idle
    <3>2. \A n \in Nodes : push'[n] = IF n = place[j] THEN Idle ELSE push[n]
      BY <2>1 DEF NodeTypes
    <3>3. push' \in [Nodes -> [job : Jobs \cup {None}, sent : 0..Outputs]]
      BY <2>1, <3>1 DEF NodeTypes
    <3>4. \A n \in Nodes : push[n].job = j => n = place[j]
      BY DEF JournalInv, JournalInvAt
    <3> QED BY <3>1, <3>2, <3>3, <3>4
  <2>4. /\ clean' \in [Jobs -> BOOLEAN] /\ scratch' \in [Jobs -> BOOLEAN]
        /\ clean'[j] /\ ~scratch'[j]
        /\ \A k \in Jobs : k # j => clean'[k] = clean[k] /\ scratch'[k] = scratch[k]
    BY <2>1 DEF NodeTypes
  <2>5. /\ journal' \in [Jobs -> States] /\ journal'[j] = "succeeded"
        /\ \A k \in Jobs : k # j => journal'[k] = journal[k]
    BY <2>1 DEF NodeTypes, States, Terminal
  <2>6. NodeTypes'
    BY <2>1, <2>3, <2>4, <2>5 DEF NodeTypes
  <2>7. /\ place[j] \in Nodes /\ journal[j] = "transferring"
        /\ work[j] # "running" /\ ~clean[j]
    BY <2>2 DEF JournalInv, JournalInvAt, Terminal
  <2>8. Keeps
    BY <2>4, <2>5, <2>7 DEF Keeps, Terminal
  <2>9. JournalInvAt(j)'
    BY <2>1, <2>3, <2>4, <2>5, <2>7 DEF JournalInvAt, Terminal, None
  <2>10. ASSUME NEW k \in Jobs, k # j PROVE JournalInvAt(k)'
    BY <2>1, <2>3, <2>4, <2>5, <2>10 DEF JournalInv, JournalInvAt
  <2> QED BY <2>5, <2>6, <2>8, <2>9, <2>10 DEF JournalInv
<1> QED BY <1>1, <1>2

(* The generation ends, and the agent sweeps what terminal attempts left. *)
LEMMA FinishKeeps ==
    ASSUME NodeTypes, JournalInv, NEW j \in Jobs,
           place \in [Jobs -> Nodes \cup {None}], Finish(j) \/ Sweep(j)
    PROVE  NodeTypes' /\ JournalInv' /\ Keeps
<1>1. CASE Finish(j)
  <2>1. /\ UNCHANGED <<journal, clean, bound, kept, push, worker, stopped, place>>
        /\ work[j] = "running"
    BY <1>1 DEF Finish, row
  <2>2. /\ work' \in [Jobs -> {None, "running", "generated", "failed", "cancelled"}]
        /\ work'[j] # "running" /\ \A k \in Jobs : k # j => work'[k] = work[k]
    BY <1>1 DEF Finish, NodeTypes
  <2>3. /\ scratch' \in [Jobs -> BOOLEAN]
        /\ \A k \in Jobs : scratch'[k] => scratch[k]
    <3>1. UNCHANGED scratch \/ scratch' = [scratch EXCEPT ![j] = FALSE]
      BY <1>1 DEF Finish
    <3> QED BY <3>1 DEF NodeTypes
  <2>4. NodeTypes'
    BY <2>1, <2>2, <2>3 DEF NodeTypes
  <2>5. JournalInv'
    BY <2>1, <2>2, <2>3 DEF JournalInv, JournalInvAt
  <2> QED BY <2>1, <2>4, <2>5 DEF Keeps
<1>2. CASE Sweep(j)
  <2>1. /\ UNCHANGED <<journal, bound, kept, push, worker, stopped, work, place>>
        /\ journal[j] \in Terminal
    BY <1>2 DEF Sweep, row, process, Terminal
  <2>2. /\ clean' \in [Jobs -> BOOLEAN] /\ scratch' \in [Jobs -> BOOLEAN]
        /\ clean'[j] /\ ~scratch'[j]
        /\ \A k \in Jobs : k # j => clean'[k] = clean[k] /\ scratch'[k] = scratch[k]
    BY <1>2 DEF Sweep, NodeTypes
  <2>3. NodeTypes'
    BY <2>1, <2>2 DEF NodeTypes
  <2>4. JournalInv'
    BY <2>1, <2>2 DEF JournalInv, JournalInvAt
  <2> QED BY <2>1, <2>2, <2>3, <2>4 DEF Keeps
<1> QED BY <1>1, <1>2

(* Workers die and agents restart without touching a journal. *)
LEMMA CrashKeeps ==
    ASSUME NodeTypes, JournalInv, NEW n \in Nodes, WorkerDies(n) \/ AgentRestarts(n)
    PROVE  NodeTypes' /\ JournalInv' /\ Keeps
<1> USE NameAssumption, OutputsType
<1>1. UNCHANGED <<place, journal, clean, bound, kept, scratch, stopped>>
  BY DEF WorkerDies, AgentRestarts, row, attempt
<1>2. worker[n] \in WorkerRecord
  BY DEF NodeTypes
<1>3. worker' \in [Nodes -> WorkerRecord]
  <2>1. CASE WorkerDies(n)
    <3>1. [worker[n] EXCEPT !.alive = FALSE] \in WorkerRecord
      BY <1>2 DEF WorkerRecord
    <3> QED BY <2>1, <3>1 DEF WorkerDies, NodeTypes
  <2>2. CASE AgentRestarts(n)
    <3>1. PICK lives \in BOOLEAN, adopted \in BOOLEAN :
             worker' = [worker EXCEPT
                ![n].at = IF @ = None THEN None
                          ELSE IF adopted THEN "starting" ELSE "orphan",
                ![n].alive = lives]
      BY <2>2 DEF AgentRestarts
    <3> DEFINE a == IF worker[n].at = None THEN None
                    ELSE IF adopted THEN "starting" ELSE "orphan"
    <3>2. [worker[n] EXCEPT !.at = a, !.alive = lives] \in WorkerRecord
      BY <1>2 DEF WorkerRecord
    <3>3. worker' = [worker EXCEPT ![n] = [worker[n] EXCEPT !.at = a, !.alive = lives]]
      BY <3>1, <1>2 DEF NodeTypes, WorkerRecord
    <3> HIDE DEF a
    <3> QED BY <3>2, <3>3 DEF NodeTypes
  <2> QED BY <2>1, <2>2
<1>4. /\ work' \in [Jobs -> {None, "running", "generated", "failed", "cancelled"}]
      /\ \A k \in Jobs : work'[k] \in {None, work[k]}
  <2>1. UNCHANGED work \/ Forget(n)
    BY DEF WorkerDies, AgentRestarts
  <2> QED BY <2>1 DEF Forget, NodeTypes
<1>5. /\ push' \in [Nodes -> [job : Jobs \cup {None}, sent : 0..Outputs]]
      /\ \A m \in Nodes, k \in Jobs : push'[m].job = k => push[m].job = k
  <2>1. UNCHANGED push \/ push' = [push EXCEPT ![n] = Idle]
    BY DEF WorkerDies, AgentRestarts
  <2>2. Idle \in [job : Jobs \cup {None}, sent : 0..Outputs] /\ Idle.job = None
    BY DEF Idle
  <2> QED BY <2>1, <2>2 DEF NodeTypes
<1>6. NodeTypes'
  BY <1>1, <1>3, <1>4, <1>5 DEF NodeTypes
<1>7. JournalInv'
  BY <1>1, <1>4, <1>5 DEF JournalInv, JournalInvAt, None
<1> QED BY <1>1, <1>6, <1>7 DEF Keeps

-----------------------------------------------------------------------------
(* The parts of the type invariant *)

CoreTypes ==
    /\ unit \in [Jobs -> 0..MaxUnits] /\ age \in [Jobs -> 0..2]
    /\ lost \in [Jobs -> SUBSET {"access", "model"}]
    /\ inst \in [Nodes -> [id : 0..MaxUnits,
                           at : {None, "launching", "ready", "draining"}]]
    /\ late \subseteq Jobs \X {"reserve", "load", "start", "push"}
    /\ struck \subseteq Troubles /\ strikes \in 0..MaxStrikes

FlowTypes ==
    /\ dw \in [Jobs -> {None, "go", "reserve", "load", "warm", "ready",
                        "start", "done"}]
    /\ ow \in [Jobs -> {None, "go", "ask", "saw", "done"}]
    /\ seen \in [Jobs -> States]
    /\ tw \in [Jobs -> {None, "go", "ask", "mint", "push", "wait", "ack", "done"}]
    /\ cw \in [Jobs -> {None, "go", "final", "done"}]
    /\ uw \in [Nodes -> {"idle", "stop", "confirm"}]

QuotaTypes == pending \in Nat /\ held \in Nat /\ stored \in Nat

(* The type invariant is the conjunction of its parts. *)
LEMMA TypeParts ==
    TypeOK <=> RowTypes /\ NodeTypes /\ CoreTypes /\ FlowTypes /\ QuotaTypes
BY DEF TypeOK, RowTypes, NodeTypes, CoreTypes, FlowTypes, QuotaTypes, WorkerRecord

(* A caller of the node's handlers works for a placed job. *)
LEMMA CallersPlaced ==
    ASSUME TypeOK, KnownInv, NEW j \in Jobs,
           dw[j] \notin {None, "go", "done"} \/ \E op : <<j, op>> \in late
    PROVE  CallTypes(j)
<1>1. place[j] \in Nodes \cup {None} /\ unit[j] \in 0..MaxUnits
  BY DEF TypeOK
<1>2. place[j] # None
  BY DEF KnownInv, KnownInvAt
<1> QED BY <1>1, <1>2 DEF CallTypes, TypeOK

(* Every step keeps the types of the Studio, keeps its journals true to    *)
(* what is on it, and leaves ended and cleaned attempts as they are.       *)
LEMMA NodeStep ==
    ASSUME TypeOK, RowInv, JournalInv, KnownInv, [Next]_vars
    PROVE  NodeTypes' /\ JournalInv' /\ Keeps
<1> DEFINE Goal == NodeTypes' /\ JournalInv' /\ Keeps
<1>0. NodeTypes /\ place \in [Jobs -> Nodes \cup {None}]
      /\ unit \in [Jobs -> 0..MaxUnits]
  BY TypeParts DEF RowTypes, CoreTypes
<1>1. CASE UNCHANGED <<place, node>>
  BY <1>0, <1>1 DEF node, attempt, process, NodeTypes, JournalInv, JournalInvAt, Keeps
<1>2. ASSUME NEW j \in Jobs, NEW n \in Nodes, Place(j, n) PROVE Goal
  <2>1. /\ state[j] = "queued" /\ place' = [place EXCEPT ![j] = n] /\ UNCHANGED node
    BY <1>2 DEF Place
  <2>2. place[j] = None
    BY <2>1 DEF RowInv, RowInvAt
  <2>3. \A k \in Jobs : k # j => place'[k] = place[k]
    BY <1>0, <2>1
  <2>4. JournalInvAt(j)'
    <3>1. place'[j] = n
      BY <1>0, <2>1
    <3>2. journal[j] = None /\ \A m \in Nodes : push[m].job # j
      BY <2>2, NameAssumption DEF JournalInv, JournalInvAt
    <3> QED BY <2>1, <3>1, <3>2 DEF JournalInv, JournalInvAt, node, attempt, process
  <2>5. ASSUME NEW k \in Jobs, k # j PROVE JournalInvAt(k)'
    BY <2>1, <2>3, <2>5 DEF JournalInv, JournalInvAt, node, attempt, process
  <2>6. NodeTypes' /\ Keeps
    BY <1>0, <2>1 DEF node, attempt, process, NodeTypes, Keeps
  <2> QED BY <2>4, <2>5, <2>6 DEF JournalInv
<1>3. ASSUME NEW j \in Jobs, SendReserve(j) \/ SendLoad(j) \/ SendStart(j) PROVE Goal
  <2>1. CallTypes(j) /\ UNCHANGED place
    <3>1. dw[j] \notin {None, "go", "done"}
      BY <1>3 DEF SendReserve, SendLoad, SendStart, None
    <3>2. UNCHANGED place
      BY <1>3 DEF SendReserve, SendLoad, SendStart, row
    <3> QED BY <3>1, <3>2, CallersPlaced
  <2>2. CASE SendReserve(j)
    <3>1. PICK r : Reserve(j, r)
      BY <2>2 DEF SendReserve
    <3> QED BY <1>0, <2>1, <3>1, ReserveKeeps
  <2>3. CASE SendLoad(j)
    <3>1. PICK r : Load(j, r)
      BY <2>3 DEF SendLoad
    <3> QED BY <1>0, <2>1, <3>1, LoadKeeps
  <2>4. CASE SendStart(j)
    <3>1. PICK r : Start(j, r)
      BY <2>4 DEF SendStart
    <3> QED BY <1>0, <2>1, <3>1, StartKeeps
  <2> QED BY <1>3, <2>2, <2>3, <2>4
<1>4. ASSUME NEW j \in Jobs, Warm(j) PROVE Goal
  <2>1. CallTypes(j)
    BY <1>4, CallersPlaced DEF Warm, None
  <2>2. worker' \in [Nodes -> WorkerRecord]
    BY <1>0, <1>4, <2>1, RefreshType DEF Warm, CallTypes
  <2> QED BY <1>0, <1>4, <2>2 DEF Warm, row, attempt, NodeTypes, JournalInv,
              JournalInvAt, Keeps
<1>5. ASSUME NEW j \in Jobs, Observe(j) \/ AskTransfer(j) PROVE Goal
  <2>1. PICK r : Status(j, r)
    BY <1>5 DEF Observe, AskTransfer
  <2>2. UNCHANGED place /\ unit[j] \in 0..MaxUnits
    BY <1>0, <1>5 DEF Observe, AskTransfer, row
  <2> QED BY <1>0, <2>1, <2>2, StatusKeeps
<1>6. ASSUME NEW j \in Jobs, SendTransfer(j) PROVE Goal
  <2>1. UNCHANGED place /\ \E r : BeginTransfer(j, r)
    BY <1>6 DEF SendTransfer, row
  <2> QED BY <1>0, <2>1, BeginTransferKeeps
<1>7. ASSUME NEW j \in Jobs, SendCancel(j) PROVE Goal
  <2>1. UNCHANGED place /\ unit[j] \in 0..MaxUnits
    BY <1>0, <1>7 DEF SendCancel, row
  <2>2. CancelUnproved(j) \/ \E r : Cancel(j, r)
    BY <1>7 DEF SendCancel
  <2> QED BY <1>0, <2>1, <2>2, CancelKeeps, CancelUnprovedKeeps
<1>8. ASSUME NEW j \in Jobs, HandlerStep(j) \/ Finish(j) PROVE Goal
  BY <1>0, <1>8, ReceiveKeeps, UnlinkKeeps, FinishKeeps DEF HandlerStep
<1>9. ASSUME NEW j \in Jobs, NEW op, LateCall(j, op) PROVE Goal
  <2>1. CallTypes(j) /\ UNCHANGED place
    BY <1>9, CallersPlaced DEF LateCall, row
  <2>2. \/ \E r : Reserve(j, r) \/ Load(j, r) \/ Start(j, r) \/ BeginTransfer(j, r)
        \/ UNCHANGED node
    BY <1>9 DEF LateCall
  <2>3. CASE \E r : Reserve(j, r) \/ Load(j, r) \/ Start(j, r) \/ BeginTransfer(j, r)
    BY <1>0, <2>1, <2>3, ReserveKeeps, LoadKeeps, StartKeeps, BeginTransferKeeps
  <2> QED BY <1>1, <2>1, <2>2, <2>3
<1>10. ASSUME NEW n \in Nodes, SendUnload(n) PROVE Goal
  <2>1. UNCHANGED <<place, attempt, push>> /\ inst[n].id \in 0..MaxUnits
    BY <1>10, TypeParts DEF SendUnload, row, CoreTypes
  <2>2. CASE UNCHANGED process
    BY <1>1, <2>1, <2>2 DEF node
  <2>3. CASE Stop(n, inst[n].id) \/ StopUnproved(n, inst[n].id)
    <3>1. ProcessTypes' /\ \A k \in Jobs : work'[k] \in {None, work[k]}
      BY <1>0, <2>1, <2>3, StopTypes
    <3>2. NodeTypes'
      BY <1>0, <2>1, <3>1 DEF attempt, NodeTypes, ProcessTypes
    <3>3. JournalInv'
      BY <2>1, <3>1 DEF attempt, JournalInv, JournalInvAt, None
    <3> QED BY <2>1, <3>2, <3>3 DEF attempt, Keeps
  <2> QED BY <1>10, <2>2, <2>3 DEF SendUnload
<1>11. ASSUME NEW n \in Nodes, WorkerDies(n) \/ AgentRestarts(n) PROVE Goal
  BY <1>0, <1>11, CrashKeeps
<1>12. ASSUME NEW j \in Jobs,
              \/ Admit(j) \/ RequestCancel(j) \/ Expire(j) \/ Age(j) \/ Prepare(j)
              \/ \E what \in {"access", "model"} : Withdraw(j, what)
              \/ StartDispatch(j) \/ RecordReady(j) \/ StartObserve(j)
              \/ CheckAttempt(j) \/ Apply(j)
       PROVE  UNCHANGED <<place, node>>
  BY <1>12 DEF Admit, RequestCancel, EndQueued, EndPlaced, Fence, Expire, Age, Prepare,
      Withdraw, StartDispatch, RecordReady, StartObserve, CheckAttempt, Apply, row
<1>13. ASSUME NEW j \in Jobs,
              \/ StartTransfer(j) \/ CheckTransfer(j) \/ Acknowledge(j)
              \/ PublishStep(j) \/ StartCancel(j) \/ FinalizeCancel(j) \/ LoseCall(j)
       PROVE  UNCHANGED <<place, node>>
  BY <1>13 DEF StartTransfer, CheckTransfer, Acknowledge, PublishStep, Publish,
      RefusePublication, EndPlaced, StartCancel, FinalizeCancel, LoseCall, row
<1>14. ASSUME NEW n \in Nodes, PrepareUnload(n) \/ ConfirmUnload(n)
       PROVE  UNCHANGED <<place, node>>
  BY <1>14 DEF PrepareUnload, ConfirmUnload, row
<1>15. CASE UNCHANGED vars
  BY <1>1, <1>15 DEF vars, row, node
<1> HIDE DEF Goal
<1>16. Goal
  BY <1>1, <1>2, <1>3, <1>4, <1>5, <1>6, <1>7, <1>8, <1>9, <1>10, <1>11, <1>12,
     <1>13, <1>14, <1>15
  DEF Next, DispatchStep, ObserveStep, TransferStep, CancelStep, UnloadStep, Goal
<1> QED BY <1>16 DEF Goal

(* The steps of the workflows follow their program. *)
LEMMA FlowStep ==
    ASSUME TypeOK, [Next]_vars
    PROVE  FlowTypes'
<1> USE NameAssumption DEF FlowTypes, To, None
<1>0. FlowTypes
  BY TypeParts
<1>1. CASE UNCHANGED flows
  BY <1>0, <1>1 DEF flows
<1>2. ASSUME NEW j \in Jobs, NEW n \in Nodes, Place(j, n) PROVE FlowTypes'
  BY <1>0, <1>2 DEF Place
<1>3. ASSUME NEW j \in Jobs, DispatchStep(j) PROVE FlowTypes'
  <2>1. UNCHANGED <<ow, seen, tw, cw, uw>>
    BY <1>3 DEF DispatchStep, StartDispatch, Prepare, SendReserve, SendLoad, Warm,
        RecordReady, SendStart
  <2>2. \E s \in {"go", "reserve", "load", "warm", "ready", "start", "done"} :
           dw' = [dw EXCEPT ![j] = s]
    BY <1>3 DEF DispatchStep, StartDispatch, Prepare, SendReserve, SendLoad, Warm,
        RecordReady, SendStart
  <2> QED BY <1>0, <2>1, <2>2
<1>4. ASSUME NEW j \in Jobs, ObserveStep(j) PROVE FlowTypes'
  <2>1. UNCHANGED <<dw, tw, cw, uw>>
    BY <1>4 DEF ObserveStep, StartObserve, CheckAttempt, Observe, Apply
  <2>2. \E s \in {"go", "ask", "saw", "done"} : ow' = [ow EXCEPT ![j] = s]
    BY <1>4 DEF ObserveStep, StartObserve, CheckAttempt, Observe, Apply
  <2>3. UNCHANGED seen \/ \E s \in States : seen' = [seen EXCEPT ![j] = s]
    <3>1. CASE Observe(j)
      <4>1. PICK r \in Replies :
               Status(j, r) /\ seen' = [seen EXCEPT ![j] = IF r = "fail" THEN None ELSE r]
        BY <3>1 DEF Observe
      <4>2. r = "fail" \/ r \in States
        <5>1. journal[j] \in States /\ (Reconcile(j) => journal'[j] \in States)
          BY DEF TypeOK, Reconcile, States, Terminal
        <5> QED BY <4>1, <5>1 DEF Status
      <4> QED BY <4>1, <4>2 DEF States
    <3>2. CASE ~Observe(j)
      BY <1>4, <3>2 DEF ObserveStep, StartObserve, CheckAttempt, Apply, States
    <3> QED BY <3>1, <3>2
  <2> QED BY <1>0, <2>1, <2>2, <2>3
<1>5. ASSUME NEW j \in Jobs,
             TransferStep(j) \/ Receive(j) \/ KeepReceipts(j) \/ Unlink(j) \/ Sweep(j)
      PROVE  FlowTypes'
  <2>1. UNCHANGED <<dw, ow, seen, cw, uw>>
    BY <1>5 DEF TransferStep, StartTransfer, CheckTransfer, AskTransfer,
        SendTransfer, Acknowledge, Receive, KeepReceipts, Unlink, Sweep, flows
  <2>2. \/ UNCHANGED tw
        \/ \E s \in {"go", "ask", "mint", "push", "wait", "ack", "done"} :
              tw' = [tw EXCEPT ![j] = s]
    BY <1>5 DEF TransferStep, StartTransfer, CheckTransfer, AskTransfer,
        SendTransfer, Acknowledge, Receive, KeepReceipts, Unlink, Sweep, flows,
        NextTransfer, Told
  <2> QED BY <1>0, <2>1, <2>2
<1>6. ASSUME NEW j \in Jobs, CancelStep(j) PROVE FlowTypes'
  <2>1. UNCHANGED <<dw, ow, seen, tw, uw>>
    BY <1>6 DEF CancelStep, StartCancel, SendCancel, FinalizeCancel
  <2>2. UNCHANGED cw \/ \E s \in {"go", "final", "done"} : cw' = [cw EXCEPT ![j] = s]
    BY <1>6 DEF CancelStep, StartCancel, SendCancel, FinalizeCancel
  <2> QED BY <1>0, <2>1, <2>2
<1>7. ASSUME NEW n \in Nodes, UnloadStep(n) PROVE FlowTypes'
  <2>1. UNCHANGED <<dw, ow, seen, tw, cw>>
    BY <1>7 DEF UnloadStep, PrepareUnload, SendUnload, ConfirmUnload
  <2>2. \E s \in {"idle", "stop", "confirm"} : uw' = [uw EXCEPT ![n] = s]
    BY <1>7 DEF UnloadStep, PrepareUnload, SendUnload, ConfirmUnload
  <2> QED BY <1>0, <2>1, <2>2
<1>8. ASSUME NEW j \in Jobs, LoseCall(j) PROVE FlowTypes'
  BY <1>0, <1>8 DEF LoseCall
<1>9. ASSUME NEW n \in Nodes, AgentRestarts(n) PROVE FlowTypes'
  BY <1>0, <1>9 DEF AgentRestarts
<1>10. ASSUME NEW j \in Jobs,
              \/ Admit(j) \/ RequestCancel(j) \/ Expire(j) \/ Age(j)
              \/ \E what \in {"access", "model"} : Withdraw(j, what)
              \/ PublishStep(j) \/ Finish(j)
              \/ \E op \in {"reserve", "load", "start", "push"} : LateCall(j, op)
       PROVE  UNCHANGED flows
  BY <1>10 DEF Admit, RequestCancel, Expire, Age, Withdraw, PublishStep, Publish,
      RefusePublication, Finish, LateCall
<1>11. ASSUME NEW n \in Nodes, WorkerDies(n) PROVE UNCHANGED flows
  BY <1>11 DEF WorkerDies
<1>12. CASE UNCHANGED vars
  BY <1>1, <1>12 DEF vars
<1> QED
  BY <1>1, <1>2, <1>3, <1>4, <1>5, <1>6, <1>7, <1>8, <1>9, <1>10, <1>11, <1>12
  DEF Next, HandlerStep

(* Nothing goes wrong more often than it may. *)
LEMMA BoundTypes ==
    ASSUME CoreTypes, UNCHANGED bounds \/ \E kind : Strike(kind)
    PROVE  struck' \subseteq Troubles /\ strikes' \in 0..MaxStrikes
BY UnitsType DEF CoreTypes, bounds, Strike

(* Columns, instances, lost calls and bounds keep their types. *)
LEMMA CoreStep ==
    ASSUME TypeOK, [Next]_vars
    PROVE  CoreTypes'
<1> DEFINE Bounded == UNCHANGED bounds \/ \E kind : Strike(kind)
           InstRecord == [id : 0..MaxUnits,
                          at : {None, "launching", "ready", "draining"}]
<1>0. CoreTypes /\ inst \in [Nodes -> InstRecord]
  BY TypeParts DEF CoreTypes
<1>1. CASE Bounded /\ UNCHANGED <<unit, age, lost, inst, late>>
  BY <1>0, <1>1, BoundTypes DEF CoreTypes
<1>2. ASSUME NEW j \in Jobs, Age(j) PROVE CoreTypes'
  <2>1. Bounded /\ UNCHANGED <<unit, lost, inst, late>>
    BY <1>2 DEF Age
  <2>2. age' \in [Jobs -> 0..2]
    BY <1>0, <1>2 DEF Age, CoreTypes
  <2> QED BY <1>0, <2>1, <2>2, BoundTypes DEF CoreTypes
<1>3. ASSUME NEW j \in Jobs, NEW what \in {"access", "model"}, Withdraw(j, what)
      PROVE  CoreTypes'
  <2>1. Bounded /\ UNCHANGED <<unit, age, inst, late>>
    BY <1>3 DEF Withdraw
  <2>2. lost' \in [Jobs -> SUBSET {"access", "model"}]
    BY <1>0, <1>3 DEF Withdraw, CoreTypes
  <2> QED BY <1>0, <2>1, <2>2, BoundTypes DEF CoreTypes
<1>4. ASSUME NEW j \in Jobs, NEW n \in Nodes, Place(j, n) PROVE CoreTypes'
  <2>1. Bounded /\ UNCHANGED <<age, lost, late>>
    BY <1>4 DEF Place
  <2>2. inst' \in [Nodes -> InstRecord]
    <3>1. \/ UNCHANGED inst
          \/ /\ inst[n].id < MaxUnits
             /\ inst' = [inst EXCEPT ![n] = [id |-> inst[n].id + 1, at |-> "launching"]]
      BY <1>4 DEF Place
    <3> QED BY <1>0, <3>1, UnitsType
  <2>3. unit' \in [Jobs -> 0..MaxUnits]
    <3>1. unit' = [unit EXCEPT ![j] = inst'[n].id] /\ inst'[n].id \in 0..MaxUnits
      BY <1>4, <2>2 DEF Place
    <3> QED BY <1>0, <3>1 DEF CoreTypes
  <2> QED BY <1>0, <2>1, <2>2, <2>3, BoundTypes DEF CoreTypes
<1>5. ASSUME NEW j \in Jobs, RecordReady(j) PROVE CoreTypes'
  <2>1. Bounded /\ UNCHANGED <<unit, age, lost, late>>
    BY <1>5 DEF RecordReady, row
  <2>2. inst' \in [Nodes -> InstRecord]
    BY <1>0, <1>5 DEF RecordReady
  <2> QED BY <1>0, <2>1, <2>2, BoundTypes DEF CoreTypes
<1>6. ASSUME NEW n \in Nodes, PrepareUnload(n) \/ ConfirmUnload(n) PROVE CoreTypes'
  <2>1. Bounded /\ UNCHANGED <<unit, age, lost, late>>
    BY <1>6 DEF PrepareUnload, ConfirmUnload, row
  <2>2. inst' \in [Nodes -> InstRecord]
    BY <1>0, <1>6 DEF PrepareUnload, ConfirmUnload
  <2> QED BY <1>0, <2>1, <2>2, BoundTypes DEF CoreTypes
<1>7. ASSUME NEW j \in Jobs, LoseCall(j) PROVE CoreTypes'
  <2>1. Bounded /\ UNCHANGED <<unit, age, lost, inst>>
    BY <1>7 DEF LoseCall, row
  <2>2. late' \subseteq Jobs \X {"reserve", "load", "start", "push"}
    BY <1>0, <1>7 DEF LoseCall, CoreTypes
  <2> QED BY <1>0, <2>1, <2>2, BoundTypes DEF CoreTypes
<1>8. ASSUME NEW j \in Jobs, NEW op, LateCall(j, op) PROVE CoreTypes'
  <2>1. Bounded /\ UNCHANGED <<unit, age, lost, inst>> /\ late' \subseteq late
    BY <1>8 DEF LateCall, row
  <2> QED BY <1>0, <2>1, BoundTypes DEF CoreTypes
<1>9. ASSUME NEW j \in Jobs,
             \/ Admit(j) \/ RequestCancel(j) \/ Expire(j) \/ StartDispatch(j)
             \/ Prepare(j) \/ SendReserve(j) \/ SendLoad(j) \/ Warm(j) \/ SendStart(j)
      PROVE  Bounded /\ UNCHANGED <<unit, age, lost, inst, late>>
  BY <1>9 DEF Admit, RequestCancel, EndQueued, Fence, Expire, StartDispatch, Prepare,
      Revoked, SendReserve, SendLoad, Warm, SendStart, row
<1>10. ASSUME NEW j \in Jobs, ObserveStep(j) \/ TransferStep(j) \/ PublishStep(j)
       PROVE  Bounded /\ UNCHANGED <<unit, age, lost, inst, late>>
  BY <1>10 DEF ObserveStep, StartObserve, CheckAttempt, Revoked, Fence, Observe, Apply,
      EndPlaced, TransferStep, StartTransfer, CheckTransfer, AskTransfer,
      SendTransfer, Acknowledge, PublishStep, Publish, RefusePublication, row
<1>11. ASSUME NEW j \in Jobs, CancelStep(j) \/ HandlerStep(j) \/ Finish(j)
       PROVE  Bounded /\ UNCHANGED <<unit, age, lost, inst, late>>
  BY <1>11 DEF CancelStep, StartCancel, SendCancel, FinalizeCancel, EndPlaced,
      HandlerStep, Receive, KeepReceipts, Unlink, Sweep, Finish, row
<1>12. ASSUME NEW n \in Nodes, SendUnload(n) \/ WorkerDies(n) \/ AgentRestarts(n)
       PROVE  Bounded /\ UNCHANGED <<unit, age, lost, inst, late>>
  BY <1>12 DEF SendUnload, WorkerDies, AgentRestarts, row
<1>13. CASE UNCHANGED vars
  BY <1>1, <1>13 DEF vars, row
<1> HIDE DEF Bounded
<1> QED
  BY <1>1, <1>2, <1>3, <1>4, <1>5, <1>6, <1>7, <1>8, <1>9, <1>10, <1>11, <1>12, <1>13
  DEF Next, DispatchStep, UnloadStep

-----------------------------------------------------------------------------
(* What the workflows know *)

Unplaced(j) == /\ dw[j] \in {None, "go", "done"} /\ tw[j] = None
               /\ \A c \in late : c[1] # j

(* A step of the dispatch or of the transfer that calls the Studio belongs *)
(* to a placed job, and so does every call in flight.                      *)
LEMMA UnplacedStep ==
    ASSUME TypeOK, RowInv, KnownInv, [Next]_vars, NEW k \in Jobs, place'[k] = None
    PROVE  Unplaced(k)'
<1> USE NameAssumption
<1>0. /\ RowTypes /\ FlowTypes /\ CoreTypes
      /\ \A j \in Jobs : place[j] = None => Unplaced(j)
      /\ \A j \in Jobs : state[j] \in Placed => place[j] # None
  BY TypeParts DEF KnownInv, KnownInvAt, RowInv, RowInvAt, Unplaced
<1>1. place[k] = None
  <2>1. UNCHANGED place \/ \E j \in Jobs, n \in Nodes : place' = [place EXCEPT ![j] = n]
    BY RowMoves DEF RowMove, rowPart, Admits, Acknowledges, Publishes, Fences, Fence,
        Places, Moves, Receives, EndsQueued, EndQueued, EndsPlaced, EndPlaced
  <2> QED BY <1>0, <2>1 DEF RowTypes
<1>2. Unplaced(k)
  BY <1>0, <1>1
<1>3. CASE UNCHANGED <<dw, tw, late>>
  BY <1>2, <1>3 DEF Unplaced
<1>4. ASSUME NEW j \in Jobs, NEW n \in Nodes, Place(j, n) PROVE Unplaced(k)'
  <2>1. j # k
    BY <1>0, <1>4 DEF Place, RowTypes
  <2> QED BY <1>0, <1>2, <1>4, <2>1 DEF Place, To, Unplaced, FlowTypes
<1>5. ASSUME NEW j \in Jobs, DispatchStep(j) PROVE Unplaced(k)'
  <2>1. UNCHANGED <<tw, late>>
    BY <1>5 DEF DispatchStep, StartDispatch, Prepare, SendReserve, SendLoad, Warm,
        RecordReady, SendStart
  <2>2. dw'[k] \in {None, "go", "done"}
    <3>1. CASE StartDispatch(j)
      BY <1>0, <1>2, <3>1 DEF StartDispatch, To, Unplaced, FlowTypes
    <3>2. CASE Prepare(j)
      <4>1. \/ dw' = [dw EXCEPT ![j] = "done"]
            \/ state[j] \in {"reserving", "running"} /\ dw' = [dw EXCEPT ![j] = "reserve"]
        BY <3>2 DEF Prepare, To
      <4>2. state[j] \in {"reserving", "running"} => j # k
        BY <1>0, <1>1 DEF Placed
      <4> QED BY <1>0, <1>2, <4>1, <4>2 DEF Unplaced, FlowTypes
    <3>3. CASE ~StartDispatch(j) /\ ~Prepare(j)
      <4>1. dw[j] \in {"reserve", "load", "warm", "ready", "start"}
        BY <1>5, <3>3 DEF DispatchStep, SendReserve, SendLoad, Warm, RecordReady,
            SendStart
      <4>2. j # k
        BY <1>2, <4>1 DEF Unplaced, None
      <4>3. \A i \in Jobs : i # j => dw'[i] = dw[i]
        BY <1>0, <1>5, <3>3 DEF DispatchStep, SendReserve, SendLoad, Warm,
            RecordReady, SendStart, To, FlowTypes
      <4> QED BY <1>2, <4>2, <4>3 DEF Unplaced
    <3> QED BY <3>1, <3>2, <3>3
  <2> QED BY <1>2, <2>1, <2>2 DEF Unplaced
<1>6. ASSUME NEW j \in Jobs, TransferStep(j) PROVE Unplaced(k)'
  <2>1. UNCHANGED <<dw, late>>
    BY <1>6 DEF TransferStep, StartTransfer, CheckTransfer, AskTransfer,
        SendTransfer, Acknowledge
  <2>2. \A i \in Jobs : i # j => tw'[i] = tw[i]
    BY <1>0, <1>6 DEF TransferStep, StartTransfer, CheckTransfer, AskTransfer,
        SendTransfer, Acknowledge, To, FlowTypes
  <2>3. state[j] = "transferring" \/ tw[j] # None
    BY <1>6 DEF TransferStep, StartTransfer, CheckTransfer, AskTransfer,
        SendTransfer, Acknowledge, None
  <2>4. j # k
    BY <1>0, <1>1, <1>2, <2>3 DEF Unplaced, Placed
  <2> QED BY <1>2, <2>1, <2>2, <2>4 DEF Unplaced
<1>7. ASSUME NEW j \in Jobs, Receive(j) \/ Unlink(j) PROVE Unplaced(k)'
  <2>1. UNCHANGED <<dw, late>>
    BY <1>7 DEF Receive, Unlink
  <2>2. UNCHANGED tw \/ (tw[j] = "wait" /\ \E s : tw' = [tw EXCEPT ![j] = s])
    BY <1>7 DEF Receive, Unlink, Told, To
  <2>3. tw[j] = "wait" => j # k
    BY <1>2 DEF Unplaced, None
  <2> QED BY <1>0, <1>2, <2>1, <2>2, <2>3 DEF Unplaced, FlowTypes
<1>8. ASSUME NEW j \in Jobs, LoseCall(j) PROVE Unplaced(k)'
  <2>1. j # k
    BY <1>2, <1>8 DEF LoseCall, Unplaced, None
  <2>2. /\ \A i \in Jobs : i # j => dw'[i] = dw[i] /\ tw'[i] = tw[i]
        /\ \A c \in late' : c \in late \/ c[1] = j
    BY <1>0, <1>8 DEF LoseCall, To, FlowTypes
  <2> QED BY <1>2, <2>1, <2>2 DEF Unplaced
<1>9. ASSUME NEW n \in Nodes, AgentRestarts(n) PROVE Unplaced(k)'
  BY <1>0, <1>2, <1>9 DEF AgentRestarts, Unplaced, None
<1>10. ASSUME NEW j \in Jobs, NEW op, LateCall(j, op) PROVE Unplaced(k)'
  BY <1>2, <1>10 DEF LateCall, flows, Unplaced
<1>11. ASSUME NEW j \in Jobs,
              \/ Admit(j) \/ RequestCancel(j) \/ Expire(j) \/ Age(j)
              \/ \E what \in {"access", "model"} : Withdraw(j, what)
              \/ ObserveStep(j) \/ PublishStep(j) \/ CancelStep(j)
              \/ KeepReceipts(j) \/ Sweep(j) \/ Finish(j)
       PROVE  UNCHANGED <<dw, tw, late>>
  BY <1>11 DEF Admit, RequestCancel, Expire, Age, Withdraw, ObserveStep,
      StartObserve, CheckAttempt, Observe, Apply, PublishStep, Publish,
      RefusePublication, CancelStep, StartCancel, SendCancel, FinalizeCancel,
      KeepReceipts, Sweep, Finish, flows
<1>12. ASSUME NEW n \in Nodes, UnloadStep(n) \/ WorkerDies(n)
       PROVE  UNCHANGED <<dw, tw, late>>
  BY <1>12 DEF UnloadStep, PrepareUnload, SendUnload, ConfirmUnload, WorkerDies, flows
<1>13. CASE UNCHANGED vars
  BY <1>3, <1>13 DEF vars, flows
<1> QED
  BY <1>3, <1>4, <1>5, <1>6, <1>7, <1>8, <1>9, <1>10, <1>11, <1>12, <1>13
  DEF Next, HandlerStep

(* A failure that was observed is in the journal, and its scratch is gone. *)
LEMMA SeenStep ==
    ASSUME TypeOK, JournalInv, KnownInv, Keeps, [Next]_vars, NEW k \in Jobs,
           seen'[k] = "failed"
    PROVE  journal'[k] = "failed" /\ clean'[k]
<1>0. /\ FlowTypes /\ NodeTypes /\ place \in [Jobs -> Nodes \cup {None}]
      /\ unit \in [Jobs -> 0..MaxUnits]
  BY TypeParts DEF RowTypes, CoreTypes
<1>1. CASE seen[k] = "failed"
  BY <1>1 DEF KnownInv, KnownInvAt, Keeps, Terminal
<1>2. ASSUME NEW j \in Jobs, Observe(j), seen[k] # "failed"
      PROVE  journal'[k] = "failed" /\ clean'[k]
  <2>1. PICK r : /\ Status(j, r)
                 /\ seen' = [seen EXCEPT ![j] = IF r = "fail" THEN None ELSE r]
    BY <1>2 DEF Observe, To
  <2>2. j = k /\ r = "failed"
    BY <1>0, <1>2, <2>1 DEF FlowTypes, None
  <2>3. unit[j] \in 0..MaxUnits /\ UNCHANGED place
    BY <1>0, <1>2 DEF Observe, row
  <2> QED BY <1>0, <2>1, <2>2, <2>3, StatusKeeps
<1>3. ASSUME NEW j \in Jobs, Apply(j) PROVE seen[k] = "failed"
  BY <1>0, <1>3 DEF Apply, To, FlowTypes, None
<1>4. ASSUME UNCHANGED seen PROVE seen[k] = "failed"
  BY <1>4
<1>5. ASSUME NEW j \in Jobs,
             \/ Admit(j) \/ RequestCancel(j) \/ Expire(j) \/ Age(j)
             \/ \E what \in {"access", "model"} : Withdraw(j, what)
             \/ \E n \in Nodes : Place(j, n)
             \/ DispatchStep(j) \/ StartObserve(j) \/ CheckAttempt(j)
      PROVE  UNCHANGED seen
  BY <1>5 DEF Admit, RequestCancel, Expire, Age, Withdraw, Place, DispatchStep,
      StartDispatch, Prepare, SendReserve, SendLoad, Warm, RecordReady, SendStart,
      StartObserve, CheckAttempt, flows
<1>6. ASSUME NEW j \in Jobs,
             \/ TransferStep(j) \/ PublishStep(j) \/ CancelStep(j) \/ HandlerStep(j)
             \/ Finish(j) \/ LoseCall(j) \/ \E op : LateCall(j, op)
      PROVE  UNCHANGED seen
  BY <1>6 DEF TransferStep, StartTransfer, CheckTransfer, AskTransfer, SendTransfer,
      Acknowledge, PublishStep, Publish, RefusePublication, CancelStep, StartCancel,
      SendCancel, FinalizeCancel, HandlerStep, Receive, KeepReceipts, Unlink, Sweep,
      Finish, LoseCall, LateCall, flows
<1>7. ASSUME NEW n \in Nodes, UnloadStep(n) \/ WorkerDies(n) \/ AgentRestarts(n)
      PROVE  UNCHANGED seen
  BY <1>7 DEF UnloadStep, PrepareUnload, SendUnload, ConfirmUnload, WorkerDies,
      AgentRestarts, flows
<1>8. CASE UNCHANGED vars
  BY <1>1, <1>4, <1>8 DEF vars, flows
<1> QED BY <1>1, <1>2, <1>3, <1>4, <1>5, <1>6, <1>7, <1>8 DEF Next, ObserveStep

(* A cancel that may be finalized has left a clean attempt. *)
LEMMA FinalStep ==
    ASSUME TypeOK, JournalInv, KnownInv, Keeps, [Next]_vars, NEW k \in Jobs,
           cw'[k] = "final"
    PROVE  clean'[k]
<1>0. /\ FlowTypes /\ NodeTypes /\ place \in [Jobs -> Nodes \cup {None}]
      /\ unit \in [Jobs -> 0..MaxUnits]
  BY TypeParts DEF RowTypes, CoreTypes
<1>1. CASE cw[k] = "final"
  BY <1>1 DEF KnownInv, KnownInvAt, Keeps
<1>2. ASSUME NEW j \in Jobs, SendCancel(j), cw[k] # "final"
      PROVE  clean'[k]
  <2>1. PICK r : Cancel(j, r) /\ cw' = [cw EXCEPT ![j] = IF r = "fail" THEN "go"
                                                         ELSE "final"]
    BY <1>2 DEF SendCancel, To
  <2>2. j = k /\ r # "fail"
    BY <1>0, <1>2, <2>1 DEF FlowTypes
  <2>3. unit[j] \in 0..MaxUnits /\ UNCHANGED place
    BY <1>0, <1>2 DEF SendCancel, row
  <2> QED BY <1>0, <2>1, <2>2, <2>3, CancelKeeps
<1>3. ASSUME NEW j \in Jobs, StartCancel(j) \/ FinalizeCancel(j)
      PROVE  cw[k] = "final"
  BY <1>0, <1>3 DEF StartCancel, FinalizeCancel, To, FlowTypes
<1>4. ASSUME UNCHANGED cw PROVE cw[k] = "final"
  BY <1>4
<1>5. ASSUME NEW j \in Jobs,
             \/ Admit(j) \/ RequestCancel(j) \/ Expire(j) \/ Age(j)
             \/ \E what \in {"access", "model"} : Withdraw(j, what)
             \/ \E n \in Nodes : Place(j, n)
             \/ DispatchStep(j) \/ ObserveStep(j)
      PROVE  UNCHANGED cw
  BY <1>5 DEF Admit, RequestCancel, Expire, Age, Withdraw, Place, DispatchStep,
      StartDispatch, Prepare, SendReserve, SendLoad, Warm, RecordReady, SendStart,
      ObserveStep, StartObserve, CheckAttempt, Observe, Apply, flows
<1>6. ASSUME NEW j \in Jobs,
             \/ TransferStep(j) \/ PublishStep(j) \/ HandlerStep(j)
             \/ Finish(j) \/ LoseCall(j) \/ \E op : LateCall(j, op)
      PROVE  UNCHANGED cw
  BY <1>6 DEF TransferStep, StartTransfer, CheckTransfer, AskTransfer, SendTransfer,
      Acknowledge, PublishStep, Publish, RefusePublication, HandlerStep, Receive,
      KeepReceipts, Unlink, Sweep, Finish, LoseCall, LateCall, flows
<1>7. ASSUME NEW n \in Nodes, UnloadStep(n) \/ WorkerDies(n) \/ AgentRestarts(n)
      PROVE  UNCHANGED cw
  BY <1>7 DEF UnloadStep, PrepareUnload, SendUnload, ConfirmUnload, WorkerDies,
      AgentRestarts, flows
<1>8. CASE UNCHANGED vars
  BY <1>1, <1>4, <1>8 DEF vars, flows
<1> QED BY <1>1, <1>2, <1>3, <1>4, <1>5, <1>6, <1>7, <1>8 DEF Next, CancelStep

(* Cleanup is acknowledged only for outputs whose journal has succeeded. *)
LEMMA AckStep ==
    ASSUME TypeOK, JournalInv, KnownInv, Keeps, [Next]_vars, NEW k \in Jobs,
           tw'[k] = "ack" \/ acked'[k]
    PROVE  journal'[k] = "succeeded"
<1>0. /\ RowTypes /\ FlowTypes /\ NodeTypes /\ unit \in [Jobs -> 0..MaxUnits]
      /\ place \in [Jobs -> Nodes \cup {None}]
  BY TypeParts DEF RowTypes, CoreTypes
<1>1. CASE tw[k] = "ack" \/ acked[k]
  BY <1>1 DEF KnownInv, KnownInvAt, Keeps, Terminal
<1>2. ASSUME NEW j \in Jobs, AskTransfer(j), ~(tw[k] = "ack" \/ acked[k])
      PROVE  journal'[k] = "succeeded"
  <2>1. PICK r : Status(j, r) /\ tw' = [tw EXCEPT ![j] = NextTransfer(r)]
    BY <1>2 DEF AskTransfer, To
  <2>2. j = k /\ r = "succeeded"
    BY <1>0, <1>2, <2>1 DEF FlowTypes, NextTransfer, AskTransfer, row
  <2>3. unit[j] \in 0..MaxUnits /\ UNCHANGED place
    BY <1>0, <1>2 DEF AskTransfer, row
  <2> QED BY <1>0, <2>1, <2>2, <2>3, StatusKeeps
<1>3. ASSUME NEW j \in Jobs, SendTransfer(j), ~(tw[k] = "ack" \/ acked[k])
      PROVE  journal'[k] = "succeeded"
  <2>1. PICK r : BeginTransfer(j, r) /\ tw' = [tw EXCEPT ![j] = r]
    BY <1>3 DEF SendTransfer, To
  <2>2. j = k /\ r = "ack" /\ UNCHANGED place
    BY <1>0, <1>3, <2>1 DEF FlowTypes, SendTransfer, row
  <2> QED BY <1>0, <2>1, <2>2, BeginTransferKeeps DEF attempt
<1>4. ASSUME NEW j \in Jobs, Unlink(j), ~(tw[k] = "ack" \/ acked[k])
      PROVE  journal'[k] = "succeeded"
  <2>1. j = k
    BY <1>0, <1>4 DEF Unlink, Told, To, FlowTypes, row
  <2> QED BY <1>0, <1>4, <2>1 DEF Unlink, NodeTypes
<1>5. ASSUME NEW j \in Jobs, Acknowledge(j)
      PROVE  tw[k] = "ack" \/ acked[k]
  BY <1>0, <1>5 DEF Acknowledge, To, FlowTypes, RowTypes
<1>6. ASSUME NEW j \in Jobs, StartTransfer(j) \/ CheckTransfer(j) \/ Receive(j) \/ LoseCall(j)
      PROVE  tw[k] = "ack" \/ acked[k]
  BY <1>0, <1>6 DEF StartTransfer, CheckTransfer, Receive, Told, LoseCall, To,
      FlowTypes, row
<1>7. ASSUME NEW n \in Nodes, AgentRestarts(n) PROVE tw[k] = "ack" \/ acked[k]
  BY <1>0, <1>7 DEF AgentRestarts, row
<1>8. ASSUME UNCHANGED <<tw, acked>> PROVE tw[k] = "ack" \/ acked[k]
  BY <1>8
<1>9. ASSUME NEW j \in Jobs,
             \/ Admit(j) \/ RequestCancel(j) \/ Expire(j) \/ Age(j)
             \/ \E what \in {"access", "model"} : Withdraw(j, what)
             \/ \E n \in Nodes : Place(j, n)
             \/ DispatchStep(j) \/ ObserveStep(j)
      PROVE  UNCHANGED <<tw, acked>>
  BY <1>9 DEF Admit, RequestCancel, EndQueued, EndPlaced, Fence, Expire, Age,
      Withdraw, Place, DispatchStep, StartDispatch, Prepare, SendReserve, SendLoad,
      Warm, RecordReady, SendStart, ObserveStep, StartObserve, CheckAttempt, Observe,
      Apply, flows, row
<1>10. ASSUME NEW j \in Jobs,
              \/ PublishStep(j) \/ CancelStep(j) \/ KeepReceipts(j) \/ Sweep(j)
              \/ Finish(j) \/ \E op : LateCall(j, op)
       PROVE  UNCHANGED <<tw, acked>>
  BY <1>10 DEF PublishStep, Publish, RefusePublication, EndPlaced, CancelStep,
      StartCancel, SendCancel, FinalizeCancel, KeepReceipts, Sweep, Finish, LateCall,
      flows, row
<1>11. ASSUME NEW n \in Nodes, UnloadStep(n) \/ WorkerDies(n)
       PROVE  UNCHANGED <<tw, acked>>
  BY <1>11 DEF UnloadStep, PrepareUnload, SendUnload, ConfirmUnload, WorkerDies,
      flows, row
<1>12. CASE UNCHANGED vars
  BY <1>1, <1>8, <1>12 DEF vars, flows, row
<1> QED
  BY <1>1, <1>2, <1>3, <1>4, <1>5, <1>6, <1>7, <1>8, <1>9, <1>10, <1>11, <1>12
  DEF Next, TransferStep, HandlerStep

(* A job ends only once the Studio has proved that its attempt is clean, or *)
(* before it had a Studio: its failure was observed, its outputs were       *)
(* received and cleaned up, or its cancel has been confirmed.               *)
LEMMA EndedStep ==
    ASSUME TypeOK, RowInv, JournalInv, KnownInv, Keeps, [Next]_vars, NEW k \in Jobs,
           state'[k] \in Terminal, place'[k] # None
    PROVE  clean'[k]
<1>0. /\ RowTypes /\ FlowTypes /\ NodeTypes
      /\ \A j \in Jobs : RowInvAt(j) /\ JournalInvAt(j) /\ KnownInvAt(j)
  BY TypeParts DEF RowInv, JournalInv, KnownInv
<1>1. ASSUME clean[k] PROVE clean'[k]
  BY <1>1 DEF Keeps
<1>2. ASSUME UNCHANGED <<state, place>> PROVE clean[k]
  BY <1>0, <1>2 DEF KnownInvAt
<1>3. ASSUME NEW j \in Jobs, Admit(j) \/ RequestCancel(j) \/ Expire(j) PROVE clean[k]
  <2>1. UNCHANGED place /\ \/ state[j] = None /\ state' = [state EXCEPT ![j] = "queued"]
                           \/ \E o : state[j] = "queued" /\ state' = [state EXCEPT ![j] = o]
                           \/ state' = [state EXCEPT ![j] = "cancelling"]
    BY <1>3 DEF Admit, RequestCancel, Expire, EndQueued, Fence
  <2> QED BY <1>0, <2>1 DEF KnownInvAt, RowInvAt, RowTypes, Terminal, None
<1>4. ASSUME NEW j \in Jobs, NEW n \in Nodes, Place(j, n) PROVE clean[k]
  BY <1>0, <1>4 DEF Place, KnownInvAt, RowTypes, Terminal
<1>5. ASSUME NEW j \in Jobs, Prepare(j) \/ CheckAttempt(j) PROVE clean[k]
  <2>1. UNCHANGED place /\ \/ UNCHANGED state
                           \/ \E o : state[j] = "queued" /\ state' = [state EXCEPT ![j] = o]
                           \/ state' = [state EXCEPT ![j] = "cancelling"]
    BY <1>5 DEF Prepare, CheckAttempt, EndQueued, Fence, row
  <2> QED BY <1>0, <2>1 DEF KnownInvAt, RowInvAt, RowTypes, Terminal
<1>6. ASSUME NEW j \in Jobs, Apply(j) PROVE clean[k]
  <2>1. UNCHANGED place /\ \/ UNCHANGED state
                           \/ seen[j] = "failed" /\ state' = [state EXCEPT ![j] = "failed"]
                           \/ state' = [state EXCEPT ![j] = "running"]
                           \/ state' = [state EXCEPT ![j] = "transferring"]
    BY <1>6 DEF Apply, EndPlaced, row
  <2> QED BY <1>0, <2>1 DEF KnownInvAt, RowTypes, Terminal
<1>7. ASSUME NEW j \in Jobs, PublishStep(j) PROVE clean[k]
  <2>1. UNCHANGED place /\ acked[j] /\ \E o : state' = [state EXCEPT ![j] = o]
    BY <1>7 DEF PublishStep, Publish, RefusePublication, ReadyToPublish, EndPlaced
  <2>2. clean[j]
    BY <1>0, <2>1 DEF KnownInvAt, JournalInvAt
  <2> QED BY <1>0, <2>1, <2>2 DEF KnownInvAt, RowTypes
<1>8. ASSUME NEW j \in Jobs, FinalizeCancel(j) PROVE clean[k]
  BY <1>0, <1>8 DEF FinalizeCancel, EndPlaced, KnownInvAt, RowTypes
<1>9. ASSUME NEW j \in Jobs,
             \/ Age(j) \/ \E what \in {"access", "model"} : Withdraw(j, what)
             \/ StartDispatch(j) \/ SendReserve(j) \/ SendLoad(j) \/ Warm(j)
             \/ RecordReady(j) \/ SendStart(j) \/ StartObserve(j) \/ Observe(j)
      PROVE  UNCHANGED <<state, place>>
  BY <1>9 DEF Age, Withdraw, StartDispatch, SendReserve, SendLoad, Warm, RecordReady,
      SendStart, StartObserve, Observe, row
<1>10. ASSUME NEW j \in Jobs,
              \/ TransferStep(j) \/ StartCancel(j) \/ SendCancel(j) \/ HandlerStep(j)
              \/ Finish(j) \/ LoseCall(j) \/ \E op : LateCall(j, op)
       PROVE  UNCHANGED <<state, place>>
  BY <1>10 DEF TransferStep, StartTransfer, CheckTransfer, AskTransfer, SendTransfer,
      Acknowledge, StartCancel, SendCancel, HandlerStep, Receive, KeepReceipts,
      Unlink, Sweep, Finish, LoseCall, LateCall, row
<1>11. ASSUME NEW n \in Nodes, UnloadStep(n) \/ WorkerDies(n) \/ AgentRestarts(n)
       PROVE  UNCHANGED <<state, place>>
  BY <1>11 DEF UnloadStep, PrepareUnload, SendUnload, ConfirmUnload, WorkerDies,
      AgentRestarts, row
<1>12. CASE UNCHANGED vars
  BY <1>1, <1>2, <1>12 DEF vars, row
<1> QED
  BY <1>1, <1>2, <1>3, <1>4, <1>5, <1>6, <1>7, <1>8, <1>9, <1>10, <1>11, <1>12
  DEF Next, DispatchStep, ObserveStep, CancelStep

(* What the workflows know of the journal stays true. *)
LEMMA KnownStep ==
    ASSUME TypeOK, RowInv, JournalInv, KnownInv, Keeps, [Next]_vars
    PROVE  KnownInv'
BY UnplacedStep, SeenStep, FinalStep, AckStep, EndedStep
DEF KnownInv, KnownInvAt, Unplaced

-----------------------------------------------------------------------------
(* Memory *)

(* The worker's record on a Studio is kept, loses a live process, or keeps *)
(* the one it has: no live process appears.                                *)
Settles(n) ==
    /\ worker[n].at = None => worker'[n].at = None
    /\ worker'[n].at = None => ~worker'[n].alive
    /\ worker'[n].alive => worker[n].alive /\ worker'[n].id = worker[n].id

(* A load starts the process of a job that waits for it. *)
Loads(n) ==
    \E j \in Jobs :
        /\ place[j] = n /\ (dw[j] = "load" \/ <<j, "load">> \in late)
        /\ worker[n].at = None
        /\ worker'[n].at = "starting" /\ worker'[n].id = unit[j]

(* refresh_ready makes no process. *)
LEMMA RefreshSettles ==
    ASSUME NodeTypes, MemoryInv, NEW m \in Nodes, Refresh(m), NEW n \in Nodes
    PROVE  Settles(n)
<1>1. /\ worker[m] \in WorkerRecord /\ worker[n] \in WorkerRecord
      /\ worker \in [Nodes -> WorkerRecord]
      /\ worker[n].at = None => ~worker[n].alive
  BY DEF NodeTypes, MemoryInv
<1>2. UNCHANGED worker \/ (worker[m].at = "starting"
                             /\ worker' = [worker EXCEPT ![m].at = "ready"])
  <2>1. CASE worker[m].at = "starting" /\ worker[m].alive
    BY <1>1, <2>1 DEF Refresh, WorkerRecord
  <2>2. CASE ~(worker[m].at = "starting" /\ worker[m].alive)
    <3>1. worker' = [worker EXCEPT ![m].at = worker[m].at]
      BY <2>2 DEF Refresh
    <3>2. worker' = worker
      BY <1>1, <3>1 DEF WorkerRecord
    <3> QED BY <3>2
  <2> QED BY <2>1, <2>2
<1>3. CASE UNCHANGED worker
  BY <1>1, <1>3 DEF Settles, Resident
<1>4. CASE worker[m].at = "starting" /\ worker' = [worker EXCEPT ![m].at = "ready"]
  <2>1. CASE n # m
    BY <1>1, <1>4, <2>1 DEF Settles, Resident
  <2>2. CASE n = m
    <3>1. worker'[n].at = "ready" /\ worker'[n].id = worker[n].id
          /\ worker'[n].alive = worker[n].alive
      BY <1>1, <1>4, <2>2 DEF WorkerRecord
    <3> QED BY <1>4, <2>2, <3>1 DEF Settles, Resident, None
  <2> QED BY <2>1, <2>2
<1> QED BY <1>2, <1>3, <1>4

(* Neither does a stop, proved or not, nor a death. *)
LEMMA StopSettles ==
    ASSUME NodeTypes, MemoryInv, NEW m \in Nodes, NEW n \in Nodes,
           \/ \E i : Stop(m, i) \/ StopUnproved(m, i)
           \/ WorkerDies(m)
    PROVE  Settles(n)
<1>1. /\ worker[m] \in WorkerRecord /\ worker \in [Nodes -> WorkerRecord]
      /\ worker[n].at = None => ~worker[n].alive
  BY DEF NodeTypes, MemoryInv
<1>2. \/ UNCHANGED worker
      \/ worker' = [worker EXCEPT ![m] = [@ EXCEPT !.id = 0, !.at = None,
                                                   !.alive = FALSE]]
      \/ worker' = [worker EXCEPT ![m].alive = FALSE]
  BY DEF Stop, StopUnproved, WorkerDies
<1>3. CASE UNCHANGED worker
  BY <1>1, <1>3 DEF Settles, Resident
<1>4. CASE worker' = [worker EXCEPT ![m] = [@ EXCEPT !.id = 0, !.at = None,
                                                     !.alive = FALSE]]
  <2>1. CASE n # m
    BY <1>1, <1>4, <2>1 DEF Settles, Resident
  <2>2. CASE n = m
    <3>1. worker'[n].at = None /\ ~worker'[n].alive
      BY <1>1, <1>4, <2>2 DEF WorkerRecord
    <3> QED BY <3>1 DEF Settles, Resident, None
  <2> QED BY <2>1, <2>2
<1>5. CASE worker' = [worker EXCEPT ![m].alive = FALSE]
  <2>1. CASE n # m
    BY <1>1, <1>5, <2>1 DEF Settles, Resident
  <2>2. CASE n = m
    <3>1. worker'[n].at = worker[n].at /\ ~worker'[n].alive
      BY <1>1, <1>5, <2>2 DEF WorkerRecord
    <3> QED BY <3>1 DEF Settles
  <2> QED BY <2>1, <2>2
<1> QED BY <1>2, <1>3, <1>4, <1>5

(* An agent that restarts takes back a live worker or not, and makes none. *)
LEMMA RestartSettles ==
    ASSUME NodeTypes, MemoryInv, NEW m \in Nodes, NEW n \in Nodes, AgentRestarts(m)
    PROVE  Settles(n)
<1>1. /\ worker[m] \in WorkerRecord /\ worker \in [Nodes -> WorkerRecord]
      /\ worker[n].at = None => ~worker[n].alive
  BY DEF NodeTypes, MemoryInv
<1>2. PICK lives \in BOOLEAN, adopted \in BOOLEAN :
          /\ lives => worker[m].alive
          /\ worker' = [worker EXCEPT
                ![m].at = IF @ = None THEN None
                          ELSE IF adopted THEN "starting" ELSE "orphan",
                ![m].alive = lives]
  BY DEF AgentRestarts
<1>3. CASE n # m
  BY <1>1, <1>2, <1>3 DEF Settles, Resident
<1>4. CASE n = m
  <2>1. /\ worker'[n].id = worker[n].id /\ worker'[n].alive = lives
        /\ worker'[n].at = IF worker[n].at = None THEN None
                           ELSE IF adopted THEN "starting" ELSE "orphan"
    BY <1>1, <1>2, <1>4 DEF WorkerRecord
  <2>2. worker[n].at \in {None, "starting", "ready", "orphan"}
    BY <1>1, <1>4 DEF WorkerRecord
  <2> QED BY <1>1, <1>2, <1>4, <2>1, <2>2 DEF Settles, Resident, None
<1> QED BY <1>3, <1>4

(* ImageProcessSupervisor.start either loads or leaves the record alone. *)
LEMMA LoadMoves ==
    ASSUME NodeTypes, MemoryInv, NEW j \in Jobs, CallTypes(j), NEW r, Load(j, r),
           dw[j] = "load" \/ <<j, "load">> \in late, NEW n \in Nodes
    PROVE  Settles(n) \/ Loads(n)
<1>1. /\ worker \in [Nodes -> WorkerRecord] /\ place[j] \in Nodes
      /\ worker[n].at = None => ~worker[n].alive
  BY DEF NodeTypes, MemoryInv, CallTypes
<1>2. CASE UNCHANGED worker
  BY <1>1, <1>2 DEF Settles, Resident
<1>3. CASE worker[place[j]].at = None /\
           worker' = [worker EXCEPT ![place[j]] =
                        [id |-> unit[j], pid |-> @.pid + 1,
                         at |-> "starting", alive |-> TRUE]]
  <2>1. CASE n # place[j]
    BY <1>1, <1>3, <2>1 DEF Settles, Resident
  <2>2. CASE n = place[j]
    <3>1. worker'[n].at = "starting" /\ worker'[n].id = unit[j]
      BY <1>1, <1>3, <2>2
    <3> QED BY <1>3, <2>2, <3>1 DEF Loads
  <2> QED BY <2>1, <2>2
<1> QED BY <1>2, <1>3 DEF Load

(* Every step leaves the worker's record settled, or is a load. *)
LEMMA WorkerMoves ==
    ASSUME TypeOK, JournalInv, KnownInv, MemoryInv, [Next]_vars, NEW n \in Nodes
    PROVE  Settles(n) \/ Loads(n)
<1>0. NodeTypes /\ (worker[n].at = None => ~worker[n].alive)
  BY TypeParts DEF MemoryInv
<1>1. ASSUME UNCHANGED worker PROVE Settles(n)
  BY <1>0, <1>1 DEF Settles, Resident
<1>2. ASSUME NEW j \in Jobs, SendLoad(j) PROVE Settles(n) \/ Loads(n)
  <2>1. dw[j] = "load" /\ \E r : Load(j, r)
    BY <1>2 DEF SendLoad
  <2>2. CallTypes(j)
    BY <2>1, CallersPlaced DEF None
  <2> QED BY <1>0, <2>1, <2>2, LoadMoves
<1>3. ASSUME NEW j \in Jobs, NEW op, LateCall(j, op) PROVE Settles(n) \/ Loads(n)
  <2>1. <<j, op>> \in late /\ CallTypes(j)
    BY <1>3, CallersPlaced DEF LateCall
  <2>2. CASE op = "load" /\ \E r : Load(j, r)
    BY <1>0, <2>1, <2>2, LoadMoves
  <2>3. CASE \E r : Start(j, r)
    <3>1. UNCHANGED worker \/ Refresh(place[j])
      BY <2>3 DEF Start
    <3> QED BY <1>0, <1>1, <2>1, <3>1, RefreshSettles DEF CallTypes
  <2>4. CASE UNCHANGED worker
    BY <1>1, <2>4
  <2> QED BY <1>3, <2>2, <2>3, <2>4 DEF LateCall, Reserve, BeginTransfer, node, process
<1>4. ASSUME NEW j \in Jobs, Warm(j) \/ SendStart(j) PROVE Settles(n)
  <2>1. UNCHANGED worker \/ Refresh(place[j])
    BY <1>4 DEF Warm, SendStart, Start
  <2>2. CallTypes(j)
    BY <1>4, CallersPlaced DEF Warm, SendStart, None
  <2> QED BY <1>0, <1>1, <2>1, <2>2, RefreshSettles DEF CallTypes
<1>5. ASSUME NEW j \in Jobs, SendCancel(j) PROVE Settles(n)
  <2>1. \/ UNCHANGED worker
        \/ /\ journal[j] \in {"reserving", "running", "transferring", "cancelling"}
           /\ \E i : Stop(place[j], i) \/ StopUnproved(place[j], i)
    BY <1>5 DEF SendCancel, Cancel, CancelUnproved, Confirmed, process
  <2>2. journal[j] # None => place[j] \in Nodes
    BY DEF JournalInv, JournalInvAt
  <2> QED BY <1>0, <1>1, <2>1, <2>2, StopSettles DEF None
<1>6. ASSUME NEW m \in Nodes, SendUnload(m) \/ WorkerDies(m) PROVE Settles(n)
  <2>1. \/ UNCHANGED worker \/ WorkerDies(m)
        \/ \E i : Stop(m, i) \/ StopUnproved(m, i)
    BY <1>6 DEF SendUnload, process
  <2> QED BY <1>0, <1>1, <2>1, StopSettles
<1>7. ASSUME NEW m \in Nodes, AgentRestarts(m) PROVE Settles(n)
  BY <1>0, <1>7, RestartSettles
<1>8. ASSUME NEW j \in Jobs,
             \/ Admit(j) \/ RequestCancel(j) \/ Expire(j) \/ Age(j)
             \/ \E what \in {"access", "model"} : Withdraw(j, what)
             \/ \E m \in Nodes : Place(j, m)
             \/ StartDispatch(j) \/ Prepare(j) \/ SendReserve(j) \/ RecordReady(j)
      PROVE  UNCHANGED worker
  BY <1>8 DEF Admit, RequestCancel, Expire, Age, Withdraw, Place, StartDispatch,
      Prepare, SendReserve, Reserve, RecordReady, node, process
<1>9. ASSUME NEW j \in Jobs, ObserveStep(j) \/ TransferStep(j) \/ PublishStep(j)
      PROVE  UNCHANGED worker
  BY <1>9 DEF ObserveStep, StartObserve, CheckAttempt, Observe, Status, Apply,
      TransferStep, StartTransfer, CheckTransfer, AskTransfer, SendTransfer,
      BeginTransfer, Acknowledge, PublishStep, Publish, RefusePublication, node,
      process
<1>10. ASSUME NEW j \in Jobs,
              \/ StartCancel(j) \/ FinalizeCancel(j) \/ HandlerStep(j)
              \/ Finish(j) \/ LoseCall(j)
       PROVE  UNCHANGED worker
  BY <1>10 DEF StartCancel, FinalizeCancel, HandlerStep, Receive, KeepReceipts,
      Unlink, Sweep, Finish, LoseCall, node, process
<1>11. ASSUME NEW m \in Nodes, PrepareUnload(m) \/ ConfirmUnload(m)
       PROVE  UNCHANGED worker
  BY <1>11 DEF PrepareUnload, ConfirmUnload, node, process
<1>12. CASE UNCHANGED vars
  BY <1>1, <1>12 DEF vars, process
<1> QED
  BY <1>1, <1>2, <1>3, <1>4, <1>5, <1>6, <1>7, <1>8, <1>9, <1>10, <1>11, <1>12
  DEF Next, DispatchStep, CancelStep, UnloadStep

(* Who needs the instance on the job's Studio. *)
Needs(j) == lease[j] \/ dw[j] \in {"reserve", "load"} \/ <<j, "load">> \in late

(* The instance of a Studio in core is kept, created for a job that is     *)
(* placed, found ready, drained once nobody needs it, or dropped when its  *)
(* worker is known to be gone.                                             *)
InstMove(n) ==
    \/ inst'[n] = inst[n]
    \/ /\ inst[n].at = None /\ inst'[n].at = "launching"
       /\ UNCHANGED <<worker, uw>>
    \/ /\ inst[n].at \in {"launching", "ready"} /\ inst'[n].at = "ready"
       /\ inst'[n].id = inst[n].id
    \/ /\ inst[n].at # None /\ inst'[n].at = "draining" /\ inst'[n].id = inst[n].id
       /\ UNCHANGED worker
       /\ \A k \in Jobs : place[k] = n => ~Needs(k)'
    \/ /\ uw[n] = "confirm" /\ UNCHANGED worker /\ inst[n].at = "draining"
       /\ uw'[n] = "idle" /\ inst'[n].at = None

(* How far the unload of a Studio's worker gets in one step. *)
UnloadMove(n) ==
    \/ uw'[n] = "idle" /\ uw[n] = "confirm"
    \/ uw'[n] = "idle" /\ inst'[n] = inst[n]
    \/ uw'[n] = "stop" /\ inst'[n].at = "draining"
    \/ uw'[n] = "confirm" /\ uw[n] = "stop" /\ worker'[n].at = None /\ inst'[n] = inst[n]
    \/ uw'[n] = uw[n]

(* Every step moves instances and unloads in these ways. *)
LEMMA InstMoves ==
    ASSUME TypeOK, RowInv, KnownInv, MemoryInv, [Next]_vars, NEW n \in Nodes
    PROVE  InstMove(n) /\ UnloadMove(n)
<1>0. /\ CoreTypes /\ FlowTypes /\ NodeTypes /\ RowTypes /\ n # None
      /\ inst \in [Nodes -> [id : 0..MaxUnits,
                             at : {None, "launching", "ready", "draining"}]]
  BY TypeParts, NameAssumption DEF CoreTypes
<1>1. ASSUME UNCHANGED <<inst, uw>> PROVE InstMove(n) /\ UnloadMove(n)
  BY <1>1 DEF InstMove, UnloadMove
<1>2. ASSUME NEW j \in Jobs, NEW m \in Nodes, Place(j, m)
      PROVE  InstMove(n) /\ UnloadMove(n)
  <2>1. UNCHANGED <<worker, uw>>
    BY <1>2 DEF Place, node, process
  <2>2. \/ UNCHANGED inst
        \/ /\ inst[m].at = None
           /\ inst' = [inst EXCEPT ![m] = [id |-> @.id + 1, at |-> "launching"]]
    BY <1>2 DEF Place
  <2>3. CASE UNCHANGED inst
    BY <1>1, <2>1, <2>3
  <2>4. CASE /\ inst[m].at = None
             /\ inst' = [inst EXCEPT ![m] = [id |-> @.id + 1, at |-> "launching"]]
    <3>1. CASE n = m
      <4>1. inst'[n].at = "launching"
        BY <1>0, <2>4, <3>1
      <4> QED BY <2>1, <2>4, <3>1, <4>1 DEF InstMove, UnloadMove
    <3>2. CASE n # m
      <4>1. inst'[n] = inst[n]
        BY <1>0, <2>4, <3>2
      <4> QED BY <2>1, <4>1 DEF InstMove, UnloadMove
    <3> QED BY <3>1, <3>2
  <2> QED BY <2>2, <2>3, <2>4
<1>3. ASSUME NEW j \in Jobs, RecordReady(j) PROVE InstMove(n) /\ UnloadMove(n)
  <2>1. place[j] \in Nodes /\ UNCHANGED <<uw>>
    BY <1>3, CallersPlaced DEF RecordReady, None, CallTypes
  <2>2. \/ UNCHANGED inst
        \/ /\ inst[place[j]].at \in {"launching", "ready"}
           /\ inst' = [inst EXCEPT ![place[j]].at = "ready"]
    BY <1>3 DEF RecordReady
  <2>3. CASE UNCHANGED inst
    BY <1>1, <2>1, <2>3
  <2>4. CASE /\ inst[place[j]].at \in {"launching", "ready"}
             /\ inst' = [inst EXCEPT ![place[j]].at = "ready"]
    <3>1. \/ inst'[n] = inst[n]
          \/ /\ inst[n].at \in {"launching", "ready"} /\ inst'[n].at = "ready"
             /\ inst'[n].id = inst[n].id
      BY <1>0, <2>1, <2>4
    <3> QED BY <2>1, <3>1 DEF InstMove, UnloadMove
  <2> QED BY <2>2, <2>3, <2>4
<1>4. ASSUME NEW m \in Nodes, PrepareUnload(m) PROVE InstMove(n) /\ UnloadMove(n)
  <2>1. /\ inst[m].at # None /\ inst' = [inst EXCEPT ![m].at = "draining"]
        /\ uw' = [uw EXCEPT ![m] = "stop"]
        /\ UNCHANGED <<lease, dw, late, worker, place>>
    BY <1>4 DEF PrepareUnload, To, row, node, process
  <2>2. CASE n # m
    <3>1. inst'[n] = inst[n] /\ uw'[n] = uw[n]
      BY <1>0, <2>1, <2>2 DEF FlowTypes
    <3> QED BY <3>1 DEF InstMove, UnloadMove
  <2>3. CASE n = m
    <3>1. inst'[n].at = "draining" /\ inst'[n].id = inst[n].id /\ uw'[n] = "stop"
      BY <1>0, <2>1, <2>3 DEF FlowTypes
    <3>2. ASSUME NEW k \in Jobs, place[k] = n PROVE ~Needs(k)'
      <4>1. ~lease[k] /\ dw[k] \notin {"reserve", "load"}
        BY <1>4, <2>3, <3>2 DEF PrepareUnload
      <4>2. <<k, "load">> \notin late
        BY <1>4, <2>3, <3>2 DEF PrepareUnload
      <4> QED BY <2>1, <4>1, <4>2 DEF Needs
    <3> QED BY <2>1, <2>3, <3>1, <3>2 DEF InstMove, UnloadMove
  <2> QED BY <2>2, <2>3
<1>5. ASSUME NEW m \in Nodes, SendUnload(m) PROVE InstMove(n) /\ UnloadMove(n)
  <2>1. UNCHANGED inst /\ uw[m] = "stop"
    BY <1>5 DEF SendUnload
  <2>2. CASE Stop(m, inst[m].id) /\ uw' = [uw EXCEPT ![m] = "confirm"]
    <3>1. CASE n = m
      <4>1. worker'[n].at = None
        BY <1>0, <2>2, <3>1 DEF Stop, NodeTypes, WorkerRecord
      <4>2. uw'[n] = "confirm"
        BY <1>0, <2>2, <3>1 DEF FlowTypes
      <4> QED BY <2>1, <3>1, <4>1, <4>2 DEF InstMove, UnloadMove
    <3>2. CASE n # m
      BY <1>0, <2>1, <2>2, <3>2 DEF FlowTypes, InstMove, UnloadMove
    <3> QED BY <3>1, <3>2
  <2>3. CASE uw' = [uw EXCEPT ![m] = "idle"]
    BY <1>0, <2>1, <2>3 DEF FlowTypes, InstMove, UnloadMove
  <2> QED BY <1>5, <2>2, <2>3 DEF SendUnload, To
<1>6. ASSUME NEW m \in Nodes, ConfirmUnload(m) PROVE InstMove(n) /\ UnloadMove(n)
  <2>1. /\ uw[m] = "confirm" /\ uw' = [uw EXCEPT ![m] = "idle"] /\ UNCHANGED worker
        /\ inst[m].at = "draining" /\ inst' = [inst EXCEPT ![m].at = None]
    BY <1>6 DEF ConfirmUnload, To, MemoryInv, node, process
  <2>2. CASE n # m
    BY <1>0, <2>1, <2>2 DEF FlowTypes, InstMove, UnloadMove
  <2>3. CASE n = m
    <3>1. inst'[n].at = None /\ uw'[n] = "idle"
      BY <1>0, <2>1, <2>3 DEF FlowTypes
    <3> QED BY <2>1, <2>3, <3>1 DEF InstMove, UnloadMove
  <2> QED BY <2>2, <2>3
<1>7. ASSUME NEW j \in Jobs,
             \/ Admit(j) \/ RequestCancel(j) \/ Expire(j) \/ Age(j)
             \/ \E what \in {"access", "model"} : Withdraw(j, what)
             \/ StartDispatch(j) \/ Prepare(j) \/ SendReserve(j) \/ SendLoad(j)
             \/ Warm(j) \/ SendStart(j) \/ ObserveStep(j)
      PROVE  UNCHANGED <<inst, uw>>
  BY <1>7 DEF Admit, RequestCancel, Expire, Age, Withdraw, StartDispatch,
      Prepare, SendReserve, SendLoad, Warm, SendStart, ObserveStep, StartObserve,
      CheckAttempt, Observe, Apply, flows
<1>8. ASSUME NEW j \in Jobs,
             \/ TransferStep(j) \/ PublishStep(j) \/ CancelStep(j) \/ HandlerStep(j)
             \/ Finish(j) \/ LoseCall(j) \/ \E op : LateCall(j, op)
      PROVE  UNCHANGED <<inst, uw>>
  BY <1>8 DEF TransferStep, StartTransfer, CheckTransfer, AskTransfer, SendTransfer,
      Acknowledge, PublishStep, Publish, RefusePublication, CancelStep, StartCancel,
      SendCancel, FinalizeCancel, HandlerStep, Receive, KeepReceipts, Unlink, Sweep,
      Finish, LoseCall, LateCall, flows
<1>9. ASSUME NEW m \in Nodes, WorkerDies(m) \/ AgentRestarts(m)
      PROVE  UNCHANGED <<inst, uw>>
  BY <1>9 DEF WorkerDies, AgentRestarts, flows
<1>10. CASE UNCHANGED vars
  BY <1>1, <1>10 DEF vars, flows
<1> QED
  BY <1>1, <1>2, <1>3, <1>4, <1>5, <1>6, <1>7, <1>8, <1>9, <1>10
  DEF Next, DispatchStep, UnloadStep

(* Only placement lets a job need an instance: whoever needs one after any *)
(* other step needed it before, under the same placement.                  *)
LEMMA NeedsMoves ==
    ASSUME TypeOK, RowInv, [Next]_vars, NEW k \in Jobs, Needs(k)'
    PROVE  \/ \E n \in Nodes : Place(k, n)
           \/ Needs(k) /\ place'[k] = place[k] /\ unit'[k] = unit[k]
<1> DEFINE Same == Needs(k) /\ place'[k] = place[k] /\ unit'[k] = unit[k]
<1>0. /\ RowTypes /\ FlowTypes /\ CoreTypes
      /\ \A j \in Jobs : state[j] \in Placed => lease[j]
  BY TypeParts DEF RowInv, RowInvAt
<1>1. ASSUME UNCHANGED <<place, unit, lease, dw, late>> PROVE Same
  BY <1>1 DEF Needs
<1>2. ASSUME NEW j \in Jobs, NEW n \in Nodes, Place(j, n), j # k PROVE Same
  <2>1. /\ place'[k] = place[k] /\ unit'[k] = unit[k] /\ lease'[k] = lease[k]
        /\ dw'[k] = dw[k] /\ UNCHANGED late
    BY <1>0, <1>2 DEF Place, To, RowTypes, CoreTypes, FlowTypes
  <2> QED BY <2>1 DEF Needs
<1>3. ASSUME NEW j \in Jobs, DispatchStep(j) PROVE Same
  <2>1. UNCHANGED <<place, unit, lease, late>>
    BY <1>3 DEF DispatchStep, StartDispatch, Prepare, EndQueued, Fence, SendReserve,
        SendLoad, Warm, RecordReady, SendStart, row
  <2>2. CASE dw'[k] = dw[k]
    BY <2>1, <2>2 DEF Needs
  <2>3. CASE j = k
    <3>1. CASE Prepare(j)
      <4>1. dw'[k] # "load" /\ (dw'[k] = "reserve" => state[j] \in Placed)
        BY <1>0, <2>3, <3>1 DEF Prepare, To, FlowTypes, Placed
      <4> QED BY <1>0, <2>1, <2>3, <4>1 DEF Needs
    <3>2. CASE SendReserve(j) \/ SendLoad(j)
      <4>1. dw[k] \in {"reserve", "load"}
        BY <2>3, <3>2 DEF SendReserve, SendLoad
      <4> QED BY <2>1, <4>1 DEF Needs
    <3>3. CASE StartDispatch(j) \/ Warm(j) \/ RecordReady(j) \/ SendStart(j)
      <4>1. dw'[k] \notin {"reserve", "load"}
        BY <1>0, <2>3, <3>3 DEF StartDispatch, Warm, RecordReady, SendStart, To, FlowTypes
      <4> QED BY <2>1, <4>1 DEF Needs
    <3> QED BY <1>3, <3>1, <3>2, <3>3 DEF DispatchStep
  <2>4. CASE j # k
    <3>1. dw'[k] = dw[k]
      BY <1>0, <1>3, <2>4 DEF DispatchStep, StartDispatch, Prepare, SendReserve,
          SendLoad, Warm, RecordReady, SendStart, To, FlowTypes
    <3> QED BY <2>2, <3>1
  <2> QED BY <2>3, <2>4
<1>4. ASSUME NEW j \in Jobs,
             \/ RequestCancel(j) \/ Expire(j) \/ CheckAttempt(j) \/ Apply(j)
             \/ PublishStep(j) \/ FinalizeCancel(j)
      PROVE  Same
  <2>1. /\ UNCHANGED <<place, unit, dw, late>>
        /\ UNCHANGED lease \/ lease' = [lease EXCEPT ![j] = FALSE]
    BY <1>4 DEF RequestCancel, Expire, CheckAttempt, Apply, PublishStep, Publish,
        RefusePublication, FinalizeCancel, EndQueued, EndPlaced, Fence, flows, row
  <2>2. lease'[k] => lease[k]
    BY <1>0, <2>1 DEF RowTypes
  <2> QED BY <2>1, <2>2 DEF Needs
<1>5. ASSUME NEW j \in Jobs, LoseCall(j) PROVE Same
  <2>1. UNCHANGED <<place, unit, lease>>
    BY <1>5 DEF LoseCall, row
  <2>2. dw'[k] = dw[k] \/ dw'[k] = "go"
    BY <1>0, <1>5 DEF LoseCall, To, FlowTypes
  <2>3. <<k, "load">> \in late' => <<k, "load">> \in late \/ dw[k] = "load"
    BY <1>5 DEF LoseCall
  <2> QED BY <2>1, <2>2, <2>3 DEF Needs
<1>6. ASSUME NEW j \in Jobs, NEW op, LateCall(j, op) PROVE Same
  BY <1>6 DEF LateCall, Needs, row, flows
<1>7. ASSUME NEW j \in Jobs,
             \/ Admit(j) \/ Age(j) \/ \E what \in {"access", "model"} : Withdraw(j, what)
             \/ StartObserve(j) \/ Observe(j) \/ TransferStep(j)
      PROVE  UNCHANGED <<place, unit, lease, dw, late>>
  BY <1>7 DEF Admit, Age, Withdraw, StartObserve, Observe, TransferStep,
      StartTransfer, CheckTransfer, AskTransfer, SendTransfer, Acknowledge, flows, row
<1>8. ASSUME NEW j \in Jobs,
             StartCancel(j) \/ SendCancel(j) \/ HandlerStep(j) \/ Finish(j)
      PROVE  UNCHANGED <<place, unit, lease, dw, late>>
  BY <1>8 DEF StartCancel, SendCancel, HandlerStep, Receive, KeepReceipts, Unlink,
      Sweep, Finish, flows, row
<1>9. ASSUME NEW n \in Nodes, UnloadStep(n) \/ WorkerDies(n) \/ AgentRestarts(n)
      PROVE  UNCHANGED <<place, unit, lease, dw, late>>
  BY <1>9 DEF UnloadStep, PrepareUnload, SendUnload, ConfirmUnload, WorkerDies,
      AgentRestarts, flows, row
<1>10. CASE UNCHANGED vars
  <2>1. Same
    BY <1>1, <1>10 DEF vars, flows, row
  <2> QED BY <2>1
<1> HIDE DEF Same
<1>11. Same \/ \E n \in Nodes : Place(k, n)
  BY <1>1, <1>2, <1>3, <1>4, <1>5, <1>6, <1>7, <1>8, <1>9, <1>10
  DEF Next, ObserveStep, CancelStep, vars, flows, row
<1> QED BY <1>11 DEF Same

(* Memory stays held: whoever may still start a worker has its instance in *)
(* core, and a live worker keeps it until its stop is proved.              *)
LEMMA MemoryStep ==
    ASSUME TypeOK, RowInv, JournalInv, KnownInv, MemoryInv, [Next]_vars
    PROVE  MemoryInv'
<1> USE NameAssumption
<1>0. /\ CoreTypes /\ FlowTypes /\ NodeTypes /\ RowTypes
      /\ \A j \in Jobs : Needs(j) => Serving(j)
      /\ \A n \in Nodes : uw[n] # "idle" => inst[n].at = "draining"
      /\ \A n \in Nodes : uw[n] = "confirm" => worker[n].at = None
  BY TypeParts DEF MemoryInv, Needs
<1>1. ASSUME NEW k \in Jobs, Needs(k)' PROVE Serving(k)'
  <2>1. ASSUME NEW n \in Nodes, Place(k, n) PROVE Serving(k)'
    <3>1. place'[k] = n /\ unit'[k] = inst'[n].id
      BY <1>0, <2>1 DEF Place, RowTypes, CoreTypes
    <3>2. inst'[n].at \in {"launching", "ready"}
      <4>1. CASE inst[n].at # None
        BY <1>0, <2>1, <4>1 DEF Place, Free, CoreTypes
      <4>2. CASE inst[n].at = None
        BY <1>0, <2>1, <4>2 DEF Place, CoreTypes
      <4> QED BY <4>1, <4>2
    <3> QED BY <3>1, <3>2 DEF Serving
  <2>2. ASSUME Needs(k), place'[k] = place[k], unit'[k] = unit[k] PROVE Serving(k)'
    <3>1. Serving(k) /\ InstMove(place[k])
      BY <1>0, <2>2, InstMoves DEF Serving
    <3>2. uw[place[k]] = "idle"
      BY <1>0, <3>1 DEF Serving
    <3> QED BY <1>1, <2>2, <3>1, <3>2 DEF Serving, InstMove, None
  <2> QED BY <1>1, <2>1, <2>2, NeedsMoves
<1>2. ASSUME NEW n \in Nodes
      PROVE  /\ uw'[n] # "idle" => inst'[n].at = "draining"
             /\ uw'[n] = "confirm" => worker'[n].at = None
             /\ worker'[n].at = None => ~worker'[n].alive
             /\ worker'[n].alive =>
                   inst'[n].id = worker'[n].id /\ inst'[n].at # None
  <2>1. InstMove(n) /\ UnloadMove(n) /\ (Settles(n) \/ Loads(n))
    BY InstMoves, WorkerMoves
  <2>2. Loads(n) => /\ inst[n].id = worker'[n].id
                    /\ inst[n].at \in {"launching", "ready"}
    BY <1>0 DEF Loads, Needs, Serving
  <2>3. uw'[n] # "idle" => inst'[n].at = "draining"
    BY <1>0, <2>1 DEF InstMove, UnloadMove, None
  <2>4. uw'[n] = "confirm" => worker'[n].at = None
    <3>1. CASE uw[n] # "confirm"
      BY <2>1, <3>1 DEF UnloadMove
    <3>2. CASE uw[n] = "confirm"
      <4>1. ~Loads(n)
        BY <1>0, <2>2, <3>2
      <4> QED BY <1>0, <2>1, <3>2, <4>1 DEF Settles
    <3> QED BY <3>1, <3>2
  <2>5. worker'[n].at = None => ~worker'[n].alive
    BY <2>1 DEF Settles, Loads, None
  <2>6. ASSUME worker'[n].alive
        PROVE  inst'[n].id = worker'[n].id /\ inst'[n].at # None
    <3>1. inst[n].id = worker'[n].id /\ inst[n].at # None
      BY <2>1, <2>2, <2>6 DEF Settles, MemoryInv, MemoryIsHeld, None
    <3>2. ~(uw[n] = "confirm" /\ UNCHANGED worker)
      BY <1>0, <2>6 DEF MemoryInv
    <3> QED BY <2>1, <3>1, <3>2 DEF InstMove, None
  <2> QED BY <2>3, <2>4, <2>5, <2>6
<1> QED BY <1>1, <1>2 DEF MemoryInv, Needs, MemoryIsHeld

-----------------------------------------------------------------------------
(* The theorems *)

(* The counts of a balanced quota row are whole numbers. *)
LEMMA QuotaType ==
    ASSUME QuotaBalances
    PROVE  QuotaTypes
<1>1. ASSUME NEW S PROVE Cardinality(Census(S)) \in Nat
  <2>1. IsFiniteSet(Census(S))
    BY ImageJobsAssumption, FS_Subset DEF Census
  <2> QED BY <2>1, FS_CardinalityType
<1> QED BY <1>1, QuotaAsCensus DEF QuotaTypes

(* Before anything has been submitted, the invariant holds. *)
LEMMA ImageInit ==
    ASSUME Init
    PROVE  ImageInv
<1> USE NameAssumption, OutputsType, UnitsType DEF Init
<1>1. QuotaBalances
  <2>1. ASSUME NEW S, None \notin S PROVE Cardinality(Census(S)) = 0
    <3>1. Census(S) = {}
      BY <2>1 DEF Census
    <3> QED BY <3>1, FS_EmptySet
  <2> QED BY <2>1, QuotaAsCensus DEF None, Terminal
<1>2. RowTypes /\ FlowTypes
  BY DEF RowTypes, FlowTypes, States
<1>3. CoreTypes
  BY DEF CoreTypes, NoInst
<1>4. NodeTypes
  <2>1. NoWorker \in WorkerRecord
    BY DEF NoWorker, WorkerRecord
  <2>2. worker \in [Nodes -> WorkerRecord]
    BY <2>1
  <2>3. push \in [Nodes -> [job : Jobs \cup {None}, sent : 0..Outputs]]
    BY DEF Idle
  <2> QED BY <2>2, <2>3 DEF NodeTypes, States
<1>5. TypeOK
  BY <1>1, <1>2, <1>3, <1>4, QuotaType, TypeParts
<1>6. RowInv /\ KnownInv
  BY DEF RowInv, RowInvAt, KnownInv, KnownInvAt, Placed, None, Terminal
<1>7. JournalInv
  BY DEF JournalInv, JournalInvAt, None, Terminal, Idle
<1>8. MemoryInv
  BY DEF MemoryInv, MemoryIsHeld, Resident, NoInst, NoWorker, None
<1> QED BY <1>1, <1>5, <1>6, <1>7, <1>8 DEF ImageInv

(* Every step of the API, of a workflow, of a node, of a worker, and every *)
(* fault keeps it.                                                         *)
LEMMA ImageStep ==
    ASSUME ImageInv, [Next]_vars
    PROVE  ImageInv'
<1>1. RowTypes /\ RowMove
  BY RowMoves, TypeParts DEF ImageInv
<1>2. RowTypes' /\ RowInv' /\ QuotaBalances'
  BY <1>1, RowMoveTypes, RowMoveInv, RowMoveQuota DEF ImageInv
<1>3. NodeTypes' /\ JournalInv' /\ Keeps
  BY NodeStep DEF ImageInv
<1>4. FlowTypes' /\ CoreTypes'
  BY FlowStep, CoreStep DEF ImageInv
<1>5. QuotaTypes'
  <2>1. ASSUME NEW S PROVE Cardinality(Census(S)') \in Nat
    <3>1. IsFiniteSet(Census(S)')
      BY ImageJobsAssumption, FS_Subset DEF Census
    <3> QED BY <3>1, FS_CardinalityType
  <2> QED BY <1>2, <2>1, QuotaAsCensus DEF QuotaTypes
<1>6. TypeOK'
  BY <1>2, <1>3, <1>4, <1>5
  DEF TypeOK, RowTypes, NodeTypes, CoreTypes, FlowTypes, QuotaTypes, WorkerRecord
<1>7. KnownInv' /\ MemoryInv'
  BY <1>3, KnownStep, MemoryStep DEF ImageInv
<1> QED BY <1>2, <1>3, <1>6, <1>7 DEF ImageInv

(* The invariant holds in every reachable state. *)
THEOREM Invariance == Spec => []ImageInv
<1>1. Init => ImageInv
  BY ImageInit
<1>2. ImageInv /\ [Next]_vars => ImageInv'
  BY ImageStep
<1> QED BY <1>1, <1>2, PTL DEF Spec

(* Every variable of core, of the workflows and of the Studios keeps its   *)
(* type.                                                                   *)
THEOREM Typing == Spec => []TypeOK
<1>1. ImageInv => TypeOK
  BY DEF ImageInv
<1> QED BY <1>1, Invariance, PTL

(* The quota row agrees with the jobs at every commit.  Counting needs the *)
(* lease and place columns: a hold is returned by whoever ends the job,    *)
(* and only one of the racing transactions does.                           *)
THEOREM QuotaSafety == Spec => []QuotaBalances
<1>1. ImageInv => QuotaBalances
  BY DEF ImageInv
<1> QED BY <1>1, Invariance, PTL

(* A Studio generates, stores or pushes for a job only under the job's     *)
(* unreleased lease: work means a journal that is not clean, core ends a   *)
(* job only when its journal is, and a job that has not ended holds its    *)
(* lease from placement on.                                                *)
THEOREM LeaseSafety == Spec => []WorkUnderLease
<1>1. ASSUME ImageInv PROVE WorkUnderLease
  <2> SUFFICES ASSUME NEW j \in Jobs, work[j] = "running" \/ scratch[j] \/ Pushing(j)
               PROVE  lease[j]
    BY DEF WorkUnderLease
  <2>1. /\ RowInvAt(j) /\ JournalInvAt(j) /\ KnownInvAt(j)
        /\ state[j] \in States /\ place[j] \in Nodes \cup {None}
    BY <1>1 DEF ImageInv, RowInv, JournalInv, KnownInv, TypeOK
  <2>2. place[j] \in Nodes /\ ~clean[j]
    <3>1. CASE work[j] = "running"
      BY <2>1, <3>1 DEF JournalInvAt, Terminal, None
    <3>2. CASE scratch[j]
      BY <2>1, <3>2 DEF JournalInvAt
    <3>3. CASE Pushing(j)
      BY <2>1, <3>3, NameAssumption DEF Pushing, JournalInvAt, Terminal
    <3> QED BY <3>1, <3>2, <3>3
  <2>3. state[j] \in Placed
    BY <2>1, <2>2, NameAssumption DEF RowInvAt, KnownInvAt, States, Placed
  <2> QED BY <2>1, <2>3 DEF RowInvAt
<1> QED BY <1>1, Invariance, PTL

(* A job that failed or was cancelled leaves no image on core and neither  *)
(* images nor work on a Studio.                                            *)
THEOREM EndedSafety == Spec => []EndedLeavesNothing
<1>1. ASSUME ImageInv PROVE EndedLeavesNothing
  <2> SUFFICES ASSUME NEW j \in Jobs, state[j] \in {"failed", "cancelled"}
               PROVE  got[j] = 0 /\ ~public[j] /\ ~scratch[j] /\ work[j] # "running"
    BY DEF EndedLeavesNothing
  <2>1. RowInvAt(j) /\ JournalInvAt(j) /\ KnownInvAt(j) /\ place[j] \in Nodes \cup {None}
    BY <1>1 DEF ImageInv, RowInv, JournalInv, KnownInv, TypeOK
  <2>2. got[j] = 0 /\ ~public[j]
    BY <2>1 DEF RowInvAt
  <2>3. clean[j] \/ journal[j] = None
    BY <2>1, NameAssumption DEF KnownInvAt, JournalInvAt, Terminal
  <2> QED BY <2>1, <2>2, <2>3 DEF JournalInvAt, Terminal, None
<1> QED BY <1>1, Invariance, PTL

(* A worker process that lives has its memory held in core: nobody is      *)
(* given the memory before the stop of the worker is proved.               *)
THEOREM MemorySafety == Spec => []MemoryIsHeld
<1>1. ImageInv => MemoryIsHeld
  BY DEF ImageInv, MemoryInv
<1> QED BY <1>1, Invariance, PTL

(* Workflows, journals and workers together implement ImageService: every  *)
(* step is a step of the service or leaves what users see as it was.       *)
THEOREM Refinement == Spec => Refines
<1>1. Init => Service!Init
  BY ServiceInit
<1>2. ImageInv /\ [Next]_vars => [Service!Next]_Service!vars
  BY RowMoves, RowMoveService, TypeParts DEF ImageInv
<1> QED BY <1>1, <1>2, Invariance, PTL DEF Spec, Refines, Service!Spec

=============================================================================
