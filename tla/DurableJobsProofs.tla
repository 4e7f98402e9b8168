------------------------- MODULE DurableJobsProofs -------------------------
(***************************************************************************)
(* Durable jobs for any number of jobs, workers, supervisors and crashes:  *)
(* every step is a transaction of the table or leaves it alone, so the     *)
(* table's theorems carry over; each job keeps the promise of AbstractJob; *)
(* and, when supervisors exclude one another and a live process is never   *)
(* taken for dead, a job has at most one owner.                            *)
(***************************************************************************)
EXTENDS DurableJobs, TLAPS

-----------------------------------------------------------------------------
(***************************************************************************)
(* The job table under arbitrary callers: for any jobs, workers and        *)
(* statuses, no sequence of transactions breaks a row or reopens a         *)
(* finished job.                                                           *)
(***************************************************************************)

\* A status becomes a terminal state, and never the cancelled one.
LEMMA TerminalStateRange ==
    ASSUME NEW status
    PROVE  TerminalState(status) \in TerminalStates \ {"cancelled"}
  BY DEF TerminalState, TerminalStates

\* An UPDATE writes values of the columns' types.
LEMMA UpdatedRowsTyped ==
    ASSUME NEW r \in Row
    PROVE  /\ \A w \in Workers : ClaimedRow(r, w) \in Row
           /\ \A s \in Statuses : CompletedRow(r, s) \in Row
           /\ FailedRow(r) \in Row
           /\ ExpiredRow(r) \in Row
           /\ CancelledRow(r) \in Row
           /\ RequeuedRow(r) \in Row
  BY TerminalStateRange
     DEF Row, ClaimedRow, CompletedRow, FailedRow, ExpiredRow, CancelledRow,
         RequeuedRow, OpenStates, TerminalStates

\* Each UPDATE, applied to a row its WHERE clause selects, keeps the columns
\* consistent with one another.
LEMMA UpdatedRowsConsistent ==
    ASSUME NEW r \in Row, RowConsistent(r)
    PROVE  /\ r.state = "pending" => \A w \in Workers : RowConsistent(ClaimedRow(r, w))
           /\ r.state = "running" =>
                \A s \in Statuses : RowConsistent(CompletedRow(r, s))
           /\ r.state \in OpenStates => RowConsistent(FailedRow(r))
           /\ r.state \in OpenStates => RowConsistent(ExpiredRow(r))
           /\ r.state \in OpenStates => RowConsistent(CancelledRow(r))
           /\ r.state = "running" => RowConsistent(RequeuedRow(r))
  <1> USE StoreAssumption DEF Row, RowConsistent, OpenStates, TerminalStates
  <1>1. ASSUME NEW w \in Workers
        PROVE  r.state = "pending" => RowConsistent(ClaimedRow(r, w))
    BY DEF ClaimedRow
  <1>2. ASSUME NEW s \in Statuses
        PROVE  r.state = "running" => RowConsistent(CompletedRow(r, s))
    BY TerminalStateRange DEF CompletedRow
  <1>3. r.state \in OpenStates => RowConsistent(FailedRow(r))
    BY DEF FailedRow
  <1>4. r.state \in OpenStates => RowConsistent(ExpiredRow(r))
    BY DEF ExpiredRow
  <1>5. r.state \in OpenStates => RowConsistent(CancelledRow(r))
    BY DEF CancelledRow
  <1>6. r.state = "running" => RowConsistent(RequeuedRow(r))
    BY DEF RequeuedRow
  <1>7. QED
    BY <1>1, <1>2, <1>3, <1>4, <1>5, <1>6

\* What one transaction does: it leaves the table alone, or replaces one row
\* that is not finished by a consistent row.
LEMMA TransactionEffect ==
    ASSUME StoreTypeOK, RowsConsistent, [StoreNext]_rows
    PROVE  \/ rows' = rows
           \/ \E j \in Jobs, new \in Row :
                 /\ rows' = [rows EXCEPT ![j] = new]
                 /\ ~IsTerminal(j)
                 /\ RowConsistent(new)
  <1> DEFINE Effect == \/ rows' = rows
                       \/ \E j \in Jobs, new \in Row :
                             /\ rows' = [rows EXCEPT ![j] = new]
                             /\ ~IsTerminal(j)
                             /\ RowConsistent(new)
  <1>1. CASE UNCHANGED rows
    BY <1>1
  <1>2. ASSUME NEW j \in Jobs, NEW d \in BOOLEAN, Create(j, d)
        PROVE  Effect
    <2> DEFINE new == [AbsentRow EXCEPT !.state = "pending", !.deadline = d]
    <2>1. new \in Row
      BY DEF Row, AbsentRow, OpenStates
    <2>2. RowConsistent(new)
      BY StoreAssumption DEF RowConsistent, AbsentRow, OpenStates, TerminalStates
    <2>3. QED
      BY <1>2, <2>1, <2>2 DEF Create, IsTerminal, TerminalStates
  <1>3. ASSUME NEW j \in Jobs, NEW new \in Row,
               rows[j] \in Row => rows[j].state \in OpenStates /\ RowConsistent(new),
               rows' = [rows EXCEPT ![j] = new]
        PROVE  Effect
    BY <1>3 DEF StoreTypeOK, IsTerminal, OpenStates, TerminalStates
  <1>4. ASSUME NEW j \in Jobs,
               \/ \E w \in Workers : Claim(j, w)
               \/ \E s \in Statuses : Complete(j, s)
               \/ Fail(j) \/ Expire(j) \/ Cancel(j) \/ Requeue(j)
        PROVE  Effect
    <2>1. rows[j] \in Row /\ RowConsistent(rows[j])
      BY DEF StoreTypeOK, RowsConsistent
    <2>2. CASE \E w \in Workers : Claim(j, w)
      BY <1>3, <2>1, <2>2, UpdatedRowsTyped, UpdatedRowsConsistent
         DEF Claim, OpenStates
    <2>3. CASE \E s \in Statuses : Complete(j, s)
      BY <1>3, <2>1, <2>3, UpdatedRowsTyped, UpdatedRowsConsistent
         DEF Complete, OpenStates
    <2>4. CASE Fail(j)
      BY <1>3, <2>1, <2>4, UpdatedRowsTyped, UpdatedRowsConsistent DEF Fail, IsOpen
    <2>5. CASE Expire(j)
      BY <1>3, <2>1, <2>5, UpdatedRowsTyped, UpdatedRowsConsistent DEF Expire, IsOpen
    <2>6. CASE Cancel(j)
      BY <1>3, <2>1, <2>6, UpdatedRowsTyped, UpdatedRowsConsistent DEF Cancel, IsOpen
    <2>7. CASE Requeue(j)
      BY <1>3, <2>1, <2>7, UpdatedRowsTyped, UpdatedRowsConsistent
         DEF Requeue, OpenStates
    <2>8. QED
      BY <1>4, <2>2, <2>3, <2>4, <2>5, <2>6, <2>7
  <1>5. QED
    BY <1>1, <1>2, <1>4 DEF StoreNext

-----------------------------------------------------------------------------
(***************************************************************************)
(* The theorems.                                                           *)
(***************************************************************************)

\* The empty table is typed and consistent.
LEMMA StoreInitConsistent == StoreInit => StoreTypeOK /\ RowsConsistent
  <1>1. AbsentRow \in Row
    BY DEF AbsentRow, Row
  <1>2. RowConsistent(AbsentRow)
    BY StoreAssumption DEF RowConsistent, AbsentRow, OpenStates, TerminalStates
  <1>3. QED
    BY <1>1, <1>2 DEF StoreInit, StoreTypeOK, RowsConsistent

\* Every transaction keeps the table typed and consistent.
LEMMA StoreStepConsistent ==
    ASSUME StoreTypeOK, RowsConsistent, [StoreNext]_rows
    PROVE  (StoreTypeOK /\ RowsConsistent)'
  BY TransactionEffect DEF StoreTypeOK, RowsConsistent

\* No transaction touches the row of a finished job.
LEMMA StoreStepFinal ==
    ASSUME StoreTypeOK, RowsConsistent, [StoreNext]_rows
    PROVE  \A j \in Jobs : IsTerminal(j) => rows'[j] = rows[j]
  BY TransactionEffect DEF StoreTypeOK

\* Every column keeps its type and the columns of a row stay consistent with
\* one another, for any callers in any order.
THEOREM StoreConsistent == StoreSpec => [](StoreTypeOK /\ RowsConsistent)
  <1>1. StoreTypeOK /\ RowsConsistent /\ [StoreNext]_rows
          => (StoreTypeOK /\ RowsConsistent)'
    BY StoreStepConsistent
  <1>2. QED
    BY <1>1, StoreInitConsistent, PTL DEF StoreSpec

\* A finished job's row never changes again, for any callers in any order.
THEOREM StoreTerminalIsFinal == StoreSpec => TerminalIsFinal
  <1>1. StoreTypeOK /\ RowsConsistent /\ [StoreNext]_rows
          => [\A j \in Jobs : IsTerminal(j) => rows'[j] = rows[j]]_rows
    BY StoreStepFinal
  <1>2. QED
    BY <1>1, StoreConsistent, PTL DEF StoreSpec, TerminalIsFinal

-----------------------------------------------------------------------------
(***************************************************************************)
(* The processes around the table.                                         *)
(***************************************************************************)

\* A process past its start has a job on its command line.
LEMMA WorkerHasJob ==
    ASSUME ProcessTypeOK, NEW w \in Workers, workerPc[w] # "none"
    PROVE  workerJob[w] \in Jobs
  BY DEF ProcessTypeOK, Alive

\* Whatever process takes a step, the table sees one of its own transactions,
\* or nothing.
LEMMA StepIsTransaction ==
    ASSUME ProcessTypeOK, [Next]_vars
    PROVE  [StoreNext]_rows
  <1>1. CASE UNCHANGED vars
    BY <1>1 DEF vars
  <1>2. ASSUME NEW j \in Jobs, ClientStep(j)
        PROVE  [StoreNext]_rows
    BY <1>2, JobsAssumption
       DEF ClientStep, SubmitCreate, SubmitEnsured, SubmitGivesUp, SubmitFails,
           WaitStart, WaitReport, ClientCancel, StoreNext
  <1>3. ASSUME NEW s \in Supervisors, SupervisorStep(s)
        PROVE  [StoreNext]_rows
    <2>1. CASE SupervisorRequeues(s)
      <3>1. PICK p \in orphan[s] : Requeue(p[1])
        BY <2>1 DEF SupervisorRequeues
      <3>2. p[1] \in Jobs
        BY <3>1 DEF ProcessTypeOK
      <3>3. QED
        BY <3>1, <3>2 DEF StoreNext
    <2>2. QED
      BY <1>3, <2>1
         DEF SupervisorStep, SupervisorExit, SupervisorScan, SupervisorSeesAlive,
             SupervisorSeesDead, SupervisorListsPending, SupervisorSpawns,
             SupervisorSkips, SupervisorSleeps
  <1>4. ASSUME NEW w \in Workers, WorkerStep(w)
        PROVE  [StoreNext]_rows
    <2>1. workerJob[w] \in Jobs
      BY <1>4, WorkerHasJob
         DEF WorkerStep, WorkerNoIdentity, WorkerClaims, WorkerLosesClaim,
             WorkerExpires, WorkerCannotLaunch, WorkerLaunches, WorkerSeesEnded,
             WorkerTerminates, WorkerCollects, WorkerRecords
    <2>2. QED
      BY <1>4, <2>1
         DEF WorkerStep, WorkerNoIdentity, WorkerClaims, WorkerLosesClaim,
             WorkerExpires, WorkerCannotLaunch, WorkerLaunches, WorkerSeesEnded,
             WorkerTerminates, WorkerCollects, WorkerRecords, StoreNext
  <1>5. QED
    BY <1>1, <1>2, <1>3, <1>4
       DEF Next, SupervisorStart, SupervisorStop, SupervisorDies, WatcherExits,
           WorkerDies, DeadlinePasses, Reboot

-----------------------------------------------------------------------------
(***************************************************************************)
(* Types.                                                                  *)
(***************************************************************************)
\* Initially no process exists.
LEMMA InitTypes == Init => ProcessTypeOK
  BY JobsAssumption DEF Init, ProcessTypeOK, Alive

\* The clients and the clock keep the types.
LEMMA ClientStepTypes ==
    ASSUME TypeOK, NEW j \in Jobs, ClientStep(j) \/ DeadlinePasses(j)
    PROVE  ProcessTypeOK'
  BY DEF TypeOK, ProcessTypeOK, Alive, ClientStep, SubmitCreate, SubmitEnsured, SubmitGivesUp,
         SubmitFails, WaitStart, WaitReport, ClientCancel, DeadlinePasses,
         supVars, workerVars, clientVars, envVars

\* A running row names a worker, so what a scan reads is a set of pairs.
LEMMA ScanTypes ==
    ASSUME StoreTypeOK, RowsConsistent
    PROVE  {<<j, rows[j].worker>> : j \in {i \in Jobs : rows[i].state = "running"}}
             \subseteq Jobs \X Workers
  <1>1. ASSUME NEW j \in Jobs, rows[j].state = "running"
        PROVE  rows[j].worker \in Workers
    BY <1>1 DEF StoreTypeOK, RowsConsistent, RowConsistent, Row
  <1>2. QED
    BY <1>1

\* A supervisor, from start to exit or kill, keeps the types.
LEMMA SupervisorStepTypes ==
    ASSUME TypeOK, RowsConsistent, NEW s \in Supervisors,
           SupervisorStart(s) \/ SupervisorStop(s) \/ SupervisorStep(s) \/ SupervisorDies(s)
    PROVE  ProcessTypeOK'
  <1> USE DEF TypeOK, ProcessTypeOK, Alive, supVars, workerVars, clientVars, envVars
  <1>1. CASE SupervisorScan(s)
    BY <1>1, ScanTypes DEF SupervisorScan
  <1>2. CASE SupervisorSpawns(s)
    BY <1>2, JobsAssumption DEF SupervisorSpawns, Owning
  <1>3. CASE SupervisorSeesDead(s)
    BY <1>3 DEF SupervisorSeesDead
  <1>4. CASE SupervisorDies(s)
    BY <1>4, JobsAssumption DEF SupervisorDies
  <1>5. CASE SupervisorListsPending(s)
    BY <1>5 DEF SupervisorListsPending
  <1>6. CASE SupervisorSeesAlive(s)
    BY <1>6 DEF SupervisorSeesAlive
  <1>7. CASE SupervisorRequeues(s)
    BY <1>7 DEF SupervisorRequeues
  <1>8. CASE SupervisorSkips(s)
    BY <1>8 DEF SupervisorSkips
  <1>9. CASE \/ SupervisorStart(s) \/ SupervisorStop(s)
             \/ SupervisorExit(s) \/ SupervisorSleeps(s)
    BY <1>9 DEF SupervisorStart, SupervisorStop, SupervisorExit, SupervisorSleeps
  <1>10. QED
    BY <1>1, <1>2, <1>3, <1>4, <1>5, <1>6, <1>7, <1>8, <1>9 DEF SupervisorStep

\* A worker and its child keep the types.
LEMMA WorkerStepTypes ==
    ASSUME TypeOK, NEW w \in Workers,
           WorkerStep(w) \/ WatcherExits(w) \/ WorkerDies(w)
    PROVE  ProcessTypeOK'
  <1> USE JobsAssumption
      DEF TypeOK, ProcessTypeOK, Alive, Owning, supVars, workerVars, clientVars, envVars
  <1>1. CASE WatcherExits(w)
    BY <1>1 DEF WatcherExits
  <1>2. CASE WorkerDies(w)
    BY <1>2 DEF WorkerDies
  <1>3. CASE WorkerClaims(w) \/ WorkerLaunches(w) \/ WorkerSeesEnded(w) \/ WorkerCollects(w)
    BY <1>3 DEF WorkerClaims, WorkerLaunches, WorkerSeesEnded, WorkerCollects
  <1>4. CASE Exits(w) /\ UNCHANGED <<supVars, clientVars, envVars>>
    BY <1>4 DEF Exits
  <1>5. QED
    BY <1>1, <1>2, <1>3, <1>4
       DEF WorkerStep, WorkerNoIdentity, WorkerLosesClaim, WorkerExpires,
           WorkerCannotLaunch, WorkerTerminates, WorkerRecords

\* So does every step.
LEMMA TypesPreserved ==
    ASSUME TypeOK, RowsConsistent, [Next]_vars
    PROVE  ProcessTypeOK'
  <1>1. CASE UNCHANGED vars
    BY <1>1 DEF vars, TypeOK, ProcessTypeOK, Alive, supVars, workerVars, clientVars, envVars
  <1>2. CASE Reboot
    BY <1>2, JobsAssumption DEF Reboot, TypeOK, ProcessTypeOK, Alive
  <1>3. QED
    BY <1>1, <1>2, ClientStepTypes, SupervisorStepTypes, WorkerStepTypes DEF Next

\* Types and row consistency, for any constants.
THEOREM Typed == Spec => [](TypeOK /\ RowsConsistent)
  <1>1. Init => TypeOK /\ RowsConsistent
    BY InitTypes, StoreInitConsistent DEF Init, TypeOK
  <1>2. TypeOK /\ RowsConsistent /\ [Next]_vars => (TypeOK /\ RowsConsistent)'
    BY TypesPreserved, StepIsTransaction, StoreStepConsistent DEF TypeOK
  <1>3. QED
    BY <1>1, <1>2, PTL DEF Spec

-----------------------------------------------------------------------------
(***************************************************************************)
(* Ownership.  RowsKept is what every transaction but Claim and Requeue    *)
(* does to the recorded workers.                                           *)
(***************************************************************************)
RowsKept == \A j \in Jobs : IsTerminal(j)' \/ rows'[j].worker = rows[j].worker

\* All transactions but Claim and Requeue keep the recorded worker of an open job.
LEMMA TransactionsKeepRows ==
    ASSUME StoreTypeOK, RowsConsistent, NEW j \in Jobs,
           \/ \E d \in BOOLEAN : Create(j, d)
           \/ \E s \in Statuses : Complete(j, s)
           \/ Fail(j) \/ Expire(j) \/ Cancel(j) \/ UNCHANGED rows
    PROVE  RowsKept
  <1> USE DEF StoreTypeOK, RowsKept, IsTerminal, IsOpen
  <1>1. rows[j] \in Row
    OBVIOUS
  <1>2. CASE \E d \in BOOLEAN : Create(j, d)
    <2>1. rows[j] = AbsentRow
      BY <1>2 DEF Create, RowsConsistent, RowConsistent
    <2>2. PICK d \in BOOLEAN : Create(j, d)
      BY <1>2
    <2>3. [AbsentRow EXCEPT !.state = "pending", !.deadline = d].worker = NoWorker
      BY DEF AbsentRow
    <2>4. rows[j].worker = NoWorker
      BY <2>1 DEF AbsentRow
    <2>5. QED
      BY <2>2, <2>3, <2>4 DEF Create
  <1>3. CASE \E s \in Statuses : Complete(j, s)
    <2>1. PICK s \in Statuses : Complete(j, s)
      BY <1>3
    <2>2. CompletedRow(rows[j], s).state \in TerminalStates
      BY <1>1, TerminalStateRange DEF CompletedRow, Row
    <2>3. QED
      BY <2>1, <2>2 DEF Complete
  <1>4. CASE Fail(j)
    BY <1>1, <1>4 DEF Fail, FailedRow, Row, TerminalStates
  <1>5. CASE Expire(j)
    BY <1>1, <1>5 DEF Expire, ExpiredRow, Row, TerminalStates
  <1>6. CASE Cancel(j)
    BY <1>1, <1>6 DEF Cancel, CancelledRow, Row, TerminalStates
  <1>7. CASE UNCHANGED rows
    BY <1>7
  <1>8. QED
    BY <1>2, <1>3, <1>4, <1>5, <1>6, <1>7

\* A step that only drops owners and pairs, revives no worker, and keeps the
\* recorded workers keeps the ownership invariant.
LEMMA OwnershipKept ==
    ASSUME TypeOK, RowsConsistent, OwnershipInv, RowsKept,
           \A j \in Jobs : IsTerminal(j) => rows'[j] = rows[j],
           \A w \in Workers :
              workerPc'[w] \in Owning =>
                 workerPc[w] \in Owning /\ workerJob'[w] = workerJob[w],
           \A w \in Workers : Alive(w)' => Alive(w) \/ Fresh(w),
           \A s \in Supervisors :
              scan'[s] \subseteq scan[s] /\ orphan'[s] \subseteq orphan[s]
    PROVE  (AtMostOneOwner /\ OwnerIsRecorded /\ ScanIsCurrent)'
  <1> USE DEF OwnershipInv
  <1>1. AtMostOneOwner'
    BY DEF AtMostOneOwner
  <1>2. OwnerIsRecorded'
    <2> SUFFICES ASSUME NEW w \in Workers, workerPc'[w] \in Owning
                 PROVE  rows'[workerJob'[w]].worker = w \/ IsTerminal(workerJob[w])'
      BY DEF OwnerIsRecorded, IsTerminal
    <2>1. /\ workerPc[w] \in Owning
          /\ workerJob'[w] = workerJob[w]
          /\ workerJob[w] \in Jobs
      BY WorkerHasJob DEF TypeOK, Owning
    <2>2. rows[workerJob[w]].worker = w \/ IsTerminal(workerJob[w])
      BY <2>1 DEF OwnerIsRecorded
    <2>3. QED
      BY <2>1, <2>2 DEF RowsKept, IsTerminal
  <1>3. ScanIsCurrent'
    <2> SUFFICES ASSUME NEW s \in Supervisors
                 PROVE  /\ \A p \in scan'[s] \cup orphan'[s] :
                              rows'[p[1]].worker = p[2] \/ IsTerminal(p[1])'
                        /\ \A p \in orphan'[s] : ~Alive(p[2])'
                        /\ scan'[s] \cap orphan'[s] = {}
      BY DEF ScanIsCurrent, IsTerminal, Alive
    <2>1. scan'[s] \subseteq scan[s] /\ orphan'[s] \subseteq orphan[s]
      OBVIOUS
    <2>2. scan[s] \cup orphan[s] \subseteq Jobs \X Workers
      BY DEF TypeOK, ProcessTypeOK
    <2>3. ASSUME NEW p \in scan'[s] \cup orphan'[s]
          PROVE  rows'[p[1]].worker = p[2] \/ IsTerminal(p[1])'
      <3>1. p \in scan[s] \cup orphan[s] /\ p[1] \in Jobs
        BY <2>1, <2>2, <2>3
      <3>2. rows[p[1]].worker = p[2] \/ IsTerminal(p[1])
        BY <3>1 DEF ScanIsCurrent
      <3>3. QED
        BY <3>1, <3>2 DEF RowsKept, IsTerminal
    <2>4. ASSUME NEW p \in orphan'[s]
          PROVE  ~Alive(p[2])'
      <3>1. p \in orphan[s] /\ p[2] \in Workers
        BY <2>1, <2>2, <2>4
      <3>2. ~Alive(p[2]) /\ ~Fresh(p[2])
        BY <3>1 DEF ScanIsCurrent, Fresh
      <3>3. QED
        BY <3>1, <3>2
    <2>5. scan'[s] \cap orphan'[s] = {}
      BY <2>1 DEF ScanIsCurrent
    <2>6. QED
      BY <2>3, <2>4, <2>5
  <1>4. QED
    BY <1>1, <1>2, <1>3

\* The claim: a pending job has no owner and is in no supervisor's list.
LEMMA ClaimKeepsOwnership ==
    ASSUME TypeOK, RowsConsistent, OwnershipInv,
           NEW w \in Workers, WorkerClaims(w)
    PROVE  (AtMostOneOwner /\ OwnerIsRecorded /\ ScanIsCurrent)'
  <1> DEFINE j == workerJob[w]
  <1> USE DEF OwnershipInv
  <1>1. /\ j \in Jobs
        /\ rows[j].state = "pending"
        /\ rows' = [rows EXCEPT ![j] = ClaimedRow(rows[j], w)]
        /\ workerPc' = [workerPc EXCEPT ![w] = "claimed"]
        /\ UNCHANGED <<workerJob, scan, orphan>>
    BY WorkerHasJob DEF WorkerClaims, Claim, TypeOK, supVars
  <1>2. rows[j].worker = NoWorker /\ ~IsTerminal(j)
    BY <1>1 DEF RowsConsistent, RowConsistent, IsTerminal, TerminalStates, TypeOK, StoreTypeOK
  <1>3. ASSUME NEW v \in Workers, workerPc[v] \in Owning
        PROVE  workerJob[v] # j
    BY <1>2, <1>3, StoreAssumption DEF OwnerIsRecorded
  <1>4. ASSUME NEW s \in Supervisors, NEW p \in scan[s] \cup orphan[s]
        PROVE  p[1] \in Jobs \ {j} /\ p[2] \in Workers
    <2>1. p \in Jobs \X Workers
      BY <1>4 DEF TypeOK, ProcessTypeOK
    <2>2. rows[p[1]].worker = p[2] \/ IsTerminal(p[1])
      BY <1>4 DEF ScanIsCurrent
    <2>3. QED
      BY <1>2, <2>1, <2>2, StoreAssumption
  <1>5. /\ rows'[j].worker = w
        /\ \A i \in Jobs \ {j} : rows'[i] = rows[i]
    BY <1>1 DEF ClaimedRow, TypeOK, StoreTypeOK, Row
  <1>6. \A v \in Workers \ {w} : workerPc'[v] = workerPc[v]
    BY <1>1 DEF TypeOK, ProcessTypeOK
  <1>7. AtMostOneOwner'
    BY <1>1, <1>3, <1>6 DEF AtMostOneOwner
  <1>8. OwnerIsRecorded'
    <2> SUFFICES ASSUME NEW v \in Workers, workerPc'[v] \in Owning
                 PROVE  rows'[workerJob'[v]].worker = v \/ IsTerminal(workerJob[v])'
      BY DEF OwnerIsRecorded, IsTerminal
    <2>1. CASE v = w
      BY <1>1, <1>5, <2>1
    <2>2. CASE v # w
      <3>1. workerPc[v] \in Owning /\ workerJob[v] \in Jobs \ {j}
        BY <1>3, <1>6, <2>2, WorkerHasJob DEF TypeOK, Owning
      <3>2. QED
        BY <1>1, <1>5, <3>1 DEF OwnerIsRecorded, IsTerminal
    <2>3. QED
      BY <2>1, <2>2
  <1>9. ScanIsCurrent'
    <2> SUFFICES ASSUME NEW s \in Supervisors
                 PROVE  /\ \A p \in scan[s] \cup orphan[s] :
                              rows'[p[1]].worker = p[2] \/ IsTerminal(p[1])'
                        /\ \A p \in orphan[s] : ~Alive(p[2])'
                        /\ scan[s] \cap orphan[s] = {}
      BY <1>1 DEF ScanIsCurrent, IsTerminal, Alive
    <2>1. ASSUME NEW p \in scan[s] \cup orphan[s]
          PROVE  rows'[p[1]].worker = p[2] \/ IsTerminal(p[1])'
      BY <1>4, <1>5, <2>1 DEF ScanIsCurrent, IsTerminal
    <2>2. ASSUME NEW p \in orphan[s]
          PROVE  ~Alive(p[2])'
      <3>1. ~Alive(p[2]) /\ p[2] \in Workers
        BY <1>4, <2>2 DEF ScanIsCurrent
      <3>2. p[2] # w
        BY <3>1 DEF WorkerClaims, Alive
      <3>3. QED
        BY <1>6, <3>1, <3>2 DEF Alive
    <2>3. QED
      BY <2>1, <2>2 DEF ScanIsCurrent
  <1>10. QED
    BY <1>7, <1>8, <1>9

\* Reading the running jobs makes a list that is current, and probing it moves
\* a dead worker's pair from one set to the other.
LEMMA ReadingKeepsOwnership ==
    ASSUME TypeOK, RowsConsistent, OwnershipInv, ~ProbeMayFail,
           NEW s \in Supervisors,
           SupervisorScan(s) \/ SupervisorSeesDead(s)
    PROVE  (AtMostOneOwner /\ OwnerIsRecorded /\ ScanIsCurrent)'
  <1> USE DEF OwnershipInv, TypeOK, ProcessTypeOK
  <1>1. UNCHANGED <<rows, workerPc, workerJob>>
    BY DEF SupervisorScan, SupervisorSeesDead, workerVars
  <1>2. AtMostOneOwner' /\ OwnerIsRecorded'
    BY <1>1 DEF AtMostOneOwner, OwnerIsRecorded, IsTerminal
  <1>3. CASE SupervisorScan(s)
    <2>1. /\ scan' = [scan EXCEPT ![s] =
                {<<j, rows[j].worker>> : j \in {i \in Jobs : rows[i].state = "running"}}]
          /\ UNCHANGED orphan
          /\ orphan[s] = {}
      BY <1>3 DEF SupervisorScan, OneSupervisor
    <2>2. ASSUME NEW p \in scan'[s]
          PROVE  rows[p[1]].worker = p[2]
      BY <2>1, <2>2
    <2>3. \A t \in Supervisors \ {s} : scan'[t] = scan[t]
      BY <2>1
    <2>4. QED
      BY <1>1, <1>2, <2>1, <2>2, <2>3 DEF ScanIsCurrent, IsTerminal, Alive
  <1>4. CASE SupervisorSeesDead(s)
    <2>1. PICK p \in scan[s] :
             /\ ~Alive(p[2])
             /\ scan' = [scan EXCEPT ![s] = @ \ {p}]
             /\ orphan' = [orphan EXCEPT ![s] = {p}]
      BY <1>4 DEF SupervisorSeesDead, MaySeeDead
    <2>2. /\ scan'[s] = scan[s] \ {p} /\ orphan'[s] = {p}
          /\ \A t \in Supervisors \ {s} : scan'[t] = scan[t] /\ orphan'[t] = orphan[t]
      BY <2>1
    <2>3. QED
      BY <1>1, <1>2, <2>1, <2>2 DEF ScanIsCurrent, IsTerminal, Alive
  <1>5. QED
    BY <1>3, <1>4

\* The requeue: the row still records the dead worker, so nobody owns the job,
\* and no other pair of any supervisor is about it.
LEMMA RequeueKeepsOwnership ==
    ASSUME TypeOK, RowsConsistent, OwnershipInv,
           NEW s \in Supervisors, SupervisorRequeues(s)
    PROVE  /\ (AtMostOneOwner /\ OwnerIsRecorded /\ ScanIsCurrent)'
           /\ \A j \in Jobs :
                 rows[j].state = "running" /\ rows'[j].state = "pending"
                 => ~Alive(rows[j].worker)
  <1> USE DEF OwnershipInv
  <1>1. PICK p \in orphan[s] : Requeue(p[1])
    BY DEF SupervisorRequeues
  <1>2. p \in Jobs \X Workers
    BY <1>1 DEF TypeOK, ProcessTypeOK
  <1> DEFINE j == p[1]
  <1>3. /\ j \in Jobs /\ p[2] \in Workers /\ ~Alive(p[2])
        /\ rows[j].worker = p[2] \/ IsTerminal(j)
    BY <1>1, <1>2 DEF ScanIsCurrent
  <1>4. /\ UNCHANGED <<workerPc, workerJob, scan>>
        /\ orphan' = [orphan EXCEPT ![s] = {}]
        /\ supPc[s] = "requeue"
    BY DEF SupervisorRequeues, workerVars
  <1>5. \A t \in Supervisors \ {s} : scan[t] = {} /\ orphan[t] = {}
    BY <1>4 DEF OneSupervisor, Up
  <1>6. orphan'[s] = {} /\ \A t \in Supervisors \ {s} : orphan'[t] = {}
    BY <1>4, <1>5 DEF TypeOK, ProcessTypeOK
  <1>7. AtMostOneOwner'
    BY <1>4 DEF AtMostOneOwner
  <1>8. CASE rows[j].state # "running"
    <2>1. rows' = rows
      BY <1>1, <1>8 DEF Requeue
    <2>2. OwnerIsRecorded'
      BY <1>4, <2>1 DEF OwnerIsRecorded, IsTerminal
    <2>3. ScanIsCurrent'
      BY <1>4, <1>5, <1>6, <2>1 DEF ScanIsCurrent, IsTerminal
    <2>4. QED
      BY <1>7, <2>1, <2>2, <2>3
  <1>9. CASE rows[j].state = "running"
    <2>1. rows[j].worker = p[2]
      BY <1>3, <1>9 DEF IsTerminal, TerminalStates
    <2>2. \A i \in Jobs \ {j} : rows'[i] = rows[i]
      BY <1>1, <1>9 DEF Requeue, TypeOK, StoreTypeOK
    <2>3. ASSUME NEW v \in Workers, workerPc[v] \in Owning
          PROVE  workerJob[v] \in Jobs \ {j}
      <3>1. workerJob[v] \in Jobs
        BY <2>3, WorkerHasJob DEF TypeOK, Owning
      <3>2. v # p[2]
        BY <1>3, <2>3 DEF Alive, Owning
      <3>3. QED
        BY <1>9, <2>1, <2>3, <3>1, <3>2 DEF OwnerIsRecorded, IsTerminal, TerminalStates
    <2>4. OwnerIsRecorded'
      BY <1>4, <2>2, <2>3 DEF OwnerIsRecorded, IsTerminal
    <2>5. ASSUME NEW q \in scan[s]
          PROVE  q[1] \in Jobs \ {j}
      <3>1. q \in Jobs \X Workers
        BY <2>5 DEF TypeOK, ProcessTypeOK
      <3>2. q # p
        BY <1>1, <2>5 DEF ScanIsCurrent
      <3>3. CASE q[1] = j
        <4>1. rows[j].worker = q[2]
          BY <1>9, <2>5, <3>3 DEF ScanIsCurrent, IsTerminal, TerminalStates
        <4>2. p = <<p[1], p[2]>> /\ q = <<q[1], q[2]>>
          BY <1>2, <3>1
        <4>3. QED
          BY <2>1, <3>2, <3>3, <4>1, <4>2
      <3>4. QED
        BY <3>1, <3>3
    <2>6. ScanIsCurrent'
      BY <1>4, <1>5, <1>6, <2>2, <2>5 DEF ScanIsCurrent, IsTerminal
    <2>7. \A i \in Jobs :
             rows[i].state = "running" /\ rows'[i].state = "pending"
             => ~Alive(rows[i].worker)
      BY <1>3, <2>1, <2>2
    <2>8. QED
      BY <1>7, <2>4, <2>6, <2>7
  <1>10. QED
    BY <1>8, <1>9

\* The pid file admits one supervisor, and only requeue_orphans holds pairs.
LEMMA OneSupervisorKept ==
    ASSUME TypeOK, OwnershipInv, ExclusiveSupervisor, [Next]_vars
    PROVE  OneSupervisor'
  <1> USE DEF OwnershipInv, OneSupervisor, TypeOK, ProcessTypeOK, Up
  <1>1. CASE UNCHANGED <<supPc, scan, orphan>>
    BY <1>1
  <1>2. CASE Reboot
    BY <1>2 DEF Reboot
  <1>3. ASSUME NEW s \in Supervisors, SupervisorStart(s)
        PROVE  OneSupervisor'
    BY <1>3 DEF SupervisorStart, SomeoneUp
  <1>4. ASSUME NEW s \in Supervisors,
               SupervisorDies(s) \/ SupervisorStep(s)
        PROVE  OneSupervisor'
    <2>1. \A t \in Supervisors \ {s} :
             UNCHANGED <<supPc[t], scan[t], orphan[t]>>
      BY <1>4
         DEF SupervisorDies, SupervisorStep, SupervisorExit, SupervisorScan,
             SupervisorSeesAlive, SupervisorSeesDead, SupervisorRequeues,
             SupervisorListsPending, SupervisorSpawns, SupervisorSkips, SupervisorSleeps
    <2>2. supPc'[s] # "down" => Up(s)
      BY <1>4
         DEF SupervisorDies, SupervisorStep, SupervisorExit, SupervisorScan,
             SupervisorSeesAlive, SupervisorSeesDead, SupervisorRequeues,
             SupervisorListsPending, SupervisorSpawns, SupervisorSkips, SupervisorSleeps
    <2>3. supPc'[s] # "requeue" => scan'[s] = {} /\ orphan'[s] = {}
      BY <1>4
         DEF SupervisorDies, SupervisorStep, SupervisorExit, SupervisorScan,
             SupervisorSeesAlive, SupervisorSeesDead, SupervisorRequeues,
             SupervisorListsPending, SupervisorSpawns, SupervisorSkips, SupervisorSleeps
    <2>4. QED
      BY <2>1, <2>2, <2>3
  <1>5. QED
    BY <1>1, <1>2, <1>3, <1>4
       DEF Next, vars, supVars, ClientStep, SubmitCreate, SubmitEnsured, SubmitGivesUp,
           SubmitFails, WaitStart, WaitReport, ClientCancel, DeadlinePasses, SupervisorStop,
           WorkerStep, WorkerNoIdentity, WorkerClaims, WorkerLosesClaim, WorkerExpires,
           WorkerCannotLaunch, WorkerLaunches, WorkerSeesEnded, WorkerTerminates,
           WorkerCollects, WorkerRecords, WatcherExits, WorkerDies

-----------------------------------------------------------------------------
\* The conditions of OwnershipKept that do not concern the table.
OwnersOnlyDrop ==
    /\ \A w \in Workers :
          workerPc'[w] \in Owning =>
             workerPc[w] \in Owning /\ workerJob'[w] = workerJob[w]
    /\ \A w \in Workers : Alive(w)' => Alive(w) \/ Fresh(w)
    /\ \A s \in Supervisors :
          scan'[s] \subseteq scan[s] /\ orphan'[s] \subseteq orphan[s]

\* Clients and the clock take part in no ownership.
LEMMA ClientDrops ==
    ASSUME TypeOK, RowsConsistent, NEW j \in Jobs, ClientStep(j) \/ DeadlinePasses(j)
    PROVE  RowsKept /\ OwnersOnlyDrop
  <1>1. UNCHANGED <<supVars, workerVars>>
    BY DEF ClientStep, SubmitCreate, SubmitEnsured, SubmitGivesUp, SubmitFails,
           WaitStart, WaitReport, ClientCancel, DeadlinePasses
  <1>2. OwnersOnlyDrop
    BY <1>1 DEF OwnersOnlyDrop, supVars, workerVars, Alive
  <1>3. RowsKept
    BY TransactionsKeepRows, JobsAssumption
       DEF TypeOK, ClientStep, SubmitCreate, SubmitEnsured, SubmitGivesUp, SubmitFails,
           WaitStart, WaitReport, ClientCancel, DeadlinePasses
  <1>4. QED
    BY <1>2, <1>3

\* The steps of a supervisor outside requeue_orphans only drop pairs.
LEMMA SupervisorDrops ==
    ASSUME TypeOK, RowsConsistent, NEW s \in Supervisors,
           \/ SupervisorStart(s) \/ SupervisorStop(s) \/ SupervisorDies(s)
           \/ SupervisorExit(s) \/ SupervisorSeesAlive(s) \/ SupervisorListsPending(s)
           \/ SupervisorSpawns(s) \/ SupervisorSkips(s) \/ SupervisorSleeps(s)
    PROVE  RowsKept /\ OwnersOnlyDrop
  <1> USE DEF TypeOK, ProcessTypeOK, workerVars, Alive, OwnersOnlyDrop
  <1>1. UNCHANGED rows
    BY DEF SupervisorStart, SupervisorStop, SupervisorDies, SupervisorExit,
           SupervisorSeesAlive, SupervisorListsPending, SupervisorSpawns,
           SupervisorSkips, SupervisorSleeps
  <1>2. RowsKept
    BY <1>1 DEF RowsKept
  <1>3. CASE SupervisorSpawns(s)
    BY <1>2, <1>3 DEF SupervisorSpawns, Owning
  <1>4. CASE SupervisorSeesAlive(s)
    BY <1>2, <1>4 DEF SupervisorSeesAlive
  <1>5. CASE SupervisorDies(s)
    BY <1>2, <1>5 DEF SupervisorDies
  <1>6. CASE \/ SupervisorStart(s) \/ SupervisorStop(s) \/ SupervisorExit(s)
             \/ SupervisorListsPending(s) \/ SupervisorSkips(s) \/ SupervisorSleeps(s)
    BY <1>2, <1>6
       DEF SupervisorStart, SupervisorStop, SupervisorExit, SupervisorListsPending,
           SupervisorSkips, SupervisorSleeps
  <1>7. QED
    BY <1>3, <1>4, <1>5, <1>6

\* A worker that does anything but claim only gives its ownership up.
LEMMA WorkerDrops ==
    ASSUME TypeOK, RowsConsistent, NEW w \in Workers,
           (WorkerStep(w) /\ ~WorkerClaims(w)) \/ WatcherExits(w) \/ WorkerDies(w)
    PROVE  RowsKept /\ OwnersOnlyDrop
  <1> USE DEF TypeOK, ProcessTypeOK, supVars, Alive, OwnersOnlyDrop
  <1>1. CASE WatcherExits(w) \/ WorkerDies(w)
    BY <1>1 DEF WatcherExits, WorkerDies, RowsKept, Owning
  <1>2. CASE WorkerLaunches(w) \/ WorkerSeesEnded(w) \/ WorkerCollects(w)
    BY <1>2 DEF WorkerLaunches, WorkerSeesEnded, WorkerCollects, RowsKept, Owning
  <1>3. ASSUME Exits(w), UNCHANGED <<scan, orphan>>
        PROVE  OwnersOnlyDrop
    BY <1>3 DEF Exits, Owning
  <1>4. ASSUME workerPc[w] # "none",
               \/ Fail(workerJob[w]) \/ Expire(workerJob[w]) \/ UNCHANGED rows
               \/ \E t \in Statuses : Complete(workerJob[w], t)
        PROVE  RowsKept
    BY <1>4, TransactionsKeepRows, WorkerHasJob
  <1>5. CASE \/ WorkerNoIdentity(w) \/ WorkerLosesClaim(w) \/ WorkerExpires(w)
             \/ WorkerCannotLaunch(w) \/ WorkerTerminates(w)
    BY <1>3, <1>4, <1>5
       DEF WorkerNoIdentity, WorkerLosesClaim, WorkerExpires, WorkerCannotLaunch,
           WorkerTerminates
  <1>6. CASE WorkerRecords(w)
    BY <1>3, <1>4, <1>6 DEF WorkerRecords
  <1>7. QED
    BY <1>1, <1>2, <1>5, <1>6 DEF WorkerStep

\* Every step keeps the ownership invariant.
LEMMA OwnershipStep ==
    ASSUME TypeOK, RowsConsistent, OwnershipInv, ExclusiveSupervisor, ~ProbeMayFail,
           [Next]_vars
    PROVE  OwnershipInv'
  <1>1. OneSupervisor'
    BY OneSupervisorKept
  <1>2. \A j \in Jobs : IsTerminal(j) => rows'[j] = rows[j]
    BY StepIsTransaction, StoreStepFinal DEF TypeOK
  <1>3. ASSUME RowsKept, OwnersOnlyDrop
        PROVE  (AtMostOneOwner /\ OwnerIsRecorded /\ ScanIsCurrent)'
    BY <1>2, <1>3, OwnershipKept DEF OwnersOnlyDrop
  <1>4. CASE UNCHANGED vars
    BY <1>1, <1>3, <1>4
       DEF vars, RowsKept, OwnersOnlyDrop, supVars, workerVars, Alive, OwnershipInv
  <1>5. CASE Reboot
    <2>1. RowsKept /\ OwnersOnlyDrop
      BY <1>5 DEF Reboot, RowsKept, OwnersOnlyDrop, Alive, Owning
    <2>2. QED
      BY <1>1, <1>3, <2>1 DEF OwnershipInv
  <1>6. QED
    BY <1>1, <1>3, <1>4, <1>5, ClientDrops, SupervisorDrops, WorkerDrops,
       ClaimKeepsOwnership, ReadingKeepsOwnership, RequeueKeepsOwnership
       DEF Next, SupervisorStep, WorkerStep, OwnershipInv

\* With no process and no row there is nothing to own.
LEMMA OwnershipInit == Init => OwnershipInv
  BY DEF Init, OwnershipInv, AtMostOneOwner, OwnerIsRecorded, ScanIsCurrent,
         OneSupervisor, Owning, Up

\* With one supervisor at a time and a fingerprint probe that never fails, a
\* job has at most one live owner, the one its row records, however claims,
\* requeues, kills and reboots interleave (claim and requeue_orphans).
THEOREM Ownership ==
    ASSUME ExclusiveSupervisor, ~ProbeMayFail
    PROVE  Spec => []OwnershipInv
  <1>1. TypeOK /\ RowsConsistent /\ OwnershipInv /\ [Next]_vars => OwnershipInv'
    BY OwnershipStep
  <1>2. QED
    BY <1>1, OwnershipInit, Typed, PTL DEF Spec

-----------------------------------------------------------------------------
\* Only the UPDATE of requeue_orphans takes a running job back to the queue.
LEMMA OnlyRequeueReturns ==
    ASSUME TypeOK, [Next]_vars, NEW j \in Jobs,
           rows[j].state = "running", rows'[j].state = "pending"
    PROVE  \E s \in Supervisors : SupervisorRequeues(s)
  <1> DEFINE Kept == rows'[j].state # "pending" \/ rows'[j] = rows[j]
  <1> USE DEF TypeOK, StoreTypeOK, TerminalStates
  <1>1. ASSUME NEW i \in Jobs,
               \/ \E d \in BOOLEAN : Create(i, d)
               \/ \E w \in Workers : Claim(i, w)
               \/ \E t \in Statuses : Complete(i, t)
               \/ Fail(i) \/ Expire(i) \/ Cancel(i) \/ UNCHANGED rows
        PROVE  Kept
    <2>1. CASE \E d \in BOOLEAN : Create(i, d)
      BY <2>1 DEF Create
    <2>2. CASE \E w \in Workers : Claim(i, w)
      BY <2>2 DEF Claim
    <2>3. CASE \E t \in Statuses : Complete(i, t)
      BY <2>3, TerminalStateRange DEF Complete, CompletedRow, Row
    <2>4. CASE Fail(i) \/ Expire(i) \/ Cancel(i)
      BY <2>4 DEF Fail, Expire, Cancel, FailedRow, ExpiredRow, CancelledRow, Row
    <2>5. QED
      BY <1>1, <2>1, <2>2, <2>3, <2>4
  <1>2. CASE UNCHANGED vars \/ Reboot
    BY <1>2 DEF vars, Reboot
  <1>3. ASSUME NEW i \in Jobs, ClientStep(i) \/ DeadlinePasses(i)
        PROVE  FALSE
    BY <1>1, <1>3, JobsAssumption
       DEF ClientStep, SubmitCreate, SubmitEnsured, SubmitGivesUp, SubmitFails,
           WaitStart, WaitReport, ClientCancel, DeadlinePasses
  <1>4. ASSUME NEW w \in Workers, WorkerStep(w) \/ WatcherExits(w) \/ WorkerDies(w)
        PROVE  FALSE
    <2>1. CASE WatcherExits(w) \/ WorkerDies(w)
      BY <2>1 DEF WatcherExits, WorkerDies
    <2>2. CASE WorkerStep(w)
      <3>1. workerJob[w] \in Jobs
        BY <2>2, WorkerHasJob
           DEF WorkerStep, WorkerNoIdentity, WorkerClaims, WorkerLosesClaim, WorkerExpires,
               WorkerCannotLaunch, WorkerLaunches, WorkerSeesEnded, WorkerTerminates,
               WorkerCollects, WorkerRecords
      <3>2. \/ \E v \in Workers : Claim(workerJob[w], v)
            \/ \E t \in Statuses : Complete(workerJob[w], t)
            \/ Fail(workerJob[w]) \/ Expire(workerJob[w]) \/ UNCHANGED rows
        BY <2>2
           DEF WorkerStep, WorkerNoIdentity, WorkerClaims, WorkerLosesClaim, WorkerExpires,
               WorkerCannotLaunch, WorkerLaunches, WorkerSeesEnded, WorkerTerminates,
               WorkerCollects, WorkerRecords
      <3>3. QED
        BY <1>1, <3>1, <3>2
    <2>3. QED
      BY <1>4, <2>1, <2>2
  <1>5. ASSUME NEW s \in Supervisors,
               \/ SupervisorStart(s) \/ SupervisorStop(s) \/ SupervisorDies(s)
               \/ SupervisorStep(s)
        PROVE  SupervisorRequeues(s)
    BY <1>5
       DEF SupervisorStart, SupervisorStop, SupervisorDies, SupervisorStep, SupervisorExit,
           SupervisorScan, SupervisorSeesAlive, SupervisorSeesDead, SupervisorListsPending,
           SupervisorSpawns, SupervisorSkips, SupervisorSleeps
  <1>6. QED
    BY <1>2, <1>3, <1>4, <1>5 DEF Next

\* Under the same conditions requeue_orphans does what its docstring says: the
\* worker of a job it requeues no longer exists, at the moment of the UPDATE
\* and not only when the list was read.
THEOREM RequeuesOnlyOrphans ==
    ASSUME ExclusiveSupervisor, ~ProbeMayFail
    PROVE  Spec => OnlyOrphansRequeued
  <1>1. TypeOK /\ RowsConsistent /\ OwnershipInv /\ [Next]_vars
        => [\A j \in Jobs :
              rows[j].state = "running" /\ rows'[j].state = "pending"
              => ~Alive(rows[j].worker)]_vars
    BY OnlyRequeueReturns, RequeueKeepsOwnership
  <1>2. QED
    BY <1>1, Typed, Ownership, PTL DEF Spec, OnlyOrphansRequeued
\* Under the same conditions a stored result comes from the watcher of the
\* worker that owns the row, although complete compares only the job's state.
LEMMA ResultStep ==
    ASSUME TypeOK, RowsConsistent, OwnershipInv, [Next]_vars, NEW j \in Jobs,
           rows[j].result = NoResult, rows'[j].result # NoResult
    PROVE  /\ rows[j].worker \in Workers
           /\ workerJob[rows[j].worker] = j
           /\ watcher[rows[j].worker] = rows'[j].result
  <1> USE DEF TypeOK, StoreTypeOK
  <1>1. \E w \in Workers : WorkerRecords(w) /\ watcher[w] \in Statuses
    <2>1. ASSUME NEW i \in Jobs,
                 \/ \E d \in BOOLEAN : Create(i, d)
                 \/ \E w \in Workers : Claim(i, w)
                 \/ Fail(i) \/ Expire(i) \/ Cancel(i) \/ Requeue(i) \/ UNCHANGED rows
          PROVE  FALSE
      <3>1. CASE \E d \in BOOLEAN : Create(i, d)
        <4>1. PICK d \in BOOLEAN : Create(i, d)
          BY <3>1
        <4>2. [AbsentRow EXCEPT !.state = "pending", !.deadline = d].result = NoResult
          BY DEF AbsentRow
        <4>3. QED
          BY <4>1, <4>2 DEF Create
      <3>2. CASE \E w \in Workers : Claim(i, w)
        BY <3>2 DEF Claim, ClaimedRow, Row
      <3>3. CASE Fail(i) \/ Expire(i) \/ Cancel(i) \/ Requeue(i)
        <4>1. rows' # rows
          OBVIOUS
        <4>2. \E new \in {FailedRow(rows[i]), ExpiredRow(rows[i]),
                          CancelledRow(rows[i]), RequeuedRow(rows[i])} :
                 rows' = [rows EXCEPT ![i] = new]
          BY <3>3, <4>1 DEF Fail, Expire, Cancel, Requeue
        <4>3. \A new \in {FailedRow(rows[i]), ExpiredRow(rows[i]),
                          CancelledRow(rows[i]), RequeuedRow(rows[i])} :
                 new.result = rows[i].result
          BY DEF FailedRow, ExpiredRow, CancelledRow, RequeuedRow, Row
        <4>4. QED
          BY <4>2, <4>3
      <3>4. QED
        BY <2>1, <3>1, <3>2, <3>3
    <2>2. ~(UNCHANGED vars \/ Reboot)
      BY DEF vars, Reboot
    <2>3. ASSUME NEW i \in Jobs
          PROVE  ~(ClientStep(i) \/ DeadlinePasses(i))
      BY <2>1, JobsAssumption
         DEF ClientStep, SubmitCreate, SubmitEnsured, SubmitGivesUp, SubmitFails,
             WaitStart, WaitReport, ClientCancel, DeadlinePasses
    <2>4. ASSUME NEW s \in Supervisors
          PROVE  ~(\/ SupervisorStart(s) \/ SupervisorStop(s) \/ SupervisorDies(s)
                   \/ SupervisorStep(s))
      <3>1. ~SupervisorRequeues(s)
        <4>1. ASSUME NEW p \in orphan[s], Requeue(p[1])
              PROVE  FALSE
          BY <2>1, <4>1 DEF ProcessTypeOK
        <4>2. QED
          BY <4>1 DEF SupervisorRequeues
      <3>2. QED
        BY <3>1
           DEF SupervisorStart, SupervisorStop, SupervisorDies, SupervisorStep, SupervisorExit,
               SupervisorScan, SupervisorSeesAlive, SupervisorSeesDead,
               SupervisorListsPending, SupervisorSpawns, SupervisorSkips, SupervisorSleeps
    <2>5. ASSUME NEW w \in Workers, WorkerStep(w) \/ WatcherExits(w) \/ WorkerDies(w)
          PROVE  WorkerRecords(w) /\ watcher[w] \in Statuses
      <3>1. WorkerStep(w)
        BY <2>5 DEF WatcherExits, WorkerDies
      <3>2. workerJob[w] \in Jobs
        BY <3>1, WorkerHasJob
           DEF WorkerStep, WorkerNoIdentity, WorkerClaims, WorkerLosesClaim, WorkerExpires,
               WorkerCannotLaunch, WorkerLaunches, WorkerSeesEnded, WorkerTerminates,
               WorkerCollects, WorkerRecords
      <3>3. WorkerRecords(w)
        BY <2>1, <3>1, <3>2
           DEF WorkerStep, WorkerNoIdentity, WorkerClaims, WorkerLosesClaim, WorkerExpires,
               WorkerCannotLaunch, WorkerLaunches, WorkerSeesEnded, WorkerTerminates,
               WorkerCollects
      <3>4. QED
        BY <2>1, <3>2, <3>3 DEF WorkerRecords
    <2>6. QED
      BY <2>2, <2>3, <2>4, <2>5 DEF Next
  <1>2. PICK w \in Workers : WorkerRecords(w) /\ watcher[w] \in Statuses
    BY <1>1
  <1>3. workerPc[w] \in Owning /\ workerJob[w] \in Jobs
    BY <1>2, WorkerHasJob DEF WorkerRecords, Owning
  <1>4. Complete(workerJob[w], watcher[w])
    BY <1>2 DEF WorkerRecords
  <1>5. /\ workerJob[w] = j
        /\ rows[j].state = "running"
        /\ rows'[j] = CompletedRow(rows[j], watcher[w])
    BY <1>3, <1>4 DEF Complete
  <1>6. rows'[j].result = watcher[w]
    BY <1>5 DEF CompletedRow, Row
  <1>7. rows[j].worker = w
    BY <1>3, <1>5 DEF OwnershipInv, OwnerIsRecorded, IsTerminal, TerminalStates
  <1>8. QED
    BY <1>5, <1>6, <1>7

\* The same as a theorem: no superseded worker's result is ever stored
\* (worker.run_job and store.complete).
THEOREM ResultsAreTheOwners ==
    ASSUME ExclusiveSupervisor, ~ProbeMayFail
    PROVE  Spec => ResultIsTheOwners
  <1>1. TypeOK /\ RowsConsistent /\ OwnershipInv /\ [Next]_vars
        => [\A j \in Jobs :
              rows[j].result = NoResult /\ rows'[j].result # NoResult
              => /\ rows[j].worker \in Workers
                 /\ workerJob[rows[j].worker] = j
                 /\ watcher[rows[j].worker] = rows'[j].result]_vars
    BY ResultStep
  <1>2. QED
    BY <1>1, Typed, Ownership, PTL DEF Spec, ResultIsTheOwners

-----------------------------------------------------------------------------
(***************************************************************************)
(* Refinement: every job implements AbstractJob.                           *)
(***************************************************************************)
\* An absent row is an unsubmitted job.
LEMMA JobInit ==
    ASSUME Init, NEW j \in Jobs
    PROVE  Job(j)!Init
  BY DEF Init, StoreInit, AbsentRow, Job!Init, PhaseOf, IsTerminal, TerminalStates

\* What a transaction on the table is for the one job it touches.
LEMMA TransactionIsJobStep ==
    ASSUME StoreTypeOK, RowsConsistent, NEW j \in Jobs, UNCHANGED told,
           \/ \E d \in BOOLEAN : Create(j, d)
           \/ \E w \in Workers : Claim(j, w)
           \/ \E t \in Statuses : Complete(j, t)
           \/ Fail(j) \/ Expire(j) \/ Cancel(j) \/ Requeue(j)
    PROVE  [Job(j)!Next]_(Job(j)!vars)
  <1> DEFINE old == rows[j]
             new == rows'[j]
  <1> USE DEF Job!Next, Job!vars, PhaseOf, IsTerminal
  <1>1. old \in Row /\ RowConsistent(old)
    BY DEF StoreTypeOK, RowsConsistent
  <1>2. CASE UNCHANGED rows
    BY <1>2 DEF Outcome
  <1>3. CASE \E d \in BOOLEAN : Create(j, d)
    <2>1. PICK d \in BOOLEAN : Create(j, d)
      BY <1>3
    <2>2. [AbsentRow EXCEPT !.state = "pending", !.deadline = d].state = "pending"
      BY DEF AbsentRow
    <2>3. old.state = "absent" /\ new.state = "pending"
      BY <2>1, <2>2 DEF Create, StoreTypeOK
    <2>4. QED
      BY <2>3 DEF Job!Submit, TerminalStates
  <1>4. CASE \E w \in Workers : Claim(j, w)
    <2>1. old.state = "pending" /\ new.state = "running"
      BY <1>1, <1>4 DEF Claim, ClaimedRow, StoreTypeOK, Row
    <2>2. QED
      BY <2>1 DEF Job!Start, TerminalStates
  <1>5. CASE old.state = "running" /\ Requeue(j)
    <2>1. new.state = "pending"
      BY <1>1, <1>5 DEF Requeue, RequeuedRow, StoreTypeOK, Row
    <2>2. QED
      BY <1>5, <2>1 DEF Job!Lose, TerminalStates
  <1>6. ASSUME old.state \in OpenStates, new.state \in TerminalStates, new \in Row,
               old.state = "pending" => new.result = NoResult
        PROVE  Job(j)!Decide
    <2>1. Outcome(j)' \in OutcomesWith(Statuses \cup {NoResult})
      BY <1>6 DEF Outcome, OutcomesWith, Row
    <2>2. old.state = "pending" => Outcome(j)' \notin OutcomesWith(Statuses)
      BY <1>6, StoreAssumption DEF Outcome, OutcomesWith
    <2>3. PhaseOf(old.state) \in {"queued", "running"} /\ PhaseOf(new.state) = "done"
      BY <1>6 DEF OpenStates, TerminalStates
    <2>4. PhaseOf(old.state) = "queued" => old.state = "pending"
      BY <1>6 DEF OpenStates
    <2>5. QED
      BY <1>6, <2>1, <2>2, <2>3, <2>4 DEF Job!Decide
  <1>7. CASE old.state = "running" /\ \E t \in Statuses : Complete(j, t)
    <2>1. PICK t \in Statuses : new = CompletedRow(old, t)
      BY <1>7 DEF Complete, StoreTypeOK
    <2>2. new \in Row
      BY <1>1, <2>1, UpdatedRowsTyped
    <2>3. new.state = TerminalState(t)
      BY <1>1, <2>1 DEF CompletedRow, Row
    <2>4. QED
      BY <1>6, <1>7, <2>2, <2>3, TerminalStateRange DEF OpenStates
  <1>8. CASE IsOpen(j) /\ (Fail(j) \/ Expire(j) \/ Cancel(j))
    <2>1. new \in {FailedRow(old), ExpiredRow(old), CancelledRow(old)}
      BY <1>8 DEF Fail, Expire, Cancel, StoreTypeOK
    <2>2. new \in Row
      BY <1>1, <2>1, UpdatedRowsTyped
    <2>3. new.state \in TerminalStates /\ new.result = old.result
      BY <1>1, <2>1 DEF FailedRow, ExpiredRow, CancelledRow, Row, TerminalStates
    <2>4. old.state = "pending" => old.result = NoResult
      BY <1>1 DEF RowConsistent, OpenStates
    <2>5. QED
      BY <1>6, <1>8, <2>2, <2>3, <2>4 DEF IsOpen
  <1>9. QED
    BY <1>2, <1>3, <1>4, <1>5, <1>7, <1>8 DEF Complete, Fail, Expire, Cancel, Requeue

\* A client that reports a finished job is the abstract Tell; it only reads rows.
LEMMA ReportIsJobStep ==
    ASSUME TypeOK, NEW i \in Jobs, NEW j \in Jobs, WaitReport(i)
    PROVE  [Job(j)!Next]_(Job(j)!vars)
  <1> USE DEF WaitReport, Job!Next, Job!vars, IsTerminal, Outcome
  <1>1. CASE i = j
    <2>1. told'[j] = told[j] \cup {Outcome(j)}
      BY <1>1 DEF TypeOK, ProcessTypeOK
    <2>2. rows[j].state \in TerminalStates => PhaseOf(rows[j].state) = "done"
      BY DEF PhaseOf, TerminalStates
    <2>3. QED
      BY <1>1, <2>1, <2>2 DEF Job!Tell
  <1>2. CASE i # j
    BY <1>2 DEF TypeOK, ProcessTypeOK
  <1>3. QED
    BY <1>1, <1>2

\* Every step is, for each job, a step of AbstractJob or a stutter.
LEMMA JobStep ==
    ASSUME TypeOK, RowsConsistent, [Next]_vars, NEW j \in Jobs
    PROVE  [Job(j)!Next]_(Job(j)!vars)
  <1>1. CASE \E i \in Jobs : WaitReport(i)
    BY <1>1, ReportIsJobStep
  <1>2. CASE ~ \E i \in Jobs : WaitReport(i)
    <2>1. UNCHANGED told
      BY <1>2
         DEF Next, vars, clientVars, ClientStep, SubmitCreate, SubmitEnsured, SubmitGivesUp,
             SubmitFails, WaitStart, ClientCancel, DeadlinePasses, SupervisorStart,
             SupervisorStop, SupervisorDies, SupervisorStep, SupervisorExit, SupervisorScan,
             SupervisorSeesAlive, SupervisorSeesDead, SupervisorRequeues,
             SupervisorListsPending, SupervisorSpawns, SupervisorSkips, SupervisorSleeps,
             WorkerStep, WorkerNoIdentity, WorkerClaims, WorkerLosesClaim, WorkerExpires,
             WorkerCannotLaunch, WorkerLaunches, WorkerSeesEnded, WorkerTerminates,
             WorkerCollects, WorkerRecords, WatcherExits, WorkerDies, Reboot
    <2>2. [StoreNext]_rows
      BY StepIsTransaction DEF TypeOK
    <2>3. CASE rows'[j] = rows[j]
      BY <2>1, <2>3 DEF Job!vars, IsTerminal, Outcome
    <2>4. CASE rows'[j] # rows[j]
      <3>1. StoreNext
        BY <2>2, <2>4
      <3>2. PICK i \in Jobs :
               \/ \E d \in BOOLEAN : Create(i, d)
               \/ \E w \in Workers : Claim(i, w)
               \/ \E t \in Statuses : Complete(i, t)
               \/ Fail(i) \/ Expire(i) \/ Cancel(i) \/ Requeue(i)
        BY <3>1 DEF StoreNext
      <3>3. i = j
        BY <2>4, <3>2
           DEF Create, Claim, Complete, Fail, Expire, Cancel, Requeue, TypeOK, StoreTypeOK
      <3>4. QED
        BY <2>1, <3>2, <3>3, TransactionIsJobStep DEF TypeOK
    <2>5. QED
      BY <2>3, <2>4
  <1>3. QED
    BY <1>1, <1>2

\* Every job implements AbstractJob, with any number of supervisors and even
\* when the fingerprint probe fails: it is decided once, a payload decides it
\* only while it runs, and every `jobs wait` prints that one decision.
THEOREM JobsImplementAbstractJob == Spec => JobsKeepPromise
  <1>1. Init => \A j \in Jobs : Job(j)!Init
    BY JobInit
  <1>2. TypeOK /\ RowsConsistent /\ [Next]_vars
        => [\A j \in Jobs : [Job(j)!Next]_(Job(j)!vars)]_vars
    BY JobStep
  <1>3. QED
    BY <1>1, <1>2, Typed, PTL DEF Spec, JobsKeepPromise
=============================================================================
