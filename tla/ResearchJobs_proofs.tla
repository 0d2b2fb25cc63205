------------------------- MODULE ResearchJobs_proofs -------------------------
(***************************************************************************)
(* Theorems about ResearchJobs, for every number of jobs, manuscripts and   *)
(* messages, every limit and every combination of faults.                   *)
(***************************************************************************)
EXTENDS ResearchJobs, FiniteSetTheorems, TLAPS

\* A row has its manuscript and its message from the step that inserts it.
RowsComplete ==
  \A j \in JobIds : /\ manuscript[j] = None <=> status[j] = "absent"
                    /\ message[j] = None <=> status[j] = "absent"

\* The inductive invariant.  RowsComplete makes an unused id contribute to no
\* manuscript, which UsageCountsJobs needs; WorkerMatchesRow keeps the worker's
\* writes away from settled rows.
IInv ==
  /\ TypeOK
  /\ RowsComplete
  /\ UniqueMessages
  /\ UsageCountsJobs
  /\ WorkerMatchesRow
-----------------------------------------------------------------------------
(***************************************************************************)
(* What the shared fragments of the worker do to a row.                     *)
(***************************************************************************)
LEMMA OutcomeType ==
  ASSUME NEW e \in Evidence
  PROVE  Outcome(e) \in {"completed", "partial", "failed"}
BY DEF Outcome

LEMMA OutcomeErrorType ==
  ASSUME NEW e \in Evidence, NEW w \in Errors
  PROVE  OutcomeError(e, w) \in Errors
BY DEF OutcomeError, Errors

\* fail_execution writes nothing over a cancellation, and otherwise one of two
\* statuses.
LEMMA FailExecutionStep ==
  ASSUME TypeOK, NEW j \in JobIds, NEW seen \in Open, FailExecution(j, seen)
  PROVE  \E s \in {"failed", seen}, e \in Errors :
            /\ \/ status[j] = "cancelled" /\ UNCHANGED row
               \/ status[j] # "cancelled" /\ Store(j, s, e)
BY DEF FailExecution, TypeOK, Errors

LEMMA FinishStep ==
  ASSUME TypeOK, NEW j \in JobIds, NEW ev \in Evidence, NEW w \in Errors,
         Finish(j, ev, w)
  PROVE  \E s \in {"completed", "partial", "failed", "running"}, e \in Errors :
            /\ \/ status[j] = "cancelled" /\ UNCHANGED row
               \/ status[j] # "cancelled" /\ Store(j, s, e)
<1>1. CASE status[j] = "cancelled"
  BY <1>1 DEF Finish, TypeOK, Errors
<1>2. CASE status[j] # "cancelled" /\ Store(j, Outcome(ev), OutcomeError(ev, w))
  BY <1>2, OutcomeType, OutcomeErrorType
<1>3. CASE FailExecution(j, "running")
  <2>1. "running" \in Open
    BY DEF Open
  <2>2. QED
    BY <1>3, <2>1, FailExecutionStep, Zenon
<1>4. QED
  BY <1>1, <1>2, <1>3 DEF Finish

(***************************************************************************)
(* What every step of a worker has in common: only the job's own row may    *)
(* change, only while it is open, and never to "cancelled"; a job that is   *)
(* running is not queued again; and the task ends or waits in a web round.  *)
(***************************************************************************)
RowWrite(j) ==
  \/ UNCHANGED row
  \/ /\ status[j] \in Open
     /\ \E s \in {"completed", "partial", "failed", "running", status[j]}, e \in Errors :
           Store(j, s, e)

TaskMove(j) ==
  \/ End(j)
  \/ /\ worker' = [worker EXCEPT ![j] = "web"]
     /\ status'[j] \in {"running", "cancelled"}

WorkerStep(j) ==
  /\ worker[j] \in Live
  /\ RowWrite(j)
  /\ TaskMove(j)
  /\ round' \in [JobIds -> 0..MaxRounds]
  /\ evidence' \in [JobIds -> Evidence]
  /\ UNCHANGED <<faults, usage, deleted>>

LEMMA FinishIsRowWrite ==
  ASSUME TypeOK, NEW j \in JobIds, NEW ev \in Evidence, NEW w \in Errors,
         status[j] \in Open \cup {"cancelled"}, Finish(j, ev, w)
  PROVE  RowWrite(j)
<1>1. PICK s \in {"completed", "partial", "failed", "running"}, e \in Errors :
         \/ status[j] = "cancelled" /\ UNCHANGED row
         \/ status[j] # "cancelled" /\ Store(j, s, e)
  BY FinishStep
<1>2. QED
  BY <1>1 DEF RowWrite

LEMMA FailExecutionIsRowWrite ==
  ASSUME TypeOK, NEW j \in JobIds, NEW seen \in {status[j], "running"},
         status[j] \in Open \cup {"cancelled"}, FailExecution(j, seen)
  PROVE  RowWrite(j)
BY DEF FailExecution, RowWrite, TypeOK, Errors

LEMMA BeginIsWorkerStep ==
  ASSUME TypeOK, WorkerMatchesRow, NEW j \in JobIds, NEW e \in Evidence, Begin(j, e)
  PROVE  WorkerStep(j)
<1>1. /\ worker[j] = "scheduled" /\ status[j] \in {"queued", "cancelled"}
      /\ UNCHANGED <<faults, usage, deleted>>
  BY DEF Begin, WorkerMatchesRow
<1>2. CASE status[j] = "cancelled"
  BY <1>1, <1>2 DEF Begin, WorkerStep, RowWrite, TaskMove, Live, TypeOK
<1>3. CASE status[j] # "cancelled" /\ Sufficient(e)
  <2>1. "none" \in Errors /\ status[j] \in Open \cup {"cancelled"}
    BY <1>1 DEF Errors, Open
  <2>2. RowWrite(j)
    BY <1>3, <2>1, FinishIsRowWrite DEF Begin
  <2>3. QED
    BY <1>1, <1>3, <2>2 DEF Begin, WorkerStep, TaskMove, Live, TypeOK
<1>4. CASE status[j] # "cancelled" /\ ~Sufficient(e)
  <2>1. Store(j, "running", error[j]) /\ status[j] \in Open /\ error[j] \in Errors
    BY <1>1, <1>4 DEF Begin, Open, TypeOK
  <2>2. RowWrite(j)
    BY <2>1 DEF RowWrite
  <2>3. status'[j] = "running"
    BY <2>1 DEF Store, TypeOK
  <2>4. 1 \in 0..MaxRounds
    BY ConstantsOK
  <2>5. round' \in [JobIds -> 0..MaxRounds] /\ evidence' \in [JobIds -> Evidence]
    BY <1>1, <1>4, <2>4 DEF Begin, TypeOK
  <2>6. TaskMove(j)
    BY <1>4, <2>3 DEF Begin, TaskMove
  <2>7. QED
    BY <1>1, <2>2, <2>5, <2>6 DEF WorkerStep, Live
<1>5. QED
  BY <1>2, <1>3, <1>4

LEMMA WebReturnsIsWorkerStep ==
  ASSUME TypeOK, WorkerMatchesRow, NEW j \in JobIds, NEW e \in Evidence,
         NEW w \in {"none", "agent_error"}, WebReturns(j, e, w)
  PROVE  WorkerStep(j)
<1>1. /\ worker[j] = "web" /\ status[j] \in {"running", "cancelled"}
      /\ UNCHANGED <<faults, usage, deleted>>
      /\ evidence' \in [JobIds -> Evidence]
  BY DEF WebReturns, WorkerMatchesRow, TypeOK
<1>2. CASE ~Sufficient(e) /\ Expand(j, e)
  <2>1. UNCHANGED <<row, worker>> /\ round' = [round EXCEPT ![j] = @ + 1]
    BY <1>2 DEF WebReturns
  <2>2. round[j] \in 0..MaxRounds /\ round[j] < MaxRounds /\ MaxRounds \in Nat
    BY <1>2, ConstantsOK DEF Expand, TypeOK
  <2>3. round[j] + 1 \in 0..MaxRounds
    BY <2>2
  <2>4. round' \in [JobIds -> 0..MaxRounds]
    BY <2>1, <2>3 DEF TypeOK
  <2>5. TaskMove(j)
    BY <1>1, <2>1 DEF TaskMove, TypeOK, row
  <2>6. QED
    BY <1>1, <2>1, <2>4, <2>5 DEF WorkerStep, RowWrite, Live
<1>3. CASE ~(~Sufficient(e) /\ Expand(j, e))
  <2>1. w \in Errors /\ status[j] \in Open \cup {"cancelled"}
    BY <1>1 DEF Errors, Open
  <2>2. Finish(j, e, w) /\ End(j) /\ UNCHANGED round
    BY <1>3 DEF WebReturns
  <2>3. RowWrite(j)
    BY <2>1, <2>2, FinishIsRowWrite
  <2>4. QED
    BY <1>1, <2>2, <2>3 DEF WorkerStep, TaskMove, Live, TypeOK
<1>4. QED
  BY <1>2, <1>3

LEMMA WorkIsWorkerStep ==
  ASSUME TypeOK, WorkerMatchesRow, NEW j \in JobIds, Work(j)
  PROVE  WorkerStep(j)
<1>1. CASE \E e \in Evidence : Begin(j, e)
  BY <1>1, BeginIsWorkerStep
<1>2. CASE \E e \in Evidence, w \in {"none", "agent_error"} : WebReturns(j, e, w)
  BY <1>2, WebReturnsIsWorkerStep
<1>3. CASE WebRaises(j)
  <2>1. /\ worker[j] = "web" /\ status[j] \in Open \cup {"cancelled"}
        /\ "web_research_failed" \in Errors /\ evidence[j] \in Evidence
        /\ Finish(j, evidence[j], "web_research_failed")
    BY <1>3 DEF WebRaises, WorkerMatchesRow, TypeOK, Open, Errors
  <2>2. RowWrite(j)
    BY <2>1, FinishIsRowWrite
  <2>3. QED
    BY <1>3, <2>2 DEF WebRaises, WorkerStep, TaskMove, Live, TypeOK
<1>4. CASE RunnerRaises(j)
  <2>1. PICK seen \in {status[j], "running"} : FailExecution(j, seen)
    BY <1>4 DEF RunnerRaises
  <2>2. worker[j] \in Live /\ status[j] \in Open \cup {"cancelled"}
    BY <1>4 DEF RunnerRaises, WorkerMatchesRow, Live, Open
  <2>3. RowWrite(j)
    BY <2>1, <2>2, FailExecutionIsRowWrite
  <2>4. QED
    BY <1>4, <2>2, <2>3 DEF RunnerRaises, WorkerStep, TaskMove, TypeOK
<1>5. CASE SetupRaises(j)
  BY <1>5 DEF SetupRaises, WorkerStep, RowWrite, TaskMove, Live, TypeOK
<1>6. QED
  BY <1>1, <1>2, <1>3, <1>4, <1>5 DEF Work
-----------------------------------------------------------------------------
(***************************************************************************)
(* The inductive invariant, one conjunct at a time.                         *)
(***************************************************************************)
LEMMA InitIInv == Init => IInv
<1> SUFFICES ASSUME Init PROVE IInv
  OBVIOUS
<1>1. TypeOK
  <2>1. 0 \in 0..MaxRounds /\ NoEvidence \in Evidence
    <3>1. 0 \in 0..MaxUrls /\ 0 \in 0..MaxRounds
      BY ConstantsOK
    <3>2. QED
      BY <3>1 DEF NoEvidence, Evidence
  <2>2. LegacyStatus \cup {"absent"} \subseteq Statuses
    BY ConstantsOK DEF Statuses
  <2>3. QED
    BY <2>1, <2>2 DEF Init, TypeOK, Errors, Workers
<1>2. RowsComplete /\ UniqueMessages
  BY DEF Init, RowsComplete
<1>3. UsageCountsJobs
  BY DEF Init, UsageCountsJobs
<1>4. WorkerMatchesRow
  BY DEF Init, WorkerMatchesRow
<1>5. QED
  BY <1>1, <1>2, <1>3, <1>4 DEF IInv

LEMMA JobsOfFinite ==
  ASSUME NEW ms
  PROVE  IsFiniteSet(JobsOf(ms)) /\ Cardinality(JobsOf(ms)) \in Nat
<1>1. IsFiniteSet(JobsOf(ms))
  BY ConstantsOK, FS_Subset DEF JobsOf
<1>2. QED
  BY <1>1, FS_CardinalityType

LEMMA JobCountIsCardinality ==
  ASSUME UsageCountsJobs, NEW ms \in Manuscripts
  PROVE  JobCount(ms) = Cardinality(JobsOf(ms))
BY DEF JobCount, UsageCountsJobs

LEMMA RowWriteType ==
  ASSUME TypeOK, NEW j \in JobIds, RowWrite(j)
  PROVE  /\ status' \in [JobIds -> Statuses] /\ error' \in [JobIds -> Errors]
         /\ UNCHANGED <<manuscript, message>>
         /\ \A i \in JobIds \ {j} : status'[i] = status[i] /\ error'[i] = error[i]
         /\ status[j] # "absent" <=> status'[j] # "absent"
<1>1. CASE UNCHANGED row
  BY <1>1 DEF TypeOK, row
<1>2. ASSUME status[j] \in Open, NEW e \in Errors,
             NEW s \in {"completed", "partial", "failed", "running", status[j]},
             Store(j, s, e)
      PROVE  /\ status' \in [JobIds -> Statuses] /\ error' \in [JobIds -> Errors]
             /\ UNCHANGED <<manuscript, message>>
             /\ \A i \in JobIds \ {j} : status'[i] = status[i] /\ error'[i] = error[i]
             /\ status[j] # "absent" <=> status'[j] # "absent"
  BY <1>2 DEF TypeOK, Store, Statuses, Open, Settled, Ready
<1>3. QED
  BY <1>1, <1>2 DEF RowWrite

LEMMA StepTypeOK == IInv /\ [Next]_vars => TypeOK'
<1> SUFFICES ASSUME IInv, [Next]_vars PROVE TypeOK'
  OBVIOUS
<1>0. TypeOK /\ WorkerMatchesRow /\ UsageCountsJobs
  BY DEF IInv
<1>1. ASSUME NEW j \in JobIds, NEW ms \in Manuscripts, NEW m \in Messages, CreateJob(j, ms, m)
      PROVE  TypeOK'
  <2>1. JobCount(ms) + 1 \in Nat
    BY <1>0, JobsOfFinite, JobCountIsCardinality
  <2>2. QED
    BY <1>0, <1>1, <2>1 DEF CreateJob, TypeOK, Statuses, Open, Workers, Live
<1>2. ASSUME NEW j \in JobIds, Cancel(j)
      PROVE  TypeOK'
  BY <1>0, <1>2 DEF Cancel, TypeOK, Statuses, Settled, task
<1>3. ASSUME NEW ms \in Manuscripts, DeleteManuscript(ms)
      PROVE  TypeOK'
  BY <1>0, <1>3 DEF DeleteManuscript, TypeOK, row, task
<1>4. ASSUME NEW j \in JobIds, Work(j)
      PROVE  TypeOK'
  <2>1. WorkerStep(j)
    BY <1>0, <1>4, WorkIsWorkerStep
  <2>2. worker' \in [JobIds -> Workers]
    BY <1>0, <2>1 DEF WorkerStep, TaskMove, End, TypeOK, Workers, Live
  <2>3. QED
    BY <1>0, <2>1, <2>2, RowWriteType DEF WorkerStep, TypeOK
<1>5. CASE Restart
  BY <1>0, <1>5 DEF Restart, TypeOK, row, Workers
<1>6. CASE UNCHANGED vars
  BY <1>0, <1>6 DEF vars, TypeOK
<1>7. QED
  BY <1>1, <1>2, <1>3, <1>4, <1>5, <1>6 DEF Next

LEMMA StepRows == IInv /\ [Next]_vars => (RowsComplete /\ UniqueMessages)'
<1> SUFFICES ASSUME IInv, [Next]_vars PROVE (RowsComplete /\ UniqueMessages)'
  OBVIOUS
<1>0. TypeOK /\ WorkerMatchesRow /\ RowsComplete /\ UniqueMessages
  BY DEF IInv
<1>1. ASSUME NEW j \in JobIds, NEW ms \in Manuscripts, NEW m \in Messages, CreateJob(j, ms, m)
      PROVE  (RowsComplete /\ UniqueMessages)'
  <2>1. None \notin Manuscripts \cup Messages
    BY ConstantsOK
  <2>2. RowsComplete'
    BY <1>0, <1>1, <2>1 DEF CreateJob, TypeOK, RowsComplete
  <2>3. UniqueMessages'
    BY <1>0, <1>1 DEF CreateJob, TypeOK, UniqueMessages, MessageIsNew
  <2>4. QED
    BY <2>2, <2>3
<1>2. ASSUME NEW j \in JobIds, Cancel(j)
      PROVE  (RowsComplete /\ UniqueMessages)'
  BY <1>0, <1>2 DEF Cancel, TypeOK, RowsComplete, UniqueMessages, Open
<1>3. ASSUME NEW ms \in Manuscripts, DeleteManuscript(ms)
      PROVE  (RowsComplete /\ UniqueMessages)'
  BY <1>0, <1>3 DEF DeleteManuscript, RowsComplete, UniqueMessages, row
<1>4. ASSUME NEW j \in JobIds, Work(j)
      PROVE  (RowsComplete /\ UniqueMessages)'
  <2>1. RowWrite(j)
    BY <1>0, <1>4, WorkIsWorkerStep DEF WorkerStep
  <2>2. QED
    BY <1>0, <2>1, RowWriteType DEF RowsComplete, UniqueMessages
<1>5. CASE Restart
  BY <1>0, <1>5 DEF Restart, RowsComplete, UniqueMessages, row
<1>6. CASE UNCHANGED vars
  BY <1>0, <1>6 DEF vars, RowsComplete, UniqueMessages
<1>7. QED
  BY <1>1, <1>2, <1>3, <1>4, <1>5, <1>6 DEF Next

\* Only CreateJob changes which jobs a manuscript has, and it adds one.
LEMMA JobsOfStep ==
  ASSUME IInv, [Next]_vars, NEW ms \in Manuscripts
  PROVE  \/ /\ JobsOf(ms)' = JobsOf(ms)
            /\ usage'[ms] = usage[ms] \/ usage'[ms] = None
         \/ /\ Cardinality(JobsOf(ms)) < MaxJobs
            /\ Cardinality(JobsOf(ms)') = Cardinality(JobsOf(ms)) + 1
            /\ usage'[ms] = Cardinality(JobsOf(ms)) + 1
<1>0. TypeOK /\ WorkerMatchesRow /\ RowsComplete /\ UsageCountsJobs
  BY DEF IInv
<1>1. ASSUME NEW j \in JobIds, NEW mm \in Manuscripts, NEW m \in Messages, CreateJob(j, mm, m)
      PROVE  \/ /\ JobsOf(ms)' = JobsOf(ms)
                /\ usage'[ms] = usage[ms]
             \/ /\ Cardinality(JobsOf(ms)) < MaxJobs
                /\ Cardinality(JobsOf(ms)') = Cardinality(JobsOf(ms)) + 1
                /\ usage'[ms] = Cardinality(JobsOf(ms)) + 1
  <2>1. manuscript[j] = None /\ None \notin Manuscripts
    BY <1>0, <1>1, ConstantsOK DEF CreateJob, RowsComplete
  <2>2. CASE ms = mm
    <3>1. JobsOf(ms)' = JobsOf(ms) \cup {j} /\ j \notin JobsOf(ms)
      BY <1>0, <1>1, <2>1, <2>2 DEF CreateJob, JobsOf, TypeOK
    <3>2. Cardinality(JobsOf(ms)') = Cardinality(JobsOf(ms)) + 1
      BY <3>1, JobsOfFinite, FS_AddElement
    <3>3. JobCount(ms) = Cardinality(JobsOf(ms))
      BY <1>0, JobCountIsCardinality
    <3>4. QED
      BY <1>0, <1>1, <2>2, <3>2, <3>3 DEF CreateJob, TypeOK
  <2>3. CASE ms # mm
    BY <1>0, <1>1, <2>1, <2>3 DEF CreateJob, JobsOf, TypeOK
  <2>4. QED
    BY <2>2, <2>3
<1>2. ASSUME UNCHANGED <<manuscript, usage>>
      PROVE  JobsOf(ms)' = JobsOf(ms) /\ usage'[ms] = usage[ms]
  BY <1>2 DEF JobsOf
<1>3. ASSUME NEW j \in JobIds, Cancel(j) PROVE UNCHANGED <<manuscript, usage>>
  BY <1>3 DEF Cancel
<1>4. ASSUME NEW mm \in Manuscripts, DeleteManuscript(mm) PROVE UNCHANGED <<manuscript, usage>>
  BY <1>4 DEF DeleteManuscript, row
<1>5. ASSUME NEW j \in JobIds, Work(j) PROVE UNCHANGED <<manuscript, usage>>
  BY <1>0, <1>5, WorkIsWorkerStep, RowWriteType DEF WorkerStep
<1>6. CASE Restart
  BY <1>2, <1>6 DEF Restart, row
<1>7. CASE UNCHANGED vars
  BY <1>2, <1>7 DEF vars
<1>8. QED
  BY <1>1, <1>2, <1>3, <1>4, <1>5, <1>6, <1>7 DEF Next

LEMMA StepUsage == IInv /\ [Next]_vars => UsageCountsJobs'
<1> SUFFICES ASSUME IInv, [Next]_vars, NEW ms \in Manuscripts, usage'[ms] # None
             PROVE  usage'[ms] = Cardinality(JobsOf(ms)')
  BY DEF UsageCountsJobs, JobsOf
<1>1. usage[ms] # None => usage[ms] = Cardinality(JobsOf(ms))
  BY DEF IInv, UsageCountsJobs
<1>2. QED
  BY <1>1, JobsOfStep

LEMMA StepWorkerMatchesRow == IInv /\ [Next]_vars => WorkerMatchesRow'
<1> SUFFICES ASSUME IInv, [Next]_vars PROVE WorkerMatchesRow'
  OBVIOUS
<1>0. TypeOK /\ WorkerMatchesRow
  BY DEF IInv
<1>1. ASSUME NEW j \in JobIds, NEW ms \in Manuscripts, NEW m \in Messages, CreateJob(j, ms, m)
      PROVE  WorkerMatchesRow'
  BY <1>0, <1>1 DEF CreateJob, TypeOK, WorkerMatchesRow
<1>2. ASSUME NEW j \in JobIds, Cancel(j)
      PROVE  WorkerMatchesRow'
  BY <1>0, <1>2 DEF Cancel, TypeOK, WorkerMatchesRow, task, Open
<1>3. ASSUME NEW ms \in Manuscripts, DeleteManuscript(ms)
      PROVE  WorkerMatchesRow'
  BY <1>0, <1>3 DEF DeleteManuscript, WorkerMatchesRow, row, task
<1>4. ASSUME NEW j \in JobIds, Work(j)
      PROVE  WorkerMatchesRow'
  <2>1. WorkerStep(j)
    BY <1>0, <1>4, WorkIsWorkerStep
  <2>2. /\ \A i \in JobIds \ {j} : status'[i] = status[i] /\ worker'[i] = worker[i]
        /\ status[j] # "absent" /\ status'[j] # "absent"
    BY <1>0, <2>1, RowWriteType
    DEF WorkerStep, TaskMove, End, TypeOK, WorkerMatchesRow, Live
  <2>3. \/ worker'[j] = "done"
        \/ worker'[j] = "web" /\ status'[j] \in {"running", "cancelled"}
    BY <1>0, <2>1 DEF WorkerStep, TaskMove, End, TypeOK
  <2>4. QED
    BY <1>0, <2>2, <2>3 DEF WorkerMatchesRow
<1>5. CASE Restart
  BY <1>0, <1>5 DEF Restart, TypeOK, WorkerMatchesRow, row, Live
<1>6. CASE UNCHANGED vars
  BY <1>0, <1>6 DEF vars, WorkerMatchesRow
<1>7. QED
  BY <1>1, <1>2, <1>3, <1>4, <1>5, <1>6 DEF Next

LEMMA StepIInv == IInv /\ [Next]_vars => IInv'
BY StepTypeOK, StepRows, StepUsage, StepWorkerMatchesRow DEF IInv

LEMMA Invariance == Spec => []IInv
BY InitIInv, StepIInv, PTL DEF Spec
-----------------------------------------------------------------------------
(***************************************************************************)
(* Theorems                                                                 *)
(***************************************************************************)
\* Every column, counter and task local keeps its type.
THEOREM TypeCorrect == Spec => []TypeOK
<1>1. IInv => TypeOK
  BY DEF IInv
<1>2. QED
  BY <1>1, Invariance, PTL

\* However many tabs post a message, it has at most one job.
THEOREM JobPerMessage == Spec => []OneJobPerMessage
<1>1. IInv => OneJobPerMessage
  BY DEF IInv, OneJobPerMessage
<1>2. QED
  BY <1>1, Invariance, PTL

\* research_usage.job_count is the number of rows, legacy rows included.
THEOREM UsageExact == Spec => []UsageCountsJobs
<1>1. IInv => UsageCountsJobs
  BY DEF IInv
<1>2. QED
  BY <1>1, Invariance, PTL

\* A task that can still write belongs to a row that is open or cancelled.
THEOREM WorkerOwnsOpenRow == Spec => []WorkerMatchesRow
<1>1. IInv => WorkerMatchesRow
  BY DEF IInv
<1>2. QED
  BY <1>1, Invariance, PTL

\* No step takes a manuscript past MaxJobs jobs.
THEOREM Quota == Spec => QuotaHolds
<1>1. IInv /\ [Next]_vars =>
        [\A ms \in Manuscripts :
            JobsOf(ms)' # JobsOf(ms) => Cardinality(JobsOf(ms)) < MaxJobs]_vars
  BY JobsOfStep
<1>2. QED
  BY <1>1, Invariance, PTL DEF Spec, QuotaHolds

\* The only steps that write a job row are a creating POST, a cancel and a worker's.
LEMMA RowWriters ==
  ASSUME [Next]_vars
  PROVE  \/ UNCHANGED row
         \/ \E j \in JobIds, ms \in Manuscripts, m \in Messages : CreateJob(j, ms, m)
         \/ \E j \in JobIds : Cancel(j) \/ Work(j)
BY DEF Next, DeleteManuscript, Restart, vars, row

\* A settled row is never written again.
THEOREM SettledStays == Spec => SettledIsFinal
<1>1. ASSUME IInv, [Next]_vars, NEW i \in JobIds, status[i] \in Settled
      PROVE  status'[i] = status[i] /\ error'[i] = error[i]
  <2>0. TypeOK /\ WorkerMatchesRow /\ status[i] \notin Open \cup {"absent"}
    BY <1>1 DEF IInv, Settled, Ready, Open
  <2>1. ASSUME NEW j \in JobIds, NEW ms \in Manuscripts, NEW m \in Messages, CreateJob(j, ms, m)
        PROVE  status'[i] = status[i] /\ error'[i] = error[i]
    BY <2>0, <2>1 DEF CreateJob, TypeOK
  <2>2. ASSUME NEW j \in JobIds, Cancel(j)
        PROVE  status'[i] = status[i] /\ error'[i] = error[i]
    BY <2>0, <2>2 DEF Cancel, TypeOK
  <2>3. ASSUME NEW j \in JobIds, Work(j)
        PROVE  status'[i] = status[i] /\ error'[i] = error[i]
    <3>1. RowWrite(j)
      BY <2>0, <2>3, WorkIsWorkerStep DEF WorkerStep
    <3>2. CASE UNCHANGED row
      BY <3>2 DEF row
    <3>3. CASE status[j] \in Open
      BY <2>0, <3>1, <3>3, RowWriteType
    <3>4. QED
      BY <3>1, <3>2, <3>3 DEF RowWrite
  <2> QED BY <1>1, <2>1, <2>2, <2>3, RowWriters DEF row
<1>2. IInv /\ [Next]_vars => [KeepsSettledRows]_vars
  BY <1>1 DEF KeepsSettledRows
<1>3. QED
  BY <1>2, Invariance, PTL DEF Spec, SettledIsFinal
-----------------------------------------------------------------------------
(***************************************************************************)
(* A worker touches only its own task.                                      *)
(***************************************************************************)
LEMMA TaskFrame ==
  ASSUME TypeOK, NEW j \in JobIds, Work(j), NEW k \in JobIds, k # j
  PROVE  worker'[k] = worker[k] /\ evidence'[k] = evidence[k] /\ round'[k] = round[k]
BY DEF Work, Begin, WebReturns, WebRaises, RunnerRaises, SetupRaises, End, TypeOK, row

Earned(j) ==
  worker[j] = "web" =>
    /\ round[j] <= MaxRounds
    /\ evidence[j].urls >= round[j] - 1
    /\ ~Sufficient(evidence[j])

LEMMA OwnRoundEarned ==
  ASSUME TypeOK, NEW j \in JobIds, Earned(j), Work(j)
  PROVE  Earned(j)'
<1>1. ASSUME NEW e \in Evidence, Begin(j, e)
      PROVE  Earned(j)'
  <2>1. e.urls \in Nat
    BY ConstantsOK DEF Evidence
  <2>2. CASE worker'[j] = "done"
    BY <2>2 DEF Earned
  <2>3. CASE worker'[j] # "done"
    <3>1. /\ ~Sufficient(e) /\ evidence' = [evidence EXCEPT ![j] = e]
          /\ round' = [round EXCEPT ![j] = 1]
      BY <1>1, <2>3 DEF Begin, End, TypeOK
    <3>2. 1 <= MaxRounds
      BY ConstantsOK
    <3> QED BY <3>2, <2>1, <3>1 DEF Earned, Sufficient, TypeOK
  <2> QED BY <2>2, <2>3
<1>2. ASSUME NEW e \in Evidence, NEW w \in {"none", "agent_error"}, WebReturns(j, e, w)
      PROVE  Earned(j)'
  <2>1. /\ e.urls \in Nat /\ evidence[j].urls \in Nat /\ round[j] \in Nat
        /\ worker[j] = "web" /\ evidence' = [evidence EXCEPT ![j] = e]
    BY <1>2, ConstantsOK DEF WebReturns, Evidence, TypeOK
  <2>2. CASE ~Sufficient(e) /\ Expand(j, e)
    <3>1. /\ round' = [round EXCEPT ![j] = @ + 1] /\ e.urls > evidence[j].urls
          /\ round[j] < MaxRounds
      BY <1>2, <2>2 DEF WebReturns, Expand
    <3>2. round'[j] = round[j] + 1 /\ evidence'[j] = e
      BY <2>1, <3>1 DEF TypeOK
    <3>3. evidence[j].urls >= round[j] - 1
      BY <2>1 DEF Earned
    <3>4. e.urls >= round'[j] - 1
      BY <2>1, <3>1, <3>2, <3>3
    <3>5. round'[j] <= MaxRounds
      BY <2>1, <3>1, <3>2, ConstantsOK
    <3> QED BY <2>2, <3>2, <3>4, <3>5 DEF Earned, Sufficient
  <2>3. CASE ~(~Sufficient(e) /\ Expand(j, e))
    BY <1>2, <2>3 DEF WebReturns, End, Earned, TypeOK
  <2> QED BY <2>2, <2>3
<1>3. CASE WebRaises(j) \/ RunnerRaises(j) \/ SetupRaises(j)
  BY <1>3 DEF WebRaises, RunnerRaises, SetupRaises, End, Earned, TypeOK
<1> QED BY <1>1, <1>2, <1>3 DEF Work

\* Web rounds are only spent while each of them adds a URL, and no more of them than
\* the limit (collect_evidence).
THEOREM RoundsEarned == Spec => []EachRoundEarned
<1>1. Init => EachRoundEarned
  BY DEF Init, EachRoundEarned
<1>2. IInv /\ EachRoundEarned /\ [Next]_vars => EachRoundEarned'
  <2> SUFFICES ASSUME IInv, EachRoundEarned, [Next]_vars, NEW k \in JobIds
               PROVE  Earned(k)'
    BY DEF EachRoundEarned, Earned, Sufficient
  <2>1. TypeOK /\ Earned(k)
    BY DEF IInv, EachRoundEarned, Earned
  <2>2. ASSUME NEW j \in JobIds, Work(j)
        PROVE  Earned(k)'
    <3>1. CASE k = j
      BY <2>1, <2>2, <3>1, OwnRoundEarned
    <3>2. CASE k # j
      BY <2>1, <2>2, <3>2, TaskFrame DEF Earned, Sufficient
    <3> QED BY <3>1, <3>2
  <2>3. ASSUME NEW j \in JobIds, NEW ms \in Manuscripts, NEW m \in Messages, CreateJob(j, ms, m)
        PROVE  Earned(k)'
    BY <2>1, <2>3 DEF CreateJob, Earned, Sufficient, TypeOK
  <2>4. CASE \/ \E j \in JobIds : Cancel(j)
             \/ \E ms \in Manuscripts : DeleteManuscript(ms)
             \/ UNCHANGED vars
    BY <2>1, <2>4 DEF Cancel, DeleteManuscript, vars, task, Earned, Sufficient
  <2>5. CASE Restart
    BY <2>1, <2>5 DEF Restart, Live, Earned, Sufficient
  <2> QED BY <2>2, <2>3, <2>4, <2>5 DEF Next
<1> QED BY <1>1, <1>2, Invariance, PTL DEF Spec
-----------------------------------------------------------------------------
(***************************************************************************)
(* What the row of a task that ended says.                                  *)
(***************************************************************************)
Told(s, e) ==
  /\ s = "completed" => Sufficient(e)
  /\ s = "partial" => e.support /\ ~Sufficient(e)

Reliable == faults \subseteq {"restart"}

Ended(j) ==
  worker[j] = "done" => /\ Told(status[j], evidence[j])
                        /\ Reliable => status[j] \in Settled

LEMMA FinishTells ==
  ASSUME TypeOK, NEW j \in JobIds, status[j] \in Open \cup {"cancelled"},
         NEW ev \in Evidence, NEW w \in Errors, Finish(j, ev, w)
  PROVE  /\ Told(status'[j], ev)
         /\ Reliable => status'[j] \in Settled
<1>1. CASE status[j] = "cancelled"
  BY <1>1 DEF Finish, row, Told, Settled
<1>2. CASE status[j] # "cancelled" /\ Store(j, Outcome(ev), OutcomeError(ev, w))
  BY <1>2 DEF Store, Outcome, Told, Settled, Ready, TypeOK
<1>3. CASE "store" \in faults /\ FailExecution(j, "running")
  <2>1. "running" \in Open
    BY DEF Open
  <2>2. status'[j] \in {"cancelled", "failed", "running"}
    BY <1>3, <2>1, FailExecutionStep DEF Store, row, TypeOK
  <2>3. ~Reliable
    BY <1>3 DEF Reliable
  <2> QED BY <2>2, <2>3 DEF Told
<1> QED BY <1>1, <1>2, <1>3 DEF Finish

LEMMA OwnEnded ==
  ASSUME TypeOK, WorkerMatchesRow, NEW j \in JobIds, Work(j)
  PROVE  Ended(j)'
<1>0. /\ worker[j] \in Live => status[j] \in Open \cup {"cancelled"}
      /\ faults' = faults
  BY WorkIsWorkerStep DEF WorkerMatchesRow, Live, Open, WorkerStep
<1>1. ASSUME NEW e \in Evidence, Begin(j, e)
      PROVE  Ended(j)'
  <2>1. status[j] \in Open \cup {"cancelled"}
    BY <1>0, <1>1 DEF Begin, Live
  <2>2. CASE status[j] = "cancelled"
    BY <1>1, <2>2 DEF Begin, Ended, Told, Settled, row
  <2>3. CASE status[j] # "cancelled" /\ Sufficient(e)
    <3>1. Finish(j, e, "none") /\ evidence'[j] = e
      BY <1>1, <2>3 DEF Begin, TypeOK
    <3>2. "none" \in Errors
      BY DEF Errors
    <3> QED BY <1>0, <2>1, <3>1, <3>2, FinishTells DEF Ended, Told, Reliable, Sufficient
  <2>4. CASE status[j] # "cancelled" /\ ~Sufficient(e)
    BY <1>1, <2>4 DEF Begin, Ended, TypeOK
  <2> QED BY <2>2, <2>3, <2>4
<1>2. ASSUME NEW e \in Evidence, NEW w \in {"none", "agent_error"}, WebReturns(j, e, w)
      PROVE  Ended(j)'
  <2>1. status[j] \in Open \cup {"cancelled"} /\ w \in Errors
    BY <1>0, <1>2 DEF WebReturns, Live, Errors
  <2>2. CASE worker'[j] # "done"
    BY <2>2 DEF Ended
  <2>3. CASE worker'[j] = "done"
    <3>1. Finish(j, e, w) /\ evidence'[j] = e
      BY <1>2, <2>3 DEF WebReturns, TypeOK
    <3> QED BY <1>0, <2>1, <3>1, FinishTells DEF Ended, Told, Reliable, Sufficient
  <2> QED BY <2>2, <2>3
<1>3. CASE WebRaises(j)
  <2>1. /\ Finish(j, evidence[j], "web_research_failed") /\ evidence' = evidence
        /\ status[j] \in Open \cup {"cancelled"} /\ "web_research_failed" \in Errors
        /\ evidence[j] \in Evidence
    BY <1>0, <1>3 DEF WebRaises, Live, Errors, TypeOK
  <2> QED BY <1>0, <2>1, FinishTells DEF Ended, Told, Reliable, Sufficient
<1>4. CASE RunnerRaises(j)
  <2>1. PICK seen \in {status[j], "running"} : FailExecution(j, seen)
    BY <1>4 DEF RunnerRaises
  <2>2. status[j] \in Open \cup {"cancelled"}
    BY <1>0, <1>4 DEF RunnerRaises, Live
  <2>3. status'[j] \in {"cancelled", "failed"} \cup Open
    BY <2>1, <2>2 DEF FailExecution, Store, row, Open, TypeOK
  <2>4. Reliable => status'[j] \in {"cancelled", "failed"}
    BY <2>1 DEF FailExecution, Store, row, Reliable, TypeOK
  <2> QED BY <1>0, <2>3, <2>4 DEF Ended, Told, Reliable, Open, Settled
<1>5. CASE SetupRaises(j)
  <2>1. ~Reliable /\ status'[j] = status[j] /\ status[j] \in Open \cup {"cancelled"}
    BY <1>0, <1>5 DEF SetupRaises, Reliable, row, Live
  <2> QED BY <1>0, <2>1 DEF Ended, Told, Reliable, Open
<1> QED BY <1>1, <1>2, <1>3, <1>4, <1>5 DEF Work

LEMMA EndedInvariant == Spec => [](\A j \in JobIds : Ended(j))
<1>1. Init => \A j \in JobIds : Ended(j)
  BY DEF Init, Ended
<1>2. IInv /\ (\A j \in JobIds : Ended(j)) /\ [Next]_vars => (\A j \in JobIds : Ended(j))'
  <2> SUFFICES ASSUME IInv, \A j \in JobIds : Ended(j), [Next]_vars, NEW k \in JobIds
               PROVE  Ended(k)'
    OBVIOUS
  <2>1. TypeOK /\ WorkerMatchesRow /\ Ended(k)
    BY DEF IInv
  <2>2. ASSUME NEW j \in JobIds, Work(j)
        PROVE  Ended(k)'
    <3>1. CASE k = j
      BY <2>1, <2>2, <3>1, OwnEnded
    <3>2. CASE k # j
      <4>1. faults' = faults /\ status'[k] = status[k]
        BY <2>1, <2>2, <3>2, WorkIsWorkerStep, RowWriteType DEF WorkerStep
      <4> QED BY <2>1, <2>2, <3>2, <4>1, TaskFrame DEF Ended, Told, Reliable, Sufficient
    <3> QED BY <3>1, <3>2
  <2>3. ASSUME NEW j \in JobIds, NEW ms \in Manuscripts, NEW m \in Messages, CreateJob(j, ms, m)
        PROVE  Ended(k)'
    BY <2>1, <2>3 DEF CreateJob, Ended, Told, Reliable, Sufficient, TypeOK
  <2>4. ASSUME NEW j \in JobIds, Cancel(j)
        PROVE  Ended(k)'
    BY <2>1, <2>4 DEF Cancel, task, Ended, Told, Reliable, Sufficient, Settled, TypeOK
  <2>5. CASE (\E ms \in Manuscripts : DeleteManuscript(ms)) \/ UNCHANGED vars
    BY <2>1, <2>5 DEF DeleteManuscript, vars, row, task, Ended, Told, Reliable, Sufficient
  <2>6. CASE Restart
    BY <2>1, <2>6 DEF Restart, row, Ended, Told, Reliable, Sufficient
  <2> QED BY <2>2, <2>3, <2>4, <2>5, <2>6 DEF Next
<1> QED BY <1>1, <1>2, Invariance, PTL DEF Spec

\* A ready job has the evidence its status claims (decide_job_outcome, finish,
\* recover_after_rollback).
THEOREM ReadyHasEvidence == Spec => []ReadyJobHasEvidence
<1>1. (\A j \in JobIds : Ended(j)) => ReadyJobHasEvidence
  BY DEF Ended, Told, ReadyJobHasEvidence
<1> QED BY <1>1, EndedInvariant, PTL

\* A task that ended has settled its job, as long as commits and the set-up
\* succeed (run_research_job, fail_execution).
THEOREM FinishedSettled == Spec => []FinishedTaskSettledJob
<1>1. (\A j \in JobIds : Ended(j)) => FinishedTaskSettledJob
  BY DEF Ended, Reliable, FinishedTaskSettledJob
<1> QED BY <1>1, EndedInvariant, PTL
-----------------------------------------------------------------------------
(***************************************************************************)
(* The rows implement JobLifecycle.                                         *)
(***************************************************************************)
LEMMA SameStatuses ==
  /\ Lifecycle!Settled = Settled /\ Lifecycle!Open = Open
  /\ Lifecycle!Statuses = Statuses
BY DEF Lifecycle!Settled, Lifecycle!Open, Lifecycle!Statuses, Settled, Ready, Open, Statuses

LEMMA RowWriteRefines ==
  ASSUME TypeOK, NEW j \in JobIds, RowWrite(j)
  PROVE  [Lifecycle!Next]_status
<1>1. CASE UNCHANGED row
  BY <1>1 DEF row
<1>2. ASSUME status[j] \in Open, NEW e \in Errors,
             NEW s \in {"completed", "partial", "failed", "running", status[j]},
             Store(j, s, e)
      PROVE  [Lifecycle!Next]_status
  <2>1. status' = [status EXCEPT ![j] = s]
    BY <1>2 DEF Store
  <2>2. CASE s = status[j]
    BY <2>1, <2>2 DEF TypeOK
  <2>3. CASE s = "running" /\ status[j] = "queued"
    <3>1. Lifecycle!Start(j)
      BY <2>1, <2>3 DEF Lifecycle!Start, Lifecycle!Move
    <3>2. QED
      BY <3>1 DEF Lifecycle!Next
  <2>4. CASE s \in Settled
    <3>1. Lifecycle!Settle(j, s)
      BY <1>2, <2>1, SameStatuses DEF Lifecycle!Settle, Lifecycle!Move
    <3>2. QED
      BY <2>4, <3>1, SameStatuses DEF Lifecycle!Next
  <2>5. QED
    BY <1>2, <2>2, <2>3, <2>4 DEF Open, Settled, Ready
<1>3. QED
  BY <1>1, <1>2 DEF RowWrite

\* The service and its workers implement the documented life cycle: under every
\* interleaving of requests, workers, failures and restarts.
THEOREM ImplementsLifecycle == Spec => LifecycleSpec
<1>1. Init => Lifecycle!Init
  <2>1. LegacyStatus \cup {"absent"} \subseteq Statuses
    BY ConstantsOK DEF Statuses
  <2>2. QED
    BY <2>1, SameStatuses DEF Init, Lifecycle!Init
<1>2. IInv /\ [Next]_vars => [Lifecycle!Next]_status
  <2> SUFFICES ASSUME IInv, [Next]_vars PROVE [Lifecycle!Next]_status
    OBVIOUS
  <2>0. TypeOK /\ WorkerMatchesRow
    BY DEF IInv
  <2>1. ASSUME NEW j \in JobIds, NEW ms \in Manuscripts, NEW m \in Messages, CreateJob(j, ms, m)
        PROVE  [Lifecycle!Next]_status
    <3>1. Lifecycle!Submit(j)
      BY <2>1 DEF CreateJob, Lifecycle!Submit, Lifecycle!Move
    <3>2. QED
      BY <3>1 DEF Lifecycle!Next
  <2>2. ASSUME NEW j \in JobIds, Cancel(j)
        PROVE  [Lifecycle!Next]_status
    <3>1. Lifecycle!Settle(j, "cancelled") /\ "cancelled" \in Settled
      BY <2>2, SameStatuses DEF Cancel, Lifecycle!Settle, Lifecycle!Move, Settled
    <3>2. QED
      BY <3>1, SameStatuses DEF Lifecycle!Next
  <2>3. ASSUME NEW j \in JobIds, Work(j)
        PROVE  [Lifecycle!Next]_status
    BY <2>0, <2>3, WorkIsWorkerStep, RowWriteRefines DEF WorkerStep
  <2> QED BY <2>1, <2>2, <2>3, RowWriters DEF row
<1>3. QED
  BY <1>1, <1>2, Invariance, PTL DEF Spec, LifecycleSpec, Lifecycle!Spec
-----------------------------------------------------------------------------
(***************************************************************************)
(* A job ends by itself                                                     *)
(***************************************************************************)
\* How many steps the task w of a job in round r may still take.
Rank(w, r) ==
  CASE w = "none" -> MaxRounds + 2
    [] w = "scheduled" -> MaxRounds + 1
    [] w = "web" -> MaxRounds + 1 - r
    [] OTHER -> 0

SlicesLeft(j) == Rank(worker[j], round[j])

\* Every slice of a job's task leaves it fewer, and nothing ever gives it more: no
\* other job, no request and no restart.
SlicesRunOut ==
  \A j \in JobIds : /\ SlicesLeft(j) \in 0..(MaxRounds + 2)
                    /\ SlicesLeft(j)' <= SlicesLeft(j)
                    /\ Work(j) => SlicesLeft(j)' < SlicesLeft(j)

LEMMA RankOK ==
  ASSUME NEW w \in Workers, NEW r \in 0..MaxRounds
  PROVE  /\ MaxRounds \in Nat /\ Rank(w, r) \in 0..(MaxRounds + 2)
         /\ w \in {"done", "lost"} => Rank(w, r) = 0
         /\ w \in Live => Rank(w, r) \in 1..(MaxRounds + 1)
BY ConstantsOK DEF Rank, Workers, Live

LEMMA WorkLessens ==
  ASSUME TypeOK, NEW j \in JobIds, Work(j)
  PROVE  SlicesLeft(j)' \in Nat /\ SlicesLeft(j)' < SlicesLeft(j)
<1>1. /\ worker \in [JobIds -> Workers] /\ worker[j] \in Workers
      /\ round \in [JobIds -> 0..MaxRounds] /\ round[j] \in 0..MaxRounds
      /\ MaxRounds \in Nat /\ MaxRounds > 0
  BY ConstantsOK DEF TypeOK
<1>2. worker[j] \in Live
  BY DEF Work, Begin, WebReturns, WebRaises, RunnerRaises, SetupRaises, Live
<1>3. \/ worker'[j] = "done"
      \/ worker[j] = "scheduled" /\ worker'[j] = "web" /\ round'[j] = 1
      \/ worker[j] = "web" /\ worker'[j] = "web" /\ round[j] < MaxRounds
         /\ round'[j] = round[j] + 1
  <2>1. ASSUME End(j) PROVE worker'[j] = "done"
    BY <1>1, <2>1 DEF End
  <2>2. ASSUME NEW e \in Evidence, Begin(j, e)
        PROVE  \/ worker'[j] = "done"
               \/ worker[j] = "scheduled" /\ worker'[j] = "web" /\ round'[j] = 1
    BY <1>1, <2>1, <2>2 DEF Begin
  <2>3. ASSUME NEW e \in Evidence, NEW w \in {"none", "agent_error"}, WebReturns(j, e, w)
        PROVE  \/ worker'[j] = "done"
               \/ worker[j] = "web" /\ worker'[j] = "web" /\ round[j] < MaxRounds
                  /\ round'[j] = round[j] + 1
    BY <1>1, <2>1, <2>3 DEF WebReturns, Expand
  <2>4. CASE WebRaises(j) \/ RunnerRaises(j) \/ SetupRaises(j)
    BY <2>1, <2>4 DEF WebRaises, RunnerRaises, SetupRaises
  <2> QED BY <2>2, <2>3, <2>4 DEF Work
<1>4. SlicesLeft(j)' = Rank(worker'[j], round'[j])
  BY DEF SlicesLeft, Rank
<1> QED BY <1>1, <1>2, <1>3, <1>4 DEF SlicesLeft, Rank, Live

\* What JobsSettle rests on: the rounds of a job are over after a bounded number of
\* slices of its task, for any number of rounds and jobs, in every environment.
THEOREM JobsEnd == Spec => [][SlicesRunOut]_vars
<1>1. IInv /\ [Next]_vars => [SlicesRunOut]_vars
  <2> SUFFICES ASSUME IInv, Next, NEW j \in JobIds
               PROVE  /\ SlicesLeft(j) \in 0..(MaxRounds + 2)
                      /\ SlicesLeft(j)' <= SlicesLeft(j)
                      /\ Work(j) => SlicesLeft(j)' < SlicesLeft(j)
    BY DEF SlicesRunOut
  <2>0. /\ TypeOK /\ WorkerMatchesRow
        /\ worker \in [JobIds -> Workers] /\ worker[j] \in Workers
        /\ round[j] \in 0..MaxRounds
    BY DEF IInv, TypeOK
  <2>1. SlicesLeft(j) \in 0..(MaxRounds + 2) /\ MaxRounds \in Nat
    BY <2>0, RankOK DEF SlicesLeft
  <2>2. SlicesLeft(j)' = Rank(worker'[j], round'[j])
    BY DEF SlicesLeft, Rank
  <2>3. ASSUME worker'[j] = worker[j], round'[j] = round[j]
        PROVE  SlicesLeft(j)' = SlicesLeft(j)
    BY <2>2, <2>3 DEF SlicesLeft
  <2>4. SlicesLeft(j)' <= SlicesLeft(j)
    <3>1. ASSUME NEW i \in JobIds, NEW ms \in Manuscripts, NEW m \in Messages, CreateJob(i, ms, m)
          PROVE  SlicesLeft(j)' <= SlicesLeft(j)
      <4>1. CASE i # j
        BY <2>0, <2>1, <2>3, <3>1, <4>1 DEF CreateJob
      <4>2. CASE i = j
        <5>1. worker[j] = "none" /\ worker'[j] = "scheduled"
          BY <2>0, <3>1, <4>2 DEF CreateJob, WorkerMatchesRow
        <5> QED BY <2>1, <2>2, <5>1 DEF SlicesLeft, Rank
      <4> QED BY <4>1, <4>2
    <3>2. CASE (\E i \in JobIds : Cancel(i)) \/ \E ms \in Manuscripts : DeleteManuscript(ms)
      BY <2>1, <2>3, <3>2 DEF Cancel, DeleteManuscript, task
    <3>3. ASSUME NEW i \in JobIds, Work(i)
          PROVE  SlicesLeft(j)' <= SlicesLeft(j)
      <4>1. CASE i # j
        BY <2>0, <2>1, <2>3, <3>3, <4>1, TaskFrame
      <4>2. CASE i = j
        <5>1. SlicesLeft(j)' < SlicesLeft(j) /\ SlicesLeft(j)' \in Nat
          BY <2>0, <3>3, <4>2, WorkLessens
        <5> QED BY <2>1, <5>1
      <4> QED BY <4>1, <4>2
    <3>4. CASE Restart
      <4>1. CASE worker[j] \in Live
        BY <2>0, <2>1, <2>2, <3>4, <4>1 DEF Restart, Rank
      <4>2. CASE worker[j] \notin Live
        BY <2>0, <2>1, <2>3, <3>4, <4>2 DEF Restart
      <4> QED BY <4>1, <4>2
    <3> QED BY <3>1, <3>2, <3>3, <3>4 DEF Next
  <2> QED BY <2>0, <2>1, <2>4, WorkLessens
<1> QED BY <1>1, Invariance, PTL DEF Spec
=============================================================================
