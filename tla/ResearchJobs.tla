---------------------------- MODULE ResearchJobs ----------------------------
(***************************************************************************)
(* The research-job service and its background worker: the REST handlers    *)
(* that create and cancel jobs (app/services/research_job_service.py,       *)
(* app/api/endpoints/research.py), the asyncio task that runs one job       *)
(* (app/research/research_job_runner.py, research_job_context.py,           *)
(* research_job_stages.py) and the rows they share.                         *)
(*                                                                         *)
(* One process runs one event loop, so code between two awaits is one       *)
(* step.  A worker suspends only in `await web_research(...)`; everything   *)
(* from one such await to the next, or to the end, is one action.           *)
(***************************************************************************)
EXTENDS Integers, FiniteSets

CONSTANTS
  JobIds,        \* ids of research_jobs rows
  Manuscripts,
  WebConcepts,   \* manuscripts whose concept allows web research
  Messages,      \* chat message ids a client may post
  None,          \* no row, or no value
  MaxJobs,       \* MAX_RESEARCH_JOBS_PER_MANUSCRIPT
  MaxRounds,     \* MAX_WEB_EXPAND_ROUNDS
  MinUrls,       \* MIN_DISTINCT_RELEVANT_URLS
  MaxUrls,       \* bound: most distinct relevant URLs one retrieval returns
  LegacyStatus,  \* statuses of the rows an earlier process left behind
  Environments   \* the sets of faults behaviours are examined under

FaultKinds == {"restart",   \* the process dies and the container restarts it
               "setup",     \* execute_research_job raises before the runner starts
               "store"}     \* a commit of the job session raises

Ready    == {"completed", "partial"}           \* _EVIDENCE_READY_STATUSES
Settled  == Ready \cup {"failed", "cancelled"}
Open     == {"queued", "running"}
Statuses == Open \cup Settled \cup {"absent"}
Errors   == {"none", "insufficient_evidence", "web_research_failed",
             "agent_error", "job_execution_error"}

(***************************************************************************)
(* What a retrieval tells the stages: how many distinct relevant URLs it    *)
(* found and whether any relevant chunk supports the claim.                 *)
(***************************************************************************)
Evidence == {e \in [urls : 0..MaxUrls, support : BOOLEAN] : e.urls > 0 => e.support}
NoEvidence == [urls |-> 0, support |-> FALSE]
Sufficient(e) == e.urls >= MinUrls

ASSUME ConstantsOK ==
  /\ IsFiniteSet(JobIds)
  /\ WebConcepts \subseteq Manuscripts
  /\ None \notin Manuscripts \cup Messages \cup Nat
  /\ MaxJobs \in Nat /\ MaxRounds \in Nat \ {0}
  /\ MinUrls \in Nat \ {0} /\ MaxUrls \in Nat
  /\ LegacyStatus \subseteq Statuses \ {"absent"}
  /\ Environments \subseteq SUBSET FaultKinds

VARIABLES
  faults,                              \* the faults of this behaviour; never changes
  status, manuscript, message, error,  \* columns of research_jobs
  usage,                               \* research_usage.job_count, None without a row
  deleted,                             \* manuscripts.is_deleted
  worker,                              \* the task of each job
  round, evidence                      \* locals of the task

row  == <<status, manuscript, message, error>>
task == <<worker, round, evidence>>
vars == <<faults, status, manuscript, message, error, usage, deleted, worker, round, evidence>>

Live    == {"scheduled", "web"}
Workers == Live \cup {"none", "done", "lost"}

TypeOK ==
  /\ faults \in Environments
  /\ status \in [JobIds -> Statuses]
  /\ manuscript \in [JobIds -> Manuscripts \cup {None}]
  /\ message \in [JobIds -> Messages \cup {None}]
  /\ error \in [JobIds -> Errors]
  /\ usage \in [Manuscripts -> Nat \cup {None}]
  /\ deleted \in [Manuscripts -> BOOLEAN]
  /\ worker \in [JobIds -> Workers]
  /\ round \in [JobIds -> 0..MaxRounds]
  /\ evidence \in [JobIds -> Evidence]

JobsOf(ms) == {j \in JobIds : manuscript[j] = ms}

UniqueMessages ==
  \A i, j \in JobIds : message[i] = message[j] /\ message[i] # None => i = j

(***************************************************************************)
(* create_all adds missing tables only, so the process may start over job    *)
(* rows that have no research_usage row and no task.                        *)
(***************************************************************************)
Init ==
  /\ faults \in Environments
  /\ status \in [JobIds -> LegacyStatus \cup {"absent"}]
  /\ manuscript \in [JobIds -> Manuscripts \cup {None}]
  /\ message \in [JobIds -> Messages \cup {None}]
  /\ \A j \in JobIds : /\ manuscript[j] = None <=> status[j] = "absent"
                       /\ message[j] = None <=> status[j] = "absent"
  /\ UniqueMessages
  /\ error = [j \in JobIds |-> "none"]
  /\ usage = [ms \in Manuscripts |-> None]
  /\ deleted = [ms \in Manuscripts |-> FALSE]
  /\ worker = [j \in JobIds |-> IF status[j] = "absent" THEN "none" ELSE "lost"]
  /\ round = [j \in JobIds |-> 0]
  /\ evidence = [j \in JobIds |-> NoEvidence]
-----------------------------------------------------------------------------
(***************************************************************************)
(* Request handlers                                                         *)
(***************************************************************************)
\* Mutations: a missing row seeded with 0; finished jobs not counted.
JobCountUnseeded(ms) == IF usage[ms] = None THEN 0 ELSE usage[ms]
JobCountOpen(ms)     == Cardinality({j \in JobsOf(ms) : status[j] \in Open})

\* The job_count the handler reads: a missing usage row is seeded by counting.
JobCount(ms) == IF usage[ms] = None THEN Cardinality(JobsOf(ms)) ELSE usage[ms]

\* Mutation: only an unfinished job blocks a second one.
MessageHasNoOpenJob(m) == \A j \in JobIds : message[j] = m => status[j] \notin Open

\* An existing row of this manuscript is returned as it is; a row of another
\* manuscript trips the unique column and the request fails.
MessageIsNew(m) == \A j \in JobIds : message[j] # m

\* POST /jobs.  Every early return and every raise leaves the tables as they
\* were (the session is rolled back), so only the creating path is a step.
CreateJob(j, ms, m) ==
  /\ ~deleted[ms]
  /\ ms \in WebConcepts
  /\ MessageIsNew(m)
  /\ JobCount(ms) < MaxJobs
  /\ status[j] = "absent"
  /\ status' = [status EXCEPT ![j] = "queued"]
  /\ manuscript' = [manuscript EXCEPT ![j] = ms]
  /\ message' = [message EXCEPT ![j] = m]
  /\ usage' = [usage EXCEPT ![ms] = JobCount(ms) + 1]
  /\ worker' = [worker EXCEPT ![j] = "scheduled"]
  /\ UNCHANGED <<faults, error, deleted, round, evidence>>

\* Mutation: mark_cancelled without its check for settled jobs.
CancelAnything(j) ==
  /\ status[j] \notin {"absent", "cancelled"}
  /\ ~deleted[manuscript[j]]
  /\ status' = [status EXCEPT ![j] = "cancelled"]
  /\ UNCHANGED <<faults, manuscript, message, error, usage, deleted, task>>

\* POST /jobs/{id}/cancel: a settled job is returned unchanged.
Cancel(j) ==
  /\ status[j] \in Open
  /\ ~deleted[manuscript[j]]
  /\ status' = [status EXCEPT ![j] = "cancelled"]
  /\ UNCHANGED <<faults, manuscript, message, error, usage, deleted, task>>

\* DELETE /manuscripts/{id} hides the manuscript; its jobs keep running.
DeleteManuscript(ms) ==
  /\ ~deleted[ms]
  /\ deleted' = [deleted EXCEPT ![ms] = TRUE]
  /\ UNCHANGED <<faults, row, usage, task>>
-----------------------------------------------------------------------------
(***************************************************************************)
(* The worker.  Store(j, s, e) is a commit of the job row.                  *)
(***************************************************************************)
Store(j, s, e) ==
  /\ status' = [status EXCEPT ![j] = s]
  /\ error' = [error EXCEPT ![j] = e]
  /\ UNCHANGED <<manuscript, message>>

\* Mutations: fail_execution that does not re-read the row; that only logs.
FailExecutionBlind(j, seen) == Store(j, "failed", "job_execution_error")
FailExecutionLogs(j, seen)  == UNCHANGED row

\* fail_execution: a cancelled job stays cancelled, a second failure is swallowed.
FailExecution(j, seen) ==
  IF status[j] = "cancelled"
  THEN UNCHANGED row
  ELSE \/ Store(j, "failed", "job_execution_error")
       \/ "store" \in faults /\ Store(j, seen, error[j])

\* Mutation: one URL short still counts as complete.
OutcomeLenient(e) == IF e.urls >= MinUrls - 1 THEN "completed"
                     ELSE IF e.support THEN "partial" ELSE "failed"

Outcome(e) == IF Sufficient(e) THEN "completed"
              ELSE IF e.support THEN "partial" ELSE "failed"

OutcomeError(e, webError) ==
  IF e.support THEN "none"
  ELSE IF webError = "none" THEN "insufficient_evidence" ELSE webError

\* The tail of run_research_job: cancelled(), decide_job_outcome,
\* reload_if_active and finish, with no await in between.
Finish(j, e, webError) ==
  IF status[j] = "cancelled"
  THEN UNCHANGED row
  ELSE \/ Store(j, Outcome(e), OutcomeError(e, webError))
       \/ "store" \in faults /\ FailExecution(j, "running")

End(j) == worker' = [worker EXCEPT ![j] = "done"]

\* The first slice: begin() commits RUNNING, the index is searched, and the
\* job either finishes on what is already indexed or suspends in round 1.
Begin(j, e) ==
  /\ worker[j] = "scheduled"
  /\ IF status[j] = "cancelled"
     THEN End(j) /\ UNCHANGED <<row, round, evidence>>
     ELSE /\ evidence' = [evidence EXCEPT ![j] = e]
          /\ IF Sufficient(e)
             THEN Finish(j, e, "none") /\ End(j) /\ UNCHANGED round
             ELSE /\ Store(j, "running", error[j])
                  /\ worker' = [worker EXCEPT ![j] = "web"]
                  /\ round' = [round EXCEPT ![j] = 1]
  /\ UNCHANGED <<faults, usage, deleted>>

\* Mutation: a round that adds nothing is repeated.
ExpandOnTie(j, e) == e.urls >= evidence[j].urls /\ round[j] < MaxRounds

\* Another web round is worth it: still short, but the last one added a URL.
Expand(j, e) == e.urls > evidence[j].urls /\ round[j] < MaxRounds

\* Mutation: the interim result is stored before the next round.
WebReturnsInterim(j, e, webError) ==
  /\ worker[j] = "web"
  /\ evidence' = [evidence EXCEPT ![j] = e]
  /\ Finish(j, e, webError)
  /\ IF ~Sufficient(e) /\ Expand(j, e)
     THEN round' = [round EXCEPT ![j] = @ + 1] /\ UNCHANGED worker
     ELSE End(j) /\ UNCHANGED round
  /\ UNCHANGED <<faults, usage, deleted>>

\* web_research returned and the index was searched again.  Cancellation is
\* looked at only when the rounds are over.
WebReturns(j, e, webError) ==
  /\ worker[j] = "web"
  /\ evidence' = [evidence EXCEPT ![j] = e]
  /\ IF ~Sufficient(e) /\ Expand(j, e)
     THEN /\ round' = [round EXCEPT ![j] = @ + 1]
          /\ UNCHANGED <<row, worker>>
     ELSE Finish(j, e, webError) /\ End(j) /\ UNCHANGED round
  /\ UNCHANGED <<faults, usage, deleted>>

\* Mutation: the runner gives up after the rollback.
WebRaisesReturn(j) ==
  /\ worker[j] = "web"
  /\ End(j)
  /\ UNCHANGED <<faults, row, usage, deleted, round, evidence>>

\* web_research raised: roll back, recover_after_rollback (RUNNING again unless
\* cancelled), then decide on the evidence of the previous retrieval.
WebRaises(j) ==
  /\ worker[j] = "web"
  /\ Finish(j, evidence[j], "web_research_failed")
  /\ End(j)
  /\ UNCHANGED <<faults, usage, deleted, round, evidence>>

\* Any other exception of the runner: embed_query or a commit raises, in the
\* first slice (with the row still queued, or already running) or after a round.
RunnerRaises(j) ==
  /\ \/ worker[j] = "scheduled" /\ status[j] # "cancelled"
     \/ worker[j] = "web"
  /\ \E seen \in {status[j], "running"} : FailExecution(j, seen)
  /\ End(j)
  /\ UNCHANGED <<faults, usage, deleted, round, evidence>>

\* execute_research_job raises while it assembles its dependencies: the
\* registry logs the exception and nobody touches the row.
SetupRaises(j) ==
  /\ "setup" \in faults
  /\ worker[j] = "scheduled"
  /\ End(j)
  /\ UNCHANGED <<faults, row, usage, deleted, round, evidence>>

\* The process dies: every task is gone, every committed row stays, and start-up
\* does not look at jobs.
Restart ==
  /\ "restart" \in faults
  /\ \E j \in JobIds : worker[j] \in Live
  /\ worker' = [j \in JobIds |-> IF worker[j] \in Live THEN "lost" ELSE worker[j]]
  /\ UNCHANGED <<faults, row, usage, deleted, round, evidence>>

Work(j) ==
  \/ \E e \in Evidence : Begin(j, e)
  \/ \E e \in Evidence, w \in {"none", "agent_error"} : WebReturns(j, e, w)
  \/ WebRaises(j)
  \/ RunnerRaises(j)
  \/ SetupRaises(j)

Next ==
  \/ \E j \in JobIds, ms \in Manuscripts, m \in Messages : CreateJob(j, ms, m)
  \/ \E j \in JobIds : Cancel(j)
  \/ \E ms \in Manuscripts : DeleteManuscript(ms)
  \/ \E j \in JobIds : Work(j)
  \/ Restart

Spec == Init /\ [][Next]_vars

(***************************************************************************)
(* The event loop runs every ready task, and web_research ends by itself:    *)
(* the agent's recursion limit and the HTTP timeouts bound it.               *)
(***************************************************************************)
FairSpec == Spec /\ \A j \in JobIds : WF_vars(Work(j))
-----------------------------------------------------------------------------
(***************************************************************************)
(* Properties                                                               *)
(***************************************************************************)
\* A chat message has at most one job, whoever posts it and however often, so
\* two tabs or a repeated request never start two investigations.
OneJobPerMessage == UniqueMessages

\* The usage counter agrees with the rows it counts, for manuscripts that had
\* jobs before the counter existed too.
UsageCountsJobs ==
  \A ms \in Manuscripts : usage[ms] # None => usage[ms] = Cardinality(JobsOf(ms))

\* No step adds a job to a manuscript that already has MaxJobs of them
\* (create_or_get_research_job's limit counts jobs of every status).
QuotaHolds ==
  [][\A ms \in Manuscripts :
        JobsOf(ms)' # JobsOf(ms) => Cardinality(JobsOf(ms)) < MaxJobs]_vars

\* A task that can still write belongs to a row nobody has settled but by
\* cancelling it: the worker never owns a job that is already reported done.
WorkerMatchesRow ==
  \A j \in JobIds :
    /\ worker[j] = "scheduled" => status[j] \in {"queued", "cancelled"}
    /\ worker[j] = "web" => status[j] \in {"running", "cancelled"}
    /\ worker[j] = "none" <=> status[j] = "absent"

\* Once a client can read a settled status (or a cancellation was confirmed), no
\* late result, rollback recovery or exception handler changes the row.
KeepsSettledRows ==
  \A j \in JobIds : status[j] \in Settled =>
     status'[j] = status[j] /\ error'[j] = error[j]
SettledIsFinal == [][KeepsSettledRows]_vars

\* Round k+1 runs only after k rounds that each added a relevant URL: web calls
\* are never spent on a search that stopped growing, nor beyond the limit of rounds.
EachRoundEarned ==
  \A j \in JobIds : worker[j] = "web" =>
    /\ round[j] <= MaxRounds
    /\ evidence[j].urls >= round[j] - 1
    /\ ~Sufficient(evidence[j])

\* What the row reports is what the last retrieval found, also when a failed web
\* round was rolled back: "completed" and "partial" are never claimed without it.
ReadyJobHasEvidence ==
  \A j \in JobIds : worker[j] = "done" =>
    /\ status[j] = "completed" => Sufficient(evidence[j])
    /\ status[j] = "partial" => evidence[j].support /\ ~Sufficient(evidence[j])

\* The rows implement the life cycle the design documents state.
Lifecycle == INSTANCE JobLifecycle WITH Jobs <- JobIds
LifecycleSpec == Lifecycle!Spec

\* While no commit fails and the set-up succeeds, a task that ended has settled
\* its job, whatever raised in it and whether or not it was cancelled.
FinishedTaskSettledJob ==
  faults \subseteq {"restart"} =>
    \A j \in JobIds : worker[j] = "done" => status[j] \in Settled

\* Every accepted job is eventually settled, unless the process dies under it or a
\* commit or the set-up fails.
JobsSettle ==
  \A j \in JobIds :
    (faults \subseteq {"restart"} /\ worker[j] = "scheduled") ~>
      status[j] \in Settled \/ worker[j] = "lost"

\* docs/plans/agentic-research-rag/05-detection-dispatch.md:51 "startup에서 남은
\* non-terminal job은 failed/restart_interrupted로 종료한다": no job of a task that
\* a restart killed is left open.
NoInterruptedJobOpen ==
  \A j \in JobIds : worker[j] = "lost" => status[j] \notin Open
=============================================================================
