------------------------------- MODULE Sentiment -------------------------------
(***************************************************************************)
(* The sentiment analyses and their deferred retries (SentimentService,    *)
(* SentimentRepository, SentimentRetryService, the kill switch and the two *)
(* queues).  Every saved message queues one fresh job, which inserts an    *)
(* `analyses` row; a row skipped because the IA was away is queued again   *)
(* by the periodic scan, as a job whose id names the row and the attempt.  *)
(* The queue keeps finished jobs, so a job id is accepted once, and hands  *)
(* a job back once if its worker dies or is late (external).               *)
(*                                                                         *)
(* The circuit breaker is a component of its own (CircuitBreaker): here    *)
(* its gate may answer anything.  The delays of the backoff are "later",   *)
(* and only their number matters.                                          *)
(***************************************************************************)
EXTENDS Naturals, FiniteSets

CONSTANTS
    Texts,       \* saved messages, one fresh job each
    Rows,        \* ids of `analyses` rows
    Workers,     \* sentiment queue workers
    Scanners,    \* scans of the retry queue: two may overlap
    MaxRetries,  \* MAX_RETRY_ATTEMPTS
    MaxStalls,   \* bound: jobs handed back to the queue
    MaxErrors,   \* bound: requests to MySQL or Redis that fail
    MaxToggles,  \* bound: turns of the kill switch
    NoRow        \* no analysis yet

FreshJobs == {"fresh"} \X Texts \X {0}
RetryJobs == {"retry"} \X Rows \X (1..MaxRetries)   \* retry|id|attempt
JobIds == FreshJobs \cup RetryJobs

ASSUME SentimentAssumption ==
    /\ {MaxRetries, MaxStalls, MaxErrors, MaxToggles} \subseteq Nat
    /\ MaxRetries > 0
    /\ NoRow \notin Rows \cup JobIds
    /\ IsFiniteSet(Workers)

VARIABLES
    row,        \* table `analyses`
    job,        \* the sentiment queue, by job id
    stalls,     \* times each job was handed back
    worker,
    scan,       \* what each scan has still to do
    enabled,    \* ia:enabled, the kill switch
    calls,      \* observer: calls to the IA for each row
    errors, toggles

sentimentVars ==
    <<row, job, stalls, worker, scan, enabled, calls, errors, toggles>>

\* `due` is next_retry_at: NULL, in the future, or reached.
Row == [status: {"none", "processing", "completed", "skipped", "failed"},
        reason: {"none", "kill_switch", "circuit_breaker", "ia_unavailable"},
        retryCount: 0..MaxRetries, due: {"never", "later", "now"}]

Unused == [status |-> "none", reason |-> "none", retryCount |-> 0, due |-> "never"]

WorkerStages == {"idle", "start", "switch", "gate", "call", "skip", "complete", "fail"}

\* `id` is the job it took, `reason` the skip it is about to write.
Worker == [at: WorkerStages, id: JobIds \cup {NoRow}, row: Rows \cup {NoRow},
           reason: {"none", "kill_switch", "circuit_breaker", "ia_unavailable"}]

Resting == [at |-> "idle", id |-> NoRow, row |-> NoRow, reason |-> "none"]

\* A scan goes through the rows it read, as it read them.
Scan == [at: {"idle", "next", "schedule"}, todo: SUBSET (Rows \X (0..MaxRetries)),
         id: Rows \cup {NoRow}, count: 0..MaxRetries]

Asleep == [at |-> "idle", todo |-> {}, id |-> NoRow, count |-> 0]

SentimentInit ==
    /\ row = [a \in Rows |-> Unused]
    /\ job = [j \in JobIds |-> IF j \in FreshJobs THEN "waiting" ELSE "none"]
    /\ stalls = [j \in JobIds |-> 0]
    /\ worker = [w \in Workers |-> Resting]
    /\ scan = [s \in Scanners |-> Asleep]
    /\ enabled = TRUE
    /\ calls = [a \in Rows |-> 0]
    /\ errors = 0 /\ toggles = 0

Retryable(reason) == reason \in {"circuit_breaker", "ia_unavailable"}

\* retryDelayMs: the wait before an attempt, NULL past the last one.
Wait(attempt) == IF attempt \in 1..MaxRetries THEN "later" ELSE "never"

\* A job that ends, unless the queue has given it to someone else.
Ended(w) == [job EXCEPT ![worker[w].id] = "done"]

Goto(w, stage) == worker' = [worker EXCEPT ![w].at = stage]

-----------------------------------------------------------------------------
(* analyzeMessage: one job of one worker.                                   *)

TakeJob(w, j) ==
    /\ worker[w].at = "idle"
    /\ job[j] = "waiting"
    /\ job' = [job EXCEPT ![j] = "active"]
    /\ worker' = [worker EXCEPT ![w] = [Resting EXCEPT !.at = "start", !.id = j]]
    /\ UNCHANGED <<row, stalls, scan, enabled, calls, errors, toggles>>

\* createProcessing: a job that is run again inserts a row of its own.
CreateProcessing(w, a) ==
    /\ worker[w].at = "start"
    /\ worker[w].id \in FreshJobs
    /\ row[a].status = "none"
    /\ row' = [row EXCEPT ![a].status = "processing"]
    /\ worker' = [worker EXCEPT ![w].at = "switch", ![w].row = a]
    /\ UNCHANGED <<job, stalls, scan, enabled, calls, errors, toggles>>

\* startRetry: a compare-and-set on the status.
StartRetryAnyway(w) ==
    /\ worker[w].at = "start"
    /\ worker[w].id \in RetryJobs
    /\ LET a == worker[w].id[2] IN
       /\ row' = [row EXCEPT ![a].status = "processing", ![a].reason = "none"]
       /\ worker' = [worker EXCEPT ![w].at = "switch", ![w].row = a]
    /\ UNCHANGED <<job, stalls, scan, enabled, calls, errors, toggles>>

StartRetry(w) ==
    /\ worker[w].at = "start"
    /\ worker[w].id \in RetryJobs
    /\ LET a == worker[w].id[2] IN
       IF row[a].status = "skipped"
       THEN /\ row' = [row EXCEPT ![a].status = "processing", ![a].reason = "none"]
            /\ worker' = [worker EXCEPT ![w].at = "switch", ![w].row = a]
            /\ job' = job
       ELSE /\ job' = Ended(w)
            /\ worker' = [worker EXCEPT ![w] = Resting]
            /\ row' = row
    /\ UNCHANGED <<stalls, scan, enabled, calls, errors, toggles>>

CheckSwitch(w) ==
    /\ worker[w].at = "switch"
    /\ worker' = [worker EXCEPT
            ![w].at = IF enabled THEN "gate" ELSE "skip",
            ![w].reason = IF enabled THEN "none" ELSE "kill_switch"]
    /\ UNCHANGED <<row, job, stalls, scan, enabled, calls, errors, toggles>>

CheckGate(w) ==
    /\ worker[w].at = "gate"
    /\ \/ worker' = [worker EXCEPT ![w].at = "skip", ![w].reason = "circuit_breaker"]
       \/ Goto(w, "call")
    /\ UNCHANGED <<row, job, stalls, scan, enabled, calls, errors, toggles>>

\* The IA answers, answers nonsense, or is away.
CallIa(w) ==
    /\ worker[w].at = "call"
    /\ calls' = [calls EXCEPT ![worker[w].row] = @ + 1]
    /\ \/ Goto(w, "complete")
       \/ Goto(w, "fail")
       \/ worker' = [worker EXCEPT ![w].at = "skip", ![w].reason = "ia_unavailable"]
    /\ UNCHANGED <<row, job, stalls, scan, enabled, errors, toggles>>

Finish(w) ==
    /\ job' = Ended(w)
    /\ worker' = [worker EXCEPT ![w] = Resting]
    /\ UNCHANGED <<stalls, scan, enabled, calls, toggles>>

\* A skip for a retryable reason schedules the next attempt.
MarkSkipped(w) ==
    /\ worker[w].at = "skip"
    /\ LET a == worker[w].row IN
       row' = [row EXCEPT ![a].status = "skipped", ![a].reason = worker[w].reason,
                   ![a].due = IF Retryable(worker[w].reason)
                              THEN Wait(row[a].retryCount + 1) ELSE "never"]
    /\ Finish(w)
    /\ UNCHANGED errors

MarkFailed(w) ==
    /\ worker[w].at = "fail"
    /\ row' = [row EXCEPT ![worker[w].row].status = "failed"]
    /\ Finish(w)
    /\ UNCHANGED errors

Complete(w) ==
    /\ worker[w].at = "complete"
    /\ row' = [row EXCEPT ![worker[w].row].status = "completed"]
    /\ Finish(w)
    /\ UNCHANGED errors

\* A request to MySQL or Redis fails.  A switch that cannot be read is on.  A
\* row that cannot be created or read back ends the job, in processing if the
\* compare-and-set of startRetry was done.  A result that cannot be stored is a
\* failed analysis; a mark that cannot be written leaves the row as it was.
FailAnalysis(w) ==
    /\ errors < MaxErrors
    /\ errors' = errors + 1
    /\ \/ /\ worker[w].at \in {"switch", "complete"}
          /\ Goto(w, IF worker[w].at = "switch" THEN "gate" ELSE "fail")
          /\ UNCHANGED <<row, job, stalls, scan, enabled, calls, toggles>>
       \/ /\ worker[w].at \in {"start", "skip", "fail"}
          /\ Finish(w)
          /\ UNCHANGED row
       \/ /\ worker[w].at = "start"
          /\ worker[w].id \in RetryJobs
          /\ row[worker[w].id[2]].status = "skipped"
          /\ row' = [row EXCEPT ![worker[w].id[2]].status = "processing",
                                ![worker[w].id[2]].reason = "none"]
          /\ Finish(w)

\* The queue hands the job of a late or dead worker to another one, once;
\* the late worker does not know and goes on.
Stall(w, dies) ==
    /\ worker[w].at # "idle"
    /\ stalls[worker[w].id] < MaxStalls
    /\ job[worker[w].id] = "active"
    /\ stalls' = [stalls EXCEPT ![worker[w].id] = @ + 1]
    /\ job' = [job EXCEPT ![worker[w].id] = IF stalls[worker[w].id] = 0
                                            THEN "waiting" ELSE "done"]
    /\ worker' = IF dies THEN [worker EXCEPT ![w] = Resting] ELSE worker
    /\ UNCHANGED <<row, scan, enabled, calls, errors, toggles>>

-----------------------------------------------------------------------------
(* runOnce: one scan of the retry queue.                                    *)

FindDueRetries ==
    {<<a, row[a].retryCount>> :
        a \in {x \in Rows : /\ row[x].status = "skipped"
                            /\ Retryable(row[x].reason)
                            /\ row[x].due = "now"
                            /\ row[x].retryCount < MaxRetries}}

StartScan(s) ==
    /\ scan[s].at = "idle"
    /\ IF enabled THEN errors' = errors ELSE errors < MaxErrors /\ errors' = errors + 1
    /\ FindDueRetries # {}
    /\ scan' = [scan EXCEPT ![s] = [Asleep EXCEPT !.at = "next", !.todo = FindDueRetries]]
    /\ UNCHANGED <<row, job, stalls, worker, enabled, calls, toggles>>

Rest(s, d) ==
    LET left == scan[s].todo \ {d} IN
    [Asleep EXCEPT !.at = IF left = {} THEN "idle" ELSE "next", !.todo = left]

\* Mutated form, for the mutation runs: the id of a job that is done is free.
AddRetryRemoved(s) ==
    /\ scan[s].at = "next"
    /\ \E d \in scan[s].todo :
        LET j == <<"retry", d[1], d[2] + 1>> IN
        /\ job' = [job EXCEPT ![j] = IF @ \in {"none", "done"} THEN "waiting" ELSE @]
        /\ scan' = [scan EXCEPT ![s].at = "schedule", ![s].id = d[1], ![s].count = d[2]]
    /\ UNCHANGED <<row, stalls, worker, enabled, calls, errors, toggles>>

\* The job id of an attempt is accepted once.
AddRetry(s) ==
    /\ scan[s].at = "next"
    /\ \E d \in scan[s].todo :
        LET j == <<"retry", d[1], d[2] + 1>> IN
        /\ job' = [job EXCEPT ![j] = IF @ = "none" THEN "waiting" ELSE @]
        /\ scan' = [scan EXCEPT ![s].at = "schedule", ![s].id = d[1], ![s].count = d[2]]
    /\ UNCHANGED <<row, stalls, worker, enabled, calls, errors, toggles>>

\* scheduleRetryAttempt: a compare-and-set on the status and the count read.
ScheduleRetryAttempt(s) ==
    LET a == scan[s].id
        n == scan[s].count
    IN  /\ scan[s].at = "schedule"
        /\ row' = IF row[a].status = "skipped" /\ row[a].retryCount = n
                  THEN [row EXCEPT ![a].retryCount = n + 1, ![a].due = Wait(n + 2)]
                  ELSE row
        /\ scan' = [scan EXCEPT ![s] = Rest(s, <<a, n>>)]
        /\ UNCHANGED <<job, stalls, worker, enabled, calls, errors, toggles>>

\* The job cannot be added, or the row cannot be scheduled: on to the next.
SkipRetry(s) ==
    /\ errors < MaxErrors
    /\ errors' = errors + 1
    /\ \/ /\ scan[s].at = "next"
          /\ \E d \in scan[s].todo : scan' = [scan EXCEPT ![s] = Rest(s, d)]
       \/ /\ scan[s].at = "schedule"
          /\ scan' = [scan EXCEPT ![s] = Rest(s, <<scan[s].id, scan[s].count>>)]
    /\ UNCHANGED <<row, job, stalls, worker, enabled, calls, toggles>>

-----------------------------------------------------------------------------
\* The wait of a scheduled retry is over.
ComeDue(a) ==
    /\ row[a].due = "later"
    /\ row' = [row EXCEPT ![a].due = "now"]
    /\ UNCHANGED <<job, stalls, worker, scan, enabled, calls, errors, toggles>>

\* IaAdminService.toggle, by an administrator.
Toggle ==
    /\ toggles < MaxToggles
    /\ toggles' = toggles + 1
    /\ enabled' = ~enabled
    /\ UNCHANGED <<row, job, stalls, worker, scan, calls, errors>>

SentimentNext ==
    \/ Toggle
    \/ \E a \in Rows : ComeDue(a)
    \/ \E s \in Scanners :
        StartScan(s) \/ AddRetry(s) \/ ScheduleRetryAttempt(s) \/ SkipRetry(s)
    \/ \E w \in Workers :
        \/ \E j \in JobIds : TakeJob(w, j)
        \/ \E a \in Rows : CreateProcessing(w, a)
        \/ StartRetry(w) \/ CheckSwitch(w) \/ CheckGate(w) \/ CallIa(w)
        \/ MarkSkipped(w) \/ MarkFailed(w) \/ Complete(w) \/ FailAnalysis(w)
        \/ \E dies \in BOOLEAN : Stall(w, dies)

SentimentSpec == SentimentInit /\ [][SentimentNext]_sentimentVars

-----------------------------------------------------------------------------
Analysing(w) == worker[w].at \in WorkerStages \ {"idle", "start"}

(* Rows, jobs, workers and scans are well formed, and a worker holds a job  *)
(* and a row exactly at the stages that need one (sentiment.service.ts).    *)
SentimentTypeOK ==
    /\ row \in [Rows -> Row]
    /\ job \in [JobIds -> {"none", "waiting", "active", "done"}]
    /\ stalls \in [JobIds -> 0..MaxStalls]
    /\ worker \in [Workers -> Worker]
    /\ \A w \in Workers : /\ worker[w].id = NoRow <=> worker[w].at = "idle"
                          /\ worker[w].row = NoRow <=> ~Analysing(w)
    /\ scan \in [Scanners -> Scan]
    /\ \A s \in Scanners : scan[s].at # "idle" => scan[s].todo # {}
    /\ enabled \in BOOLEAN
    /\ calls \in [Rows -> Nat]
    /\ errors \in 0..MaxErrors /\ toggles \in 0..MaxToggles

(* An analysis is processed by one worker at a time, and nobody changes it  *)
(* under that worker, so completed, skipped and failed are never written    *)
(* over one another: whatever was queued twice, handed back to the queue,   *)
(* or scanned twice (createProcessing, startRetry, scheduleRetryAttempt).   *)
OneRunnerPerAnalysis ==
    /\ \A w \in Workers : Analysing(w) => row[worker[w].row].status = "processing"
    /\ \A v, w \in Workers :
            Analysing(v) /\ Analysing(w) /\ v # w => worker[v].row # worker[w].row

(* The IA is called at most once for the first try of an analysis and once  *)
(* per retry attempt, plus once for each time the queue handed one of its   *)
(* jobs back: overlapping scans, a scan that queued an attempt and did not  *)
(* count it, and an attempt that ran before it was counted add none         *)
(* (jobId of runOnce, scheduleRetryAttempt).                                *)
HandedBack(a) == {j \in RetryJobs : j[2] = a /\ stalls[j] > 0}

CallsBounded ==
    \A a \in Rows : calls[a] <= 1 + MaxRetries + Cardinality(HandedBack(a))

=============================================================================
