------------------------------ MODULE JobTable ------------------------------
(***************************************************************************)
(* The rows of the SQLite tables jobs and job_runs, and the operations of  *)
(* packages/core/src/db.ts on them.  The daemon, the CLI and the web UI    *)
(* are separate processes that share these tables.                         *)
(*                                                                         *)
(* Abstractions.  Dates, messages, metrics and log text are left out.  The *)
(* id of a run is AUTOINCREMENT in the code; here a run id may be handed   *)
(* out again once its run has ended and no process and no row names it.    *)
(* Each operation is one atomic step, although startJobRun and endJobRun   *)
(* are two SQL statements outside a transaction.                           *)
(***************************************************************************)
EXTENDS Naturals

CONSTANTS
    Jobs,        \* the jobs of the registry, all of one project
    NoJob,       \* "null" where a job name is expected
    RunIds,      \* the ids of the rows of job_runs the model distinguishes
    NoRun,       \* "null" where a run id is expected
    DefaultOn    \* the jobs whose defaultEnabled is true

ASSUME JobTableAssumption ==
    /\ NoJob \notin Jobs
    /\ RunIds \subseteq Nat
    /\ NoRun \notin RunIds
    /\ DefaultOn \subseteq Jobs

VARIABLES
    registered,  \* the jobs that have a row
    enabled,     \* the jobs whose row has enabled = 1
    status,      \* jobs.status
    current,     \* jobs.current_run_id
    trigger,     \* the jobs whose row has trigger_pending = 1
    runJob,      \* job_runs.job_name
    result       \* job_runs.result; "open" while ended_at IS NULL

rowVars   == <<registered, enabled, trigger>>
runVars   == <<runJob, result>>
tableVars == <<registered, enabled, status, current, trigger, runJob, result>>

Status == {"idle", "disabled", "running"}
Ended  == {"ok", "error", "cancelled"}
Result == {"unused", "open"} \cup Ended

JobTableTypeOK ==
    /\ registered \subseteq Jobs
    /\ enabled \subseteq registered
    /\ status \in [Jobs -> Status]
    /\ current \in [Jobs -> RunIds \cup {NoRun}]
    /\ trigger \subseteq registered
    /\ runJob \in [RunIds -> Jobs \cup {NoJob}]
    /\ result \in [RunIds -> Result]

JobTableInit ==
    /\ registered = {}
    /\ enabled = {}
    /\ status = [j \in Jobs |-> "idle"]
    /\ current = [j \in Jobs |-> NoRun]
    /\ trigger = {}
    /\ runJob = [r \in RunIds |-> NoJob]
    /\ result = [r \in RunIds |-> "unused"]

Open == {r \in RunIds : result[r] = "open"}

\* The status of a row at rest: CASE WHEN enabled=1 THEN 'idle' ELSE 'disabled'.
AtRest(j, on) == IF j \in on THEN "idle" ELSE "disabled"

\* setJobEnabled(name, name \in on) for the jobs of S: the status column keeps
\* 'running', every other value follows the flag.
StatusAfterEnable(S, on) ==
    [j \in Jobs |-> IF j \in S /\ status[j] # "running"
                    THEN AtRest(j, on)
                    ELSE status[j]]

\* startJobRun(j) with the new id r, on a table whose status column is st.
StartJobRun(j, r, st) ==
    /\ runJob' = [runJob EXCEPT ![r] = j]
    /\ result' = [result EXCEPT ![r] = "open"]
    /\ status' = [st EXCEPT ![j] = "running"]
    /\ current' = [current EXCEPT ![j] = r]

\* Mutant of CurrentAfterEnd: only a row that names the ended run is reset.
CurrentIfNamed(j, r) == IF current[j] = r THEN [current EXCEPT ![j] = NoRun] ELSE current

\* endJobRun resets the row of the run's job, whichever run the row names.
CurrentAfterEnd(j, r) == [current EXCEPT ![j] = NoRun]

EndJobRun(r, outcome) ==
    LET j == runJob[r] IN
    /\ result' = [result EXCEPT ![r] = outcome]
    /\ status' = [status EXCEPT ![j] = AtRest(j, enabled)]
    /\ current' = CurrentAfterEnd(j, r)
    /\ UNCHANGED runJob

\* clearStaleRunning: every run that has not ended is cancelled, every row
\* that says 'running' comes to rest.
StaleRuns == Open

ClearStaleRunning ==
    /\ result' = [r \in RunIds |-> IF r \in StaleRuns THEN "cancelled" ELSE result[r]]
    /\ status' = [j \in Jobs |-> IF status[j] = "running" THEN AtRest(j, enabled) ELSE status[j]]
    /\ current' = [j \in Jobs |-> IF status[j] = "running" THEN NoRun ELSE current[j]]
    /\ UNCHANGED runJob
=============================================================================
