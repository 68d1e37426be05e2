------------------------------ MODULE JobQueue ------------------------------
(***************************************************************************)
(* What the scheduler promises its callers, whatever timers, debounce      *)
(* windows and setImmediate callbacks it is built from: one job is active  *)
(* at a time, and a request that was accepted is kept until its job begins *)
(* or the process that holds it stops serving.                             *)
(***************************************************************************)
CONSTANTS Jobs, NoJob

VARIABLES
    serving,  \* the daemon accepts requests and starts jobs
    active,   \* the job that runs, or NoJob
    wanted    \* the jobs with an accepted request that has not begun

queueVars == <<serving, active, wanted>>

QueueInit ==
    /\ serving = FALSE
    /\ active = NoJob
    /\ wanted = {}

\* While a job runs, a request waits.
Accept ==
    /\ serving /\ active # NoJob
    /\ \E S \in SUBSET Jobs : wanted' = wanted \cup S
    /\ UNCHANGED <<serving, active>>

\* A job begins only when none is active.  Of the requests that wait, only
\* its own can leave; others may arrive with it.
BeginOne ==
    /\ serving /\ active = NoJob
    /\ active' \in Jobs
    /\ wanted \ {active'} \subseteq wanted'
    /\ wanted' \subseteq Jobs
    /\ UNCHANGED serving

EndOne ==
    /\ serving /\ active # NoJob
    /\ active' = NoJob
    /\ UNCHANGED <<serving, wanted>>

\* The daemon begins to serve with nothing to do.
Serve ==
    /\ ~serving /\ serving'
    /\ UNCHANGED <<active, wanted>>

\* The daemon exits or crashes: what it held in memory is gone.
Forget ==
    /\ serving /\ ~serving'
    /\ active' = NoJob
    /\ wanted' = {}

QueueNext == Accept \/ BeginOne \/ EndOne \/ Serve \/ Forget

QueueSpec == QueueInit /\ [][QueueNext]_queueVars
=============================================================================
