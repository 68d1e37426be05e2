----------------------------- MODULE Scheduler -----------------------------
(***************************************************************************)
(* The job scheduler of one project: the daemon process of                 *)
(* indexer/src/jobs/scheduler.ts, the processes that act on the same jobs  *)
(* through indexer/src/jobs/control.ts (CLI and web UI), the project's     *)
(* jobs section of config.yaml, and the job tables (module JobTable).      *)
(*                                                                         *)
(* The daemon is single-threaded JavaScript: an action is what runs from   *)
(* one event-loop callback to the next await.  The steps of other          *)
(* processes fall between any two of them.                                 *)
(*                                                                         *)
(* Time is abstract: a timer that is armed may fire at any later moment.   *)
(* The kind of a trigger (recorded in job_runs only) is left out.          *)
(***************************************************************************)
EXTENDS JobTable, FiniteSets

CONSTANTS
    Rank,        \* the position of a job in the Map the scheduler iterates
    InsertJobs,  \* the jobs with an onTypeInsert trigger
    StateJobs,   \* the jobs with an onNodeState trigger
    TimerJobs,   \* the jobs with a timer or cron trigger
    Clients,     \* CLI invocations and UI requests that may be under way at once
    Entries,     \* the entries config.yaml starts with and hand edits write
    Ops,         \* the operations clients perform
    MaxNodes,    \* bound: rows the nodes table may reach
    MaxOrphans   \* bound: runs that crashed clients leave open at one time

ASSUME SchedulerAssumption ==
    /\ Rank \in [Jobs -> Nat]
    /\ \A i, j \in Jobs : Rank[i] = Rank[j] => i = j
    /\ InsertJobs \subseteq Jobs
    /\ StateJobs \subseteq Jobs
    /\ TimerJobs \subseteq Jobs
    /\ Entries \subseteq {"absent", "default", "on", "off"}
    /\ Ops \subseteq {"toggle", "list", "trigger", "now", "uiTrigger"}
    /\ MaxNodes \in Nat
    /\ MaxOrphans \in Nat

VARIABLES
    cfg,         \* projects.<p>.jobs[j]: "absent", an entry without enabled, "on", "off"
    maxRow,      \* MAX(rowid) of the nodes table
    matching,    \* for an insert job, the rowids of the nodes of its types
    cursor,      \* state_json.cursor of an insert job (0 when missing)
    phase,       \* the daemon: "down", "booting" (start() is in its await),
                 \* "catchup" (startupCatchup), "up", "stopping"
    dbOpen,      \* the daemon's database handle is open
    bootCfg,     \* this.config as the constructor loaded it
    toCatchUp,   \* the jobs the loop of startupCatchup has still to look at
    firstBoot,   \* the job whose query has just found nothing, with its cursor at 0
    active,      \* this.currentJob; this.running is active # NoJob
    activeRun,   \* the run of the active job
    cursorBefore,\* the cursor the active run writes when it succeeds
    begun,       \* history: the runs this daemon has begun and not ended
    pending,     \* the jobs whose JobState.pending is set
    debounce,    \* the jobs whose debounceTimer is armed
    timers,      \* the jobs whose timerHandle or cronHandles are armed
    immediates,  \* the jobs a setImmediate callback is queued for
    client,      \* what each client is in the middle of
    seen,        \* history: MAX(rowid) when the active insert job's run began
    unprocessed, \* history: matching rowids no successful run has had in view
    told,        \* history: those of them the daemon was told of since it started
    asked,       \* history: MAX(rowid) when the query of firstBoot was made
    missed,      \* history: rows a first boot passed that came after its query
    excused      \* history: jobs whose last attempt failed or was dropped as disabled

cfgVars    == <<cfg>>
nodeVars   == <<maxRow, matching>>
daemonVars == <<phase, dbOpen, bootCfg, toCatchUp, firstBoot>>
runVarsD   == <<active, activeRun, cursorBefore, begun>>
queued     == <<pending, debounce, timers, immediates>>
history    == <<seen, unprocessed, told, asked, missed, excused>>
vars == <<registered, enabled, status, current, trigger, runJob, result, cfg,
          maxRow, matching, cursor, phase, dbOpen, bootCfg, toCatchUp, firstBoot,
          active, activeRun, cursorBefore, begun, pending, debounce, timers,
          immediates, client, seen, unprocessed, told, asked, missed, excused>>

CfgEntry == {"absent", "default", "on", "off"}
Phase    == {"down", "booting", "catchup", "up", "stopping"}
ClientOp == {"idle", "enable", "disable", "list", "trigger", "now", "inline"}
Client   == [op: ClientOp, job: Jobs \cup {NoJob}, want: SUBSET Jobs,
             run: RunIds \cup {NoRun}]
Busy(op, j, want, r) == [op |-> op, job |-> j, want |-> want, run |-> r]
Idle     == Busy("idle", NoJob, {}, NoRun)
Rows     == 1..MaxNodes
-----------------------------------------------------------------------------
(* Initial state: a project that was never served, with whatever config.   *)
Init ==
    /\ JobTableInit
    /\ cfg \in [Jobs -> Entries]
    /\ maxRow = 0
    /\ matching = [j \in InsertJobs |-> {}]
    /\ cursor = [j \in InsertJobs |-> 0]
    /\ phase = "down" /\ dbOpen = FALSE
    /\ bootCfg = [j \in Jobs |-> "absent"]
    /\ toCatchUp = {} /\ firstBoot = NoJob
    /\ active = NoJob /\ activeRun = NoRun /\ cursorBefore = 0 /\ begun = {}
    /\ pending = {} /\ debounce = {} /\ timers = {} /\ immediates = {}
    /\ client = [c \in Clients |-> Idle]
    /\ seen = 0
    /\ unprocessed = [j \in InsertJobs |-> {}]
    /\ told = [j \in InsertJobs |-> {}]
    /\ asked = 0
    /\ missed = [j \in InsertJobs |-> {}]
    /\ excused = {}

-----------------------------------------------------------------------------
(* Starting and queueing jobs inside the daemon.                           *)

\* A run id that nothing refers to any more.
FreeRuns ==
    {r \in RunIds : /\ result[r] # "open"
                    /\ activeRun # r
                    /\ \A j \in Jobs : current[j] # r
                    /\ \A c \in Clients : client[c].run # r}

NextRun(r) == r \in FreeRuns /\ \A q \in FreeRuns : r <= q

\* cursorBefore: taken before the job runs, so that rows inserted meanwhile
\* stay beyond the cursor.
CursorAtStart(j) == IF j \in InsertJobs THEN maxRow ELSE 0

\* execute(j) up to its first await, when no job is running.
Begin(j, st) ==
    /\ active' = j
    /\ cursorBefore' = CursorAtStart(j)
    /\ seen' = IF j \in InsertJobs THEN maxRow ELSE 0
    /\ \E r \in RunIds : NextRun(r) /\ StartJobRun(j, r, st) /\ activeRun' = r /\ begun' = begun \cup {r}

IsFirst(j, S) == j \in S /\ \A k \in S : Rank[j] <= Rank[k]

\* Mutant of Pend: a request that meets a running job is dropped.
PendNothing(S) == pending

\* What the enqueue calls do to a job that comes while another one runs.
Pend(S) == pending \cup S

\* enqueue for each job of S in Map order, with the rows of on enabled and the
\* status column st.  A disabled job is dropped.  With no job running the first
\* one executes and the others find it running.
EnqueueAll(S, on, st) ==
    LET accepted == S \cap on IN
    /\ \/ /\ active # NoJob \/ accepted = {}
          /\ pending' = Pend(accepted)
          /\ status' = st
          /\ UNCHANGED <<active, activeRun, cursorBefore, begun, seen, current, runJob, result>>
       \/ /\ active = NoJob
          /\ \E j \in accepted :
               /\ IsFirst(j, accepted)
               /\ Begin(j, st)
               /\ pending' = (pending \ {j}) \cup (accepted \ {j})
    /\ excused' = (excused \ accepted) \cup ((S \ on) \cap InsertJobs)

-----------------------------------------------------------------------------
(* The life of the daemon process.                                         *)

\* daemonize: the constructor loads the config, start() reclaims stale runs
\* and awaits the snapshot supervisor.
BootClear ==
    /\ phase = "down"
    /\ phase' = "booting"
    /\ dbOpen' = TRUE
    /\ bootCfg' = cfg
    /\ ClearStaleRunning
    /\ UNCHANGED <<toCatchUp, firstBoot, rowVars, cfgVars, nodeVars, cursor, runVarsD, queued, client, history>>

\* start(), step 2: an entry with an enabled key wins; otherwise the row takes
\* defaultEnabled, because upsertJob reports every row as created.
EnabledAtBoot ==
    {j \in Jobs : \/ bootCfg[j] = "on"
                  \/ bootCfg[j] \in {"absent", "default"} /\ j \in DefaultOn}

\* start() after the await, steps 2 to 4: the rows, the listener, the timers.
BootRegister ==
    /\ phase = "booting"
    /\ phase' = "catchup"
    /\ registered' = Jobs
    /\ enabled' = EnabledAtBoot
    /\ status' = StatusAfterEnable(Jobs, EnabledAtBoot)
    /\ timers' = TimerJobs \cap EnabledAtBoot
    /\ toCatchUp' = InsertJobs
    /\ bootCfg' = [j \in Jobs |-> "absent"]
    /\ UNCHANGED <<current, trigger, runVars, cfgVars, nodeVars, cursor, dbOpen, firstBoot, runVarsD,
                   pending, debounce, immediates, client, history>>

\* startupCatchup, one turn of its loop up to the query: a job with rows beyond
\* its cursor is enqueued, one without any and with no cursor yet goes on to
\* CatchUpCursor, any other is left as it is.
Unseen(j) == {n \in matching[j] : n > cursor[j]}

CatchUpJob(j) ==
    /\ phase = "catchup" /\ firstBoot = NoJob
    /\ IsFirst(j, toCatchUp)
    /\ toCatchUp' = toCatchUp \ {j}
    /\ \/ /\ j \in enabled /\ Unseen(j) # {}
          /\ EnqueueAll({j}, enabled, status)
          /\ told' = [told EXCEPT ![j] = Unseen(j)]
          /\ UNCHANGED <<firstBoot, asked>>
       \/ /\ j \notin enabled \/ Unseen(j) = {}
          /\ firstBoot' = IF j \in enabled /\ cursor[j] = 0 THEN j ELSE NoJob
          /\ asked' = IF firstBoot' = j THEN maxRow ELSE 0
          /\ UNCHANGED <<runVarsD, pending, seen, told, excused, status, current, runVars>>
    /\ UNCHANGED <<rowVars, cfgVars, nodeVars, cursor, phase, dbOpen, bootCfg, debounce, timers,
                   immediates, client, unprocessed, missed>>

\* The first boot of a job: a second query asks for the newest row of the table,
\* and the cursor goes there.  Another process may have inserted in between.
CatchUpCursor ==
    /\ phase = "catchup" /\ firstBoot # NoJob
    /\ cursor' = [cursor EXCEPT ![firstBoot] = maxRow]
    /\ missed' = [missed EXCEPT ![firstBoot] = @ \cup {n \in matching[firstBoot] : n > asked}]
    /\ firstBoot' = NoJob /\ asked' = 0
    /\ UNCHANGED <<tableVars, cfgVars, nodeVars, phase, dbOpen, bootCfg, toCatchUp, runVarsD, queued,
                   client, seen, unprocessed, told, excused>>

\* Steps 6 to 8: the polls and the signal handlers, then start() blocks.
BootDone ==
    /\ phase = "catchup" /\ toCatchUp = {} /\ firstBoot = NoJob
    /\ phase' = "up"
    /\ UNCHANGED <<tableVars, cfgVars, nodeVars, cursor, dbOpen, bootCfg, toCatchUp, firstBoot, runVarsD,
                   queued, client, history>>

BootSteps == BootRegister \/ (\E j \in InsertJobs : CatchUpJob(j)) \/ CatchUpCursor \/ BootDone

\* The first SIGINT or SIGTERM.  Timers, polls and debounce windows are cleared
\* and the abort signal resolves start(), so that index.ts goes on to its final
\* db.close() in the same turn, whether or not a job is running.
Shutdown ==
    /\ phase = "up"
    /\ phase' = "stopping"
    /\ timers' = {} /\ debounce' = {}
    /\ dbOpen' = FALSE
    /\ UNCHANGED <<tableVars, cfgVars, nodeVars, cursor, bootCfg, toCatchUp, firstBoot, runVarsD,
                   pending, immediates, client, history>>

\* The process ends and its memory with it.
Gone ==
    /\ phase' = "down" /\ dbOpen' = FALSE
    /\ bootCfg' = [j \in Jobs |-> "absent"]
    /\ toCatchUp' = {} /\ firstBoot' = NoJob
    /\ active' = NoJob /\ activeRun' = NoRun /\ cursorBefore' = 0 /\ begun' = {}
    /\ pending' = {} /\ debounce' = {} /\ timers' = {} /\ immediates' = {}
    /\ seen' = 0 /\ told' = [j \in InsertJobs |-> {}] /\ asked' = 0 /\ excused' = {}
    /\ UNCHANGED <<tableVars, cfgVars, nodeVars, cursor, client, unprocessed, missed>>

\* After a shutdown: the loop runs dry, the job's endJobRun meets the closed
\* database and its rejection ends the process, the watchdog or a second signal
\* does.  In each case no row is written any more.
Exit == phase = "stopping" /\ Gone

\* A crash, a kill, or an exception outside a job (no handler is installed).
Crash == phase \in {"booting", "catchup", "up"} /\ Gone

-----------------------------------------------------------------------------
(* The callbacks of the daemon while it serves.                            *)

\* A row inserted by the running job whose type the jobs of M listen to:
\* onNodeEvent arms their debounce timers.
JobInserts(M) ==
    /\ phase = "up" /\ active # NoJob
    /\ maxRow < MaxNodes
    /\ maxRow' = maxRow + 1
    /\ matching' = [j \in InsertJobs |-> IF j \in M THEN matching[j] \cup {maxRow + 1} ELSE matching[j]]
    /\ unprocessed' = [j \in InsertJobs |-> IF j \in M THEN unprocessed[j] \cup {maxRow + 1} ELSE unprocessed[j]]
    /\ told' = [j \in InsertJobs |-> IF j \in M THEN told[j] \cup {maxRow + 1} ELSE told[j]]
    /\ debounce' = debounce \cup M
    /\ UNCHANGED <<tableVars, cfgVars, cursor, daemonVars, runVarsD, pending, timers, immediates, client, seen, asked, missed, excused>>

\* The running job calls setNodeState and the jobs of M wait for that state.
JobChangesState(M) ==
    /\ phase = "up" /\ active # NoJob
    /\ debounce' = debounce \cup M
    /\ UNCHANGED <<tableVars, cfgVars, nodeVars, cursor, daemonVars, runVarsD, pending, timers, immediates, client, history>>

\* Mutant of DebounceFires: the row's enabled flag is not asked.
DebounceFiresAlways(j) ==
    /\ phase = "up" /\ j \in debounce
    /\ debounce' = debounce \ {j}
    /\ EnqueueAll({j}, Jobs, status)
    /\ UNCHANGED <<rowVars, cfgVars, nodeVars, cursor, daemonVars, timers, immediates, client, unprocessed, told, asked, missed>>

\* enqueueDebounced's timeout.
DebounceFires(j) ==
    /\ phase = "up" /\ j \in debounce
    /\ debounce' = debounce \ {j}
    /\ EnqueueAll({j}, enabled, status)
    /\ UNCHANGED <<rowVars, cfgVars, nodeVars, cursor, daemonVars, timers, immediates, client, unprocessed, told, asked, missed>>

\* An interval timer, or a cron timeout that re-arms itself.
TimerFires(j) ==
    /\ phase = "up" /\ j \in timers
    /\ EnqueueAll({j}, enabled, status)
    /\ UNCHANGED <<rowVars, cfgVars, nodeVars, cursor, daemonVars, debounce, timers, immediates, client, unprocessed, told, asked, missed>>

\* Mutant of PollTrigger: a trigger that meets a running job is cleared unserved.
PollTriggerWhenIdle ==
    /\ phase = "up" /\ trigger # {}
    /\ trigger' = {}
    /\ EnqueueAll(IF active = NoJob THEN trigger ELSE {}, enabled, status)
    /\ UNCHANGED <<registered, enabled, cfgVars, nodeVars, cursor, daemonVars, debounce, timers, immediates, client, unprocessed, told, asked, missed>>

\* pollTriggerPending: every flag is cleared, whatever becomes of its job.
PollTrigger ==
    /\ phase = "up" /\ trigger # {}
    /\ trigger' = {}
    /\ EnqueueAll(trigger, enabled, status)
    /\ UNCHANGED <<registered, enabled, cfgVars, nodeVars, cursor, daemonVars, debounce, timers, immediates, client, unprocessed, told, asked, missed>>

\* pollConfig: only a job whose entry has an enabled key that differs from its
\* row is switched, and only such a job has its timers installed or removed.
Desired(j, on) == cfg[j] = (IF on THEN "on" ELSE "off")
\* Mutant of Switched: the poll only ever turns jobs on.
SwitchedOn == {j \in registered : Desired(j, TRUE) /\ j \notin enabled}
Switched == {j \in registered : Desired(j, j \notin enabled)}

PollConfig ==
    /\ phase = "up" /\ Switched # {}
    /\ enabled' = (enabled \ Switched) \cup (Switched \ enabled)
    /\ status' = StatusAfterEnable(Switched, enabled')
    /\ timers' = (timers \ Switched) \cup (Switched \cap TimerJobs \cap enabled')
    /\ UNCHANGED <<registered, current, trigger, runVars, cfgVars, nodeVars, cursor, daemonVars, runVarsD, pending, debounce, immediates, client, history>>

\* Mutant of ImmediateFires: a drained job that finds another one running is dropped.
ImmediateDropped(j) ==
    /\ phase = "up" /\ j \in immediates
    /\ immediates' = immediates \ {j}
    /\ \/ /\ active # NoJob
          /\ UNCHANGED <<pending, active, activeRun, cursorBefore, begun, seen, status, current, runJob, result>>
       \/ /\ active = NoJob
          /\ Begin(j, status)
          /\ UNCHANGED pending
    /\ excused' = excused \ {j}
    /\ UNCHANGED <<rowVars, cfgVars, nodeVars, cursor, daemonVars, debounce, timers, client, unprocessed, told, asked, missed>>

\* Mutant of ImmediateFires: execute without its own look at this.running.
ImmediateUnguarded(j) ==
    /\ phase = "up" /\ j \in immediates
    /\ immediates' = immediates \ {j}
    /\ Begin(j, status)
    /\ excused' = excused \ {j}
    /\ UNCHANGED <<rowVars, cfgVars, nodeVars, cursor, daemonVars, pending, debounce, timers, client, unprocessed, told, asked, missed>>

\* The setImmediate callback of a drained job: execute, which re-pends the job
\* when another one came first.  Whether the job is still enabled is not asked.
ImmediateFires(j) ==
    /\ phase = "up" /\ j \in immediates
    /\ immediates' = immediates \ {j}
    /\ \/ /\ active # NoJob
          /\ pending' = Pend({j})
          /\ UNCHANGED <<active, activeRun, cursorBefore, begun, seen, status, current, runJob, result>>
       \/ /\ active = NoJob
          /\ Begin(j, status)
          /\ UNCHANGED pending
    /\ excused' = excused \ {j}
    /\ UNCHANGED <<rowVars, cfgVars, nodeVars, cursor, daemonVars, debounce, timers, client, unprocessed, told, asked, missed>>

\* Mutants of DrainOne: nothing is drained; one is drained and the rest forgotten.
DrainNone == UNCHANGED <<pending, immediates>>
DrainAll ==
    \/ /\ pending = {}
       /\ UNCHANGED <<pending, immediates>>
    \/ \E j \in pending :
         /\ IsFirst(j, pending)
         /\ pending' = {}
         /\ immediates' = immediates \cup {j}

\* findNextPending and the setImmediate at the end of execute.
DrainOne ==
    \/ /\ pending = {}
       /\ UNCHANGED <<pending, immediates>>
    \/ \E j \in pending :
         /\ IsFirst(j, pending)
         /\ pending' = pending \ {j}
         /\ immediates' = immediates \cup {j}

\* Mutant of CursorAfter: the cursor is read when the run ends.
CursorReadLate(outcome) ==
    IF outcome = "ok" /\ active \in InsertJobs
    THEN [cursor EXCEPT ![active] = maxRow]
    ELSE cursor

\* The cursor an ended run leaves behind: only success moves it.
CursorAfter(outcome) ==
    IF outcome = "ok" /\ active \in InsertJobs
    THEN [cursor EXCEPT ![active] = cursorBefore]
    ELSE cursor

\* What a successful run had in view is no longer unprocessed.
Handled(f, outcome) ==
    [j \in InsertJobs |-> IF outcome = "ok" /\ j = active
                          THEN {n \in f[j] : n > seen}
                          ELSE f[j]]

\* job.run settles and execute runs to its end.
Finish(outcome) ==
    /\ phase = "up" /\ active # NoJob
    /\ EndJobRun(activeRun, outcome)
    /\ cursor' = CursorAfter(outcome)
    /\ active' = NoJob /\ activeRun' = NoRun /\ cursorBefore' = 0 /\ seen' = 0
    /\ begun' = begun \ {activeRun}
    /\ DrainOne
    /\ unprocessed' = Handled(unprocessed, outcome)
    /\ told' = Handled(told, outcome)
    /\ excused' = IF outcome = "error" THEN excused \cup ({active} \cap InsertJobs) ELSE excused
    /\ UNCHANGED <<rowVars, cfgVars, nodeVars, daemonVars, debounce, timers, client, asked, missed>>

-----------------------------------------------------------------------------
(* The other processes.                                                    *)

notDaemon == <<daemonVars, runVarsD, queued, history>>

\* job on / job off / the UI toggle, first half: register the job on demand,
\* write the config file.
ToggleConfig(c, j, on) ==
    /\ client[c].op = "idle"
    /\ registered' = registered \cup {j}
    /\ enabled' = IF j \notin registered /\ j \in DefaultOn THEN enabled \cup {j} ELSE enabled
    /\ cfg' = [cfg EXCEPT ![j] = IF on THEN "on" ELSE "off"]
    /\ client' = [client EXCEPT ![c] = Busy(IF on THEN "enable" ELSE "disable", j, {}, NoRun)]
    /\ UNCHANGED <<status, current, trigger, runVars, nodeVars, cursor, notDaemon>>

\* Second half: write the row.
ToggleRow(c) ==
    LET j == client[c].job IN
    /\ client[c].op \in {"enable", "disable"}
    /\ enabled' = IF client[c].op = "enable" THEN enabled \cup {j} ELSE enabled \ {j}
    /\ status' = StatusAfterEnable({j}, enabled')
    /\ client' = [client EXCEPT ![c] = Idle]
    /\ UNCHANGED <<registered, current, trigger, runVars, cfgVars, nodeVars, cursor, notDaemon>>

\* ensureJobsRegistered, as far as it reads the config: what every row is to be.
Configured ==
    {j \in Jobs : \/ cfg[j] = "on"
                  \/ cfg[j] = "default" /\ j \in DefaultOn}

\* job list / status / trigger / trigger --now, and GET /jobs: the process loads
\* the config first.
ReadConfig(c, op, j) ==
    /\ client[c].op = "idle"
    /\ client' = [client EXCEPT ![c] = Busy(op, j, Configured, NoRun)]
    /\ UNCHANGED <<tableVars, cfgVars, nodeVars, cursor, notDaemon>>

\* ... then writes every row, and goes on with what it was called for.
Reconcile(c) ==
    LET st == StatusAfterEnable(Jobs, client[c].want) IN
    /\ client[c].op \in {"list", "trigger", "now"}
    /\ registered' = Jobs
    /\ enabled' = client[c].want
    /\ \/ /\ client[c].op = "list"
          /\ status' = st
          /\ client' = [client EXCEPT ![c] = Idle]
          /\ UNCHANGED <<current, trigger, runVars>>
       \/ /\ client[c].op = "trigger"
          /\ status' = st
          /\ trigger' = trigger \cup {client[c].job}
          /\ client' = [client EXCEPT ![c] = Idle]
          /\ UNCHANGED <<current, runVars>>
       \/ /\ client[c].op = "now"
          /\ \E r \in RunIds :
               /\ NextRun(r)
               /\ StartJobRun(client[c].job, r, st)
               /\ client' = [client EXCEPT ![c] = Busy("inline", client[c].job, {}, r)]
          /\ UNCHANGED trigger
    /\ UNCHANGED <<cfgVars, nodeVars, cursor, notDaemon>>

\* runJobInline ends its own run, in a process that knows no mutex.
InlineEnds(c, outcome) ==
    /\ client[c].op = "inline"
    /\ EndJobRun(client[c].run, outcome)
    /\ client' = [client EXCEPT ![c] = Idle]
    /\ UNCHANGED <<rowVars, cfgVars, nodeVars, cursor, notDaemon>>

\* Mutant of UiTrigger: the job's row is not looked for.
UiTriggerUnchecked(j) ==
    /\ trigger' = trigger \cup {j}
    /\ UNCHANGED <<registered, enabled, status, current, runVars, cfgVars, nodeVars, cursor, client, notDaemon>>

\* The UI's trigger button.
UiTrigger(j) ==
    /\ j \in registered
    /\ trigger' = trigger \cup {j}
    /\ UNCHANGED <<registered, enabled, status, current, runVars, cfgVars, nodeVars, cursor, client, notDaemon>>

\* A client dies in the middle of what it does.
Orphans == {r \in Open : r # activeRun /\ \A c \in Clients : client[c].run # r}

ClientCrashes(c) ==
    /\ client[c].op # "idle"
    /\ client[c].op = "inline" => Cardinality(Orphans) < MaxOrphans
    /\ client' = [client EXCEPT ![c] = Idle]
    /\ UNCHANGED <<tableVars, cfgVars, nodeVars, cursor, notDaemon>>

\* Someone edits config.yaml by hand.
EditConfig(j, entry) ==
    /\ cfg[j] # entry
    /\ cfg' = [cfg EXCEPT ![j] = entry]
    /\ UNCHANGED <<tableVars, nodeVars, cursor, client, notDaemon>>

\* Another process (MCP server, CLI) inserts a row: no listener hears of it.
ExternalInsert(M) ==
    /\ maxRow < MaxNodes
    /\ maxRow' = maxRow + 1
    /\ matching' = [j \in InsertJobs |-> IF j \in M THEN matching[j] \cup {maxRow + 1} ELSE matching[j]]
    /\ unprocessed' = [j \in InsertJobs |-> IF j \in M THEN unprocessed[j] \cup {maxRow + 1} ELSE unprocessed[j]]
    /\ UNCHANGED <<tableVars, cfgVars, cursor, daemonVars, runVarsD, queued, client, seen, told, asked, missed, excused>>

-----------------------------------------------------------------------------
Daemon ==
    \/ BootClear \/ BootSteps \/ Shutdown \/ Exit \/ Crash
    \/ \E M \in SUBSET InsertJobs : JobInserts(M)
    \/ \E M \in SUBSET StateJobs : JobChangesState(M)
    \/ \E j \in Jobs : DebounceFires(j) \/ TimerFires(j) \/ ImmediateFires(j)
    \/ PollTrigger \/ PollConfig
    \/ \E outcome \in {"ok", "error"} : Finish(outcome)

ClientStep(c) ==
    \/ "toggle" \in Ops /\ \E j \in Jobs, on \in BOOLEAN : ToggleConfig(c, j, on)
    \/ ToggleRow(c)
    \/ "list" \in Ops /\ ReadConfig(c, "list", NoJob)
    \/ \E j \in Jobs, op \in {"trigger", "now"} \cap Ops : ReadConfig(c, op, j)
    \/ Reconcile(c)
    \/ \E outcome \in {"ok", "error"} : InlineEnds(c, outcome)
    \/ ClientCrashes(c)

Outside ==
    \/ \E c \in Clients : ClientStep(c)
    \/ "uiTrigger" \in Ops /\ \E j \in Jobs : UiTrigger(j)
    \/ \E j \in Jobs, entry \in Entries : EditConfig(j, entry)
    \/ \E M \in SUBSET InsertJobs : ExternalInsert(M)

Next == Daemon \/ Outside

Spec == Init /\ [][Next]_vars

-----------------------------------------------------------------------------
(* Invariants.                                                             *)

\* A client between two steps knows the job it is about, and a job it toggles or
\* runs has a row.
ClientTypeOK ==
    /\ client \in [Clients -> Client]
    /\ \A c \in Clients :
         /\ client[c].op \in {"trigger", "now"} => client[c].job \in Jobs
         /\ client[c].op \in {"enable", "disable", "inline"} => client[c].job \in registered

\* Every variable stays in its type.
TypeOK ==
    /\ JobTableTypeOK
    /\ cfg \in [Jobs -> CfgEntry]
    /\ maxRow \in 0..MaxNodes
    /\ matching \in [InsertJobs -> SUBSET Rows]
    /\ cursor \in [InsertJobs -> 0..MaxNodes]
    /\ phase \in Phase /\ dbOpen \in BOOLEAN
    /\ bootCfg \in [Jobs -> CfgEntry]
    /\ toCatchUp \subseteq InsertJobs /\ firstBoot \in InsertJobs \cup {NoJob}
    /\ active \in Jobs \cup {NoJob}
    /\ activeRun \in RunIds \cup {NoRun}
    /\ cursorBefore \in 0..MaxNodes
    /\ begun \subseteq RunIds
    /\ pending \subseteq Jobs /\ debounce \subseteq Jobs
    /\ timers \subseteq Jobs /\ immediates \subseteq Jobs
    /\ ClientTypeOK
    /\ seen \in 0..MaxNodes
    /\ unprocessed \in [InsertJobs -> SUBSET Rows]
    /\ told \in [InsertJobs -> SUBSET Rows]
    /\ asked \in 0..MaxNodes
    /\ missed \in [InsertJobs -> SUBSET Rows]
    /\ excused \subseteq InsertJobs

\* No lost wake-up: a job left pending has someone who will look at it again,
\* the running job's own end or a queued setImmediate.  Nothing else polls
\* JobState.pending.
NoLostWakeup == pending # {} => active # NoJob \/ immediates # {}

\* The daemon has begun jobs: it serves, or catches up before it does.
Serving == phase \in {"catchup", "up"}

\* The mutex as the tables show it: the runs the daemon has begun and not ended
\* are exactly the one it believes to be running, that run is of the job it
\* believes to be running, and it is open, so that no inline run's end, no toggle
\* and no reconcile of another process has ended it.
OneDaemonRun ==
    Serving =>
        /\ begun = IF active = NoJob THEN {} ELSE {activeRun}
        /\ \A r \in begun : r \in Open /\ runJob[r] = active

\* A row that says 'running' names a run of that job which has not ended, and a
\* row that does not names none: holds across clients that start and end runs of
\* the same job out of order.  The run need not be alive: one left open by a
\* client that crashed keeps its row 'running' until the next boot.
RunningRowHasOpenRun ==
    \A j \in Jobs :
        /\ status[j] = "running" <=> current[j] # NoRun
        /\ current[j] # NoRun => current[j] \in Open /\ runJob[current[j]] = j

\* The catch-up cursor of an insert job passes no row of its types that no
\* successful run has had in view, however runs, errors, crashes, restarts and
\* rows inserted by other processes interleave, but for one case: rows that
\* another process inserts between the two queries of the job's first boot, the
\* one for its rows and the one for the newest row (scheduler.ts:324 and 327).
CursorSafe ==
    \A j \in InsertJobs : \A n \in unprocessed[j] \ missed[j] : n > cursor[j]

\* A row the daemon was told of is not forgotten while it serves: its job is in
\* a debounce window, pending, drained, or running with the row in view, unless
\* the job's last attempt failed or was dropped because it was disabled (there is
\* no retry then before the next event or restart).
Scheduled(j) == j \in debounce \cup pending \cup immediates
NoRowForgotten ==
    Serving =>
        \A j \in InsertJobs \ excused :
            told[j] # {} =>
                \/ Scheduled(j)
                \/ active = j /\ \A n \in told[j] : n <= seen

-----------------------------------------------------------------------------
(* The scheduler implements the abstract job queue.                        *)

Queue == INSTANCE JobQueue WITH
            serving <- Serving,
            active  <- IF Serving THEN active ELSE NoJob,
            wanted  <- IF Serving THEN pending \cup immediates ELSE {}

\* Through timers, debounce windows, polls and setImmediate hand-overs the daemon
\* runs one job at a time and never drops an accepted request.
ImplementsQueue == Queue!QueueSpec

-----------------------------------------------------------------------------
(* Liveness.                                                               *)

First == {j \in Jobs : IsFirst(j, Jobs)}

\* What the event loop owes: intervals and timeouts fire, jobs end (the jobs of
\* the registry are assumed to terminate), start() gets past its await, the
\* process ends after a shutdown.  A setImmediate callback runs in the loop
\* iteration that queued it, so other timers can overtake it only if they expire
\* in that same iteration; strong fairness says that this does not recur for
\* ever.  Nothing is owed by clients, crashes, signals, edits or events.
Fairness ==
    /\ WF_vars(BootSteps)
    /\ WF_vars(PollConfig)
    /\ WF_vars(PollTrigger)
    /\ WF_vars(Finish("ok") \/ Finish("error"))
    /\ WF_vars(Exit)
    /\ \A j \in Jobs :
         /\ WF_vars(DebounceFires(j))
         /\ WF_vars(TimerFires(j))
         /\ SF_vars(active = NoJob /\ ImmediateFires(j))

FairSpec == Spec /\ Fairness

\* Config wins: once the daemon stays up and the entry stays explicit, the row's
\* flag ends up equal to it, whatever half-done toggles and stale reconciles of
\* other processes are still to be written.
ConfigWins ==
    \A j \in Jobs :
        /\ <>[](phase = "up" /\ cfg[j] = "on") => <>[](j \in enabled)
        /\ <>[](phase = "up" /\ cfg[j] = "off") => <>[](j \notin enabled)

\* Once a job stays disabled it eventually never runs again, although a request
\* accepted before is still served.
DisabledComesToRest ==
    \A j \in Jobs : <>[](j \notin enabled) => <>[](active # j)

\* A request for the first job of the Map is served unless the daemon stops; the
\* fixed order of findNextPending gives later jobs no such promise.
FirstIsServed ==
    \A j \in First :
        j \in pending \cup immediates ~> active = j \/ phase # "up"

\* A manual trigger of that job leads to a run that begins after it, also when it meets a run of the
\* same job, unless the daemon stops or finds the job disabled (pollTriggerPending, enqueue).
ManualTriggerServed ==
    \A j \in First :
        LET off == phase # "up" \/ j \notin enabled IN
        [](j \in trigger /\ ~off => <>(off \/ (active # j /\ <>(active = j \/ off))))

-----------------------------------------------------------------------------
(* What comments and documents of the repository say, and the code does    *)
(* not do.                                                                 *)

\* indexer/README.md: the CLI flips config and live DB state and a running
\* scheduler picks up the change.  For a job with a timer that means an armed
\* timer, but pollConfig finds the row already switched and installs none.
EnableArmsTimers ==
    \A j \in TimerJobs :
        <>[](phase = "up" /\ cfg[j] = "on" /\ j \in enabled) => <>[](j \in timers)
=============================================================================
