-------------------------- MODULE SchedulerProofs --------------------------
(***************************************************************************)
(* Theorems about Scheduler for every set of jobs, clients and run ids,    *)
(* every Map order and every value of the bounds.                          *)
(***************************************************************************)
EXTENDS Scheduler, TLAPS

USE JobTableAssumption, SchedulerAssumption

-----------------------------------------------------------------------------
(* Type correctness.                                                       *)

\* The variables that starting, queueing and ending a job may change.
RunTypeOK ==
    /\ status \in [Jobs -> Status]
    /\ current \in [Jobs -> RunIds \cup {NoRun}]
    /\ runJob \in [RunIds -> Jobs \cup {NoJob}]
    /\ result \in [RunIds -> Result]
    /\ active \in Jobs \cup {NoJob}
    /\ activeRun \in RunIds \cup {NoRun}
    /\ cursorBefore \in 0..MaxNodes
    /\ begun \subseteq RunIds
    /\ seen \in 0..MaxNodes
    /\ pending \subseteq Jobs
    /\ excused \subseteq InsertJobs

\* setJobEnabled leaves a well-typed status column.
LEMMA StatusAfterEnableType ==
    ASSUME TypeOK, NEW S, NEW on
    PROVE  StatusAfterEnable(S, on) \in [Jobs -> Status]
BY DEF TypeOK, JobTableTypeOK, StatusAfterEnable, AtRest, Status

\* execute keeps the types of what it writes.
LEMMA BeginType ==
    ASSUME TypeOK, NEW j \in Jobs, NEW st \in [Jobs -> Status], Begin(j, st)
    PROVE  /\ status' \in [Jobs -> Status]
           /\ current' \in [Jobs -> RunIds \cup {NoRun}]
           /\ runJob' \in [RunIds -> Jobs \cup {NoJob}]
           /\ result' \in [RunIds -> Result]
           /\ active' \in Jobs
           /\ activeRun' \in RunIds
           /\ cursorBefore' \in 0..MaxNodes
           /\ begun' \subseteq RunIds
           /\ seen' \in 0..MaxNodes
<1>1. PICK r \in RunIds : StartJobRun(j, r, st) /\ activeRun' = r /\ begun' = begun \cup {r}
  BY DEF Begin
<1>2. status' \in [Jobs -> Status] /\ current' \in [Jobs -> RunIds \cup {NoRun}]
  BY <1>1 DEF StartJobRun, TypeOK, JobTableTypeOK, Status
<1>3. runJob' \in [RunIds -> Jobs \cup {NoJob}] /\ result' \in [RunIds -> Result]
  BY <1>1 DEF StartJobRun, TypeOK, JobTableTypeOK, Result
<1>4. /\ active' \in Jobs /\ activeRun' \in RunIds
      /\ cursorBefore' \in 0..MaxNodes /\ seen' \in 0..MaxNodes
      /\ begun' \subseteq RunIds
  BY <1>1 DEF Begin, CursorAtStart, TypeOK
<1> QED BY <1>2, <1>3, <1>4

\* enqueue keeps the types of what it writes.
LEMMA EnqueueAllType ==
    ASSUME TypeOK, NEW S \in SUBSET Jobs, NEW on, NEW st \in [Jobs -> Status],
           EnqueueAll(S, on, st)
    PROVE  RunTypeOK'
<1>1. excused' \subseteq InsertJobs
  BY DEF EnqueueAll, TypeOK
<1>2. CASE active # NoJob \/ S \cap on = {}
  <2>1. CASE UNCHANGED <<active, activeRun, cursorBefore, begun, seen, current, runJob, result>>
             /\ pending' = Pend(S \cap on) /\ status' = st
    BY <1>1, <2>1 DEF Pend, RunTypeOK, TypeOK, JobTableTypeOK
  <2> QED BY <1>2, <2>1 DEF EnqueueAll
<1>3. CASE active = NoJob /\ S \cap on # {}
  <2>1. PICK j \in S \cap on : /\ Begin(j, st)
                               /\ pending' = (pending \ {j}) \cup ((S \cap on) \ {j})
    BY <1>3 DEF EnqueueAll
  <2>2. pending' \subseteq Jobs
    BY <2>1 DEF TypeOK
  <2> QED BY <1>1, <2>1, <2>2, BeginType DEF RunTypeOK
<1> QED BY <1>2, <1>3

\* endJobRun keeps the types of the tables.
LEMMA EndJobRunType ==
    ASSUME TypeOK, NEW r, NEW outcome \in {"ok", "error"},
           EndJobRun(r, outcome)
    PROVE  /\ status' \in [Jobs -> Status]
           /\ current' \in [Jobs -> RunIds \cup {NoRun}]
           /\ runJob' \in [RunIds -> Jobs \cup {NoJob}]
           /\ result' \in [RunIds -> Result]
BY DEF EndJobRun, CurrentAfterEnd, TypeOK, JobTableTypeOK, Status, Result, Ended, AtRest

\* A step that leaves the clients alone and unregisters no job keeps their types.
LEMMA ClientTypeStable ==
    ASSUME ClientTypeOK, UNCHANGED client, registered \subseteq registered'
    PROVE  ClientTypeOK'
BY DEF ClientTypeOK

\* The memory of a process that is gone is well typed.
LEMMA GoneType ==
    ASSUME TypeOK, Gone PROVE TypeOK'
<1>1. JobTableTypeOK'
  BY DEF Gone, TypeOK, JobTableTypeOK, tableVars
<1>2. phase' \in Phase /\ dbOpen' \in BOOLEAN
  BY DEF Gone, Phase
<1>3. bootCfg' \in [Jobs -> CfgEntry]
  BY DEF Gone, CfgEntry
<1>4. cursorBefore' \in 0..MaxNodes /\ seen' \in 0..MaxNodes
  BY DEF Gone
<1>5. told' \in [InsertJobs -> SUBSET Rows]
  BY DEF Gone
<1>6. ClientTypeOK'
  BY ClientTypeStable DEF Gone, TypeOK, tableVars
<1> QED BY <1>1, <1>2, <1>3, <1>4, <1>5, <1>6 DEF Gone, TypeOK, cfgVars, nodeVars

\* The record of a client.
LEMMA BusyType ==
    ASSUME NEW op \in ClientOp, NEW j \in Jobs \cup {NoJob},
           NEW want \in SUBSET Jobs, NEW r \in RunIds \cup {NoRun}
    PROVE  Busy(op, j, want, r) \in Client
BY DEF Busy, Client

\* A client that does nothing has a well-typed record.
LEMMA IdleType == Idle \in Client
BY BusyType DEF Idle, ClientOp

\* Every step of the daemon keeps the types.
LEMMA DaemonType ==
    ASSUME TypeOK, Daemon PROVE TypeOK'
<1>0. ASSUME UNCHANGED client, UNCHANGED registered PROVE ClientTypeOK'
  BY <1>0, ClientTypeStable DEF TypeOK
<1>1. CASE BootClear
  BY <1>1, <1>0 DEF BootClear, ClearStaleRunning, StaleRuns, Open, AtRest, TypeOK, JobTableTypeOK,
              Status, Result, Ended, Phase, rowVars, cfgVars, nodeVars, runVarsD, queued, history
<1>2. CASE BootSteps
  <2>1. CASE BootRegister
    <3>1. EnabledAtBoot \subseteq Jobs
      BY DEF EnabledAtBoot
    <3>2. StatusAfterEnable(Jobs, EnabledAtBoot) \in [Jobs -> Status]
      BY StatusAfterEnableType
    <3>3. JobTableTypeOK'
      BY <2>1, <3>1, <3>2 DEF BootRegister, TypeOK, JobTableTypeOK, runVars
    <3>4. ClientTypeOK'
      BY <2>1, ClientTypeStable DEF BootRegister, TypeOK, JobTableTypeOK
    <3>5. bootCfg' \in [Jobs -> CfgEntry] /\ phase' \in Phase
      BY <2>1 DEF BootRegister, CfgEntry, Phase
    <3> QED BY <2>1, <3>3, <3>4, <3>5 DEF BootRegister, TypeOK, cfgVars, nodeVars, runVarsD, history
  <2>2. ASSUME NEW j \in InsertJobs, CatchUpJob(j) PROVE TypeOK'
    <3>1. /\ toCatchUp' \subseteq InsertJobs /\ firstBoot' \in InsertJobs \cup {NoJob}
          /\ asked' \in 0..MaxNodes
      BY <2>2 DEF CatchUpJob, TypeOK
    <3>2. CASE EnqueueAll({j}, enabled, status) /\ told' = [told EXCEPT ![j] = Unseen(j)]
      <4>1. RunTypeOK'
        BY <3>2, EnqueueAllType DEF TypeOK, JobTableTypeOK
      <4>2. told' \in [InsertJobs -> SUBSET Rows]
        BY <3>2 DEF TypeOK, Unseen
      <4> QED BY <1>0, <2>2, <3>1, <4>1, <4>2
              DEF CatchUpJob, RunTypeOK, TypeOK, JobTableTypeOK, rowVars, cfgVars, nodeVars
    <3>3. CASE UNCHANGED <<runVarsD, pending, seen, told, excused, status, current, runVars>>
      BY <1>0, <2>2, <3>1, <3>3
         DEF CatchUpJob, TypeOK, JobTableTypeOK, rowVars, cfgVars, nodeVars, runVarsD, runVars
    <3> QED BY <2>2, <3>2, <3>3 DEF CatchUpJob
  <2>3. CASE CatchUpCursor
    <3>1. /\ cursor' \in [InsertJobs -> 0..MaxNodes] /\ missed' \in [InsertJobs -> SUBSET Rows]
          /\ asked' \in 0..MaxNodes
      BY <2>3 DEF CatchUpCursor, TypeOK
    <3> QED BY <1>0, <2>3, <3>1
            DEF CatchUpCursor, TypeOK, JobTableTypeOK, tableVars, cfgVars, nodeVars, runVarsD, queued
  <2>4. CASE BootDone
    BY <1>0, <2>4 DEF BootDone, TypeOK, JobTableTypeOK, Phase, tableVars, cfgVars, nodeVars, runVarsD,
                      queued, history
  <2> QED BY <1>2, <2>1, <2>2, <2>3, <2>4 DEF BootSteps
<1>3. CASE Shutdown
  BY <1>3, <1>0 DEF Shutdown, TypeOK, JobTableTypeOK, Phase, tableVars, cfgVars, nodeVars, runVarsD, history
<1>4. CASE Exit \/ Crash
  BY <1>4, GoneType DEF Exit, Crash
<1>5. CASE \E M \in SUBSET InsertJobs : JobInserts(M)
  <2> PICK M \in SUBSET InsertJobs : JobInserts(M)
    BY <1>5
  <2>1. maxRow' \in 0..MaxNodes /\ maxRow + 1 \in Rows
    BY DEF JobInserts, TypeOK, Rows
  <2>2. /\ matching' \in [InsertJobs -> SUBSET Rows]
        /\ unprocessed' \in [InsertJobs -> SUBSET Rows]
        /\ told' \in [InsertJobs -> SUBSET Rows]
    BY <2>1 DEF JobInserts, TypeOK
  <2>3. debounce' \subseteq Jobs
    BY DEF JobInserts, TypeOK
  <2> QED BY <1>0, <2>1, <2>2, <2>3 DEF JobInserts, TypeOK, JobTableTypeOK, tableVars, cfgVars, daemonVars, runVarsD
<1>6. CASE \E M \in SUBSET StateJobs : JobChangesState(M)
  BY <1>0, <1>6 DEF JobChangesState, TypeOK, JobTableTypeOK, tableVars, cfgVars, nodeVars, daemonVars, runVarsD, history
<1>7. ASSUME NEW j \in Jobs, DebounceFires(j) PROVE TypeOK'
  <2>1. RunTypeOK'
    BY <1>7, EnqueueAllType DEF DebounceFires, TypeOK, JobTableTypeOK
  <2> QED BY <1>0, <1>7, <2>1 DEF DebounceFires, RunTypeOK, TypeOK, JobTableTypeOK, rowVars, cfgVars, nodeVars, daemonVars
<1>8. ASSUME NEW j \in Jobs, TimerFires(j) PROVE TypeOK'
  <2>1. RunTypeOK'
    BY <1>8, EnqueueAllType DEF TimerFires, TypeOK, JobTableTypeOK
  <2> QED BY <1>0, <1>8, <2>1 DEF TimerFires, RunTypeOK, TypeOK, JobTableTypeOK, rowVars, cfgVars, nodeVars, daemonVars
<1>9. ASSUME NEW j \in Jobs, ImmediateFires(j) PROVE TypeOK'
  <2>1. excused' \subseteq InsertJobs /\ immediates' \subseteq Jobs
    BY <1>9 DEF ImmediateFires, TypeOK
  <2>2. RunTypeOK'
    <3>1. CASE active = NoJob /\ Begin(j, status) /\ UNCHANGED pending
      <4>1. status \in [Jobs -> Status] /\ pending' \subseteq Jobs
        BY <3>1 DEF TypeOK, JobTableTypeOK
      <4> QED BY <2>1, <3>1, <4>1, BeginType DEF RunTypeOK
    <3>2. CASE /\ pending' = Pend({j})
               /\ UNCHANGED <<active, activeRun, cursorBefore, begun, seen, status, current, runJob, result>>
      BY <2>1, <3>2 DEF Pend, RunTypeOK, TypeOK, JobTableTypeOK
    <3> QED BY <1>9, <3>1, <3>2 DEF ImmediateFires
  <2> QED BY <1>0, <1>9, <2>1, <2>2 DEF ImmediateFires, RunTypeOK, TypeOK, JobTableTypeOK, rowVars, cfgVars, nodeVars, daemonVars
<1>10. CASE PollTrigger
  <2>1. RunTypeOK'
    BY <1>10, EnqueueAllType DEF PollTrigger, TypeOK, JobTableTypeOK
  <2> QED BY <1>0, <1>10, <2>1 DEF PollTrigger, RunTypeOK, TypeOK, JobTableTypeOK, cfgVars, nodeVars, daemonVars
<1>11. CASE PollConfig
  <2>1. status' \in [Jobs -> Status]
    BY <1>11, StatusAfterEnableType DEF PollConfig
  <2>2. Switched \subseteq registered
    BY DEF Switched
  <2>3. enabled' \subseteq registered' /\ timers' \subseteq Jobs
    BY <1>11, <2>2 DEF PollConfig, TypeOK, JobTableTypeOK
  <2> QED BY <1>0, <1>11, <2>1, <2>3 DEF PollConfig, TypeOK, JobTableTypeOK, runVars, cfgVars, nodeVars, daemonVars, runVarsD, history
<1>12. ASSUME NEW outcome \in {"ok", "error"}, Finish(outcome) PROVE TypeOK'
  <2>1. /\ status' \in [Jobs -> Status]
        /\ current' \in [Jobs -> RunIds \cup {NoRun}]
        /\ runJob' \in [RunIds -> Jobs \cup {NoJob}]
        /\ result' \in [RunIds -> Result]
    BY <1>12, EndJobRunType DEF Finish
  <2>2. pending' \subseteq Jobs /\ immediates' \subseteq Jobs
    BY <1>12 DEF Finish, DrainOne, IsFirst, TypeOK
  <2>3. cursor' \in [InsertJobs -> 0..MaxNodes]
    BY <1>12 DEF Finish, CursorAfter, TypeOK
  <2>4. unprocessed' \in [InsertJobs -> SUBSET Rows] /\ told' \in [InsertJobs -> SUBSET Rows]
    BY <1>12 DEF Finish, Handled, TypeOK
  <2>5. excused' \subseteq InsertJobs /\ cursorBefore' \in 0..MaxNodes /\ seen' \in 0..MaxNodes
    BY <1>12 DEF Finish, TypeOK
  <2> QED BY <1>0, <1>12, <2>1, <2>2, <2>3, <2>4, <2>5 DEF Finish, TypeOK, JobTableTypeOK, rowVars, cfgVars, nodeVars, daemonVars
<1> QED BY <1>1, <1>2, <1>3, <1>4, <1>5, <1>6, <1>7, <1>8, <1>9, <1>10, <1>11, <1>12 DEF Daemon

\* Every step of another process keeps the types.
LEMMA OutsideType ==
    ASSUME TypeOK, Outside PROVE TypeOK'
<1> USE DEF notDaemon, runVars, cfgVars, nodeVars, daemonVars, runVarsD, queued, history
<1>1. ASSUME NEW c \in Clients, NEW j \in Jobs, NEW on \in BOOLEAN, ToggleConfig(c, j, on)
      PROVE  TypeOK'
  <2>1. Busy(IF on THEN "enable" ELSE "disable", j, {}, NoRun) \in Client
    BY BusyType DEF ClientOp
  <2>2. ClientTypeOK'
    BY <1>1, <2>1 DEF ToggleConfig, TypeOK, ClientTypeOK, Busy
  <2>3. cfg' \in [Jobs -> CfgEntry]
    BY <1>1 DEF ToggleConfig, TypeOK, CfgEntry
  <2>4. JobTableTypeOK'
    BY <1>1 DEF ToggleConfig, TypeOK, JobTableTypeOK
  <2> QED BY <1>1, <2>2, <2>3, <2>4 DEF ToggleConfig, TypeOK
<1>2. ASSUME NEW c \in Clients, ToggleRow(c) PROVE TypeOK'
  <2>1. ClientTypeOK'
    BY <1>2, IdleType DEF ToggleRow, TypeOK, ClientTypeOK, Idle, Busy
  <2>2. status' \in [Jobs -> Status]
    BY <1>2, StatusAfterEnableType DEF ToggleRow
  <2>3. enabled' \subseteq registered'
    BY <1>2 DEF ToggleRow, TypeOK, ClientTypeOK, JobTableTypeOK
  <2>4. JobTableTypeOK'
    BY <1>2, <2>2, <2>3 DEF ToggleRow, TypeOK, JobTableTypeOK
  <2> QED BY <1>2, <2>1, <2>4 DEF ToggleRow, TypeOK
<1>3. ASSUME NEW c \in Clients, NEW op \in {"list", "trigger", "now"},
             NEW j \in Jobs \cup {NoJob}, op = "list" \/ j \in Jobs, ReadConfig(c, op, j)
      PROVE  TypeOK'
  <2>1. Configured \in SUBSET Jobs
    BY DEF Configured
  <2>2. Busy(op, j, Configured, NoRun) \in Client
    BY <2>1, BusyType DEF ClientOp
  <2>3. ClientTypeOK'
    BY <1>3, <2>2 DEF ReadConfig, TypeOK, ClientTypeOK, Busy, tableVars
  <2> QED BY <1>3, <2>3 DEF ReadConfig, TypeOK, JobTableTypeOK, tableVars
<1>4. ASSUME NEW c \in Clients, Reconcile(c) PROVE TypeOK'
  <2> DEFINE st == StatusAfterEnable(Jobs, client[c].want)
  <2>1. client[c] \in Client
    BY DEF TypeOK, ClientTypeOK
  <2>2. st \in [Jobs -> Status] /\ client[c].want \subseteq Jobs
    BY <2>1, StatusAfterEnableType DEF Client
  <2>3. registered' = Jobs /\ enabled' \subseteq Jobs
    BY <1>4, <2>2 DEF Reconcile
  <2>4. /\ status' \in [Jobs -> Status]
        /\ current' \in [Jobs -> RunIds \cup {NoRun}]
        /\ runJob' \in [RunIds -> Jobs \cup {NoJob}]
        /\ result' \in [RunIds -> Result]
        /\ trigger' \subseteq Jobs
        /\ ClientTypeOK'
    <3>0. registered \subseteq registered'
      BY <2>3 DEF TypeOK, JobTableTypeOK
    <3>1. CASE client[c].op = "list"
      <4>1. /\ status' = st /\ client' = [client EXCEPT ![c] = Idle]
            /\ UNCHANGED <<current, trigger, runVars>>
        BY <1>4, <3>1 DEF Reconcile
      <4>2. ClientTypeOK'
        BY <3>0, <4>1, IdleType DEF TypeOK, ClientTypeOK, Idle, Busy
      <4> QED BY <4>1, <4>2, <2>2 DEF TypeOK, JobTableTypeOK, runVars
    <3>2. CASE client[c].op = "trigger"
      <4>1. /\ status' = st /\ client' = [client EXCEPT ![c] = Idle]
            /\ trigger' = trigger \cup {client[c].job}
            /\ UNCHANGED <<current, runVars>>
        BY <1>4, <3>2 DEF Reconcile
      <4>2. client[c].job \in Jobs
        BY <3>2 DEF TypeOK, ClientTypeOK
      <4>3. ClientTypeOK'
        BY <3>0, <4>1, IdleType DEF TypeOK, ClientTypeOK, Idle, Busy
      <4> QED BY <4>1, <4>2, <4>3, <2>2 DEF TypeOK, JobTableTypeOK, runVars
    <3>3. CASE client[c].op = "now"
      <4>1. PICK r \in RunIds :
              /\ StartJobRun(client[c].job, r, st)
              /\ client' = [client EXCEPT ![c] = Busy("inline", client[c].job, {}, r)]
        BY <1>4, <3>3 DEF Reconcile
      <4>2. client[c].job \in Jobs
        BY <3>3 DEF TypeOK, ClientTypeOK
      <4>3. Busy("inline", client[c].job, {}, r) \in Client
        BY <4>2, BusyType DEF ClientOp
      <4>4. ClientTypeOK'
        BY <2>3, <3>0, <4>1, <4>2, <4>3 DEF TypeOK, ClientTypeOK, Busy
      <4>5. UNCHANGED trigger
        BY <1>4, <3>3 DEF Reconcile
      <4> QED BY <4>1, <4>2, <4>4, <4>5, <2>2 DEF StartJobRun, TypeOK, JobTableTypeOK, Status, Result
    <3> QED BY <1>4, <3>1, <3>2, <3>3 DEF Reconcile
  <2>5. JobTableTypeOK'
    BY <2>3, <2>4 DEF JobTableTypeOK
  <2> QED BY <1>4, <2>4, <2>5 DEF Reconcile, TypeOK
<1>5. ASSUME NEW c \in Clients, NEW outcome \in {"ok", "error"}, InlineEnds(c, outcome)
      PROVE  TypeOK'
  <2>1. /\ status' \in [Jobs -> Status]
        /\ current' \in [Jobs -> RunIds \cup {NoRun}]
        /\ runJob' \in [RunIds -> Jobs \cup {NoJob}]
        /\ result' \in [RunIds -> Result]
    BY <1>5, EndJobRunType DEF InlineEnds
  <2>2. ClientTypeOK'
    BY <1>5, IdleType DEF InlineEnds, TypeOK, ClientTypeOK, Idle, Busy, rowVars
  <2>3. JobTableTypeOK'
    BY <1>5, <2>1 DEF InlineEnds, TypeOK, JobTableTypeOK, rowVars
  <2> QED BY <1>5, <2>2, <2>3 DEF InlineEnds, TypeOK
<1>6. ASSUME NEW c \in Clients, ClientCrashes(c) PROVE TypeOK'
  <2>1. ClientTypeOK'
    BY <1>6, IdleType DEF ClientCrashes, TypeOK, ClientTypeOK, Idle, Busy, tableVars
  <2> QED BY <1>6, <2>1 DEF ClientCrashes, TypeOK, JobTableTypeOK, tableVars
<1>7. ASSUME NEW j \in Jobs, UiTrigger(j) PROVE TypeOK'
  BY <1>7, ClientTypeStable DEF UiTrigger, TypeOK, JobTableTypeOK
<1>8. ASSUME NEW j \in Jobs, NEW entry \in Entries, EditConfig(j, entry) PROVE TypeOK'
  BY <1>8, ClientTypeStable DEF EditConfig, TypeOK, JobTableTypeOK, tableVars, CfgEntry
<1>9. ASSUME NEW M \in SUBSET InsertJobs, ExternalInsert(M) PROVE TypeOK'
  <2>1. maxRow' \in 0..MaxNodes /\ maxRow + 1 \in Rows
    BY <1>9 DEF ExternalInsert, TypeOK, Rows
  <2>2. matching' \in [InsertJobs -> SUBSET Rows] /\ unprocessed' \in [InsertJobs -> SUBSET Rows]
    BY <1>9, <2>1 DEF ExternalInsert, TypeOK
  <2> QED BY <1>9, <2>1, <2>2, ClientTypeStable DEF ExternalInsert, TypeOK, JobTableTypeOK, tableVars
<1>10. ASSUME NEW c \in Clients, ClientStep(c) PROVE TypeOK'
  BY <1>1, <1>2, <1>3, <1>4, <1>5, <1>6, <1>10 DEF ClientStep
<1> QED BY <1>7, <1>8, <1>9, <1>10 DEF Outside

\* Every step keeps the types.
LEMMA StepType == TypeOK /\ [Next]_vars => TypeOK'
<1> SUFFICES ASSUME TypeOK, [Next]_vars PROVE TypeOK'
  OBVIOUS
<1>1. CASE UNCHANGED vars
  BY <1>1, ClientTypeStable DEF vars, TypeOK, JobTableTypeOK
<1> QED BY <1>1, DaemonType, OutsideType DEF Next

\* The initial states are well typed.
LEMMA InitType == Init => TypeOK
<1> SUFFICES ASSUME Init PROVE TypeOK
  OBVIOUS
<1>1. JobTableTypeOK
  BY DEF Init, JobTableInit, JobTableTypeOK, Status, Result
<1>2. /\ cfg \in [Jobs -> CfgEntry]
      /\ bootCfg \in [Jobs -> CfgEntry]
      /\ phase \in Phase
  BY DEF Init, CfgEntry, Phase
<1>3. maxRow \in 0..MaxNodes /\ cursorBefore \in 0..MaxNodes /\ seen \in 0..MaxNodes
  BY DEF Init
<1>4. /\ matching \in [InsertJobs -> SUBSET Rows]
      /\ unprocessed \in [InsertJobs -> SUBSET Rows]
      /\ told \in [InsertJobs -> SUBSET Rows]
  BY DEF Init
<1>5. cursor \in [InsertJobs -> 0..MaxNodes]
  BY DEF Init
<1>6. ClientTypeOK
  BY IdleType DEF Init, ClientTypeOK, Idle, Busy
<1> QED BY <1>1, <1>2, <1>3, <1>4, <1>5, <1>6 DEF Init, TypeOK

\* TypeOK is an invariant of the scheduler for every instance.
THEOREM TypeCorrect == Spec => []TypeOK
BY InitType, StepType, PTL DEF Spec

-----------------------------------------------------------------------------
(* Inductive strengthenings.                                               *)

\* A process that does not serve yet has nothing running and nothing queued.
QuietWhenDown ==
    phase \in {"down", "booting"} =>
        /\ active = NoJob /\ activeRun = NoRun /\ begun = {}
        /\ pending = {} /\ immediates = {}

\* A client that runs a job inline works on a run of its own.
InlineRunsApart ==
    \A c \in Clients :
        client[c].op = "inline" => client[c].run \in RunIds /\ client[c].run # activeRun

\* What the daemon remembers of the runs it is in.
DaemonRun ==
    /\ begun = IF active = NoJob THEN {} ELSE {activeRun}
    /\ IF active = NoJob
       THEN activeRun = NoRun
       ELSE activeRun \in Open /\ runJob[activeRun] = active

\* What the mutex and the rows need: the properties of the tables and the two
\* facts about processes they rest on.
RunInv ==
    /\ TypeOK
    /\ NoLostWakeup
    /\ QuietWhenDown
    /\ InlineRunsApart
    /\ Serving => DaemonRun
    /\ RunningRowHasOpenRun

\* Cursors never run ahead of the table, and the rows they are compared with are
\* rows of the table.
CursorBounds ==
    /\ cursorBefore <= seen /\ seen <= maxRow
    /\ \A j \in InsertJobs :
         /\ cursor[j] <= maxRow
         /\ matching[j] \subseteq 1..maxRow
         /\ unprocessed[j] \subseteq matching[j]
         /\ told[j] \subseteq matching[j]
    /\ asked <= maxRow
    /\ firstBoot # NoJob => \A n \in matching[firstBoot] : n > asked

\* A daemon that does not serve yet was told of nothing.
NothingTold == phase \in {"down", "booting"} => \A j \in InsertJobs : told[j] = {}

\* What the catch-up cursor and the told rows need.
CursorInv ==
    /\ CursorBounds
    /\ CursorSafe
    /\ NoRowForgotten
    /\ NothingTold

-----------------------------------------------------------------------------
(* The mutex and the job rows.                                             *)

\* setJobEnabled neither starts nor ends anything.
LEMMA EnableKeepsRunning ==
    ASSUME NEW S, NEW on
    PROVE  \A k \in Jobs : StatusAfterEnable(S, on)[k] = "running" <=> status[k] = "running"
BY DEF StatusAfterEnable, AtRest

\* A change of the status column that neither starts nor ends anything keeps the rows true.
LEMMA RowsStable ==
    ASSUME RunningRowHasOpenRun, UNCHANGED <<current, runJob, result>>,
           \A k \in Jobs : status'[k] = "running" <=> status[k] = "running"
    PROVE  RunningRowHasOpenRun'
BY DEF RunningRowHasOpenRun, Open

\* startJobRun keeps the rows true: its run is one that no row named.
LEMMA StartKeepsRows ==
    ASSUME TypeOK, RunningRowHasOpenRun, NEW j \in Jobs, NEW r \in FreeRuns,
           NEW st \in [Jobs -> Status],
           \A k \in Jobs : st[k] = "running" <=> status[k] = "running",
           StartJobRun(j, r, st)
    PROVE  RunningRowHasOpenRun'
<1> SUFFICES ASSUME NEW k \in Jobs
             PROVE  /\ status'[k] = "running" <=> current'[k] # NoRun
                    /\ current'[k] # NoRun => /\ current'[k] \in RunIds
                                              /\ result'[current'[k]] = "open"
                                              /\ runJob'[current'[k]] = k
  BY DEF RunningRowHasOpenRun, Open
<1>1. r \in RunIds /\ r # NoRun /\ current[k] # r
  BY DEF FreeRuns
<1>2. /\ runJob' = [runJob EXCEPT ![r] = j]
      /\ result' = [result EXCEPT ![r] = "open"]
      /\ status' = [st EXCEPT ![j] = "running"]
      /\ current' = [current EXCEPT ![j] = r]
  BY DEF StartJobRun
<1>3. /\ status[k] = "running" <=> current[k] # NoRun
      /\ current[k] # NoRun => /\ current[k] \in RunIds
                               /\ result[current[k]] = "open"
                               /\ runJob[current[k]] = k
  BY DEF RunningRowHasOpenRun, Open
<1>4. /\ current \in [Jobs -> RunIds \cup {NoRun}]
      /\ runJob \in [RunIds -> Jobs \cup {NoJob}]
      /\ result \in [RunIds -> Result]
  BY DEF TypeOK, JobTableTypeOK
<1>5. CASE k = j
  BY <1>1, <1>2, <1>4, <1>5
<1>6. CASE k # j
  BY <1>1, <1>2, <1>3, <1>4, <1>6
<1> QED BY <1>5, <1>6

\* endJobRun keeps the rows true: it resets the row of the run's job, and the rows
\* of other jobs name other runs.
LEMMA EndKeepsRows ==
    ASSUME TypeOK, RunningRowHasOpenRun, NEW r \in RunIds, NEW outcome \in {"ok", "error"},
           EndJobRun(r, outcome)
    PROVE  RunningRowHasOpenRun'
<1> SUFFICES ASSUME NEW k \in Jobs
             PROVE  /\ status'[k] = "running" <=> current'[k] # NoRun
                    /\ current'[k] # NoRun => /\ current'[k] \in RunIds
                                              /\ result'[current'[k]] = "open"
                                              /\ runJob'[current'[k]] = k
  BY DEF RunningRowHasOpenRun, Open
<1> DEFINE j == runJob[r]
<1>1. /\ result' = [result EXCEPT ![r] = outcome]
      /\ status' = [status EXCEPT ![j] = AtRest(j, enabled)]
      /\ current' = [current EXCEPT ![j] = NoRun]
      /\ runJob' = runJob
  BY DEF EndJobRun, CurrentAfterEnd
<1>2. /\ status[k] = "running" <=> current[k] # NoRun
      /\ current[k] # NoRun => /\ current[k] \in RunIds
                               /\ result[current[k]] = "open"
                               /\ runJob[current[k]] = k
  BY DEF RunningRowHasOpenRun, Open
<1>3. /\ current \in [Jobs -> RunIds \cup {NoRun}]
      /\ status \in [Jobs -> Status]
      /\ result \in [RunIds -> Result]
  BY DEF TypeOK, JobTableTypeOK
<1>4. AtRest(j, enabled) # "running"
  BY DEF AtRest
<1>5. CASE k = j
  BY <1>1, <1>3, <1>4, <1>5
<1>6. CASE k # j
  BY <1>1, <1>2, <1>3, <1>6
<1> QED BY <1>5, <1>6

\* execute, from a daemon with no active run, makes one that is known to the table.
LEMMA BeginRun ==
    ASSUME TypeOK, RunningRowHasOpenRun, InlineRunsApart, DaemonRun, NEW j \in Jobs,
           NEW st \in [Jobs -> Status],
           \A k \in Jobs : st[k] = "running" <=> status[k] = "running",
           active = NoJob, Begin(j, st), UNCHANGED client
    PROVE  RunningRowHasOpenRun' /\ InlineRunsApart' /\ DaemonRun' /\ active' = j
<1>1. PICK r \in RunIds : /\ NextRun(r) /\ StartJobRun(j, r, st)
                          /\ activeRun' = r /\ begun' = begun \cup {r}
  BY DEF Begin
<1>2. r \in FreeRuns
  BY <1>1 DEF NextRun
<1>3. RunningRowHasOpenRun'
  BY <1>1, <1>2, StartKeepsRows
<1>4. InlineRunsApart'
  BY <1>1, <1>2 DEF InlineRunsApart, FreeRuns
<1>5. activeRun' \in Open' /\ runJob'[activeRun'] = j
  BY <1>1 DEF StartJobRun, Open, TypeOK, JobTableTypeOK
<1>6. active' = j /\ j # NoJob /\ begun' = {activeRun'}
  BY <1>1 DEF Begin, DaemonRun
<1> QED BY <1>3, <1>4, <1>5, <1>6 DEF DaemonRun

\* enqueue either begins a run or leaves the tables to the status column, and what
\* it leaves pending has a job running before it.
LEMMA EnqueueRun ==
    ASSUME TypeOK, RunningRowHasOpenRun, InlineRunsApart, DaemonRun, NoLostWakeup,
           NEW S \in SUBSET Jobs, NEW on, NEW st \in [Jobs -> Status],
           \A k \in Jobs : st[k] = "running" <=> status[k] = "running",
           EnqueueAll(S, on, st), UNCHANGED <<client, immediates>>
    PROVE  RunningRowHasOpenRun' /\ InlineRunsApart' /\ DaemonRun' /\ NoLostWakeup'
<1>1. CASE active # NoJob \/ S \cap on = {}
  <2>1. CASE UNCHANGED <<active, activeRun, cursorBefore, begun, seen, current, runJob, result>>
             /\ pending' = Pend(S \cap on) /\ status' = st
    <3>1. RunningRowHasOpenRun'
      BY <2>1, RowsStable
    <3>2. InlineRunsApart'
      BY <2>1 DEF InlineRunsApart
    <3>3. DaemonRun'
      BY <2>1 DEF DaemonRun, Open
    <3>4. NoLostWakeup'
      BY <1>1, <2>1 DEF NoLostWakeup, Pend
    <3> QED BY <3>1, <3>2, <3>3, <3>4
  <2> QED BY <1>1, <2>1 DEF EnqueueAll
<1>2. CASE active = NoJob /\ S \cap on # {}
  <2>1. PICK j \in S \cap on : Begin(j, st)
    BY <1>2 DEF EnqueueAll
  <2>2. RunningRowHasOpenRun' /\ InlineRunsApart' /\ DaemonRun' /\ active' = j
    BY <1>2, <2>1, BeginRun
  <2> QED BY <2>1, <2>2 DEF NoLostWakeup
<1> QED BY <1>1, <1>2

\* Every step of the daemon keeps RunInv.
LEMMA DaemonRunInv ==
    ASSUME RunInv, Daemon PROVE RunInv'
<1> USE DEF RunInv
<1>0. TypeOK'
  BY DaemonType
<1>a. phase \in {"up", "catchup", "booting"} => DaemonRun
  BY DEF DaemonRun, Serving, QuietWhenDown
<1>b. ASSUME DaemonRun', InlineRunsApart', RunningRowHasOpenRun', NoLostWakeup',
             phase' \in {"catchup", "up"}
      PROVE  RunInv'
  BY <1>0, <1>b DEF QuietWhenDown
<1>c. ASSUME Gone PROVE RunInv'
  <2>1. RunningRowHasOpenRun'
    BY <1>c, RowsStable DEF Gone, tableVars
  <2>2. InlineRunsApart'
    BY <1>c DEF Gone, InlineRunsApart
  <2> QED BY <1>0, <1>c, <2>1, <2>2 DEF Gone, NoLostWakeup, QuietWhenDown, Serving
<1>d. status \in [Jobs -> Status]
  BY DEF TypeOK, JobTableTypeOK
<1>e. ASSUME phase \in {"booting", "catchup", "up"}, phase' \in {"catchup", "up"},
             UNCHANGED <<status, current, runVars, runVarsD, client, pending, immediates>>
      PROVE  RunInv'
  <2>1. RunningRowHasOpenRun'
    BY <1>e, RowsStable DEF runVars
  <2>2. InlineRunsApart'
    BY <1>e DEF InlineRunsApart, runVarsD
  <2>3. DaemonRun'
    BY <1>a, <1>e DEF DaemonRun, Open, runVars, runVarsD
  <2> QED BY <1>b, <1>e, <2>1, <2>2, <2>3 DEF NoLostWakeup, runVarsD
<1>1. CASE BootClear
  <2>1. RunningRowHasOpenRun'
    BY <1>1 DEF BootClear, ClearStaleRunning, RunningRowHasOpenRun, AtRest, Open, StaleRuns
  <2>2. InlineRunsApart'
    BY <1>1 DEF BootClear, InlineRunsApart, runVarsD
  <2>3. NoLostWakeup' /\ QuietWhenDown' /\ ~Serving'
    BY <1>1 DEF BootClear, runVarsD, queued, NoLostWakeup, QuietWhenDown, Serving
  <2> QED BY <1>0, <2>1, <2>2, <2>3
<1>2. CASE BootSteps
  <2>1. CASE BootRegister
    <3>1. RunningRowHasOpenRun'
      BY <2>1, EnableKeepsRunning, RowsStable DEF BootRegister, runVars
    <3>2. InlineRunsApart' /\ DaemonRun' /\ NoLostWakeup'
      BY <2>1, <1>a DEF BootRegister, InlineRunsApart, DaemonRun, Open, NoLostWakeup, runVars, runVarsD
    <3> QED BY <2>1, <1>b, <3>1, <3>2 DEF BootRegister
  <2>2. ASSUME NEW j \in InsertJobs, CatchUpJob(j) PROVE RunInv'
    <3>1. CASE EnqueueAll({j}, enabled, status)
      BY <2>2, <3>1, <1>a, <1>b, <1>d, EnqueueRun DEF CatchUpJob
    <3>2. CASE UNCHANGED <<runVarsD, pending, seen, told, excused, status, current, runVars>>
      BY <2>2, <3>2, <1>e DEF CatchUpJob
    <3> QED BY <2>2, <3>1, <3>2 DEF CatchUpJob
  <2>3. CASE CatchUpCursor
    BY <2>3, <1>e DEF CatchUpCursor, tableVars, runVars, queued
  <2>4. CASE BootDone
    BY <2>4, <1>e DEF BootDone, tableVars, runVars, queued
  <2> QED BY <1>2, <2>1, <2>2, <2>3, <2>4 DEF BootSteps
<1>3. CASE Shutdown
  <2>1. RunningRowHasOpenRun'
    BY <1>3, RowsStable DEF Shutdown, tableVars
  <2>2. InlineRunsApart'
    BY <1>3 DEF Shutdown, InlineRunsApart, runVarsD
  <2> QED BY <1>0, <1>3, <2>1, <2>2 DEF Shutdown, runVarsD, NoLostWakeup, QuietWhenDown, Serving
<1>4. CASE Exit \/ Crash
  BY <1>4, <1>c DEF Exit, Crash
<1>5. CASE \E M \in SUBSET InsertJobs : JobInserts(M)
  BY <1>5, <1>e DEF JobInserts, daemonVars, tableVars, runVars
<1>6. CASE \E M \in SUBSET StateJobs : JobChangesState(M)
  BY <1>6, <1>e DEF JobChangesState, daemonVars, tableVars, runVars
<1>7. ASSUME NEW j \in Jobs, DebounceFires(j) PROVE RunInv'
  BY <1>7, <1>a, <1>b, <1>d, EnqueueRun DEF DebounceFires, daemonVars
<1>8. ASSUME NEW j \in Jobs, TimerFires(j) PROVE RunInv'
  BY <1>8, <1>a, <1>b, <1>d, EnqueueRun DEF TimerFires, daemonVars
<1>9. ASSUME NEW j \in Jobs, ImmediateFires(j) PROVE RunInv'
  <2>0. phase = "up" /\ phase' = "up" /\ UNCHANGED client /\ DaemonRun
    BY <1>9, <1>a DEF ImmediateFires, daemonVars
  <2>1. CASE /\ active # NoJob /\ pending' = Pend({j})
             /\ UNCHANGED <<active, activeRun, cursorBefore, begun, seen, status, current, runJob, result>>
    <3>1. RunningRowHasOpenRun'
      BY <2>1, RowsStable
    <3>2. InlineRunsApart' /\ DaemonRun' /\ NoLostWakeup'
      BY <2>0, <2>1 DEF InlineRunsApart, DaemonRun, Open, NoLostWakeup
    <3> QED BY <1>b, <2>0, <3>1, <3>2
  <2>2. CASE active = NoJob /\ Begin(j, status)
    <3>1. RunningRowHasOpenRun' /\ InlineRunsApart' /\ DaemonRun' /\ active' = j
      BY <1>d, <2>0, <2>2, BeginRun
    <3> QED BY <1>b, <2>0, <3>1 DEF NoLostWakeup
  <2> QED BY <1>9, <2>1, <2>2 DEF ImmediateFires
<1>10. CASE PollTrigger
  <2>1. trigger \in SUBSET Jobs
    BY DEF TypeOK, JobTableTypeOK
  <2> QED BY <1>10, <1>a, <1>b, <1>d, <2>1, EnqueueRun DEF PollTrigger, daemonVars
<1>11. CASE PollConfig
  <2>1. RunningRowHasOpenRun'
    BY <1>11, EnableKeepsRunning, RowsStable DEF PollConfig, runVars
  <2>2. InlineRunsApart' /\ DaemonRun' /\ NoLostWakeup'
    BY <1>11, <1>a DEF PollConfig, InlineRunsApart, DaemonRun, Open, NoLostWakeup, runVars, runVarsD
  <2> QED BY <1>11, <1>b, <2>1, <2>2 DEF PollConfig, daemonVars
<1>12. ASSUME NEW outcome \in {"ok", "error"}, Finish(outcome) PROVE RunInv'
  <2>0. activeRun \in RunIds /\ phase' = "up" /\ activeRun' = NoRun /\ active' = NoJob
    BY <1>12, <1>a DEF Finish, DaemonRun, Open, daemonVars
  <2>1. RunningRowHasOpenRun'
    BY <1>12, <2>0, EndKeepsRows DEF Finish
  <2>2. DaemonRun'
    BY <1>12, <1>a, <2>0 DEF Finish, DaemonRun
  <2>3. InlineRunsApart'
    BY <1>12, <2>0 DEF Finish, InlineRunsApart
  <2>4. NoLostWakeup'
    BY <1>12 DEF Finish, DrainOne, NoLostWakeup
  <2> QED BY <1>b, <2>0, <2>1, <2>2, <2>3, <2>4
<1> QED BY <1>1, <1>2, <1>3, <1>4, <1>5, <1>6, <1>7, <1>8, <1>9, <1>10, <1>11, <1>12 DEF Daemon

\* Every step of another process keeps RunInv: an inline run is a run of its own,
\* so that ending it takes nothing from the daemon's run or from other rows.
LEMMA OutsideRunInv ==
    ASSUME RunInv, Outside PROVE RunInv'
<1> USE DEF RunInv, notDaemon, daemonVars, runVarsD, queued
<1>0. TypeOK'
  BY OutsideType
<1>a. ASSUME UNCHANGED notDaemon, RunningRowHasOpenRun', InlineRunsApart', Serving => DaemonRun'
      PROVE  RunInv'
  BY <1>0, <1>a DEF NoLostWakeup, QuietWhenDown, Serving
<1>b. ASSUME UNCHANGED <<notDaemon, current, runJob, result>>, InlineRunsApart',
             \A k \in Jobs : status'[k] = "running" <=> status[k] = "running"
      PROVE  RunInv'
  BY <1>a, <1>b, RowsStable DEF DaemonRun, Open
<1>c. ASSUME \A d \in Clients : client'[d].op = "inline" => client'[d] = client[d],
             UNCHANGED activeRun
      PROVE  InlineRunsApart'
  BY <1>c DEF InlineRunsApart
<1>d. client \in [Clients -> Client]
  BY DEF TypeOK, ClientTypeOK
<1>1. ASSUME NEW c \in Clients, NEW j \in Jobs, NEW on \in BOOLEAN, ToggleConfig(c, j, on)
      PROVE  RunInv'
  <2>1. InlineRunsApart'
    BY <1>1, <1>c, <1>d DEF ToggleConfig, Busy
  <2> QED BY <1>1, <1>b, <2>1 DEF ToggleConfig, runVars
<1>2. ASSUME NEW c \in Clients, ToggleRow(c) PROVE RunInv'
  <2>1. InlineRunsApart'
    BY <1>2, <1>c, <1>d DEF ToggleRow, Idle, Busy
  <2> QED BY <1>2, <1>b, <2>1, EnableKeepsRunning DEF ToggleRow, runVars
<1>3. ASSUME NEW c \in Clients, NEW op \in {"list", "trigger", "now"}, NEW j, ReadConfig(c, op, j)
      PROVE  RunInv'
  <2>1. InlineRunsApart'
    BY <1>3, <1>c, <1>d DEF ReadConfig, Busy
  <2> QED BY <1>3, <1>b, <2>1 DEF ReadConfig, tableVars
<1>4. ASSUME NEW c \in Clients, Reconcile(c) PROVE RunInv'
  <2> DEFINE st == StatusAfterEnable(Jobs, client[c].want)
  <2>1. st \in [Jobs -> Status] /\ \A k \in Jobs : st[k] = "running" <=> status[k] = "running"
    BY StatusAfterEnableType, EnableKeepsRunning
  <2>2. CASE client[c].op \in {"list", "trigger"}
    <3>1. status' = st /\ client' = [client EXCEPT ![c] = Idle] /\ UNCHANGED <<current, runVars, notDaemon>>
      BY <1>4, <2>2 DEF Reconcile
    <3>2. InlineRunsApart'
      BY <1>c, <1>d, <3>1 DEF Idle, Busy
    <3> QED BY <1>b, <2>1, <3>1, <3>2 DEF runVars
  <2>3. CASE client[c].op = "now"
    <3>1. PICK r \in RunIds :
            /\ NextRun(r)
            /\ StartJobRun(client[c].job, r, st)
            /\ client' = [client EXCEPT ![c] = Busy("inline", client[c].job, {}, r)]
      BY <1>4, <2>3 DEF Reconcile
    <3>2. client[c].job \in Jobs /\ r \in FreeRuns
      BY <2>3, <3>1 DEF TypeOK, ClientTypeOK, NextRun
    <3>3. RunningRowHasOpenRun'
      BY <2>1, <3>1, <3>2, StartKeepsRows
    <3>4. UNCHANGED notDaemon
      BY <1>4 DEF Reconcile
    <3>5. InlineRunsApart'
      BY <3>1, <3>2, <3>4 DEF InlineRunsApart, FreeRuns, TypeOK, ClientTypeOK, Busy
    <3>6. Serving => DaemonRun'
      BY <3>1, <3>2, <3>4 DEF DaemonRun, FreeRuns, StartJobRun, Open, TypeOK, JobTableTypeOK
    <3> QED BY <1>a, <3>3, <3>4, <3>5, <3>6
  <2> QED BY <1>4, <2>2, <2>3 DEF Reconcile
<1>5. ASSUME NEW c \in Clients, NEW outcome \in {"ok", "error"}, InlineEnds(c, outcome)
      PROVE  RunInv'
  <2>1. /\ client[c].run \in RunIds /\ client[c].run # activeRun
        /\ EndJobRun(client[c].run, outcome) /\ UNCHANGED notDaemon
        /\ client' = [client EXCEPT ![c] = Idle]
    BY <1>5 DEF InlineEnds, InlineRunsApart
  <2>2. RunningRowHasOpenRun'
    BY <2>1, EndKeepsRows, ZenonT(30)
  <2>3. InlineRunsApart'
    BY <1>c, <1>d, <2>1 DEF Idle, Busy
  <2>4. Serving => DaemonRun'
    BY <2>1 DEF DaemonRun, EndJobRun, Open, TypeOK, JobTableTypeOK
  <2> QED BY <1>a, <2>1, <2>2, <2>3, <2>4
<1>6. ASSUME NEW c \in Clients, ClientCrashes(c) PROVE RunInv'
  <2>1. InlineRunsApart'
    BY <1>6, <1>c, <1>d DEF ClientCrashes, Idle, Busy
  <2> QED BY <1>6, <1>b, <2>1 DEF ClientCrashes, tableVars
<1>7. ASSUME NEW j \in Jobs, UiTrigger(j) PROVE RunInv'
  BY <1>7, <1>b DEF UiTrigger, runVars, InlineRunsApart
<1>8. ASSUME NEW j \in Jobs, NEW entry \in Entries, EditConfig(j, entry) PROVE RunInv'
  BY <1>8, <1>b DEF EditConfig, tableVars, InlineRunsApart
<1>9. ASSUME NEW M \in SUBSET InsertJobs, ExternalInsert(M) PROVE RunInv'
  <2>1. UNCHANGED <<tableVars, client, phase, active, activeRun, begun, pending, immediates>>
    BY <1>9 DEF ExternalInsert
  <2> QED BY <1>0, <2>1, RowsStable
          DEF tableVars, InlineRunsApart, DaemonRun, Serving, Open, NoLostWakeup, QuietWhenDown
<1>10. ASSUME NEW c \in Clients, ClientStep(c) PROVE RunInv'
  BY <1>1, <1>2, <1>3, <1>4, <1>5, <1>6, <1>10 DEF ClientStep
<1> QED BY <1>7, <1>8, <1>9, <1>10 DEF Outside

\* RunInv is an invariant.
LEMMA RunCorrect == Spec => []RunInv
<1>1. Init => RunInv
  BY InitType DEF Init, JobTableInit, RunInv, NoLostWakeup, QuietWhenDown, InlineRunsApart,
                  Serving, RunningRowHasOpenRun, Idle, Busy
<1>2. RunInv /\ [Next]_vars => RunInv'
  <2> SUFFICES ASSUME RunInv, [Next]_vars PROVE RunInv'
    OBVIOUS
  <2>1. CASE UNCHANGED vars
    <3>1. TypeOK'
      BY <2>1, StepType DEF RunInv
    <3> QED BY <2>1, <3>1, RowsStable DEF vars, RunInv, NoLostWakeup, QuietWhenDown, InlineRunsApart,
                                  DaemonRun, Serving, Open
  <2> QED BY <2>1, DaemonRunInv, OutsideRunInv DEF Next
<1> QED BY <1>1, <1>2, PTL DEF Spec

\* No request is left pending with nobody to look at it, in any instance.
THEOREM PendingIsWatched == Spec => []NoLostWakeup
BY RunCorrect, PTL DEF RunInv

\* While the daemon serves, the runs it has begun and not ended are exactly the one
\* it believes in, which is open in job_runs and of the job it believes to be
\* running, whatever other processes do to the tables.
THEOREM MutexInTables == Spec => []OneDaemonRun
<1>1. RunInv => OneDaemonRun
  BY DEF RunInv, DaemonRun, OneDaemonRun
<1> QED BY <1>1, RunCorrect, PTL

\* A row that says 'running' names an open run of its own job.
THEOREM RowsTellTheTruth == Spec => []RunningRowHasOpenRun
BY RunCorrect, PTL DEF RunInv

-----------------------------------------------------------------------------
(* The catch-up cursor and the rows the daemon was told of.                *)

\* The run that begins has the whole table in view.
LEMMA BeginView ==
    ASSUME TypeOK, NEW j, NEW st, Begin(j, st)
    PROVE  /\ cursorBefore' <= seen' /\ seen' <= maxRow
           /\ active' = j
           /\ j \in InsertJobs => seen' = maxRow
BY DEF Begin, CursorAtStart, TypeOK

\* enqueue never lets go of an insert job it is asked for, nor of one it is not
\* asked for, except by dropping it as disabled.
LEMMA EnqueueKeeps ==
    ASSUME TypeOK, NEW S, NEW on, NEW st, EnqueueAll(S, on, st),
           NEW j \in InsertJobs \ excused'
    PROVE  /\ j \in S => j \in pending' \/ (active' = j /\ seen' = maxRow)
           /\ j \notin S => /\ j \notin excused
                            /\ j \in pending => j \in pending'
                            /\ active = j => active' = j /\ seen' = seen
<1>1. /\ j \in S => j \in on
      /\ j \notin S => j \notin excused
  BY DEF EnqueueAll
<1>2. CASE UNCHANGED <<active, activeRun, cursorBefore, begun, seen, current, runJob, result>>
           /\ pending' = Pend(S \cap on)
  BY <1>1, <1>2 DEF Pend
<1>3. CASE active = NoJob /\ \E i \in S \cap on : /\ Begin(i, st)
                                   /\ pending' = (pending \ {i}) \cup ((S \cap on) \ {i})
  <2>1. PICK i \in S \cap on : /\ Begin(i, st)
                               /\ pending' = (pending \ {i}) \cup ((S \cap on) \ {i})
    BY <1>3
  <2>2. active' = i /\ (i \in InsertJobs => seen' = maxRow)
    BY <2>1, BeginView
  <2>3. active # j
    BY <1>3
  <2> QED BY <1>1, <2>1, <2>2, <2>3
<1> QED BY <1>2, <1>3 DEF EnqueueAll

\* enqueue keeps the bounds of the active run's view.
LEMMA EnqueueView ==
    ASSUME TypeOK, cursorBefore <= seen, seen <= maxRow, NEW S, NEW on, NEW st,
           EnqueueAll(S, on, st)
    PROVE  cursorBefore' <= seen' /\ seen' <= maxRow
<1>1. CASE UNCHANGED <<active, activeRun, cursorBefore, begun, seen, current, runJob, result>>
  BY <1>1
<1>2. CASE \E i \in S \cap on : Begin(i, st)
  BY <1>2, BeginView
<1> QED BY <1>1, <1>2 DEF EnqueueAll

\* A callback that only enqueues keeps the cursor facts: the jobs that leave the
\* debounce window are among the enqueued ones.
LEMMA EnqueueCursor ==
    ASSUME TypeOK, CursorInv, Serving, Serving',
           NEW S, NEW on, NEW st, EnqueueAll(S, on, st),
           debounce \ S \subseteq debounce',
           \A j \in InsertJobs : told'[j] \subseteq matching[j] /\ (j \notin S => told'[j] = told[j]),
           UNCHANGED <<nodeVars, cursor, firstBoot, immediates, unprocessed, asked, missed>>
    PROVE  CursorInv'
<1> USE DEF CursorInv, nodeVars
<1>1. CursorBounds'
  BY EnqueueView DEF CursorBounds
<1>2. CursorSafe'
  BY DEF CursorSafe
<1>3. NoRowForgotten'
  <2> SUFFICES ASSUME NEW j \in InsertJobs \ excused', told'[j] # {}
               PROVE  \/ j \in debounce' \cup pending' \cup immediates'
                      \/ (active' = j /\ \A n \in told'[j] : n <= seen')
    BY DEF NoRowForgotten, Scheduled
  <2>1. CASE j \in S
    <3>1. j \in pending' \/ (active' = j /\ seen' = maxRow)
      BY <2>1, EnqueueKeeps
    <3>2. told'[j] \subseteq 1..maxRow /\ maxRow \in Nat
      BY DEF CursorBounds, TypeOK
    <3> QED BY <3>1, <3>2
  <2>2. CASE j \notin S
    <3>1. /\ j \notin excused
          /\ j \in pending => j \in pending'
          /\ active = j => active' = j /\ seen' = seen
      BY <2>2, EnqueueKeeps
    <3>2. Scheduled(j) \/ (active = j /\ \A n \in told[j] : n <= seen)
      BY <2>2, <3>1 DEF NoRowForgotten
    <3> QED BY <2>2, <3>1, <3>2 DEF Scheduled
  <2> QED BY <2>1, <2>2
<1>4. NothingTold'
  BY DEF NothingTold, Serving
<1> QED BY <1>1, <1>2, <1>3, <1>4

\* A step that touches neither rows, cursors, runs nor queues keeps them too.
LEMMA CursorStable ==
    ASSUME CursorInv, phase' \in {"down", "booting"} => phase \in {"down", "booting"},
           Serving \/ ~Serving', debounce \subseteq debounce' \/ ~Serving',
           UNCHANGED <<nodeVars, cursor, firstBoot, runVarsD, pending, immediates, history>>
    PROVE  CursorInv'
BY DEF CursorInv, CursorBounds, CursorSafe, NoRowForgotten, NothingTold, Scheduled,
       nodeVars, runVarsD, history

\* Every step of the daemon keeps the cursor facts.
LEMMA DaemonCursor ==
    ASSUME TypeOK, QuietWhenDown, CursorInv, Daemon
    PROVE  CursorInv'
<1>0. TypeOK'
  BY DaemonType
<1>c. ASSUME Gone PROVE CursorInv'
  <2>1. CursorBounds'
    BY <1>c DEF Gone, CursorInv, CursorBounds, TypeOK, nodeVars
  <2>2. CursorSafe' /\ NoRowForgotten'
    BY <1>c DEF Gone, CursorInv, CursorSafe, NoRowForgotten, Serving
  <2>3. NothingTold'
    BY <1>c DEF Gone, NothingTold
  <2> QED BY <2>1, <2>2, <2>3 DEF CursorInv
<1>d. ASSUME UNCHANGED told, NEW S
      PROVE  \A j \in InsertJobs : told'[j] \subseteq matching[j] /\ (j \notin S => told'[j] = told[j])
  BY <1>d DEF CursorInv, CursorBounds
<1>1. CASE BootClear
  BY <1>1, CursorStable DEF BootClear, queued, Serving
<1>2. CASE BootSteps
  <2>1. CASE BootRegister
    <3>1. \A j \in InsertJobs : told[j] = {}
      BY <2>1 DEF BootRegister, CursorInv, NothingTold
    <3>2. CursorBounds' /\ CursorSafe'
      BY <2>1 DEF BootRegister, CursorInv, CursorBounds, CursorSafe, nodeVars, runVarsD, history
    <3>3. NoRowForgotten' /\ NothingTold'
      BY <2>1, <3>1 DEF BootRegister, NoRowForgotten, NothingTold, history
    <3> QED BY <3>2, <3>3 DEF CursorInv
  <2>2. ASSUME NEW j \in InsertJobs, CatchUpJob(j) PROVE CursorInv'
    <3>0. Serving /\ Serving' /\ firstBoot = NoJob
      BY <2>2 DEF CatchUpJob, Serving
    <3>1. CASE EnqueueAll({j}, enabled, status) /\ told' = [told EXCEPT ![j] = Unseen(j)]
                /\ UNCHANGED <<firstBoot, asked>>
      <4>1. \A k \in InsertJobs : told'[k] \subseteq matching[k] /\ (k \notin {j} => told'[k] = told[k])
        BY <3>1 DEF CursorInv, CursorBounds, Unseen, TypeOK
      <4> QED BY <2>2, <3>0, <3>1, <4>1, EnqueueCursor DEF CatchUpJob
    <3>2. CASE /\ j \notin enabled \/ Unseen(j) = {}
               /\ firstBoot' = IF j \in enabled /\ cursor[j] = 0 THEN j ELSE NoJob
               /\ asked' = IF firstBoot' = j THEN maxRow ELSE 0
               /\ UNCHANGED <<runVarsD, pending, seen, told, excused, status, current, runVars>>
      <4>1. CASE firstBoot' = j
        <5>1. j \in enabled /\ cursor[j] = 0
          BY <3>2, <4>1
        <5>2. matching[j] = {}
          BY <3>2, <5>1 DEF Unseen, TypeOK, Rows
        <5>3. CursorBounds'
          BY <2>2, <3>2, <4>1, <5>2 DEF CatchUpJob, CursorInv, CursorBounds, TypeOK, nodeVars, runVarsD
        <5> QED BY <2>2, <3>0, <3>2, <5>3
                DEF CatchUpJob, CursorInv, CursorSafe, NoRowForgotten, NothingTold, Scheduled, Serving,
                    nodeVars, runVarsD
      <4>2. CASE firstBoot' = NoJob
        <5>1. CursorBounds'
          BY <2>2, <3>2, <4>2 DEF CatchUpJob, CursorInv, CursorBounds, TypeOK, nodeVars, runVarsD
        <5> QED BY <2>2, <3>0, <3>2, <5>1
                DEF CatchUpJob, CursorInv, CursorSafe, NoRowForgotten, NothingTold, Scheduled, Serving,
                    nodeVars, runVarsD
      <4> QED BY <3>2, <4>1, <4>2
    <3> QED BY <2>2, <3>1, <3>2 DEF CatchUpJob
  <2>3. CASE CatchUpCursor
    <3>0. /\ cursor' = [cursor EXCEPT ![firstBoot] = maxRow] /\ firstBoot \in InsertJobs
          /\ missed' = [missed EXCEPT ![firstBoot] = @ \cup {n \in matching[firstBoot] : n > asked}]
          /\ firstBoot' = NoJob /\ asked' = 0
          /\ UNCHANGED <<nodeVars, phase, runVarsD, queued, seen, unprocessed, told, excused>>
      BY <2>3 DEF CatchUpCursor, TypeOK
    <3>1. CursorBounds'
      BY <3>0 DEF CursorInv, CursorBounds, TypeOK, nodeVars, runVarsD
    <3>2. \A n \in unprocessed[firstBoot] : n \in missed'[firstBoot]
      BY <3>0 DEF CursorInv, CursorBounds, TypeOK
    <3>3. CursorSafe'
      BY <3>0, <3>2 DEF CursorInv, CursorSafe, TypeOK
    <3>4. NoRowForgotten' /\ NothingTold'
      BY <3>0 DEF CursorInv, NoRowForgotten, NothingTold, Scheduled, Serving, runVarsD, queued
    <3> QED BY <3>1, <3>3, <3>4 DEF CursorInv
  <2>4. CASE BootDone
    BY <2>4, CursorStable DEF BootDone, Serving, queued
  <2> QED BY <1>2, <2>1, <2>2, <2>3, <2>4 DEF BootSteps
<1>3. CASE Shutdown
  BY <1>3, CursorStable DEF Shutdown, Serving
<1>4. CASE Exit \/ Crash
  BY <1>4, <1>c DEF Exit, Crash
<1>5. CASE \E M \in SUBSET InsertJobs : JobInserts(M)
  <2> PICK M \in SUBSET InsertJobs : JobInserts(M)
    BY <1>5
  <2> DEFINE new == maxRow + 1
             with(f) == [j \in InsertJobs |-> IF j \in M THEN f[j] \cup {new} ELSE f[j]]
  <2>1. /\ maxRow' = new /\ matching' = with(matching)
        /\ unprocessed' = with(unprocessed) /\ told' = with(told)
        /\ debounce' = debounce \cup M /\ phase = "up"
        /\ UNCHANGED <<cursor, phase, firstBoot, active, cursorBefore, seen, pending, immediates,
                       asked, missed, excused>>
    BY DEF JobInserts, runVarsD, daemonVars
  <2>2. maxRow \in Nat /\ cursor \in [InsertJobs -> Nat] /\ seen \in Nat /\ cursorBefore \in Nat
    BY DEF TypeOK
  <2>3. CursorBounds'
    <3>1. \A k \in InsertJobs : /\ cursor'[k] <= maxRow' /\ matching'[k] \subseteq 1..maxRow'
                                /\ unprocessed'[k] \subseteq matching'[k] /\ told'[k] \subseteq matching'[k]
      BY <2>1, <2>2 DEF CursorInv, CursorBounds
    <3>2. firstBoot' # NoJob => \A n \in matching'[firstBoot'] : n > asked'
      <4>1. asked \in Nat /\ asked < new /\ (firstBoot # NoJob => firstBoot \in InsertJobs)
        BY <2>2 DEF CursorInv, CursorBounds, TypeOK
      <4> QED BY <2>1, <4>1 DEF CursorInv, CursorBounds
    <3>3. asked' <= maxRow'
      BY <2>1 DEF CursorInv, CursorBounds, TypeOK
    <3> QED BY <2>1, <2>2, <3>1, <3>2, <3>3 DEF CursorInv, CursorBounds
  <2>4. CursorSafe'
    BY <2>1, <2>2 DEF CursorInv, CursorBounds, CursorSafe
  <2>5. NoRowForgotten'
    BY <2>1 DEF CursorInv, NoRowForgotten, Scheduled, Serving
  <2> QED BY <2>1, <2>3, <2>4, <2>5 DEF CursorInv, NothingTold
<1>6. CASE \E M \in SUBSET StateJobs : JobChangesState(M)
  BY <1>6, CursorStable DEF JobChangesState, daemonVars, Serving
<1>7. ASSUME NEW j \in Jobs, DebounceFires(j) PROVE CursorInv'
  BY <1>7, <1>d, EnqueueCursor DEF DebounceFires, daemonVars, Serving
<1>8. ASSUME NEW j \in Jobs, TimerFires(j) PROVE CursorInv'
  BY <1>8, <1>d, EnqueueCursor DEF TimerFires, daemonVars, Serving
<1>9. ASSUME NEW j \in Jobs, ImmediateFires(j) PROVE CursorInv'
  <2>0. /\ phase = "up" /\ immediates' = immediates \ {j} /\ excused' = excused \ {j}
        /\ UNCHANGED <<maxRow, matching, cursor, phase, firstBoot, debounce, unprocessed, told, asked,
                       missed>>
    BY <1>9 DEF ImmediateFires, nodeVars, daemonVars
  <2>1. CASE /\ pending' = Pend({j})
             /\ UNCHANGED <<active, activeRun, cursorBefore, begun, seen, status, current, runJob, result>>
    <3>1. NoRowForgotten'
      BY <2>0, <2>1 DEF CursorInv, NoRowForgotten, Scheduled, Serving, Pend
    <3> QED BY <2>0, <2>1, <3>1 DEF CursorInv, CursorBounds, CursorSafe, NothingTold
  <2>2. CASE active = NoJob /\ Begin(j, status) /\ UNCHANGED pending
    <3>1. /\ cursorBefore' <= seen' /\ seen' <= maxRow
          /\ active' = j /\ (j \in InsertJobs => seen' = maxRow)
      BY <2>2, BeginView
    <3>2. \A k \in InsertJobs : told[k] \subseteq 1..maxRow
      BY DEF CursorInv, CursorBounds
    <3>3. NoRowForgotten'
      <4> SUFFICES ASSUME NEW k \in InsertJobs \ excused', told[k] # {}
                   PROVE  Scheduled(k)' \/ (active' = k /\ \A n \in told[k] : n <= seen')
        BY <2>0 DEF NoRowForgotten
      <4>1. CASE k = j
        BY <3>1, <3>2, <4>1 DEF TypeOK
      <4>2. CASE k # j
        <5>1. k \notin excused /\ k # NoJob
          BY <2>0, <4>2
        <5>2. Scheduled(k)
          BY <2>0, <2>2, <5>1 DEF CursorInv, NoRowForgotten, Serving
        <5> QED BY <2>0, <2>2, <4>2, <5>2 DEF Scheduled
      <4> QED BY <4>1, <4>2
    <3> QED BY <2>0, <3>1, <3>3 DEF CursorInv, CursorBounds, CursorSafe, NothingTold
  <2> QED BY <1>9, <2>1, <2>2 DEF ImmediateFires
<1>10. CASE PollTrigger
  BY <1>10, <1>d, EnqueueCursor DEF PollTrigger, daemonVars, Serving
<1>11. CASE PollConfig
  BY <1>11, CursorStable DEF PollConfig, daemonVars, Serving
<1>12. ASSUME NEW outcome \in {"ok", "error"}, Finish(outcome) PROVE CursorInv'
  <2>0. /\ phase = "up" /\ active # NoJob
        /\ cursor' = CursorAfter(outcome)
        /\ active' = NoJob /\ cursorBefore' = 0 /\ seen' = 0
        /\ unprocessed' = Handled(unprocessed, outcome)
        /\ told' = Handled(told, outcome)
        /\ excused' = IF outcome = "error" THEN excused \cup ({active} \cap InsertJobs) ELSE excused
        /\ UNCHANGED <<maxRow, matching, phase, firstBoot, debounce, asked, missed>>
    BY <1>12 DEF Finish, nodeVars, daemonVars
  <2>1. maxRow \in Nat /\ cursor \in [InsertJobs -> Nat] /\ seen \in Nat /\ cursorBefore \in Nat
    BY DEF TypeOK
  <2>2. CursorBounds'
    <3>1. \A j \in InsertJobs : cursor'[j] <= maxRow
      BY <2>0, <2>1 DEF CursorInv, CursorBounds, CursorAfter
    <3>2. \A j \in InsertJobs : unprocessed'[j] \subseteq unprocessed[j] /\ told'[j] \subseteq told[j]
      BY <2>0 DEF Handled
    <3> QED BY <2>0, <2>1, <3>1, <3>2 DEF CursorInv, CursorBounds
  <2>3. CursorSafe'
    <3> SUFFICES ASSUME NEW j \in InsertJobs, NEW n \in unprocessed'[j] \ missed[j]
                 PROVE  n > cursor'[j]
      BY <2>0 DEF CursorSafe
    <3>1. CASE outcome = "ok" /\ j = active
      <4>1. n > seen /\ cursor'[j] = cursorBefore /\ n \in Rows
        BY <2>0, <2>1, <3>1 DEF Handled, CursorAfter, TypeOK
      <4> QED BY <2>1, <4>1 DEF CursorInv, CursorBounds, Rows
    <3>2. CASE ~(outcome = "ok" /\ j = active)
      BY <2>0, <2>1, <3>2 DEF CursorInv, CursorSafe, Handled, CursorAfter
    <3> QED BY <3>1, <3>2
  <2>4. NoRowForgotten'
    <3> SUFFICES ASSUME NEW j \in InsertJobs \ excused', told'[j] # {}
                 PROVE  Scheduled(j)'
      BY DEF NoRowForgotten
    <3>1. j \notin excused /\ told[j] # {} /\ told'[j] = (IF j = active THEN {n \in told[j] : n > seen} ELSE told[j])
      BY <2>0 DEF Handled
    <3>2. Scheduled(j)
      <4>1. told[j] \subseteq Rows
        BY DEF TypeOK
      <4> QED BY <2>0, <2>1, <3>1, <4>1 DEF CursorInv, NoRowForgotten, Serving, Rows
    <3>3. pending \cup immediates \subseteq pending' \cup immediates'
      BY <1>12 DEF Finish, DrainOne
    <3> QED BY <2>0, <3>2, <3>3 DEF Scheduled
  <2>5. NothingTold'
    BY <2>0 DEF NothingTold
  <2> QED BY <2>2, <2>3, <2>4, <2>5 DEF CursorInv
<1> QED BY <1>1, <1>2, <1>3, <1>4, <1>5, <1>6, <1>7, <1>8, <1>9, <1>10, <1>11, <1>12 DEF Daemon

\* Every step of another process keeps the cursor facts: a row it inserts is one
\* the daemon was not told of, and lies beyond every cursor.
LEMMA OutsideCursor ==
    ASSUME TypeOK, CursorInv, Outside
    PROVE  CursorInv'
<1> USE DEF notDaemon, daemonVars, queued
<1>1. ASSUME NEW c \in Clients, ClientStep(c) PROVE CursorInv'
  <2>1. UNCHANGED <<nodeVars, cursor, phase, firstBoot, debounce, runVarsD, pending, immediates, history>>
    BY <1>1 DEF ClientStep, ToggleConfig, ToggleRow, ReadConfig, Reconcile, InlineEnds, ClientCrashes
  <2> QED BY <2>1, CursorStable DEF Serving
<1>2. ASSUME NEW j \in Jobs, UiTrigger(j) PROVE CursorInv'
  BY <1>2, CursorStable DEF UiTrigger, Serving
<1>3. ASSUME NEW j \in Jobs, NEW entry \in Entries, EditConfig(j, entry) PROVE CursorInv'
  BY <1>3, CursorStable DEF EditConfig, Serving
<1>4. ASSUME NEW M \in SUBSET InsertJobs, ExternalInsert(M) PROVE CursorInv'
  <2> DEFINE new == maxRow + 1
             with(f) == [j \in InsertJobs |-> IF j \in M THEN f[j] \cup {new} ELSE f[j]]
  <2>1. /\ maxRow' = new /\ matching' = with(matching) /\ unprocessed' = with(unprocessed)
        /\ UNCHANGED <<cursor, phase, firstBoot, debounce, active, cursorBefore, seen, pending, immediates,
                       told, asked, missed, excused>>
    BY <1>4 DEF ExternalInsert, runVarsD
  <2>2. maxRow \in Nat /\ cursor \in [InsertJobs -> Nat] /\ seen \in Nat /\ cursorBefore \in Nat
    BY DEF TypeOK
  <2>3. CursorBounds'
    <3>1. \A k \in InsertJobs : /\ cursor'[k] <= maxRow' /\ matching'[k] \subseteq 1..maxRow'
                                /\ unprocessed'[k] \subseteq matching'[k] /\ told'[k] \subseteq matching'[k]
      BY <2>1, <2>2 DEF CursorInv, CursorBounds
    <3>2. firstBoot' # NoJob => \A n \in matching'[firstBoot'] : n > asked'
      <4>1. asked \in Nat /\ asked < new /\ (firstBoot # NoJob => firstBoot \in InsertJobs)
        BY <2>2 DEF CursorInv, CursorBounds, TypeOK
      <4> QED BY <2>1, <4>1 DEF CursorInv, CursorBounds
    <3>3. asked' <= maxRow'
      BY <2>1 DEF CursorInv, CursorBounds, TypeOK
    <3> QED BY <2>1, <2>2, <3>1, <3>2, <3>3 DEF CursorInv, CursorBounds
  <2>4. CursorSafe'
    BY <2>1, <2>2 DEF CursorInv, CursorBounds, CursorSafe
  <2>5. NoRowForgotten'
    BY <2>1 DEF CursorInv, NoRowForgotten, Scheduled, Serving
  <2> QED BY <2>1, <2>3, <2>4, <2>5 DEF CursorInv, NothingTold
<1> QED BY <1>1, <1>2, <1>3, <1>4 DEF Outside

\* CursorInv is an invariant.
LEMMA CursorCorrect == Spec => []CursorInv
<1>1. Init => CursorInv
  BY DEF Init, CursorInv, CursorBounds, CursorSafe, NoRowForgotten, NothingTold, Serving
<1>2. RunInv /\ CursorInv /\ [Next]_vars => CursorInv'
  <2> SUFFICES ASSUME RunInv, CursorInv, [Next]_vars PROVE CursorInv'
    OBVIOUS
  <2>1. CASE UNCHANGED vars
    BY <2>1 DEF vars, CursorInv, CursorBounds, CursorSafe, NoRowForgotten, NothingTold, Scheduled, Serving
  <2> QED BY <2>1, DaemonCursor, OutsideCursor DEF Next, RunInv
<1> QED BY <1>1, <1>2, RunCorrect, PTL DEF Spec

\* The cursor passes no row that no successful run has had in view, but for rows
\* that came between the two queries of a first boot.
THEOREM CursorNeverSkips == Spec => []CursorSafe
BY CursorCorrect, PTL DEF CursorInv

\* A row the daemon was told of is scheduled or in view, unless excused.
THEOREM ToldIsScheduled == Spec => []NoRowForgotten
BY CursorCorrect, PTL DEF CursorInv

-----------------------------------------------------------------------------
(* The scheduler implements JobQueue.                                      *)

\* A step that leaves the daemon's phase, run and queues alone is a stutter.
LEMMA QueueStutters ==
    ASSUME UNCHANGED <<phase, active, pending, immediates>>
    PROVE  UNCHANGED Queue!queueVars
BY DEF Queue!queueVars, Serving

\* A step between two phases in which the daemon does not serve is a stutter.
LEMMA QueueAway ==
    ASSUME ~Serving, ~Serving'
    PROVE  UNCHANGED Queue!queueVars
BY DEF Queue!queueVars, Serving

\* The daemon that stops serving forgets.
LEMMA QueueForgets ==
    ASSUME Serving, ~Serving'
    PROVE  Queue!QueueNext
BY DEF Queue!QueueNext, Queue!Forget, Serving

\* enqueue accepts, begins or does nothing.
LEMMA QueueEnqueues ==
    ASSUME TypeOK, Serving, Serving', NEW S \in SUBSET Jobs, NEW on, NEW st,
           EnqueueAll(S, on, st), UNCHANGED immediates
    PROVE  Queue!QueueNext \/ UNCHANGED Queue!queueVars
<1>1. CASE /\ active # NoJob \/ S \cap on = {}
           /\ pending' = Pend(S \cap on) /\ UNCHANGED active
  <2>1. CASE active # NoJob
    <3>1. S \cap on \in SUBSET Jobs
      OBVIOUS
    <3>2. pending' \cup immediates' = (pending \cup immediates) \cup (S \cap on)
      BY <1>1 DEF Pend
    <3>3. Queue!Accept
      BY <1>1, <2>1, <3>1, <3>2 DEF Queue!Accept, Serving
    <3> QED BY <3>3 DEF Queue!QueueNext
  <2>2. CASE S \cap on = {}
    <3>1. UNCHANGED pending
      BY <1>1, <2>2 DEF Pend
    <3> QED BY <1>1, <3>1 DEF Queue!queueVars, Serving
  <2> QED BY <1>1, <2>1, <2>2
<1>2. CASE active = NoJob /\ \E j \in S \cap on : /\ Begin(j, st)
                                   /\ pending' = (pending \ {j}) \cup ((S \cap on) \ {j})
  <2>1. PICK j \in S \cap on : /\ Begin(j, st)
                               /\ pending' = (pending \ {j}) \cup ((S \cap on) \ {j})
    BY <1>2
  <2>2. active' = j /\ active = NoJob
    BY <1>2, <2>1 DEF Begin
  <2>3. Queue!BeginOne
    BY <2>1, <2>2 DEF Queue!BeginOne, Serving, TypeOK
  <2> QED BY <2>3 DEF Queue!QueueNext
<1> QED BY <1>1, <1>2 DEF EnqueueAll

\* Every step of the daemon is a step of the queue or a stutter.
LEMMA DaemonQueue ==
    ASSUME RunInv, Daemon
    PROVE  Queue!QueueNext \/ UNCHANGED Queue!queueVars
<1> USE DEF RunInv, daemonVars
<1>1. CASE BootClear
  BY <1>1, QueueAway DEF BootClear, Serving
<1>2. CASE BootSteps
  <2>1. CASE BootRegister
    <3>1. Queue!Serve
      BY <2>1 DEF BootRegister, Queue!Serve, QuietWhenDown, Serving, runVarsD
    <3> QED BY <3>1 DEF Queue!QueueNext
  <2>2. ASSUME NEW j \in InsertJobs, CatchUpJob(j) PROVE Queue!QueueNext \/ UNCHANGED Queue!queueVars
    <3>1. CASE EnqueueAll({j}, enabled, status)
      BY <2>2, <3>1, QueueEnqueues DEF CatchUpJob, Serving
    <3>2. CASE UNCHANGED <<runVarsD, pending>>
      BY <2>2, <3>2, QueueStutters DEF CatchUpJob, runVarsD
    <3> QED BY <2>2, <3>1, <3>2 DEF CatchUpJob
  <2>3. CASE CatchUpCursor
    BY <2>3, QueueStutters DEF CatchUpCursor, runVarsD, queued
  <2>4. CASE BootDone
    <3>1. UNCHANGED <<active, pending, immediates>> /\ Serving /\ Serving'
      BY <2>4 DEF BootDone, runVarsD, queued, Serving
    <3> QED BY <3>1 DEF Queue!queueVars
  <2> QED BY <1>2, <2>1, <2>2, <2>3, <2>4 DEF BootSteps
<1>3. CASE Shutdown
  BY <1>3, QueueForgets DEF Shutdown, Serving
<1>4. CASE Exit \/ Crash
  BY <1>4, QueueForgets, QueueAway DEF Exit, Crash, Gone, Serving
<1>5. CASE \E M \in SUBSET InsertJobs : JobInserts(M)
  BY <1>5, QueueStutters DEF JobInserts, runVarsD
<1>6. CASE \E M \in SUBSET StateJobs : JobChangesState(M)
  BY <1>6, QueueStutters DEF JobChangesState, runVarsD
<1>7. ASSUME NEW j \in Jobs, DebounceFires(j) PROVE Queue!QueueNext \/ UNCHANGED Queue!queueVars
  BY <1>7, QueueEnqueues DEF DebounceFires, Serving
<1>8. ASSUME NEW j \in Jobs, TimerFires(j) PROVE Queue!QueueNext \/ UNCHANGED Queue!queueVars
  BY <1>8, QueueEnqueues DEF TimerFires, Serving
<1>9. ASSUME NEW j \in Jobs, ImmediateFires(j) PROVE Queue!QueueNext \/ UNCHANGED Queue!queueVars
  <2>1. phase = "up" /\ phase' = "up" /\ j \in immediates /\ immediates' = immediates \ {j}
    BY <1>9 DEF ImmediateFires
  <2>2. CASE pending' = Pend({j}) /\ UNCHANGED active
    <3>1. pending' \cup immediates' = pending \cup immediates
      BY <2>1, <2>2 DEF Pend
    <3> QED BY <2>1, <2>2, <3>1 DEF Queue!queueVars, Serving
  <2>3. CASE active = NoJob /\ Begin(j, status) /\ UNCHANGED pending
    <3>1. active' = j /\ pending \cup immediates \subseteq Jobs
      BY <2>3 DEF Begin, TypeOK
    <3>2. Queue!BeginOne
      BY <2>1, <2>3, <3>1 DEF Queue!BeginOne, Serving
    <3> QED BY <3>2 DEF Queue!QueueNext
  <2> QED BY <1>9, <2>2, <2>3 DEF ImmediateFires
<1>10. CASE PollTrigger
  <2>1. trigger \in SUBSET Jobs
    BY DEF TypeOK, JobTableTypeOK
  <2> QED BY <1>10, <2>1, QueueEnqueues DEF PollTrigger, Serving
<1>11. CASE PollConfig
  BY <1>11, QueueStutters DEF PollConfig, runVarsD
<1>12. ASSUME NEW outcome \in {"ok", "error"}, Finish(outcome) PROVE Queue!QueueNext
  <2>1. /\ phase = "up" /\ phase' = "up" /\ active # NoJob /\ active' = NoJob
        /\ pending' \cup immediates' = pending \cup immediates
    BY <1>12 DEF Finish, DrainOne
  <2>2. Queue!EndOne
    BY <2>1 DEF Queue!EndOne, Serving
  <2> QED BY <2>2 DEF Queue!QueueNext
<1> QED BY <1>1, <1>2, <1>3, <1>4, <1>5, <1>6, <1>7, <1>8, <1>9, <1>10, <1>11, <1>12 DEF Daemon

\* No other process takes a step the queue could see.
LEMMA OutsideQueue ==
    ASSUME Outside PROVE UNCHANGED Queue!queueVars
<1>1. UNCHANGED <<phase, active, pending, immediates>>
  <2> USE DEF notDaemon, daemonVars, runVarsD, queued
  <2>1. ASSUME NEW c \in Clients, ClientStep(c) PROVE UNCHANGED <<phase, active, pending, immediates>>
    BY <2>1 DEF ClientStep, ToggleConfig, ToggleRow, ReadConfig, Reconcile, InlineEnds, ClientCrashes
  <2> QED BY <2>1 DEF Outside, UiTrigger, EditConfig, ExternalInsert
<1> QED BY <1>1, QueueStutters

\* Through timers, debounce windows, polls and setImmediate hand-overs the daemon
\* runs one job at a time and keeps each accepted request until its job begins.
THEOREM SchedulerImplementsQueue == Spec => ImplementsQueue
<1>1. Init => Queue!QueueInit
  BY DEF Init, Queue!QueueInit, Serving
<1>2. RunInv /\ [Next]_vars => [Queue!QueueNext]_(Queue!queueVars)
  <2> SUFFICES ASSUME RunInv, [Next]_vars PROVE Queue!QueueNext \/ UNCHANGED Queue!queueVars
    OBVIOUS
  <2>1. CASE UNCHANGED vars
    BY <2>1, QueueStutters DEF vars
  <2> QED BY <2>1, DaemonQueue, OutsideQueue DEF Next
<1> QED BY <1>1, <1>2, RunCorrect, PTL DEF Spec, ImplementsQueue, Queue!QueueSpec
=============================================================================
