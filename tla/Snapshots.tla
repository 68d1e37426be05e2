----------------------------- MODULE Snapshots -----------------------------
(***************************************************************************)
(* The snapshot supervisor of one project: watched files, the watcher's    *)
(* notifications and the manifest index.jsonl with the copies it names.    *)
(* A consumer drains the manifest by a watermark and then collects it.     *)
(* Files under the code roots and under the plans directory belong to two  *)
(* roots of one manifest.                                                  *)
(***************************************************************************)
EXTENDS Integers, FiniteSets

CONSTANTS
    CodeFiles, PlanFiles,   \* the watched files, by root
    Contents,               \* what a file can hold
    Gone,                   \* stands for a file that does not exist
    MaxTime,                \* bound: the wall clock stops here
    MaxEdits,               \* bound: writes and removals by users and agents
    MaxCrashes              \* bound: ends of the daemon

ASSUME SnapshotAssumption ==
    /\ CodeFiles \cap PlanFiles = {}
    /\ Gone \notin Contents
    /\ MaxTime \in Nat /\ MaxEdits \in Nat /\ MaxCrashes \in Nat

Files == CodeFiles \cup PlanFiles

VARIABLES
    clock,     \* Date.now() and the clock of the file system
    disk,      \* content and mtime of each file
    event,     \* what chokidar is about to report of a file
    up,        \* the daemon runs
    rows,      \* the rows of index.jsonl; `saved` is FALSE once the copy is unlinked
    written,   \* history: what was on disk, and from when on
    crashes    \* how often the daemon ended

snapVars == <<clock, disk, event, up, rows, written, crashes>>

Row == [file : Files, ts : 0..MaxTime, mtime : 0..MaxTime, content : Contents, saved : BOOLEAN]
Moment == [file : Files, at : 0..MaxTime, content : Contents \cup {Gone}]

SnapTypeOK ==
    /\ clock \in 0..MaxTime
    /\ disk \in [Files -> [content : Contents \cup {Gone}, mtime : 0..MaxTime]]
    /\ event \in [Files -> {"none", "scan", "add", "change"}]
    /\ up \in BOOLEAN
    /\ rows \subseteq Row
    /\ written \subseteq Moment
    /\ crashes \in 0..MaxCrashes

SnapInit ==
    /\ clock = 0
    /\ disk = [f \in Files |-> [content |-> Gone, mtime |-> 0]]
    /\ event = [f \in Files |-> "none"]
    /\ up = TRUE
    /\ rows = {}
    /\ written = {}
    /\ crashes = 0

(* ---- The manifest ---- *)

RowsOf(f) == {r \in rows : r.file = f}

Newest(S) == CHOOSE r \in S : \A q \in S : q.ts <= r.ts

\* The cache `latest` and the stat check of an 'add' event: nothing moved since the last copy.
CopiedBefore(f) == RowsOf(f) # {}
StatUnchanged(f) == RowsOf(f) # {} /\ Newest(RowsOf(f)).mtime = disk[f].mtime

Drained(F, since) == {r \in rows : r.file \in F /\ r.ts > since}

\* What gcKeepingLatest leaves of the manifest.
KeptLatest(F) == {r \in rows : r.file \in F => \A q \in RowsOf(r.file) : q.ts <= r.ts}

(* ---- The world around the supervisor ---- *)

Tick == clock < MaxTime /\ clock' = clock + 1 /\ UNCHANGED <<disk, event, up, rows, written, crashes>>

\* Someone writes a file. The watcher reports it once it has settled, with the stats it has then.
Edit(f, c) ==
    /\ clock < MaxTime /\ Cardinality(written) < MaxEdits
    /\ disk[f].mtime < clock /\ disk[f].content # c
    /\ disk' = [disk EXCEPT ![f] = [content |-> c, mtime |-> clock]]
    /\ written' = written \cup {[file |-> f, at |-> clock, content |-> c]}
    /\ event' = [event EXCEPT ![f] =
                   IF ~up THEN "none" ELSE IF @ \in {"scan", "add"} THEN @
                   ELSE IF disk[f].content = Gone THEN "add" ELSE "change"]
    /\ UNCHANGED <<clock, up, rows, crashes>>

\* There is no handler for 'unlink'.
Remove(f) ==
    /\ Cardinality(written) < MaxEdits
    /\ disk[f].mtime < clock /\ disk[f].content # Gone
    /\ disk' = [disk EXCEPT ![f] = [content |-> Gone, mtime |-> clock]]
    /\ written' = written \cup {[file |-> f, at |-> clock, content |-> Gone]}
    /\ event' = [event EXCEPT ![f] = "none"]
    /\ UNCHANGED <<clock, up, rows, crashes>>

(* ---- The supervisor ---- *)

\* Copies of one file are a millisecond apart, which names their paths.
CopyOf(f) ==
    /\ \A r \in RowsOf(f) : r.ts < clock
    /\ rows' = rows \cup {[file |-> f, ts |-> clock, mtime |-> disk[f].mtime,
                           content |-> disk[f].content, saved |-> TRUE]}

OnChange(f) ==
    /\ up /\ event[f] # "none"
    /\ event' = [event EXCEPT ![f] = "none"]
    /\ IF event[f] # "change" /\ StatUnchanged(f) THEN UNCHANGED rows ELSE CopyOf(f)
    /\ UNCHANGED <<clock, disk, up, written, crashes>>

\* start(): the initial scan reports every file that exists, and is awaited before jobs run.
Start ==
    /\ ~up /\ up' = TRUE
    /\ event' = [f \in Files |-> IF disk[f].content = Gone THEN "none" ELSE "scan"]
    /\ UNCHANGED <<clock, disk, rows, written, crashes>>

Settled == \A f \in Files : event[f] # "scan"

\* The process ends. A crash inside gcKeepingLatest(F) comes after the copies are unlinked and
\* before the manifest is rewritten; unlinked(F) are the rows it leaves behind without a copy.
Crash == up /\ crashes < MaxCrashes /\ crashes' = crashes + 1 /\ up' = FALSE /\ event' = [f \in Files |-> "none"]
         /\ UNCHANGED <<clock, disk, written>>

Unlinked(F) == {IF r \in KeptLatest(F) THEN r ELSE [r EXCEPT !.saved = FALSE] : r \in rows}

SnapNext ==
    \/ Tick
    \/ \E f \in Files : OnChange(f) \/ Remove(f) \/ \E c \in Contents : Edit(f, c)
    \/ Start
=============================================================================
