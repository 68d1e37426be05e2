--------------------------- MODULE AgentSessions ---------------------------
(***************************************************************************)
(* The chat of the web UI: the server's agent sessions of one project, and *)
(* the tabs that show them.  The server keeps one active session in        *)
(* PROJECT_STATE and swaps it by tearDown and buildState, which wait       *)
(* without a lock, so calls of several tabs interleave there.  Sessions    *)
(* are numbered as they are built; each continues a file of the session    *)
(* directory.  The agent loop (pi) is external: a prompt settles, fails or *)
(* is aborted, and its events reach the tabs that listen.                  *)
(***************************************************************************)
EXTENDS Naturals, Sequences

CONSTANTS
    Tabs,
    Calls,          \* the requests that may be under way at one time
    Ops,            \* what the tabs ask for
    MaxAsks,        \* bound: requests
    MaxFaults,      \* bound: connections lost, builds and removals failed
    NoTab

ASSUME SessionsAssumption ==
    /\ Ops \subseteq {"stream", "send", "new", "activate", "delete"}
    /\ MaxAsks \in Nat /\ MaxFaults \in Nat /\ NoTab \notin Tabs

VARIABLES
    sessions,     \* every session built: its file, whether it is disposed, busy, and its prompts running
    active,       \* PROJECT_STATE: the number of the active session, 0 if there is none
    disk,         \* the files of the session directory, last modified last
    calls,        \* the requests
    tabs,         \* each tab: connection, the session it shows, its idle indicator, whether it spoke unheard
    inbox,        \* the envelopes on their way to each tab
    overwritten,  \* a first connect has replaced a session that another call had made active meanwhile
    asks, faults

vars == <<sessions, active, disk, calls, tabs, inbox, overwritten, asks, faults>>

NoFile == 0
Files == 1 .. MaxAsks

Free == [op |-> "none", step |-> "free", tab |-> NoTab, file |-> NoFile, prev |-> 0]

Init ==
    /\ sessions = <<>> /\ active = 0 /\ disk = <<>>
    /\ calls = [c \in Calls |-> Free]
    /\ tabs = [t \in Tabs |-> [conn |-> "off", shown |-> NoFile, busy |-> FALSE, unheard |-> FALSE]]
    /\ inbox = [t \in Tabs |-> <<>>]
    /\ overwritten = FALSE /\ asks = 0 /\ faults = 0

OnDisk == {disk[i] : i \in DOMAIN disk}
\* Mutant of Without: the file stays where it is.
WithoutNone(f) == disk
Without(f) ==
    IF f \in OnDisk
    THEN LET i == CHOOSE j \in DOMAIN disk : disk[j] = f
         IN SubSeq(disk, 1, i - 1) \o SubSeq(disk, i + 1, Len(disk))
    ELSE disk
InUse == OnDisk \cup {sessions[i].file : i \in DOMAIN sessions} \cup {calls[c].file : c \in Calls}

\* SessionManager.create, and continueRecent: the file last modified, or a new one.
Fresh == CHOOSE f \in Files \ InUse : \A g \in Files \ InUse : f <= g
Recent(d) == IF d = <<>> THEN Fresh ELSE d[Len(d)]

Listeners == {t \in Tabs : tabs[t].conn = "on"}
Envelope(kind, f) == [kind |-> kind, file |-> f]
\* broadcast: to every listener of the project.
Sent(envelopes) == [t \in Tabs |-> IF t \in Listeners THEN inbox[t] \o envelopes ELSE inbox[t]]

---------------------------------------------------------------------------
(* The tabs.                                                               *)

\* What a request finds: the stream is opened by the tab itself, the rest by its user.
MayAsk(t, op, f) ==
    CASE op = "stream" -> tabs[t].conn = "off" /\ f = NoFile
      [] op = "send" -> ~tabs[t].busy /\ f = NoFile
      [] op = "new" -> f = NoFile
      [] op = "activate" -> f \in OnDisk \ {tabs[t].shown}
      [] op = "delete" -> f \in OnDisk

Ask(c, t, op, f) ==
    /\ calls[c].step = "free" /\ asks < MaxAsks /\ MayAsk(t, op, f)
    /\ asks' = asks + 1
    /\ calls' = [calls EXCEPT ![c] = [op |-> op, step |-> "post", tab |-> t, file |-> f, prev |-> 0]]
    /\ tabs' = [tabs EXCEPT ![t] =
                  CASE op = "stream" -> [@ EXCEPT !.conn = "opening"]
                    [] op = "send" -> [@ EXCEPT !.busy = TRUE, !.unheard = tabs[t].conn # "on"]
                    [] OTHER -> @]
    /\ UNCHANGED <<sessions, active, disk, inbox, overwritten, faults>>

\* handleEnvelope: a tab shows the session it is told of, and its idle indicator follows the agent.
Deliver(t) ==
    /\ inbox[t] # <<>>
    /\ LET env == Head(inbox[t]) IN
        tabs' = [tabs EXCEPT ![t] =
                   CASE env.kind = "ready" -> [@ EXCEPT !.shown = env.file]
                     [] env.kind = "session_switched" -> [@ EXCEPT !.shown = env.file, !.busy = FALSE]
                     [] env.kind = "agent_start" -> [@ EXCEPT !.busy = TRUE]
                     [] env.kind \in {"agent_end", "error"} -> [@ EXCEPT !.busy = FALSE]]
    /\ inbox' = [inbox EXCEPT ![t] = Tail(@)]
    /\ UNCHANGED <<sessions, active, disk, calls, overwritten, asks, faults>>

\* The connection of a tab breaks; EventSource will open it again.
Drop(t) ==
    /\ tabs[t].conn = "on" /\ faults < MaxFaults
    /\ tabs' = [tabs EXCEPT ![t].conn = "off"]
    /\ inbox' = [inbox EXCEPT ![t] = <<>>]
    /\ faults' = faults + 1
    /\ UNCHANGED <<sessions, active, disk, calls, overwritten, asks>>

---------------------------------------------------------------------------
(* The server.                                                             *)

Done(c) == calls' = [calls EXCEPT ![c] = Free]
Builds(c, f) == calls' = [calls EXCEPT ![c].step = "build", ![c].file = f]
Rebinds(c, f) == calls' = [calls EXCEPT ![c].op = "rebind", ![c].step = "build", ![c].file = f]
AbortsFirst(c) == calls' = [calls EXCEPT ![c].step = "abort", ![c].prev = active]

\* The stream's handler writes `ready' and adds its listener at once.
Ready(t, f) ==
    /\ tabs' = [tabs EXCEPT ![t].conn = "on"]
    /\ inbox' = [inbox EXCEPT ![t] = <<Envelope("ready", f)>>]

\* sendMessage to session i: busy until the prompt settles; one that is busy takes no other.
Prompted(i) == IF sessions[i].busy THEN sessions[i] ELSE [sessions[i] EXCEPT !.busy = TRUE, !.running = @ + 1]

\* GET /agent/stream: the active session, or one built from the file last modified.
Stream(c) ==
    /\ calls[c].step = "post" /\ calls[c].op = "stream"
    /\ IF active # 0
       THEN Ready(calls[c].tab, sessions[active].file) /\ Done(c)
       ELSE Builds(c, Recent(disk)) /\ UNCHANGED <<tabs, inbox>>
    /\ UNCHANGED <<sessions, active, disk, overwritten, asks, faults>>

\* POST /agent/message with an active session; 409 when it is busy.
Message(c) ==
    /\ calls[c].step = "post" /\ calls[c].op = "send" /\ active # 0
    /\ sessions' = [sessions EXCEPT ![active] = Prompted(active)]
    /\ IF sessions' = sessions
       THEN /\ tabs' = [tabs EXCEPT ![calls[c].tab].busy = FALSE]
            /\ UNCHANGED <<disk, inbox>>
       ELSE /\ disk' = Append(Without(sessions[active].file), sessions[active].file)
            /\ inbox' = Sent(<<Envelope("agent_start", NoFile)>>)
            /\ UNCHANGED tabs
    /\ Done(c)
    /\ UNCHANGED <<active, overwritten, asks, faults>>

\* POST /agent/message without one, and /sessions/new: newSession, which first aborts the active session.
NewSession(c) ==
    /\ calls[c].step = "post" /\ (calls[c].op = "new" \/ (calls[c].op = "send" /\ active = 0))
    /\ IF active # 0 THEN AbortsFirst(c) ELSE Builds(c, Fresh)
    /\ UNCHANGED <<sessions, active, disk, tabs, inbox, overwritten, asks, faults>>

\* POST /sessions/activate: 412 when the file is gone.
Activate(c) ==
    /\ calls[c].step = "post" /\ calls[c].op = "activate"
    /\ IF calls[c].file \notin OnDisk THEN Done(c)
       ELSE IF active # 0 THEN AbortsFirst(c)
       ELSE Builds(c, calls[c].file)
    /\ UNCHANGED <<sessions, active, disk, tabs, inbox, overwritten, asks, faults>>

\* POST /sessions/delete: only a file that is not active goes at once.
Delete(c) ==
    /\ calls[c].step = "post" /\ calls[c].op = "delete"
    /\ IF calls[c].file \in OnDisk /\ active # 0 /\ sessions[active].file = calls[c].file
       THEN AbortsFirst(c) /\ UNCHANGED disk
       ELSE disk' = Without(calls[c].file) /\ Done(c)
    /\ UNCHANGED <<sessions, active, tabs, inbox, overwritten, asks, faults>>

\* tearDown after the abort, settled or timed out; then the file of the next session is chosen.
TearDown(c) ==
    /\ calls[c].step = "abort"
    /\ sessions' = [sessions EXCEPT ![calls[c].prev].disposed = TRUE]
    /\ active' = 0
    /\ disk' = IF calls[c].op = "delete" THEN Without(calls[c].file) ELSE disk
    /\ Builds(c, CASE calls[c].op = "activate" -> calls[c].file
                   [] calls[c].op = "delete" -> Recent(disk')
                   [] OTHER -> Fresh)
    /\ UNCHANGED <<tabs, inbox, overwritten, asks, faults>>

\* rmSync refuses: the file stays; an active session is built again from the file last modified.
DeleteFails(c) ==
    /\ calls[c].op = "delete" /\ faults < MaxFaults
    /\ \/ /\ calls[c].step = "post" /\ ~ (active # 0 /\ sessions[active].file = calls[c].file)
          /\ Done(c)
          /\ UNCHANGED <<sessions, active>>
       \/ /\ calls[c].step = "abort"
          /\ sessions' = [sessions EXCEPT ![calls[c].prev].disposed = TRUE]
          /\ active' = 0
          /\ Rebinds(c, Recent(disk))
    /\ faults' = faults + 1
    /\ UNCHANGED <<disk, tabs, inbox, overwritten, asks>>

\* Mutant of Told: a deletion switches without a word.
ToldUnlessDeleted(op, f) ==
    CASE op = "send" -> <<Envelope("session_switched", f), Envelope("agent_start", NoFile)>>
      [] op \in {"delete", "rebind"} -> <<>>
      [] OTHER -> <<Envelope("session_switched", f)>>
\* What every tab hears of a session that was built for another call than a first connect: nothing after
\* a removal that failed.
Told(op, f) ==
    CASE op = "send" -> <<Envelope("session_switched", f), Envelope("agent_start", NoFile)>>
      [] op = "rebind" -> <<>>
      [] OTHER -> <<Envelope("session_switched", f)>>

\* buildState has answered: the session becomes the active one, whatever has become active meanwhile.
Bind(c) ==
    /\ calls[c].step = "build"
    /\ LET f == calls[c].file
           t == calls[c].tab
           sends == calls[c].op = "send"
       IN
        /\ sessions' = Append(sessions, [file |-> f, disposed |-> FALSE, busy |-> sends,
                                         running |-> IF sends THEN 1 ELSE 0])
        /\ active' = Len(sessions')
        /\ disk' = IF sends THEN Append(Without(f), f) ELSE disk
        /\ overwritten' = (overwritten \/ (calls[c].op = "stream" /\ active # 0))
        /\ IF calls[c].op = "stream" THEN Ready(t, f)
           ELSE inbox' = Sent(Told(calls[c].op, f)) /\ UNCHANGED tabs
    /\ Done(c)
    /\ UNCHANGED <<asks, faults>>

\* buildState throws, and the project is left without a session; or the auth settings are missing, which
\* all but a deletion ask for before they change anything.  The call is answered with an error.
BuildFails(c) ==
    /\ \/ calls[c].step = "build"
       \/ calls[c].step = "post" /\ (calls[c].op \in {"new", "activate"} \/ (calls[c].op \in {"stream", "send"} /\ active = 0))
    /\ faults < MaxFaults
    /\ tabs' = [tabs EXCEPT ![calls[c].tab] =
                  CASE calls[c].op = "stream" -> [@ EXCEPT !.conn = "off"]
                    [] calls[c].op = "send" -> [@ EXCEPT !.busy = FALSE]
                    [] OTHER -> @]
    /\ faults' = faults + 1
    /\ Done(c)
    /\ UNCHANGED <<sessions, active, disk, inbox, overwritten, asks>>

\* Mutant of Heard: a prompt that fails is not told.
HeardUnlessError(i, kind) == kind = "agent_end" /\ ~sessions[i].disposed
\* tearDown takes the subscription of a session away, not the error handler of its prompt.
Heard(i, kind) == kind = "error" \/ ~sessions[i].disposed

\* runPrompt ends: agent_end, which nobody hears of a disposed session, or an error, which is always told.
Settle(i, kind) ==
    /\ sessions[i].running > 0
    /\ sessions' = [sessions EXCEPT ![i].busy = FALSE, ![i].running = @ - 1]
    /\ inbox' = IF Heard(i, kind) THEN Sent(<<Envelope(kind, NoFile)>>) ELSE inbox
    /\ UNCHANGED <<active, disk, calls, tabs, overwritten, asks, faults>>

Serve(c) == Stream(c) \/ Message(c) \/ NewSession(c) \/ Activate(c) \/ Delete(c) \/ TearDown(c) \/ Bind(c)

Next ==
    \/ \E c \in Calls, t \in Tabs, f \in Files \cup {NoFile}, op \in Ops : Ask(c, t, op, f)
    \/ \E t \in Tabs : Deliver(t) \/ Drop(t)
    \/ \E c \in Calls : Serve(c) \/ DeleteFails(c) \/ BuildFails(c)
    \/ \E i \in DOMAIN sessions, kind \in {"agent_end", "error"} : Settle(i, kind)

Spec == Init /\ [][Next]_vars

---------------------------------------------------------------------------
(* Properties.                                                             *)

\* The types of the variables (PerProjectState, the chat panel's state).
TypeOK ==
    /\ \A i \in DOMAIN sessions : sessions[i].file \in Files /\ {sessions[i].disposed, sessions[i].busy} \subseteq BOOLEAN
    /\ Len(sessions) <= asks /\ active \in 0 .. Len(sessions)
    /\ OnDisk \subseteq Files /\ \A i, j \in DOMAIN disk : disk[i] = disk[j] => i = j
    /\ \A c \in Calls : calls[c].step \in {"free", "post", "abort", "build"} /\ calls[c].prev <= Len(sessions)
    /\ \A t \in Tabs : tabs[t].conn \in {"off", "opening", "on"} /\ tabs[t].shown \in Files \cup {NoFile}
    /\ \A t \in Tabs : tabs[t].conn # "on" => inbox[t] = <<>>
    /\ asks \in 0 .. MaxAsks /\ faults \in 0 .. MaxFaults

\* "Routing every UI client through a single active session keeps the conversation coherent", and two
\* prompts interleave no turns (agentSessions.ts:14-18): of the sessions that were not torn down, at most
\* one has a prompt under way on a JSONL.
Prompting(i) == sessions[i].running > 0 /\ ~sessions[i].disposed
OneSessionPerFile ==
    \A i, j \in DOMAIN sessions :
        Prompting(i) /\ Prompting(j) /\ sessions[i].file = sessions[j].file => i = j

AtRest == (\A c \in Calls : calls[c] = Free) /\ (\A t \in Tabs : inbox[t] = <<>>)

\* At rest every connected tab shows the session its messages go to, whichever switches overlapped; not
\* after a fault, nor when two first connects overlapped ("client says A, server sends to B").
ShownIsActive ==
    AtRest /\ ~overwritten /\ faults = 0 =>
        \A t \in Listeners : active # 0 /\ tabs[t].shown = sessions[active].file

\* Once no prompt runs and all is delivered, no tab is left with its idle indicator on and its Send button
\* off, whatever switch or deletion interrupted the agent; not after a lost connection or a failed build,
\* nor for a message sent before the stream was open.
BusyEnds ==
    AtRest /\ (\A i \in DOMAIN sessions : sessions[i].running = 0) /\ faults = 0 =>
        \A t \in Tabs : tabs[t].busy => tabs[t].unheard
=============================================================================
