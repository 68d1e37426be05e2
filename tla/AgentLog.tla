------------------------------ MODULE AgentLog ------------------------------
(***************************************************************************)
(* The agent-log jobs: the log of one session, growing while crawls read   *)
(* it, cut it into spans and store its events and spans.  A crawl is       *)
(* indexAgentSessions: scan, one batch of inserts, the move of each        *)
(* claimed event to `spanned', and the catch-up over the rows still        *)
(* `unspanned'.  The other sessions of the project matter only by whether  *)
(* a crawl finds something to insert for them (`news').  An event is one   *)
(* message of the log, and is named by its place there, as by its uuid.    *)
(***************************************************************************)
EXTENDS Segmentation, SequencesExt

CONSTANTS
    EventKinds,   \* what the agent may log, time and uuid left open
    Gaps,         \* how long after the event before it
    MaxEvents, MaxCrashes,
    Hashed,       \* claude skips a file whose fingerprint is unchanged; codex and pi do not
    Refusals      \* what an insert may refuse: sets of row types the schema does not have then

\* No two events of a session are of the same moment, and the schema may have every type.
ASSUME LogAssumption ==
    /\ \A e \in EventKinds : DOMAIN e = {"kind", "says", "topic", "at", "uuid"}
    /\ Gaps \subseteq Nat \ {0} /\ MaxEvents \in Nat /\ MaxCrashes \in Nat /\ Hashed \in BOOLEAN
    /\ {} \in Refusals

VARIABLES
    log,       \* the session's events in its file
    clock,
    mark,      \* the fingerprint in file-hashes.json: how long the file was
    rows,      \* for each event of the log: no row, or the state of its row
    spans,     \* the Span rows, oldest first
    crawl,     \* the crawl under way
    crashes

vars == <<log, clock, mark, rows, spans, crawl, crashes>>
store == <<rows, spans>>

Idle == [step |-> "idle", read |-> 0, news |-> FALSE, now |-> 0, keys |-> {},
         fresh |-> {}, emit |-> <<>>, claim |-> {}, again |-> FALSE]

Init ==
    /\ log = <<>> /\ clock = 0 /\ mark = 0
    /\ rows = <<>> /\ spans = <<>> /\ crawl = Idle /\ crashes = 0

Unspanned == {i \in DOMAIN rows : rows[i] = "unspanned"}

---------------------------------------------------------------------------
(* The world.                                                              *)

\* The agent logs one event; `gap' after the last one must not be past already.
Say(e, gap) ==
    /\ Len(log) < MaxEvents
    /\ LET at == IF log = <<>> THEN 0 ELSE Last(log).at + gap IN
        /\ clock <= at
        /\ clock' = at
        /\ log' = Append(log, [e EXCEPT !.at = at, !.uuid = Len(log) + 1])
    /\ rows' = Append(rows, "none")
    /\ UNCHANGED <<mark, spans, crawl, crashes>>

\* Five minutes without an event.
Quiet ==
    /\ log # <<>> /\ clock < Last(log).at + HardBreak
    /\ clock' = Last(log).at + HardBreak
    /\ UNCHANGED <<log, mark, store, crawl, crashes>>

---------------------------------------------------------------------------
(* A crawl.                                                                *)

\* A proposed plan counts for the cuts, and becomes a Plan instead of a row.
HasRow(e) == Persistable(e) /\ e.kind # "plan_proposed"

\* The events read that are to have a row and have none yet.
Fresh(n) == {i \in 1 .. n : HasRow(log[i]) /\ rows[i] = "none"}

\* Mutant of EffectiveEnd: the padding is taken off.
UnpaddedEnd(S, c) == c.end - LinkEps
\* A span ends for the linker at most LinkEps later, and not past the next finalised span.
EffectiveEnd(S, c) ==
    LET next == {n.start : n \in S} \cap (c.start + 1 .. c.end + LinkEps)
    IN IF next = {} THEN c.end + LinkEps ELSE FirstOf(next)

\* What a Span can refer to.
Rowed(E) == {E[i].uuid : i \in {k \in DOMAIN E : HasRow(E[k])}}

SpanRow(E, S, c) ==
    [start |-> c.start, end |-> c.end, eff |-> EffectiveEnd(S, c), events |-> c.events \cap Rowed(E)]

\* Rows in the order of their starts.
ByStart(R) == InOrder([r \in R |-> r.start])

\* Mutant of Emitted: spans are not compared with those known.
EmittedAll(E, now, keys) ==
    LET S == ComputedSpans(E, now) IN ByStart({SpanRow(E, S, c) : c \in S})

\* The finalised spans of E that start where no span known does, and have something to refer to.
Emitted(E, now, keys) ==
    LET S == ComputedSpans(E, now)
    IN ByStart({SpanRow(E, S, c) : c \in {x \in S : x.start \notin keys /\ x.events \cap Rowed(E) # {}}})

Starts(R) == {s.start : s \in Range(R)}

\* hasLogFileChanged, and markLogFileIndexed: the file is marked as it is now, not as it was read.
Changed == ~Hashed \/ mark # Len(log)
Marked == IF Hashed /\ crawl.read > 0 THEN Len(log) ELSE mark

\* `news': entries of other sessions, or a plan proposed in this one.
Scan(news) ==
    /\ crawl.step = "idle"
    /\ crawl' = [Idle EXCEPT !.step = "read", !.news = news,
                             !.read = IF Changed THEN Len(log) ELSE 0]
    /\ UNCHANGED <<log, clock, mark, store, crashes>>

\* existingSpanKeys is read once, and grows with what is emitted.  With nothing to insert the crawl is
\* over, before the catch-up.
Compute ==
    /\ crawl.step = "read"
    /\ mark' = Marked
    /\ \E fresh \in {Fresh(crawl.read)},
          emit \in {Emitted(SubSeq(log, 1, crawl.read), clock, Starts(spans))} :
          crawl' = IF fresh = {} /\ emit = <<>> /\ ~crawl.news THEN Idle
                   ELSE [crawl EXCEPT !.step = "insert", !.now = clock, !.fresh = fresh, !.emit = emit,
                                      !.keys = Starts(spans) \cup Starts(emit)]
    /\ UNCHANGED <<log, clock, store, crashes>>

\* The fresh events that get no row.
Lost(refused) == {i \in crawl.fresh : log[i].kind \in refused}

\* A Span that refers to such an event is stored without its messages.
Landed(refused) ==
    IF "Span" \in refused THEN <<>>
    ELSE [k \in DOMAIN crawl.emit |->
            IF crawl.emit[k].events \cap Lost(refused) = {} THEN crawl.emit[k]
            ELSE [crawl.emit[k] EXCEPT !.events = {}]]

\* insertEntries lands the batch in one transaction, without the entries whose type it does not know;
\* what the stored spans were to refer to is to be marked.
Land(refused) ==
    /\ crawl.step = "insert"
    /\ rows' = [i \in DOMAIN rows |-> IF i \in crawl.fresh \ Lost(refused) THEN "unspanned" ELSE rows[i]]
    /\ spans' = spans \o Landed(refused)
    /\ crawl' = [crawl EXCEPT !.step = "bump", !.fresh = {}, !.emit = <<>>,
                     !.claim = IF "Span" \in refused THEN {}
                               ELSE (UNION {s.events : s \in Range(crawl.emit)}) \ Lost(refused)]
    /\ UNCHANGED <<log, clock, mark, crashes>>

\* Mutant of Fail: the spans of a batch that did not land are not skipped.
FailIgnored ==
    /\ crawl.step = "insert"
    /\ crawl' = [crawl EXCEPT !.step = "bump", !.fresh = {}, !.emit = <<>>,
                              !.claim = UNION {s.events : s \in Range(crawl.emit)}]
    /\ UNCHANGED <<log, clock, mark, store, crashes>>

\* Or it throws, which ends the crawl.
Fail ==
    /\ crawl.step = "insert"
    /\ crawl' = Idle
    /\ UNCHANGED <<log, clock, mark, store, crashes>>

\* setNodeState, one claimed event at a time.
Bump ==
    /\ crawl.step = "bump" /\ crawl.claim # {}
    /\ LET i == FirstOf(crawl.claim) IN
        /\ rows' = [rows EXCEPT ![i] = "spanned"]
        /\ crawl' = [crawl EXCEPT !.claim = @ \ {i}]
    /\ UNCHANGED <<log, clock, mark, spans, crashes>>

\* Mutant of CatchUp: the crawl ends with its own batch.
NoCatchUp ==
    /\ crawl.step = "bump" /\ crawl.claim = {}
    /\ crawl' = Idle
    /\ UNCHANGED <<log, clock, mark, store, crashes>>

\* findUnspannedEvents: the events whose rows are still `unspanned', by time.
LeftOver == InOrder([e \in {log[i] : i \in Unspanned} |-> e.at])

\* catchUpUnspannedTails: rows hold neither plan acceptances nor todo lists, so these no longer count.
CatchUp ==
    /\ crawl.step = "bump" /\ crawl.claim = {}
    /\ \E emit \in {Emitted(LeftOver, crawl.now, crawl.keys)} :
          crawl' = IF crawl.again \/ emit = <<>> THEN Idle
                   ELSE [crawl EXCEPT !.step = "insert", !.emit = emit, !.keys = @ \cup Starts(emit), !.again = TRUE]
    /\ UNCHANGED <<log, clock, mark, store, crashes>>

\* The daemon stops; the store and the fingerprints stay.
Crash ==
    /\ crawl.step # "idle" /\ crashes < MaxCrashes
    /\ crawl' = Idle /\ crashes' = crashes + 1
    /\ UNCHANGED <<log, clock, mark, store>>

Next ==
    \/ \E e \in EventKinds, gap \in Gaps : Say(e, gap)
    \/ Quiet
    \/ \E news \in BOOLEAN : Scan(news)
    \/ \E refused \in Refusals : Land(refused)
    \/ Compute \/ Fail \/ Bump \/ CatchUp
    \/ Crash

Spec == Init /\ [][Next]_vars

\* Time passes, the timer starts crawls, and inserts do not fail, nor lack a type, for ever.
Fairness ==
    /\ WF_vars(Quiet) /\ WF_vars(\E news \in BOOLEAN : Scan(news))
    /\ WF_vars(Compute \/ (\E refused \in Refusals : Land(refused)) \/ Fail \/ Bump \/ CatchUp)
    /\ SF_vars(Land({}) /\ ~crawl.again) /\ SF_vars(Land({}) /\ crawl.again)
FairSpec == Spec /\ Fairness

---------------------------------------------------------------------------
(* Properties.                                                             *)

WholeSpan(s) ==
    /\ s.start \in Nat /\ s.end \in s.start .. clock /\ s.eff \in s.end .. s.end + LinkEps
    /\ s.events \subseteq DOMAIN log

\* The types of the variables (indexLogs.ts, fileHashes.ts).
TypeOK ==
    /\ \A i \in DOMAIN log : log[i].at <= clock
    /\ clock \in Nat /\ mark \in 0 .. Len(log)
    /\ rows \in Seq({"none", "unspanned", "spanned"}) /\ Len(rows) = Len(log)
    /\ \A s \in Range(spans \o crawl.emit) : WholeSpan(s)
    /\ crawl.step \in {"idle", "read", "insert", "bump"} /\ crawl.read \in 0 .. Len(log)
    /\ crawl.fresh \subseteq DOMAIN log /\ crawl.claim \subseteq DOMAIN log
    /\ crashes \in 0 .. MaxCrashes

\* The schema has the events' types, if not that of Span.
EventsTaken == \A refused \in Refusals : refused \subseteq {"Span"}

\* An event is marked as spanned only when a stored Span claims it, whatever crash, failed insert, refused
\* Span or new shape of the session came between (the state bumps after insertEntries).  Where the
\* schema lacks the type of an event, a Span loses its messages and the others are marked all the same.
SpannedIsClaimed ==
    EventsTaken =>
        \A i \in DOMAIN rows : rows[i] = "spanned" => \E s \in Range(spans) : i \in s.events

\* Two Span rows of a session never start together: neither a later crawl nor the catch-up after a crash
\* between insert and bumps stores a span again (existingSpanKeys).
OneSpanPerStart ==
    \A i, j \in DOMAIN spans : spans[i].start = spans[j].start => i = j

\* Without a crash, rows do not stay unspanned once the agent has stopped logging, also those of a log
\* that is not read again (the catch-up pass), as long as crawls go on finding something to insert for
\* other sessions: a crawl with nothing to insert ends before the catch-up.
TailGetsSpanned ==
    []<>crawl.news => ((Unspanned # {}) ~> (Unspanned = {} \/ crashes > 0))
=============================================================================
