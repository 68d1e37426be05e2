---------------------------- MODULE SpanPipeline ----------------------------
(***************************************************************************)
(* The way of a span: the log job closes it, span-link attaches the symbol *)
(* versions and plans that were born in it, and the indexer job shows it   *)
(* to an agent, seals the comments the agent wrote and marks it indexed.   *)
(* The jobs share the daemon, which runs one at a time.                    *)
(***************************************************************************)
EXTENDS PlansIndexer

VARIABLES
    links,     \* per span: the versions in touchedSymbols and the plans in touchedPlans
    patches    \* insertEntries calls of sealAndPropagateComments that nobody awaits

vars == <<snapVars, lspVars, planVars, links, patches>>

TypeOK ==
    /\ SnapTypeOK /\ LspTypeOK /\ PlanTypeOK
    /\ \A s \in Spans : links[s].symbols \subseteq DOMAIN versions

Init == SnapInit /\ LspInit /\ PlanInit
        /\ links = [s \in Spans |-> [symbols |-> {}, plans |-> {}]]
        /\ patches = {}

(* ---- The log job: a span ends five minutes before it is closed ---- *)

CloseSpan(s) ==
    /\ up /\ Settled /\ run = Idle
    /\ span[s] = "open" /\ SpanAt[s].end < clock
    /\ span' = [span EXCEPT ![s] = "extracted"]
    /\ UNCHANGED <<versions, run, links, patches>>

(* ---- span-link ---- *)

InWindow(s, t) == SpanAt[s].start < t /\ t <= SpanAt[s].eff

\* Per timeline the youngest version in the window; rows still `new` are not looked at.
Born(s) == {i \in DOMAIN versions : versions[i].state # "new" /\ InWindow(s, versions[i].at)}
Touched(s) == {i \in Born(s) : \A j \in Born(s) : SameLine(i, j) =>
                  versions[j].at <= versions[i].at /\ (versions[j].at = versions[i].at => i <= j)}

\* A plan written at the very start of the span belongs to it.
MintedIn(s) == {p \in plans : SpanAt[s].start <= p.at /\ p.at <= SpanAt[s].eff}

Wanted(s) ==
    [symbols |-> IF span[s] = "extracted" \/ links[s].symbols = {} THEN Touched(s) ELSE {},
     plans |-> IF span[s] = "extracted" \/ links[s].plans = {} THEN MintedIn(s) ELSE {}]

FoundToLink == {s \in Spans : span[s] \in {"extracted", "linked"} /\ (Wanted(s).symbols # {} \/ Wanted(s).plans # {})}
ToLink == {s \in Spans : \/ span[s] = "extracted"
                         \/ span[s] = "linked" /\ (Wanted(s).symbols # {} \/ Wanted(s).plans # {})}

LinkStart ==
    /\ up /\ Settled /\ run = Idle /\ ToLink # {}
    /\ run' = [job |-> "link", todo |-> ToLink, attached |-> {}, promote |-> {}]
    /\ UNCHANGED <<span, versions, links, patches>>

\* The symbols are appended to the list of the span at once.
Attach(s) ==
    /\ run.job = "link" /\ s \in run.todo /\ run.attached = {}
    /\ links' = [links EXCEPT ![s].symbols = @ \cup Wanted(s).symbols]
    /\ run' = [run EXCEPT !.attached = {s}, !.promote = Wanted(s).symbols]
    /\ UNCHANGED <<span, versions, patches>>

\* Then each is promoted by a call of its own, whatever its state is by then.
Promote(i) ==
    /\ run.job = "link" /\ i \in run.promote
    /\ versions' = [versions EXCEPT ![i].state = "linked"]
    /\ run' = [run EXCEPT !.promote = @ \ {i}]
    /\ UNCHANGED <<span, links, patches>>

\* At last the plans are appended, and the span moves on.
MarkLinked(s) ==
    /\ run.job = "link" /\ s \in run.attached /\ run.promote = {}
    /\ links' = [links EXCEPT ![s].plans = @ \cup Wanted(s).plans]
    /\ span' = [span EXCEPT ![s] = "linked"]
    /\ run' = [run EXCEPT !.todo = @ \ {s}, !.attached = {}]
    /\ UNCHANGED <<versions, patches>>

LinkEnds ==
    /\ run.job = "link" /\ run.todo = {}
    /\ run' = Idle
    /\ UNCHANGED <<span, versions, links, patches>>

(* ---- The indexer job ---- *)

IndexStart ==
    LET linked == {s \in Spans : span[s] = "linked"} IN
    /\ up /\ Settled /\ run = Idle /\ linked # {}
    /\ run' = [job |-> "index", todo |-> linked]
    /\ UNCHANGED <<span, versions, links, patches>>

\* The agent sees the spans of one session oldest first.
Prompted(s) ==
    /\ run.job = "index" /\ s \in run.todo
    /\ \A q \in run.todo : SpanAt[q].session = SpanAt[s].session => SpanAt[s].start <= SpanAt[q].start

\* Its patches add a comment to a symbol that has none and is not sealed.
AgentComments(s) ==
    /\ Prompted(s)
    /\ \E i \in links[s].symbols :
        /\ versions[i].comment = NoSpan /\ ~versions[i].dead /\ versions[i].state # "commented"
        /\ versions' = [versions EXCEPT ![i].comment = s]
    /\ UNCHANGED <<span, run, links, patches>>

\* sealAndPropagateComments: what it asks of the store for one touched version.
ToSeal(s) == {i \in links[s].symbols : versions[i].comment # NoSpan /\ versions[i].state # "commented"}
Later(i) == {j \in DOMAIN versions : i < j /\ SameLine(i, j) /\ Alive(j) /\ versions[j].state # "commented"}
Seals(s) ==
    UNION {{[id |-> i, seal |-> TRUE, comment |-> versions[i].comment]}
           \cup {[id |-> j, seal |-> FALSE, comment |-> versions[i].comment] : j \in Later(i)} : i \in ToSeal(s)}

IndexSpan(s) ==
    /\ Prompted(s)
    /\ patches' = patches \cup Seals(s)
    /\ span' = [span EXCEPT ![s] = "indexed"]
    /\ run' = [run EXCEPT !.todo = @ \ {s}]
    /\ UNCHANGED <<versions, links>>

\* A provider error ends the session; its other spans wait for the next run.
ProviderFails(s) ==
    /\ Prompted(s)
    /\ run' = [run EXCEPT !.todo = {q \in @ : SpanAt[q].session # SpanAt[s].session}]
    /\ UNCHANGED <<span, versions, links, patches>>

IndexEnds ==
    /\ run.job = "index" /\ run.todo = {}
    /\ run' = Idle
    /\ UNCHANGED <<span, versions, links, patches>>

\* A call of the store goes on after its embeddings; a patch adds no field that is there.
PatchLands(p) ==
    /\ patches' = patches \ {p}
    /\ versions' = [versions EXCEPT ![p.id].state = IF p.seal THEN "commented" ELSE @,
                                   ![p.id].comment = IF @ = NoSpan THEN p.comment ELSE @]
    /\ UNCHANGED <<span, run, links>>

PatchFails(p) ==
    /\ "embed" \in Faults
    /\ patches' = patches \ {p}
    /\ UNCHANGED <<span, versions, run, links>>

(* ---- The daemon ---- *)

\* Whatever runs is lost with the process; the database and the manifest stay.
DaemonEnds ==
    /\ Crash
    /\ \/ rows' = rows
       \/ "gc" \in Faults /\ LspCollectable /\ rows' = Unlinked(CodeFiles)
       \/ "gc" \in Faults /\ PlansCollectable /\ rows' = Unlinked(PlanFiles)
    /\ run' = Idle /\ patches' = {}
    /\ UNCHANGED <<span, versions, lspMark, planVars, links>>

LspSteps == LspStart \/ LspApply \/ LspPromote \/ LspFallback \/ LspSave
PlanSteps == PlansStart \/ PlansMint \/ PlansSave

\* What a span's jobs do without a choice of their own.
SpanSteps ==
    \/ LinkStart \/ LinkEnds \/ IndexStart \/ IndexEnds
    \/ \E s \in Spans : Attach(s) \/ MarkLinked(s) \/ IndexSpan(s)
    \/ \E i \in DOMAIN versions : Promote(i)
    \/ \E p \in patches : PatchLands(p)

\* What the log, the agent, its provider and the embedder may do.
SpanChoices ==
    \/ \E s \in Spans : CloseSpan(s) \/ AgentComments(s) \/ ProviderFails(s)
    \/ \E p \in patches : PatchFails(p)

\* Each kind of step with what it leaves alone.
World(A) == A /\ UNCHANGED <<lspVars, planVars, links, patches>>
LspJob ==
    /\ LspCollect \/ (LspSteps /\ UNCHANGED rows)
    /\ UNCHANGED <<clock, disk, event, up, written, crashes, planVars, links, patches>>
PlansJob ==
    /\ PlansCollect \/ (PlanSteps /\ UNCHANGED rows)
    /\ UNCHANGED <<clock, disk, event, up, written, crashes, span, versions, lspMark, links, patches>>
SpanJob(A) == A /\ UNCHANGED <<snapVars, lspMark, planVars>>

Next == World(SnapNext) \/ LspJob \/ PlansJob \/ SpanJob(SpanSteps \/ SpanChoices) \/ DaemonEnds

Spec == Init /\ [][Next]_vars

(* Time passes, the watcher reports, the daemon is started again, and a job that began goes on.
   span-link, the indexer and the plans job have timers, and the scheduler lets every timer have
   its turn between other jobs; the lsp job has none.  A provider that can answer does so in the
   end.  Writers, crashes, the agent and the embedder owe nothing. *)
Fairness ==
    /\ WF_vars(World(Tick)) /\ WF_vars(World(Start))
    /\ \A f \in Files : WF_vars(World(OnChange(f)))
    /\ WF_vars(run # Idle /\ LspJob) /\ WF_vars(run # Idle /\ PlansJob)
    /\ SF_vars(run = Idle /\ PlansJob)
    /\ SF_vars(SpanJob(LinkStart)) /\ SF_vars(SpanJob(IndexStart))
    /\ WF_vars(SpanJob(LinkEnds \/ IndexEnds \/ \E s \in Spans : Attach(s) \/ MarkLinked(s)))
    /\ WF_vars(SpanJob(\E i \in DOMAIN versions : Promote(i)))
    /\ \A s \in Spans : SF_vars(SpanJob(IndexSpan(s)))
    /\ WF_vars(SpanJob(\E p \in patches : PatchLands(p)))

FairSpec == Spec /\ Fairness

(* ---- Properties ---- *)

\* When the lsp job saves its watermark, the symbol of every file it could parse is what the newest
\* parsed snapshot says, whatever brackets, overwrites, bumps and earlier crashes came in between
\* (indexWithLsp: aliveAtCursor, ordered buckets, gap collapse).
SavedMeansApplied ==
    [][lspMark' # lspMark =>
         \A f \in {r.file : r \in run.parsed} :
            LET r == Newest({q \in run.parsed : q.file = f}) IN
            IF r.content = Empty THEN ~HasHead(f) ELSE HasHead(f) /\ versions[Last(f)].content = r.content]_vars

\* A version says that its content was on disk at createdAt: an overwrite moves both together, and a
\* late snapshot does not lend its time to older content (applyOne, snapshotTs).
AttributedInTime ==
    \A i \in DOMAIN versions : ~versions[i].dead =>
        [file |-> versions[i].file, at |-> versions[i].at, content |-> versions[i].content] \in written

\* A version that left `new` is history: no later snapshot, run or restart, no link and no comment that
\* lands late rewrites it or takes it back to `new`, also where the windows of two spans overlap (applyOne,
\* which may only overwrite what is `new`; linkSpans and sealAndPropagateComments, which only relabel).
FrozenOnceFinal ==
    [][/\ DOMAIN versions \subseteq DOMAIN versions'
       /\ \A i \in DOMAIN versions : versions[i].state # "new" =>
            /\ versions'[i].content = versions[i].content /\ versions'[i].at = versions[i].at
            /\ versions'[i].state # "new"]_versions

\* The newest consumed copy of a plan has become a Plan: a read error, a crash or the collection of
\* the manifest between reading and saving the watermark loses none (indexPlans, plans-claude).
PlanNotLost ==
    \A f \in PlanFiles :
        LET consumed == {r \in RowsOf(f) : r.ts <= planMark} IN
        consumed # {} => [file |-> f, at |-> Newest(consumed).mtime] \in plans

\* Every file that is left alone is copied as it is, over crashes, edits while the daemon is down
\* and files that change before their notification arrives (onChange, allowSkip).
ManifestCatchesUp ==
    \A f \in Files : <>[](disk[f].content # Gone =>
        RowsOf(f) # {} /\ Newest(RowsOf(f)).content = disk[f].content)

\* A closed span is linked and indexed in the end, with crashes, provider errors and repairs between.
SpanGetsIndexed == \A s \in Spans : span[s] = "extracted" ~> span[s] = "indexed"
=============================================================================
