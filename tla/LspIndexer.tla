----------------------------- MODULE LspIndexer -----------------------------
(***************************************************************************)
(* The lsp job: it drains the snapshots of the code root up to the end of  *)
(* the last closed span, turns each into a version of the file's symbol,   *)
(* promotes the versions it wrote and collects the manifest.  One file     *)
(* holds one symbol; `Empty` is a file without it.                         *)
(***************************************************************************)
EXTENDS Snapshots, Sequences

CONSTANTS
    Empty,        \* content that yields no symbol record
    Spans, NoSpan,
    SpanAt,       \* per span: start, end (its last event) and eff (effectiveEnd)
    Faults        \* the failures that may happen: subset of {"parse", "gc"}

ASSUME LspAssumption ==
    /\ Empty \in Contents /\ NoSpan \notin Spans
    /\ SpanAt \in [Spans -> [start : Nat, end : Nat, eff : Nat, session : Nat]]
    /\ \A s \in Spans : SpanAt[s].start <= SpanAt[s].end /\ SpanAt[s].end <= SpanAt[s].eff

VARIABLES
    span,       \* state of each Span node, "open" before it exists
    versions,   \* the rows of LSP types, in the order they were written
    lspMark,    \* job state lastConsumedTs
    run         \* the job of the daemon that runs, and what it has in memory

lspVars == <<span, versions, lspMark, run>>

States == {"new", "final", "linked", "commented"}
Version == [file : CodeFiles, content : Contents, at : 0..MaxTime, state : States,
            dead : BOOLEAN, comment : Spans \cup {NoSpan}]

Idle == [job |-> "none"]

LspTypeOK ==
    /\ span \in [Spans -> {"open", "extracted", "linked", "indexed"}]
    /\ versions \in Seq(Version)
    /\ lspMark \in 0..MaxTime

LspInit ==
    /\ span = [s \in Spans |-> "open"]
    /\ versions = <<>>
    /\ lspMark = 0
    /\ run = Idle

(* ---- Timelines: the versions of a file between two deletions ---- *)

Of(f) == {i \in DOMAIN versions : versions[i].file = f}
Last(f) == CHOOSE i \in Of(f) : \A j \in Of(f) : j <= i
Alive(i) == i = Last(versions[i].file) /\ ~versions[i].dead
HasHead(f) == Of(f) # {} /\ Alive(Last(f))
SameLine(i, j) ==
    /\ versions[i].file = versions[j].file
    /\ \A k \in Of(versions[i].file) : versions[k].dead => (k < i <=> k < j)

(* ---- The interval map of the finalised spans ---- *)

Closed == {s \in Spans : span[s] # "open"}
Within(s, t) == SpanAt[s].start < t /\ t <= SpanAt[s].eff
MaxOf(S) == CHOOSE x \in S : \A y \in S : y <= x

\* The interval a moment falls in, by its kind and lower bound.
Bracket(t) ==
    IF \E s \in Closed : Within(s, t)
    THEN LET first == CHOOSE s \in Closed : Within(s, t)
                        /\ \A q \in Closed : Within(q, t) => SpanAt[s].start <= SpanAt[q].start
         IN [kind |-> "span", lo |-> SpanAt[first].start]
    ELSE [kind |-> "gap", lo |-> MaxOf({-1} \cup {SpanAt[s].eff : s \in {q \in Closed : SpanAt[q].eff < t}})]

\* getMaxClosedSpanEndedAt; without a span there is no cutoff.
Eligible(r) == Closed = {} \/ \E s \in Closed : r.ts <= SpanAt[s].end

NewestFirst(q, r) == q.ts > r.ts
Earlier(q, r) ==
    \/ Bracket(q.mtime).lo < Bracket(r.mtime).lo
    \/ Bracket(q.mtime) = Bracket(r.mtime) /\ q.ts < r.ts

\* Every snapshot of a span counts, of a gap only the last.
Counts(r, S) ==
    Bracket(r.mtime).kind = "gap" =>
        \A q \in S : q.file = r.file /\ Bracket(q.mtime) = Bracket(r.mtime) => q.ts <= r.ts

(* ---- One run of the job ---- *)

LspStart ==
    LET planned == {r \in Drained(CodeFiles, lspMark) : Eligible(r)} IN
    /\ up /\ Settled /\ run = Idle /\ planned # {}
    /\ run' = [job |-> "lsp", step |-> "apply", planned |-> planned,
               mark |-> MaxOf({r.ts : r \in planned}), todo |-> {r \in planned : Counts(r, planned)},
               touched |-> {}, parsed |-> {}]
    /\ UNCHANGED <<span, versions, lspMark>>

FreshRoundedUp(r, dead, comment) ==
    [file |-> r.file, content |-> r.content, at |-> r.ts + 1, state |-> "new", dead |-> dead, comment |-> comment]
Fresh(r, dead, comment) ==
    [file |-> r.file, content |-> r.content, at |-> r.mtime, state |-> "new", dead |-> dead, comment |-> comment]

AnyBracketRow(i, r) == Bracket(versions[i].at) = Bracket(r.mtime)
SameBracket(i, r) == versions[i].state = "new" /\ Bracket(versions[i].at) = Bracket(r.mtime)

RewrittenInPlace(i, r) == [versions EXCEPT ![i].content = r.content]
Rewritten(i, r) == [versions EXCEPT ![i].content = r.content, ![i].at = r.mtime]

\* applyFileRecordsAtSnapshot: the versions after a snapshot and the id it touched, if any.
\* A bump copies the fields it does not set, among them the comment, and a deletion has no fields.
Applied(r) ==
    LET f == r.file  next == Len(versions) + 1 IN
    CASE ~HasHead(f) /\ r.content = Empty -> [to |-> versions, ids |-> {}]
      [] ~HasHead(f) /\ r.content # Empty -> [to |-> Append(versions, Fresh(r, FALSE, NoSpan)), ids |-> {next}]
      [] HasHead(f) /\ r.content = Empty  -> [to |-> Append(versions, Fresh(r, TRUE, NoSpan)), ids |-> {next}]
      [] HasHead(f) /\ r.content # Empty /\ r.content = versions[Last(f)].content -> [to |-> versions, ids |-> {}]
      [] OTHER -> IF SameBracket(Last(f), r)
                  THEN [to |-> Rewritten(Last(f), r), ids |-> {Last(f)}]
                  ELSE [to |-> Append(versions, Fresh(r, FALSE, versions[Last(f)].comment)), ids |-> {next}]

\* A copy that is gone or that the language server cannot parse is passed over.
LspApply ==
    /\ run.job = "lsp" /\ run.step = "apply"
    /\ \E r \in run.todo :
        /\ \A q \in run.todo : q.file = r.file => ~Earlier(q, r)
        /\ \/ /\ ~r.saved \/ "parse" \in Faults
              /\ run' = [run EXCEPT !.todo = @ \ {r}]
              /\ UNCHANGED versions
           \/ /\ r.saved
              /\ run' = [run EXCEPT !.todo = @ \ {r}, !.parsed = @ \cup {r}, !.touched = @ \cup Applied(r).ids]
              /\ versions' = Applied(r).to
    /\ UNCHANGED <<span, lspMark>>

Walked == run.job = "lsp" /\ run.step = "apply" /\ run.todo = {}

LspPromote ==
    /\ Walked
    /\ \E i \in run.touched :
        /\ versions' = [versions EXCEPT ![i].state = "final"]
        /\ run' = [run EXCEPT !.touched = @ \ {i}]
    /\ UNCHANGED <<span, lspMark>>

\* Files none of whose snapshots could be applied lose their symbol; that tombstone stays `new`.
Unparsed == {r.file : r \in run.planned} \ {r.file : r \in run.parsed}

LspFallback ==
    /\ Walked /\ run.touched = {}
    /\ \E f \in Unparsed :
        /\ versions' = IF HasHead(f)
                       THEN Append(versions, [file |-> f, content |-> Empty, at |-> clock, state |-> "new",
                                              dead |-> TRUE, comment |-> NoSpan])
                       ELSE versions
        /\ run' = [run EXCEPT !.planned = {r \in @ : r.file # f}]
    /\ UNCHANGED <<span, lspMark>>

LspCollectable == Walked /\ run.touched = {} /\ Unparsed = {}

LspCollect ==
    /\ LspCollectable
    /\ rows' = KeptLatest(CodeFiles)
    /\ run' = [run EXCEPT !.step = "save"]
    /\ UNCHANGED <<span, versions, lspMark>>

\* The watermark is saved whether the run had errors or not.
LspSave ==
    /\ run.job = "lsp" /\ run.step = "save"
    /\ lspMark' = run.mark
    /\ run' = Idle
    /\ UNCHANGED <<span, versions>>
=============================================================================
