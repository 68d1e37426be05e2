---------------------------- MODULE HistoryProofs ----------------------------
(***************************************************************************)
(* What SpanPipeline promises of history: the watermark of the lsp job     *)
(* follows the newest snapshot, a version that left `new' is not           *)
(* rewritten, spans only advance, and the symbols of the files have the    *)
(* history that Timelines describes.  For every set of files, contents     *)
(* and spans, also where the windows of spans overlap.                     *)
(***************************************************************************)
EXTENDS PipelineProofs

USE SnapshotAssumption, LspAssumption

-----------------------------------------------------------------------------
(* The order of snapshots.                                                 *)

\* Copies of one file have times of their own, and are in the order of the moments they were written.
Coherent(S) ==
    \A q, r \in S : q.file = r.file =>
        /\ q.ts = r.ts => q = r
        /\ q.ts < r.ts => q.mtime <= r.mtime

NewestIn(r, S) == r \in S /\ \A q \in S : q.file = r.file => q.ts <= r.ts

\* A set of rows of one file that is not empty has a newest row, which Newest picks.
LEMMA NewestThere ==
    ASSUME NEW S, S \subseteq Row, S # {}
    PROVE  Newest(S) \in S /\ \A q \in S : q.ts <= Newest(S).ts
<1> DEFINE T == {r.ts : r \in S}
<1>1. T \in SUBSET (0..MaxTime) /\ T # {}
  <2>1. \A r \in Row : r.ts \in 0..MaxTime BY DEF Row
  <2>2. PICK r \in S : TRUE OBVIOUS
  <2>3. r.ts \in T OBVIOUS
  <2> QED BY <2>1, <2>3
<1>2. \E x \in T : \A y \in T : y <= x
  <2> HIDE DEF T
  <2> QED BY <1>1, HasGreatest
<1>3. \E r \in S : \A q \in S : q.ts <= r.ts BY <1>2
<1> QED BY <1>3 DEF Newest

\* A set of naturals that is not empty has a least element.
LEMMA HasLeast ==
    ASSUME NEW S \in SUBSET Nat, S # {}
    PROVE  \E x \in S : \A y \in S : x <= y
<1>1. PICK x \in S : \A y \in S : ~ (<<y, x>> \in OpToRel(<, Nat))
  BY NatLessThanWellFounded, WFMin
<1>2. \A y \in S : ~ (y < x) BY <1>1 DEF OpToRel
<1> QED BY <1>2

\* The interval of a moment inside a span begins with the earliest span that holds it.
LEMMA SpanBracket ==
    ASSUME NEW t \in Nat, NEW s \in Closed, Within(s, t)
    PROVE  \E q \in Closed : /\ Within(q, t) /\ Bracket(t) = [kind |-> "span", lo |-> SpanAt[q].start]
                             /\ \A p \in Closed : Within(p, t) => SpanAt[q].start <= SpanAt[p].start
<1> DEFINE S == {SpanAt[q].start : q \in {p \in Closed : Within(p, t)}}
<1>1. Closed \subseteq Spans /\ \A q \in Spans : SpanAt[q].start \in Nat BY DEF Closed
<1>2. S \in SUBSET Nat BY <1>1
<1>3. SpanAt[s].start \in S OBVIOUS
<1>4. \E x \in S : \A y \in S : x <= y
  <2> HIDE DEF S
  <2> QED BY <1>2, <1>3, HasLeast
<1>5. \E q \in Closed : Within(q, t) /\ \A p \in Closed : Within(p, t) => SpanAt[q].start <= SpanAt[p].start
  BY <1>4
<1> QED BY <1>5 DEF Bracket

\* The interval of another moment begins with the latest end of a span before it.
LEMMA GapBracket ==
    ASSUME NEW t \in Nat, \A s \in Closed : ~Within(s, t)
    PROVE  \E lo \in Int :
             /\ Bracket(t) = [kind |-> "gap", lo |-> lo] /\ lo < t
             /\ lo = -1 \/ \E s \in Closed : SpanAt[s].eff < t /\ lo = SpanAt[s].eff
             /\ \A s \in Closed : SpanAt[s].eff < t => SpanAt[s].eff <= lo
             /\ -1 <= lo
<1> DEFINE T == {SpanAt[s].eff : s \in {q \in Closed : SpanAt[q].eff < t}}
           S == {-1} \cup T
<1>1. \A q \in Closed : SpanAt[q].eff \in Nat BY DEF Closed
<1>2. T \in SUBSET (0..t) /\ \A x \in T : x < t BY <1>1
<1>3. T # {} => \E x \in T : \A y \in T : y <= x
  <2> HIDE DEF T
  <2> QED BY <1>2, HasGreatest
<1>4. \E x \in S : \A y \in S : y <= x
  <2> HIDE DEF T
  <2>1. CASE T = {} BY <2>1
  <2>2. CASE T # {} BY <1>2, <1>3, <2>2
  <2> QED BY <2>1, <2>2
<1>5. MaxOf(S) \in S /\ \A y \in S : y <= MaxOf(S)
  <2> HIDE DEF S
  <2> QED BY <1>4 DEF MaxOf
<1>6. Bracket(t) = [kind |-> "gap", lo |-> MaxOf(S)] BY DEF Bracket
<1> DEFINE m == MaxOf(S)
<1>7. m = -1 \/ m \in T BY <1>5
<1>8. -1 <= m /\ m \in Int /\ m < t
  <2> HIDE DEF T, m
  <2>1. \A x \in T : x \in Int /\ 0 <= x /\ x < t BY <1>2
  <2>2. CASE m = -1 BY <2>2
  <2>3. CASE m \in T BY <2>1, <2>3
  <2> QED BY <1>7, <2>2, <2>3
<1>9. \A s \in Closed : SpanAt[s].eff < t => SpanAt[s].eff <= m
  <2> SUFFICES ASSUME NEW s \in Closed, SpanAt[s].eff < t PROVE SpanAt[s].eff <= m OBVIOUS
  <2>1. SpanAt[s].eff \in S OBVIOUS
  <2> HIDE DEF S
  <2> QED BY <1>5, <2>1
<1>10. m = -1 \/ \E s \in Closed : SpanAt[s].eff < t /\ m = SpanAt[s].eff
  <2> HIDE DEF m
  <2> QED BY <1>7
<1> HIDE DEF m, S, T
<1> QED BY <1>6, <1>8, <1>9, <1>10 DEF m

\* Later moments lie in the same interval or in one that begins later, also where spans overlap.
LEMMA BracketsInOrder ==
    ASSUME NEW t \in Nat, NEW u \in Nat, t <= u
    PROVE  Bracket(t) = Bracket(u) \/ Bracket(t).lo < Bracket(u).lo
<1>1. \A s \in Closed : /\ SpanAt[s].start \in Nat /\ SpanAt[s].eff \in Nat
                        /\ SpanAt[s].start <= SpanAt[s].eff
  BY DEF Closed
<1>2. CASE (\E s \in Closed : Within(s, t)) /\ (\E s \in Closed : Within(s, u))
  <2>1. PICK p \in Closed : /\ Within(p, t) /\ Bracket(t) = [kind |-> "span", lo |-> SpanAt[p].start]
                            /\ \A x \in Closed : Within(x, t) => SpanAt[p].start <= SpanAt[x].start
    BY <1>2, SpanBracket
  <2>2. PICK q \in Closed : /\ Within(q, u) /\ Bracket(u) = [kind |-> "span", lo |-> SpanAt[q].start]
                            /\ \A x \in Closed : Within(x, u) => SpanAt[q].start <= SpanAt[x].start
    BY <1>2, SpanBracket
  <2>3. SpanAt[p].start <= SpanAt[q].start
    <3>1. CASE SpanAt[q].start < t
      <4>1. Within(q, t) BY <1>1, <2>2, <3>1 DEF Within
      <4> QED BY <2>1, <4>1
    <3>2. CASE t <= SpanAt[q].start BY <1>1, <2>1, <3>2 DEF Within
    <3> QED BY <1>1, <3>1, <3>2
  <2> QED BY <1>1, <2>1, <2>2, <2>3
<1>3. CASE (\E s \in Closed : Within(s, t)) /\ ~(\E s \in Closed : Within(s, u))
  <2>1. PICK p \in Closed : Within(p, t) /\ Bracket(t) = [kind |-> "span", lo |-> SpanAt[p].start]
    BY <1>3, SpanBracket
  <2>2. PICK lo \in Int : /\ Bracket(u) = [kind |-> "gap", lo |-> lo]
                          /\ \A s \in Closed : SpanAt[s].eff < u => SpanAt[s].eff <= lo
    BY <1>3, GapBracket
  <2>3. ~Within(p, u) BY <1>3
  <2>4. SpanAt[p].eff < u BY <1>1, <2>1, <2>3 DEF Within
  <2>5. SpanAt[p].start < lo BY <1>1, <2>1, <2>2, <2>4 DEF Within
  <2> QED BY <2>1, <2>2, <2>5
<1>4. CASE ~(\E s \in Closed : Within(s, t)) /\ (\E s \in Closed : Within(s, u))
  <2>1. PICK q \in Closed : Within(q, u) /\ Bracket(u) = [kind |-> "span", lo |-> SpanAt[q].start]
    BY <1>4, SpanBracket
  <2>2. PICK lo \in Int : Bracket(t) = [kind |-> "gap", lo |-> lo] /\ lo < t
    BY <1>4, GapBracket
  <2>3. ~Within(q, t) BY <1>4
  <2>4. lo < SpanAt[q].start BY <1>1, <2>1, <2>2, <2>3 DEF Within
  <2> QED BY <2>1, <2>2, <2>4
<1>5. CASE ~(\E s \in Closed : Within(s, t)) /\ ~(\E s \in Closed : Within(s, u))
  <2>1. PICK lo \in Int : /\ Bracket(t) = [kind |-> "gap", lo |-> lo]
                          /\ lo = -1 \/ \E s \in Closed : SpanAt[s].eff < t /\ lo = SpanAt[s].eff
    BY <1>5, GapBracket
  <2>2. PICK hi \in Int : /\ Bracket(u) = [kind |-> "gap", lo |-> hi] /\ -1 <= hi
                          /\ \A s \in Closed : SpanAt[s].eff < u => SpanAt[s].eff <= hi
    BY <1>5, GapBracket
  <2>3. lo <= hi BY <1>1, <2>1, <2>2
  <2> QED BY <2>1, <2>2, <2>3
<1> QED BY <1>2, <1>3, <1>4, <1>5

\* So of the snapshots of one file the one that applies first is the oldest copy.
LEMMA OldestFirst ==
    ASSUME NEW S, S \subseteq Row, Coherent(S), NEW r \in S,
           \A q \in S : q.file = r.file => ~Earlier(q, r)
    PROVE  \A q \in S : q.file = r.file /\ q # r => r.ts < q.ts
<1> SUFFICES ASSUME NEW q \in S, q.file = r.file, q # r PROVE r.ts < q.ts OBVIOUS
<1>1. /\ q.ts \in Nat /\ r.ts \in Nat /\ q.mtime \in Nat /\ r.mtime \in Nat
  BY DEF Row
<1>2. q.ts # r.ts BY DEF Coherent
<1>3. ASSUME q.ts < r.ts PROVE FALSE
  <2>1. q.mtime <= r.mtime BY <1>3 DEF Coherent
  <2>2. Earlier(q, r) BY <1>1, <1>3, <2>1, BracketsInOrder DEF Earlier
  <2> QED BY <2>2
<1> QED BY <1>1, <1>2, <1>3

-----------------------------------------------------------------------------
(* The manifest.                                                           *)

\* The manifest names no copy of the future, and none that is younger than the file.
ManifestInv ==
    /\ Coherent(rows)
    /\ \A r \in rows : r.ts <= clock /\ r.mtime <= disk[r.file].mtime
    /\ \A f \in Files : disk[f].mtime <= clock /\ (disk[f].content # Gone => 0 < disk[f].mtime)

\* What a collection leaves, and what it leaves when the daemon ends inside it.
LEMMA CollectedManifest ==
    ASSUME TypeInv, ManifestInv, NEW F, rows' = KeptLatest(F) \/ rows' = Unlinked(F) \/ rows' = rows,
           clock' = clock, disk' = disk
    PROVE  ManifestInv'
<1>1. \A r \in rows' : \E q \in rows : r \in {q, [q EXCEPT !.saved = FALSE]}
  BY DEF KeptLatest, Unlinked
<1>2. \A r \in rows : LET q == [r EXCEPT !.saved = FALSE] IN
        q.file = r.file /\ q.ts = r.ts /\ q.mtime = r.mtime
  BY DEF TypeInv, SnapTypeOK, Row
<1>3. \A r \in rows' : \E q \in rows : r.file = q.file /\ r.ts = q.ts /\ r.mtime = q.mtime
  BY <1>1, <1>2
<1>4. \A r \in rows' : r.ts <= clock /\ r.mtime <= disk[r.file].mtime
  BY <1>3 DEF ManifestInv
<1>5. Coherent(rows')
  <2> SUFFICES ASSUME NEW q \in rows', NEW r \in rows', q.file = r.file
               PROVE  (q.ts = r.ts => q = r) /\ (q.ts < r.ts => q.mtime <= r.mtime)
    BY DEF Coherent
  <2>1. q.ts < r.ts => q.mtime <= r.mtime BY <1>3 DEF ManifestInv, Coherent
  <2>2. q.ts = r.ts => q = r
    <3>1. CASE rows' \subseteq rows BY <3>1 DEF ManifestInv, Coherent
    <3>2. CASE rows' = Unlinked(F)
      <4>1. PICK x \in rows : q = IF x \in KeptLatest(F) THEN x ELSE [x EXCEPT !.saved = FALSE]
        BY <3>2 DEF Unlinked
      <4>2. PICK y \in rows : r = IF y \in KeptLatest(F) THEN y ELSE [y EXCEPT !.saved = FALSE]
        BY <3>2 DEF Unlinked
      <4>3. x.file = y.file /\ (q.ts = r.ts => x.ts = y.ts) BY <1>2, <4>1, <4>2
      <4>4. q.ts = r.ts => x = y BY <4>3 DEF ManifestInv, Coherent
      <4> QED BY <4>1, <4>2, <4>4
    <3> QED BY <3>1, <3>2 DEF KeptLatest
  <2> QED BY <2>1, <2>2
<1> QED BY <1>4, <1>5 DEF ManifestInv

LEMMA ManifestSnap == TypeInv /\ ManifestInv /\ SnapNext => ManifestInv'
<1> SUFFICES ASSUME TypeInv, ManifestInv, SnapNext PROVE ManifestInv' OBVIOUS
<1>1. /\ clock \in Nat /\ rows \subseteq Row
      /\ \A f \in Files : disk[f].mtime \in Nat
      /\ DOMAIN disk = Files
  BY DEF TypeInv, SnapTypeOK
<1>2. \A r \in rows : r.file \in Files /\ r.ts \in Nat /\ r.mtime \in Nat BY <1>1 DEF Row
<1>3. ASSUME NEW f \in Files, OnChange(f) PROVE ManifestInv'
  <2> DEFINE new == [file |-> f, ts |-> clock, mtime |-> disk[f].mtime, content |-> disk[f].content, saved |-> TRUE]
  <2>1. CASE rows' = rows BY <1>3, <2>1 DEF OnChange, ManifestInv
  <2>2. CASE CopyOf(f)
    <3>1. rows' = rows \cup {new} /\ \A r \in rows : r.file = f => r.ts < clock
      BY <2>2 DEF CopyOf, RowsOf
    <3>2. new.file = f /\ new.ts = clock /\ new.mtime = disk[f].mtime OBVIOUS
    <3>3. \A r \in rows : r.file = f => r.mtime <= disk[f].mtime BY DEF ManifestInv
    <3> HIDE DEF new
    <3>4. Coherent(rows')
      <4> SUFFICES ASSUME NEW q \in rows', NEW r \in rows', q.file = r.file
                   PROVE  (q.ts = r.ts => q = r) /\ (q.ts < r.ts => q.mtime <= r.mtime)
        BY DEF Coherent
      <4>1. CASE q \in rows /\ r \in rows BY <4>1 DEF ManifestInv, Coherent
      <4>2. CASE q = new /\ r \in rows BY <1>1, <1>2, <3>1, <3>2, <4>2
      <4>3. CASE q \in rows /\ r = new BY <1>1, <1>2, <3>1, <3>2, <3>3, <4>3
      <4>4. CASE q = new /\ r = new BY <1>1, <3>2, <4>4
      <4> QED BY <3>1, <4>1, <4>2, <4>3, <4>4
    <3>5. \A r \in rows' : r.ts <= clock /\ r.mtime <= disk[r.file].mtime
      BY <1>1, <3>1, <3>2 DEF ManifestInv
    <3> QED BY <1>3, <3>4, <3>5 DEF OnChange, ManifestInv
  <2> QED BY <1>3, <2>1, <2>2 DEF OnChange
<1>4. ASSUME NEW f \in Files, NEW c, c = Gone \/ c \in Contents, disk[f].mtime < clock,
             disk' = [disk EXCEPT ![f] = [content |-> c, mtime |-> clock]], rows' = rows, clock' = clock
      PROVE  ManifestInv'
  <2>1. \A g \in Files : disk'[g] = IF g = f THEN [content |-> c, mtime |-> clock] ELSE disk[g] BY <1>1, <1>4
  <2>2. \A g \in Files : disk[g].mtime <= disk'[g].mtime /\ disk'[g].mtime <= clock BY <1>1, <1>4, <2>1 DEF ManifestInv
  <2>3. \A r \in rows : r.mtime <= disk'[r.file].mtime
    <3> SUFFICES ASSUME NEW r \in rows PROVE r.mtime <= disk'[r.file].mtime OBVIOUS
    <3>1. CASE r.file = f BY <1>1, <1>2, <1>4, <2>1, <3>1 DEF ManifestInv
    <3>2. CASE r.file # f BY <1>2, <2>1, <3>2 DEF ManifestInv
    <3> QED BY <3>1, <3>2
  <2>4. \A g \in Files : disk'[g].content # Gone => 0 < disk'[g].mtime
    <3> SUFFICES ASSUME NEW g \in Files, disk'[g].content # Gone PROVE 0 < disk'[g].mtime OBVIOUS
    <3>1. CASE g = f BY <1>1, <1>4, <2>1, <3>1
    <3>2. CASE g # f BY <2>1, <3>2 DEF ManifestInv
    <3> QED BY <3>1, <3>2
  <2> QED BY <1>4, <2>2, <2>3, <2>4 DEF ManifestInv
<1>5. ASSUME NEW f \in Files, Remove(f) PROVE ManifestInv' BY <1>4, <1>5 DEF Remove
<1>6. ASSUME NEW f \in Files, NEW c \in Contents, Edit(f, c) PROVE ManifestInv' BY <1>4, <1>6 DEF Edit
<1>7. CASE Tick
  <2>1. \A r \in rows : r.ts <= clock + 1 BY <1>1, <1>2 DEF ManifestInv
  <2>2. \A f \in Files : disk[f].mtime <= clock + 1 BY <1>1 DEF ManifestInv
  <2> QED BY <1>7, <2>1, <2>2 DEF Tick, ManifestInv
<1>8. CASE Start BY <1>8 DEF Start, ManifestInv
<1> QED BY <1>3, <1>5, <1>6, <1>7, <1>8 DEF SnapNext

LEMMA InitManifest == Init => ManifestInv
BY DEF Init, SnapInit, ManifestInv, Coherent

LEMMA StepManifest == TypeInv /\ ManifestInv /\ [Next]_vars => ManifestInv'
<1> SUFFICES ASSUME TypeInv, ManifestInv, [Next]_vars PROVE ManifestInv' OBVIOUS
<1>1. CASE World(SnapNext) BY <1>1, ManifestSnap DEF World
<1>2. ASSUME \/ \E F : rows' = KeptLatest(F) \/ rows' = Unlinked(F)
             \/ rows' = rows,
             clock' = clock, disk' = disk
      PROVE  ManifestInv'
  BY <1>2, CollectedManifest
<1>3. CASE LspJob
  <2>1. rows' = rows \/ rows' = KeptLatest(CodeFiles) BY <1>3 DEF LspJob, LspCollect
  <2> QED BY <1>2, <1>3, <2>1 DEF LspJob
<1>4. CASE PlansJob
  <2>1. rows' = rows \/ rows' = KeptLatest(PlanFiles) BY <1>4 DEF PlansJob, PlansCollect
  <2> QED BY <1>2, <1>4, <2>1 DEF PlansJob
<1>5. CASE DaemonEnds
  <2>1. rows' = rows \/ rows' = Unlinked(CodeFiles) \/ rows' = Unlinked(PlanFiles) BY <1>5 DEF DaemonEnds
  <2> QED BY <1>2, <1>5, <2>1 DEF DaemonEnds, Crash
<1>6. CASE SpanJob(SpanSteps \/ SpanChoices) BY <1>6 DEF SpanJob, snapVars, ManifestInv
<1>7. CASE UNCHANGED vars BY <1>7 DEF vars, snapVars, ManifestInv
<1> QED BY <1>1, <1>3, <1>4, <1>5, <1>6, <1>7 DEF Next

-----------------------------------------------------------------------------
(* The lsp job follows the newest snapshot.                                *)

\* The symbol of a file is what a snapshot says of it.
Holds(r) ==
    IF r.content = Empty THEN ~HasHead(r.file)
    ELSE HasHead(r.file) /\ versions[Last(r.file)].content = r.content

\* While the lsp job runs it has parsed the oldest snapshots of each file, and the symbol is that of the last.
AppliedInv ==
    run.job = "lsp" =>
        /\ Coherent(run.todo \cup run.parsed)
        /\ \A p \in run.parsed, t \in run.todo : p.file = t.file => p.ts < t.ts
        /\ \A p \in run.parsed : NewestIn(p, run.parsed) => Holds(p)

LEMMA HeadIs ==
    ASSUME versions \in Seq(Version), NEW f
    PROVE  HasHead(f) <=> Of(f) # {} /\ ~versions[Last(f)].dead
BY LastIsThere DEF HasHead, Alive

\* A file whose versions keep their file, content and end keeps its symbol.
LEMMA HoldsOn ==
    ASSUME versions \in Seq(Version), versions' \in Seq(Version), NEW r, Of(r.file)' = Of(r.file),
           \A i \in Of(r.file) : versions'[i].content = versions[i].content /\ versions'[i].dead = versions[i].dead,
           Holds(r)
    PROVE  Holds(r)'
<1> DEFINE f == r.file
<1>1. Last(f)' = Last(f) BY DEF Last
<1>2. Of(f) # {} => Last(f) \in Of(f) BY LastIsThere DEF Of
<1>3. HasHead(f)' <=> Of(f)' # {} /\ ~versions'[Last(f)'].dead
  <2>1. Of(f)' # {} => Last(f)' \in DOMAIN versions' /\ versions'[Last(f)'].file = f
    <3>1. Of(f)' # {} => \A i \in Of(f) : i \in DOMAIN versions' /\ versions'[i].file = f BY DEF Of
    <3> QED BY <1>1, <1>2, <3>1
  <2> QED BY <2>1 DEF HasHead, Alive
<1>4. HasHead(f)' <=> HasHead(f) BY <1>1, <1>2, <1>3, HeadIs
<1>5. HasHead(f) => versions'[Last(f)].content = versions[Last(f)].content BY <1>2, HeadIs
<1> QED BY <1>1, <1>4, <1>5 DEF Holds

\* A version added to a file is its last, and leaves the other files alone.
LEMMA AfterAppend ==
    ASSUME versions \in Seq(Version), NEW v \in Version, versions' = Append(versions, v)
    PROVE  /\ Last(v.file)' = Len(versions) + 1
           /\ versions'[Last(v.file)'] = v
           /\ HasHead(v.file)' <=> ~v.dead
           /\ \A f : f # v.file => Of(f)' = Of(f)
           /\ \A i \in DOMAIN versions : versions'[i] = versions[i]
<1> DEFINE n == Len(versions) + 1
           f == v.file
<1>1. n \in Nat /\ DOMAIN versions = 1..Len(versions) /\ DOMAIN versions' = 1..n /\ versions'[n] = v
  OBVIOUS
<1>2. \A i \in DOMAIN versions : versions'[i] = versions[i] OBVIOUS
<1>3. n \in Of(f)' /\ \A i \in Of(f)' : i <= n BY <1>1 DEF Of
<1>4. Last(f)' = n
  <2>1. \A i \in Of(f)' : i \in Nat /\ n \in Nat BY <1>1 DEF Of
  <2>2. \A i \in Of(f)' : (\A j \in Of(f)' : j <= i) => i = n BY <1>3, <2>1
  <2> QED BY <1>3, <2>2 DEF Last
<1>5. HasHead(f)' <=> ~v.dead BY <1>1, <1>3, <1>4 DEF HasHead, Alive
<1>6. \A g : g # f => Of(g)' = Of(g) BY <1>1, <1>2 DEF Of
<1> QED BY <1>1, <1>2, <1>4, <1>5, <1>6

\* After a snapshot was applied the symbol of its file is what it says.
LEMMA AppliedHolds ==
    ASSUME versions \in Seq(Version), NEW r \in Row, r.file \in CodeFiles, versions' = Applied(r).to
    PROVE  Holds(r)' /\ \A q : q.file # r.file /\ Holds(q) => Holds(q)'
<1> DEFINE f == r.file
<1>1. versions' \in Seq(Version) BY AppliedType
<1>2. ASSUME NEW v \in Version, versions' = Append(versions, v), v.file = f, v.content = r.content,
             v.dead <=> r.content = Empty
      PROVE  Holds(r)' /\ \A q : q.file # f /\ Holds(q) => Holds(q)'
  <2>1. Holds(r)' BY <1>2, AfterAppend DEF Holds
  <2>2. ASSUME NEW q, q.file # f, Holds(q) PROVE Holds(q)'
    <3>1. Of(q.file)' = Of(q.file) /\ \A i \in Of(q.file) : versions'[i] = versions[i]
      BY <1>2, <2>2, AfterAppend DEF Of
    <3> QED BY <1>1, <2>2, <3>1, HoldsOn
  <2> QED BY <2>1, <2>2
<1>3. ASSUME versions' = versions PROVE \A q : Holds(q) => Holds(q)'
  <2>1. \A g : Of(g)' = Of(g) BY <1>3 DEF Of
  <2>2. \A g : Last(g)' = Last(g) BY <2>1 DEF Last
  <2> QED BY <1>3, <2>1, <2>2 DEF Holds, HasHead, Alive
<1>4. \A dead \in BOOLEAN, c \in Spans \cup {NoSpan} :
        /\ Fresh(r, dead, c) \in Version /\ Fresh(r, dead, c).file = f
        /\ Fresh(r, dead, c).content = r.content /\ Fresh(r, dead, c).dead = dead
  BY DEF Fresh, Version, Row, States
<1>5. HasHead(f) => Last(f) \in DOMAIN versions /\ versions[Last(f)].file = f /\ versions[Last(f)] \in Version
  BY LastIsThere DEF HasHead
<1>6. CASE ~HasHead(f) /\ r.content = Empty
  <2>1. versions' = versions /\ Holds(r) BY <1>6 DEF Applied, Holds
  <2> QED BY <1>3, <2>1
<1>7. CASE ~HasHead(f) /\ r.content # Empty
  <2>1. versions' = Append(versions, Fresh(r, FALSE, NoSpan)) BY <1>7 DEF Applied
  <2> QED BY <1>2, <1>4, <1>7, <2>1
<1>8. CASE HasHead(f) /\ r.content = Empty
  <2>1. versions' = Append(versions, Fresh(r, TRUE, NoSpan)) BY <1>8 DEF Applied
  <2> QED BY <1>2, <1>4, <1>8, <2>1
<1>9. CASE HasHead(f) /\ r.content # Empty /\ r.content = versions[Last(f)].content
  <2>1. versions' = versions /\ Holds(r) BY <1>9 DEF Applied, Holds
  <2> QED BY <1>3, <2>1
<1>10. CASE HasHead(f) /\ r.content # Empty /\ r.content # versions[Last(f)].content /\ ~SameBracket(Last(f), r)
  <2>1. versions' = Append(versions, Fresh(r, FALSE, versions[Last(f)].comment)) BY <1>10 DEF Applied
  <2>2. versions[Last(f)].comment \in Spans \cup {NoSpan} BY <1>5, <1>10 DEF Version
  <2> QED BY <1>2, <1>4, <1>10, <2>1, <2>2
<1>11. CASE HasHead(f) /\ r.content # Empty /\ r.content # versions[Last(f)].content /\ SameBracket(Last(f), r)
  <2>1. versions' = Rewritten(Last(f), r) BY <1>11 DEF Applied
  <2> DEFINE k == Last(f)
  <2>2. /\ DOMAIN versions' = DOMAIN versions
        /\ \A i \in DOMAIN versions : versions'[i].file = versions[i].file /\ versions'[i].dead = versions[i].dead
        /\ \A i \in DOMAIN versions : i # k => versions'[i].content = versions[i].content
        /\ versions'[k].content = r.content
    <3>1. \A i \in DOMAIN versions : i # k => versions'[i] = versions[i] BY <2>1 DEF Rewritten
    <3>2. LET w == Rewritten(k, r)[k] IN w.file = f /\ w.content = r.content /\ w.dead = versions[k].dead
      BY <1>5, <1>11 DEF Rewritten, Version
    <3>3. DOMAIN versions' = DOMAIN versions BY <2>1 DEF Rewritten
    <3> HIDE DEF k, Version, Rewritten
    <3> QED BY <1>5, <1>11, <2>1, <3>1, <3>2, <3>3 DEF k
  <2>3. \A g : Of(g)' = Of(g) BY <2>2 DEF Of
  <2>4. Last(f)' = Last(f) BY <2>3 DEF Last
  <2>5. HasHead(f)' /\ versions'[Last(f)'].content = r.content
    <3>1. Last(f) \in Of(f) /\ ~versions[Last(f)].dead BY <1>5, <1>11 DEF HasHead, Alive, Of
    <3>2. Of(f)' # {} /\ ~versions'[Last(f)].dead /\ versions'[Last(f)].file = f BY <1>5, <1>11, <2>2, <2>3, <3>1
    <3> QED BY <2>2, <2>4, <3>2 DEF HasHead, Alive
  <2>6. ASSUME NEW q, q.file # f, Holds(q) PROVE Holds(q)'
    <3>1. \A i \in Of(q.file) : i \in DOMAIN versions /\ i # k BY <1>5, <1>11, <2>6 DEF Of
    <3> QED BY <1>1, <2>2, <2>3, <2>6, <3>1, HoldsOn
  <2> QED BY <1>11, <2>5, <2>6 DEF Holds
<1> QED BY <1>6, <1>7, <1>8, <1>9, <1>10, <1>11

\* Of two sets of rows the smaller is as coherent.
LEMMA CoherentPart ==
    ASSUME NEW S, NEW T, T \subseteq S, Coherent(S)
    PROVE  Coherent(T)
BY DEF Coherent

LEMMA AppliedLsp == TypeInv /\ ManifestInv /\ AppliedInv /\ LspJob => AppliedInv'
<1> SUFFICES ASSUME TypeInv, ManifestInv, AppliedInv, LspJob PROVE AppliedInv' OBVIOUS
<1>1. versions \in Seq(Version) /\ \A i \in DOMAIN versions : versions[i] \in Version BY DEF TypeInv, LspTypeOK
<1>2. run.job = "lsp" => /\ LspRunOK(run) /\ Coherent(run.todo \cup run.parsed)
                         /\ \A p \in run.parsed, t \in run.todo : p.file = t.file => p.ts < t.ts
                         /\ \A p \in run.parsed : NewestIn(p, run.parsed) => Holds(p)
  BY DEF TypeInv, RunTypeOK, LspRunOK, Idle, AppliedInv
<1>3. versions' \in Seq(Version) BY LspTypes DEF TypeInv, LspTypeOK
<1>4. ASSUME run.job = "lsp", run'.todo = run.todo, run'.parsed = run.parsed, \A p \in run.parsed : Holds(p) => Holds(p)'
      PROVE  AppliedInv'
  BY <1>2, <1>4 DEF AppliedInv, NewestIn
<1>5. CASE LspStart
  <2>1. run'.todo \subseteq rows /\ run'.parsed = {} BY <1>5 DEF LspStart, Drained
  <2>2. Coherent(run'.todo \cup run'.parsed) BY <2>1, CoherentPart DEF ManifestInv
  <2> QED BY <2>1, <2>2 DEF AppliedInv, Coherent
<1>6. CASE LspApply
  <2>1. run.job = "lsp" BY <1>6 DEF LspApply
  <2>2. PICK r \in run.todo :
          /\ \A q \in run.todo : q.file = r.file => ~Earlier(q, r)
          /\ \/ run' = [run EXCEPT !.todo = @ \ {r}] /\ versions' = versions
             \/ /\ run' = [run EXCEPT !.todo = @ \ {r}, !.parsed = @ \cup {r}, !.touched = @ \cup Applied(r).ids]
                /\ versions' = Applied(r).to
    BY <1>6 DEF LspApply
  <2>3. r \in Row /\ r.file \in CodeFiles /\ run.todo \subseteq Row /\ run.parsed \subseteq Row
    BY <1>2, <2>1 DEF LspRunOK
  <2>4. run'.todo = run.todo \ {r} /\ (run'.parsed = run.parsed \/ run'.parsed = run.parsed \cup {r})
    BY <1>2, <2>1, <2>2 DEF LspRunOK
  <2>5. Coherent(run'.todo \cup run'.parsed)
    <3>1. run'.todo \cup run'.parsed \subseteq run.todo \cup run.parsed BY <2>4
    <3> QED BY <1>2, <2>1, <3>1, CoherentPart
  <2>6. \A q \in run.todo : q.file = r.file /\ q # r => r.ts < q.ts
    <3>1. Coherent(run.todo) BY <1>2, <2>1, CoherentPart
    <3> QED BY <2>2, <2>3, <3>1, OldestFirst
  <2>7. \A p \in run'.parsed, t \in run'.todo : p.file = t.file => p.ts < t.ts BY <1>2, <2>1, <2>4, <2>6
  <2>8. \A p \in run'.parsed : NewestIn(p, run'.parsed) => Holds(p)'
    <3>1. CASE versions' = versions /\ run'.parsed = run.parsed
      <4>1. \A p \in run.parsed : Holds(p)' <=> Holds(p)
        <5>1. \A g : Of(g)' = Of(g) BY <3>1 DEF Of
        <5>2. \A g : Last(g)' = Last(g) BY <5>1 DEF Last
        <5> QED BY <3>1, <5>1, <5>2 DEF Holds, HasHead, Alive
      <4> QED BY <1>2, <2>1, <3>1, <4>1
    <3>2. CASE versions' = Applied(r).to /\ run'.parsed = run.parsed \cup {r}
      <4> SUFFICES ASSUME NEW p \in run'.parsed, NewestIn(p, run'.parsed) PROVE Holds(p)' OBVIOUS
      <4>1. Holds(r)' /\ \A q : q.file # r.file /\ Holds(q) => Holds(q)' BY <1>1, <2>3, <3>2, AppliedHolds
      <4>2. CASE p.file = r.file
        <5>1. r.ts <= p.ts BY <3>2, <4>2 DEF NewestIn
        <5>2. p \notin run.parsed
          <6>1. ASSUME p \in run.parsed PROVE p.ts < r.ts BY <1>2, <2>1, <4>2, <6>1
          <6>2. \A x \in Row : x.ts \in Int BY DEF Row
          <6> QED BY <2>3, <5>1, <6>1, <6>2
        <5> QED BY <3>2, <4>1, <5>2
      <4>3. CASE p.file # r.file
        <5>1. p \in run.parsed /\ NewestIn(p, run.parsed) BY <3>2, <4>3 DEF NewestIn
        <5> QED BY <1>2, <2>1, <4>1, <4>3, <5>1
      <4> QED BY <4>2, <4>3
    <3> QED BY <1>2, <2>1, <2>2, <3>1, <3>2 DEF LspRunOK
  <2> QED BY <2>5, <2>7, <2>8 DEF AppliedInv
<1>7. CASE LspPromote
  <2>1. run.job = "lsp" BY <1>7 DEF LspPromote, Walked
  <2>2. PICK i \in run.touched : versions' = [versions EXCEPT ![i].state = "final"]
                                 /\ run' = [run EXCEPT !.touched = @ \ {i}]
    BY <1>7 DEF LspPromote
  <2>3. \A v \in Version : LET w == [v EXCEPT !.state = "final"]
                           IN w.file = v.file /\ w.dead = v.dead /\ w.content = v.content
    BY DEF Version
  <2>4. /\ DOMAIN versions' = DOMAIN versions
        /\ \A j \in DOMAIN versions : /\ versions'[j].file = versions[j].file /\ versions'[j].dead = versions[j].dead
                                      /\ versions'[j].content = versions[j].content
    <3> HIDE DEF Version
    <3> QED BY <1>1, <2>2, <2>3
  <2>5. \A g : Of(g)' = Of(g) /\ Of(g) \subseteq DOMAIN versions BY <2>4 DEF Of
  <2>6. \A p \in run.parsed : Holds(p) => Holds(p)' BY <1>1, <1>3, <2>4, <2>5, HoldsOn
  <2> QED BY <1>2, <1>4, <2>1, <2>2, <2>6 DEF LspRunOK
<1>8. CASE LspFallback
  <2>1. run.job = "lsp" BY <1>8 DEF LspFallback, Walked
  <2>2. PICK f \in Unparsed :
          /\ versions' = IF HasHead(f)
                         THEN Append(versions, [file |-> f, content |-> Empty, at |-> clock, state |-> "new",
                                                dead |-> TRUE, comment |-> NoSpan])
                         ELSE versions
          /\ run' = [run EXCEPT !.planned = {r \in @ : r.file # f}]
    BY <1>8 DEF LspFallback
  <2>3. \A p \in run.parsed : p.file # f BY DEF Unparsed
  <2>4. \A g : g # f => Of(g)' = Of(g) /\ \A i \in Of(g) : versions'[i] = versions[i]
    BY <1>1, <2>2 DEF Of
  <2>5. \A p \in run.parsed : Holds(p) => Holds(p)' BY <1>1, <1>3, <2>3, <2>4, HoldsOn
  <2> QED BY <1>2, <1>4, <2>1, <2>2, <2>5 DEF LspRunOK
<1>9. CASE LspSave BY <1>9 DEF LspSave, Idle, AppliedInv
<1>10. CASE LspCollect
  <2>1. run.job = "lsp" /\ versions' = versions /\ run' = [run EXCEPT !.step = "save"]
    BY <1>10 DEF LspCollect, LspCollectable, Walked
  <2>2. \A g : Of(g)' = Of(g) BY <2>1 DEF Of
  <2>3. \A p \in run.parsed : Holds(p) => Holds(p)' BY <1>1, <1>3, <2>1, <2>2, HoldsOn
  <2> QED BY <1>2, <1>4, <2>1, <2>3 DEF LspRunOK
<1> QED BY <1>5, <1>6, <1>7, <1>8, <1>9, <1>10 DEF LspJob, LspSteps

\* A step that starts no lsp run, and relabels versions at most, leaves AppliedInv alone.
LEMMA AppliedElsewhere ==
    ASSUME TypeInv, AppliedInv, run' = run \/ run'.job # "lsp", versions' = versions \/ Relabelled
    PROVE  AppliedInv'
<1>1. versions \in Seq(Version) /\ versions' \in Seq(Version) BY DEF TypeInv, LspTypeOK, Relabelled
<1>2. /\ DOMAIN versions' = DOMAIN versions
      /\ \A j \in DOMAIN versions : /\ versions'[j].file = versions[j].file /\ versions'[j].dead = versions[j].dead
                                    /\ versions'[j].content = versions[j].content
  BY <1>1 DEF Relabelled
<1>3. \A g : Of(g)' = Of(g) /\ Of(g) \subseteq DOMAIN versions BY <1>2 DEF Of
<1>4. \A p : Holds(p) => Holds(p)' BY <1>1, <1>2, <1>3, HoldsOn
<1> QED BY <1>4 DEF AppliedInv, NewestIn, Coherent

LEMMA StepApplied == TypeInv /\ ManifestInv /\ AppliedInv /\ [Next]_vars => AppliedInv'
<1> SUFFICES ASSUME TypeInv, ManifestInv, AppliedInv, [Next]_vars PROVE AppliedInv' OBVIOUS
<1>1. CASE World(SnapNext) BY <1>1, AppliedElsewhere DEF World, lspVars
<1>2. CASE PlansJob
  <2>1. run'.job # "lsp" BY <1>2, PlansRuns
  <2> QED BY <1>2, <2>1, AppliedElsewhere DEF PlansJob
<1>3. CASE SpanJob(SpanSteps \/ SpanChoices)
  <2>1. Relabelled /\ (run' = run \/ run'.job # "lsp") BY <1>3, SpanTypes, SpanRuns
  <2> QED BY <2>1, AppliedElsewhere
<1>4. CASE DaemonEnds BY <1>4, AppliedElsewhere DEF DaemonEnds, Idle
<1>5. CASE UNCHANGED vars BY <1>5, AppliedElsewhere DEF vars, lspVars
<1> QED BY <1>1, <1>2, <1>3, <1>4, <1>5, AppliedLsp DEF Next

\* When the lsp job saves its watermark, the symbol of each file it parsed is what the newest parsed snapshot
\* says, over brackets, overwrites, bumps, collections and crashes, and also where spans overlap.
THEOREM SavedIsApplied == Spec => SavedMeansApplied
<1>1. Init => AppliedInv BY DEF Init, LspInit, Idle, AppliedInv
<1>2. ASSUME TypeInv, AppliedInv, [Next]_vars, lspMark' # lspMark, NEW f \in {r.file : r \in run.parsed}
      PROVE  LET r == Newest({q \in run.parsed : q.file = f})
             IN IF r.content = Empty THEN ~HasHead(f) ELSE HasHead(f) /\ versions[Last(f)].content = r.content
  <2> DEFINE S == {q \in run.parsed : q.file = f}
  <2>1. run.job = "lsp"
    BY <1>2 DEF Next, vars, World, lspVars, LspJob, LspSteps, LspStart, LspApply, LspPromote, LspFallback, LspSave,
                LspCollect, PlansJob, SpanJob, DaemonEnds
  <2>2. run.parsed \subseteq Row BY <1>2, <2>1 DEF TypeInv, RunTypeOK, Idle
  <2>3. S \subseteq Row /\ S # {} BY <2>2
  <2>4. Newest(S) \in S /\ \A q \in S : q.ts <= Newest(S).ts
    <3> HIDE DEF S
    <3> QED BY <2>3, NewestThere
  <2>5. NewestIn(Newest(S), run.parsed) /\ Newest(S).file = f BY <2>4 DEF NewestIn
  <2> HIDE DEF S
  <2>6. Holds(Newest(S)) BY <1>2, <2>1, <2>5 DEF AppliedInv, NewestIn
  <2> QED BY <2>5, <2>6 DEF Holds, S
<1>3. TypeInv /\ AppliedInv /\ [Next]_vars =>
        [lspMark' # lspMark =>
           \A f \in {r.file : r \in run.parsed} :
              LET r == Newest({q \in run.parsed : q.file = f}) IN
              IF r.content = Empty THEN ~HasHead(f) ELSE HasHead(f) /\ versions[Last(f)].content = r.content]_vars
  BY <1>2
<1> QED BY InitTypes, InitManifest, StepTypes, StepManifest, StepApplied, <1>1, <1>3, PTL DEF Spec, SavedMeansApplied

-----------------------------------------------------------------------------
(* History is not rewritten.                                               *)

\* A version belongs to the span it is linked to, and only the indexing of that span seals it.
SealInv ==
    /\ \A s \in Spans : \A i \in links[s].symbols : versions[i].state # "new" /\ InWindow(s, versions[i].at)
    /\ \A p \in patches : p.seal => \E s \in Spans : span[s] = "indexed" /\ p.id \in links[s].symbols
    /\ \A i \in DOMAIN versions :
         versions[i].state = "commented" => \E s \in Spans : span[s] = "indexed" /\ i \in links[s].symbols
    /\ run.job = "lsp" => \A i \in run.touched : versions[i].state = "new"
    /\ run.job = "link" =>
         /\ \A s \in run.todo \cup run.attached : span[s] \in {"extracted", "linked"}
         /\ \A i \in run.promote : versions[i].state # "new"
    /\ run.job = "index" => \A s \in run.todo : span[s] = "linked"

\* What may become of a version: one that left `new' keeps its content and its time.
Onward ==
    /\ DOMAIN versions \subseteq DOMAIN versions'
    /\ \A i \in DOMAIN versions : versions[i].state # "new" =>
         versions'[i].content = versions[i].content /\ versions'[i].at = versions[i].at /\ versions'[i].state # "new"

\* The lsp job seals nothing, unseals nothing that is linked and touches only versions that are `new'.
LEMMA LspOnward ==
    ASSUME TypeInv, SealInv, LspJob
    PROVE  /\ Onward
           /\ \A i \in DOMAIN versions' : versions'[i].state = "commented" =>
                 i \in DOMAIN versions /\ versions[i].state = "commented"
           /\ \A i \in DOMAIN versions : versions[i].state = "commented" => versions'[i].state = "commented"
           /\ run'.job = "lsp" => \A i \in run'.touched : versions'[i].state = "new"
           /\ run'.job \in {"lsp", "none"}
<1>1. versions \in Seq(Version) /\ \A i \in DOMAIN versions : versions[i] \in Version BY DEF TypeInv, LspTypeOK
<1>2. run.job = "lsp" => LspRunOK(run) /\ \A i \in run.touched : i \in DOMAIN versions /\ versions[i].state = "new"
  BY DEF TypeInv, RunTypeOK, LspRunOK, Idle, SealInv
<1>3. ASSUME versions' = versions, run'.job = "lsp" => run.job = "lsp" /\ run'.touched = run.touched, run'.job \in {"lsp", "none"}
      PROVE  /\ Onward
             /\ \A i \in DOMAIN versions' : versions'[i].state = "commented" =>
                   i \in DOMAIN versions /\ versions[i].state = "commented"
             /\ \A i \in DOMAIN versions : versions[i].state = "commented" => versions'[i].state = "commented"
             /\ run'.job = "lsp" => \A i \in run'.touched : versions'[i].state = "new"
             /\ run'.job \in {"lsp", "none"}
  BY <1>2, <1>3 DEF Onward
<1>4. CASE LspStart BY <1>4 DEF LspStart, Onward
<1>5. CASE LspApply
  <2>1. run.job = "lsp" BY <1>5 DEF LspApply
  <2>2. PICK r \in run.todo :
          \/ run' = [run EXCEPT !.todo = @ \ {r}] /\ versions' = versions
          \/ /\ run' = [run EXCEPT !.todo = @ \ {r}, !.parsed = @ \cup {r}, !.touched = @ \cup Applied(r).ids]
             /\ versions' = Applied(r).to
    BY <1>5 DEF LspApply
  <2>3. CASE versions' = versions /\ run' = [run EXCEPT !.todo = @ \ {r}]
    BY <1>2, <1>3, <2>1, <2>3 DEF LspRunOK
  <2>4. CASE /\ run' = [run EXCEPT !.todo = @ \ {r}, !.parsed = @ \cup {r}, !.touched = @ \cup Applied(r).ids]
             /\ versions' = Applied(r).to
    <3>1. run'.job = "lsp" /\ run'.touched = run.touched \cup Applied(r).ids BY <1>2, <2>1, <2>4 DEF LspRunOK
    <3>2. CASE Applied(r).to = versions /\ Applied(r).ids = {}
      BY <1>2, <1>3, <2>1, <2>4, <3>1, <3>2
    <3>3. ASSUME NEW v, v.state = "new", versions' = Append(versions, v), Applied(r).ids = {Len(versions) + 1}
          PROVE  /\ Onward
                 /\ \A i \in DOMAIN versions' : versions'[i].state = "commented" =>
                       i \in DOMAIN versions /\ versions[i].state = "commented"
                 /\ \A i \in DOMAIN versions : versions[i].state = "commented" => versions'[i].state = "commented"
                 /\ \A i \in run'.touched : versions'[i].state = "new"
      <4>1. \A i \in DOMAIN versions : i \in DOMAIN versions' /\ versions'[i] = versions[i] BY <1>1, <3>3
      <4>2. \A i \in DOMAIN versions' : i \in DOMAIN versions \/ i = Len(versions) + 1 BY <1>1, <3>3
      <4>3. versions'[Len(versions) + 1] = v BY <1>1, <3>3
      <4> QED BY <1>2, <2>1, <3>1, <3>3, <4>1, <4>2, <4>3 DEF Onward
    <3>4. \A dead, c : Fresh(r, dead, c).state = "new" BY DEF Fresh
    <3>5. CASE /\ HasHead(r.file) /\ SameBracket(Last(r.file), r)
               /\ Applied(r).to = Rewritten(Last(r.file), r) /\ Applied(r).ids = {Last(r.file)}
      <4> DEFINE k == Last(r.file)
      <4>1. k \in DOMAIN versions /\ versions[k].state = "new" BY <1>1, <3>5, LastIsThere DEF HasHead, SameBracket
      <4>2. \A i \in DOMAIN versions : i # k => versions'[i] = versions[i] BY <2>4, <3>5 DEF Rewritten
      <4>3. versions'[k].state = "new" BY <1>1, <2>4, <3>5, <4>1 DEF Rewritten, Version
      <4>4. DOMAIN versions' = DOMAIN versions BY <2>4, <3>5 DEF Rewritten
      <4> HIDE DEF k
      <4> QED BY <1>2, <2>1, <3>1, <3>5, <4>1, <4>2, <4>3, <4>4 DEF Onward, k
    <3> QED BY <2>4, <3>1, <3>2, <3>3, <3>4, <3>5, AppliedCases, ZenonT(30)
  <2> QED BY <2>2, <2>3, <2>4
<1>6. CASE LspPromote
  <2>1. LspRunOK(run) BY <1>2, <1>6 DEF LspPromote, Walked
  <2>2. PICK k \in run.touched : versions' = [versions EXCEPT ![k].state = "final"]
                                 /\ run' = [run EXCEPT !.touched = @ \ {k}]
    BY <1>6 DEF LspPromote
  <2>3. k \in DOMAIN versions /\ versions[k].state = "new" BY <1>2, <1>6 DEF LspPromote, Walked
  <2>4. DOMAIN versions' = DOMAIN versions /\ \A i \in DOMAIN versions : i # k => versions'[i] = versions[i] BY <2>2
  <2>5. versions'[k].state = "final" BY <1>1, <2>2, <2>3 DEF Version
  <2>6. run'.job = "lsp" /\ run'.touched = run.touched \ {k} BY <2>1, <2>2 DEF LspRunOK
  <2> QED BY <1>2, <2>1, <2>3, <2>4, <2>5, <2>6 DEF Onward, LspRunOK
<1>7. CASE LspFallback
  <2>1. LspRunOK(run) BY <1>2, <1>7 DEF LspFallback, Walked
  <2>2. run'.job = "lsp" /\ run'.touched = run.touched /\ run.touched = {} BY <1>7, <2>1 DEF LspFallback, LspRunOK
  <2>3. \/ versions' = versions
        \/ \E v : v.state = "new" /\ versions' = Append(versions, v)
    BY <1>7 DEF LspFallback
  <2>4. ASSUME NEW v, v.state = "new", versions' = Append(versions, v)
        PROVE  /\ Onward
               /\ \A i \in DOMAIN versions' : versions'[i].state = "commented" =>
                     i \in DOMAIN versions /\ versions[i].state = "commented"
               /\ \A i \in DOMAIN versions : versions[i].state = "commented" => versions'[i].state = "commented"
    <3>1. \A i \in DOMAIN versions : i \in DOMAIN versions' /\ versions'[i] = versions[i] BY <1>1, <2>4
    <3>2. \A i \in DOMAIN versions' : i \in DOMAIN versions \/ i = Len(versions) + 1 BY <1>1, <2>4
    <3>3. versions'[Len(versions) + 1] = v BY <1>1, <2>4
    <3> QED BY <2>4, <3>1, <3>2, <3>3 DEF Onward
  <2> QED BY <1>3, <2>1, <2>2, <2>3, <2>4 DEF LspRunOK
<1>8. CASE LspSave BY <1>3, <1>8 DEF LspSave, Idle
<1>9. CASE LspCollect
  <2>1. LspRunOK(run) BY <1>2, <1>9 DEF LspCollect, LspCollectable, Walked
  <2> QED BY <1>3, <1>9, <2>1 DEF LspCollect, LspRunOK
<1> QED BY <1>4, <1>5, <1>6, <1>7, <1>8, <1>9 DEF LspJob, LspSteps

\* What a step of a span's own jobs does to the state of a version.
LEMMA SpanStates ==
    ASSUME TypeInv, SealInv, SpanSteps \/ SpanChoices
    PROVE  /\ Onward
           /\ \A i \in DOMAIN versions : versions'[i].state = "commented" =>
                 versions[i].state = "commented" \/ \E p \in patches : p.seal /\ p.id = i
           /\ \A i \in DOMAIN versions : versions[i].state = "new" => versions'[i].state = "new"
<1> DEFINE Goal ==
           /\ \A i \in DOMAIN versions : versions[i].state # "new" => versions'[i].state # "new"
           /\ \A i \in DOMAIN versions : versions'[i].state = "commented" =>
                 versions[i].state = "commented" \/ \E p \in patches : p.seal /\ p.id = i
           /\ \A i \in DOMAIN versions : versions[i].state = "new" => versions'[i].state = "new"
<1>1. versions \in Seq(Version) /\ \A i \in DOMAIN versions : versions[i] \in Version BY DEF TypeInv, LspTypeOK
<1>2. Relabelled BY SpanJobsRelabel
<1>3. ASSUME versions' = versions PROVE Goal BY <1>3
<1>4. ASSUME NEW k \in DOMAIN versions, Promote(k) PROVE Goal
  <2>1. \A i \in DOMAIN versions : i # k => versions'[i] = versions[i] BY <1>4 DEF Promote
  <2>2. versions'[k].state = "linked" BY <1>1, <1>4 DEF Promote, Version
  <2>3. versions[k].state # "new" BY <1>4 DEF Promote, SealInv
  <2> QED BY <2>1, <2>2, <2>3
<1>5. ASSUME NEW s \in Spans, AgentComments(s) PROVE Goal
  <2>1. PICK k : versions' = [versions EXCEPT ![k].comment = s] BY <1>5 DEF AgentComments
  <2>2. \A v \in Version : [v EXCEPT !.comment = s].state = v.state BY DEF Version
  <2>3. \A i \in DOMAIN versions : versions'[i] = IF i = k THEN [versions[i] EXCEPT !.comment = s] ELSE versions[i]
    BY <2>1
  <2>4. \A i \in DOMAIN versions : versions'[i].state = versions[i].state
    <3> HIDE DEF Version
    <3> QED BY <1>1, <2>2, <2>3
  <2> QED BY <2>4
<1>6. ASSUME NEW p \in patches, PatchLands(p) PROVE Goal
  <2>1. p.id \in DOMAIN versions BY DEF TypeInv, LinkTypeOK
  <2>2. \A i \in DOMAIN versions : i # p.id => versions'[i] = versions[i] BY <1>6 DEF PatchLands
  <2>3. versions'[p.id].state = IF p.seal THEN "commented" ELSE versions[p.id].state
    BY <1>1, <1>6, <2>1 DEF PatchLands, Version
  <2>4. p.seal => versions[p.id].state # "new" BY DEF SealInv
  <2> QED BY <2>1, <2>2, <2>3, <2>4
<1>7. \/ versions' = versions
      \/ \E k \in DOMAIN versions : Promote(k)
      \/ \E s \in Spans : AgentComments(s)
      \/ \E p \in patches : PatchLands(p)
  BY DEF SpanSteps, SpanChoices, LinkStart, LinkEnds, IndexStart, IndexEnds,
         Attach, MarkLinked, IndexSpan, CloseSpan, ProviderFails, PatchFails
<1>8. Goal
  <2> HIDE DEF Goal
  <2>1. CASE versions' = versions BY <1>3, <2>1
  <2> QED BY <1>4, <1>5, <1>6, <1>7, <2>1
<1> QED BY <1>2, <1>8 DEF Onward, Relabelled

LEMMA SealSpans ==
    ASSUME TypeInv, SealInv, SpanJob(SpanSteps \/ SpanChoices)
    PROVE  SealInv' /\ Onward
<1>1. /\ Onward /\ Relabelled
      /\ \A i \in DOMAIN versions : versions'[i].state = "commented" =>
            versions[i].state = "commented" \/ \E p \in patches : p.seal /\ p.id = i
      /\ \A i \in DOMAIN versions : versions[i].state = "new" => versions'[i].state = "new"
  BY SpanStates, SpanTypes DEF SpanJob
<1>2. DOMAIN versions' = DOMAIN versions BY <1>1 DEF Relabelled, TypeInv, LspTypeOK
<1>3. \A s \in Spans : links[s].symbols \subseteq DOMAIN versions BY DEF TypeInv, LinkTypeOK
<1>4. span \in [Spans -> {"open", "extracted", "linked", "indexed"}] BY DEF TypeInv, LspTypeOK
<1>5. run.job = "lsp" => LspRunOK(run) BY DEF TypeInv, RunTypeOK, LspRunOK, Idle
<1>6. run.job = "link" => run \in [job : {"link"}, todo : SUBSET Spans, attached : SUBSET Spans, promote : SUBSET DOMAIN versions]
  BY DEF TypeInv, RunTypeOK, Idle
<1>7. run.job = "index" => run \in [job : {"index"}, todo : SUBSET Spans]
  BY DEF TypeInv, RunTypeOK, Idle
<1>10. run.job = "link" => \A i \in run.promote : i \in DOMAIN versions /\ versions[i].state # "new"
  BY <1>6 DEF SealInv
<1>8. ASSUME \A s \in Spans : links[s].symbols \subseteq links'[s].symbols,
             \A s \in Spans : \A i \in links'[s].symbols \ links[s].symbols :
                i \in DOMAIN versions /\ versions[i].state # "new" /\ InWindow(s, versions[i].at),
             \A s \in Spans : span[s] = "indexed" => span'[s] = "indexed",
             \A p \in patches' : p.seal => p \in patches \/ \E s \in Spans : span'[s] = "indexed" /\ p.id \in links'[s].symbols,
             run'.job = "lsp" => run' = run,
             run'.job = "link" =>
                /\ \A s \in run'.todo \cup run'.attached : span'[s] \in {"extracted", "linked"}
                /\ \A i \in run'.promote : i \in DOMAIN versions /\ versions[i].state # "new",
             run'.job = "index" => \A s \in run'.todo : span'[s] = "linked"
      PROVE  SealInv'
  <2>1. \A s \in Spans : \A i \in links'[s].symbols : versions'[i].state # "new" /\ InWindow(s, versions'[i].at)
    BY <1>1, <1>3, <1>8 DEF SealInv, Onward
  <2>2. \A p \in patches' : p.seal => \E s \in Spans : span'[s] = "indexed" /\ p.id \in links'[s].symbols
    BY <1>8 DEF SealInv
  <2>3. \A i \in DOMAIN versions' :
         versions'[i].state = "commented" => \E s \in Spans : span'[s] = "indexed" /\ i \in links'[s].symbols
    BY <1>1, <1>2, <1>8 DEF SealInv
  <2>4. run'.job = "lsp" => \A i \in run'.touched : versions'[i].state = "new"
    BY <1>1, <1>5, <1>8 DEF SealInv, LspRunOK
  <2>5. run'.job = "link" => \A i \in run'.promote : versions'[i].state # "new" BY <1>1, <1>8 DEF Onward
  <2> QED BY <1>8, <2>1, <2>2, <2>3, <2>4, <2>5 DEF SealInv, InWindow
<1>9. SealInv'
  <2>1. CASE LinkStart BY <1>8, <2>1 DEF LinkStart, ToLink
  <2>2. CASE LinkEnds \/ IndexEnds BY <1>8, <2>2 DEF LinkEnds, IndexEnds, Idle
  <2>3. CASE IndexStart BY <1>8, <2>3 DEF IndexStart
  <2>4. ASSUME NEW s \in Spans, Attach(s) PROVE SealInv'
    <3>1. /\ \A q \in Spans : q # s => links'[q] = links[q]
          /\ links'[s].symbols = links[s].symbols \cup Wanted(s).symbols
      BY <2>4 DEF Attach, TypeInv, LinkTypeOK
    <3>2. \A i \in Wanted(s).symbols : i \in DOMAIN versions /\ versions[i].state # "new" /\ InWindow(s, versions[i].at)
      BY DEF Wanted, Touched, Born
    <3>3. /\ run'.job = "link" /\ run'.todo = run.todo /\ run'.attached = {s} /\ s \in run.todo /\ run.job = "link"
          /\ run'.promote = Wanted(s).symbols
      BY <1>6, <2>4 DEF Attach
    <3>4. \A q \in run'.todo \cup run'.attached : span[q] \in {"extracted", "linked"} BY <3>3 DEF SealInv
    <3> QED BY <1>8, <2>4, <3>1, <3>2, <3>3, <3>4 DEF Attach
  <2>5. ASSUME NEW s \in Spans, MarkLinked(s) PROVE SealInv'
    <3>1. /\ run.job = "link" /\ run'.job = "link" /\ run'.todo \subseteq run.todo /\ run'.attached = {}
          /\ run'.promote = {}
      BY <1>6, <2>5 DEF MarkLinked
    <3>2. span[s] # "indexed" BY <2>5 DEF MarkLinked, SealInv
    <3>3. \A q \in Spans : span'[q] = IF q = s THEN "linked" ELSE span[q] BY <1>4, <2>5 DEF MarkLinked
    <3>4. \A q \in run.todo : q \in Spans /\ span[q] \in {"extracted", "linked"} BY <1>6, <3>1 DEF SealInv
    <3>5. \A q \in Spans : links'[q].symbols = links[q].symbols BY <2>5 DEF MarkLinked, TypeInv, LinkTypeOK
    <3> QED BY <1>8, <2>5, <3>1, <3>2, <3>3, <3>4, <3>5 DEF MarkLinked
  <2>11. ASSUME NEW k \in DOMAIN versions, Promote(k) PROVE SealInv'
    <3>1. /\ run.job = "link" /\ run'.job = "link" /\ run'.todo = run.todo /\ run'.attached = run.attached
          /\ run'.promote = run.promote \ {k}
      BY <1>6, <2>11 DEF Promote
    <3> QED BY <1>8, <1>10, <2>11, <3>1 DEF Promote, SealInv
  <2>6. ASSUME NEW s \in Spans, IndexSpan(s) PROVE SealInv'
    <3>1. run.job = "index" /\ run'.job = "index" /\ run'.todo = run.todo \ {s}
      BY <1>7, <2>6 DEF IndexSpan, Prompted
    <3>2. \A q \in Spans : span'[q] = IF q = s THEN "indexed" ELSE span[q] BY <1>4, <2>6 DEF IndexSpan
    <3>3. \A q \in run.todo : q \in Spans /\ span[q] = "linked" BY <1>7, <3>1 DEF SealInv
    <3>4. \A p \in Seals(s) : p.seal => p.id \in links[s].symbols BY DEF Seals, ToSeal
    <3> QED BY <1>8, <2>6, <3>1, <3>2, <3>3, <3>4 DEF IndexSpan
  <2>7. ASSUME NEW p \in patches, PatchLands(p) \/ PatchFails(p) PROVE SealInv'
    BY <1>8, <1>10, <2>7 DEF PatchLands, PatchFails, SealInv
  <2>8. ASSUME NEW s \in Spans, CloseSpan(s) PROVE SealInv'
    <3>1. \A q \in Spans : span'[q] = IF q = s THEN "extracted" ELSE span[q] BY <1>4, <2>8 DEF CloseSpan
    <3> QED BY <1>8, <1>10, <2>8, <3>1 DEF CloseSpan, Idle
  <2>9. ASSUME NEW s \in Spans, AgentComments(s) PROVE SealInv' BY <1>8, <1>10, <2>9 DEF AgentComments, SealInv
  <2>10. ASSUME NEW s \in Spans, ProviderFails(s) PROVE SealInv'
    <3>1. run.job = "index" /\ run'.job = "index" /\ run'.todo \subseteq run.todo
      BY <1>7, <2>10 DEF ProviderFails, Prompted
    <3> QED BY <1>8, <2>10, <3>1 DEF ProviderFails, SealInv
  <2> QED BY <2>1, <2>2, <2>3, <2>4, <2>5, <2>6, <2>7, <2>8, <2>9, <2>10, <2>11 DEF SpanJob, SpanSteps, SpanChoices
<1> QED BY <1>1, <1>9

LEMMA StepSealed ==
    ASSUME TypeInv, SealInv, [Next]_vars
    PROVE  SealInv' /\ Onward
<1>1. ASSUME versions' = versions, span' = span, links' = links, patches' = patches \/ patches' = {},
             run' = run \/ run'.job \in {"none", "plans"}
      PROVE  SealInv' /\ Onward
  BY <1>1 DEF SealInv, Onward, InWindow
<1>2. CASE World(SnapNext) BY <1>1, <1>2 DEF World, lspVars
<1>3. CASE LspJob
  <2>1. /\ Onward
        /\ \A i \in DOMAIN versions' : versions'[i].state = "commented" => i \in DOMAIN versions /\ versions[i].state = "commented"
        /\ run'.job = "lsp" => \A i \in run'.touched : versions'[i].state = "new"
        /\ run'.job \in {"lsp", "none"}
    BY <1>3, LspOnward
  <2>2. span' = span BY <1>3 DEF LspJob, LspSteps, LspStart, LspApply, LspPromote, LspFallback, LspSave, LspCollect
  <2>3. \A s \in Spans : links[s].symbols \subseteq DOMAIN versions BY DEF TypeInv, LinkTypeOK
  <2>4. links' = links /\ patches' = patches BY <1>3 DEF LspJob
  <2>5. \A s \in Spans : \A i \in links'[s].symbols : versions'[i].state # "new" /\ InWindow(s, versions'[i].at)
    BY <2>1, <2>3, <2>4 DEF SealInv, Onward
  <2> QED BY <2>1, <2>2, <2>4, <2>5 DEF SealInv, InWindow
<1>4. CASE PlansJob
  <2>1. run'.job \in {"none", "plans"} BY <1>4, PlansRuns
  <2> QED BY <1>1, <1>4, <2>1 DEF PlansJob
<1>5. CASE SpanJob(SpanSteps \/ SpanChoices) BY <1>5, SealSpans
<1>6. CASE DaemonEnds BY <1>1, <1>6 DEF DaemonEnds, Idle
<1>7. CASE UNCHANGED vars BY <1>1, <1>7 DEF vars, lspVars
<1> QED BY <1>2, <1>3, <1>4, <1>5, <1>6, <1>7 DEF Next

LEMMA InitSealed == Init => SealInv
BY DEF Init, LspInit, Idle, SealInv

\* A version is never lost, and one that left `new' keeps its content and time and is not `new' again: no snapshot,
\* run, repair, late comment or restart takes back what was promoted, also where spans overlap.
THEOREM VersionsAreKept == Spec => FrozenOnceFinal
<1>1. TypeInv /\ SealInv /\ [Next]_vars =>
        SealInv' /\ [/\ DOMAIN versions \subseteq DOMAIN versions'
                     /\ \A i \in DOMAIN versions : versions[i].state # "new" =>
                          /\ versions'[i].content = versions[i].content /\ versions'[i].at = versions[i].at
                          /\ versions'[i].state # "new"]_versions
  BY StepSealed DEF Onward
<1> QED BY InitTypes, StepTypes, InitSealed, <1>1, PTL DEF Spec, FrozenOnceFinal

-----------------------------------------------------------------------------
(* The way of a span.                                                      *)

\* What a span may become in one step.
Follows == [open |-> {"open", "extracted"}, extracted |-> {"extracted", "linked"},
            linked |-> {"linked", "indexed"}, indexed |-> {"indexed"}]

LEMMA StepSpan ==
    ASSUME TypeInv, SealInv, [Next]_vars, NEW s \in Spans
    PROVE  span'[s] \in Follows[span[s]]
<1>1. span \in [Spans -> {"open", "extracted", "linked", "indexed"}] BY DEF TypeInv, LspTypeOK
<1>2. CASE span' = span BY <1>1, <1>2 DEF Follows
<1>3. CASE LspJob
  <2>1. span' = span BY <1>3 DEF LspJob, LspSteps, LspStart, LspApply, LspPromote, LspFallback, LspSave, LspCollect
  <2> QED BY <1>2, <2>1
<1>4. CASE SpanJob(SpanSteps \/ SpanChoices)
  <2>1. ASSUME NEW q \in Spans, CloseSpan(q) PROVE span'[s] \in Follows[span[s]]
    <3>1. span[q] = "open" /\ span'[s] = IF s = q THEN "extracted" ELSE span[s] BY <1>1, <2>1 DEF CloseSpan
    <3> QED BY <1>1, <3>1 DEF Follows
  <2>2. ASSUME NEW q \in Spans, MarkLinked(q) PROVE span'[s] \in Follows[span[s]]
    <3>1. span[q] \in {"extracted", "linked"} BY <2>2 DEF MarkLinked, SealInv
    <3>2. span'[s] = IF s = q THEN "linked" ELSE span[s] BY <1>1, <2>2 DEF MarkLinked
    <3> QED BY <1>1, <3>1, <3>2 DEF Follows
  <2>3. ASSUME NEW q \in Spans, IndexSpan(q) PROVE span'[s] \in Follows[span[s]]
    <3>1. span[q] = "linked" BY <2>3 DEF IndexSpan, Prompted, SealInv
    <3>2. span'[s] = IF s = q THEN "indexed" ELSE span[s] BY <1>1, <2>3 DEF IndexSpan
    <3> QED BY <1>1, <3>1, <3>2 DEF Follows
  <2> QED
    BY <1>2, <1>4, <2>1, <2>2, <2>3
    DEF SpanJob, SpanSteps, SpanChoices, LinkStart, LinkEnds, IndexStart, IndexEnds, Attach, Promote, AgentComments,
        ProviderFails, PatchLands, PatchFails
<1> QED BY <1>2, <1>3, <1>4 DEF Next, vars, World, lspVars, PlansJob, DaemonEnds

\* A span is closed, linked and indexed in this order, no step is left out and none is taken back: not by the repair of
\* a span that is already linked, nor by two jobs that both found it, nor by a crash between the link and the mark
\* (linkSpans, runIndexer).
THEOREM SpansOnlyAdvance == Spec => [][\A s \in Spans : span'[s] \in Follows[span[s]]]_span
<1>1. TypeInv /\ SealInv /\ [Next]_vars => SealInv' /\ [\A s \in Spans : span'[s] \in Follows[span[s]]]_span
  BY StepSealed, StepSpan
<1> QED BY InitTypes, StepTypes, InitSealed, <1>1, PTL DEF Spec

\* A span is linked to versions that had left `new' and were born inside it, and goes on naming such: nothing that
\* happens later to a linked version moves it out of the span.  What is sealed was in a span that has been indexed,
\* also where spans overlap (linkSpans, sealAndPropagateComments).
THEOREM SealedWereShown ==
    Spec => [](/\ \A s \in Spans : \A i \in links[s].symbols : versions[i].state # "new" /\ InWindow(s, versions[i].at)
               /\ \A i \in DOMAIN versions : versions[i].state = "commented" =>
                     \E s \in Spans : span[s] = "indexed" /\ i \in links[s].symbols)
<1>1. SealInv => /\ \A s \in Spans : \A i \in links[s].symbols : versions[i].state # "new" /\ InWindow(s, versions[i].at)
                 /\ \A i \in DOMAIN versions : versions[i].state = "commented" =>
                       \E s \in Spans : span[s] = "indexed" /\ i \in links[s].symbols
  BY DEF SealInv
<1>2. TypeInv /\ SealInv /\ [Next]_vars => SealInv' BY StepSealed
<1> QED BY InitTypes, StepTypes, InitSealed, <1>1, <1>2, PTL DEF Spec

-----------------------------------------------------------------------------
(* The symbols of the files have the history that the store promises.     *)

\* The versions of a symbol up to one of them, the first of which names the timeline.
Upto(i) == {j \in DOMAIN versions : SameLine(i, j) /\ j <= i}
Opening(i) == CHOOSE j \in Upto(i) : \A k \in Upto(i) : j <= k
VersionOf(i) == [timeline |-> Opening(i), version |-> Cardinality(Upto(i)), live |-> Alive(i)]

SymbolHistory == INSTANCE Timelines WITH Timeline <- Nat, versions <- {VersionOf(i) : i \in DOMAIN versions}

\* A step that changes no version's file and end, and one that adds a version: a deletion only of a symbol that is there.
KeepsLines ==
    /\ versions' \in Seq(Version) /\ DOMAIN versions' = DOMAIN versions
    /\ \A i \in DOMAIN versions : versions'[i].file = versions[i].file /\ versions'[i].dead = versions[i].dead
AddsVersion(v) == v \in Version /\ versions' = Append(versions, v) /\ (v.dead => HasHead(v.file))

LEMMA AppliedLines ==
    ASSUME versions \in Seq(Version), NEW r \in Row, r.file \in CodeFiles, versions' = Applied(r).to
    PROVE  KeepsLines \/ \E v : AddsVersion(v)
<1> DEFINE f == r.file
<1>1. \A dead \in BOOLEAN, c \in Spans \cup {NoSpan} :
        Fresh(r, dead, c) \in Version /\ Fresh(r, dead, c).file = f /\ Fresh(r, dead, c).dead = dead
  BY DEF Fresh, Version, Row, States
<1>2. ASSUME NEW dead \in BOOLEAN, NEW c \in Spans \cup {NoSpan}, versions' = Append(versions, Fresh(r, dead, c)),
             dead => HasHead(f)
      PROVE  \E v : AddsVersion(v)
  <2> DEFINE v == Fresh(r, dead, c)
  <2>1. v \in Version /\ v.file = f /\ v.dead = dead BY <1>1
  <2>2. versions' = Append(versions, v) BY <1>2
  <2> HIDE DEF v
  <2>3. AddsVersion(v) BY <1>2, <2>1, <2>2 DEF AddsVersion
  <2> QED BY <2>3
<1>3. CASE versions' = versions BY <1>3 DEF KeepsLines
<1>4. HasHead(f) => Last(f) \in DOMAIN versions /\ versions[Last(f)] \in Version BY LastIsThere DEF HasHead
<1>5. CASE ~HasHead(f) /\ r.content # Empty
  <2>1. versions' = Append(versions, Fresh(r, FALSE, NoSpan)) BY <1>5 DEF Applied
  <2> QED BY <1>2, <2>1
<1>6. CASE HasHead(f) /\ r.content = Empty
  <2>1. versions' = Append(versions, Fresh(r, TRUE, NoSpan)) BY <1>6 DEF Applied
  <2> QED BY <1>2, <1>6, <2>1
<1>7. CASE \/ ~HasHead(f) /\ r.content = Empty
           \/ HasHead(f) /\ r.content # Empty /\ r.content = versions[Last(f)].content
  <2>1. versions' = versions BY <1>7 DEF Applied
  <2> QED BY <1>3, <2>1
<1>8. CASE HasHead(f) /\ r.content # Empty /\ r.content # versions[Last(f)].content /\ ~SameBracket(Last(f), r)
  <2>1. versions' = Append(versions, Fresh(r, FALSE, versions[Last(f)].comment)) BY <1>8 DEF Applied
  <2>2. versions[Last(f)].comment \in Spans \cup {NoSpan} BY <1>4, <1>8 DEF Version
  <2> QED BY <1>2, <2>1, <2>2
<1>9. CASE HasHead(f) /\ r.content # Empty /\ r.content # versions[Last(f)].content /\ SameBracket(Last(f), r)
  <2> DEFINE k == Last(f)
  <2>1. versions' = Rewritten(k, r) BY <1>9 DEF Applied
  <2>2. versions' \in Seq(Version) BY AppliedType
  <2>3. DOMAIN versions' = DOMAIN versions /\ \A i \in DOMAIN versions : i # k => versions'[i] = versions[i]
    BY <2>1 DEF Rewritten
  <2>4. versions'[k].file = versions[k].file /\ versions'[k].dead = versions[k].dead
    BY <1>4, <1>9, <2>1 DEF Rewritten, Version
  <2> HIDE DEF k
  <2> QED BY <2>2, <2>3, <2>4 DEF KeepsLines
<1> QED BY <1>5, <1>6, <1>7, <1>8, <1>9

\* No step of the pipeline does anything else to the versions.
LEMMA StepLines == TypeInv /\ [Next]_vars => KeepsLines \/ \E v : AddsVersion(v)
<1> SUFFICES ASSUME TypeInv, [Next]_vars PROVE KeepsLines \/ \E v : AddsVersion(v) OBVIOUS
<1>1. versions \in Seq(Version) BY DEF TypeInv, LspTypeOK
<1>2. CASE versions' = versions BY <1>1, <1>2 DEF KeepsLines
<1>3. run.job = "lsp" => LspRunOK(run) BY DEF TypeInv, RunTypeOK, LspRunOK, Idle
<1>4. CASE LspApply /\ versions' # versions
  <2>1. PICK r \in run.todo : versions' = Applied(r).to BY <1>4 DEF LspApply
  <2>2. r \in Row /\ r.file \in CodeFiles BY <1>3, <1>4 DEF LspApply, LspRunOK
  <2> QED BY <1>1, <2>1, <2>2, AppliedLines
<1>5. CASE LspPromote
  <2>1. PICK k \in run.touched : versions' = [versions EXCEPT ![k].state = "final"] BY <1>5 DEF LspPromote
  <2>2. \A v \in Version : LET w == [v EXCEPT !.state = "final"]
                           IN w \in Version /\ w.file = v.file /\ w.dead = v.dead
    BY DEF Version, States
  <2>3. \A i \in DOMAIN versions : versions[i] \in Version BY <1>1
  <2>4. DOMAIN versions' = DOMAIN versions /\ versions' = [i \in DOMAIN versions |-> versions'[i]] BY <2>1
  <2>5. \A i \in DOMAIN versions : versions'[i] \in Version /\ versions'[i].file = versions[i].file
                                   /\ versions'[i].dead = versions[i].dead
    <3> HIDE DEF Version
    <3> QED BY <2>1, <2>2, <2>3
  <2>6. versions' \in Seq(Version) BY <1>1, <2>4, <2>5, ReplaceType
  <2> QED BY <2>4, <2>5, <2>6 DEF KeepsLines
<1>6. CASE LspFallback /\ versions' # versions
  <2>1. PICK f \in Unparsed : /\ HasHead(f)
                              /\ versions' = Append(versions, [file |-> f, content |-> Empty, at |-> clock, state |-> "new",
                                                               dead |-> TRUE, comment |-> NoSpan])
    BY <1>6 DEF LspFallback
  <2>2. f \in CodeFiles
    <3>1. Last(f) \in DOMAIN versions /\ versions[Last(f)].file = f BY <1>1, <2>1, LastIsThere DEF HasHead
    <3>2. \A v \in Version : v.file \in CodeFiles BY DEF Version
    <3> HIDE DEF Version
    <3> QED BY <1>1, <3>1, <3>2
  <2>3. clock \in 0..MaxTime BY DEF TypeInv, SnapTypeOK
  <2> DEFINE v == [file |-> f, content |-> Empty, at |-> clock, state |-> "new", dead |-> TRUE, comment |-> NoSpan]
  <2>4. v \in Version BY <2>2, <2>3 DEF Version, States
  <2>5. v.file = f OBVIOUS
  <2> HIDE DEF v
  <2>6. AddsVersion(v) BY <2>1, <2>4, <2>5 DEF AddsVersion, v
  <2> QED BY <2>6
<1>7. CASE LspJob
  <2>1. versions' = versions \/ LspApply \/ LspPromote \/ LspFallback
    BY <1>7 DEF LspJob, LspSteps, LspStart, LspSave, LspCollect
  <2> QED BY <1>2, <1>4, <1>5, <1>6, <2>1
<1>8. CASE SpanJob(SpanSteps \/ SpanChoices)
  <2>1. Relabelled BY <1>8, SpanJobsRelabel DEF SpanJob
  <2> QED BY <1>1, <2>1 DEF Relabelled, KeepsLines
<1> QED BY <1>2, <1>7, <1>8 DEF Next, vars, World, lspVars, PlansJob, DaemonEnds

\* A version is one of its own line, whose first version is of the same file.
LEMMA LineOf ==
    ASSUME versions \in Seq(Version), NEW i \in DOMAIN versions
    PROVE  /\ i \in Upto(i) /\ Upto(i) \subseteq 1..i /\ IsFiniteSet(Upto(i))
           /\ Opening(i) \in Upto(i) /\ Opening(i) \in DOMAIN versions
           /\ versions[Opening(i)].file = versions[i].file
<1>1. i \in Nat /\ DOMAIN versions \subseteq Nat \ {0} OBVIOUS
<1>2. i \in Upto(i) BY <1>1 DEF Upto, SameLine
<1>3. Upto(i) \subseteq 1..i BY <1>1 DEF Upto
<1>4. IsFiniteSet(Upto(i))
  <2>1. IsFiniteSet(1..i) BY <1>1, FS_Interval
  <2> QED BY <1>3, <2>1, FS_Subset
<1>5. Opening(i) \in Upto(i)
  <2>1. \E x \in Upto(i) : \A y \in Upto(i) : x <= y
    <3>1. Upto(i) \in SUBSET Nat BY <1>3
    <3> QED BY <1>2, <3>1, HasLeast
  <2> QED BY <2>1 DEF Opening
<1> QED BY <1>2, <1>3, <1>4, <1>5 DEF Upto, SameLine

\* Steps that keep the lines keep the history.
LEMMA KeptHistory ==
    ASSUME versions \in Seq(Version), KeepsLines
    PROVE  {VersionOf(i) : i \in DOMAIN versions}' = {VersionOf(i) : i \in DOMAIN versions}
<1>1. \A f : Of(f)' = Of(f) BY DEF KeepsLines, Of
<1>2. \A f : Last(f)' = Last(f) BY <1>1 DEF Last
<1>3. \A i \in DOMAIN versions : Alive(i)' = Alive(i) BY <1>2 DEF Alive, KeepsLines
<1>4. \A i, j \in DOMAIN versions : SameLine(i, j)' <=> SameLine(i, j)
  <2>1. \A f : \A k \in Of(f) : versions'[k].dead = versions[k].dead BY DEF KeepsLines, Of
  <2> QED BY <1>1, <2>1 DEF SameLine, KeepsLines
<1>5. \A i \in DOMAIN versions : Upto(i)' = Upto(i) BY <1>4 DEF Upto, KeepsLines
<1>6. \A i \in DOMAIN versions : Opening(i)' = Opening(i) BY <1>5 DEF Opening
<1>7. \A i \in DOMAIN versions : VersionOf(i)' = VersionOf(i) BY <1>3, <1>5, <1>6 DEF VersionOf
<1> QED BY <1>7 DEF KeepsLines

\* A version that is added leaves the older ones where they are, but hides the symbol's last.
LEMMA OlderLines ==
    ASSUME versions \in Seq(Version), NEW v, AddsVersion(v), NEW i \in DOMAIN versions
    PROVE  /\ Upto(i)' = Upto(i) /\ Opening(i)' = Opening(i)
           /\ Alive(i)' = (Alive(i) /\ versions[i].file # v.file)
<1> DEFINE n == Len(versions) + 1
<1>1. /\ n \in Nat /\ DOMAIN versions = 1..Len(versions) /\ DOMAIN versions' = DOMAIN versions \cup {n}
      /\ \A j \in DOMAIN versions : versions'[j] = versions[j] /\ j \in Nat /\ j < n
      /\ versions'[n] = v
  BY DEF AddsVersion
<1>2. Last(v.file)' = n /\ \A f : f # v.file => Of(f)' = Of(f) BY AfterAppend DEF AddsVersion
<1>3. \A f : Of(f) \subseteq Of(f)' /\ Of(f)' \subseteq Of(f) \cup {n} /\ Of(f) \subseteq DOMAIN versions BY <1>1 DEF Of
<1> HIDE DEF n
<1>4. ASSUME NEW j \in DOMAIN versions PROVE SameLine(i, j)' <=> SameLine(i, j)
  <2>0. PICK f : f = versions[i].file OBVIOUS
  <2>1. versions'[i].file = f /\ versions'[j].file = versions[j].file BY <1>1, <2>0
  <2>2. \A k \in Of(f) : versions'[k].dead = versions[k].dead BY <1>1, <1>3
  <2>3. ~ (n < i) /\ ~ (n < j) BY <1>1
  <2>4. (\A k \in Of(f)' : versions'[k].dead => (k < i <=> k < j)) <=> (\A k \in Of(f) : versions[k].dead => (k < i <=> k < j))
    <3>1. \A k \in Of(f) : k \in Of(f)' BY <1>3
    <3>2. \A k \in Of(f)' : k \in Of(f) \/ (k = n /\ (k < i <=> k < j)) BY <1>3, <2>3
    <3> QED BY <2>2, <3>1, <3>2
  <2> QED BY <2>0, <2>1, <2>4 DEF SameLine
<1>5. Upto(i)' = Upto(i)
  <2>1. ~ (n <= i) BY <1>1
  <2> QED BY <1>1, <1>4, <2>1 DEF Upto
<1>6. Alive(i)' <=> Alive(i) /\ versions[i].file # v.file
  <2>1. versions'[i] = versions[i] /\ i # n BY <1>1
  <2>2. CASE versions[i].file = v.file BY <1>2, <2>1, <2>2 DEF Alive
  <2>3. CASE versions[i].file # v.file
    <3>1. \A f : f # v.file => Last(f)' = Last(f) BY <1>2 DEF Last
    <3> QED BY <2>1, <2>3, <3>1 DEF Alive
  <2> QED BY <2>2, <2>3
<1>7. Alive(i)' \in BOOLEAN BY DEF Alive
<1> QED BY <1>5, <1>6, <1>7 DEF Opening

\* A version of a file without a symbol begins a line; one of a file with a symbol goes on with that one's.
LEMMA NewLine ==
    ASSUME versions \in Seq(Version), NEW v, AddsVersion(v), NEW n, n = Len(versions) + 1
    PROVE  /\ Alive(n)' <=> ~v.dead
           /\ ~HasHead(v.file) => Upto(n)' = {n}
           /\ HasHead(v.file) => Upto(n)' = Upto(Last(v.file)) \cup {n}
<1> DEFINE f == v.file
           l == Last(f)
<1>1. /\ n \in Nat /\ DOMAIN versions = 1..Len(versions) /\ DOMAIN versions' = DOMAIN versions \cup {n}
      /\ \A j \in DOMAIN versions : versions'[j] = versions[j] /\ j \in Nat /\ j < n
      /\ versions'[n] = v
  BY DEF AddsVersion
<1>2. Last(f)' = n BY AfterAppend DEF AddsVersion
<1>3. Alive(n)' <=> ~v.dead BY <1>1, <1>2 DEF Alive
<1>4. Of(f)' = Of(f) \cup {n} /\ Of(f) \subseteq DOMAIN versions /\ n \notin DOMAIN versions BY <1>1 DEF Of
<1>5. Of(f) # {} => l \in Of(f) /\ \A j \in Of(f) : j <= l
  <2>1. Of(f) # {} => \E i \in Of(f) : \A j \in Of(f) : j <= i
    <3>1. Of(f) \in SUBSET (0..Len(versions)) /\ Len(versions) \in Nat BY <1>1, <1>4
    <3> QED BY <3>1, HasGreatest
  <2> QED BY <2>1 DEF Last
<1>6. HasHead(f) <=> Of(f) # {} /\ ~versions[l].dead BY HeadIs
<1>7. n \in Upto(n)' BY <1>1 DEF Upto, SameLine
<1>8. \A j \in DOMAIN versions : SameLine(n, j)' <=>
        j \in Of(f) /\ \A k \in Of(f) : versions[k].dead => k < j
  <2> SUFFICES ASSUME NEW j \in DOMAIN versions
               PROVE  SameLine(n, j)' <=> j \in Of(f) /\ \A k \in Of(f) : versions[k].dead => k < j
    OBVIOUS
  <2>1. versions'[n].file = f /\ versions'[j].file = versions[j].file BY <1>1
  <2>2. \A k \in Of(f) : k < n /\ versions'[k].dead = versions[k].dead BY <1>1, <1>4
  <2>3. ~ (n < n) /\ ~ (n < j) BY <1>1
  <2>4. (\A k \in Of(f)' : versions'[k].dead => (k < n <=> k < j)) <=> (\A k \in Of(f) : versions[k].dead => k < j)
    BY <1>4, <2>2, <2>3
  <2> QED BY <2>1, <2>4 DEF SameLine, Of
<1>9. Upto(n)' = {n} \cup {j \in Of(f) : \A k \in Of(f) : versions[k].dead => k < j}
  <2>1. \A j \in DOMAIN versions : j <= n BY <1>1
  <2>2. Upto(n)' = {n} \cup {j \in DOMAIN versions : SameLine(n, j)'} BY <1>1, <1>7, <2>1 DEF Upto
  <2> QED BY <1>4, <1>8, <2>2
<1>10. ASSUME ~HasHead(f) PROVE Upto(n)' = {n}
  <2>1. Of(f) # {} => versions[l].dead BY <1>6, <1>10
  <2>2. \A j \in Of(f) : j \in Nat /\ l \in Nat /\ ~ (l < j) BY <1>1, <1>4, <1>5
  <2>3. {j \in Of(f) : \A k \in Of(f) : versions[k].dead => k < j} = {} BY <1>5, <2>1, <2>2
  <2> QED BY <1>9, <2>3
<1>11. ASSUME HasHead(f) PROVE Upto(n)' = Upto(l) \cup {n}
  <2>1. l \in Of(f) /\ ~versions[l].dead BY <1>5, <1>6, <1>11
  <2>2. \A k \in Of(f) : k \in Nat /\ k <= l /\ (versions[k].dead => k < l) BY <1>1, <1>4, <1>5, <2>1
  <2>3. versions[l].file = f BY <2>1 DEF Of
  <2>4. \A j \in DOMAIN versions : SameLine(l, j) <=> j \in Of(f) /\ \A k \in Of(f) : versions[k].dead => k < j
    BY <2>2, <2>3 DEF SameLine, Of
  <2>5. Upto(l) = {j \in Of(f) : \A k \in Of(f) : versions[k].dead => k < j}
    BY <1>4, <2>2, <2>4 DEF Upto
  <2> QED BY <1>9, <2>5
<1> QED BY <1>3, <1>10, <1>11

\* It opens a timeline, or it supersedes the one live version of the timeline it goes on with.
LEMMA AddedHistory ==
    ASSUME versions \in Seq(Version), NEW v, AddsVersion(v), NEW n, n = Len(versions) + 1, NEW l, l = Last(v.file)
    PROVE  SymbolHistory!Next
<1> DEFINE f == v.file
           D == DOMAIN versions
           H == {VersionOf(i) : i \in D}
<1>1. n \in Nat /\ D = 1..Len(versions) /\ DOMAIN versions' = D \cup {n} /\ n \notin D BY DEF AddsVersion
<1>2. H' = {VersionOf(i)' : i \in D} \cup {VersionOf(n)'} BY <1>1
<1>3. \A i \in D : VersionOf(i) = [timeline |-> Opening(i), version |-> Cardinality(Upto(i)), live |-> Alive(i)]
  BY DEF VersionOf
<1>4. \A i \in D : versions[i].file # f => VersionOf(i)' = VersionOf(i)
  <2>1. \A i \in D : versions[i].file # f => Alive(i)' = Alive(i) BY OlderLines DEF Alive
  <2> QED BY <2>1, OlderLines DEF VersionOf
<1>5. \A i \in D : versions[i].file = f =>
        VersionOf(i)' = [timeline |-> Opening(i), version |-> Cardinality(Upto(i)), live |-> FALSE]
  BY OlderLines DEF VersionOf
<1>6. \A i \in D : ~Alive(i) => Alive(i) = FALSE BY DEF Alive
<1>7. \A i \in D : versions[i].file = f /\ ~Alive(i) => VersionOf(i)' = VersionOf(i) BY <1>3, <1>5, <1>6
<1>8. \A i \in D : versions[i].file = f /\ Alive(i) => HasHead(f) /\ i = l
  BY DEF Alive, HasHead, Of
<1>9. CASE ~HasHead(f)
  <2>1. ~v.dead /\ Upto(n)' = {n} /\ Alive(n)' BY <1>9, NewLine DEF AddsVersion
  <2>2. \A i \in D : VersionOf(i)' = VersionOf(i) BY <1>4, <1>7, <1>8, <1>9
  <2>3. VersionOf(n)' = [timeline |-> n, version |-> 1, live |-> TRUE]
    <3>1. Opening(n)' = n BY <1>1, <2>1 DEF Opening
    <3>2. Cardinality(Upto(n)') = 1 BY <2>1, FS_Singleton
    <3>3. Alive(n)' = TRUE BY <2>1 DEF Alive
    <3> QED BY <3>1, <3>2, <3>3 DEF VersionOf
  <2>4. n \notin {r.timeline : r \in H} BY <1>1, <1>3, LineOf
  <2>5. H' = H \cup {[timeline |-> n, version |-> 1, live |-> TRUE]} BY <1>2, <2>2, <2>3
  <2>6. SymbolHistory!Open(n)
    BY <2>4, <2>5 DEF SymbolHistory!Open, SymbolHistory!Opened, SymbolHistory!Version
  <2> QED BY <1>1, <2>6 DEF SymbolHistory!Next
<1>10. CASE HasHead(f)
  <2>1. l \in D /\ versions[l].file = f /\ Alive(l) BY <1>10, LastIsThere DEF HasHead
  <2> DEFINE t == Opening(l)
             c == Cardinality(Upto(l))
             old == [timeline |-> t, version |-> c, live |-> TRUE]
             hid == [timeline |-> t, version |-> c, live |-> FALSE]
             new == [timeline |-> t, version |-> c + 1, live |-> ~v.dead]
  <2>2. VersionOf(l) = old
    <3>1. Alive(l) = TRUE BY <2>1 DEF Alive
    <3> QED BY <1>3, <2>1, <3>1
  <2>3. VersionOf(l)' = hid BY <1>5, <2>1
  <2>4. Upto(n)' = Upto(l) \cup {n} /\ (Alive(n)' <=> ~v.dead) BY <1>10, NewLine
  <2>5. IsFiniteSet(Upto(l)) /\ Upto(l) \subseteq 1..l /\ t \in Upto(l) /\ versions[t].file = f
    BY <2>1, LineOf
  <2>6. n \notin Upto(l) /\ \A k \in Upto(l) : k < n BY <1>1, <2>1, <2>5
  <2>7. Cardinality(Upto(n)') = c + 1
    <3>1. Cardinality(Upto(l) \cup {n}) = Cardinality(Upto(l)) + 1 BY <2>5, <2>6, FS_AddElement
    <3> QED BY <2>4, <3>1
  <2>8. Opening(n)' = t
    <3>1. \A k \in Upto(l) : t <= k
      <4>1. \E x \in Upto(l) : \A y \in Upto(l) : x <= y
        <5>1. Upto(l) \in SUBSET Nat /\ Upto(l) # {} BY <2>5
        <5> QED BY <5>1, HasLeast
      <4> QED BY <4>1 DEF Opening
    <3>2. t \in Upto(n)' BY <2>4, <2>5
    <3>3. \A j \in Upto(n)' : j \in Nat /\ t <= j
      <4>1. t \in Nat /\ t < n /\ Upto(l) \subseteq Nat BY <2>5, <2>6
      <4> HIDE DEF t
      <4> QED BY <1>1, <2>4, <3>1, <4>1
    <3> HIDE DEF t
    <3>4. \A j \in Upto(n)' : (\A k \in Upto(n)' : j <= k) => j = t BY <3>2, <3>3
    <3> QED BY <3>2, <3>3, <3>4 DEF Opening
  <2>9. VersionOf(n)' = new
    <3>1. Alive(n)' = ~v.dead BY <2>4 DEF Alive
    <3> QED BY <2>7, <2>8, <3>1 DEF VersionOf
  <2>10. \A i \in D \ {l} : VersionOf(i)' = VersionOf(i) /\ VersionOf(i) # old
    <3> SUFFICES ASSUME NEW i \in D, i # l PROVE VersionOf(i)' = VersionOf(i) /\ VersionOf(i) # old OBVIOUS
    <3>1. CASE versions[i].file = f
      <4>1. ~Alive(i) BY <1>8, <3>1
      <4>2. VersionOf(i).live = FALSE BY <1>3, <1>6, <4>1
      <4> QED BY <1>7, <3>1, <4>1, <4>2
    <3>2. CASE versions[i].file # f
      <4>1. Opening(i) # t BY <2>5, <3>2, LineOf
      <4> QED BY <1>3, <1>4, <3>2, <4>1
    <3> QED BY <3>1, <3>2
  <2> HIDE DEF old, hid, new
  <2>11. old \in H BY <2>1, <2>2
  <2>12. H \ {old} = {VersionOf(i) : i \in D \ {l}} BY <2>2, <2>10
  <2>13. H' = {VersionOf(i) : i \in D \ {l}} \cup {hid, new}
    <3>1. {VersionOf(i)' : i \in D} = {VersionOf(i)' : i \in D \ {l}} \cup {VersionOf(l)'} BY <2>1
    <3>2. {VersionOf(i)' : i \in D \ {l}} = {VersionOf(i) : i \in D \ {l}} BY <2>10
    <3> QED BY <1>2, <2>3, <2>9, <3>1, <3>2
  <2>14. H' = (H \ {old}) \cup {hid, new} BY <2>12, <2>13
  <2>15. PICK live \in BOOLEAN : live = ~v.dead OBVIOUS
  <2>16. SymbolHistory!Supersede(t, c, live)
    BY <2>11, <2>14, <2>15 DEF SymbolHistory!Supersede, SymbolHistory!Version, old, hid, new
  <2>17. t \in Nat
    <3>1. Upto(l) \subseteq Nat BY <2>5
    <3> HIDE DEF t
    <3> QED BY <2>5, <3>1
  <2>18. old.version = c BY DEF old
  <2>19. \E r \in H : r.version = c BY <2>11, <2>18
  <2> QED BY <2>16, <2>17, <2>19 DEF SymbolHistory!Next
<1> QED BY <1>9, <1>10

\* The symbols of the files have the history that the store promises of a timeline: each begins with a live version
\* 1, an edit or a deletion puts one version on top of the live one and hides it, and nothing else makes a version
\* appear, disappear or come back, whatever the jobs, agents, failures and restarts do (applyFileRecordsAtSnapshot).
THEOREM SymbolsKeepTimelines == Spec => SymbolHistory!Spec
<1>1. Init => SymbolHistory!Init BY DEF Init, LspInit, SymbolHistory!Init
<1>2. TypeInv /\ [Next]_vars => [SymbolHistory!Next]_{VersionOf(i) : i \in DOMAIN versions}
  <2> SUFFICES ASSUME TypeInv, [Next]_vars
               PROVE  \/ SymbolHistory!Next
                      \/ {VersionOf(i) : i \in DOMAIN versions}' = {VersionOf(i) : i \in DOMAIN versions}
    OBVIOUS
  <2>1. versions \in Seq(Version) BY DEF TypeInv, LspTypeOK
  <2>2. ASSUME NEW v, AddsVersion(v) PROVE SymbolHistory!Next
    <3>1. PICK n, l : n = Len(versions) + 1 /\ l = Last(v.file) OBVIOUS
    <3> QED BY <2>1, <2>2, <3>1, AddedHistory
  <2> QED BY <2>1, <2>2, StepLines, KeptHistory
<1> QED BY InitTypes, StepTypes, <1>1, <1>2, PTL DEF Spec, SymbolHistory!Spec
=============================================================================
