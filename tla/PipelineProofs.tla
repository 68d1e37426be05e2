--------------------------- MODULE PipelineProofs ---------------------------
(***************************************************************************)
(* Theorems about SpanPipeline for every set of files, contents and spans, *)
(* every placement of the spans and every value of the bounds.             *)
(***************************************************************************)
EXTENDS SpanPipeline, TLAPS, FiniteSetTheorems, WellFoundedInduction

USE SnapshotAssumption, LspAssumption

-----------------------------------------------------------------------------
(* Sets of times and places.                                               *)

\* A bounded set of naturals that is not empty has a greatest element.
LEMMA HasGreatest ==
    ASSUME NEW N \in Nat, NEW S \in SUBSET (0..N), S # {}
    PROVE  \E x \in S : \A y \in S : y <= x
<1> DEFINE Above(x) == (x + 1)..N
           T == {Above(x) : x \in S}
<1>1. T \subseteq FiniteSubsetsOf(Nat)
  <2> SUFFICES ASSUME NEW x \in S PROVE IsFiniteSet(Above(x)) /\ Above(x) \in SUBSET Nat
    BY DEF FiniteSubsetsOf
  <2> QED BY FS_Interval
<1>2. PICK A \in T : \A B \in T : ~ (<<B, A>> \in StrictSubsetOrdering(Nat))
  <2>1. T # {}
    <3>1. PICK x \in S : TRUE OBVIOUS
    <3>2. Above(x) \in T OBVIOUS
    <3> HIDE DEF Above
    <3> QED BY <3>2
  <2>2. IsWellFoundedOn(StrictSubsetOrdering(Nat), FiniteSubsetsOf(Nat))
    BY FS_StrictSubsetOrderingWellFounded
  <2> HIDE DEF T
  <2> QED BY <1>1, <2>1, <2>2, WFMin
<1>3. PICK x \in S : A = Above(x) OBVIOUS
<1>4. ASSUME NEW y \in S, x < y PROVE FALSE
  <2>1. Above(y) \subseteq Above(x) /\ y \in Above(x) /\ y \notin Above(y)
    BY <1>4
  <2>2. <<Above(y), A>> \in StrictSubsetOrdering(Nat)
    BY <2>1, <1>3 DEF StrictSubsetOrdering
  <2> QED BY <1>2, <2>2
<1>5. \A y \in S : y <= x
  BY <1>4
<1> QED BY <1>5

LEMMA GreatestOf ==
    ASSUME NEW N \in Nat, NEW S \in SUBSET (0..N), S # {}
    PROVE  MaxOf(S) \in S /\ \A y \in S : y <= MaxOf(S)
BY HasGreatest DEF MaxOf

\* The last version of a file that has one.
LEMMA LastIsThere ==
    ASSUME versions \in Seq(Version), NEW f, Of(f) # {}
    PROVE  Last(f) \in DOMAIN versions /\ versions[Last(f)].file = f
<1>1. Of(f) \in SUBSET (0..Len(versions)) /\ Len(versions) \in Nat
  BY DEF Of
<1>2. \E i \in Of(f) : \A j \in Of(f) : j <= i
  BY <1>1, HasGreatest
<1>3. Last(f) \in Of(f)
  BY <1>2 DEF Last
<1> QED BY <1>3 DEF Of

-----------------------------------------------------------------------------
(* Type correctness.                                                       *)

\* What a run of each job has in memory.
RunTypeOK ==
    \/ run = Idle
    \/ run \in [job : {"lsp"}, step : {"apply", "save"}, planned : SUBSET Row, mark : 0..MaxTime,
                todo : SUBSET {r \in Row : r.file \in CodeFiles}, touched : SUBSET DOMAIN versions, parsed : SUBSET Row]
    \/ run \in [job : {"plans"}, step : {"mint", "save"}, failed : BOOLEAN, mark : 0..MaxTime,
                todo : SUBSET {r \in Row : r.file \in PlanFiles}]
    \/ run \in [job : {"link"}, todo : SUBSET Spans, attached : SUBSET Spans, promote : SUBSET DOMAIN versions]
    \/ run \in [job : {"index"}, todo : SUBSET Spans]

LinkTypeOK ==
    /\ links \in [Spans -> [symbols : SUBSET DOMAIN versions, plans : SUBSET [file : PlanFiles, at : 0..MaxTime]]]
    /\ patches \subseteq [id : DOMAIN versions, seal : BOOLEAN, comment : Spans \cup {NoSpan}]

\* The watcher reports only files that are there.
Reported == \A f \in Files : event[f] # "none" => disk[f].content # Gone

TypeInv == SnapTypeOK /\ LspTypeOK /\ PlanTypeOK /\ RunTypeOK /\ LinkTypeOK /\ Reported

\* The watcher and its surroundings keep the types of their own variables.
LEMMA SnapTypes == SnapTypeOK /\ Reported /\ SnapNext => SnapTypeOK' /\ Reported'
<1> SUFFICES ASSUME SnapTypeOK, Reported, SnapNext PROVE SnapTypeOK' /\ Reported' OBVIOUS
<1> USE DEF SnapTypeOK, Reported
<1>1. CASE Tick BY <1>1 DEF Tick
<1>2. ASSUME NEW f \in Files, OnChange(f) PROVE SnapTypeOK' /\ Reported'
  <2>1. disk[f].mtime \in 0..MaxTime /\ disk[f].content \in Contents BY <1>2 DEF OnChange
  <2>2. CASE rows' = rows BY <1>2, <2>2 DEF OnChange
  <2>3. CASE CopyOf(f)
    <3>1. [file |-> f, ts |-> clock, mtime |-> disk[f].mtime, content |-> disk[f].content, saved |-> TRUE] \in Row
      BY <2>1 DEF Row
    <3>2. rows' \subseteq Row BY <2>3, <3>1 DEF CopyOf
    <3> QED BY <1>2, <3>2 DEF OnChange
  <2> QED BY <1>2, <2>2, <2>3 DEF OnChange
<1>3. ASSUME NEW f \in Files, Remove(f) PROVE SnapTypeOK' /\ Reported'
  <2>1. written' \subseteq Moment BY <1>3 DEF Remove, Moment
  <2>2. disk' \in [Files -> [content : Contents \cup {Gone}, mtime : 0..MaxTime]] BY <1>3 DEF Remove
  <2>3. event' \in [Files -> {"none", "scan", "add", "change"}] BY <1>3 DEF Remove
  <2>4. Reported' BY <1>3 DEF Remove
  <2> QED BY <1>3, <2>1, <2>2, <2>3, <2>4 DEF Remove
<1>4. ASSUME NEW f \in Files, NEW c \in Contents, Edit(f, c) PROVE SnapTypeOK' /\ Reported'
  <2>1. written' \subseteq Moment BY <1>4 DEF Edit, Moment
  <2>2. disk' \in [Files -> [content : Contents \cup {Gone}, mtime : 0..MaxTime]] BY <1>4 DEF Edit
  <2>3. event' \in [Files -> {"none", "scan", "add", "change"}] BY <1>4 DEF Edit
  <2>4. Reported' BY <1>4 DEF Edit
  <2> QED BY <1>4, <2>1, <2>2, <2>3, <2>4 DEF Edit
<1>5. CASE Start BY <1>5 DEF Start
<1> QED BY <1>1, <1>2, <1>3, <1>4, <1>5 DEF SnapNext

\* So does the end of the daemon, also inside a collection.
LEMMA EndTypes ==
    ASSUME SnapTypeOK, DaemonEnds
    PROVE  SnapTypeOK' /\ Reported'
<1>1. ASSUME NEW F PROVE Unlinked(F) \subseteq Row
  <2>1. \A r \in rows : r \in Row /\ [r EXCEPT !.saved = FALSE] \in Row BY ZenonT(30) DEF SnapTypeOK, Row
  <2> HIDE DEF Row
  <2> QED BY <2>1 DEF Unlinked
<1>2. rows' \subseteq Row
  <2>1. rows \subseteq Row BY DEF SnapTypeOK
  <2>2. \/ rows' = rows \/ \E F : rows' = Unlinked(F) BY DEF DaemonEnds
  <2> QED BY <1>1, <2>1, <2>2
<1>3. crashes' \in 0..MaxCrashes BY DEF DaemonEnds, Crash, SnapTypeOK
<1> QED BY <1>2, <1>3 DEF DaemonEnds, Crash, SnapTypeOK, Reported


\* A sequence stays one when an element is replaced.
LEMMA ReplaceType ==
    ASSUME NEW S, NEW s \in Seq(S), NEW t, DOMAIN t = DOMAIN s, t = [i \in DOMAIN s |-> t[i]],
           \A i \in DOMAIN s : t[i] \in S
    PROVE  t \in Seq(S) /\ Len(t) = Len(s)
<1>1. t \in [1..Len(s) -> S] /\ Len(s) \in Nat OBVIOUS
<1> QED BY <1>1

LEMMA RewrittenType ==
    ASSUME versions \in Seq(Version), NEW i \in DOMAIN versions, NEW r \in Row
    PROVE  Rewritten(i, r) \in Seq(Version) /\ Len(Rewritten(i, r)) = Len(versions)
<1>1. \A j \in DOMAIN versions : versions[j] \in Version OBVIOUS
<1>2. r.content \in Contents /\ r.mtime \in 0..MaxTime BY DEF Row
<1>3. \A j \in DOMAIN versions : Rewritten(i, r)[j] \in Version
  BY <1>1, <1>2 DEF Rewritten, Version
<1>4. DOMAIN Rewritten(i, r) = DOMAIN versions BY DEF Rewritten
<1>5. Rewritten(i, r) = [j \in DOMAIN versions |-> Rewritten(i, r)[j]] BY DEF Rewritten
<1> HIDE DEF Version, Rewritten
<1> QED BY <1>3, <1>4, <1>5, ReplaceType

\* What a snapshot can turn the versions into.
LEMMA AppliedCases ==
    ASSUME NEW r
    PROVE  LET f == r.file  next == Len(versions) + 1 IN
           \/ Applied(r).to = versions /\ Applied(r).ids = {}
           \/ /\ \/ \E dead \in BOOLEAN : Applied(r).to = Append(versions, Fresh(r, dead, NoSpan))
                 \/ HasHead(f) /\ Applied(r).to = Append(versions, Fresh(r, FALSE, versions[Last(f)].comment))
              /\ Applied(r).ids = {next}
           \/ /\ HasHead(f) /\ SameBracket(Last(f), r)
              /\ Applied(r).to = Rewritten(Last(f), r) /\ Applied(r).ids = {Last(f)}
<1> DEFINE f == r.file
           next == Len(versions) + 1
<1>1. CASE ~HasHead(f) /\ r.content = Empty BY <1>1 DEF Applied
<1>2. CASE ~HasHead(f) /\ r.content # Empty BY <1>2 DEF Applied
<1>3. CASE HasHead(f) /\ r.content = Empty BY <1>3 DEF Applied
<1>4. CASE HasHead(f) /\ r.content # Empty /\ r.content = versions[Last(f)].content BY <1>4 DEF Applied
<1>5. CASE HasHead(f) /\ r.content # Empty /\ r.content # versions[Last(f)].content BY <1>5 DEF Applied
<1> QED BY <1>1, <1>2, <1>3, <1>4, <1>5

LEMMA AppliedType ==
    ASSUME versions \in Seq(Version), NEW r \in Row, r.file \in CodeFiles
    PROVE  /\ Applied(r).to \in Seq(Version)
           /\ Len(versions) <= Len(Applied(r).to)
           /\ Applied(r).ids \subseteq DOMAIN Applied(r).to
<1> DEFINE f == r.file
           next == Len(versions) + 1
<1>1. \A dead \in BOOLEAN, c \in Spans \cup {NoSpan} : Fresh(r, dead, c) \in Version
  BY DEF Fresh, Version, Row, States
<1>2. \A v \in Version : /\ Append(versions, v) \in Seq(Version)
                         /\ Len(Append(versions, v)) = next
                         /\ {next} \subseteq DOMAIN Append(versions, v)
  OBVIOUS
<1>3. HasHead(f) => Last(f) \in DOMAIN versions /\ versions[Last(f)] \in Version
  BY LastIsThere DEF HasHead
<1>4. HasHead(f) => versions[Last(f)].comment \in Spans \cup {NoSpan}
  BY <1>3 DEF Version
<1>5. CASE Applied(r).to = versions /\ Applied(r).ids = {} BY <1>5
<1>6. CASE Applied(r).ids = {next} /\ \E dead \in BOOLEAN, c \in Spans \cup {NoSpan} :
                                         Applied(r).to = Append(versions, Fresh(r, dead, c))
  <2>1. PICK v \in Version : Applied(r).to = Append(versions, v) BY <1>6, <1>1
  <2> QED BY <1>6, <2>1, <1>2
<1>7. CASE HasHead(f) /\ Applied(r).to = Rewritten(Last(f), r) /\ Applied(r).ids = {Last(f)}
  <2>1. Rewritten(Last(f), r) \in Seq(Version) /\ Len(Rewritten(Last(f), r)) = Len(versions)
    BY <1>7, <1>3, RewrittenType
  <2>2. DOMAIN Rewritten(Last(f), r) = DOMAIN versions BY DEF Rewritten
  <2> QED BY <1>7, <2>1, <2>2, <1>3
<1> QED BY <1>4, <1>5, <1>6, <1>7, AppliedCases

\* Links and patches go on naming versions when these are added to or changed.
LEMMA LinksStay ==
    ASSUME LinkTypeOK, versions \in Seq(Version), versions' \in Seq(Version), Len(versions) <= Len(versions'),
           links' = links, patches' = patches
    PROVE  LinkTypeOK' /\ DOMAIN versions \subseteq DOMAIN versions'
<1>1. DOMAIN versions \subseteq DOMAIN versions' OBVIOUS
<1>2. links' \in [Spans -> [symbols : SUBSET DOMAIN versions', plans : SUBSET [file : PlanFiles, at : 0..MaxTime]]]
  BY <1>1 DEF LinkTypeOK
<1>3. patches' \subseteq [id : DOMAIN versions', seal : BOOLEAN, comment : Spans \cup {NoSpan}]
  BY <1>1 DEF LinkTypeOK
<1> QED BY <1>1, <1>2, <1>3 DEF LinkTypeOK

\* The run of the lsp job.
LspRunOK(r) ==
    r \in [job : {"lsp"}, step : {"apply", "save"}, planned : SUBSET Row, mark : 0..MaxTime,
           todo : SUBSET {q \in Row : q.file \in CodeFiles}, touched : SUBSET DOMAIN versions, parsed : SUBSET Row]

LEMMA LspStartType == TypeInv /\ LspStart => LspRunOK(run')
<1> SUFFICES ASSUME TypeInv, LspStart PROVE LspRunOK(run') OBVIOUS
<1> DEFINE planned == {r \in Drained(CodeFiles, lspMark) : Eligible(r)}
           times == {r.ts : r \in planned}
           todo == {r \in planned : Counts(r, planned)}
<1>1. planned \subseteq {r \in Row : r.file \in CodeFiles} BY DEF TypeInv, SnapTypeOK, Drained
<1>2. planned # {} BY DEF LspStart
<1>3. \A r \in Row : r.ts \in 0..MaxTime BY DEF Row
<1>4. times \subseteq 0..MaxTime BY <1>1, <1>3
<1>5. times # {}
  <2> HIDE DEF planned
  <2> QED BY <1>2
<1>6. MaxOf(times) \in 0..MaxTime
  <2> HIDE DEF times
  <2> QED BY <1>4, <1>5, GreatestOf
<1>7. run' = [job |-> "lsp", step |-> "apply", planned |-> planned, mark |-> MaxOf(times), todo |-> todo,
              touched |-> {}, parsed |-> {}]
  BY DEF LspStart
<1>8. todo \subseteq planned OBVIOUS
<1> HIDE DEF planned, times, todo
<1> QED BY <1>1, <1>6, <1>7, <1>8 DEF LspRunOK

\* The lsp job keeps all types.
LEMMA LspTypes == TypeInv /\ LspJob => TypeInv'
<1> SUFFICES ASSUME TypeInv, LspJob PROVE TypeInv' OBVIOUS
<1>1. rows' \subseteq Row
  BY DEF LspJob, LspCollect, KeptLatest, TypeInv, SnapTypeOK
<1>2. SnapTypeOK' /\ PlanTypeOK' /\ Reported'
  BY <1>1 DEF LspJob, TypeInv, SnapTypeOK, PlanTypeOK, Reported, planVars
<1>3. ASSUME versions' \in Seq(Version), Len(versions) <= Len(versions'), span' = span, lspMark' \in 0..MaxTime,
             RunTypeOK'
      PROVE  TypeInv'
  <2>1. LinkTypeOK' BY <1>3, LinksStay DEF LspJob, TypeInv, LspTypeOK
  <2> QED BY <1>2, <1>3, <2>1 DEF TypeInv, LspTypeOK
<1>4. versions \in Seq(Version) /\ lspMark \in 0..MaxTime BY DEF TypeInv, LspTypeOK
<1>5. run.job = "lsp" => LspRunOK(run)
  BY DEF TypeInv, RunTypeOK, LspRunOK, Idle
<1>6. LspRunOK(run)' => RunTypeOK' BY DEF RunTypeOK, LspRunOK
<1>7. CASE LspStart
  <2>1. LspRunOK(run') BY <1>7, LspStartType
  <2>2. versions' = versions /\ span' = span /\ lspMark' = lspMark BY <1>7 DEF LspStart
  <2>3. LspRunOK(run)' BY <2>1, <2>2 DEF LspRunOK
  <2> QED BY <2>2, <2>3, <1>3, <1>4, <1>6
<1>8. CASE LspApply
  <2>1. PICK r \in run.todo :
          \/ run' = [run EXCEPT !.todo = @ \ {r}] /\ versions' = versions
          \/ /\ run' = [run EXCEPT !.todo = @ \ {r}, !.parsed = @ \cup {r}, !.touched = @ \cup Applied(r).ids]
             /\ versions' = Applied(r).to
    BY <1>8 DEF LspApply
  <2>2. LspRunOK(run) /\ r \in Row /\ r.file \in CodeFiles
    BY <1>5, <1>8 DEF LspApply, LspRunOK
  <2>3. versions' \in Seq(Version) /\ Len(versions) <= Len(versions') /\ DOMAIN versions \subseteq DOMAIN versions'
    BY <2>1, <2>2, <1>4, AppliedType
  <2>4. LspRunOK(run)'
    <3>1. CASE run' = [run EXCEPT !.todo = @ \ {r}] /\ versions' = versions BY <3>1, <2>2 DEF LspRunOK
    <3>2. CASE /\ run' = [run EXCEPT !.todo = @ \ {r}, !.parsed = @ \cup {r}, !.touched = @ \cup Applied(r).ids]
               /\ versions' = Applied(r).to
      <4>1. Applied(r).ids \subseteq DOMAIN versions' BY <3>2, <2>2, <1>4, AppliedType
      <4>2. run.touched \cup Applied(r).ids \subseteq DOMAIN versions' BY <4>1, <2>2, <2>3 DEF LspRunOK
      <4> QED BY <3>2, <4>2, <2>2 DEF LspRunOK
    <3> QED BY <2>1, <3>1, <3>2
  <2> QED BY <1>3, <1>4, <1>6, <1>8, <2>3, <2>4 DEF LspApply
<1>9. CASE LspPromote
  <2>1. LspRunOK(run) BY <1>5, <1>9 DEF LspPromote, Walked
  <2>2. PICK i \in run.touched : versions' = [versions EXCEPT ![i].state = "final"]
                                 /\ run' = [run EXCEPT !.touched = @ \ {i}]
    BY <1>9 DEF LspPromote
  <2>3. versions' \in Seq(Version) /\ Len(versions) = Len(versions') /\ DOMAIN versions' = DOMAIN versions
    <3>1. \A j \in DOMAIN versions : versions[j] \in Version BY <1>4
    <3>2. \A j \in DOMAIN versions : versions'[j] \in Version BY <2>2, <3>1 DEF Version, States
    <3>3. DOMAIN versions' = DOMAIN versions /\ versions' = [j \in DOMAIN versions |-> versions'[j]] BY <2>2
    <3> HIDE DEF Version
    <3> QED BY <1>4, <3>2, <3>3, ReplaceType
  <2>4. LspRunOK(run)' BY <2>1, <2>2, <2>3 DEF LspRunOK
  <2> QED BY <1>3, <1>4, <1>6, <1>9, <2>3, <2>4 DEF LspPromote
<1>10. CASE LspFallback
  <2>1. LspRunOK(run) BY <1>5, <1>10 DEF LspFallback, Walked
  <2>2. PICK f \in Unparsed :
          /\ versions' = IF HasHead(f)
                         THEN Append(versions, [file |-> f, content |-> Empty, at |-> clock, state |-> "new",
                                                dead |-> TRUE, comment |-> NoSpan])
                         ELSE versions
          /\ run' = [run EXCEPT !.planned = {r \in @ : r.file # f}]
    BY <1>10 DEF LspFallback
  <2>3. HasHead(f) => f \in CodeFiles
    <3>1. HasHead(f) => Last(f) \in DOMAIN versions /\ versions[Last(f)].file = f
      BY <1>4, LastIsThere DEF HasHead
    <3>2. \A v \in Version : v.file \in CodeFiles BY DEF Version
    <3>3. \A j \in DOMAIN versions : versions[j] \in Version BY <1>4
    <3> HIDE DEF Version
    <3> QED BY <3>1, <3>2, <3>3
  <2>4. HasHead(f) => [file |-> f, content |-> Empty, at |-> clock, state |-> "new", dead |-> TRUE, comment |-> NoSpan]
                        \in Version
    BY <2>3 DEF Version, States, TypeInv, SnapTypeOK
  <2>5. versions' \in Seq(Version) /\ Len(versions) <= Len(versions') /\ DOMAIN versions \subseteq DOMAIN versions'
    BY <1>4, <2>2, <2>4
  <2>6. LspRunOK(run)' BY <2>1, <2>2, <2>5 DEF LspRunOK
  <2> QED BY <1>3, <1>4, <1>6, <1>10, <2>5, <2>6 DEF LspFallback
<1>11. CASE LspSave
  <2>1. LspRunOK(run) /\ run' = Idle /\ lspMark' = run.mark BY <1>5, <1>11 DEF LspSave
  <2>2. lspMark' \in 0..MaxTime /\ RunTypeOK' BY <2>1 DEF LspRunOK, RunTypeOK
  <2> QED BY <1>3, <1>4, <1>11, <2>2 DEF LspSave
<1>12. CASE LspCollect
  <2>1. LspRunOK(run) BY <1>5, <1>12 DEF LspCollect, LspCollectable, Walked
  <2>2. LspRunOK(run)' BY <2>1, <1>12 DEF LspCollect, LspRunOK
  <2> QED BY <1>3, <1>4, <1>6, <1>12, <2>2 DEF LspCollect
<1> QED BY <1>7, <1>8, <1>9, <1>10, <1>11, <1>12 DEF LspJob, LspSteps

\* The run of the plans job.
PlansRunOK(r) ==
    r \in [job : {"plans"}, step : {"mint", "save"}, failed : BOOLEAN, mark : 0..MaxTime,
           todo : SUBSET {q \in Row : q.file \in PlanFiles}]

\* The plans job keeps all types.
LEMMA PlansTypes == TypeInv /\ PlansJob => TypeInv'
<1> SUFFICES ASSUME TypeInv, PlansJob PROVE TypeInv' OBVIOUS
<1>1. rows' \subseteq Row
  BY DEF PlansJob, PlansCollect, KeptLatest, TypeInv, SnapTypeOK
<1>2. SnapTypeOK' /\ LspTypeOK' /\ LinkTypeOK' /\ Reported'
  BY <1>1 DEF PlansJob, TypeInv, SnapTypeOK, LspTypeOK, LinkTypeOK, Reported
<1>3. run.job = "plans" => PlansRunOK(run)
  BY DEF TypeInv, RunTypeOK, PlansRunOK, Idle
<1>4. PlansRunOK(run') => RunTypeOK' BY DEF RunTypeOK, PlansRunOK
<1>5. plans \subseteq [file : PlanFiles, at : 0..MaxTime] /\ planMark \in 0..MaxTime BY DEF TypeInv, PlanTypeOK
<1>6. ASSUME RunTypeOK', plans' \subseteq [file : PlanFiles, at : 0..MaxTime], planMark' \in 0..MaxTime PROVE TypeInv'
  BY <1>2, <1>6 DEF TypeInv, PlanTypeOK
<1>7. CASE PlansStart
  <2> DEFINE drained == Drained(PlanFiles, planMark)
             newest == {r \in drained : \A q \in drained : q.file = r.file => q.ts <= r.ts}
  <2>1. drained \subseteq {q \in Row : q.file \in PlanFiles} BY DEF TypeInv, SnapTypeOK, Drained
  <2>2. newest \subseteq drained OBVIOUS
  <2>3. run' = [job |-> "plans", step |-> "mint", failed |-> FALSE, mark |-> planMark, todo |-> newest]
    BY <1>7 DEF PlansStart
  <2> HIDE DEF drained, newest
  <2>4. PlansRunOK(run') BY <1>5, <2>1, <2>2, <2>3 DEF PlansRunOK
  <2> QED BY <1>4, <1>5, <1>6, <1>7, <2>4 DEF PlansStart, planVars
<1>8. CASE PlansMint
  <2>1. PICK r \in run.todo :
          LET marked == [run EXCEPT !.todo = @ \ {r}, !.mark = MaxOf({@, r.ts})] IN
          \/ plans' = plans \cup {[file |-> r.file, at |-> r.mtime]} /\ run' = marked
          \/ run' = [marked EXCEPT !.failed = TRUE] /\ plans' = plans
    BY <1>8 DEF PlansMint
  <2>2. PlansRunOK(run) /\ r \in Row /\ r.file \in PlanFiles BY <1>3, <1>8 DEF PlansMint, PlansRunOK
  <2>3. r.ts \in 0..MaxTime /\ r.mtime \in 0..MaxTime BY <2>2 DEF Row
  <2>4. MaxOf({run.mark, r.ts}) \in 0..MaxTime
    <3>1. {run.mark, r.ts} \in SUBSET (0..MaxTime) /\ {run.mark, r.ts} # {} BY <2>2, <2>3 DEF PlansRunOK
    <3> QED BY <3>1, GreatestOf
  <2>5. PlansRunOK(run')
    <3> DEFINE m == MaxOf({run.mark, r.ts})
    <3>1. \/ run' = [run EXCEPT !.todo = @ \ {r}, !.mark = m]
          \/ run' = [[run EXCEPT !.todo = @ \ {r}, !.mark = m] EXCEPT !.failed = TRUE]
      BY <2>1
    <3>2. m \in 0..MaxTime BY <2>4
    <3> HIDE DEF m
    <3>3. PlansRunOK([run EXCEPT !.todo = @ \ {r}, !.mark = m])
      BY <2>2, <3>2 DEF PlansRunOK
    <3>4. \A q : PlansRunOK(q) => PlansRunOK([q EXCEPT !.failed = TRUE]) BY DEF PlansRunOK
    <3> HIDE DEF PlansRunOK
    <3> QED BY <3>1, <3>3, <3>4, ZenonT(30)
  <2>6. plans' \subseteq [file : PlanFiles, at : 0..MaxTime] BY <1>5, <2>1, <2>2, <2>3
  <2> QED BY <1>4, <1>5, <1>6, <1>8, <2>5, <2>6 DEF PlansMint
<1>9. CASE PlansSave
  <2>1. PlansRunOK(run) /\ run' = Idle /\ planMark' \in {planMark, run.mark} /\ plans' = plans
    BY <1>3, <1>9 DEF PlansSave
  <2>2. planMark' \in 0..MaxTime /\ RunTypeOK' BY <1>5, <2>1 DEF PlansRunOK, RunTypeOK
  <2> QED BY <1>5, <1>6, <2>1, <2>2
<1>10. CASE PlansCollect
  <2>1. PlansRunOK(run') BY <1>3, <1>10 DEF PlansCollect, PlansCollectable, PlansRunOK
  <2> QED BY <1>4, <1>5, <1>6, <1>10, <2>1 DEF PlansCollect, planVars
<1> QED BY <1>7, <1>8, <1>9, <1>10 DEF PlansJob, PlanSteps

\* What the span jobs do to the versions: a state and a comment, never what was on disk.
Relabelled ==
    /\ versions' \in Seq(Version) /\ Len(versions') = Len(versions)
    /\ \A i \in DOMAIN versions :
        /\ versions'[i].file = versions[i].file /\ versions'[i].content = versions[i].content
        /\ versions'[i].at = versions[i].at /\ versions'[i].dead = versions[i].dead

LEMMA SpanJobsRelabel ==
    ASSUME TypeInv, SpanSteps \/ SpanChoices
    PROVE  Relabelled
<1> DEFINE Same(v, w) == /\ v.file = w.file /\ v.content = w.content /\ v.at = w.at /\ v.dead = w.dead
                         /\ v \in Version
<1>1. versions \in Seq(Version) BY DEF TypeInv, LspTypeOK
<1>2. \A i \in DOMAIN versions : versions[i] \in Version BY <1>1
<1>3. \A i \in DOMAIN versions : Same(versions[i], versions[i]) BY <1>2
<1>4. ASSUME DOMAIN versions' = DOMAIN versions, versions' = [i \in DOMAIN versions |-> versions'[i]],
             \A i \in DOMAIN versions : Same(versions'[i], versions[i])
      PROVE  Relabelled
  <2>1. \A i \in DOMAIN versions : versions'[i] \in Version BY <1>4
  <2>2. versions' \in Seq(Version) /\ Len(versions') = Len(versions)
    <3> HIDE DEF Version, Same
    <3> QED BY <1>1, <1>4, <2>1, ReplaceType
  <2> QED BY <1>4, <2>2 DEF Relabelled
<1>5. CASE versions' = versions BY <1>1, <1>5 DEF Relabelled
<1>6. ASSUME NEW k \in DOMAIN versions, Promote(k) PROVE Relabelled
  <2>1. versions' = [versions EXCEPT ![k].state = "linked"] BY <1>6 DEF Promote
  <2>2. \A v \in Version : Same([v EXCEPT !.state = "linked"], v) BY DEF Version, States
  <2>3. \A j \in DOMAIN versions : versions'[j] = IF k = j THEN [versions[j] EXCEPT !.state = "linked"] ELSE versions[j]
    BY <2>1
  <2>4. DOMAIN versions' = DOMAIN versions /\ versions' = [j \in DOMAIN versions |-> versions'[j]] BY <2>1
  <2> HIDE DEF Same, Version
  <2>5. \A j \in DOMAIN versions : Same(versions'[j], versions[j]) BY <1>2, <1>3, <2>2, <2>3
  <2> QED BY <1>4, <2>4, <2>5
<1>7. ASSUME NEW s \in Spans, AgentComments(s) PROVE Relabelled
  <2>1. PICK i : versions' = [versions EXCEPT ![i].comment = s] BY <1>7 DEF AgentComments
  <2>2. \A v \in Version : Same([v EXCEPT !.comment = s], v) BY DEF Version
  <2>3. \A j \in DOMAIN versions : versions'[j] = IF i = j THEN [versions[j] EXCEPT !.comment = s] ELSE versions[j]
    BY <2>1
  <2>4. DOMAIN versions' = DOMAIN versions /\ versions' = [j \in DOMAIN versions |-> versions'[j]] BY <2>1
  <2> HIDE DEF Same, Version
  <2>5. \A j \in DOMAIN versions : Same(versions'[j], versions[j]) BY <1>2, <1>3, <2>2, <2>3
  <2> QED BY <1>4, <2>4, <2>5
<1>8. ASSUME NEW p \in patches, PatchLands(p) PROVE Relabelled
  <2>1. p.comment \in Spans \cup {NoSpan} BY DEF TypeInv, LinkTypeOK
  <2>2. versions' = [versions EXCEPT ![p.id].state = IF p.seal THEN "commented" ELSE @,
                                     ![p.id].comment = IF @ = NoSpan THEN p.comment ELSE @]
    BY <1>8 DEF PatchLands
  <2> DEFINE st(v) == IF p.seal THEN "commented" ELSE v.state
             cm(v) == IF v.comment = NoSpan THEN p.comment ELSE v.comment
             Landed(v) == [[v EXCEPT !.state = st(v)] EXCEPT !.comment = cm(v)]
  <2>3. \A v \in Version : st(v) \in States /\ cm(v) \in Spans \cup {NoSpan} BY <2>1 DEF Version, States
  <2>4. \A v \in Version : Same(Landed(v), v)
    <3> HIDE DEF st, cm
    <3> QED BY <2>3 DEF Version
  <2>5. \A j \in DOMAIN versions : versions'[j] = IF p.id = j THEN Landed(versions[j]) ELSE versions[j]
    <3>1. \A v \in Version : v = [file |-> v.file, content |-> v.content, at |-> v.at, state |-> v.state,
                                  dead |-> v.dead, comment |-> v.comment] BY DEF Version
    <3> HIDE DEF Version
    <3> QED BY <1>2, <2>2, <3>1
  <2>6. DOMAIN versions' = DOMAIN versions /\ versions' = [j \in DOMAIN versions |-> versions'[j]] BY <2>2
  <2> HIDE DEF Same, Version, Landed
  <2>7. \A j \in DOMAIN versions : Same(versions'[j], versions[j]) BY <1>2, <1>3, <2>4, <2>5
  <2> QED BY <1>4, <2>6, <2>7
<1>9. \/ versions' = versions
      \/ \E k \in DOMAIN versions : Promote(k)
      \/ \E s \in Spans : AgentComments(s)
      \/ \E p \in patches : PatchLands(p)
  BY DEF SpanSteps, SpanChoices, LinkStart, LinkEnds, IndexStart, IndexEnds,
         Attach, MarkLinked, IndexSpan, CloseSpan, ProviderFails, PatchFails
<1> QED BY <1>5, <1>6, <1>7, <1>8, <1>9

\* The jobs of a span keep all types.
LEMMA SpanTypes ==
    ASSUME TypeInv, SpanJob(SpanSteps \/ SpanChoices)
    PROVE  TypeInv' /\ Relabelled
<1>1. Relabelled BY SpanJobsRelabel DEF SpanJob
<1> SUFFICES TypeInv' BY <1>1
<1>2. DOMAIN versions' = DOMAIN versions /\ versions' \in Seq(Version)
  BY <1>1 DEF Relabelled, TypeInv, LspTypeOK
<1>3. SnapTypeOK' /\ PlanTypeOK' /\ Reported' /\ lspMark' \in 0..MaxTime
  BY DEF SpanJob, snapVars, planVars, TypeInv, SnapTypeOK, PlanTypeOK, LspTypeOK, Reported
<1> DEFINE Places == [symbols : SUBSET DOMAIN versions, plans : SUBSET [file : PlanFiles, at : 0..MaxTime]]
           Asked == [id : DOMAIN versions, seal : BOOLEAN, comment : Spans \cup {NoSpan}]
           SpanStates == {"open", "extracted", "linked", "indexed"}
<1>4. span \in [Spans -> SpanStates] /\ links \in [Spans -> Places] /\ patches \subseteq Asked
  BY DEF TypeInv, LspTypeOK, LinkTypeOK
<1>5. ASSUME span' \in [Spans -> SpanStates], links' \in [Spans -> Places], patches' \subseteq Asked, RunTypeOK'
      PROVE  TypeInv'
  BY <1>2, <1>3, <1>5 DEF TypeInv, LspTypeOK, LinkTypeOK
<1>6. /\ run.job = "link" => run \in [job : {"link"}, todo : SUBSET Spans, attached : SUBSET Spans, promote : SUBSET DOMAIN versions]
      /\ run.job = "index" => run \in [job : {"index"}, todo : SUBSET Spans]
  BY DEF TypeInv, RunTypeOK, Idle
<1>7. /\ run' \in [job : {"link"}, todo : SUBSET Spans, attached : SUBSET Spans, promote : SUBSET DOMAIN versions] => RunTypeOK'
      /\ run' \in [job : {"index"}, todo : SUBSET Spans] => RunTypeOK'
      /\ run' = Idle => RunTypeOK'
      /\ run' = run => RunTypeOK'
  BY <1>2 DEF RunTypeOK, TypeInv
<1>8. CASE LinkStart BY <1>4, <1>5, <1>7, <1>8 DEF LinkStart, ToLink
<1>9. CASE LinkEnds BY <1>4, <1>5, <1>7, <1>9 DEF LinkEnds
<1>10. CASE IndexStart BY <1>4, <1>5, <1>7, <1>10 DEF IndexStart
<1>11. CASE IndexEnds BY <1>4, <1>5, <1>7, <1>11 DEF IndexEnds
<1>12. ASSUME NEW s \in Spans, Attach(s) PROVE TypeInv'
  <2>1. Wanted(s).symbols \subseteq DOMAIN versions BY DEF Wanted, Touched, Born
  <2>2. links' \in [Spans -> Places] BY <1>4, <1>12, <2>1 DEF Attach
  <2>3. run' \in [job : {"link"}, todo : SUBSET Spans, attached : SUBSET Spans, promote : SUBSET DOMAIN versions]
    BY <1>6, <1>12, <2>1 DEF Attach
  <2> QED BY <1>4, <1>5, <1>7, <1>12, <2>2, <2>3 DEF Attach
<1>13. ASSUME NEW s \in Spans, MarkLinked(s) PROVE TypeInv'
  <2>1. Wanted(s).plans \subseteq [file : PlanFiles, at : 0..MaxTime] BY DEF Wanted, MintedIn, TypeInv, PlanTypeOK
  <2>2. links' \in [Spans -> Places] BY <1>4, <1>13, <2>1 DEF MarkLinked
  <2>3. run' \in [job : {"link"}, todo : SUBSET Spans, attached : SUBSET Spans, promote : SUBSET DOMAIN versions]
    BY <1>6, <1>13 DEF MarkLinked
  <2> QED BY <1>4, <1>5, <1>7, <1>13, <2>2, <2>3 DEF MarkLinked
<1>18. ASSUME NEW i \in DOMAIN versions, Promote(i) PROVE TypeInv'
  <2>1. run' \in [job : {"link"}, todo : SUBSET Spans, attached : SUBSET Spans, promote : SUBSET DOMAIN versions]
    BY <1>6, <1>18 DEF Promote
  <2> QED BY <1>4, <1>5, <1>7, <1>18, <2>1 DEF Promote
<1>14. ASSUME NEW s \in Spans, IndexSpan(s) PROVE TypeInv'
  <2>1. run' \in [job : {"index"}, todo : SUBSET Spans] BY <1>6, <1>14 DEF IndexSpan, Prompted
  <2>2. \A i \in DOMAIN versions : versions[i].comment \in Spans \cup {NoSpan}
    <3>1. \A v \in Version : v.comment \in Spans \cup {NoSpan} BY DEF Version
    <3>2. \A i \in DOMAIN versions : versions[i] \in Version BY DEF TypeInv, LspTypeOK
    <3> HIDE DEF Version
    <3> QED BY <3>1, <3>2
  <2>3. ToSeal(s) \subseteq DOMAIN versions BY <1>4 DEF ToSeal
  <2>4. \A i : Later(i) \subseteq DOMAIN versions BY DEF Later
  <2>5. Seals(s) \subseteq Asked
    <3> SUFFICES ASSUME NEW p \in Seals(s) PROVE p \in Asked OBVIOUS
    <3>1. PICK i \in ToSeal(s) :
            \/ p = [id |-> i, seal |-> TRUE, comment |-> versions[i].comment]
            \/ \E j \in Later(i) : p = [id |-> j, seal |-> FALSE, comment |-> versions[i].comment]
      BY DEF Seals
    <3>2. versions[i].comment \in Spans \cup {NoSpan} BY <2>2, <2>3
    <3>3. PICK c \in Spans \cup {NoSpan}, k \in DOMAIN versions, b \in BOOLEAN :
            p = [id |-> k, seal |-> b, comment |-> c]
      BY <2>3, <2>4, <3>1, <3>2
    <3> QED BY <3>3
  <2> QED BY <1>4, <1>5, <1>7, <1>14, <2>1, <2>5 DEF IndexSpan
<1>15. ASSUME NEW p \in patches, PatchLands(p) \/ PatchFails(p) PROVE TypeInv'
  BY <1>4, <1>5, <1>7, <1>15 DEF PatchLands, PatchFails
<1>16. ASSUME NEW s \in Spans, CloseSpan(s) \/ AgentComments(s) PROVE TypeInv'
  BY <1>4, <1>5, <1>7, <1>16 DEF CloseSpan, AgentComments
<1>17. ASSUME NEW s \in Spans, ProviderFails(s) PROVE TypeInv'
  <2>1. run' \in [job : {"index"}, todo : SUBSET Spans] BY <1>6, <1>17 DEF ProviderFails, Prompted
  <2> QED BY <1>4, <1>5, <1>7, <1>17, <2>1 DEF ProviderFails
<1> QED BY <1>8, <1>9, <1>10, <1>11, <1>12, <1>13, <1>14, <1>15, <1>16, <1>17, <1>18 DEF SpanJob, SpanSteps, SpanChoices

\* The jobs of a span begin no run of another job and do nothing to one.
LEMMA SpanRuns ==
    ASSUME TypeInv, SpanJob(SpanSteps \/ SpanChoices)
    PROVE  run' = run \/ run'.job \in {"none", "link", "index"}
<1>1. \/ run' = run \/ run' = Idle \/ LinkStart \/ IndexStart
      \/ \E s \in Spans : Attach(s) \/ MarkLinked(s) \/ IndexSpan(s) \/ ProviderFails(s)
      \/ \E i \in DOMAIN versions : Promote(i)
  BY DEF SpanJob, SpanSteps, SpanChoices, LinkEnds, IndexEnds, PatchLands, CloseSpan, AgentComments, PatchFails
<1>2. run.job = "link" => run \in [job : {"link"}, todo : SUBSET Spans, attached : SUBSET Spans, promote : SUBSET DOMAIN versions]
  BY DEF TypeInv, RunTypeOK, Idle
<1>3. run.job = "index" => run \in [job : {"index"}, todo : SUBSET Spans]
  BY DEF TypeInv, RunTypeOK, Idle
<1>4. ASSUME NEW s \in Spans, Attach(s) \/ MarkLinked(s) PROVE run'.job = "link" BY <1>2, <1>4 DEF Attach, MarkLinked
<1>6. ASSUME NEW i \in DOMAIN versions, Promote(i) PROVE run'.job = "link" BY <1>2, <1>6 DEF Promote
<1>5. ASSUME NEW s \in Spans, IndexSpan(s) \/ ProviderFails(s) PROVE run'.job = "index"
  BY <1>3, <1>5 DEF IndexSpan, ProviderFails, Prompted
<1> QED BY <1>1, <1>4, <1>5, <1>6 DEF LinkStart, IndexStart, Idle

\* The plans job runs alone.
LEMMA PlansRuns ==
    ASSUME TypeInv, PlansJob
    PROVE  run'.job \in {"none", "plans"}
<1>1. run.job = "plans" => PlansRunOK(run) BY DEF TypeInv, RunTypeOK, PlansRunOK, Idle
<1>2. CASE PlansStart \/ PlansSave BY <1>2 DEF PlansStart, PlansSave, Idle
<1>3. CASE PlansMint BY <1>1, <1>3 DEF PlansMint, PlansRunOK
<1>4. CASE PlansCollect BY <1>1, <1>4 DEF PlansCollect, PlansCollectable, PlansRunOK
<1> QED BY <1>2, <1>3, <1>4 DEF PlansJob, PlanSteps

\* So does the lsp job.
LEMMA LspRuns ==
    ASSUME TypeInv, LspJob
    PROVE  run'.job \in {"none", "lsp"}
<1>1. run.job = "lsp" => LspRunOK(run) BY DEF TypeInv, RunTypeOK, LspRunOK, Idle
<1>2. CASE LspStart \/ LspSave BY <1>2 DEF LspStart, LspSave, Idle
<1>3. CASE LspApply BY <1>1, <1>3 DEF LspApply, LspRunOK
<1>4. CASE LspPromote \/ LspFallback \/ LspCollect
  BY <1>1, <1>4 DEF LspPromote, LspFallback, LspCollect, LspCollectable, Walked, LspRunOK
<1> QED BY <1>2, <1>3, <1>4 DEF LspJob, LspSteps

LEMMA InitTypes == Init => TypeInv
<1> SUFFICES ASSUME Init PROVE TypeInv OBVIOUS
<1>1. SnapTypeOK /\ Reported BY DEF Init, SnapInit, SnapTypeOK, Reported
<1>2. LspTypeOK /\ RunTypeOK BY DEF Init, LspInit, LspTypeOK, RunTypeOK
<1>3. PlanTypeOK BY DEF Init, PlanInit, PlanTypeOK
<1>4. LinkTypeOK BY DEF Init, LinkTypeOK
<1> QED BY <1>1, <1>2, <1>3, <1>4 DEF TypeInv

LEMMA StepTypes == TypeInv /\ [Next]_vars => TypeInv'
<1> SUFFICES ASSUME TypeInv, [Next]_vars PROVE TypeInv' OBVIOUS
<1>1. CASE UNCHANGED vars
  BY <1>1 DEF vars, snapVars, lspVars, planVars, TypeInv, SnapTypeOK, LspTypeOK, PlanTypeOK, RunTypeOK, LinkTypeOK, Reported
<1>2. CASE World(SnapNext)
  <2>1. SnapTypeOK' /\ Reported' BY <1>2, SnapTypes DEF World, TypeInv
  <2> QED BY <1>2, <2>1 DEF World, lspVars, planVars, TypeInv, LspTypeOK, PlanTypeOK, RunTypeOK, LinkTypeOK
<1>3. CASE DaemonEnds
  <2>1. SnapTypeOK' /\ Reported' BY <1>3, EndTypes DEF TypeInv
  <2>2. patches' = {} /\ run' = Idle BY <1>3 DEF DaemonEnds
  <2> QED BY <1>3, <2>1, <2>2 DEF DaemonEnds, planVars, TypeInv, LspTypeOK, PlanTypeOK, RunTypeOK, LinkTypeOK
<1> QED BY <1>1, <1>2, <1>3, LspTypes, PlansTypes, SpanTypes DEF Next

\* The variables have the types that the modules give them, whatever the jobs, the watcher and crashes do.
THEOREM PipelineTypeCorrect == Spec => []TypeOK
<1>1. TypeInv => TypeOK BY DEF TypeInv, TypeOK, LinkTypeOK
<1> QED BY InitTypes, StepTypes, <1>1, PTL DEF Spec

-----------------------------------------------------------------------------
(* Versions say what was on disk, and when.                                *)

MomentOf(r) == [file |-> r.file, at |-> r.mtime, content |-> r.content]

\* What the files, the manifest and a run of the lsp job hold was on disk.
SourceInv ==
    /\ \A f \in Files : disk[f].content # Gone => [file |-> f, at |-> disk[f].mtime, content |-> disk[f].content] \in written
    /\ \A r \in rows : MomentOf(r) \in written
    /\ run.job = "lsp" => \A r \in run.todo : MomentOf(r) \in written
    /\ AttributedInTime

\* The versions of SourceInv, one at a time.
TrueOf(v) == ~v.dead => [file |-> v.file, at |-> v.at, content |-> v.content] \in written

LEMMA SourceOfRows ==
    ASSUME SourceInv, NEW F
    PROVE  /\ \A r \in KeptLatest(F) : MomentOf(r) \in written
           /\ \A r \in Unlinked(F) : MomentOf(r) \in written
<1>1. \A r \in rows : MomentOf(r) \in written BY DEF SourceInv
<1>2. \A r \in KeptLatest(F) : MomentOf(r) \in written BY <1>1 DEF KeptLatest
<1>3. \A r : MomentOf([r EXCEPT !.saved = FALSE]) = MomentOf(r) BY DEF MomentOf
<1> QED BY <1>1, <1>2, <1>3 DEF Unlinked

LEMMA SourceSnap == TypeInv /\ SourceInv /\ World(SnapNext) => SourceInv'
<1> SUFFICES ASSUME TypeInv, SourceInv, World(SnapNext) PROVE SourceInv' OBVIOUS
<1> USE DEF SourceInv
<1>1. run' = run /\ versions' = versions BY DEF World, lspVars
<1>2. written \subseteq written' BY DEF World, SnapNext, Tick, OnChange, Remove, Edit, Start
<1>3. AttributedInTime' BY <1>1, <1>2 DEF AttributedInTime
<1>4. run'.job = "lsp" => \A r \in run'.todo : MomentOf(r)' \in written' BY <1>1, <1>2 DEF MomentOf
<1>5. ASSUME NEW f \in Files, OnChange(f) PROVE SourceInv'
  <2>1. disk[f].content # Gone BY <1>5 DEF OnChange, TypeInv, Reported
  <2>2. \A r \in rows' : MomentOf(r) \in written
    <3> DEFINE new == [file |-> f, ts |-> clock, mtime |-> disk[f].mtime, content |-> disk[f].content, saved |-> TRUE]
    <3>1. MomentOf(new) \in written BY <2>1 DEF MomentOf
    <3> HIDE DEF new
    <3>2. rows' \subseteq rows \cup {new} BY <1>5 DEF OnChange, CopyOf, new
    <3> QED BY <3>1, <3>2
  <2> QED BY <1>3, <1>4, <1>5, <2>2 DEF OnChange, MomentOf
<1>6. ASSUME NEW f \in Files, Remove(f) PROVE SourceInv'
  <2>1. rows' = rows /\ \A g \in Files : disk'[g].content # Gone => disk'[g] = disk[g]
    BY <1>6 DEF Remove, TypeInv, SnapTypeOK
  <2> QED BY <1>2, <1>3, <1>4, <2>1 DEF MomentOf
<1>7. ASSUME NEW f \in Files, NEW c \in Contents, Edit(f, c) PROVE SourceInv'
  <2>1. rows' = rows /\ \A g \in Files : g # f => disk'[g] = disk[g]
    BY <1>7 DEF Edit, TypeInv, SnapTypeOK
  <2>2. [file |-> f, at |-> disk'[f].mtime, content |-> disk'[f].content] \in written'
    BY <1>7 DEF Edit, TypeInv, SnapTypeOK
  <2> QED BY <1>2, <1>3, <1>4, <2>1, <2>2 DEF MomentOf
<1>8. CASE Tick \/ Start BY <1>3, <1>4, <1>8 DEF Tick, Start, MomentOf
<1> QED BY <1>5, <1>6, <1>7, <1>8 DEF World, SnapNext

\* A snapshot that was on disk makes versions that were.
LEMMA AppliedSource ==
    ASSUME TypeInv, SourceInv, NEW r \in Row, r.file \in CodeFiles, MomentOf(r) \in written
    PROVE  \A i \in DOMAIN Applied(r).to : TrueOf(Applied(r).to[i])
<1> DEFINE f == r.file
<1>1. versions \in Seq(Version) BY DEF TypeInv, LspTypeOK
<1>2. \A i \in DOMAIN versions : TrueOf(versions[i]) BY DEF SourceInv, AttributedInTime, TrueOf
<1>3. \A dead, c : TrueOf(Fresh(r, dead, c)) BY DEF TrueOf, Fresh, MomentOf
<1>4. \A v : \A i \in DOMAIN Append(versions, v) : Append(versions, v)[i] = v \/ (i \in DOMAIN versions /\ Append(versions, v)[i] = versions[i])
  BY <1>1
<1>5. CASE Applied(r).to = versions BY <1>2, <1>5
<1>6. CASE \E dead, c : Applied(r).to = Append(versions, Fresh(r, dead, c))
  <2>1. PICK v : Applied(r).to = Append(versions, v) /\ TrueOf(v) BY <1>3, <1>6
  <2> QED BY <1>2, <1>4, <2>1
<1>7. CASE HasHead(f) /\ Applied(r).to = Rewritten(Last(f), r)
  <2>1. Last(f) \in DOMAIN versions /\ versions[Last(f)].file = f /\ versions[Last(f)] \in Version
    BY <1>1, <1>7, LastIsThere DEF HasHead
  <2>2. \A i \in DOMAIN versions : i # Last(f) => Rewritten(Last(f), r)[i] = versions[i] BY DEF Rewritten
  <2>3. LET w == Rewritten(Last(f), r)[Last(f)]
        IN w.file = f /\ w.content = r.content /\ w.at = r.mtime
    BY <2>1 DEF Rewritten, Version
  <2>4. TrueOf(Rewritten(Last(f), r)[Last(f)]) BY <2>3 DEF TrueOf, MomentOf
  <2>5. DOMAIN Rewritten(Last(f), r) = DOMAIN versions BY DEF Rewritten
  <2> HIDE DEF Rewritten, TrueOf
  <2> QED BY <1>2, <1>7, <2>2, <2>4, <2>5
<1> QED BY <1>5, <1>6, <1>7, AppliedCases

LEMMA SourceLsp == TypeInv /\ SourceInv /\ LspJob => SourceInv'
<1> SUFFICES ASSUME TypeInv, SourceInv, LspJob PROVE SourceInv' OBVIOUS
<1>1. written' = written /\ disk' = disk BY DEF LspJob
<1>2. \A r \in rows' : MomentOf(r) \in written BY SourceOfRows DEF LspJob, LspCollect, SourceInv
<1>3. \A i \in DOMAIN versions : TrueOf(versions[i]) BY DEF SourceInv, AttributedInTime, TrueOf
<1>4. ASSUME \A i \in DOMAIN versions' : TrueOf(versions'[i]), run'.job = "lsp" => \A r \in run'.todo : MomentOf(r) \in written
      PROVE  SourceInv'
  <2>1. AttributedInTime' BY <1>1, <1>4 DEF AttributedInTime, TrueOf
  <2> QED BY <1>1, <1>2, <1>4, <2>1 DEF SourceInv, MomentOf
<1>5. versions \in Seq(Version) /\ \A i \in DOMAIN versions : versions[i] \in Version BY DEF TypeInv, LspTypeOK
<1>6. run.job = "lsp" => LspRunOK(run) /\ \A r \in run.todo : MomentOf(r) \in written
  BY DEF TypeInv, RunTypeOK, LspRunOK, Idle, SourceInv
<1>7. CASE LspStart
  <2>1. \A r \in run'.todo : r \in rows BY <1>7 DEF LspStart, Drained
  <2> QED BY <1>3, <1>4, <1>7, <2>1 DEF LspStart, SourceInv
<1>8. CASE LspApply
  <2>1. PICK r \in run.todo : /\ run'.todo = run.todo \ {r}
                              /\ versions' = versions \/ versions' = Applied(r).to
    BY <1>6, <1>8 DEF LspApply, LspRunOK
  <2>2. r \in Row /\ r.file \in CodeFiles /\ MomentOf(r) \in written BY <1>6, <1>8 DEF LspApply, LspRunOK
  <2>3. \A i \in DOMAIN versions' : TrueOf(versions'[i]) BY <1>3, <2>1, <2>2, AppliedSource
  <2>4. \A q \in run'.todo : MomentOf(q) \in written BY <1>6, <1>8, <2>1 DEF LspApply
  <2> QED BY <1>4, <2>3, <2>4
<1>9. CASE LspPromote
  <2>1. PICK k : versions' = [versions EXCEPT ![k].state = "final"] /\ run' = [run EXCEPT !.touched = @ \ {k}]
    BY <1>9 DEF LspPromote
  <2>2. \A v \in Version : TrueOf(v) => TrueOf([v EXCEPT !.state = "final"]) BY DEF TrueOf, Version
  <2>3. \A i \in DOMAIN versions' : TrueOf(versions'[i])
    <3> HIDE DEF TrueOf, Version
    <3> QED BY <1>3, <1>5, <2>1, <2>2
  <2>4. run'.todo = run.todo /\ run.job = "lsp" BY <1>6, <1>9, <2>1 DEF LspPromote, Walked, LspRunOK
  <2> QED BY <1>4, <1>6, <2>3, <2>4
<1>10. CASE LspFallback
  <2>1. PICK v : /\ TrueOf(v)
                 /\ versions' = Append(versions, v) \/ versions' = versions
                 /\ run'.todo = run.todo /\ run.job = "lsp"
    <3>1. \A f : TrueOf([file |-> f, content |-> Empty, at |-> clock, state |-> "new", dead |-> TRUE, comment |-> NoSpan])
      BY DEF TrueOf
    <3>2. run.job = "lsp" BY <1>10 DEF LspFallback, Walked
    <3>3. run'.todo = run.todo BY <1>6, <1>10, <3>2 DEF LspFallback, LspRunOK
    <3> QED BY <1>10, <3>1, <3>2, <3>3 DEF LspFallback
  <2>2. \A i \in DOMAIN versions' : TrueOf(versions'[i])
    <3>1. \A i \in DOMAIN Append(versions, v) : Append(versions, v)[i] = v \/ (i \in DOMAIN versions /\ Append(versions, v)[i] = versions[i])
      BY <1>5
    <3> QED BY <1>3, <2>1, <3>1
  <2> QED BY <1>4, <1>6, <2>1, <2>2
<1>11. CASE LspSave BY <1>3, <1>4, <1>11 DEF LspSave, Idle
<1>12. CASE LspCollect
  <2>1. run'.todo = run.todo /\ run.job = "lsp" BY <1>6, <1>12 DEF LspCollect, LspCollectable, Walked, LspRunOK
  <2> QED BY <1>3, <1>4, <1>6, <1>12, <2>1 DEF LspCollect
<1> QED BY <1>7, <1>8, <1>9, <1>10, <1>11, <1>12 DEF LspJob, LspSteps

LEMMA SourceStep == TypeInv /\ SourceInv /\ [Next]_vars => SourceInv'
<1> SUFFICES ASSUME TypeInv, SourceInv, [Next]_vars PROVE SourceInv' OBVIOUS
<1>1. CASE UNCHANGED vars
  BY <1>1 DEF vars, snapVars, lspVars, SourceInv, AttributedInTime, MomentOf
<1>2. CASE PlansJob
  <2>1. \A r \in rows' : MomentOf(r) \in written BY <1>2, SourceOfRows DEF PlansJob, PlansCollect, SourceInv
  <2>2. run'.job # "lsp" BY <1>2, PlansRuns
  <2> QED BY <1>2, <2>1, <2>2 DEF PlansJob, SourceInv, AttributedInTime, MomentOf
<1>3. CASE SpanJob(SpanSteps \/ SpanChoices)
  <2>1. Relabelled BY <1>3, SpanTypes
  <2>2. versions \in Seq(Version) BY DEF TypeInv, LspTypeOK
  <2>3. AttributedInTime'
    <3>1. DOMAIN versions' = DOMAIN versions /\ written' = written BY <1>3, <2>1, <2>2 DEF Relabelled, SpanJob, snapVars
    <3>2. ASSUME NEW i \in DOMAIN versions, ~versions'[i].dead
          PROVE  [file |-> versions'[i].file, at |-> versions'[i].at, content |-> versions'[i].content] \in written
      BY <2>1, <3>2 DEF Relabelled, SourceInv, AttributedInTime
    <3> QED BY <3>1, <3>2 DEF AttributedInTime
  <2>4. run'.job = "lsp" => run' = run BY <1>3, SpanRuns
  <2> QED BY <1>3, <2>3, <2>4 DEF SpanJob, snapVars, SourceInv, MomentOf
<1>4. CASE DaemonEnds
  <2>1. \A r \in rows' : MomentOf(r) \in written BY <1>4, SourceOfRows DEF DaemonEnds, SourceInv
  <2> QED BY <1>4, <2>1 DEF DaemonEnds, Crash, SourceInv, AttributedInTime, MomentOf, Idle
<1> QED BY <1>1, <1>2, <1>3, <1>4, SourceSnap, SourceLsp DEF Next

\* A version's content was on disk at its createdAt, over overwrites, late snapshots, collections and crashes.
THEOREM VersionsTellTheTruth == Spec => []AttributedInTime
<1>1. Init => SourceInv
  BY DEF Init, SnapInit, LspInit, Idle, SourceInv, AttributedInTime
<1>2. SourceInv => AttributedInTime BY DEF SourceInv
<1> QED BY InitTypes, StepTypes, SourceStep, <1>1, <1>2, PTL DEF Spec

=============================================================================
