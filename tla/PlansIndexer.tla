---------------------------- MODULE PlansIndexer ----------------------------
(***************************************************************************)
(* The plans-claude job: it drains the snapshots of the plans directory,   *)
(* mints a Plan for the newest one of each file, collects the manifest and *)
(* saves the watermark when there was no error.                            *)
(***************************************************************************)
EXTENDS LspIndexer

VARIABLES
    plans,      \* Plan nodes: the file and the moment of the copy they were minted from
    planMark    \* job state lastConsumedTs

planVars == <<plans, planMark>>

PlanTypeOK ==
    /\ plans \subseteq [file : PlanFiles, at : 0..MaxTime]
    /\ planMark \in 0..MaxTime

PlanInit == plans = {} /\ planMark = 0

PlansStart ==
    LET drained == Drained(PlanFiles, planMark) IN
    /\ up /\ Settled /\ run = Idle /\ drained # {}
    /\ run' = [job |-> "plans", step |-> "mint", failed |-> FALSE, mark |-> planMark,
               todo |-> {r \in drained : \A q \in drained : q.file = r.file => q.ts <= r.ts}]
    /\ UNCHANGED planVars

\* The mark moves to the snapshot before it is read.
PlansMint ==
    /\ run.job = "plans" /\ run.step = "mint"
    /\ \E r \in run.todo :
        LET marked == [run EXCEPT !.todo = @ \ {r}, !.mark = MaxOf({@, r.ts})] IN
        \/ r.saved /\ plans' = plans \cup {[file |-> r.file, at |-> r.mtime]} /\ run' = marked
        \/ (~r.saved \/ "read" \in Faults) /\ run' = [marked EXCEPT !.failed = TRUE] /\ UNCHANGED plans
    /\ UNCHANGED planMark

PlansCollectable == run.job = "plans" /\ run.step = "mint" /\ run.todo = {}

PlansCollect ==
    /\ PlansCollectable
    /\ rows' = KeptLatest(PlanFiles)
    /\ run' = [run EXCEPT !.step = "save"]
    /\ UNCHANGED planVars

PlansSaveAlways ==
    /\ run.job = "plans" /\ run.step = "save"
    /\ planMark' = run.mark
    /\ run' = Idle
    /\ UNCHANGED plans
PlansSave ==
    /\ run.job = "plans" /\ run.step = "save"
    /\ planMark' = IF run.failed THEN planMark ELSE run.mark
    /\ run' = Idle
    /\ UNCHANGED plans
=============================================================================
