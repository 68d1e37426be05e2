----------------------------- MODULE Timelines ------------------------------
(***************************************************************************)
(* What versioning promises (packages/core/src/schema.ts:20-25 and the     *)
(* versioned lookup of db.ts): a timeline starts at version 1, each edit   *)
(* puts one version on top of the live one and hides that one, a deletion  *)
(* does the same with a version that is hidden from the start, and nothing *)
(* else makes a version appear, disappear or come back.                    *)
(***************************************************************************)
EXTENDS Naturals

CONSTANT Timeline   \* the names of timelines

VARIABLE versions   \* the versions that exist: [timeline, version, live]

Version(t, v, live) == [timeline |-> t, version |-> v, live |-> live]
Opened == {r.timeline : r \in versions}

Init == versions = {}

Open(t) ==
    /\ t \notin Opened
    /\ versions' = versions \cup {Version(t, 1, TRUE)}

Supersede(t, v, live) ==
    /\ Version(t, v, TRUE) \in versions
    /\ versions' = (versions \ {Version(t, v, TRUE)})
                   \cup {Version(t, v, FALSE), Version(t, v + 1, live)}

Next ==
    \E t \in Timeline :
        \/ Open(t)
        \/ \E r \in versions, live \in BOOLEAN : Supersede(t, r.version, live)

Spec == Init /\ [][Next]_versions
-----------------------------------------------------------------------------
(* What is left of it when an edit may hide other versions as well: still  *)
(* none disappears or comes back, and none is made but the first of a      *)
(* timeline and the next after a live one.                                 *)

Hidden(S) == (versions \ S) \cup {Version(r.timeline, r.version, FALSE) : r \in S}

Lose(S) == versions' = Hidden(S)

SupersedeAndLose(t, v, live, S) ==
    /\ Version(t, v, TRUE) \in S
    /\ versions' = Hidden(S) \cup {Version(t, v + 1, live)}

LossyNext ==
    \/ \E t \in Timeline : Open(t)
    \/ \E S \in SUBSET versions :
          \/ Lose(S)
          \/ \E r \in S, live \in BOOLEAN : SupersedeAndLose(r.timeline, r.version, live, S)

LossySpec == Init /\ [][LossyNext]_versions
=============================================================================
