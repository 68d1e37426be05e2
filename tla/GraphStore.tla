----------------------------- MODULE GraphStore -----------------------------
(***************************************************************************)
(* The knowledge graph of one project: the named-type rows of the nodes    *)
(* table with their timelines, versions and tombstones, their fields, and  *)
(* the materialized edge index node_refs (packages/core/src/db.ts,         *)
(* packages/core/src/nodeRefs.ts).                                         *)
(*                                                                         *)
(* insertEntries validates a call, awaits the embeddings of its texts,     *)
(* writes in one transaction and then maintains node_refs.  Other calls,   *)
(* of this process or of another on the same SQLite file, come between:    *)
(* Begin / Commit / Index.  A call carries one entry; a call of several is *)
(* a longer one of these.                                                  *)
(*                                                                         *)
(* A row's id is its position in nodes.  The anonymous nodes below a field *)
(* are part of the field: they belong to one row and are copied with it.   *)
(* Texts, embeddings, timestamps and field paths are left out.             *)
(***************************************************************************)
EXTENDS Sequences, FiniteSets, Integers

CONSTANTS
    Types,        \* named types
    States,       \* [Types -> Seq]: the ordered state machine of each type
    WithHistory,  \* the types that declare withHistory: true
    NoState,      \* no $state given; NULL in nodes.state
    Keys,         \* field names
    Required,     \* the keys that are not OptionalType
    Clients,      \* insertEntries calls that may be under way at once
    Ops,          \* the kinds of entry and the other operations in use
    Shapes,       \* the kinds of value the entries carry
    Asked,        \* the $state they carry, NoState for none
    HeadsOnly,    \* TRUE: callers name only rows that are not tombstoned
    MaxRows       \* bound: rows the table may reach

StateNames == UNION {{States[t][i] : i \in DOMAIN States[t]} : t \in Types}
Ids == 1..MaxRows

\* The kinds of entry: new, additive patch, patch with overwrite: true, bump,
\* delete with and without bumpVersion: true.
Kinds == {"insert", "patch", "overwrite", "bump", "deleteBump", "delete"}

ASSUME GraphAssumption ==
    /\ \A t \in Types : States[t] \in Seq(StateNames) /\ States[t] # <<>>
    /\ WithHistory \subseteq Types
    /\ NoState \notin StateNames
    /\ Required \subseteq Keys
    /\ Ops \subseteq Kinds \cup {"setState", "append"}
    /\ Shapes \subseteq {"absent", "null", "bad", "anon", "list", "ref"}
    /\ Asked \subseteq StateNames \cup {NoState}
    /\ HeadsOnly \in BOOLEAN
    /\ MaxRows \in Nat

VARIABLES
    nodes,   \* the named-type rows, oldest first
    refs,    \* node_refs, as pairs <<src_id, dst_id>>
    call     \* what each client is in the middle of

vars == <<nodes, refs, call>>

\* A field: nothing, an anonymous node (an atom, or a list of named nodes), or
\* a reference to a named node.  hidden: the anonymous part is tombstoned.
Field == [kind: {"none", "anon", "ref"}, to: SUBSET Ids, hidden: BOOLEAN]
Empty == [kind |-> "none", to |-> {}, hidden |-> FALSE]
Row   == [type: Types, state: StateNames \cup {NoState}, timeline: Ids,
          version: Nat \ {0}, tombstone: BOOLEAN, fields: [Keys -> Field]]

\* What an entry gives for a key.
Given == [kind: {"absent", "null", "bad", "anon", "ref"}, to: SUBSET Ids]
Entry == [op: Ops \cap Kinds, id: Ids \cup {0}, type: Types, state: StateNames \cup {NoState},
          data: [Keys -> Given]]

Call == [pc: {"embedding", "indexing"}, entry: Entry, existing: SUBSET Keys,
         bump: BOOLEAN, made: Ids \cup {0}]
        \cup [pc: {"idle"}]
Free == [pc |-> "idle"]

Init ==
    /\ nodes = <<>>
    /\ refs = {}
    /\ call = [c \in Clients |-> Free]
-----------------------------------------------------------------------------
(* The entries a client may send.                                          *)

Rows  == DOMAIN nodes
Value(kind, to) == [kind |-> kind, to |-> to]

Values ==
    {Value(s, {}) : s \in Shapes \cap {"absent", "null", "bad", "anon"}}
    \cup {Value("anon", {d}) : d \in IF "list" \in Shapes THEN Rows ELSE {}}
    \cup {Value("ref", {d}) : d \in IF "ref" \in Shapes THEN Rows ELSE {}}

Names(op, n) ==
    IF op = "insert" THEN n = 0
                     ELSE n \in Rows /\ (HeadsOnly => ~nodes[n].tombstone)
-----------------------------------------------------------------------------
(* Phase 1 and 2.5: what is accepted.                                      *)

Range(s) == {s[i] : i \in DOMAIN s}
First(t) == States[t][1]
Final(t) == States[t][Len(States[t])]
MultiState(t) == Len(States[t]) > 1

\* nodes.state NULL reads as the final state.
Effective(n) ==
    IF nodes[n].state = NoState THEN Final(nodes[n].type) ELSE nodes[n].state

\* Single-state types keep NULL.
Stored(t, s) == CASE ~MultiState(t) -> NoState
                  [] s = NoState    -> First(t)
                  [] OTHER          -> s

\* A row in its final state takes no patch without $state.
Mutable(e) == e.state # NoState \/ Effective(e.id) # Final(e.type)

Filled(e) == {k \in Keys : e.data[k].kind \notin {"absent", "null"}}

Accepted(e) ==
    /\ e.state \in Range(States[e.type]) \cup {NoState}
    /\ e.op # "insert" => nodes[e.id].type = e.type
    /\ e.op = "insert" => Required \subseteq Filled(e)
    /\ e.op \in {"patch", "overwrite"} =>
          /\ e.state # NoState \/ \E k \in Keys : e.data[k].kind # "absent"
          /\ Mutable(e)
    /\ e.op \in {"bump", "deleteBump"} => e.type \in WithHistory
    /\ e.op # "delete"     \* delete without bumpVersion is always an error

Existing(n) == {k \in Keys : nodes[n].fields[k].kind # "none"}

\* insertEntries up to the await of the embeddings.  An entry that is not
\* accepted is answered with its error and leaves everything as it is.
Send(c, e) ==
    /\ Names(e.op, e.id)
    /\ \A k \in Keys : e.id \notin e.data[k].to
    /\ e.op \in {"delete", "deleteBump"} => \A k \in Keys : e.data[k].kind = "absent"
    /\ Accepted(e)
    /\ e.op \in {"insert", "bump", "deleteBump"} => Len(nodes) < MaxRows
    /\ LET patch == e.op \in {"patch", "overwrite"}
       IN call' = [call EXCEPT ![c] =
             [pc |-> "embedding", entry |-> e,
              existing |-> IF patch THEN Existing(e.id) ELSE {},
              bump |-> patch /\ e.state # NoState /\ e.state # Effective(e.id),
              made |-> 0]]

Begin(c) ==
    /\ call[c] = Free
    /\ \E op \in Ops \cap Kinds, n \in Rows \cup {0}, t \in Types, s \in Asked,
          d \in [Keys -> Values] :
          Send(c, [op |-> op, id |-> n, type |-> t, state |-> s, data |-> d])
    /\ UNCHANGED <<nodes, refs>>
-----------------------------------------------------------------------------
(* Phase 4: the transaction.                                               *)

\* buildEntryNode: an unacceptable value is an error of its own and leaves
\* the field out.
Built(g) == IF g.kind \in {"anon", "ref"}
            THEN [kind |-> g.kind, to |-> g.to, hidden |-> FALSE] ELSE Empty

\* Mutant of Allocated: the id of the entry, also for new rows.
EntryId(e) == e.id

\* Phase 2: a bump and an insert get a fresh id, a patch keeps its own.
Allocated(e) == IF e.op \in {"insert", "bump", "deleteBump"} THEN Len(nodes) + 1 ELSE e.id

NewRow(e, timeline, version, dead, fields) ==
    [type |-> e.type, state |-> Stored(e.type, e.state), timeline |-> timeline,
     version |-> version, tombstone |-> dead, fields |-> fields]

\* Mutant of Met: the walk goes on below a named node.
MetBeyond(S) == S \cup UNION {nodes[n].fields[k].to : n \in S, k \in Keys}

\* tombstoneAnonymousSubtree, of the named nodes S among the first it comes to:
\* each is tombstoned, and then it stops there.
Met(S) == S

\* What it comes to from row n; n's anonymous nodes are tombstoned as well.
Below(n) == Met(UNION {nodes[n].fields[k].to : k \in Keys}) \ {n}

\* A row after the walk: dead, if the row is met; bare, if it is a root whose
\* anonymous nodes are.
HideField(f, bare) == [f EXCEPT !.hidden = f.hidden \/ (bare /\ f.kind = "anon")]
HideRow(row, dead, bare) ==
    [row EXCEPT !.tombstone = row.tombstone \/ dead,
                !.fields = [k \in Keys |-> HideField(row.fields[k], bare)]]

\* Mutant of Hide: only what is anonymous is hidden.
HideBodies(dead, bare) == [n \in Rows |-> HideRow(nodes[n], FALSE, n \in bare)]

\* The table after the walk.
Hide(dead, bare) == [n \in Rows |-> HideRow(nodes[n], n \in dead, n \in bare)]

CommitInsert(c) ==
    LET e == call[c].entry
    IN /\ e.op = "insert"
       /\ Len(nodes) < MaxRows
       /\ nodes' = Append(nodes, NewRow(e, Len(nodes) + 1, 1, FALSE,
                                        [k \in Keys |-> Built(e.data[k])]))
       /\ call' = [call EXCEPT ![c].pc = "indexing", ![c].made = Allocated(e)]
       /\ UNCHANGED refs

\* Mutant of Copied: v_next shares the anonymous nodes of v_prev.
Shared(f) == [f EXCEPT !.hidden = f.kind = "anon"]

\* deepCopyAnonymousSubtree: anonymous nodes are copied, named ones aliased.
Copied(f) == [f EXCEPT !.hidden = FALSE]

Carried(e) ==
    [k \in Keys |-> IF e.data[k].kind = "absent" THEN Copied(nodes[e.id].fields[k])
                                                 ELSE Built(e.data[k])]

\* Mutant of NextVersion: the version is copied.
SameVersion(n) == nodes[n].version

NextVersion(n) == nodes[n].version + 1

CommitBump(c) ==
    LET e == call[c].entry
        body == IF e.op = "deleteBump" THEN [k \in Keys |-> Empty] ELSE Carried(e)
        next == NewRow(e, nodes[e.id].timeline, NextVersion(e.id),
                       e.op = "deleteBump", body)
    IN /\ e.op \in {"bump", "deleteBump"}
       /\ Len(nodes) < MaxRows
       /\ nodes' = Append(Hide(Below(e.id) \cup {e.id}, {e.id}), next)
       /\ call' = [call EXCEPT ![c].pc = "indexing", ![c].made = Allocated(e)]
       /\ UNCHANGED refs

\* The keys a patch writes: those absent at validation, or all under overwrite.
\* A key whose new value cannot be built still loses its old one.
Written(c) ==
    LET e == call[c].entry
    IN {k \in Filled(e) :
          IF k \in call[c].existing THEN e.op = "overwrite"
                                    ELSE e.data[k].kind # "bad"}

\* map_entries has one row per (map_id, key): a key that another call added
\* during the await, and that this one believes absent, violates it.
Collides(c) ==
    \E k \in Written(c) :
        /\ k \notin call[c].existing
        /\ nodes[call[c].entry.id].fields[k].kind # "none"

Old(c, k) == nodes[call[c].entry.id].fields[k]

\* The values an overwrite replaces, and those of them that are anonymous.
Replaced(c) == {k \in Written(c) \cap call[c].existing : Old(c, k).kind # "none"}
ReplacedLists(c) == {k \in Replaced(c) : Old(c, k).kind = "anon"}
ReplacedRefs(c) == UNION {Old(c, k).to : k \in Replaced(c) \ ReplacedLists(c)}

\* The walk has the replaced value as its root: it meets the named nodes of a
\* replaced list, and what lies below the target of a replaced reference.
AfterReplace(c) ==
    Hide(Met(UNION {Old(c, k).to : k \in ReplacedLists(c)})
            \cup UNION {Below(d) : d \in ReplacedRefs(c)},
         ReplacedRefs(c))

PatchedRow(c, row) ==
    LET e == call[c].entry
    IN [row EXCEPT
          !.state = IF call[c].bump /\ MultiState(e.type) THEN e.state ELSE row.state,
          !.fields = [k \in Keys |-> IF k \in Written(c) THEN Built(e.data[k])
                                                        ELSE row.fields[k]]]

CommitPatch(c) ==
    LET n == call[c].entry.id
    IN /\ call[c].entry.op \in {"patch", "overwrite"}
       /\ ~Collides(c)
       /\ nodes' = [AfterReplace(c) EXCEPT ![n] = PatchedRow(c, AfterReplace(c)[n])]
       /\ call' = [call EXCEPT ![c].pc = "indexing",
                               ![c].made = Allocated(call[c].entry)]
       /\ UNCHANGED refs

\* The transaction throws and is rolled back; insertEntries rejects.
CommitFails(c) ==
    /\ call[c].entry.op \in {"patch", "overwrite"}
    /\ Collides(c)
    /\ call' = [call EXCEPT ![c] = Free]
    /\ UNCHANGED <<nodes, refs>>

Commit(c) ==
    /\ call[c].pc = "embedding"
    /\ CommitInsert(c) \/ CommitBump(c) \/ CommitPatch(c) \/ CommitFails(c)
-----------------------------------------------------------------------------
(* After the transaction: the edge index.                                  *)

Targets(n) == UNION {nodes[n].fields[k].to : k \in Keys}

Closed(T) == \A n \in T : Targets(n) \subseteq T

\* The rows of S and all that can be reached from them.  (The walk stops at
\* depth 20, which no instance here reaches.)
Reach(S) == {n \in Rows : \A T \in SUBSET Rows : S \subseteq T /\ Closed(T) => n \in T}

\* populateForRoot: an edge from every named node on a path below root to
\* every named node further down that path.
Walk(root) ==
    UNION {{<<a, b>> : b \in Reach(Targets(a)) \ {a}} : a \in Reach({root})}

\* Mutant of Redirected: the edges to v_prev are dropped.
Dropped(prev, next) == {r \in refs : prev \notin {r[1], r[2]}}

\* A bump drops v_prev's edges and redirects those to it to v_next.
Redirected(prev, next) ==
    {<<r[1], IF r[2] = prev THEN next ELSE r[2]>> : r \in {q \in refs : q[1] # prev}}

Index(c) ==
    LET e == call[c].entry
        id == call[c].made
    IN /\ call[c].pc = "indexing"
       /\ refs' = Walk(id) \cup (IF e.op \in {"bump", "deleteBump"}
                                 THEN Redirected(e.id, id) ELSE refs)
       /\ call' = [call EXCEPT ![c] = Free]
       /\ UNCHANGED nodes
-----------------------------------------------------------------------------
(* Operations that are one synchronous piece of code.                      *)

\* setNodeState by the indexers.
SetNodeState(n, s) ==
    /\ "setState" \in Ops
    /\ s \in Range(States[nodes[n].type])
    /\ s # nodes[n].state
    /\ nodes' = [nodes EXCEPT ![n].state = s]
    /\ UNCHANGED <<refs, call>>

\* Mutant of Refreshed: the list grows, the index does not.
Unrefreshed(n) == refs

\* The index after a walk from the row the list belongs to.
Refreshed(n) == refs \cup Walk(n)'

\* appendListItemsUnique on a list field: add what is missing, walk again.
AppendListItems(n, k, d) ==
    /\ "append" \in Ops
    /\ nodes[n].fields[k].kind = "anon"
    /\ d \notin nodes[n].fields[k].to
    /\ nodes' = [nodes EXCEPT ![n].fields[k].to = @ \cup {d}]
    /\ refs' = Refreshed(n)
    /\ UNCHANGED call

Next ==
    \/ \E c \in Clients : Begin(c) \/ Commit(c) \/ Index(c)
    \/ \E n \in Rows, s \in StateNames : SetNodeState(n, s)
    \/ \E n, d \in Rows, k \in Keys : n # d /\ AppendListItems(n, k, d)

Spec == Init /\ [][Next]_vars
-----------------------------------------------------------------------------
(* What must hold.                                                         *)

\* Every variable has its type; timelines and edges name rows of the table, and
\* a call under way names the row it patches, bumps or has written
\* (insertEntries).
TypeOK ==
    /\ nodes \in Seq(Row) /\ Len(nodes) <= MaxRows
    /\ \A n \in Rows : nodes[n].timeline \in Rows
    /\ refs \subseteq Rows \X Rows
    /\ call \in [Clients -> Call]
    /\ \A c \in Clients : call[c].pc # "idle" =>
          /\ call[c].entry.op = "insert" \/ call[c].entry.id \in Rows
          /\ call[c].pc = "indexing" => call[c].made \in Rows

Live(n) == ~nodes[n].tombstone
SameTimeline(m, n) == nodes[m].timeline = nodes[n].timeline
Supersedes(m, n) == SameTimeline(m, n) /\ nodes[m].version = nodes[n].version + 1

\* The history of a timeline has no gap: behind every version above the first
\* stands its predecessor, and it is tombstoned, whatever calls overlapped and
\* however old the id was that a bump named (db.ts, the bump pass).
HistoryIsUnbroken ==
    \A n \in Rows : nodes[n].version > 1 =>
        \E p \in Rows : Supersedes(n, p) /\ ~Live(p)

\* What a visible row says is visible: no live row has a tombstoned anonymous
\* node in its body.  A bump hides a body only with its row, and v_next has
\* copies of its own (db.ts, deepCopyAnonymousSubtree).
LiveRowsAreWhole ==
    \A n \in Rows, k \in Keys : Live(n) => ~nodes[n].fields[k].hidden

\* The edge index is complete: a live row that references a node has an edge
\* to a version of that node, once the calls that wrote the row have finished
\* (nodeRefs.ts and the post-transaction part of insertEntries).
RefsAreIndexed ==
    \A n \in Rows : \A d \in Targets(n) :
        \/ ~Live(n)
        \/ \E c \in Clients : call[c].pc = "indexing" /\ call[c].made = n
        \/ \E r \in refs : r[1] = n /\ SameTimeline(r[2], d)

\* A timeline never has two rows of one version, and only its newest row may
\* be live: what loadNodeAtVersion and listTimelineVersions take for granted
\* (db.ts:1743).  It needs callers that bump heads only.
OneHeadPerTimeline ==
    \A m, n \in Rows : SameTimeline(m, n) /\ m # n =>
        /\ nodes[m].version # nodes[n].version
        /\ Live(m) => nodes[m].version > nodes[n].version

\* Row p holds a reference to row n.
Holds(p, n) == n # p /\ n \in Targets(p)

\* A row leaves search only by the transaction of a call that bumps it, bumps a
\* row that holds it, or overwrites a field: then it was in the list that is
\* replaced, or held by the row whose reference is.  However long the chains of
\* references, the walk goes no further (db.ts:1326-1329).  It does reach the named
\* nodes that are held: the walk flips a row before it asks whether the row is a
\* named map, where its comment says that named nodes "must not be touched"
\* (db.ts:1305-1307).
HiddenWithHolder ==
    [][\A n \in Rows : Live(n) /\ ~Live(n)' =>
          \E c \in Clients : LET e == call[c].entry IN
             /\ call[c].pc = "embedding" /\ call'[c].pc = "indexing"
             /\ \/ /\ e.op \in {"bump", "deleteBump"}
                   /\ Holds(e.id, n) \/ (n = e.id /\ \E m \in Rows' : Supersedes(m, n)')
                \/ /\ e.op = "overwrite"
                   /\ \E k \in Keys : LET f == nodes[e.id].fields[k] IN
                         IF f.kind = "ref" THEN \E d \in f.to : Holds(d, n) ELSE n \in f.to]_vars

\* With one writer at a time that names heads, the store implements what
\* Timelines leaves of its promise when an edit may hide more than the version
\* it replaces.
History == INSTANCE Timelines WITH
    Timeline <- Ids,
    versions <- {[timeline |-> nodes[n].timeline, version |-> nodes[n].version,
                  live |-> ~nodes[n].tombstone] : n \in Rows}
ImplementsTimelines == History!LossySpec
=============================================================================
