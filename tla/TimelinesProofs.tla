-------------------------- MODULE TimelinesProofs --------------------------
(***************************************************************************)
(* When the store keeps what versioning promises: with one writer at a     *)
(* time that names heads only, a timeline has one head, and the store      *)
(* implements Timelines but for the versions it hides on the way; those    *)
(* are held by what is replaced, whoever writes.                           *)
(***************************************************************************)
EXTENDS GraphStoreProofs

OneWriter == \A c, d \in Clients : c = d

\* The call under way names a row that is still live.
NamesHead ==
    \A c \in Clients : call[c].pc = "embedding" /\ call[c].entry.op # "insert" => Live(call[c].entry.id)

HeadInv == OneHeadPerTimeline /\ NamesHead
-----------------------------------------------------------------------------
(* One writer of heads: a timeline has one head.                           *)

\* What Begin has accepted, when callers name heads only.
LEMMA BegunOnHead ==
    ASSUME TypeOK, HeadsOnly, NEW c \in Clients, Begin(c), call'[c].entry.op # "insert"
    PROVE  Live(call'[c].entry.id)
  <1>1. PICK op \in Ops \cap Kinds, n \in Rows \cup {0}, t \in Types, s \in Asked,
             d \in [Keys -> Values] :
          Send(c, [op |-> op, id |-> n, type |-> t, state |-> s, data |-> d])
    BY DEF Begin
  <1> DEFINE e == [op |-> op, id |-> n, type |-> t, state |-> s, data |-> d]
  <1>2. PICK x, b : call' = [call EXCEPT ![c] =
                       [pc |-> "embedding", entry |-> e, existing |-> x, bump |-> b, made |-> 0]]
    BY <1>1 DEF Send
  <1>3. call'[c].entry.op = op /\ call'[c].entry.id = n
    BY <1>2 DEF TypeOK
  <1>4. Names(op, n)
    BY <1>1 DEF Send
  <1> QED
    BY <1>3, <1>4 DEF Names, Live

\* Setting a state and extending a list leave the tombstones alone.
LEMMA TombstonesStay ==
    ASSUME TypeOK, NEW n \in Rows,
           (\E s \in StateNames : SetNodeState(n, s)) \/ (\E d \in Rows, k \in Keys : AppendListItems(n, k, d))
    PROVE  \A i \in Rows : nodes'[i].tombstone = nodes[i].tombstone
  <1>1. nodes \in Seq(Row) /\ nodes[n] \in Row
    BY RowsAreIds DEF TypeOK
  <1>2. PICK row : nodes' = [nodes EXCEPT ![n] = row] /\ row.tombstone = nodes[n].tombstone
    <2>1. CASE \E s \in StateNames : SetNodeState(n, s)
      <3>1. PICK s \in StateNames : SetNodeState(n, s)
        BY <2>1
      <3>2. nodes' = [nodes EXCEPT ![n] = [nodes[n] EXCEPT !.state = s]]
        BY <1>1, <3>1 DEF SetNodeState
      <3>3. [nodes[n] EXCEPT !.state = s].tombstone = nodes[n].tombstone
        BY <1>1 DEF Row
      <3> QED
        BY <3>2, <3>3
    <2>2. CASE \E d \in Rows, k \in Keys : AppendListItems(n, k, d)
      <3>1. PICK d \in Rows, k \in Keys : AppendListItems(n, k, d)
        BY <2>2
      <3>2. PICK f : nodes' = [nodes EXCEPT ![n] = [nodes[n] EXCEPT !.fields = f]]
        BY <1>1, <3>1 DEF AppendListItems
      <3>3. [nodes[n] EXCEPT !.fields = f].tombstone = nodes[n].tombstone
        BY <1>1 DEF Row
      <3> QED
        BY <3>2, <3>3
    <2> QED
      BY <2>1, <2>2
  <1> QED
    BY <1>1, <1>2 DEF Rows

\* A step that leaves rows in their place leaves heads alone.
LEMMA SameRowsKeepHeads ==
    ASSUME TypeOK, SameRows, OneHeadPerTimeline
    PROVE  OneHeadPerTimeline'
  BY DEF SameRows, OneHeadPerTimeline, SameTimeline, Live

\* A new row has a timeline to itself, or stands on the head of its own.
LEMMA NewHead ==
    ASSUME TypeOK, OneHeadPerTimeline, NEW m, m \notin Rows, Rows' = Rows \cup {m},
           \A n \in Rows : /\ nodes'[n].timeline = nodes[n].timeline
                           /\ nodes'[n].version = nodes[n].version
                           /\ nodes[n].tombstone => nodes'[n].tombstone,
           \/ \A n \in Rows : nodes[n].timeline # nodes'[m].timeline
           \/ \E p \in Rows : /\ nodes'[m].timeline = nodes[p].timeline
                              /\ nodes'[m].version = nodes[p].version + 1
                              /\ Live(p) /\ nodes'[p].tombstone
    PROVE  OneHeadPerTimeline'
  <1>1. \A n \in Rows : nodes[n].version \in Nat
    BY RowsAreIds DEF Row
  <1>2. \A n \in Rows : SameTimeline(m, n)' =>
           nodes'[n].tombstone /\ nodes'[n].version < nodes'[m].version
    <2> SUFFICES ASSUME NEW n \in Rows, SameTimeline(m, n)'
                 PROVE  nodes'[n].tombstone /\ nodes'[n].version < nodes'[m].version
      OBVIOUS
    <2>1. PICK p \in Rows : /\ nodes'[m].timeline = nodes[p].timeline
                            /\ nodes'[m].version = nodes[p].version + 1
                            /\ Live(p) /\ nodes'[p].tombstone
      BY DEF SameTimeline
    <2>2. CASE n = p
      BY <1>1, <2>1, <2>2
    <2>3. CASE n # p
      <3>1. SameTimeline(p, n)
        BY <2>1 DEF SameTimeline
      <3>2. nodes[p].version > nodes[n].version /\ ~Live(n)
        BY <1>1, <2>1, <2>3, <3>1 DEF OneHeadPerTimeline, SameTimeline
      <3> QED
        BY <1>1, <2>1, <3>2 DEF Live
    <2> QED
      BY <2>2, <2>3
  <1> SUFFICES ASSUME NEW i \in Rows', NEW j \in Rows', SameTimeline(i, j)', i # j
               PROVE  /\ nodes'[i].version # nodes'[j].version
                      /\ ~nodes'[i].tombstone => nodes'[i].version > nodes'[j].version
    BY DEF OneHeadPerTimeline, Live
  <1>3. CASE i \in Rows /\ j \in Rows
    BY <1>3 DEF OneHeadPerTimeline, SameTimeline, Live
  <1>4. CASE i = m /\ j \in Rows
    <2>1. nodes'[j].version < nodes'[i].version
      BY <1>2, <1>4
    <2>2. nodes'[j].version \in Nat /\ (nodes'[i].version \in Nat \/ \A n \in Rows : nodes[n].timeline # nodes'[m].timeline)
      BY <1>1, <1>4
    <2> QED
      BY <1>1, <2>1, <2>2, <1>4 DEF SameTimeline
  <1>5. CASE i \in Rows /\ j = m
    <2>1. SameTimeline(m, i)'
      BY <1>5 DEF SameTimeline
    <2> QED
      BY <1>1, <1>2, <1>5, <2>1 DEF SameTimeline
  <1> QED
    BY <1>3, <1>4, <1>5

\* Each step of one writer of heads.
LEMMA NextKeepsHeads ==
    ASSUME OneWriter, HeadsOnly, IInv, HeadInv, [Next]_vars
    PROVE  HeadInv'
  <1> USE DEF IInv, HeadInv
  <1>1. ASSUME nodes' = nodes
        PROVE  OneHeadPerTimeline' /\ \A n : Live(n)' <=> Live(n)
    BY <1>1 DEF OneHeadPerTimeline, SameTimeline, Live, Rows
  <1>2. ASSUME NEW c \in Clients, Begin(c) PROVE HeadInv'
    <2>1. nodes' = nodes /\ \A d \in Clients : d = c
      BY <1>2 DEF Begin, OneWriter
    <2>2. NamesHead'
      BY <1>1, <1>2, <2>1, BegunOnHead DEF NamesHead
    <2> QED
      BY <1>1, <2>1, <2>2
  <1>3. ASSUME NEW c \in Clients, call[c].pc = "embedding", CommitInsert(c) PROVE HeadInv'
    <2>1. PICK e, m : e = call[c].entry /\ m = Len(nodes) + 1
      OBVIOUS
    <2>2. /\ Rows' = Rows \cup {m} /\ m \notin Rows /\ m \in Ids
          /\ \A n \in Rows : nodes'[n] = nodes[n]
          /\ nodes'[m].timeline = m
      BY <1>3, <2>1, InsertStep
    <2>3. \A n \in Rows : nodes[n].timeline # nodes'[m].timeline
      BY <2>2 DEF TypeOK
    <2>4. OneHeadPerTimeline'
      BY <2>2, <2>3, NewHead
    <2>5. NamesHead'
      BY <1>3 DEF CommitInsert, NamesHead, OneWriter, TypeOK, Call
    <2> QED
      BY <2>4, <2>5
  <1>4. ASSUME NEW c \in Clients, call[c].pc = "embedding", CommitBump(c) PROVE HeadInv'
    <2>1. PICK e, m : e = call[c].entry /\ m = Len(nodes) + 1
      OBVIOUS
    <2>2. /\ Rows' = Rows \cup {m} /\ m \notin Rows /\ m \in Ids
          /\ e.id \in Rows /\ e.op \in Bumps
          /\ nodes'[e.id].tombstone
          /\ \A n \in Rows :
               /\ nodes'[n].timeline = nodes[n].timeline
               /\ nodes'[n].version = nodes[n].version
               /\ nodes[n].tombstone => nodes'[n].tombstone
          /\ nodes'[m].timeline = nodes[e.id].timeline
          /\ nodes'[m].version = nodes[e.id].version + 1
      BY <1>4, <2>1, BumpStep
    <2>3. Live(e.id)
      BY <1>4, <2>1, <2>2 DEF NamesHead, Bumps
    <2>4. OneHeadPerTimeline'
      BY <2>2, <2>3, NewHead
    <2>5. NamesHead'
      BY <1>4, <2>1 DEF CommitBump, NamesHead, OneWriter, TypeOK, Call
    <2> QED
      BY <2>4, <2>5
  <1>5. ASSUME NEW c \in Clients, call[c].pc = "embedding", CommitPatch(c) PROVE HeadInv'
    <2>1. PICK e : e = call[c].entry
      OBVIOUS
    <2>2. SameRows
      BY <1>5, <2>1, PatchStep
    <2>3. NamesHead'
      BY <1>5 DEF CommitPatch, NamesHead, OneWriter, TypeOK, Call
    <2> QED
      BY <2>2, <2>3, SameRowsKeepHeads
  <1>6. ASSUME NEW c \in Clients, CommitFails(c) \/ Index(c) PROVE HeadInv'
    <2>1. nodes' = nodes /\ call' = [call EXCEPT ![c] = Free]
      BY <1>6 DEF CommitFails, Index
    <2>2. NamesHead'
      BY <2>1 DEF NamesHead, OneWriter, TypeOK, Free
    <2> QED
      BY <1>1, <2>1, <2>2
  <1>7. ASSUME NEW n \in Rows, (\E s \in StateNames : SetNodeState(n, s))
                               \/ (\E d \in Rows, k \in Keys : AppendListItems(n, k, d))
        PROVE  HeadInv'
    <2>1. SameRows /\ call' = call
      BY <1>7, SetStateStep, AppendStep DEF SetNodeState, AppendListItems
    <2>2. \A i \in Rows : Live(i) => Live(i)'
      BY <1>7, TombstonesStay DEF Live
    <2>3. NamesHead'
      BY <2>1, <2>2 DEF NamesHead, TypeOK
    <2> QED
      BY <2>1, <2>3, SameRowsKeepHeads
  <1>8. CASE UNCHANGED vars
    BY <1>1, <1>8 DEF vars, NamesHead
  <1> QED
    BY <1>2, <1>3, <1>4, <1>5, <1>6, <1>7, <1>8 DEF Next, Commit

\* However many states are set and lists grow meanwhile, a timeline whose rows are bumped by one writer at
\* a time, each time at the head, has one head and no two rows of one version: versioned lookups
\* (db.ts, loadNodeAtVersion and listTimelineVersions) find what they take for granted.
THEOREM TimelinesHaveOneHead ==
    ASSUME OneWriter, HeadsOnly
    PROVE  Spec => []OneHeadPerTimeline
  <1>1. Init => HeadInv
    BY DEF Init, HeadInv, OneHeadPerTimeline, NamesHead, Rows, Free
  <1>2. IInv /\ HeadInv /\ [Next]_vars => HeadInv'
    BY NextKeepsHeads
  <1>3. HeadInv => OneHeadPerTimeline
    BY DEF HeadInv
  <1> QED
    BY <1>1, <1>2, <1>3, SpecInv, PTL DEF Spec
-----------------------------------------------------------------------------
(* What a transaction hides.                                               *)

\* The named nodes the walk of an overwrite comes to.
Reached(c) ==
    Met(UNION {Old(c, k).to : k \in ReplacedLists(c)}) \cup UNION {Below(d) : d \in ReplacedRefs(c)}

\* A bump hides its row and what the walk from there comes to, and no other row.
LEMMA BumpHides ==
    ASSUME IInv, NEW c \in Clients, call[c].pc = "embedding", CommitBump(c),
           NEW e, e = call[c].entry, NEW m, m = Len(nodes) + 1
    PROVE  /\ \A n \in Rows : nodes'[n].tombstone = (nodes[n].tombstone \/ n \in Below(e.id) \cup {e.id})
           /\ nodes'[m].tombstone \in BOOLEAN
  <1> USE DEF IInv
  <1> DEFINE body == IF e.op = "deleteBump" THEN [k \in Keys |-> Empty] ELSE Carried(e)
             gone == e.op = "deleteBump"
             row == NewRow(e, nodes[e.id].timeline, NextVersion(e.id), gone, body)
             hid == Hide(Below(e.id) \cup {e.id}, {e.id})
  <1>1. Rows = 1..Len(nodes) /\ Len(nodes) \in Nat /\ e.id \in Rows
    BY RowsAreIds, BumpStep
  <1>2. /\ Len(hid) = Len(nodes) /\ DOMAIN hid = Rows /\ hid \in Seq(Row)
        /\ \A n \in Rows : hid[n].tombstone = (nodes[n].tombstone \/ n \in Below(e.id) \cup {e.id})
    BY HideType
  <1>3. nodes' = Append(hid, row)
    BY DEF CommitBump
  <1>4. nodes'[m] = row /\ \A n \in Rows : nodes'[n] = hid[n]
    <2> HIDE DEF hid, row
    <2> QED
      BY <1>1, <1>2, <1>3
  <1>5. row.tombstone \in BOOLEAN
    BY DEF NewRow
  <1> HIDE DEF hid, row
  <1> QED
    BY <1>2, <1>4, <1>5

\* A patch hides what the walk of an overwrite comes to, and no other row.
LEMMA PatchHides ==
    ASSUME IInv, NEW c \in Clients, call[c].pc = "embedding", CommitPatch(c)
    PROVE  \A n \in Rows : nodes'[n].tombstone = (nodes[n].tombstone \/ n \in Reached(c))
  <1> USE DEF IInv
  <1> DEFINE e == call[c].entry
             hid == AfterReplace(c)
             row == PatchedRow(c, hid[e.id])
  <1>1. e.id \in Rows
    <2>1. PICK x : x = e
      OBVIOUS
    <2> QED
      BY <2>1, PatchStep
  <1>2. hid = Hide(Reached(c), ReplacedRefs(c))
    BY DEF AfterReplace, Reached
  <1>3. nodes' = [hid EXCEPT ![e.id] = row]
    BY DEF CommitPatch
  <1> HIDE DEF hid
  <1>4. DOMAIN hid = Rows /\ \A n \in Rows : hid[n] \in Row /\ hid[n].tombstone = (nodes[n].tombstone \/ n \in Reached(c))
    BY <1>2, HideType
  <1>5. row.tombstone = hid[e.id].tombstone
    BY <1>1, <1>4 DEF PatchedRow, Row
  <1> HIDE DEF row
  <1>6. \A n \in Rows : nodes'[n].tombstone = hid[n].tombstone
    BY <1>1, <1>3, <1>4, <1>5
  <1> QED
    BY <1>4, <1>6

\* A row that the walk of an overwrite comes to is in a list that the call replaces, or held by the row
\* whose reference it replaces.
LEMMA MetIsHeld ==
    ASSUME IInv, NEW c \in Clients, call[c].pc = "embedding", CommitPatch(c), NEW n \in Reached(c)
    PROVE  /\ call[c].entry.op = "overwrite"
           /\ \E k \in Keys : LET f == nodes[call[c].entry.id].fields[k] IN
                 IF f.kind = "ref" THEN \E d \in f.to : Holds(d, n) ELSE n \in f.to
  <1> DEFINE e == call[c].entry
  <1>1. \A k \in Replaced(c) : k \in Keys /\ e.op = "overwrite"
    BY DEF Replaced, Written, Filled
  <1>2. CASE n \in Met(UNION {Old(c, k).to : k \in ReplacedLists(c)})
    <2>1. PICK k \in ReplacedLists(c) : n \in Old(c, k).to
      BY <1>2 DEF Met
    <2>2. k \in Keys /\ e.op = "overwrite" /\ Old(c, k).kind = "anon"
      BY <1>1, <2>1 DEF ReplacedLists
    <2> QED
      BY <2>1, <2>2 DEF Old
  <1>3. CASE n \in UNION {Below(d) : d \in ReplacedRefs(c)}
    <2>1. PICK d \in ReplacedRefs(c) : n \in Below(d)
      BY <1>3
    <2>2. PICK k \in Replaced(c) \ ReplacedLists(c) : d \in Old(c, k).to
      BY <2>1 DEF ReplacedRefs
    <2>3. k \in Keys /\ e.op = "overwrite" /\ Old(c, k).kind \notin {"none", "anon"}
      BY <1>1, <2>2 DEF Replaced, ReplacedLists
    <2>4. e.id \in Rows
      <3>1. PICK x : x = e
        OBVIOUS
      <3> QED
        BY <3>1, PatchStep DEF IInv
    <2>5. Old(c, k).kind = "ref"
      <3>1. nodes[e.id].fields[k] \in Field
        BY <2>3, <2>4, RowsAreIds DEF IInv, Row
      <3> QED
        BY <2>3, <3>1 DEF Old, Field
    <2>6. Holds(d, n)
      BY <2>1 DEF Below, Met, Holds, Targets
    <2> QED
      BY <2>2, <2>3, <2>5, <2>6 DEF Old
  <1> QED
    BY <1>2, <1>3 DEF Reached

\* Whatever the values and however many writers overlap, a row leaves search only with the row that a bump
\* replaces or with the value that an overwrite replaces, and only when it is the bumped row or the first
\* named node the walk comes to (db.ts:1312-1334, tombstoneAnonymousSubtree).
THEOREM WalksStopAtNamedNodes == Spec => HiddenWithHolder
  <1>1. IInv /\ [Next]_vars =>
           [\A n \in Rows : Live(n) /\ ~Live(n)' =>
              \E c \in Clients : LET e == call[c].entry IN
                 /\ call[c].pc = "embedding" /\ call'[c].pc = "indexing"
                 /\ \/ /\ e.op \in {"bump", "deleteBump"}
                       /\ Holds(e.id, n) \/ (n = e.id /\ \E m \in Rows' : Supersedes(m, n)')
                    \/ /\ e.op = "overwrite"
                       /\ \E k \in Keys : LET f == nodes[e.id].fields[k] IN
                             IF f.kind = "ref" THEN \E d \in f.to : Holds(d, n) ELSE n \in f.to]_vars
    <2> SUFFICES ASSUME IInv, Next, NEW n \in Rows, Live(n), ~Live(n)'
                 PROVE  \E c \in Clients :
                   /\ call[c].pc = "embedding" /\ call'[c].pc = "indexing"
                   /\ \/ /\ call[c].entry.op \in {"bump", "deleteBump"}
                         /\ \/ Holds(call[c].entry.id, n)
                            \/ n = call[c].entry.id /\ \E m \in Rows' : Supersedes(m, n)'
                      \/ /\ call[c].entry.op = "overwrite"
                         /\ \E k \in Keys : LET f == nodes[call[c].entry.id].fields[k] IN
                               IF f.kind = "ref" THEN \E d \in f.to : Holds(d, n) ELSE n \in f.to
      OBVIOUS
    <2>1. nodes[n].tombstone = FALSE /\ nodes'[n].tombstone
      BY RowsAreIds DEF Live, IInv, Row
    <2>2. PICK c \in Clients : Commit(c)
      <3>1. CASE \E c \in Clients : Begin(c) \/ Index(c)
        BY <2>1, <3>1 DEF Begin, Index
      <3>2. CASE \E i \in Rows, s \in StateNames : SetNodeState(i, s)
        BY <2>1, <3>2, TombstonesStay DEF IInv
      <3>3. CASE \E i, d \in Rows, k \in Keys : AppendListItems(i, k, d)
        BY <2>1, <3>3, TombstonesStay DEF IInv
      <3> QED
        BY <3>1, <3>2, <3>3 DEF Next
    <2>3. call[c].pc = "embedding" /\ (CommitBump(c) \/ CommitPatch(c))
      <3>1. CASE CommitInsert(c)
        <4>1. PICK e, m : e = call[c].entry /\ m = Len(nodes) + 1
          OBVIOUS
        <4>2. nodes'[n] = nodes[n]
          BY <2>2, <3>1, <4>1, InsertStep DEF Commit, IInv
        <4> QED
          BY <2>1, <4>2
      <3>2. CASE CommitFails(c)
        BY <2>1, <3>2 DEF CommitFails
      <3> QED
        BY <2>2, <3>1, <3>2 DEF Commit
    <2>4. call'[c].pc = "indexing"
      BY <2>3 DEF CommitBump, CommitPatch, IInv, TypeOK, Call
    <2>5. CASE CommitBump(c)
      <3>1. PICK e, m : e = call[c].entry /\ m = Len(nodes) + 1
        OBVIOUS
      <3>2. /\ e.op \in Bumps /\ e.id \in Rows /\ m \in Rows'
            /\ nodes'[m].timeline = nodes'[e.id].timeline
            /\ nodes'[m].version = nodes'[e.id].version + 1
        BY <2>3, <2>5, <3>1, BumpStep DEF IInv
      <3>3. n \in Below(e.id) \/ n = e.id
        BY <2>1, <2>3, <2>5, <3>1, BumpHides
      <3>4. CASE n \in Below(e.id)
        BY <2>3, <2>4, <3>1, <3>2, <3>4 DEF Below, Met, Holds, Targets, Bumps
      <3>5. CASE n = e.id
        <4>1. Supersedes(m, n)'
          BY <3>2, <3>5 DEF Supersedes, SameTimeline
        <4> QED
          BY <2>3, <2>4, <3>1, <3>2, <3>5, <4>1 DEF Bumps
      <3> QED
        BY <3>3, <3>4, <3>5
    <2>6. CASE CommitPatch(c)
      <3>1. n \in Reached(c)
        BY <2>1, <2>3, <2>6, PatchHides
      <3> QED
        BY <2>3, <2>4, <2>6, <3>1, MetIsHeld
    <2> QED
      BY <2>3, <2>5, <2>6
  <1> QED
    BY <1>1, SpecInv, PTL DEF Spec, HiddenWithHolder
-----------------------------------------------------------------------------
(* The refinement.                                                         *)

\* The kinds of step of a store: the rows stay, though some may be hidden; one opens a timeline; or one
\* supersedes another, and may hide others with it.
RowsKept ==
    \A n \in Rows : /\ nodes'[n].timeline = nodes[n].timeline
                    /\ nodes'[n].version = nodes[n].version
                    /\ nodes[n].tombstone => nodes'[n].tombstone
RowsStay == Rows' = Rows /\ RowsKept
RowOpens(m) ==
    /\ m \notin Rows /\ m \in Ids /\ Rows' = Rows \cup {m} /\ \A n \in Rows : nodes'[n] = nodes[n]
    /\ nodes'[m].timeline = m /\ nodes'[m].version = 1 /\ nodes'[m].tombstone = FALSE
RowSupersedes(m, p) ==
    /\ m \notin Rows /\ p \in Rows /\ Rows' = Rows \cup {m} /\ RowsKept /\ nodes'[p].tombstone
    /\ nodes'[m].timeline = nodes[p].timeline /\ nodes'[m].version = nodes[p].version + 1
    /\ nodes'[m].tombstone \in BOOLEAN

Bumped(c, m) ==
    call[c].pc = "embedding" /\ call[c].entry.op # "insert" /\ RowSupersedes(m, call[c].entry.id)

StoreStep == RowsStay \/ (\E m : RowOpens(m)) \/ \E c \in Clients : \E m : Bumped(c, m)

\* Every step is of one of these kinds.
LEMMA NextIsStoreStep ==
    ASSUME IInv, [Next]_vars
    PROVE  StoreStep
  <1> USE DEF IInv
  <1>1. ASSUME nodes' = nodes  PROVE StoreStep
    BY <1>1 DEF StoreStep, RowsStay, RowsKept, Rows
  <1>2. ASSUME SameRows  PROVE StoreStep
    BY <1>2 DEF StoreStep, RowsStay, RowsKept, SameRows
  <1>3. ASSUME NEW c \in Clients, Begin(c) \/ CommitFails(c) \/ Index(c)  PROVE StoreStep
    BY <1>1, <1>3 DEF Begin, CommitFails, Index
  <1>4. ASSUME NEW c \in Clients, call[c].pc = "embedding", CommitInsert(c)  PROVE StoreStep
    <2>1. PICK e, m : e = call[c].entry /\ m = Len(nodes) + 1
      OBVIOUS
    <2>2. /\ Rows' = Rows \cup {m} /\ m \notin Rows /\ m \in Ids
          /\ \A n \in Rows : nodes'[n] = nodes[n]
          /\ nodes'[m].timeline = m /\ nodes'[m].version = 1
      BY <1>4, <2>1, InsertStep
    <2>3. nodes'[m].tombstone = FALSE
      <3> DEFINE row == NewRow(e, m, 1, FALSE, [k \in Keys |-> Built(e.data[k])])
      <3>1. nodes' = Append(nodes, row) /\ nodes \in Seq(Row)
        BY <1>4, <2>1 DEF CommitInsert, TypeOK
      <3>2. row.tombstone = FALSE
        BY DEF NewRow
      <3> HIDE DEF row
      <3>3. nodes'[m] = row
        BY <2>1, <3>1
      <3> QED
        BY <3>2, <3>3
    <2> QED
      BY <2>2, <2>3 DEF StoreStep, RowOpens
  <1>5. ASSUME NEW c \in Clients, call[c].pc = "embedding", CommitBump(c)  PROVE StoreStep
    <2>1. PICK e, m : e = call[c].entry /\ m = Len(nodes) + 1
      OBVIOUS
    <2>2. /\ Rows' = Rows \cup {m} /\ m \notin Rows /\ e.id \in Rows /\ e.op \in Bumps
          /\ RowsKept /\ nodes'[e.id].tombstone
          /\ nodes'[m].timeline = nodes[e.id].timeline
          /\ nodes'[m].version = nodes[e.id].version + 1
      BY <1>5, <2>1, BumpStep DEF RowsKept
    <2>3. nodes'[m].tombstone \in BOOLEAN
      BY <1>5, <2>1, BumpHides
    <2>4. RowSupersedes(m, e.id)
      BY <2>2, <2>3 DEF RowSupersedes
    <2>5. Bumped(c, m)
      BY <1>5, <2>1, <2>2, <2>4 DEF Bumped, Bumps
    <2> QED
      BY <2>5 DEF StoreStep
  <1>6. ASSUME NEW c \in Clients, call[c].pc = "embedding", CommitPatch(c)  PROVE StoreStep
    <2>1. PICK e : e = call[c].entry
      OBVIOUS
    <2>2. SameRows
      BY <1>6, <2>1, PatchStep
    <2> QED
      BY <1>2, <2>2
  <1>7. ASSUME NEW n \in Rows, (\E s \in StateNames : SetNodeState(n, s))
                               \/ (\E d \in Rows, k \in Keys : AppendListItems(n, k, d))
        PROVE  StoreStep
    BY <1>2, <1>7, SetStateStep, AppendStep
  <1>8. CASE UNCHANGED vars
    BY <1>1, <1>8 DEF vars
  <1> QED
    BY <1>3, <1>4, <1>5, <1>6, <1>7, <1>8 DEF Next, Commit

\* The versions of Timelines, as GraphStore maps them.
VersionOf(n) == [timeline |-> nodes[n].timeline, version |-> nodes[n].version, live |-> ~nodes[n].tombstone]
Versions == {VersionOf(n) : n \in Rows}

\* The versions a step hides, or finds hidden.
Lost == {VersionOf(n) : n \in {i \in Rows : nodes'[i].tombstone}}

\* Rows that are kept are, as versions, what they were but for those that are hidden.
LEMMA KeptIsHidden ==
    ASSUME TypeOK, OneHeadPerTimeline, RowsKept, \A n \in Rows : nodes'[n].tombstone \in BOOLEAN
    PROVE  /\ Lost \subseteq Versions
           /\ {VersionOf(n)' : n \in Rows}
                = (Versions \ Lost) \cup {[timeline |-> r.timeline, version |-> r.version, live |-> FALSE] : r \in Lost}
  <1> DEFINE hid(r) == [timeline |-> r.timeline, version |-> r.version, live |-> FALSE]
             after == (Versions \ Lost) \cup {hid(r) : r \in Lost}
             then(n) == VersionOf(n)'
  <1>1. \A n \in Rows : nodes[n].tombstone \in BOOLEAN
    BY RowsAreIds DEF Row
  <1>2. Lost \subseteq Versions
    BY DEF Lost, Versions
  <1>3. \A n \in Rows : nodes'[n].tombstone => then(n) = hid(VersionOf(n)) /\ VersionOf(n) \in Lost
    BY DEF Lost, VersionOf, RowsKept
  <1>4. \A n \in Rows : ~nodes'[n].tombstone => then(n) = VersionOf(n) /\ VersionOf(n) \notin Lost
    <2> SUFFICES ASSUME NEW n \in Rows, ~nodes'[n].tombstone
                 PROVE  then(n) = VersionOf(n) /\ VersionOf(n) \notin Lost
      OBVIOUS
    <2>1. ~nodes[n].tombstone
      BY <1>1 DEF RowsKept
    <2>2. then(n) = VersionOf(n)
      BY <1>1, <2>1 DEF VersionOf, RowsKept
    <2>3. ASSUME NEW q \in Rows, nodes'[q].tombstone, VersionOf(q) = VersionOf(n)  PROVE FALSE
      <3>1. nodes[q].timeline = nodes[n].timeline /\ nodes[q].version = nodes[n].version
        BY <2>3 DEF VersionOf
      <3>2. q = n
        BY <3>1 DEF OneHeadPerTimeline, SameTimeline
      <3> QED
        BY <2>3, <3>2
    <2> QED
      BY <2>2, <2>3 DEF Lost
  <1>5. \A r \in Versions \ Lost : \E n \in Rows : r = VersionOf(n) /\ ~nodes'[n].tombstone
    BY DEF Versions, Lost
  <1>6. \A r \in Lost : \E n \in Rows : r = VersionOf(n) /\ nodes'[n].tombstone
    BY DEF Lost
  <1> HIDE DEF hid
  <1>7. \A n \in Rows : then(n) \in after
    <2> SUFFICES ASSUME NEW n \in Rows  PROVE then(n) \in after
      OBVIOUS
    <2>1. VersionOf(n) \in Versions
      BY DEF Versions
    <2> HIDE DEF then
    <2> QED
      BY <1>3, <1>4, <2>1
  <1>8. \A r \in after : \E n \in Rows : r = then(n)
    <2> HIDE DEF then
    <2> QED
      BY <1>3, <1>4, <1>5, <1>6
  <1> HIDE DEF then
  <1>9. {then(n) : n \in Rows} = after
    BY <1>7, <1>8
  <1> QED
    BY <1>2, <1>9 DEF then, hid

\* Rows that stay lose versions, or leave them as they are.
LEMMA StayIsLose ==
    ASSUME TypeOK, OneHeadPerTimeline, RowsStay, TypeOK'
    PROVE  /\ Lost \subseteq Versions
           /\ Versions' = (Versions \ Lost)
                 \cup {[timeline |-> r.timeline, version |-> r.version, live |-> FALSE] : r \in Lost}
  <1>1. \A n \in Rows : nodes'[n].tombstone \in BOOLEAN
    <2>1. \A n \in Rows' : nodes'[n] \in Row
      <3>1. PICK h : h = nodes' /\ h \in Seq(Row) /\ Rows' = DOMAIN h
        BY DEF TypeOK, Rows
      <3> QED
        BY <3>1
    <2>2. \A n \in Rows : nodes'[n] \in Row
      BY <2>1 DEF RowsStay
    <2> QED
      BY <2>2 DEF Row
  <1>2. Versions' = {VersionOf(n)' : n \in Rows}
    BY DEF Versions, RowsStay
  <1> QED
    BY <1>1, <1>2, KeptIsHidden DEF RowsStay

\* A new row of its own opens a timeline.
LEMMA OpensIsOpen ==
    ASSUME TypeOK, NEW m, RowOpens(m)
    PROVE  /\ \A r \in Versions : r.timeline # m
           /\ Versions' = Versions \cup {[timeline |-> m, version |-> 1, live |-> TRUE]}
  <1>1. \A n \in Rows : VersionOf(n)' = VersionOf(n)
    BY DEF RowOpens, VersionOf
  <1>2. VersionOf(m)' = [timeline |-> m, version |-> 1, live |-> TRUE]
    BY DEF RowOpens, VersionOf
  <1>3. Versions' = Versions \cup {VersionOf(m)'}
    BY <1>1 DEF RowOpens, Versions
  <1>4. \A n \in Rows : nodes[n].timeline \in Rows
    BY DEF TypeOK
  <1>5. \A r \in Versions : r.timeline # m
    BY <1>4 DEF RowOpens, Versions, VersionOf
  <1> QED
    BY <1>2, <1>3, <1>5

\* A new row on a head hides that head.
LEMMA SupersedesIsSupersede ==
    ASSUME TypeOK, TypeOK', OneHeadPerTimeline, NEW m, NEW p, RowSupersedes(m, p), Live(p),
           NEW t, t = nodes[p].timeline, NEW v, v = nodes[p].version
    PROVE  /\ Lost \subseteq Versions /\ [timeline |-> t, version |-> v, live |-> TRUE] \in Lost
           /\ Versions' = ((Versions \ Lost)
                 \cup {[timeline |-> r.timeline, version |-> r.version, live |-> FALSE] : r \in Lost})
                 \cup {[timeline |-> t, version |-> v + 1, live |-> ~nodes'[m].tombstone]}
  <1>1. \A n \in Rows : nodes'[n].tombstone \in BOOLEAN
    <2>1. \A n \in Rows' : nodes'[n] \in Row
      <3>1. PICK h : h = nodes' /\ h \in Seq(Row) /\ Rows' = DOMAIN h
        BY DEF TypeOK, Rows
      <3> QED
        BY <3>1
    <2>2. \A n \in Rows : nodes'[n] \in Row
      BY <2>1 DEF RowSupersedes
    <2> QED
      BY <2>2 DEF Row
  <1>2. VersionOf(p) = [timeline |-> t, version |-> v, live |-> TRUE] /\ VersionOf(p) \in Lost
    <2>1. nodes[p].tombstone = FALSE
      BY RowsAreIds DEF RowSupersedes, Row, Live
    <2> QED
      BY <2>1 DEF VersionOf, RowSupersedes, Lost
  <1>3. VersionOf(m)' = [timeline |-> t, version |-> v + 1, live |-> ~nodes'[m].tombstone]
    BY DEF VersionOf, RowSupersedes
  <1>4. Versions' = {VersionOf(n)' : n \in Rows} \cup {VersionOf(m)'}
    BY DEF Versions, RowSupersedes
  <1>5. RowsKept
    BY DEF RowSupersedes
  <1>6. /\ Lost \subseteq Versions
        /\ {VersionOf(n)' : n \in Rows} = (Versions \ Lost)
              \cup {[timeline |-> r.timeline, version |-> r.version, live |-> FALSE] : r \in Lost}
    BY <1>1, <1>5, KeptIsHidden
  <1> QED
    BY <1>2, <1>3, <1>4, <1>6

\* One writer of heads, the jobs of a daemon, whatever the values hold: every step opens a timeline, hides
\* versions, or puts the next version on a live one and hides that; no version disappears, is made twice
\* or comes back (db.ts, insertEntries).
THEOREM StoreImplementsTimelines ==
    ASSUME OneWriter, HeadsOnly
    PROVE  Spec => ImplementsTimelines
  <1>1. Init => History!Init
    BY DEF Init, Rows, History!Init
  <1>2. IInv /\ IInv' /\ HeadInv /\ [Next]_vars => [History!LossyNext]_Versions
    <2> SUFFICES ASSUME IInv, IInv', HeadInv, [Next]_vars
                 PROVE  History!LossyNext \/ Versions' = Versions
      OBVIOUS
    <2>1. TypeOK /\ TypeOK' /\ OneHeadPerTimeline /\ StoreStep
      BY NextIsStoreStep DEF IInv, HeadInv
    <2>2. CASE RowsStay
      <3>1. /\ Lost \subseteq Versions
            /\ Versions' = (Versions \ Lost)
                 \cup {[timeline |-> r.timeline, version |-> r.version, live |-> FALSE] : r \in Lost}
        BY <2>1, <2>2, StayIsLose
      <3>2. PICK S \in SUBSET Versions : S = Lost
        BY <3>1
      <3>3. History!Lose(S)
        BY <3>1, <3>2 DEF History!Lose, History!Hidden, History!Version, Versions, VersionOf
      <3> QED
        BY <3>2, <3>3 DEF History!LossyNext, Versions, VersionOf
    <2>3. ASSUME NEW m, RowOpens(m)  PROVE History!LossyNext
      <3>1. History!Open(m)
        BY <2>1, <2>3, OpensIsOpen DEF History!Open, History!Opened, History!Version, Versions, VersionOf
      <3>2. m \in Ids
        BY <2>3 DEF RowOpens
      <3> QED
        BY <3>1, <3>2 DEF History!LossyNext
    <2>4. ASSUME NEW c \in Clients, NEW m, Bumped(c, m)  PROVE History!LossyNext
      <3>1. PICK p, t, v : p = call[c].entry.id /\ t = nodes[p].timeline /\ v = nodes[p].version
        OBVIOUS
      <3>2. RowSupersedes(m, p) /\ Live(p)
        BY <2>4, <3>1 DEF Bumped, HeadInv, NamesHead
      <3>3. PICK live \in BOOLEAN : live = ~nodes'[m].tombstone
        OBVIOUS
      <3>4. /\ Lost \subseteq Versions /\ [timeline |-> t, version |-> v, live |-> TRUE] \in Lost
            /\ Versions' = ((Versions \ Lost)
                 \cup {[timeline |-> r.timeline, version |-> r.version, live |-> FALSE] : r \in Lost})
                 \cup {[timeline |-> t, version |-> v + 1, live |-> live]}
        BY <2>1, <3>1, <3>2, <3>3, SupersedesIsSupersede
      <3>5. PICK S \in SUBSET Versions : S = Lost
        BY <3>4
      <3>6. History!SupersedeAndLose(t, v, live, S)
        BY <3>4, <3>5 DEF History!SupersedeAndLose, History!Hidden, History!Version, Versions, VersionOf
      <3>7. PICK r \in S : r.timeline = t /\ r.version = v
        BY <3>4, <3>5
      <3> QED
        BY <3>5, <3>6, <3>7 DEF History!LossyNext, Versions, VersionOf
    <2> QED
      BY <2>1, <2>2, <2>3, <2>4 DEF StoreStep
  <1>3. Init => HeadInv
    BY DEF Init, HeadInv, OneHeadPerTimeline, NamesHead, Rows, Free
  <1>4. IInv /\ HeadInv /\ [Next]_vars => HeadInv'
    BY NextKeepsHeads
  <1> QED
    BY <1>1, <1>2, <1>3, <1>4, SpecInv, PTL
    DEF Spec, ImplementsTimelines, History!LossySpec, Versions, VersionOf
=============================================================================
