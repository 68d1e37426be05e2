-------------------------- MODULE GraphStoreProofs --------------------------
(***************************************************************************)
(* Theorems about GraphStore, for every set of types, keys, clients and    *)
(* operations and any number of rows.                                      *)
(***************************************************************************)
EXTENDS GraphStore, TLAPS

Fresh  == {"insert", "bump", "deleteBump"}
Bumps  == {"bump", "deleteBump"}
Patches == {"patch", "overwrite"}

\* A call under way refers to rows that exist, never to its own; the row a
\* finished bump replaced is tombstoned and on the timeline of its successor.
CallIsSound(c) ==
    LET e == call[c].entry IN
    /\ e.op = "insert" => e.id = 0
    /\ e.op # "insert" => e.id \in Rows
    /\ \A k \in Keys : e.data[k].to \subseteq Rows \ {e.id}
    /\ call[c].pc = "indexing" =>
          /\ call[c].made \in Rows
          /\ e.op \in Bumps => ~Live(e.id) /\ SameTimeline(call[c].made, e.id)

CallsAreSound == \A c \in Clients : call[c].pc # "idle" => CallIsSound(c)

\* References lead to rows that exist, and no row references itself.
ReferencesExist == \A n \in Rows : Targets(n) \subseteq Rows \ {n}

IInv ==
    /\ TypeOK
    /\ CallsAreSound
    /\ ReferencesExist
    /\ HistoryIsUnbroken
    /\ RefsAreIndexed
-----------------------------------------------------------------------------
(* What TypeOK says of a row, of a call and of the values built.           *)

\* The rows are numbered from 1 and within the bound; each has its type.
LEMMA RowsAreIds ==
    ASSUME TypeOK
    PROVE  /\ Rows = 1..Len(nodes)
           /\ Len(nodes) \in Nat
           /\ Rows \subseteq Ids
           /\ \A n \in Rows : nodes[n] \in Row
  <1>1. nodes \in Seq(Row) /\ Len(nodes) <= MaxRows
    BY DEF TypeOK
  <1> QED
    BY <1>1, GraphAssumption DEF Rows, Ids

\* The record of an insertEntries call under way.
LEMMA CallType ==
    ASSUME TypeOK, NEW c \in Clients, call[c].pc # "idle"
    PROVE  /\ call[c] \in [pc: {"embedding", "indexing"}, entry: Entry,
                           existing: SUBSET Keys, bump: BOOLEAN, made: Ids \cup {0}]
           /\ call[c].entry \in Entry
           /\ call[c].entry.op \in Ops \cap Kinds
           /\ call[c].entry.type \in Types
           /\ call[c].entry.state \in StateNames \cup {NoState}
           /\ \A k \in Keys : call[c].entry.data[k] \in Given
  <1>1. call[c] \in Call
    BY DEF TypeOK
  <1>2. call[c] \notin [pc : {"idle"}]
    OBVIOUS
  <1>3. call[c] \in [pc: {"embedding", "indexing"}, entry: Entry,
                     existing: SUBSET Keys, bump: BOOLEAN, made: Ids \cup {0}]
    BY <1>1, <1>2 DEF Call
  <1> QED
    BY <1>3 DEF Entry

\* What is written to nodes.state is a state of the type, or NULL.
LEMMA StoredType ==
    ASSUME NEW t \in Types, NEW s \in StateNames \cup {NoState}
    PROVE  Stored(t, s) \in StateNames \cup {NoState}
  <1>1. States[t] \in Seq(StateNames) /\ States[t] # <<>>
    BY GraphAssumption
  <1>2. States[t][1] \in StateNames
    BY <1>1
  <1> QED
    BY <1>2 DEF Stored, First

\* buildEntryNode gives a visible value with no references of its own.
LEMMA BuiltType ==
    ASSUME NEW g \in Given
    PROVE  /\ Built(g) \in Field
           /\ Built(g).to \subseteq g.to
           /\ ~Built(g).hidden
  BY DEF Given, Built, Empty, Field

\* The shell that Phase 4 inserts.
LEMMA NewRowType ==
    ASSUME NEW e \in Entry, NEW t \in Ids, NEW v \in Nat \ {0}, NEW dead \in BOOLEAN,
           NEW fields \in [Keys -> Field]
    PROVE  /\ NewRow(e, t, v, dead, fields) \in Row
           /\ NewRow(e, t, v, dead, fields).timeline = t
           /\ NewRow(e, t, v, dead, fields).version = v
           /\ NewRow(e, t, v, dead, fields).tombstone = dead
           /\ NewRow(e, t, v, dead, fields).fields = fields
  <1>1. e.type \in Types /\ e.state \in StateNames \cup {NoState}
    BY DEF Entry
  <1>2. Stored(e.type, e.state) \in StateNames \cup {NoState}
    BY <1>1, StoredType
  <1> QED
    BY <1>1, <1>2 DEF NewRow, Row

\* Hiding changes tombstones and nothing else, and only sets them.
LEMMA HideFieldType ==
    ASSUME NEW f \in Field, NEW bare \in BOOLEAN
    PROVE  /\ HideField(f, bare) \in Field
           /\ HideField(f, bare).to = f.to
           /\ HideField(f, bare).kind = f.kind
           /\ HideField(f, bare).hidden = (f.hidden \/ (bare /\ f.kind = "anon"))
  BY DEF HideField, Field

\* Hiding a row only sets tombstones, of the row and of its fields.
LEMMA HideRowType ==
    ASSUME NEW row \in Row, NEW dead \in BOOLEAN, NEW bare \in BOOLEAN
    PROVE  /\ HideRow(row, dead, bare) \in Row
           /\ HideRow(row, dead, bare).type = row.type
           /\ HideRow(row, dead, bare).timeline = row.timeline
           /\ HideRow(row, dead, bare).version = row.version
           /\ HideRow(row, dead, bare).tombstone = (row.tombstone \/ dead)
           /\ \A k \in Keys : HideRow(row, dead, bare).fields[k] = HideField(row.fields[k], bare)
  <1>1. row.fields \in [Keys -> Field] /\ row.tombstone \in BOOLEAN
    BY DEF Row
  <1>2. [k \in Keys |-> HideField(row.fields[k], bare)] \in [Keys -> Field]
    BY <1>1, HideFieldType
  <1> QED
    BY <1>1, <1>2 DEF HideRow, Row

\* tombstoneAnonymousSubtree keeps every row in its place.
LEMMA HideType ==
    ASSUME TypeOK, NEW dead, NEW bare
    PROVE  /\ Hide(dead, bare) \in Seq(Row)
           /\ Len(Hide(dead, bare)) = Len(nodes)
           /\ DOMAIN Hide(dead, bare) = Rows
           /\ \A n \in Rows :
                /\ Hide(dead, bare)[n] \in Row
                /\ Hide(dead, bare)[n].type = nodes[n].type
                /\ Hide(dead, bare)[n].timeline = nodes[n].timeline
                /\ Hide(dead, bare)[n].version = nodes[n].version
                /\ Hide(dead, bare)[n].tombstone = (nodes[n].tombstone \/ n \in dead)
                /\ \A k \in Keys :
                     /\ Hide(dead, bare)[n].fields[k].to = nodes[n].fields[k].to
                     /\ Hide(dead, bare)[n].fields[k].hidden =
                          (nodes[n].fields[k].hidden
                             \/ (n \in bare /\ nodes[n].fields[k].kind = "anon"))
  <1> DEFINE H == Hide(dead, bare)
  <1>1. /\ Rows = 1..Len(nodes) /\ Len(nodes) \in Nat
        /\ \A n \in Rows : nodes[n] \in Row
    BY RowsAreIds
  <1>2. ASSUME NEW n \in Rows
        PROVE  H[n] = HideRow(nodes[n], n \in dead, n \in bare)
    BY DEF Hide
  <1>3. ASSUME NEW n \in Rows
        PROVE  /\ H[n] \in Row
               /\ H[n].type = nodes[n].type
               /\ H[n].timeline = nodes[n].timeline
               /\ H[n].version = nodes[n].version
               /\ H[n].tombstone = (nodes[n].tombstone \/ n \in dead)
               /\ \A k \in Keys : H[n].fields[k] = HideField(nodes[n].fields[k], n \in bare)
    <2> DEFINE d == n \in dead
               b == n \in bare
    <2>1. d \in BOOLEAN /\ b \in BOOLEAN /\ nodes[n] \in Row
      BY <1>1
    <2>2. H[n] = HideRow(nodes[n], d, b)
      BY <1>2
    <2>3. (d <=> n \in dead) /\ (b <=> n \in bare)
      OBVIOUS
    <2> HIDE DEF d, b, H
    <2>4. /\ HideRow(nodes[n], d, b) \in Row
          /\ HideRow(nodes[n], d, b).type = nodes[n].type
          /\ HideRow(nodes[n], d, b).timeline = nodes[n].timeline
          /\ HideRow(nodes[n], d, b).version = nodes[n].version
          /\ HideRow(nodes[n], d, b).tombstone = (nodes[n].tombstone \/ d)
          /\ \A k \in Keys : HideRow(nodes[n], d, b).fields[k] = HideField(nodes[n].fields[k], b)
      BY <2>1, HideRowType
    <2> QED
      BY <2>2, <2>4 DEF d, b
  <1>4. ASSUME NEW n \in Rows, NEW k \in Keys
        PROVE  /\ H[n].fields[k].to = nodes[n].fields[k].to
               /\ H[n].fields[k].hidden = (nodes[n].fields[k].hidden
                             \/ (n \in bare /\ nodes[n].fields[k].kind = "anon"))
    <2> DEFINE b == n \in bare
    <2>1. nodes[n].fields[k] \in Field /\ b \in BOOLEAN
      BY <1>1 DEF Row
    <2>2. H[n].fields[k] = HideField(nodes[n].fields[k], b)
      BY <1>3
    <2> HIDE DEF b, H
    <2>3. /\ HideField(nodes[n].fields[k], b).to = nodes[n].fields[k].to
          /\ HideField(nodes[n].fields[k], b).hidden =
                (nodes[n].fields[k].hidden \/ (b /\ nodes[n].fields[k].kind = "anon"))
      BY <2>1, HideFieldType
    <2> QED
      BY <2>2, <2>3 DEF b
  <1>5. H = [i \in 1..Len(nodes) |-> H[i]]
    BY <1>1 DEF Hide
  <1>6. H \in Seq(Row) /\ Len(H) = Len(nodes) /\ DOMAIN H = Rows
    BY <1>1, <1>3, <1>5
  <1> QED
    BY <1>3, <1>4, <1>6
-----------------------------------------------------------------------------
(* What each action does to the rows.                                      *)

\* Appending to a sequence.
LEMMA AppendFacts ==
    ASSUME NEW S, NEW s \in Seq(S), NEW x \in S
    PROVE  /\ Append(s, x) \in Seq(S)
           /\ Len(Append(s, x)) = Len(s) + 1
           /\ DOMAIN Append(s, x) = DOMAIN s \cup {Len(s) + 1}
           /\ \A i \in DOMAIN s : Append(s, x)[i] = s[i]
           /\ Append(s, x)[Len(s) + 1] = x
  OBVIOUS

\* The row a call is given when it commits.
LEMMA AllocatedType ==
    ASSUME TypeOK, CallsAreSound, NEW c \in Clients, call[c].pc = "embedding"
    PROVE  /\ call[c].entry.op \in Fresh => Allocated(call[c].entry) = Len(nodes) + 1
           /\ call[c].entry.op \notin Fresh =>
                 /\ Allocated(call[c].entry) = call[c].entry.id
                 /\ Allocated(call[c].entry) \in Rows
  BY DEF CallsAreSound, CallIsSound, Allocated, Fresh

\* The client record after a commit.
LEMMA CommittedCall ==
    ASSUME TypeOK, NEW c \in Clients, call[c].pc = "embedding", NEW m \in Ids,
           call' = [call EXCEPT ![c].pc = "indexing", ![c].made = m]
    PROVE  /\ call' \in [Clients -> Call]
           /\ call'[c].pc = "indexing" /\ call'[c].made = m
           /\ call'[c].entry = call[c].entry
           /\ \A d \in Clients \ {c} : call'[d] = call[d]
  <1>1. call \in [Clients -> Call]
    BY DEF TypeOK
  <1>2. call[c] \in [pc: {"embedding", "indexing"}, entry: Entry,
                     existing: SUBSET Keys, bump: BOOLEAN, made: Ids \cup {0}]
    BY CallType
  <1>3. call'[c] = [call[c] EXCEPT !.pc = "indexing", !.made = m]
    BY <1>1
  <1>4. /\ call'[c] \in [pc: {"embedding", "indexing"}, entry: Entry,
                         existing: SUBSET Keys, bump: BOOLEAN, made: Ids \cup {0}]
        /\ call'[c].pc = "indexing" /\ call'[c].made = m
        /\ call'[c].entry = call[c].entry
    <2>1. ASSUME NEW r \in [pc: {"embedding", "indexing"}, entry: Entry,
                            existing: SUBSET Keys, bump: BOOLEAN, made: Ids \cup {0}]
          PROVE  /\ [r EXCEPT !.pc = "indexing", !.made = m]
                      \in [pc: {"embedding", "indexing"}, entry: Entry,
                          existing: SUBSET Keys, bump: BOOLEAN, made: Ids \cup {0}]
                 /\ [r EXCEPT !.pc = "indexing", !.made = m].pc = "indexing"
                 /\ [r EXCEPT !.pc = "indexing", !.made = m].made = m
                 /\ [r EXCEPT !.pc = "indexing", !.made = m].entry = r.entry
      OBVIOUS
    <2> QED
      BY <1>2, <1>3, <2>1
  <1> QED
    BY <1>1, <1>2, <1>3, <1>4 DEF Call

\* The client records after a call has returned.
LEMMA FreedCall ==
    ASSUME TypeOK, NEW c \in Clients, call' = [call EXCEPT ![c] = Free]
    PROVE  /\ call' \in [Clients -> Call]
           /\ call'[c].pc = "idle"
           /\ \A d \in Clients \ {c} : call'[d] = call[d]
  BY DEF TypeOK, Call, Free

\* Insert: a new row that starts a timeline, the others as they were.
LEMMA InsertStep ==
    ASSUME TypeOK, CallsAreSound, NEW c \in Clients, call[c].pc = "embedding",
           CommitInsert(c),
           NEW e, e = call[c].entry, NEW m, m = Len(nodes) + 1
    PROVE     /\ nodes' \in Seq(Row) /\ Len(nodes') <= MaxRows
              /\ Rows' = Rows \cup {m} /\ m \notin Rows /\ m \in Ids
              /\ \A n \in Rows : nodes'[n] = nodes[n]
              /\ nodes'[m].timeline = m /\ nodes'[m].version = 1
              /\ \A k \in Keys : /\ nodes'[m].fields[k].to \subseteq e.data[k].to
                                 /\ ~nodes'[m].fields[k].hidden
              /\ e.op = "insert" /\ Allocated(e) = m
  <1> DEFINE fields == [k \in Keys |-> Built(e.data[k])]
             row == NewRow(e, m, 1, FALSE, fields)
  <1>1. /\ Rows = 1..Len(nodes) /\ Len(nodes) \in Nat
        /\ nodes \in Seq(Row) /\ Len(nodes) < MaxRows
    BY RowsAreIds DEF TypeOK, CommitInsert
  <1>2. m \in Ids /\ m \notin Rows
    BY <1>1, GraphAssumption DEF Ids
  <1>3. e \in Entry /\ \A k \in Keys : e.data[k] \in Given
    BY CallType
  <1>4. /\ fields \in [Keys -> Field]
        /\ \A k \in Keys : fields[k].to \subseteq e.data[k].to /\ ~fields[k].hidden
    BY <1>3, BuiltType
  <1> HIDE DEF fields
  <1>5. /\ row \in Row /\ row.timeline = m /\ row.version = 1 /\ row.fields = fields
    <2> DEFINE gone == FALSE
               v == 1
    <2>1. gone \in BOOLEAN /\ v \in Nat \ {0}
      OBVIOUS
    <2>2. row = NewRow(e, m, v, gone, fields)
      OBVIOUS
    <2> HIDE DEF gone, v, row
    <2>3. /\ NewRow(e, m, v, gone, fields) \in Row
          /\ NewRow(e, m, v, gone, fields).timeline = m
          /\ NewRow(e, m, v, gone, fields).version = v
          /\ NewRow(e, m, v, gone, fields).fields = fields
      BY <1>2, <1>3, <1>4, <2>1, NewRowType
    <2> QED
      BY <2>2, <2>3 DEF v
  <1>6. nodes' = Append(nodes, row)
    BY DEF CommitInsert, fields
  <1>7. e.op = "insert" /\ Allocated(e) = m
    BY DEF CommitInsert, Allocated
  <1> HIDE DEF row
  <1>8. /\ nodes' \in Seq(Row) /\ Len(nodes') = m
        /\ Rows' = Rows \cup {m}
        /\ \A n \in Rows : nodes'[n] = nodes[n]
        /\ nodes'[m] = row
    BY <1>1, <1>5, <1>6, AppendFacts DEF Rows
  <1>9. Len(nodes') <= MaxRows
    BY <1>1, <1>8, GraphAssumption
  <1> QED
    BY <1>2, <1>4, <1>5, <1>7, <1>8, <1>9

\* Bump: a new row on top of the timeline of e.id, which is tombstoned; the
\* rows that were there keep their place in history.
LEMMA BumpStep ==
    ASSUME TypeOK, CallsAreSound, ReferencesExist,
           NEW c \in Clients, call[c].pc = "embedding", CommitBump(c),
           NEW e, e = call[c].entry, NEW m, m = Len(nodes) + 1
    PROVE     /\ nodes' \in Seq(Row) /\ Len(nodes') <= MaxRows
              /\ Rows' = Rows \cup {m} /\ m \notin Rows /\ m \in Ids
              /\ e.id \in Rows /\ e.op \in Bumps /\ Allocated(e) = m
              /\ nodes'[e.id].tombstone
              /\ \A n \in Rows :
                   /\ nodes'[n].timeline = nodes[n].timeline
                   /\ nodes'[n].version = nodes[n].version
                   /\ nodes[n].tombstone => nodes'[n].tombstone
                   /\ \A k \in Keys :
                        /\ nodes'[n].fields[k].to = nodes[n].fields[k].to
                        /\ n # e.id => nodes'[n].fields[k].hidden = nodes[n].fields[k].hidden
              /\ nodes'[m].timeline = nodes[e.id].timeline
              /\ nodes'[m].version = nodes[e.id].version + 1
              /\ \A k \in Keys : /\ nodes'[m].fields[k].to \subseteq Rows
                                 /\ ~nodes'[m].fields[k].hidden
  <1> DEFINE body == IF e.op = "deleteBump" THEN [k \in Keys |-> Empty] ELSE Carried(e)
             row == NewRow(e, nodes[e.id].timeline, nodes[e.id].version + 1,
                           e.op = "deleteBump", body)
             dead == Below(e.id) \cup {e.id}
             hid == Hide(dead, {e.id})
  <1>1. /\ Rows = 1..Len(nodes) /\ Len(nodes) \in Nat
        /\ Len(nodes) < MaxRows /\ Rows \subseteq Ids
        /\ \A n \in Rows : nodes[n] \in Row
    BY RowsAreIds DEF CommitBump
  <1>2. m \in Ids /\ m \notin Rows
    BY <1>1, GraphAssumption DEF Ids
  <1>3. /\ e \in Entry /\ \A k \in Keys : e.data[k] \in Given
        /\ e.op \in Bumps
    BY CallType DEF CommitBump, Bumps
  <1>4. /\ e.id \in Rows
        /\ \A k \in Keys : e.data[k].to \subseteq Rows
    BY <1>3 DEF CallsAreSound, CallIsSound, Bumps
  <1>5. \A k \in Keys : /\ Copied(nodes[e.id].fields[k]) \in Field
                        /\ Copied(nodes[e.id].fields[k]).to \subseteq Rows
                        /\ ~Copied(nodes[e.id].fields[k]).hidden
    <2> SUFFICES ASSUME NEW k \in Keys
                 PROVE  /\ Copied(nodes[e.id].fields[k]) \in Field
                        /\ Copied(nodes[e.id].fields[k]).to \subseteq Rows
                        /\ ~Copied(nodes[e.id].fields[k]).hidden
      OBVIOUS
    <2>1. nodes[e.id].fields[k] \in Field
      BY <1>1, <1>4 DEF Row
    <2>2. nodes[e.id].fields[k].to \subseteq Rows
      BY <1>4 DEF ReferencesExist, Targets
    <2> QED
      BY <2>1, <2>2 DEF Copied, Field
  <1>6. /\ body \in [Keys -> Field]
        /\ \A k \in Keys : body[k].to \subseteq Rows /\ ~body[k].hidden
    <2>1. CASE e.op = "deleteBump"
      BY <2>1 DEF Empty, Field
    <2>2. CASE e.op # "deleteBump"
      <3>1. \A k \in Keys : /\ Carried(e)[k] \in Field
                            /\ Carried(e)[k].to \subseteq Rows
                            /\ ~Carried(e)[k].hidden
        BY <1>3, <1>4, <1>5, BuiltType DEF Carried
      <3>2. Carried(e) \in [Keys -> Field]
        BY <3>1 DEF Carried
      <3> QED
        BY <2>2, <3>1, <3>2
    <2> QED
      BY <2>1, <2>2
  <1> HIDE DEF body
  <1>7. /\ nodes[e.id].timeline \in Ids
        /\ nodes[e.id].version \in Nat \ {0}
        /\ nodes[e.id].version + 1 \in Nat \ {0}
    BY <1>1, <1>4 DEF Row
  <1>8. /\ row \in Row /\ row.timeline = nodes[e.id].timeline
        /\ row.version = nodes[e.id].version + 1 /\ row.fields = body
    <2> DEFINE gone == e.op = "deleteBump"
               t == nodes[e.id].timeline
               v == nodes[e.id].version + 1
    <2>1. gone \in BOOLEAN /\ t \in Ids /\ v \in Nat \ {0}
      BY <1>7
    <2>2. row = NewRow(e, t, v, gone, body)
      OBVIOUS
    <2> HIDE DEF gone, t, v, row
    <2>3. /\ NewRow(e, t, v, gone, body) \in Row
          /\ NewRow(e, t, v, gone, body).timeline = t
          /\ NewRow(e, t, v, gone, body).version = v
          /\ NewRow(e, t, v, gone, body).fields = body
      BY <1>3, <1>6, <2>1, NewRowType
    <2> QED
      BY <2>2, <2>3 DEF t, v
  <1>9. nodes' = Append(hid, row)
    BY DEF CommitBump, body, NextVersion
  <1>10. /\ hid \in Seq(Row) /\ Len(hid) = Len(nodes) /\ DOMAIN hid = Rows
         /\ \A n \in Rows :
              /\ hid[n].timeline = nodes[n].timeline
              /\ hid[n].version = nodes[n].version
              /\ hid[n].tombstone = (nodes[n].tombstone \/ n \in dead)
              /\ \A k \in Keys :
                   /\ hid[n].fields[k].to = nodes[n].fields[k].to
                   /\ hid[n].fields[k].hidden = (nodes[n].fields[k].hidden
                          \/ (n \in {e.id} /\ nodes[n].fields[k].kind = "anon"))
    BY HideType
  <1>11. e.id \in dead
    OBVIOUS
  <1> HIDE DEF row, hid, dead
  <1>12. /\ nodes' \in Seq(Row) /\ Len(nodes') = m
         /\ Rows' = Rows \cup {m}
         /\ \A n \in Rows : nodes'[n] = hid[n]
         /\ nodes'[m] = row
    BY <1>8, <1>9, <1>10, AppendFacts DEF Rows
  <1>13. \A n \in Rows, k \in Keys :
            n # e.id => nodes'[n].fields[k].hidden = nodes[n].fields[k].hidden
    <2> SUFFICES ASSUME NEW n \in Rows, NEW k \in Keys, n # e.id
                 PROVE  nodes'[n].fields[k].hidden = nodes[n].fields[k].hidden
      OBVIOUS
    <2>1. nodes[n].fields[k].hidden \in BOOLEAN
      BY <1>1 DEF Row, Field
    <2> QED
      BY <1>10, <1>12, <2>1
  <1>14. nodes'[e.id].tombstone
    BY <1>4, <1>10, <1>11, <1>12
  <1>15. Allocated(e) = m
    BY <1>3 DEF Allocated, Bumps
  <1>16. Len(nodes') <= MaxRows
    BY <1>1, <1>12, GraphAssumption
  <1>17. \A n \in Rows :
           /\ nodes'[n].timeline = nodes[n].timeline
           /\ nodes'[n].version = nodes[n].version
           /\ \A k \in Keys : nodes'[n].fields[k].to = nodes[n].fields[k].to
    BY <1>10, <1>12
  <1>19. ASSUME NEW n \in Rows, nodes[n].tombstone
         PROVE  nodes'[n].tombstone
    <2>1. hid[n].tombstone = (nodes[n].tombstone \/ n \in dead)
      BY <1>10
    <2>2. hid[n].tombstone
      BY <1>19, <2>1
    <2> QED
      BY <1>12, <2>2
  <1>18. /\ nodes'[m].timeline = nodes[e.id].timeline
         /\ nodes'[m].version = nodes[e.id].version + 1
         /\ \A k \in Keys : /\ nodes'[m].fields[k].to \subseteq Rows
                            /\ ~nodes'[m].fields[k].hidden
    BY <1>6, <1>8, <1>12
  <1> QED
    BY <1>2, <1>3, <1>4, <1>12, <1>13, <1>14, <1>15, <1>16, <1>17, <1>18, <1>19

\* Rows keep their place in history while other things about them change.
SameRows ==
    /\ nodes' \in Seq(Row) /\ Len(nodes') = Len(nodes) /\ Rows' = Rows
    /\ \A n \in Rows : /\ nodes'[n].timeline = nodes[n].timeline
                       /\ nodes'[n].version = nodes[n].version
                       /\ nodes[n].tombstone => nodes'[n].tombstone

\* Replacing one element of a sequence.
LEMMA ReplaceRow ==
    ASSUME NEW h \in Seq(Row), NEW n \in DOMAIN h, NEW row \in Row
    PROVE  /\ [h EXCEPT ![n] = row] \in Seq(Row)
           /\ Len([h EXCEPT ![n] = row]) = Len(h)
           /\ DOMAIN [h EXCEPT ![n] = row] = DOMAIN h
           /\ [h EXCEPT ![n] = row][n] = row
           /\ \A i \in DOMAIN h \ {n} : [h EXCEPT ![n] = row][i] = h[i]
  OBVIOUS

\* Patch: the fields of e.id come from the row or from the call.
LEMMA PatchStep ==
    ASSUME TypeOK, CallsAreSound, NEW c \in Clients, call[c].pc = "embedding",
           CommitPatch(c), NEW e, e = call[c].entry
    PROVE  /\ SameRows
           /\ e.id \in Rows /\ e.op \in Patches /\ Allocated(e) = e.id
           /\ \A n \in Rows \ {e.id}, k \in Keys :
                  nodes'[n].fields[k].to = nodes[n].fields[k].to
           /\ \A k \in Keys : nodes'[e.id].fields[k].to
                                  \subseteq nodes[e.id].fields[k].to \cup e.data[k].to
  <1> DEFINE n == e.id
             heads == ReplacedRefs(c)
             dead  == Met(UNION {Old(c, k).to : k \in ReplacedLists(c)})
                        \cup UNION {Below(d) : d \in heads}
             hid == AfterReplace(c)
             row == PatchedRow(c, hid[n])
  <1>1. /\ e.op \in Patches /\ e.id \in Rows /\ Allocated(e) = e.id
        /\ e.state \in StateNames \cup {NoState}
        /\ \A k \in Keys : e.data[k] \in Given
    <2>1. e.op \in Patches
      BY DEF CommitPatch, Patches
    <2>2. e.id \in Rows
      BY <2>1 DEF Patches, CallsAreSound, CallIsSound
    <2>3. Allocated(e) = e.id
      BY <2>1 DEF Patches, Allocated
    <2> QED
      BY <2>1, <2>2, <2>3, CallType
  <1>2. nodes' = [hid EXCEPT ![n] = row]
    BY DEF CommitPatch
  <1>3. hid = Hide(dead, heads)
    BY DEF AfterReplace
  <1> HIDE DEF hid, dead, heads
  <1>4. /\ hid \in Seq(Row) /\ Len(hid) = Len(nodes) /\ DOMAIN hid = Rows
        /\ \A i \in Rows :
              /\ hid[i] \in Row
              /\ hid[i].timeline = nodes[i].timeline
              /\ hid[i].version = nodes[i].version
              /\ hid[i].tombstone = (nodes[i].tombstone \/ i \in dead)
              /\ \A k \in Keys : hid[i].fields[k].to = nodes[i].fields[k].to
    BY <1>3, HideType
  <1>5. ASSUME NEW r \in Row
        PROVE  /\ PatchedRow(c, r) \in Row
               /\ PatchedRow(c, r).timeline = r.timeline
               /\ PatchedRow(c, r).version = r.version
               /\ PatchedRow(c, r).tombstone = r.tombstone
               /\ \A k \in Keys : PatchedRow(c, r).fields[k].to
                                     \subseteq r.fields[k].to \cup e.data[k].to
    <2> DEFINE fields == [k \in Keys |-> IF k \in Written(c) THEN Built(e.data[k])
                                                            ELSE r.fields[k]]
               st == IF call[c].bump /\ MultiState(e.type) THEN e.state ELSE r.state
    <2>1. /\ fields \in [Keys -> Field]
          /\ \A k \in Keys : fields[k].to \subseteq r.fields[k].to \cup e.data[k].to
      <3>1. ASSUME NEW k \in Keys
            PROVE  /\ fields[k] \in Field
                   /\ fields[k].to \subseteq r.fields[k].to \cup e.data[k].to
        <4>1. r.fields[k] \in Field
          BY DEF Row
        <4>2. Built(e.data[k]) \in Field /\ Built(e.data[k]).to \subseteq e.data[k].to
          BY <1>1, BuiltType
        <4> QED
          BY <4>1, <4>2
      <3> QED
        BY <3>1
    <2>2. st \in StateNames \cup {NoState}
      BY <1>1 DEF Row
    <2>3. PatchedRow(c, r) = [r EXCEPT !.state = st, !.fields = fields]
      BY DEF PatchedRow
    <2> HIDE DEF fields, st
    <2> QED
      BY <2>1, <2>2, <2>3 DEF Row
  <1>6. /\ row \in Row /\ row.timeline = nodes[n].timeline
        /\ row.version = nodes[n].version /\ row.tombstone = hid[n].tombstone
        /\ \A k \in Keys : row.fields[k].to \subseteq nodes[n].fields[k].to \cup e.data[k].to
    BY <1>1, <1>4, <1>5, SMTT(30)
  <1> HIDE DEF row
  <1>7. /\ nodes' \in Seq(Row) /\ Len(nodes') = Len(nodes) /\ Rows' = Rows
        /\ nodes'[n] = row
        /\ \A i \in Rows \ {n} : nodes'[i] = hid[i]
    BY <1>1, <1>2, <1>4, <1>6, ReplaceRow DEF Rows
  <1>8. \A i \in Rows : /\ nodes'[i].timeline = nodes[i].timeline
                        /\ nodes'[i].version = nodes[i].version
    BY <1>4, <1>6, <1>7
  <1>9. ASSUME NEW i \in Rows, nodes[i].tombstone
        PROVE  nodes'[i].tombstone
    <2>1. hid[i].tombstone = (nodes[i].tombstone \/ i \in dead)
      BY <1>4
    <2>2. hid[i].tombstone
      BY <1>9, <2>1
    <2> QED
      BY <1>6, <1>7, <2>2
  <1>10. \A i \in Rows \ {n}, k \in Keys : nodes'[i].fields[k].to = nodes[i].fields[k].to
    BY <1>4, <1>7
  <1>11. \A k \in Keys : nodes'[n].fields[k].to
                             \subseteq nodes[n].fields[k].to \cup e.data[k].to
    BY <1>6, <1>7
  <1> QED
    BY <1>1, <1>7, <1>8, <1>9, <1>10, <1>11 DEF SameRows

\* setNodeState: one row gets another state.
LEMMA SetStateStep ==
    ASSUME TypeOK, NEW n \in Rows, NEW s \in StateNames, SetNodeState(n, s)
    PROVE  /\ SameRows
           /\ \A i \in Rows : nodes'[i].fields = nodes[i].fields
  <1>1. nodes \in Seq(Row) /\ \A i \in Rows : nodes[i] \in Row
    BY RowsAreIds DEF TypeOK
  <1> DEFINE row == [nodes[n] EXCEPT !.state = s]
  <1>2. /\ row \in Row /\ row.timeline = nodes[n].timeline
        /\ row.version = nodes[n].version /\ row.tombstone = nodes[n].tombstone
        /\ row.fields = nodes[n].fields
    BY <1>1 DEF Row
  <1>3. nodes' = [nodes EXCEPT ![n] = row]
    BY <1>1 DEF SetNodeState
  <1> HIDE DEF row
  <1>4. /\ nodes' \in Seq(Row) /\ Len(nodes') = Len(nodes) /\ Rows' = Rows
        /\ nodes'[n] = row
        /\ \A i \in Rows \ {n} : nodes'[i] = nodes[i]
    BY <1>1, <1>2, <1>3, ReplaceRow DEF Rows
  <1> QED
    BY <1>2, <1>4 DEF SameRows

\* appendListItemsUnique: one list gets one more item.
LEMMA AppendStep ==
    ASSUME TypeOK, NEW n \in Rows, NEW k \in Keys, NEW d \in Rows, AppendListItems(n, k, d)
    PROVE  /\ SameRows
           /\ \A i \in Rows \ {n} : nodes'[i].fields = nodes[i].fields
           /\ \A j \in Keys : nodes'[n].fields[j].to \subseteq nodes[n].fields[j].to \cup {d}
  <1>1. /\ nodes \in Seq(Row) /\ \A i \in Rows : nodes[i] \in Row
        /\ Rows \subseteq Ids
    BY RowsAreIds DEF TypeOK
  <1> DEFINE field == [nodes[n].fields[k] EXCEPT !.to = nodes[n].fields[k].to \cup {d}]
             fields == [nodes[n].fields EXCEPT ![k] = field]
             row == [nodes[n] EXCEPT !.fields = fields]
  <1>2. nodes[n].fields \in [Keys -> Field] /\ nodes[n].fields[k] \in Field
    BY <1>1 DEF Row
  <1>3. field \in Field /\ field.to = nodes[n].fields[k].to \cup {d}
    BY <1>1, <1>2 DEF Field
  <1>4. nodes' = [nodes EXCEPT ![n] = row]
    BY <1>1 DEF AppendListItems
  <1> HIDE DEF field
  <1>5. /\ fields \in [Keys -> Field]
        /\ \A j \in Keys : fields[j].to \subseteq nodes[n].fields[j].to \cup {d}
    BY <1>2, <1>3
  <1> HIDE DEF fields
  <1>6. /\ row \in Row /\ row.timeline = nodes[n].timeline
        /\ row.version = nodes[n].version /\ row.tombstone = nodes[n].tombstone
        /\ row.fields = fields
    BY <1>1, <1>5 DEF Row
  <1> HIDE DEF row
  <1>7. /\ nodes' \in Seq(Row) /\ Len(nodes') = Len(nodes) /\ Rows' = Rows
        /\ nodes'[n] = row
        /\ \A i \in Rows \ {n} : nodes'[i] = nodes[i]
    BY <1>1, <1>4, <1>6, ReplaceRow DEF Rows
  <1> QED
    BY <1>5, <1>6, <1>7 DEF SameRows
-----------------------------------------------------------------------------
(* The edge index.                                                         *)

\* A walk from a row gives an edge to each row it references.
WalksIndex ==
    \A n \in Rows : /\ Walk(n) \subseteq Rows \X Rows
                    /\ Targets(n) \subseteq Rows \ {n} =>
                          \A d \in Targets(n) : <<n, d>> \in Walk(n)

\* populateForRoot indexes the references of its root, in every state.
LEMMA WalkFacts == WalksIndex
  <1> SUFFICES ASSUME NEW n \in Rows
               PROVE  /\ Walk(n) \subseteq Rows \X Rows
                      /\ Targets(n) \subseteq Rows \ {n} =>
                            \A d \in Targets(n) : <<n, d>> \in Walk(n)
    BY DEF WalksIndex
  <1>1. \A S : Reach(S) \subseteq Rows /\ (S \subseteq Rows => S \subseteq Reach(S))
    BY DEF Reach
  <1>2. Walk(n) \subseteq Rows \X Rows
    BY <1>1 DEF Walk
  <1>3. ASSUME Targets(n) \subseteq Rows \ {n}, NEW d \in Targets(n)
        PROVE  <<n, d>> \in Walk(n)
    <2>1. n \in Reach({n})
      BY <1>1
    <2>2. d \in Reach(Targets(n)) \ {n}
      BY <1>1, <1>3
    <2> QED
      BY <2>1, <2>2 DEF Walk
  <1> QED
    BY <1>2, <1>3

\* Redirecting keeps the index inside the table.
LEMMA RedirectedType ==
    ASSUME TypeOK, NEW prev, NEW next \in Rows
    PROVE  Redirected(prev, next) \subseteq Rows \X Rows
  BY DEF TypeOK, Redirected

\* What Index does, for a call whose record is sound.
LEMMA IndexStep ==
    ASSUME TypeOK, CallsAreSound, NEW c \in Clients, Index(c),
           NEW e, e = call[c].entry, NEW m, m = call[c].made
    PROVE  /\ m \in Rows /\ call[c].pc = "indexing"
           /\ nodes' = nodes
           /\ refs' \subseteq Rows \X Rows
           /\ Walk(m) \subseteq refs'
           /\ e.op \in Bumps => /\ e.id \in Rows /\ ~Live(e.id) /\ SameTimeline(m, e.id)
                                /\ refs' = Walk(m) \cup Redirected(e.id, m)
           /\ e.op \notin Bumps => refs' = Walk(m) \cup refs
           /\ call' = [call EXCEPT ![c] = Free]
  <1>1. /\ call[c].pc = "indexing" /\ nodes' = nodes
        /\ call' = [call EXCEPT ![c] = Free]
        /\ refs' = Walk(m) \cup (IF e.op \in Bumps THEN Redirected(e.id, m) ELSE refs)
    BY DEF Index, Bumps
  <1>2. /\ m \in Rows
        /\ e.op \in Bumps => e.id \in Rows /\ ~Live(e.id) /\ SameTimeline(m, e.id)
    BY <1>1 DEF CallsAreSound, CallIsSound, Bumps
  <1>3. refs \subseteq Rows \X Rows /\ Redirected(e.id, m) \subseteq Rows \X Rows
    BY <1>2, RedirectedType DEF TypeOK
  <1>4. refs' \subseteq Rows \X Rows
    BY <1>1, <1>2, <1>3, WalkFacts DEF WalksIndex
  <1> QED
    BY <1>1, <1>2, <1>4
-----------------------------------------------------------------------------
(* The parts of the invariant, one after the other.                        *)

\* Begin: the record of the call that starts.
LEMMA BeginStep ==
    ASSUME TypeOK, NEW c \in Clients, Begin(c)
    PROVE  /\ call[c].pc = "idle" /\ UNCHANGED <<nodes, refs>>
           /\ call' \in [Clients -> Call]
           /\ \A d \in Clients \ {c} : call'[d] = call[d]
           /\ call'[c].pc = "embedding"
           /\ call'[c].entry.op = "insert" => call'[c].entry.id = 0
           /\ call'[c].entry.op # "insert" => call'[c].entry.id \in Rows
           /\ \A k \in Keys : call'[c].entry.data[k].to \subseteq Rows \ {call'[c].entry.id}
  <1>1. PICK op \in Ops \cap Kinds, n \in Rows \cup {0}, t \in Types, s \in Asked,
             d \in [Keys -> Values] :
          Send(c, [op |-> op, id |-> n, type |-> t, state |-> s, data |-> d])
    BY DEF Begin
  <1> DEFINE e == [op |-> op, id |-> n, type |-> t, state |-> s, data |-> d]
             patch == e.op \in {"patch", "overwrite"}
             x == IF patch THEN Existing(e.id) ELSE {}
             b == patch /\ e.state # NoState /\ e.state # Effective(e.id)
             r == [pc |-> "embedding", entry |-> e, existing |-> x, bump |-> b, made |-> 0]
  <1>2. Rows \subseteq Ids
    BY RowsAreIds
  <1>3. \A k \in Keys : d[k] \in Given /\ d[k].to \subseteq Rows
    BY <1>2 DEF Values, Value, Given
  <1>4. d \in [Keys -> Given]
    BY <1>3
  <1>5. e \in Entry
    BY <1>2, <1>4, GraphAssumption DEF Entry
  <1>6. x \in SUBSET Keys /\ b \in BOOLEAN
    BY DEF Existing
  <1>7. call' = [call EXCEPT ![c] = r]
    BY <1>1 DEF Send
  <1>8. e.op = op /\ e.id = n /\ e.data = d
    OBVIOUS
  <1>9. /\ op = "insert" => n = 0
        /\ op # "insert" => n \in Rows
        /\ \A k \in Keys : d[k].to \subseteq Rows \ {n}
    BY <1>1, <1>3 DEF Names, Send
  <1> HIDE DEF e, x, b
  <1>10. r \in Call
    BY <1>5, <1>6 DEF Call
  <1>11. r.pc = "embedding" /\ r.entry = e
    OBVIOUS
  <1> HIDE DEF r
  <1>12. /\ call' \in [Clients -> Call] /\ call'[c] = r
         /\ \A i \in Clients \ {c} : call'[i] = call[i]
    BY <1>7, <1>10 DEF TypeOK
  <1>13. call[c].pc = "idle" /\ UNCHANGED <<nodes, refs>>
    BY DEF Begin, Free
  <1> QED
    BY <1>8, <1>9, <1>11, <1>12, <1>13

\* No step removes a row, moves it in history or brings it back.
Kept ==
    /\ Rows \subseteq Rows'
    /\ \A n \in Rows : /\ nodes'[n].timeline = nodes[n].timeline
                       /\ nodes'[n].version = nodes[n].version
                       /\ nodes[n].tombstone => nodes'[n].tombstone

\* The record of a call that does not move stays sound.
LEMMA KeptCall ==
    ASSUME Kept, NEW d \in Clients, call'[d] = call[d], CallIsSound(d),
           call[d].entry.op \in Kinds
    PROVE  CallIsSound(d)'
  <1> DEFINE e == call[d].entry
  <1>1. Rows \subseteq Rows'
    BY DEF Kept, Rows
  <1>2. /\ e.op = "insert" => e.id = 0
        /\ e.op # "insert" => e.id \in Rows'
        /\ \A k \in Keys : e.data[k].to \subseteq Rows' \ {e.id}
    BY <1>1 DEF CallIsSound
  <1>3. ASSUME call[d].pc = "indexing"
        PROVE  call[d].made \in Rows'
    BY <1>1, <1>3 DEF CallIsSound
  <1>4. ASSUME call[d].pc = "indexing", e.op \in Bumps
        PROVE  ~Live(e.id)' /\ SameTimeline(call[d].made, e.id)'
    <2>1. e.id \in Rows /\ call[d].made \in Rows
          /\ ~Live(e.id) /\ SameTimeline(call[d].made, e.id)
      BY <1>4 DEF CallIsSound, Bumps
    <2> QED
      BY <2>1 DEF Kept, Live, SameTimeline
  <1> QED
    BY <1>2, <1>3, <1>4 DEF CallIsSound

\* History stays unbroken when each new row starts a timeline or stands on a
\* row that is tombstoned.
LEMMA HistoryGrows ==
    ASSUME TypeOK, HistoryIsUnbroken, Kept,
           \A m \in Rows' \ Rows :
              \/ nodes'[m].version = 1
              \/ \E p \in Rows : /\ nodes'[m].timeline = nodes[p].timeline
                               /\ nodes'[m].version = nodes[p].version + 1
                               /\ nodes'[p].tombstone
    PROVE  HistoryIsUnbroken'
  <1> SUFFICES ASSUME NEW n \in Rows', nodes'[n].version > 1
               PROVE  \E p \in Rows' : Supersedes(n, p)' /\ ~Live(p)'
    BY DEF HistoryIsUnbroken
  <1>1. CASE n \in Rows
    <2>1. PICK p \in Rows : Supersedes(n, p) /\ ~Live(p)
      BY <1>1 DEF HistoryIsUnbroken, Kept
    <2>2. p \in Rows' /\ Supersedes(n, p)' /\ ~Live(p)'
      BY <1>1, <2>1 DEF Kept, Supersedes, SameTimeline, Live
    <2> QED
      BY <2>2
  <1>2. CASE n \notin Rows
    <2>1. nodes'[n].version # 1
      OBVIOUS
    <2>2. PICK p \in Rows : /\ nodes'[n].timeline = nodes[p].timeline
                           /\ nodes'[n].version = nodes[p].version + 1
                           /\ nodes'[p].tombstone
      BY <1>2, <2>1
    <2>3. p \in Rows' /\ Supersedes(n, p)' /\ ~Live(p)'
      BY <2>2 DEF Kept, Supersedes, SameTimeline, Live
    <2> QED
      BY <2>3
  <1> QED
    BY <1>1, <1>2

\* Timelines are named after rows.
LEMMA TimelinesKept ==
    ASSUME TypeOK, Kept, \A m \in Rows' \ Rows : nodes'[m].timeline \in Rows'
    PROVE  \A n \in Rows' : nodes'[n].timeline \in Rows'
  BY DEF TypeOK, Kept

\* SameRows is a case of Kept.
LEMMA SameRowsKept == SameRows => Kept
  BY DEF SameRows, Kept

\* The calls that do not move stay sound as the table grows.
LEMMA CallsKept ==
    ASSUME TypeOK, CallsAreSound, Kept, NEW S \in SUBSET Clients,
           \A d \in Clients \ S : call'[d] = call[d],
           \A d \in S : call'[d].pc = "idle" \/ CallIsSound(d)'
    PROVE  CallsAreSound'
  <1> SUFFICES ASSUME NEW d \in Clients, call'[d].pc # "idle"
               PROVE  CallIsSound(d)'
    BY DEF CallsAreSound
  <1>1. CASE d \in S
    BY <1>1
  <1>2. CASE d \notin S
    <2>1. call'[d] = call[d] /\ call[d].pc # "idle" /\ CallIsSound(d)
      BY <1>2 DEF CallsAreSound
    <2>2. call[d].entry.op \in Kinds
      BY <2>1, CallType
    <2> QED
      BY <2>1, <2>2, KeptCall
  <1> QED
    BY <1>1, <1>2

\* Type correctness of the next state, once its calls are sound.
LEMMA TypeKept ==
    ASSUME TypeOK, Kept, CallsAreSound',
           nodes' \in Seq(Row), Len(nodes') <= MaxRows,
           \A m \in Rows' \ Rows : nodes'[m].timeline \in Rows',
           refs' \subseteq Rows' \X Rows', call' \in [Clients -> Call]
    PROVE  TypeOK'
  <1>1. \A n \in Rows' : nodes'[n].timeline \in Rows'
    BY TimelinesKept
  <1>2. ASSUME NEW d \in Clients, call'[d].pc # "idle"
        PROVE  /\ call'[d].entry.op = "insert" \/ call'[d].entry.id \in Rows'
               /\ call'[d].pc = "indexing" => call'[d].made \in Rows'
    BY <1>2 DEF CallsAreSound, CallIsSound
  <1> QED
    BY <1>1, <1>2 DEF TypeOK

\* A call that will still index row n.
Pending(n) == \E c \in Clients : call[c].pc = "indexing" /\ call[c].made = n

\* The edge index stays complete when the rows whose references grow (B) are
\* indexed by this step or by a call under way, and the edges of live rows
\* keep leading to the same timelines.
LEMMA RefsKept ==
    ASSUME TypeOK, ReferencesExist, RefsAreIndexed, Kept, NEW B,
           Rows' \ Rows \subseteq B,
           \A n \in Rows \ B : Targets(n)' \subseteq Targets(n),
           \A n \in Rows \ B : Pending(n) => Pending(n)',
           \A n \in B : Pending(n)' \/ \A d \in Targets(n)' : <<n, d>> \in refs',
           \A r \in refs : Live(r[1])' =>
              \E q \in refs' : q[1] = r[1] /\ SameTimeline(q[2], r[2])'
    PROVE  RefsAreIndexed'
  <1> SUFFICES ASSUME NEW n \in Rows', NEW d \in Targets(n)', Live(n)', ~Pending(n)'
               PROVE  \E r \in refs' : r[1] = n /\ SameTimeline(r[2], d)'
    BY DEF RefsAreIndexed, Pending
  <1>1. CASE n \in B
    <2>1. <<n, d>> \in refs' /\ SameTimeline(d, d)'
      BY <1>1 DEF SameTimeline
    <2> QED
      BY <2>1
  <1>2. CASE n \notin B
    <2>1. n \in Rows /\ d \in Targets(n) /\ ~Pending(n)
      BY <1>2
    <2>2. Live(n)
      BY <2>1 DEF Kept, Live
    <2>3. PICK r \in refs : r[1] = n /\ SameTimeline(r[2], d)
      BY <2>1, <2>2 DEF RefsAreIndexed, Pending
    <2>4. r[2] \in Rows /\ d \in Rows
      BY <2>1, <2>3 DEF TypeOK, ReferencesExist
    <2>5. SameTimeline(r[2], d)'
      BY <2>3, <2>4 DEF SameTimeline, Kept
    <2>6. PICK q \in refs' : q[1] = r[1] /\ SameTimeline(q[2], r[2])'
      BY <2>3
    <2> QED
      BY <2>3, <2>5, <2>6 DEF SameTimeline
  <1> QED
    BY <1>1, <1>2

-----------------------------------------------------------------------------
(* Each action preserves the invariant.                                    *)

\* Insert: the new row refers to rows that were there and is still to be
\* indexed by its own call.
LEMMA InsertKeepsInv ==
    ASSUME IInv, NEW c \in Clients, call[c].pc = "embedding", CommitInsert(c)
    PROVE  IInv'
  <1> DEFINE e == call[c].entry
  <1> USE DEF IInv
  <1>0. PICK m : m = Len(nodes) + 1
    OBVIOUS
  <1>1. /\ nodes' \in Seq(Row) /\ Len(nodes') <= MaxRows
        /\ Rows' = Rows \cup {m} /\ m \notin Rows /\ m \in Ids
        /\ \A n \in Rows : nodes'[n] = nodes[n]
        /\ nodes'[m].timeline = m /\ nodes'[m].version = 1
        /\ \A k \in Keys : nodes'[m].fields[k].to \subseteq e.data[k].to
        /\ e.op = "insert" /\ Allocated(e) = m
    BY <1>0, InsertStep
  <1>2. call' = [call EXCEPT ![c].pc = "indexing", ![c].made = m]
        /\ refs' = refs
    BY <1>1 DEF CommitInsert
  <1>3. /\ call' \in [Clients -> Call]
        /\ call'[c].pc = "indexing" /\ call'[c].made = m
        /\ call'[c].entry = e
        /\ \A d \in Clients \ {c} : call'[d] = call[d]
    BY <1>1, <1>2, CommittedCall
  <1>4. CallIsSound(c) /\ \A k \in Keys : e.data[k].to \subseteq Rows
    BY DEF CallsAreSound, CallIsSound
  <1>5. Kept
    BY <1>1 DEF Kept, Rows
  <1>6. CallIsSound(c)'
    BY <1>1, <1>3, <1>4 DEF CallIsSound, Bumps
  <1>7. CallsAreSound'
    BY <1>3, <1>5, <1>6, CallsKept
  <1>8. TypeOK'
    <2>1. refs' \subseteq Rows' \X Rows'
      BY <1>1, <1>2 DEF TypeOK
    <2> QED
      BY <1>1, <1>3, <1>5, <1>7, <2>1, TypeKept
  <1>9. Targets(m)' \subseteq Rows /\ \A n \in Rows : Targets(n)' = Targets(n)
    BY <1>1, <1>4 DEF Targets
  <1>10. ReferencesExist'
    <2> SUFFICES ASSUME NEW n \in Rows'
                 PROVE  Targets(n)' \subseteq Rows' \ {n}
      BY DEF ReferencesExist
    <2>1. CASE n \in Rows
      BY <1>1, <1>9, <2>1 DEF ReferencesExist
    <2>2. CASE n = m
      BY <1>1, <1>9, <2>2
    <2> QED
      BY <1>1, <2>1, <2>2
  <1>11. HistoryIsUnbroken'
    BY <1>1, <1>5, HistoryGrows
  <1>12. RefsAreIndexed'
    <2>1. Pending(m)'
      BY <1>3 DEF Pending
    <2>2. \A n \in Rows : Pending(n) => Pending(n)'
      BY <1>1, <1>3 DEF Pending
    <2>3. \A r \in refs : r \in refs' /\ SameTimeline(r[2], r[2])'
      BY <1>2 DEF SameTimeline
    <2> DEFINE B == {m}
    <2>4. /\ Rows' \ Rows \subseteq B
          /\ \A n \in Rows \ B : Targets(n)' \subseteq Targets(n)
          /\ \A n \in Rows \ B : Pending(n) => Pending(n)'
          /\ \A n \in B : Pending(n)' \/ \A d \in Targets(n)' : <<n, d>> \in refs'
      BY <1>1, <1>9, <2>1, <2>2
    <2> QED
      BY <1>5, <2>3, <2>4, RefsKept
  <1> QED
    BY <1>7, <1>8, <1>10, <1>11, <1>12

\* Bump: the row that is superseded is hidden, its successor stands on its
\* timeline and is still to be indexed.
LEMMA BumpKeepsInv ==
    ASSUME IInv, NEW c \in Clients, call[c].pc = "embedding", CommitBump(c)
    PROVE  IInv'
  <1> DEFINE e == call[c].entry
  <1> USE DEF IInv
  <1>0. PICK m : m = Len(nodes) + 1
    OBVIOUS
  <1>1. /\ nodes' \in Seq(Row) /\ Len(nodes') <= MaxRows
        /\ Rows' = Rows \cup {m} /\ m \notin Rows /\ m \in Ids
        /\ e.id \in Rows /\ e.op \in Bumps /\ Allocated(e) = m
        /\ nodes'[e.id].tombstone
        /\ \A n \in Rows :
              /\ nodes'[n].timeline = nodes[n].timeline
              /\ nodes'[n].version = nodes[n].version
              /\ nodes[n].tombstone => nodes'[n].tombstone
              /\ \A k \in Keys : nodes'[n].fields[k].to = nodes[n].fields[k].to
        /\ nodes'[m].timeline = nodes[e.id].timeline
        /\ nodes'[m].version = nodes[e.id].version + 1
        /\ \A k \in Keys : nodes'[m].fields[k].to \subseteq Rows
    BY <1>0, BumpStep
  <1>2. call' = [call EXCEPT ![c].pc = "indexing", ![c].made = m]
        /\ refs' = refs
    BY <1>1 DEF CommitBump
  <1>3. /\ call' \in [Clients -> Call]
        /\ call'[c].pc = "indexing" /\ call'[c].made = m
        /\ call'[c].entry = e
        /\ \A d \in Clients \ {c} : call'[d] = call[d]
    BY <1>1, <1>2, CommittedCall
  <1>4. CallIsSound(c)
    BY DEF CallsAreSound
  <1>5. Kept
    BY <1>1 DEF Kept, Rows
  <1>6. CallIsSound(c)'
    <2>1. PICK prev : prev = e.id
      OBVIOUS
    <2>2. ~Live(prev)' /\ SameTimeline(m, prev)'
      BY <1>1, <2>1 DEF Live, SameTimeline
    <2>3. /\ e.op # "insert" /\ e.id \in Rows'
          /\ \A k \in Keys : e.data[k].to \subseteq Rows' \ {e.id}
      BY <1>1, <1>4 DEF CallIsSound, Bumps
    <2> QED
      BY <1>1, <1>3, <2>1, <2>2, <2>3 DEF CallIsSound, Bumps
  <1>7. CallsAreSound'
    BY <1>3, <1>5, <1>6, CallsKept
  <1>8. TypeOK'
    <2>1. refs' \subseteq Rows' \X Rows'
      BY <1>1, <1>2 DEF TypeOK
    <2>2. nodes'[m].timeline \in Rows'
      BY <1>1 DEF TypeOK
    <2>3. \A n \in Rows' \ Rows : nodes'[n].timeline \in Rows'
      BY <1>1, <2>2
    <2> QED
      BY <1>1, <1>3, <1>5, <1>7, <2>1, <2>3, TypeKept
  <1>9. Targets(m)' \subseteq Rows /\ \A n \in Rows : Targets(n)' = Targets(n)
    BY <1>1 DEF Targets
  <1>10. ReferencesExist'
    <2> SUFFICES ASSUME NEW n \in Rows'
                 PROVE  Targets(n)' \subseteq Rows' \ {n}
      BY DEF ReferencesExist
    <2>1. CASE n \in Rows
      BY <1>1, <1>9, <2>1 DEF ReferencesExist
    <2>2. CASE n = m
      BY <1>1, <1>9, <2>2
    <2> QED
      BY <1>1, <2>1, <2>2
  <1>11. HistoryIsUnbroken'
    <2>1. \A n \in Rows' \ Rows : /\ nodes'[n].timeline = nodes[e.id].timeline
                                  /\ nodes'[n].version = nodes[e.id].version + 1
      BY <1>1
    <2> QED
      BY <1>1, <1>5, <2>1, HistoryGrows
  <1>12. RefsAreIndexed'
    <2>1. Pending(m)'
      BY <1>3 DEF Pending
    <2>2. \A n \in Rows : Pending(n) => Pending(n)'
      BY <1>1, <1>3 DEF Pending
    <2>3. \A r \in refs : r \in refs' /\ SameTimeline(r[2], r[2])'
      BY <1>2 DEF SameTimeline
    <2> DEFINE B == {m}
    <2>4. /\ Rows' \ Rows \subseteq B
          /\ \A n \in Rows \ B : Targets(n)' \subseteq Targets(n)
          /\ \A n \in Rows \ B : Pending(n) => Pending(n)'
          /\ \A n \in B : Pending(n)' \/ \A d \in Targets(n)' : <<n, d>> \in refs'
      BY <1>1, <1>9, <2>1, <2>2
    <2> QED
      BY <1>5, <2>3, <2>4, RefsKept
  <1> QED
    BY <1>7, <1>8, <1>10, <1>11, <1>12

\* Patch: the references of one row may grow; its call will index it again.
LEMMA PatchKeepsInv ==
    ASSUME IInv, NEW c \in Clients, call[c].pc = "embedding", CommitPatch(c)
    PROVE  IInv'
  <1> DEFINE e == call[c].entry
  <1> USE DEF IInv
  <1>0. PICK n : n = e.id
    OBVIOUS
  <1>1. /\ SameRows
        /\ n \in Rows /\ e.op \in Patches /\ Allocated(e) = n
        /\ \A i \in Rows \ {n}, k \in Keys : nodes'[i].fields[k].to = nodes[i].fields[k].to
        /\ \A k \in Keys : nodes'[n].fields[k].to
                               \subseteq nodes[n].fields[k].to \cup e.data[k].to
    BY <1>0, PatchStep
  <1>2. /\ call' = [call EXCEPT ![c].pc = "indexing", ![c].made = n]
        /\ refs' = refs
    BY <1>1 DEF CommitPatch
  <1>3. /\ call' \in [Clients -> Call]
        /\ call'[c].pc = "indexing" /\ call'[c].made = n
        /\ call'[c].entry = e
        /\ \A d \in Clients \ {c} : call'[d] = call[d]
    <2>1. n \in Ids
      BY <1>1, RowsAreIds
    <2> QED
      BY <1>2, <2>1, CommittedCall
  <1>4. CallIsSound(c)
    BY DEF CallsAreSound
  <1>5. Kept /\ Rows' = Rows
    BY <1>1, SameRowsKept DEF SameRows
  <1>6. CallIsSound(c)'
    BY <1>0, <1>1, <1>3, <1>4, <1>5 DEF CallIsSound, Bumps, Patches
  <1>7. CallsAreSound'
    BY <1>3, <1>5, <1>6, CallsKept
  <1>8. TypeOK'
    <2>1. refs' \subseteq Rows' \X Rows'
      BY <1>0, <1>1, <1>2, <1>5 DEF TypeOK
    <2>2. nodes' \in Seq(Row) /\ Len(nodes') <= MaxRows
      BY <1>1 DEF SameRows, TypeOK
    <2> QED
      BY <1>3, <1>5, <1>7, <2>1, <2>2, TypeKept
  <1>9. \A i \in Rows \ {n} : Targets(i)' = Targets(i)
    BY <1>1 DEF Targets
  <1>10. Targets(n)' \subseteq Rows \ {n}
    <2>1. \A k \in Keys : e.data[k].to \subseteq Rows \ {n}
      BY <1>0, <1>4 DEF CallIsSound
    <2>2. \A k \in Keys : nodes[n].fields[k].to \subseteq Rows \ {n}
      BY <1>1 DEF ReferencesExist, Targets
    <2>3. \A k \in Keys : nodes'[n].fields[k].to \subseteq Rows \ {n}
      BY <1>1, <2>1, <2>2
    <2> QED
      BY <2>3 DEF Targets
  <1>11. ReferencesExist'
    <2> SUFFICES ASSUME NEW i \in Rows
                 PROVE  Targets(i)' \subseteq Rows \ {i}
      BY <1>5 DEF ReferencesExist
    <2>1. CASE i # n
      BY <1>9, <2>1 DEF ReferencesExist
    <2>2. CASE i = n
      BY <1>10, <2>2
    <2> QED
      BY <2>1, <2>2
  <1>12. HistoryIsUnbroken'
    BY <1>5, HistoryGrows
  <1>13. RefsAreIndexed'
    <2>1. Pending(n)'
      BY <1>3 DEF Pending
    <2>2. \A i \in Rows \ {n} : Pending(i) => Pending(i)'
      <3> SUFFICES ASSUME NEW i \in Rows \ {n}, Pending(i)
                   PROVE  Pending(i)'
        OBVIOUS
      <3>1. PICK d \in Clients : call[d].pc = "indexing" /\ call[d].made = i
        BY DEF Pending
      <3>2. d # c
        BY <3>1
      <3> QED
        BY <1>3, <3>1, <3>2 DEF Pending
    <2>3. \A r \in refs : r \in refs' /\ SameTimeline(r[2], r[2])'
      BY <1>2 DEF SameTimeline
    <2> DEFINE B == {n}
    <2>4. /\ Rows' \ Rows \subseteq B
          /\ \A i \in Rows \ B : Targets(i)' \subseteq Targets(i)
          /\ \A i \in Rows \ B : Pending(i) => Pending(i)'
          /\ \A i \in B : Pending(i)' \/ \A d \in Targets(i)' : <<i, d>> \in refs'
      BY <1>5, <1>9, <2>1, <2>2
    <2> QED
      BY <1>5, <2>3, <2>4, RefsKept
  <1> QED
    BY <1>7, <1>8, <1>11, <1>12, <1>13

\* A step that leaves the rows, the edges and the indexing calls alone keeps
\* the parts of the invariant that speak of them.
LEMMA UntouchedRows ==
    ASSUME IInv, UNCHANGED <<nodes, refs>>, CallsAreSound',
           call' \in [Clients -> Call],
           \A n \in Rows : Pending(n) => Pending(n)'
    PROVE  IInv'
  <1> USE DEF IInv
  <1>1. Kept /\ Rows' = Rows /\ nodes' = nodes /\ refs' = refs
    BY DEF Kept, Rows
  <1>2. TypeOK'
    <2>1. /\ nodes' \in Seq(Row) /\ Len(nodes') <= MaxRows
          /\ refs' \subseteq Rows' \X Rows'
      BY <1>1 DEF TypeOK
    <2> QED
      BY <1>1, <2>1, TypeKept
  <1>3. \A n \in Rows : Targets(n)' = Targets(n)
    BY DEF Targets
  <1>4. ReferencesExist'
    BY <1>1, <1>3 DEF ReferencesExist
  <1>5. HistoryIsUnbroken'
    BY <1>1, HistoryGrows
  <1>6. RefsAreIndexed'
    <2>1. \A r \in refs : r \in refs' /\ SameTimeline(r[2], r[2])'
      BY DEF SameTimeline
    <2> DEFINE B == {}
    <2>2. /\ Rows' \ Rows \subseteq B
          /\ \A i \in Rows \ B : Targets(i)' \subseteq Targets(i)
          /\ \A i \in Rows \ B : Pending(i) => Pending(i)'
          /\ \A i \in B : Pending(i)' \/ \A d \in Targets(i)' : <<i, d>> \in refs'
      BY <1>1, <1>3
    <2> QED
      BY <1>1, <2>1, <2>2, RefsKept
  <1> QED
    BY <1>2, <1>4, <1>5, <1>6

\* A transaction that fails leaves the store as it was.
LEMMA FailKeepsInv ==
    ASSUME IInv, NEW c \in Clients, call[c].pc = "embedding", CommitFails(c)
    PROVE  IInv'
  <1> USE DEF IInv
  <1>1. /\ UNCHANGED <<nodes, refs>>
        /\ call' \in [Clients -> Call]
        /\ call'[c].pc = "idle"
        /\ \A d \in Clients \ {c} : call'[d] = call[d]
    BY FreedCall DEF CommitFails
  <1>2. Kept
    BY <1>1 DEF Kept, Rows
  <1>3. CallsAreSound'
    BY <1>1, <1>2, CallsKept
  <1>4. ASSUME NEW n \in Rows, Pending(n)
        PROVE  Pending(n)'
    <2>1. PICK d \in Clients : call[d].pc = "indexing" /\ call[d].made = n
      BY <1>4 DEF Pending
    <2>2. d # c
      BY <2>1
    <2> QED
      BY <1>1, <2>1, <2>2 DEF Pending
  <1> QED
    BY <1>1, <1>3, <1>4, UntouchedRows

\* A call that begins writes nothing.
LEMMA BeginKeepsInv ==
    ASSUME IInv, NEW c \in Clients, Begin(c)
    PROVE  IInv'
  <1> USE DEF IInv
  <1>1. /\ call[c].pc = "idle" /\ UNCHANGED <<nodes, refs>>
        /\ call' \in [Clients -> Call]
        /\ \A d \in Clients \ {c} : call'[d] = call[d]
        /\ call'[c].pc = "embedding"
        /\ call'[c].entry.op = "insert" => call'[c].entry.id = 0
        /\ call'[c].entry.op # "insert" => call'[c].entry.id \in Rows
        /\ \A k \in Keys : call'[c].entry.data[k].to \subseteq Rows \ {call'[c].entry.id}
    BY BeginStep
  <1>2. Kept /\ Rows' = Rows
    BY <1>1 DEF Kept, Rows
  <1>3. CallIsSound(c)'
    BY <1>1, <1>2 DEF CallIsSound
  <1>4. CallsAreSound'
    <2>1. \A d \in {c} : call'[d].pc = "idle" \/ CallIsSound(d)'
      BY <1>3
    <2>2. \A d \in Clients \ {c} : call'[d] = call[d]
      BY <1>1
    <2>3. TypeOK /\ CallsAreSound /\ {c} \in SUBSET Clients
      OBVIOUS
    <2> QED
      BY <1>2, <2>1, <2>2, <2>3, CallsKept
  <1>5. ASSUME NEW n \in Rows, Pending(n)
        PROVE  Pending(n)'
    <2>1. PICK d \in Clients : call[d].pc = "indexing" /\ call[d].made = n
      BY <1>5 DEF Pending
    <2>2. d # c
      BY <1>1, <2>1
    <2> QED
      BY <1>1, <2>1, <2>2 DEF Pending
  <1> QED
    BY <1>1, <1>4, <1>5, UntouchedRows

\* Index: the row gets its edges; a bump sends the edges to the row it
\* replaced to the new one, on the same timeline, and drops those from it,
\* which is no longer live.
LEMMA IndexKeepsInv ==
    ASSUME IInv, NEW c \in Clients, Index(c)
    PROVE  IInv'
  <1> USE DEF IInv
  <1>0. PICK m, e : m = call[c].made /\ e = call[c].entry
    OBVIOUS
  <1>1. /\ m \in Rows /\ call[c].pc = "indexing"
        /\ nodes' = nodes
        /\ refs' \subseteq Rows \X Rows
        /\ Walk(m) \subseteq refs'
        /\ e.op \in Bumps => /\ e.id \in Rows /\ ~Live(e.id) /\ SameTimeline(m, e.id)
                             /\ refs' = Walk(m) \cup Redirected(e.id, m)
        /\ e.op \notin Bumps => refs' = Walk(m) \cup refs
        /\ call' = [call EXCEPT ![c] = Free]
    BY <1>0, IndexStep
  <1>2. /\ call' \in [Clients -> Call]
        /\ call'[c].pc = "idle"
        /\ \A d \in Clients \ {c} : call'[d] = call[d]
    BY <1>1, FreedCall
  <1>3. Kept /\ Rows' = Rows
    BY <1>1 DEF Kept, Rows, Index
  <1>4. CallsAreSound'
    <2>1. \A d \in {c} : call'[d].pc = "idle" \/ CallIsSound(d)'
      BY <1>2
    <2>2. TypeOK /\ CallsAreSound /\ {c} \in SUBSET Clients
      OBVIOUS
    <2> QED
      BY <1>2, <1>3, <2>1, <2>2, CallsKept
  <1>5. TypeOK'
    <2>1. /\ nodes' \in Seq(Row) /\ Len(nodes') <= MaxRows
          /\ refs' \subseteq Rows' \X Rows'
      BY <1>1, <1>3 DEF TypeOK
    <2> QED
      BY <1>2, <1>3, <1>4, <2>1, TypeKept
  <1>6. \A n \in Rows : Targets(n)' = Targets(n)
    BY <1>1 DEF Targets
  <1>7. ReferencesExist'
    BY <1>3, <1>6 DEF ReferencesExist
  <1>8. HistoryIsUnbroken'
    BY <1>3, HistoryGrows
  <1>9. RefsAreIndexed'
    <2>1. \A d \in Targets(m)' : <<m, d>> \in refs'
      <3>1. Targets(m) \subseteq Rows \ {m}
        BY <1>1 DEF ReferencesExist
      <3>2. \A d \in Targets(m) : <<m, d>> \in Walk(m)
        BY <1>1, <3>1, WalkFacts DEF WalksIndex
      <3> QED
        BY <1>1, <1>6, <3>2
    <2>2. ASSUME NEW n \in Rows \ {m}, Pending(n)
          PROVE  Pending(n)'
      <3>1. PICK d \in Clients : call[d].pc = "indexing" /\ call[d].made = n
        BY <2>2 DEF Pending
      <3>2. d # c
        BY <1>0, <3>1
      <3> QED
        BY <1>2, <3>1, <3>2 DEF Pending
    <2>3. ASSUME NEW r \in refs, Live(r[1])'
          PROVE  \E q \in refs' : q[1] = r[1] /\ SameTimeline(q[2], r[2])'
      <3>1. CASE e.op \notin Bumps
        BY <1>1, <3>1 DEF SameTimeline
      <3>2. CASE e.op \in Bumps
        <4>1. PICK prev : prev = e.id
          OBVIOUS
        <4>2. /\ ~Live(prev) /\ SameTimeline(m, prev)
              /\ Redirected(prev, m) \subseteq refs'
          BY <1>1, <3>2, <4>1
        <4>3. r[1] # prev
          BY <1>1, <2>3, <4>2 DEF Live
        <4> DEFINE q == <<r[1], IF r[2] = prev THEN m ELSE r[2]>>
        <4>4. q \in refs' /\ q[1] = r[1]
          BY <4>2, <4>3 DEF Redirected
        <4>5. SameTimeline(q[2], r[2])'
          BY <1>1, <4>2 DEF SameTimeline
        <4> QED
          BY <4>4, <4>5
      <3> QED
        BY <3>1, <3>2
    <2> DEFINE B == {m}
    <2>4. /\ Rows' \ Rows \subseteq B
          /\ \A i \in Rows \ B : Targets(i)' \subseteq Targets(i)
          /\ \A i \in Rows \ B : Pending(i) => Pending(i)'
          /\ \A i \in B : Pending(i)' \/ \A d \in Targets(i)' : <<i, d>> \in refs'
      BY <1>3, <1>6, <2>1, <2>2
    <2> QED
      BY <1>3, <2>3, <2>4, RefsKept
  <1> QED
    BY <1>4, <1>5, <1>7, <1>8, <1>9

\* setNodeState touches no field.
LEMMA SetStateKeepsInv ==
    ASSUME IInv, NEW n \in Rows, NEW s \in StateNames, SetNodeState(n, s)
    PROVE  IInv'
  <1> USE DEF IInv
  <1>1. SameRows /\ \A i \in Rows : nodes'[i].fields = nodes[i].fields
    BY SetStateStep
  <1>2. Kept /\ Rows' = Rows
    BY <1>1, SameRowsKept DEF SameRows
  <1>3. call' = call /\ refs' = refs
    BY DEF SetNodeState
  <1>4. CallsAreSound'
    <2>1. \A d \in {} : call'[d].pc = "idle" \/ CallIsSound(d)'
      OBVIOUS
    <2>2. TypeOK /\ CallsAreSound /\ {} \in SUBSET Clients
      OBVIOUS
    <2> QED
      BY <1>2, <1>3, <2>1, <2>2, CallsKept
  <1>5. TypeOK'
    <2>1. /\ nodes' \in Seq(Row) /\ Len(nodes') <= MaxRows
          /\ refs' \subseteq Rows' \X Rows'
          /\ call' \in [Clients -> Call]
      BY <1>1, <1>2, <1>3 DEF TypeOK, SameRows
    <2> QED
      BY <1>2, <1>4, <2>1, TypeKept
  <1>6. \A i \in Rows : Targets(i)' = Targets(i)
    BY <1>1 DEF Targets
  <1>7. ReferencesExist'
    BY <1>2, <1>6 DEF ReferencesExist
  <1>8. HistoryIsUnbroken'
    BY <1>2, HistoryGrows
  <1>9. RefsAreIndexed'
    <2>1. \A r \in refs : r \in refs' /\ SameTimeline(r[2], r[2])'
      BY <1>3 DEF SameTimeline
    <2>2. \A i \in Rows : Pending(i) => Pending(i)'
      BY <1>3 DEF Pending
    <2> DEFINE B == {}
    <2>3. /\ Rows' \ Rows \subseteq B
          /\ \A i \in Rows \ B : Targets(i)' \subseteq Targets(i)
          /\ \A i \in Rows \ B : Pending(i) => Pending(i)'
          /\ \A i \in B : Pending(i)' \/ \A d \in Targets(i)' : <<i, d>> \in refs'
      BY <1>2, <1>6, <2>2
    <2> QED
      BY <1>2, <2>1, <2>3, RefsKept
  <1> QED
    BY <1>4, <1>5, <1>7, <1>8, <1>9

\* appendListItemsUnique indexes the row whose list it extends.
LEMMA AppendKeepsInv ==
    ASSUME IInv, NEW n \in Rows, NEW d \in Rows, NEW k \in Keys, n # d,
           AppendListItems(n, k, d)
    PROVE  IInv'
  <1> USE DEF IInv
  <1>1. /\ SameRows
        /\ \A i \in Rows \ {n} : nodes'[i].fields = nodes[i].fields
        /\ \A j \in Keys : nodes'[n].fields[j].to \subseteq nodes[n].fields[j].to \cup {d}
    BY AppendStep
  <1>2. Kept /\ Rows' = Rows
    BY <1>1, SameRowsKept DEF SameRows
  <1>3. call' = call /\ refs' = refs \cup Walk(n)'
    BY DEF AppendListItems, Refreshed
  <1>4. CallsAreSound'
    <2>1. \A i \in {} : call'[i].pc = "idle" \/ CallIsSound(i)'
      OBVIOUS
    <2>2. TypeOK /\ CallsAreSound /\ {} \in SUBSET Clients
      OBVIOUS
    <2> QED
      BY <1>2, <1>3, <2>1, <2>2, CallsKept
  <1>5. /\ Walk(n)' \subseteq Rows \X Rows
        /\ Targets(n)' \subseteq Rows \ {n} => \A i \in Targets(n)' : <<n, i>> \in Walk(n)'
    <2>1. WalksIndex'
      BY WalkFacts, PTL
    <2> QED
      BY <1>2, <2>1 DEF WalksIndex
  <1>6. TypeOK'
    <2>1. /\ nodes' \in Seq(Row) /\ Len(nodes') <= MaxRows
          /\ refs' \subseteq Rows' \X Rows'
          /\ call' \in [Clients -> Call]
      BY <1>1, <1>2, <1>3, <1>5 DEF TypeOK, SameRows
    <2> QED
      BY <1>2, <1>4, <2>1, TypeKept
  <1>7. \A i \in Rows \ {n} : Targets(i)' = Targets(i)
    BY <1>1 DEF Targets
  <1>8. Targets(n)' \subseteq Rows \ {n}
    <2>1. \A j \in Keys : nodes[n].fields[j].to \subseteq Rows \ {n}
      <3>1. Targets(n) \subseteq Rows \ {n}
        BY DEF ReferencesExist
      <3> QED
        BY <3>1 DEF Targets
    <2>2. d \in Rows \ {n}
      OBVIOUS
    <2>3. \A j \in Keys : nodes'[n].fields[j].to \subseteq Rows \ {n}
      BY <1>1, <2>1, <2>2
    <2> QED
      BY <2>3 DEF Targets
  <1>9. ReferencesExist'
    <2> SUFFICES ASSUME NEW i \in Rows
                 PROVE  Targets(i)' \subseteq Rows \ {i}
      BY <1>2 DEF ReferencesExist
    <2>1. CASE i # n
      BY <1>7, <2>1 DEF ReferencesExist
    <2>2. CASE i = n
      BY <1>8, <2>2
    <2> QED
      BY <2>1, <2>2
  <1>10. HistoryIsUnbroken'
    BY <1>2, HistoryGrows
  <1>11. RefsAreIndexed'
    <2>1. \A r \in refs : r \in refs' /\ SameTimeline(r[2], r[2])'
      BY <1>3 DEF SameTimeline
    <2>2. \A i \in Rows : Pending(i) => Pending(i)'
      BY <1>3 DEF Pending
    <2> DEFINE B == {n}
    <2>3. /\ Rows' \ Rows \subseteq B
          /\ \A i \in Rows \ B : Targets(i)' \subseteq Targets(i)
          /\ \A i \in Rows \ B : Pending(i) => Pending(i)'
          /\ \A i \in B : Pending(i)' \/ \A j \in Targets(i)' : <<i, j>> \in refs'
      BY <1>2, <1>3, <1>5, <1>7, <1>8, <2>2
    <2> QED
      BY <1>2, <2>1, <2>3, RefsKept
  <1> QED
    BY <1>4, <1>6, <1>9, <1>10, <1>11
-----------------------------------------------------------------------------
(* The theorems.                                                           *)

\* An empty store satisfies the invariant.
LEMMA InitInv == Init => IInv
  <1> SUFFICES ASSUME Init PROVE IInv
    OBVIOUS
  <1>1. nodes = <<>> /\ Rows = {} /\ Len(nodes) = 0 /\ refs = {}
    BY DEF Init, Rows
  <1>2. call = [c \in Clients |-> Free] /\ Free \in Call /\ \A c \in Clients : call[c].pc = "idle"
    BY DEF Init, Free, Call
  <1>3. TypeOK
    BY <1>1, <1>2, GraphAssumption DEF TypeOK
  <1> QED
    BY <1>1, <1>2, <1>3 DEF IInv, CallsAreSound, ReferencesExist, HistoryIsUnbroken, RefsAreIndexed

\* Every step keeps the invariant, one case per action.
LEMMA NextKeepsInv == IInv /\ [Next]_vars => IInv'
  <1> SUFFICES ASSUME IInv, [Next]_vars PROVE IInv'
    OBVIOUS
  <1>1. ASSUME NEW c \in Clients, Begin(c) PROVE IInv'
    BY <1>1, BeginKeepsInv
  <1>2. ASSUME NEW c \in Clients, Commit(c) PROVE IInv'
    BY <1>2, InsertKeepsInv, BumpKeepsInv, PatchKeepsInv, FailKeepsInv DEF Commit
  <1>3. ASSUME NEW c \in Clients, Index(c) PROVE IInv'
    BY <1>3, IndexKeepsInv
  <1>4. ASSUME NEW n \in Rows, NEW s \in StateNames, SetNodeState(n, s) PROVE IInv'
    BY <1>4, SetStateKeepsInv
  <1>5. ASSUME NEW n \in Rows, NEW d \in Rows, NEW k \in Keys, n # d, AppendListItems(n, k, d)
        PROVE  IInv'
    BY <1>5, AppendKeepsInv
  <1>6. CASE UNCHANGED vars
    <2>1. call' = call /\ UNCHANGED <<nodes, refs>> /\ Kept
      BY <1>6 DEF vars, Kept, Rows
    <2>2. CallsAreSound'
      <3>1. \A d \in {} : call'[d].pc = "idle" \/ CallIsSound(d)'
        OBVIOUS
      <3>2. TypeOK /\ CallsAreSound /\ {} \in SUBSET Clients
        BY DEF IInv
      <3> QED
        BY <2>1, <3>1, <3>2, CallsKept
    <2>3. call' \in [Clients -> Call]
      BY <2>1 DEF IInv, TypeOK
    <2>4. \A n \in Rows : Pending(n) => Pending(n)'
      BY <2>1 DEF Pending
    <2> QED
      BY <2>1, <2>2, <2>3, <2>4, UntouchedRows
  <1> QED
    BY <1>1, <1>2, <1>3, <1>4, <1>5, <1>6 DEF Next

\* The invariant holds in every state the store can reach.
LEMMA SpecInv == Spec => []IInv
  BY InitInv, NextKeepsInv, PTL DEF Spec

\* Whatever calls overlap, every row, edge and call record keeps its type and
\* names rows of the table (db.ts, insertEntries).
THEOREM StoreTypeCorrect == Spec => []TypeOK
  <1>1. IInv => TypeOK
    BY DEF IInv
  <1> QED
    BY <1>1, SpecInv, PTL

\* Behind every version above the first stands its predecessor, tombstoned,
\* for any number of writers, also when two of them bump the same row or bump
\* a row that is superseded (db.ts, the bump pass).
THEOREM HistoryHasNoGap == Spec => []HistoryIsUnbroken
  <1>1. IInv => HistoryIsUnbroken
    BY DEF IInv
  <1> QED
    BY <1>1, SpecInv, PTL

\* node_refs is complete: a live row that no call is still indexing has an
\* edge for each of its references, to a version of what it references
\* (nodeRefs.ts, populateForRoot; db.ts, the redirect after a bump).
THEOREM EdgeIndexIsComplete == Spec => []RefsAreIndexed
  <1>1. IInv => RefsAreIndexed
    BY DEF IInv
  <1> QED
    BY <1>1, SpecInv, PTL
-----------------------------------------------------------------------------
(* Without overwrites no live row loses its body.                          *)

\* Hidden fields after a step: only those of rows that are not live.
BodiesKept ==
    \A n \in Rows', k \in Keys :
        \/ ~nodes'[n].fields[k].hidden
        \/ nodes'[n].tombstone
        \/ n \in Rows /\ nodes'[n].fields[k].hidden = nodes[n].fields[k].hidden

\* A step that keeps the rows in their place and hides no body of a live row.
LEMMA WholeKept ==
    ASSUME LiveRowsAreWhole, Kept, BodiesKept
    PROVE  LiveRowsAreWhole'
  <1> SUFFICES ASSUME NEW n \in Rows', NEW k \in Keys, ~nodes'[n].tombstone
               PROVE  ~nodes'[n].fields[k].hidden
    BY DEF LiveRowsAreWhole, Live
  <1>1. CASE nodes'[n].fields[k].hidden
    <2>1. n \in Rows /\ nodes'[n].fields[k].hidden = nodes[n].fields[k].hidden
      BY <1>1 DEF BodiesKept
    <2>2. ~nodes[n].tombstone
      BY <2>1 DEF Kept
    <2>3. ~nodes[n].fields[k].hidden
      BY <2>1, <2>2 DEF LiveRowsAreWhole, Live
    <2> QED
      BY <2>1, <2>3
  <1> QED
    BY <1>1

\* A plain patch replaces no value, so that its walk has no root.
LEMMA PlainPatchHidesNothing ==
    ASSUME TypeOK, CallsAreSound, NEW c \in Clients, call[c].pc = "embedding",
           CommitPatch(c), "overwrite" \notin Ops
    PROVE  /\ Rows' = Rows
           /\ \A n \in Rows, k \in Keys :
                 \/ ~nodes'[n].fields[k].hidden
                 \/ nodes'[n].fields[k].hidden = nodes[n].fields[k].hidden
  <1> DEFINE e == call[c].entry
             hid == AfterReplace(c)
             dead == Met(UNION {Old(c, k).to : k \in ReplacedLists(c)})
                        \cup UNION {Below(d) : d \in ReplacedRefs(c)}
             row == PatchedRow(c, hid[e.id])
  <1>1. e.op = "patch" /\ e.id \in Rows /\ \A k \in Keys : e.data[k] \in Given
    <2>1. e.op \in Ops /\ e.op \in {"patch", "overwrite"}
      BY CallType DEF CommitPatch
    <2>2. e.op = "patch"
      BY <2>1
    <2>3. e.id \in Rows
      BY <2>2 DEF CallsAreSound, CallIsSound
    <2> QED
      BY <2>2, <2>3, CallType
  <1>2. Written(c) \cap call[c].existing = {}
    BY <1>1 DEF Written
  <1>3. ReplacedRefs(c) = {}
    BY <1>2 DEF Replaced, ReplacedRefs
  <1>4. hid = Hide(dead, {})
    BY <1>3 DEF AfterReplace
  <1> HIDE DEF dead, hid
  <1>5. DOMAIN hid = Rows /\ \A n \in Rows : hid[n] \in Row
    BY <1>4, HideType
  <1>6. ASSUME NEW n \in Rows, NEW k \in Keys
        PROVE  hid[n].fields[k].hidden = nodes[n].fields[k].hidden
    <2>1. nodes[n].fields[k] \in Field
      BY RowsAreIds DEF Row
    <2>2. hid[n].fields[k].hidden = (nodes[n].fields[k].hidden
                                      \/ (n \in {} /\ nodes[n].fields[k].kind = "anon"))
      BY <1>4, HideType
    <2>3. nodes[n].fields[k].hidden \in BOOLEAN
      BY <2>1 DEF Field
    <2> QED
      BY <2>2, <2>3
  <1>7. ASSUME NEW k \in Keys
        PROVE  ~row.fields[k].hidden \/ row.fields[k].hidden = hid[e.id].fields[k].hidden
    <2>1. row.fields = [j \in Keys |-> IF j \in Written(c) THEN Built(e.data[j])
                                                          ELSE hid[e.id].fields[j]]
      BY <1>1, <1>5 DEF PatchedRow, Row
    <2>2. row.fields[k] = Built(e.data[k]) \/ row.fields[k] = hid[e.id].fields[k]
      BY <2>1
    <2>3. ~Built(e.data[k]).hidden
      BY <1>1, BuiltType
    <2> QED
      BY <2>2, <2>3
  <1>8. nodes' = [hid EXCEPT ![e.id] = row]
    BY DEF CommitPatch, hid
  <1> HIDE DEF row
  <1>9. /\ Rows' = Rows /\ nodes'[e.id] = row
        /\ \A n \in Rows \ {e.id} : nodes'[n] = hid[n]
    BY <1>1, <1>5, <1>8 DEF Rows
  <1> QED
    BY <1>6, <1>7, <1>9

\* appendListItemsUnique leaves the tombstones of the list alone.
LEMMA AppendHidesNothing ==
    ASSUME TypeOK, NEW n \in Rows, NEW k \in Keys, NEW d \in Rows, AppendListItems(n, k, d)
    PROVE  /\ Rows' = Rows
           /\ \A i \in Rows, j \in Keys :
                 nodes'[i].fields[j].hidden = nodes[i].fields[j].hidden
  <1>1. \A i \in Rows : nodes[i] \in Row
    BY RowsAreIds
  <1> DEFINE field == [nodes[n].fields[k] EXCEPT !.to = nodes[n].fields[k].to \cup {d}]
             fields == [nodes[n].fields EXCEPT ![k] = field]
             row == [nodes[n] EXCEPT !.fields = fields]
  <1>2. nodes[n].fields \in [Keys -> Field] /\ nodes[n].fields[k] \in Field
    BY <1>1 DEF Row
  <1>3. field.hidden = nodes[n].fields[k].hidden
    BY <1>2 DEF Field
  <1>4. nodes' = [nodes EXCEPT ![n] = row]
    BY <1>1 DEF AppendListItems
  <1> HIDE DEF field
  <1>5. \A j \in Keys : fields[j].hidden = nodes[n].fields[j].hidden
    BY <1>2, <1>3
  <1> HIDE DEF fields
  <1>6. row.fields = fields
    BY <1>1 DEF Row
  <1> HIDE DEF row
  <1>7. Rows' = Rows /\ nodes'[n] = row /\ \A i \in Rows \ {n} : nodes'[i] = nodes[i]
    BY <1>4 DEF Rows
  <1> QED
    BY <1>5, <1>6, <1>7

\* Each step of a store without overwrites hides no body of a live row.
LEMMA NextKeepsBodies ==
    ASSUME "overwrite" \notin Ops, IInv, LiveRowsAreWhole, [Next]_vars
    PROVE  LiveRowsAreWhole'
  <1> USE DEF IInv
  <1>1. ASSUME nodes' = nodes PROVE LiveRowsAreWhole'
    BY <1>1 DEF LiveRowsAreWhole, Live, Rows
  <1>2. ASSUME NEW c \in Clients, call[c].pc = "embedding", CommitInsert(c)
        PROVE  LiveRowsAreWhole'
    <2>1. PICK e, m : e = call[c].entry /\ m = Len(nodes) + 1
      OBVIOUS
    <2>2. /\ Rows' = Rows \cup {m} /\ \A n \in Rows : nodes'[n] = nodes[n]
          /\ \A k \in Keys : ~nodes'[m].fields[k].hidden
      BY <1>2, <2>1, InsertStep
    <2>3. Kept /\ BodiesKept
      BY <2>2 DEF Kept, BodiesKept
    <2> QED
      BY <2>3, WholeKept
  <1>3. ASSUME NEW c \in Clients, call[c].pc = "embedding", CommitBump(c)
        PROVE  LiveRowsAreWhole'
    <2>1. PICK e, m : e = call[c].entry /\ m = Len(nodes) + 1
      OBVIOUS
    <2>2. /\ Rows' = Rows \cup {m} /\ nodes'[e.id].tombstone
          /\ \A n \in Rows :
                /\ nodes'[n].timeline = nodes[n].timeline
                /\ nodes'[n].version = nodes[n].version
                /\ nodes[n].tombstone => nodes'[n].tombstone
                /\ \A k \in Keys :
                      n # e.id => nodes'[n].fields[k].hidden = nodes[n].fields[k].hidden
          /\ \A k \in Keys : ~nodes'[m].fields[k].hidden
      BY <1>3, <2>1, BumpStep
    <2>3. Kept
      BY <2>2 DEF Kept
    <2>4. BodiesKept
      BY <2>2 DEF BodiesKept
    <2> QED
      BY <2>3, <2>4, WholeKept
  <1>4. ASSUME NEW c \in Clients, call[c].pc = "embedding", CommitPatch(c)
        PROVE  LiveRowsAreWhole'
    <2>1. PICK e : e = call[c].entry
      OBVIOUS
    <2>2. SameRows
      BY <1>4, <2>1, PatchStep
    <2>3. BodiesKept
      BY <1>4, PlainPatchHidesNothing DEF BodiesKept
    <2> QED
      BY <2>2, <2>3, SameRowsKept, WholeKept
  <1>5. ASSUME NEW n \in Rows, NEW s \in StateNames, SetNodeState(n, s)
        PROVE  LiveRowsAreWhole'
    <2>1. SameRows /\ \A i \in Rows : nodes'[i].fields = nodes[i].fields
      BY <1>5, SetStateStep
    <2>2. BodiesKept
      BY <2>1 DEF BodiesKept, SameRows
    <2> QED
      BY <2>1, <2>2, SameRowsKept, WholeKept
  <1>6. ASSUME NEW n \in Rows, NEW d \in Rows, NEW k \in Keys, AppendListItems(n, k, d)
        PROVE  LiveRowsAreWhole'
    <2>1. SameRows
      BY <1>6, AppendStep
    <2>2. BodiesKept
      BY <1>6, AppendHidesNothing DEF BodiesKept
    <2> QED
      BY <2>1, <2>2, SameRowsKept, WholeKept
  <1>7. ASSUME NEW c \in Clients, Commit(c) PROVE LiveRowsAreWhole'
    <2>1. CASE CommitFails(c)
      BY <1>1, <2>1 DEF CommitFails
    <2> QED
      BY <1>2, <1>3, <1>4, <1>7, <2>1 DEF Commit
  <1>8. ASSUME NEW c \in Clients, Begin(c) \/ Index(c) PROVE LiveRowsAreWhole'
    BY <1>1, <1>8 DEF Begin, Index
  <1>9. CASE UNCHANGED vars
    BY <1>1, <1>9 DEF vars
  <1> QED
    BY <1>5, <1>6, <1>7, <1>8, <1>9 DEF Next

\* As long as nobody overwrites, what a live row says stays visible: bumps,
\* deletions and patches of any number of overlapping calls hide only bodies of
\* rows that are hidden themselves (db.ts, deepCopyAnonymousSubtree and
\* tombstoneAnonymousSubtree).
THEOREM BodiesStayWhole ==
    ASSUME "overwrite" \notin Ops
    PROVE  Spec => []LiveRowsAreWhole
  <1>1. Init => LiveRowsAreWhole
    BY DEF Init, LiveRowsAreWhole, Rows
  <1>2. IInv /\ LiveRowsAreWhole /\ [Next]_vars => LiveRowsAreWhole'
    BY NextKeepsBodies
  <1> QED
    BY <1>1, <1>2, SpecInv, PTL DEF Spec
=============================================================================
