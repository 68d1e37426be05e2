------------------------------ MODULE Queries ------------------------------
(***************************************************************************)
(* The query language: a text of tokens is parsed into clauses, and these  *)
(* are executed as look-ups in the graph.  A parser's result is the clause *)
(* or query it read and the tokens after it.  The look-ups that SQLite     *)
(* answers (full text, regular expression, nearest vectors) are sets given *)
(* by what they mean.                                                      *)
(***************************************************************************)
EXTENDS SequencesExt, Integers, Search

CONSTANTS
    Matching,     \* pattern -> the texts it matches
    Nearest,      \* text -> the embedded nodes, nearest first
    Times,        \* time argument -> milliseconds
    Limit         \* how many nodes a Meaning clause gives

Live == {n \in Nodes : Graph[n].live}
NoType == "none"

---------------------------------------------------------------------------
(* Tokens and the parser.                                                  *)

KW(k) == [type |-> "KW", value |-> k]
STR(s) == [type |-> "STR", value |-> s]
LPAREN == [type |-> "("]
RPAREN == [type |-> ")"]
COMMA == [type |-> ","]

AtomKeywords == {"Symbol", "Regex", "Meaning", "Id"}
TimeKeywords == {"CreatedBefore", "CreatedAfter", "UpdatedBefore", "UpdatedAfter"}

Parsed(ast, rest) == [ok |-> TRUE, ast |-> ast, rest |-> rest]
Fail == [ok |-> FALSE]

\* The i-th token from here on.
Peek(ts, i, t) == Len(ts) >= i /\ ts[i] = t
PeekStr(ts, i) == Len(ts) >= i /\ ts[i].type = "STR"
Drop(ts, n) == SubSeq(ts, n + 1, Len(ts))

ParseTimeArg(raw) == raw \in DOMAIN Times

ParseAtom(ts) ==
    CASE ~PeekStr(ts, 2) -> Fail
      [] PeekStr(ts, 2) /\ ts[1].value \in AtomKeywords ->
            Parsed([kind |-> ts[1].value, value |-> ts[2].value], Drop(ts, 2))
      [] PeekStr(ts, 2) /\ ts[1].value \in TimeKeywords /\ ParseTimeArg(ts[2].value) ->
            Parsed([kind |-> ts[1].value, value |-> Times[ts[2].value]], Drop(ts, 2))
      [] OTHER -> Fail

\* Mutant of MoreOf: a comma always belongs to the query.
NeverMore(ts, kw) == FALSE
\* IsType and Field clauses take a comma when the same keyword follows it.
MoreOf(ts, kw) == Peek(ts, 1, COMMA) /\ Peek(ts, 2, KW(kw))

RECURSIVE ParseQuery(_), ParseClauses(_, _), ParseClause(_), ParseTypes(_, _), ParseFields(_, _), ParseSubQuery(_)

ParseQuery(ts) == ParseClauses(ts, <<>>)

ParseClauses(ts, clauses) ==
    LET c == ParseClause(ts) IN
    CASE ~c.ok -> Fail
      [] c.ok /\ Peek(c.rest, 1, COMMA) -> ParseClauses(Drop(c.rest, 1), Append(clauses, c.ast))
      [] OTHER -> Parsed(Append(clauses, c.ast), c.rest)

\* A group holds one clause.
ParseGroup(ts) ==
    LET inner == ParseClause(Drop(ts, 1)) IN
    IF inner.ok /\ Peek(inner.rest, 1, RPAREN) THEN Parsed([kind |-> "Group", inner |-> inner.ast], Drop(inner.rest, 1)) ELSE Fail

ParseClause(ts) ==
    CASE Peek(ts, 1, LPAREN) -> ParseGroup(ts)
      [] Peek(ts, 1, KW("IsType")) -> ParseTypes(ts, {})
      [] Peek(ts, 1, KW("Field")) -> ParseFields(ts, <<>>)
      [] Peek(ts, 1, KW("HasItem")) ->
            LET item == ParseSubQuery(Drop(ts, 1))
            IN IF item.ok THEN Parsed([kind |-> "HasItem", item |-> item.ast], item.rest) ELSE Fail
      [] Len(ts) > 0 /\ ts[1].type = "KW" /\ ts[1].value \in AtomKeywords \cup TimeKeywords -> ParseAtom(ts)
      [] OTHER -> Fail

\* From an IsType on; `types' are those read before.
ParseTypes(ts, types) ==
    LET read == types \cup {ts[2].value}
        rest == Drop(ts, 2)
    IN CASE ~PeekStr(ts, 2) -> Fail
         [] PeekStr(ts, 2) /\ MoreOf(rest, "IsType") -> ParseTypes(Drop(rest, 1), read)
         [] OTHER -> Parsed([kind |-> "IsType", types |-> read], rest)

ParseFields(ts, fields) ==
    LET sub == ParseSubQuery(Drop(ts, 2))
        read == Append(fields, [key |-> ts[2].value, query |-> sub.ast])
    IN CASE ~PeekStr(ts, 2) -> Fail
         [] PeekStr(ts, 2) /\ ~sub.ok -> Fail
         [] PeekStr(ts, 2) /\ sub.ok /\ MoreOf(sub.rest, "Field") -> ParseFields(Drop(sub.rest, 1), read)
         [] OTHER -> Parsed([kind |-> "Field", fields |-> read], sub.rest)

ParseSubQuery(ts) ==
    IF Peek(ts, 1, LPAREN)
    THEN LET q == ParseQuery(Drop(ts, 1))
         IN IF q.ok /\ Peek(q.rest, 1, RPAREN) THEN Parsed(q.ast, Drop(q.rest, 1)) ELSE Fail
    ELSE LET c == ParseClause(ts) IN IF c.ok THEN Parsed(<<c.ast>>, c.rest) ELSE Fail

---------------------------------------------------------------------------
(* Look-ups.                                                               *)

QueryById(id) == {id} \cap Nodes
QuerySymbolExact(v) == {n \in Live : Graph[n].kind = "symbol" /\ Graph[n].value = v}
QuerySymbolRegex(p) == {n \in Live : Graph[n].kind \in {"symbol", "meaning"} /\ Graph[n].value \in Matching[p]}
QueryByNamedType(types) == {n \in Live : Graph[n].type \in types}

\* Mutant of Parents: rows that later versions replaced are found.
ParentsEver(key, values) == {n \in Nodes : \E v \in values : <<key, v>> \in Graph[n].parts}
Parents(key, values) == {n \in Live : \E v \in values : <<key, v>> \in Graph[n].parts}
QueryMapsByField(key, values) == Parents(key, values)
QueryListsByItem(items) == Parents("item", items)

\* Four times the limit is fetched, and then the dead are dropped.
QueryMeaning(text, limit) ==
    LET candidates == SubSeq(Nearest[text], 1, IF 4 * limit < Len(Nearest[text]) THEN 4 * limit ELSE Len(Nearest[text]))
        visible == SelectSeq(candidates, LAMBDA n : n \in Live)
    IN Range(SubSeq(visible, 1, IF limit < Len(visible) THEN limit ELSE Len(visible)))

QueryByTime(kw, ms) ==
    {n \in Live : Graph[n].kind = "map" /\
        CASE kw = "CreatedBefore" -> Graph[n].created < ms
          [] kw = "CreatedAfter" -> Graph[n].created > ms
          [] kw = "UpdatedBefore" -> Graph[n].updated < ms
          [] kw = "UpdatedAfter" -> Graph[n].updated > ms}

---------------------------------------------------------------------------
(* The executor.                                                           *)

RECURSIVE ExecuteQuery(_), ExecuteClause(_)

\* Clause after clause, as long as something is left.
ExecuteQuery(q) ==
    FoldLeft(LAMBDA found, c : IF found = {} THEN {} ELSE found \cap ExecuteClause(c), Nodes, q)

ExecuteClause(c) ==
    CASE c.kind = "Symbol" -> QuerySymbolExact(c.value)
      [] c.kind = "Regex" -> QuerySymbolRegex(c.value)
      [] c.kind = "Meaning" -> QueryMeaning(c.value, Limit)
      [] c.kind = "Id" -> QueryById(c.value)
      [] c.kind = "IsType" -> QueryByNamedType(c.types)
      [] c.kind = "Field" ->
            FoldLeft(LAMBDA found, f : found \cap QueryMapsByField(f.key, ExecuteQuery(f.query)), Nodes, c.fields)
      [] c.kind = "HasItem" -> QueryListsByItem(ExecuteQuery(c.item))
      [] c.kind \in TimeKeywords -> QueryByTime(c.kind, c.value)
      [] c.kind = "Group" -> ExecuteClause(c.inner)

RunQuery(ts) == ExecuteQuery(ParseQuery(ts).ast)

---------------------------------------------------------------------------
(* From what was found to what is shown.                                   *)

Named(S) == {n \in S : Graph[n].type # NoType}
Containers(S) == {m \in Nodes : \E p \in Graph[m].parts : p[2] \in S}

\* What contains S, nearest first, up to 20 hops; the database picks among those equally near.
RECURSIVE NamedAbove(_, _)
NamedAbove(S, hops) ==
    CASE hops = 0 \/ S = {} -> {}
      [] hops > 0 /\ Named(Containers(S)) # {} -> {CHOOSE m \in Named(Containers(S)) : TRUE}
      [] OTHER -> NamedAbove(Containers(S), hops - 1)

FindNamedParent(n) == NamedAbove({n}, 20)

GetNodeTypeName(n) == IF Graph[n].kind = "map" THEN Graph[n].type ELSE NoType

\* The named node a match stands for: itself, or what contains it.
Lifted(n) == IF GetNodeTypeName(n) # NoType THEN {n} ELSE FindNamedParent(n)

\* raw_query: matches of hidden types are left out.
Visible(found) == {n \in found : \A m \in Lifted(n) : ~IsHidden(m)}

NamedParentsOf(found, includeHidden) == {m \in UNION {Lifted(n) : n \in found} : includeHidden \/ ~IsHidden(m)}

\* The nodes of a search that has a text query: matches and types are intersected once both are lifted.
Seeds(found, types, includeHidden) ==
    NamedParentsOf(found, includeHidden)
        \cap (IF types = {} THEN Nodes ELSE NamedParentsOf(QueryByNamedType(types), includeHidden))

\* resolve_symbols: the owners of a name, of the types asked for.
Candidates(name, types) ==
    {m \in UNION {FindNamedParent(n) : n \in QuerySymbolExact(name)} :
        ~IsHidden(m) /\ (types = {} \/ Graph[m].type \in types)}

\* A plan is linked to the owner of a name when there is one.
PlanLink(name, allowed) ==
    LET owners == {m \in UNION {FindNamedParent(n) : n \in RunQuery(<<KW("Symbol"), STR(name)>>)} : Graph[m].type \in allowed}
    IN IF \E m \in owners : owners = {m} THEN owners ELSE {}
=============================================================================
