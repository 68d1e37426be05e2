----------------------------- MODULE MCInputs -----------------------------
(***************************************************************************)
(* The pure parts of the system, over bounded inputs: a state is one input *)
(* of one of them, and each property is about the inputs of one kind.      *)
(***************************************************************************)
EXTENDS Providers, Queries, RegexLiterals, Settings, Scrollback

CONSTANTS MaxActs, MaxClauses, MaxPieces

VARIABLE input

NoInput == [kind |-> "none"]
Init == input = NoInput

Acts ==
    {[does |-> d, to |-> t] : d \in {"prompt"}, t \in {"words", "injected"}}
    \cup {[does |-> "say", to |-> t] : t \in {"words", "plan"}}
    \cup {[does |-> "think", to |-> "nothing"]}
    \cup {[does |-> "run", to |-> c] : c \in {"cd", "test"}}
    \cup {[does |-> d, to |-> "a.ts"] : d \in {"write", "edit"}}
    \cup {[does |-> "ask", to |-> "which"]}

\* Two versions of a function, the log line and the decision about it, and their parts.
AtomNode(kind, value, live) ==
    [kind |-> kind, value |-> value, type |-> NoType, hidden |-> FALSE, live |-> live,
     created |-> 0, updated |-> 0, parts |-> {}, refs |-> {}]
MapNode(type, live, created, updated, parts, refs) ==
    [kind |-> "map", value |-> None, type |-> type, hidden |-> type = "Log", live |-> live,
     created |-> created, updated |-> updated, parts |-> parts, refs |-> refs]

MCGraph ==
    [main |-> AtomNode("symbol", "main", TRUE), oldMain |-> AtomNode("symbol", "main", FALSE),
     auth |-> AtomNode("meaning", "auth", TRUE), oldAuth |-> AtomNode("meaning", "auth", FALSE),
     tag |-> AtomNode("symbol", "tag", TRUE), title |-> AtomNode("symbol", "main", TRUE),
     tags |-> [AtomNode("list", None, TRUE) EXCEPT !.parts = {<<"item", "tag">>}],
     fn |-> MapNode("Fn", TRUE, 1, 3, {<<"name", "main">>, <<"doc", "auth">>, <<"tags", "tags">>}, {"decision"}),
     oldFn |-> MapNode("Fn", FALSE, 1, 1, {<<"name", "oldMain">>, <<"doc", "oldAuth">>, <<"tags", "tags">>}, {}),
     decision |-> MapNode("Decision", TRUE, 2, 2, {<<"title", "title">>, <<"about", "fn">>}, {"fn", "log"}),
     log |-> MapNode("Log", TRUE, 3, 3, {<<"about", "fn">>}, {"fn", "plan"}),
     plan |-> MapNode("Plan", TRUE, 3, 3, {<<"name", "tag">>}, {"log", "oldFn"})]
MCMatching == [m |-> {"main"}, any |-> {"main", "auth", "tag"}]
MCNearest == [login |-> <<"oldAuth", "auth">>]
MCTimes == [monday |-> 1, tuesday |-> 2]

Simple ==
    {[kind |-> "Symbol", value |-> v] : v \in {"main", "tag"}}
    \cup {[kind |-> "Regex", value |-> "any"], [kind |-> "Meaning", value |-> "login"]}
    \cup {[kind |-> "Id", value |-> n] : n \in {"fn", "oldFn"}}
    \cup {[kind |-> "CreatedAfter", value |-> "monday"], [kind |-> "UpdatedBefore", value |-> "tuesday"]}
OfType == {[kind |-> "IsType", types |-> T] : T \in {{"Fn"}, {"Fn", "Log"}}}
ListOf == {[kind |-> "HasItem", item |-> <<c>>] : c \in Simple}
FieldOf(keys, clauses) == {[kind |-> "Field", fields |-> <<[key |-> k, query |-> <<c>>]>>] : k \in keys, c \in clauses}
Clauses ==
    Simple \cup OfType \cup ListOf
    \cup FieldOf({"name", "doc"}, Simple) \cup FieldOf({"about"}, OfType \cup FieldOf({"doc"}, Simple)) \cup FieldOf({"tags"}, ListOf)
    \cup {[kind |-> "Group", inner |-> <<c>>] : c \in Simple \cup OfType}
    \cup {[kind |-> "Group", inner |-> <<[kind |-> "Symbol", value |-> "main"], c>>] : c \in OfType \cup {[kind |-> "Id", value |-> "main"]}}

\* Pieces of a pattern: an atom, how often it is repeated (of a word its last character), and the texts
\* it matches, a repetition counted up to two.
Word(w) == [is |-> "word", written |-> w, before |-> Front(w), texts |-> {<<Last(w)>>}]
AnyOf(written, texts) == [is |-> "atom", written |-> written, before |-> <<>>, texts |-> texts]
Atoms ==
    {Word(<<"a", "b", "c">>), Word(<<"a", "b">>), AnyOf(<<".">>, {<<"x">>}), AnyOf(<<"\\", "d">>, {<<"7">>}),
     AnyOf(<<"\\", ".">>, {<<".">>}), AnyOf(<<"\\", "n">>, {<<"newline">>}),
     AnyOf(<<"[", "a", "\\", "]", "b", "]">>, {<<"a">>, <<"]">>, <<"b">>}),
     AnyOf(<<"(", "a", "b", "c", "|", "(", "b", ")", "\\", ")", ")">>, {<<"a", "b", "c">>, <<"b", ")">>})}
\* Escapes of more than two characters, and a parenthesis in a class in a group.
Awkward ==
    {AnyOf(<<"\\", "u", "0", "0", "4", "1">>, {<<"A">>}), AnyOf(<<"\\", "x", "4", "1">>, {<<"A">>}), AnyOf(<<"\\", "c", "I">>, {<<"tab">>}),
     AnyOf(<<"(", "[", ")", "]", "a", "b", "c", ")">>, {<<")", "a", "b", "c">>})}
Quantifiers ==
    <<[written |-> <<>>, times |-> {1}], [written |-> <<"?">>, times |-> {0, 1}], [written |-> <<"*">>, times |-> 0 .. 2],
      [written |-> <<"+">>, times |-> {1, 2}], [written |-> <<"*", "?">>, times |-> 0 .. 2],
      [written |-> <<"{", "0", "}">>, times |-> {0}], [written |-> <<"{", "0", ",", "2", "}">>, times |-> 0 .. 2],
      [written |-> <<"{", "2", "}">>, times |-> {2}]>>
Pieces ==
    {[atom |-> a, often |-> q] : a \in Atoms \cup Awkward, q \in Range(Quantifiers)}
    \cup {[atom |-> AnyOf(<<"$">>, {<<>>}), often |-> Quantifiers[1]]}

\* A round of a chat: a message of the agent, and the calls that it makes.
ChatCall(n, k, kind) == [id |-> <<n, k>>, name |-> <<"first", "second">>[k], args |-> kind.args, fails |-> kind.fails]
Kinds == {[args |-> a, fails |-> f] : a \in {[limit |-> "ten"], [query |-> "auth"], [query |-> "not a text", id |-> "fn"]}, f \in BOOLEAN}
Rounds(n) ==
    {[text |-> t, calls |-> c] : t \in {<<>>, <<"words">>},
        c \in {<<>>} \cup {<<ChatCall(n, 1, k)>> : k \in Kinds} \cup {<<ChatCall(n, 1, k), ChatCall(n, 2, l)>> : k, l \in Kinds}}

\* How init is answered, and what a user adds to the entry by hand.
Answers ==
    {[kind |-> k, path |-> DefaultAgentLogPath(k, <<"home", "repo">>), repoPath |-> <<"home", "repo">>, embedAuth |-> EmbedAuth(e), indexerAuth |-> AgentAuth(m), uiAuth |-> AgentAuth(m)] :
        k \in {"claude", "codex", "pi", "none"}, e \in {"openai", "openrouter"}, m \in {"openai-oauth", "anthropic"}}
Edits ==
    {NoFields} \cup {"lsp" :> [enabled |-> e, parameters |-> NoFields] : e \in BOOLEAN}
    \cup {"lsp:api" :> [enabled |-> e, parameters |-> p] : e \in BOOLEAN,
            p \in {NoFields, [repoPath |-> <<"~", "repo">>], [repoPath |-> <<"home", "repo", "api">>]}}
    \cup {"plans-claude" :> [enabled |-> TRUE, parameters |-> p] : p \in {NoFields, [plansDir |-> <<"~", "plans">>]}}
    \cup {"pi" :> [enabled |-> TRUE, parameters |-> p] :
            p \in {NoFields, [newerThan |-> 2], [sessionsPath |-> <<"~", ".coffeecode", "sessions", "ui">>]}}

Triggers == {<<>>, <<[kind |-> "timer", intervalMs |-> 0]>>, <<[kind |-> "cron", expression |-> "daily"], [kind |-> "onTypeInsert"]>>}
Allowed ==
    {[is |-> "nothing"], [is |-> "list", of |-> <<>>], [is |-> "list", of |-> <<" ">>], [is |-> "list", of |-> <<"search", "read*", "read">>],
     [is |-> "text", of |-> <<" ">>], [is |-> "text", of |-> <<"upsert_entries", "*">>], [is |-> "list", of |-> <<"not a text", "">>]}
SkillFiles ==
    {[frontMatter |-> m, allowed |-> a, job |-> [triggers |-> t]] : m \in BOOLEAN, a \in Allowed, t \in Triggers}
    \cup {[frontMatter |-> TRUE, allowed |-> [is |-> "nothing"]]}
SkillWithJob == [frontMatter |-> TRUE, allowed |-> [is |-> "nothing"], job |-> [triggers |-> <<[kind |-> "timer", intervalMs |-> 5]>>]]
MCGlobs == ("read*" :> {"read"}) @@ ("*" :> Range(GraphQueries \o PiBuiltinToolNames) \cup {"upsert_entries", "write_file"})
MCHome == <<"home">>

\* Sessions of the agents in a few directories, the names of two of which are written alike, some of them
\* archived, and those of our own agents.
Logs ==
    {[agent |-> k, path |-> (IF k = "codex" THEN Home \o <<".codex", "rollout">> ELSE DefaultAgentLogPath(k, cwd) \o <<"log">>),
      cwd |-> cwd, start |-> at, archived |-> k = "codex" /\ at = 3] :
        k \in {"claude", "codex", "pi"}, cwd \in {<<"home", "repo">>, <<"home-repo">>, <<"home", "repo", "api">>, <<"home", "other">>}, at \in 1 .. 3}
    \cup {[agent |-> "coffeecode", path |-> Home \o <<".coffeecode", "sessions", name, "log">>, cwd |-> <<"home", "repo">>, start |-> 1, archived |-> FALSE] :
            name \in {"ui", "indexer"}}

ReadTurn(turn) == input = NoInput /\ input' = [kind |-> "turn", turn |-> turn]
\* Two IsType clauses side by side are one.
Ask(q) ==
    /\ input = NoInput /\ \A i \in 1 .. Len(q) - 1 : {q[i], q[i + 1]} \notin SUBSET OfType
    /\ input' = [kind |-> "query", query |-> q]
SearchFor(found, types, depth, hidden) ==
    /\ input = NoInput
    /\ input' = [kind |-> "search", found |-> found, types |-> types, depth |-> depth, hidden |-> hidden]
Search(pieces, others) == input = NoInput /\ input' = [kind |-> "regex", pieces |-> pieces, others |-> others]
SetUp(answers, edit) == input = NoInput /\ input' = [kind |-> "project", answers |-> answers, edit |-> edit]
Install(skillsDir, jobsDir, override) ==
    /\ input = NoInput
    /\ input' = [kind |-> "skills", skillsDir |-> skillsDir, jobsDir |-> jobsDir, override |-> override]
Chat(legacy, rounds, callsFirst) ==
    /\ input = NoInput
    /\ input' = [kind |-> "chat", steps |-> ChatSteps(<<"prompt">>, legacy, rounds, callsFirst), callsFirst |-> callsFirst]
Forget == input # NoInput /\ input' = NoInput

Next ==
    \/ \E n \in 1 .. MaxActs : \E turn \in [1 .. n -> Acts] : ReadTurn(turn)
    \/ \E n \in 1 .. MaxClauses : \E q \in [1 .. n -> Clauses] : Ask(q)
    \/ \E found \in SUBSET {"main", "title", "tag", "auth", "log"}, types \in SUBSET {"Fn", "Log"}, depth \in 0 .. 3, hidden \in BOOLEAN :
          SearchFor(found, types, depth, hidden)
    \/ \E n \in 1 .. MaxPieces : \E pieces \in [1 .. n -> Pieces] : Search(pieces, <<>>)
    \/ \E p, q \in {x \in Pieces : x.often = Quantifiers[1]} : Search(<<p>>, <<q>>)
    \/ \E answers \in Answers, edit \in Edits : SetUp(answers, edit)
    \/ \E name \in {"sync", "indexer"}, file \in SkillFiles, override \in Triggers, twice \in BOOLEAN :
          Install(IF twice THEN "sync" :> SkillWithJob ELSE NoFields, name :> file, override)
    \/ \E legacy, callsFirst \in BOOLEAN, first \in Rounds(1), second \in {r \in Rounds(2) : Len(r.calls) < 2} :
          Chat(legacy, <<first, second>>, callsFirst)
    \/ Forget

Spec == Init /\ [][Next]_input

---------------------------------------------------------------------------
ClaudeEvents(turn) == ClassifyMessages(ReadClaude(ClaudeLines(turn)))
CodexEvents(turn) == ClassifyMessages(ReadCodexRollout(CodexLines(turn)))
PiEvents(turn) == ClassifyMessages(ReadPi(PiLines(turn)))

WhatAndWhere(events) == [i \in DOMAIN events |-> <<events[i].kind, events[i].of>>]
NarratesTwice(turn) == \E i \in 1 .. Len(turn) - 1 : {turn[i].does, turn[i + 1].does} \subseteq {"say", "think"}
AsksWithText(turn) ==
    \E i \in DOMAIN turn : Opens(turn, i) /\ {"say", "ask"} \subseteq {a.does : a \in Range(Together(turn, i))}

\* A turn becomes the same events, in the same order, whichever vendor logged it (provider.ts 9-11); only
\* pi's text in the message of a question is dropped.  After a tool's result all three say so, unless
\* the agent narrates in more than one block.
SameTurnSameEvents ==
    input.kind = "turn" =>
        LET claude == ClaudeEvents(input.turn)
            codex == CodexEvents(input.turn)
            pi == PiEvents(input.turn)
        IN /\ WhatAndWhere(codex) = WhatAndWhere(claude)
           /\ AsksWithText(input.turn) \/ WhatAndWhere(pi) = WhatAndWhere(claude)
           /\ NarratesTwice(input.turn) \/ AsksWithText(input.turn)
                \/ \A i \in DOMAIN claude : codex[i].postToolResult = claude[i].postToolResult
                                            /\ pi[i].postToolResult = claude[i].postToolResult

\* Each event of Claude Code and of Codex has a row of its own that a span can claim, also the files of
\* one patch and a message that was logged twice (codex.ts 270-278, reader.ts 54-64).
EveryRowIsClaimable ==
    input.kind = "turn" =>
        \A events \in {ClaudeEvents(input.turn), CodexEvents(input.turn)} :
            LET rows == EventRows(events) IN Claimable(rows) = DOMAIN rows

---------------------------------------------------------------------------
\* How a query is written (the grammar of query.ts 4-22), a clause that takes commas in parentheses.
Join(parts) == FoldLeft(LAMBDA all, p : IF all = <<>> THEN p ELSE all \o <<COMMA>> \o p, <<>>, parts)
RECURSIVE Written(_), WrittenClause(_)
WrittenSub(q) ==
    IF Len(q) = 1 /\ q[1].kind \in AtomKeywords \cup TimeKeywords THEN Written(q) ELSE <<LPAREN>> \o Written(q) \o <<RPAREN>>
WrittenClause(c) ==
    CASE c.kind = "IsType" -> Join([i \in DOMAIN SetToSeq(c.types) |-> <<KW("IsType"), STR(SetToSeq(c.types)[i])>>])
      [] c.kind = "Field" -> Join([i \in DOMAIN c.fields |-> <<KW("Field"), STR(c.fields[i].key)>> \o WrittenSub(c.fields[i].query)])
      [] c.kind = "HasItem" -> <<KW("HasItem")>> \o WrittenSub(c.item)
      [] c.kind = "Group" -> <<LPAREN>> \o Written(c.inner) \o <<RPAREN>>
      [] OTHER -> <<KW(c.kind), STR(c.value)>>
Written(q) == Join([i \in DOMAIN q |-> WrittenClause(q[i])])

\* What a node must be for a clause to hold of it.
RECURSIVE Satisfies(_, _)
ClauseHolds(n, c) ==
    CASE c.kind = "Id" -> n = c.value
      [] c.kind = "Group" -> Satisfies(n, c.inner)
      [] OTHER -> Graph[n].live /\
        CASE c.kind = "Symbol" -> Graph[n].kind = "symbol" /\ Graph[n].value = c.value
          [] c.kind = "Regex" -> Graph[n].kind \in {"symbol", "meaning"} /\ Graph[n].value \in Matching[c.value]
          [] c.kind = "Meaning" -> \E i \in DOMAIN Nearest[c.value] : Nearest[c.value][i] = n
                /\ Len(SelectSeq(SubSeq(Nearest[c.value], 1, i - 1), LAMBDA m : Graph[m].live)) < Limit
          [] c.kind = "IsType" -> Graph[n].type \in c.types
          [] c.kind = "Field" ->
                \A i \in DOMAIN c.fields : \E p \in Graph[n].parts : p[1] = c.fields[i].key /\ Satisfies(p[2], c.fields[i].query)
          [] c.kind = "HasItem" -> \E p \in Graph[n].parts : p[1] = "item" /\ Satisfies(p[2], c.item)
          [] c.kind = "CreatedAfter" -> Graph[n].kind = "map" /\ Graph[n].created > Times[c.value]
          [] c.kind = "UpdatedBefore" -> Graph[n].kind = "map" /\ Graph[n].updated < Times[c.value]
Satisfies(n, q) == \A i \in DOMAIN q : ClauseHolds(n, q[i])

Reads(q) == LET p == ParseQuery(Written(q)) IN p.ok /\ p.rest = <<>>

\* A query whose groups hold one clause each is read to its end, and gives the nodes of which every clause
\* holds: rows that a later version replaced only by their id.  With a group of several clauses it is
\* refused, although the grammar has '(' Query ')' (query.ts 4-22 and 183-189, db.ts 1862-2023).
QueryMeansEveryClause ==
    input.kind = "query" =>
        IF \A i \in DOMAIN input.query : input.query[i].kind = "Group" => Len(input.query[i].inner) = 1
        THEN /\ Reads(input.query)
             /\ RunQuery(Written(input.query)) = {n \in Nodes : Satisfies(n, input.query)}
        ELSE ~Reads(input.query)

\* A search with a depth shows the matches, and each node once, at its distance from the matches, and never through or
\* at a hidden one (nodes.ts 24-95).
SearchIsBreadthFirst ==
    input.kind = "search" =>
        LET seeds == Seeds(input.found, input.types, input.hidden)
        IN BreadthFirst(Expand(seeds, input.depth, input.hidden), seeds, input.depth, input.hidden)

---------------------------------------------------------------------------
\* The pattern that the pieces make, and the texts it matches as a whole.
WrittenPieces(pieces) == FlattenSeq([i \in DOMAIN pieces |-> pieces[i].atom.written \o pieces[i].often.written])
RECURSIVE Repeated(_, _), TextsOf(_)
Repeated(texts, n) == IF n = 0 THEN {<<>>} ELSE {t \o u : t \in texts, u \in Repeated(texts, n - 1)}
TextsOf(pieces) ==
    IF pieces = <<>> THEN {<<>>}
    ELSE LET p == Head(pieces)
         IN {p.atom.before \o t \o u : t \in UNION {Repeated(p.atom.texts, n) : n \in p.often.times}, u \in TextsOf(Tail(pieces))}

Misread(pieces) == \E p \in Range(pieces) : p.atom \in Awkward

\* Every text that a pattern matches holds each literal that the search narrows its candidates with, so
\* that no match is lost (regexLiterals.ts 18-31), unless the pattern has \uXXXX, \xXX, \cX or a parenthesis
\* in a class in a group: from these the code draws literals that no match holds, contrary to 9-16.
LiteralsInEveryMatch ==
    input.kind = "regex" =>
        LET pattern == WrittenPieces(input.pieces) \o (IF input.others = <<>> THEN <<>> ELSE <<"|">> \o WrittenPieces(input.others))
            matches == TextsOf(input.pieces) \cup (IF input.others = <<>> THEN {} ELSE TextsOf(input.others))
        IN \/ \A literal \in ExtractRequiredLiterals(pattern), text \in matches : literal \in SubSeqs(text)
           \/ Misread(input.pieces \o input.others)

---------------------------------------------------------------------------
\* What init wrote loads again; each job it or the user enabled is one the daemon builds and can run, and
\* the snapshot supervisor watches exactly the directories that the enabled jobs index; and below its
\* directory the project is the one that is meant; and a log job reads the sessions of the repository,
\* no archived one and none of our own agents, and none of another repository, but that the jobs of
\* Claude Code and pi read those of one whose path is written alike, /a/b and /a-b: they go by the name of
\* the directory alone (init.ts 322-392, registry.ts 75-363, snapshotSupervisor.ts 361-412,
\* config.ts 109-111 and 456-479, the scans of the providers).
EnabledJobsRun(answers, edit) ==
    LET written == WriteInitConfig(answers)
        entry == [written EXCEPT !.jobs = edit @@ @]
        enabled == {n \in DOMAIN entry.jobs : On(entry, n)}
    IN /\ ValidateAllAuthBlocks(entry) /\ EmbedWorks(entry.embed)
       /\ \A n \in enabled : FindsItsSettings(entry, n) /\ \E j \in BuiltinJobs(entry) : j.name = n
       /\ ResolveWatchSpecs(entry, DOMAIN entry.jobs) =
            {LspRoot(entry, n) : n \in enabled \cap LspKeys} \cup {PlansRoot(entry) : n \in enabled \cap {"plans-claude"}}
       /\ LET projects == "around" :> [repoPath |-> MCHome] @@ "mine" :> entry @@ "off" :> [entry EXCEPT !.enabled = FALSE]
          IN ResolveProjectByCwd(projects, entry.repoPath \o <<"src">>) = {"mine"}
       /\ \A n \in enabled \cap {"claude", "codex", "pi"} :
            LET own == IF "sessionsPath" \in DOMAIN JobParams(entry, n) /\ n \in DOMAIN edit THEN {} ELSE
                           {l \in Logs : l.agent = n /\ ~l.archived /\
                                IF n = "codex" THEN l.cwd = entry.repoPath ELSE OneName(l.cwd) = OneName(entry.repoPath)}
            IN LogsRead(entry, n, Logs) = {l \in own : l.start >= Get(JobParams(entry, n), "newerThan", 0)}

\* A directory under jobs/ is one job, unless it cannot be read or a skill has its name, and beside it there is
\* no other of its name but a builtin one, whose place it takes in the scheduler; a directory under skills/
\* is none, whatever it declares; the triggers are ones that can fire, the config's when it has any; and
\* unless it says which tools it may use, it can only query, with no tool given twice (skills.ts 116-146,
\* registry.ts 444-505 and 530-558, runUserJob.ts 105-126).
SkillsBecomeJobs(skillsDir, jobsDir, override) ==
    LET entry == [jobs |-> [n \in DOMAIN jobsDir |-> [triggers |-> override]], repoPath |-> <<>>]
        skills == LoadAllSkills(skillsDir, jobsDir)
        jobs == {j \in BuildJobs(entry, skills) : j.category = "job"}
    IN /\ {j.name : j \in jobs} = {n \in DOMAIN jobsDir : jobsDir[n].frontMatter /\ n \notin DOMAIN skillsDir}
       /\ \A s, t \in skills : s.name = t.name => s = t
       /\ \A j, k \in BuildJobs(entry, skills) : j.name = k.name /\ j # k => {j.category, k.category} = {"job", "builtin"}
       /\ \A j \in jobs : \A i \in DOMAIN j.triggers : ValidTrigger(j.triggers[i]) /\ (override # <<>> => j.triggers[i] \in Range(override))
       /\ \A s \in skills :
            LET tools == JobTools(s)
            IN /\ IsInjective(tools.toolNames) /\ Range(tools.customTools) \subseteq Range(tools.toolNames)
               /\ Range(tools.toolNames) \subseteq Range(GraphQueries) \/ \E p \in s.allowedTools : p \notin Range(GraphQueries)

SetUpBecomesJobs ==
    /\ input.kind = "project" => EnabledJobsRun(input.answers, input.edit)
    /\ input.kind = "skills" => SkillsBecomeJobs(input.skillsDir, input.jobsDir, input.override)

---------------------------------------------------------------------------
\* A tab that sent the prompt and has seen n steps, and one that then goes on from a tab.
GoesOn(tab, steps, n) ==
    [tab EXCEPT !.items = FoldLeft(LAMBDA items, s : Ingest(items, s.event), tab.items, SubSeq(steps, n + 1, Len(steps)))]
Persisted(steps, n) == FlattenSeq([i \in 1 .. n |-> steps[i].messages])
Watching(steps, n) == GoesOn(OnSwitched(NewTab, "chat", <<>>), SubSeq(steps, 1, n), 0)
Seen(items) == [i \in DOMAIN items |-> <<items[i].role, items[i].text, items[i].toolError>>]
TextsSeen(items) == SelectSeq(Seen(items), LAMBDA x : x[1] # "tool")
SameItems(s, t) == \A x \in Range(s) \cup Range(t) : Cardinality({i \in DOMAIN s : s[i] = x}) = Cardinality({i \in DOMAIN t : t[i] = x})

\* The history of a session shows what its tab showed, in the same order if the calls come first; a
\* transport that reconnects in time changes nothing; and a tab that joins shows no text twice, none too
\* few, and each call once and red if it failed, unless it joined in the middle of the call's round
\* (agentSessions.ts 496-512, AgentChatPanel.tsx 130-145).
HistoryIsWhatWasShown ==
    input.kind = "chat" =>
        LET steps == input.steps
            all == Seen(RenderHistory(Persisted(steps, Len(steps))))
        IN /\ SameItems(Seen(Watching(steps, Len(steps)).items), all)
           /\ input.callsFirst => Seen(Watching(steps, Len(steps)).items) = all
           /\ \A n \in 1 .. Len(steps) :
                LET history == RenderHistory(Persisted(steps, n))
                    joined == GoesOn(OnReady(NewTab, "chat", history), steps, n).items
                IN /\ GoesOn(OnReady(Watching(steps, n), "chat", history), steps, n) = Watching(steps, Len(steps))
                   /\ TextsSeen(joined) = SelectSeq(all, LAMBDA x : x[1] # "tool")
                   /\ (n < Len(steps) => steps[n].round # steps[n + 1].round) => SameItems(Seen(joined), all)
=============================================================================
