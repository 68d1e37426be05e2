------------------------------ MODULE Settings ------------------------------
(***************************************************************************)
(* From what the user sets up to what the daemon runs: the answers given   *)
(* to init become a project's entry of config.yaml, the directories skills *)
(* and jobs become skills, and both become jobs, the directories to watch  *)
(* and the tools of an agent's session.  What a file leaves out is a field *)
(* that the record lacks.  A path is the sequence of its segments, <<>>    *)
(* when there is none.                                                     *)
(***************************************************************************)
EXTENDS SequencesExt, Integers

CONSTANTS
    Home,           \* the path of the home directory
    LspKeys,        \* the job names that are "lsp" or begin with "lsp:"
    Dotted,         \* the names of directories that begin with a dot
    Globs           \* pattern with * or ? -> the tools it matches

NoFields == [f \in {} |-> 0]
Get(r, f, otherwise) == IF f \in DOMAIN r THEN r[f] ELSE otherwise
Given(r, f) == Get(r, f, "") # ""

ExpandTilde(p) == IF p # <<>> /\ p[1] = "~" THEN Home \o Tail(p) ELSE p
ReadString(params, key) == ExpandTilde(Get(params, key, <<>>))
ReadIntervalMs(params, fallback) == IF Get(params, "intervalMs", 0) > 0 THEN params.intervalMs ELSE fallback
DefaultPlansDir == Home \o <<".claude", "plans">>

---------------------------------------------------------------------------
(* Where the coding agents log.  A log is a record: the agent, the path of *)
(* its file, the directory of the session, when that began, and whether    *)
(* the session is archived.                                                *)

\* The agents name the directory of a repository by its path, the separators replaced.
OneName(path) == FoldLeft(LAMBDA name, s : name \o "-" \o s, "", path)
DefaultPiSessionsDirFor(repoPath) == Home \o <<".pi", "sessions", OneName(repoPath)>>
DefaultAgentLogPath(kind, repoPath) ==
    CASE kind = "claude" -> Home \o <<".claude", "projects", OneName(repoPath)>>
      [] kind = "codex" -> Home \o <<".codex", "state">>
      [] kind = "pi" -> DefaultPiSessionsDirFor(repoPath)
      [] OTHER -> <<>>

\* The provider of the agent's jobs: a file or the files of a directory; the threads of the repository;
\* and all files below a directory, those in dotted ones excepted, but never the sessions of our own agents.
ClaudeFiles(logs, path) == {l \in logs : l.path = path \/ Front(l.path) = path}
CodexThreads(logs, repoPath) == {l \in logs : l.agent = "codex" /\ ~l.archived /\ (repoPath = <<>> \/ l.cwd = repoPath)}
OwnSessions == Home \o <<".coffeecode", "sessions">>
CollectJsonlRecursive(logs, root) ==
    {l \in logs : IsPrefix(root, l.path) /\ Dotted \cap Range(SubSeq(l.path, Len(root) + 1, Len(l.path) - 1)) = {}}
PiFiles(logs, root) == IF IsPrefix(OwnSessions, root) THEN {} ELSE CollectJsonlRecursive(logs, root)
NotOlder(logs, newerThan) == {l \in logs : l.start >= newerThan}

---------------------------------------------------------------------------
(* Credentials.                                                            *)

StaticProviders == {"openai", "anthropic", "openrouter"}

\* validateAuth
ValidAuth(a) ==
    \/ Get(a, "authType", "") = "openai-oauth"
    \/ /\ Get(a, "authType", "") = "apiKey"
       /\ Given(a, "provider") # Given(a, "url")
       /\ Given(a, "provider") => a.provider \in StaticProviders
       /\ Given(a, "model") /\ Given(a, "apiKey")

\* createEmbedFn: without auth it is a stub.
EmbedWorks(embed) ==
    "auth" \in DOMAIN embed => embed.auth.authType = "apiKey" /\ Get(embed.auth, "provider", "") # "anthropic"

---------------------------------------------------------------------------
(* A project's entry of config.yaml.                                       *)

JobEntry(entry, job) == Get(entry.jobs, job, NoFields)
JobParams(entry, job) == Get(JobEntry(entry, job), "parameters", NoFields)
On(entry, job) == Get(JobEntry(entry, job), "enabled", FALSE)

ValidateAllAuthBlocks(entry) ==
    /\ "auth" \in DOMAIN entry.embed => ValidAuth(entry.embed.auth)
    /\ "auth" \in DOMAIN entry.agent => ValidAuth(entry.agent.auth)
    /\ \A job \in DOMAIN entry.jobs : "auth" \in DOMAIN JobParams(entry, job) => ValidAuth(JobParams(entry, job).auth)

\* buildJobsConfig: all the jobs of the menu, those of one kind of agent log enabled.
BuildJobsConfig(params) ==
    LET selected(kind, parameters) ==
            [enabled |-> params.kind = kind, parameters |-> IF params.kind = kind THEN parameters ELSE NoFields]
    IN [job \in {"lsp", "span-link", "indexer", "plans-claude", "claude", "codex", "pi"} |->
          CASE job = "lsp" -> [enabled |-> TRUE, parameters |-> [repoPath |-> params.repoPath]]
            [] job = "span-link" -> [enabled |-> TRUE]
            [] job = "indexer" -> [enabled |-> TRUE, parameters |-> [auth |-> params.indexerAuth]]
            [] job = "plans-claude" -> [enabled |-> params.kind = "claude", parameters |-> [plansDir |-> DefaultPlansDir]]
            [] job = "claude" -> selected("claude", [path |-> params.path])
            [] job = "codex" -> selected("codex", [statePath |-> params.path])
            [] job = "pi" -> selected("pi", [sessionsPath |-> params.path])]

\* The prompts: what they accept, and what becomes of it.
AgentAuth(mode) ==
    IF mode = "openai-oauth" THEN [authType |-> mode] ELSE [authType |-> "apiKey", provider |-> mode, model |-> "m", apiKey |-> "k"]
EmbedAuth(provider) == [authType |-> "apiKey", provider |-> provider, model |-> "m", apiKey |-> "k"]

WriteInitConfig(params) ==
    [enabled |-> TRUE, repoPath |-> params.repoPath, embed |-> [auth |-> params.embedAuth],
     agent |-> [auth |-> params.uiAuth], jobs |-> BuildJobsConfig(params)]

\* The enabled project whose repoPath is the longest prefix of cwd.
ResolveProjectByCwd(projects, cwd) ==
    LET fits == {n \in DOMAIN projects : /\ Get(projects[n], "enabled", TRUE) /\ projects[n].repoPath # <<>>
                                         /\ IsPrefix(projects[n].repoPath, cwd)}
    IN {n \in fits : \A m \in fits : Len(projects[m].repoPath) <= Len(projects[n].repoPath)}

---------------------------------------------------------------------------
(* Skills.                                                                 *)

ValidTrigger(t) ==
    CASE t.kind = "timer" -> Get(t, "intervalMs", 0) > 0
      [] t.kind = "onTypeInsert" -> Get(t, "typeNames", {}) # {}
      [] t.kind = "onNodeState" -> Get(t, "typeNames", {}) # {} /\ "state" \in DOMAIN t
      [] t.kind = "cron" -> Given(t, "expression")
      [] OTHER -> FALSE
ParseTriggers(raw) == SelectSeq(raw, ValidTrigger)

\* A list drops what is not a text before it trims, a text of comma-separated names after it.
Trim(s) == IF s = " " THEN "" ELSE s
ParseAllowedTools(raw) ==
    CASE raw.is = "list" -> {Trim(s) : s \in Range(raw.of) \ {"", "not a text"}}
      [] raw.is = "text" -> {Trim(s) : s \in Range(raw.of)} \ {""}
      [] OTHER -> {}

LoadOneSkill(name, file, category) ==
    [name |-> name, category |-> category, allowedTools |-> ParseAllowedTools(file.allowed),
     triggers |-> IF "job" \in DOMAIN file THEN ParseTriggers(Get(file.job, "triggers", <<>>)) ELSE <<>>,
     defaultEnabled |-> "job" \in DOMAIN file /\ Get(file.job, "defaultEnabled", FALSE)]

\* A file without front matter is skipped.
LoadSkillsFromDir(dir, category) ==
    {LoadOneSkill(name, dir[name], category) : name \in {n \in DOMAIN dir : dir[n].frontMatter}}

LoadAllSkills(skillsDir, jobsDir) ==
    LET skills == LoadSkillsFromDir(skillsDir, "skill")
    IN skills \cup {j \in LoadSkillsFromDir(jobsDir, "job") : \A s \in skills : s.name # j.name}

---------------------------------------------------------------------------
(* Jobs.                                                                   *)

Timer(ms) == [kind |-> "timer", intervalMs |-> ms]
OnSpan(state) == [kind |-> "onNodeState", typeNames |-> {"Span"}, state |-> state]
AgentLogInterval == 30000
PlansInterval == 300000
FallbackInterval == 600000

DiscoverLspJobNames(entry) == (DOMAIN entry.jobs \cap LspKeys) \cup {"lsp"}

BuiltinJob(name, triggers) == [name |-> name, category |-> "builtin", triggers |-> triggers, defaultEnabled |-> FALSE]
Every(entry, name, fallback) == Timer(ReadIntervalMs(JobParams(entry, name), fallback))
LspJobs(entry) == {BuiltinJob(name, <<OnSpan("extracted")>>) : name \in DiscoverLspJobNames(entry)}
AgentLogJob(entry, name) == BuiltinJob(name, <<Every(entry, name, AgentLogInterval)>>)
PlansClaudeJob(entry) == BuiltinJob("plans-claude", <<Every(entry, "plans-claude", PlansInterval)>>)
SpanLinkJob == BuiltinJob("span-link", <<OnSpan("extracted"), Timer(FallbackInterval)>>)
IndexerJob(entry) == BuiltinJob("indexer", <<OnSpan("linked"), Every(entry, "indexer", FallbackInterval)>>)
BuiltinJobs(entry) ==
    LspJobs(entry) \cup {AgentLogJob(entry, name) : name \in {"claude", "codex", "pi"}}
        \cup {PlansClaudeJob(entry), SpanLinkJob, IndexerJob(entry)}

\* The config's triggers, if there are any, override the skill's.
ResolveJobTriggers(skill, entry) ==
    LET override == Get(JobEntry(entry, skill.name), "triggers", <<>>)
    IN IF override # <<>> THEN ParseTriggers(override) ELSE skill.triggers

BuildUserSkillJob(skill, entry) ==
    [name |-> skill.name, category |-> "job", triggers |-> ResolveJobTriggers(skill, entry), defaultEnabled |-> skill.defaultEnabled]
BuildJobs(entry, skills) ==
    BuiltinJobs(entry) \cup {BuildUserSkillJob(s, entry) : s \in {x \in skills : x.category = "job"}}

\* Mutant of LspRoot: the project's own path is no fallback.
LspRootOfJob(entry, name) == ReadString(JobParams(entry, name), "repoPath")
\* The directory an lsp job indexes.
LspRoot(entry, name) ==
    LET own == ReadString(JobParams(entry, name), "repoPath") IN IF own # <<>> THEN own ELSE entry.repoPath
PlansRoot(entry) ==
    LET own == ReadString(JobParams(entry, "plans-claude"), "plansDir") IN IF own # <<>> THEN own ELSE DefaultPlansDir

ClaudeRoot(entry) == ReadString(JobParams(entry, "claude"), "path")
PiRoot(entry) ==
    LET own == ReadString(JobParams(entry, "pi"), "sessionsPath")
    IN IF own # <<>> \/ entry.repoPath = <<>> THEN own ELSE DefaultPiSessionsDirFor(entry.repoPath)

\* A run of the job does not stop, or fail, for want of a setting.
FindsItsSettings(entry, name) ==
    CASE name \in LspKeys -> LspRoot(entry, name) # <<>>
      [] name = "claude" -> ClaudeRoot(entry) # <<>>
      [] name = "pi" -> PiRoot(entry) # <<>>
      [] name \in {"codex", "plans-claude", "span-link"} -> TRUE
      [] OTHER -> "auth" \in DOMAIN JobParams(entry, name)

\* The logs that a run of the job reads.
LogsRead(entry, name, logs) ==
    LET found ==
            CASE name = "claude" -> ClaudeFiles(logs, ClaudeRoot(entry))
              [] name = "codex" -> CodexThreads(logs, entry.repoPath)
              [] name = "pi" -> PiFiles(logs, PiRoot(entry))
              [] OTHER -> {}
    IN NotOlder(found, Get(JobParams(entry, name), "newerThan", 0))

\* resolveWatchSpecs: the directories the snapshot supervisor watches.
ResolveWatchSpecs(entry, names) ==
    LET root(name) ==
            LET raw == Get(JobParams(entry, name), "repoPath", <<>>) IN IF raw # <<>> THEN ExpandTilde(raw) ELSE entry.repoPath
        plans == Get(JobParams(entry, "plans-claude"), "plansDir", <<>>)
    IN ({root(name) : name \in {n \in names \cap LspKeys : On(entry, n)}} \ {<<>>})
       \cup (IF On(entry, "plans-claude") THEN {IF plans # <<>> THEN ExpandTilde(plans) ELSE DefaultPlansDir} ELSE {})

---------------------------------------------------------------------------
(* The tools of an agent's session.                                        *)

GraphQueries == <<"search", "get_by_symbol_text", "regex", "raw_query", "get_node_by_id", "resolve_symbols">>
PiBuiltinToolNames == <<"read", "grep", "find", "ls", "bash", "edit", "write">>

BuildGraphTools(allowInsert, allowFileWrite) ==
    GraphQueries \o (IF allowInsert THEN <<"upsert_entries">> ELSE <<>>) \o (IF allowFileWrite THEN <<"write_file">> ELSE <<>>)

MatchesAny(name, patterns) == \E p \in patterns : IF p \in DOMAIN Globs THEN name \in Globs[p] ELSE p = name

\* Each name once, where it first comes.
ResolveAllowedTools(custom, allowed) ==
    LET ok(name) == MatchesAny(name, allowed)
        add(names, n) == IF n \in Range(names) THEN names ELSE Append(names, n)
    IN [customTools |-> SelectSeq(custom, ok), toolNames |-> FoldLeft(add, <<>>, SelectSeq(custom \o PiBuiltinToolNames, ok))]

\* runUserJob: a skill that allows nothing may only query.
JobTools(skill) ==
    ResolveAllowedTools(BuildGraphTools(TRUE, TRUE), IF skill.allowedTools = {} THEN Range(GraphQueries) ELSE skill.allowedTools)
=============================================================================
