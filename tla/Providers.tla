----------------------------- MODULE Providers -----------------------------
(***************************************************************************)
(* What the three agent-log providers and the classifier make of a log.    *)
(* Every vendor writes one turn in lines of its own shape; a provider      *)
(* turns the lines into the messages of Claude Code, and classifyMessages  *)
(* those into events.  A text, a command, a path or a question is a name:  *)
(* the sets below say which of them a filter of the code drops.  A tool's  *)
(* input is a record of which any field may be missing.                    *)
(***************************************************************************)
EXTENDS SequencesExt, Integers

CONSTANTS
    Injected,          \* texts that isSystemInjection drops: interruptions, editor notices
    Envelopes,         \* texts that codex injects
    WithPlan,          \* texts that hold one <proposed_plan>
    TrivialCommands,   \* commands all of whose parts are cd, ls and the like
    Interesting        \* commands and descriptions that name a test, a build and the like

None == "none"
SkipTools == {"Read", "Glob", "Grep", "ToolSearch", "TaskOutput", "NotebookEdit", "EnterPlanMode", "EnterWorktree",
              "CronCreate", "CronDelete", "CronList", "WebSearch", "WebFetch", "Skill"}

\* input[n1] ?? input[n2] ?? ... ?? none
Field(input, names) ==
    LET present == SelectSeq(names, LAMBDA n : n \in DOMAIN input)
    IN IF present = <<>> THEN None ELSE input[Head(present)]

\* f applied to each element; the sequences it gives, one after the other.
FlatMap(f(_), s) == FlattenSeq([i \in DOMAIN s |-> f(s[i])])

---------------------------------------------------------------------------
(* Messages, as Claude Code has them.                                      *)

Text(t) == [type |-> "text", text |-> t]
ToolUse(name, input) == [type |-> "tool_use", name |-> name, input |-> input]
ToolResult == [type |-> "tool_result"]
Message(role, uuid, content) == [type |-> role, uuid |-> uuid, content |-> content]

---------------------------------------------------------------------------
(* Claude Code.                                                            *)

\* readLogFile: only the turns of user and assistant are kept.
ReadLogFile(lines) == SelectSeq(lines, LAMBDA l : l.type \in {"user", "assistant"})

\* A Map by uuid: a message stands where it first came, as it last was.
DeduplicateMessages(msgs) ==
    LET first == SelectSeq([i \in DOMAIN msgs |-> i], LAMBDA i : \A j \in 1 .. i - 1 : msgs[j].uuid # msgs[i].uuid)
        last(i) == SelectLastInSeq(msgs, LAMBDA m : m.uuid = msgs[i].uuid)
    IN [k \in DOMAIN first |-> msgs[last(first[k])]]

ReadClaude(lines) == DeduplicateMessages(ReadLogFile(lines))

---------------------------------------------------------------------------
(* Codex.                                                                  *)

CodexToolName(n) ==
    CASE n \in {"shell", "bash", "exec", "exec_command", "execute_command"} -> "Bash"
      [] n \in {"apply_patch", "edit_file", "edit"}                         -> "Edit"
      [] n \in {"write_file", "create_file", "write"}                       -> "Write"
      [] n \in {"ask_user", "askuserquestion", "ask_user_question"}         -> "AskUserQuestion"
      [] OTHER                                                              -> n

AdaptCodexInput(name, input) ==
    IF name # "Bash" THEN input
    ELSE [command |-> Field(input, <<"command", "cmd">>),
          description |-> Field(input, <<"description", "justification">>)] @@ input

\* A patch is the sequence of its file headers, each with an operation and a path; one tool use for each.
AdaptCustomTool(name, patch) ==
    CASE name # "apply_patch" -> <<ToolUse(CodexToolName(name), [_raw |-> "body"])>>
      [] name = "apply_patch" /\ patch = <<>> -> <<ToolUse("Edit", [file_path |-> None, new_string |-> "body"])>>
      [] OTHER -> [i \in DOMAIN patch |->
            IF patch[i].op = "Add" THEN ToolUse("Write", [file_path |-> patch[i].path, content |-> "body"])
            ELSE ToolUse("Edit", [file_path |-> patch[i].path,
                                  new_string |-> IF patch[i].op = "Delete" THEN None ELSE "body"])]

IsCodexEnvelope(t) == t \in Envelopes

\* payload.id ?? payload.call_id ?? the number of the line
RecId(p, n) == IF DOMAIN p \cap {"id", "call_id"} = {} THEN [line |-> n] ELSE Field(p, <<"id", "call_id">>)

\* Mutant of CodexUuid: the files of one patch share the uuid of its record.
SharedUuid(rec, ops, i) == rec
CodexUuid(rec, ops, i) == IF Len(ops) > 1 THEN [call |-> rec, file |-> i] ELSE rec

CodexMessage(p, rec) ==
    LET texts == SelectSeq(p.content, LAMBDA c :
                    c.text # None /\ c.type \in {"input_text", "output_text", "text"} /\ ~IsCodexEnvelope(c.text))
    IN IF p.role \notin {"user", "assistant"} \/ texts = <<>> THEN <<>>
       ELSE <<Message(p.role, rec, [i \in DOMAIN texts |-> Text(texts[i].text)])>>

\* The messages of line n, whose payload is p.
CodexLine(p, n) ==
    LET rec == RecId(p, n)
        ops == AdaptCustomTool(p.name, p.input)
        name == CodexToolName(p.name)
    IN CASE p.type = "message" -> CodexMessage(p, rec)
         [] p.type = "function_call" /\ p.name # None ->
                <<Message("assistant", rec, <<ToolUse(name, AdaptCodexInput(name, p.arguments))>>)>>
         [] p.type \in {"function_call_output", "custom_tool_call_output"} -> <<Message("user", rec, <<ToolResult>>)>>
         [] p.type = "custom_tool_call" /\ p.name # None ->
                [i \in DOMAIN ops |-> Message("assistant", CodexUuid(rec, ops, i - 1), <<ops[i]>>)]
         [] OTHER -> <<>>

ReadCodexRollout(lines) ==
    FlattenSeq([n \in DOMAIN lines |->
        IF lines[n].type = "response_item" THEN CodexLine(lines[n].payload, n) ELSE <<>>])

---------------------------------------------------------------------------
(* Pi.                                                                     *)

PiToolName(n) ==
    CASE n \in {"bash", "shell", "exec", "exec_command"}                     -> "Bash"
      [] n \in {"write", "write_file", "create_file"}                       -> "Write"
      [] n \in {"edit", "edit_file", "apply_patch"}                         -> "Edit"
      [] n \in {"ask", "ask_user", "askuserquestion", "ask_user_question"}  -> "AskUserQuestion"
      [] OTHER                                                              -> n

\* Mutant of AdaptPiInput: the field names of pi are left as they are.
PiInputAsIs(name, input) == input

AdaptPiInput(name, input) ==
    LET file_path == Field(input, <<"file_path", "path">>)
    IN CASE name = "Write" -> [file_path |-> file_path, content |-> Field(input, <<"content">>)] @@ input
         [] name = "Edit" -> [file_path |-> file_path, new_string |-> Field(input, <<"new_string", "content">>)] @@ input
         [] OTHER -> input

PiBlock(c) ==
    CASE c.type \in {"text", "thinking"} -> <<c>>
      [] c.type = "toolCall" -> <<ToolUse(PiToolName(c.name), AdaptPiInput(PiToolName(c.name), c.arguments))>>
      [] OTHER -> <<>>

NormalisePiMessage(entry) ==
    LET content == FlatMap(PiBlock, entry.content)
    IN CASE entry.role = "toolResult" -> <<Message("user", entry.id, <<ToolResult>>)>>
         [] entry.role # "toolResult" /\ content # <<>> ->
                <<Message(IF entry.role = "assistant" THEN "assistant" ELSE "user", entry.id, content)>>
         [] OTHER -> <<>>

\* The header comes first, or the messages before it are lost.
ReadPi(lines) ==
    LET header == SelectInSeq(lines, LAMBDA l : l.type = "session")
        kept == IF header = 0 THEN <<>> ELSE SubSeq(lines, header, Len(lines))
    IN FlatMap(NormalisePiMessage, SelectSeq(kept, LAMBDA l : l.type = "message"))

---------------------------------------------------------------------------
(* The classifier.                                                         *)

Event(kind, uuid, of) == [kind |-> kind, uuid |-> uuid, of |-> of, postToolResult |-> FALSE]
IsSystemInjection(t) == t \in Injected \cup {None}
IsTrivialBash(command, description) == command \in TrivialCommands /\ {command, description} \cap Interesting = {}

AsksIn(msg) == \E i \in DOMAIN msg.content : msg.content[i].type = "tool_use" /\ msg.content[i].name = "AskUserQuestion"

\* The message before is the user's, with a tool's result in it.
FollowsToolResult(msgs, i) ==
    /\ i > 1 /\ msgs[i - 1].type = "user"
    /\ ToolResult \in Range(msgs[i - 1].content)

ToolEvents(uuid, name, input) ==
    LET of(names) == Field(input, names)
    IN CASE name = "TodoWrite" -> <<Event("todo_write", uuid, of(<<"todos">>))>>
         [] name \in SkipTools -> <<>>
         [] name = "Write" -> <<Event("file_create", uuid, of(<<"file_path">>))>>
         [] name = "Edit" -> <<Event("file_edit", uuid, of(<<"file_path">>))>>
         [] name = "Bash" /\ ~IsTrivialBash(of(<<"command">>), of(<<"description">>)) ->
                <<Event("shell_exec", uuid, of(<<"command">>))>>
         [] name = "AskUserQuestion" /\ of(<<"question">>) # None -> <<Event("agent_question", uuid, of(<<"question">>))>>
         [] name = "ExitPlanMode" /\ of(<<"planFilePath">>) # None ->
                <<Event("plan_accepted", uuid, of(<<"planFilePath">>))>>
         [] OTHER -> <<>>

TextEvents(msgs, i, t) ==
    LET uuid == msgs[i].uuid IN
    CASE msgs[i].type = "user" -> <<Event("user_input", uuid, t)>>
      [] AsksIn(msgs[i]) -> <<>>
      [] OTHER -> (IF t \in WithPlan THEN <<Event("plan_proposed", uuid, t)>> ELSE <<>>)
                  \o <<[Event("agent_message", uuid, t) EXCEPT !.postToolResult = FollowsToolResult(msgs, i)]>>

ItemEvents(msgs, i, item) ==
    CASE item.type = "text" /\ ~IsSystemInjection(item.text) -> TextEvents(msgs, i, item.text)
      [] item.type = "tool_use" /\ msgs[i].type = "assistant" -> ToolEvents(msgs[i].uuid, item.name, item.input)
      [] OTHER -> <<>>

\* The messages are those of one session; another session's between them change nothing.
ClassifyMessages(msgs) ==
    FlattenSeq([i \in DOMAIN msgs |-> LET events(item) == ItemEvents(msgs, i, item) IN FlatMap(events, msgs[i].content)])
---------------------------------------------------------------------------
(* The rows of a crawl into an empty graph.                                *)

RowType ==
    [user_input |-> "UserInput", file_create |-> "FileOperation", file_edit |-> "FileOperation",
     shell_exec |-> "ShellExecution", agent_question |-> "AgentQuestion", agent_message |-> "AgentMessage"]

\* A proposed plan is a Plan named by its message; the other signals are not stored.
EventRows(events) == SelectSeq(events, LAMBDA e : e.kind \in DOMAIN RowType)
PlanRows(events) == {<<e.uuid, e.of>> : e \in {x \in Range(events) : x.kind = "plan_proposed"}}

\* A span finds the row of an event by its uuid, and the last one put there is the one it finds.
Claimable(rows) == {i \in DOMAIN rows : \A j \in i + 1 .. Len(rows) : rows[j].uuid # rows[i].uuid}

---------------------------------------------------------------------------
(* How the vendors log a turn: a sequence of acts of the user and the      *)
(* agent.  The act `does' something `to' a text, a path, a command.        *)

Tools == {"run", "write", "edit", "ask"}
OnFile(act) == act.does \in {"write", "edit"}
Tool(act) == act.does \in Tools

\* Claude Code: a line for each block, a text once more while it still streams, and the tool's result.
ClaudeTool(act) ==
    CASE act.does = "run" -> ToolUse("Bash", [command |-> act.to])
      [] act.does = "write" -> ToolUse("Write", [file_path |-> act.to, content |-> "body"])
      [] act.does = "edit" -> ToolUse("Edit", [file_path |-> act.to, new_string |-> "body"])
      [] act.does = "ask" -> ToolUse("AskUserQuestion", [question |-> act.to])

ClaudeLines(turn) ==
    FlattenSeq([i \in DOMAIN turn |->
        CASE turn[i].does = "prompt" -> <<[type |-> "attachment"], Message("user", [line |-> i], <<Text(turn[i].to)>>)>>
          [] turn[i].does = "say" -> <<Message("assistant", [line |-> i], <<Text("part")>>), Message("assistant", [line |-> i], <<Text(turn[i].to)>>)>>
          [] turn[i].does = "think" -> <<Message("assistant", [line |-> i], <<[type |-> "thinking"]>>)>>
          [] Tool(turn[i]) -> <<Message("assistant", [line |-> i], <<ClaudeTool(turn[i])>>), Message("user", [result |-> i], <<ToolResult>>)>>])

\* Codex: what one patch does to several files is one call, and each record has an event_msg beside it.
Item(payload) == <<[type |-> "event_msg"], [type |-> "response_item", payload |-> payload]>>
Call(type, name, input, i) == Item([type |-> type, name |-> name, arguments |-> input, input |-> input, call_id |-> [call |-> i]])
Said(role, type, t) == Item([type |-> "message", name |-> None, input |-> <<>>, role |-> role, content |-> <<[type |-> type, text |-> t]>>])
Output(type, i) == Item([type |-> type, name |-> None, input |-> <<>>, call_id |-> [call |-> i]])

\* The acts on files from i on.
Patch(turn, i) ==
    LET rest == SubSeq(turn, i, Len(turn))
        other == SelectInSeq(rest, LAMBDA a : ~OnFile(a))
        acts == IF other = 0 THEN rest ELSE SubSeq(rest, 1, other - 1)
    IN [k \in DOMAIN acts |-> [op |-> IF acts[k].does = "write" THEN "Add" ELSE "Update", path |-> acts[k].to]]

CodexLines(turn) ==
    FlattenSeq([i \in DOMAIN turn |->
        LET act == turn[i] IN
        CASE act.does = "prompt" -> Said("user", "input_text", "envelope") \o Said("user", "input_text", act.to)
          [] act.does = "say" -> Said("assistant", "output_text", act.to)
          [] act.does = "think" -> Item([type |-> "reasoning", name |-> None, input |-> <<>>])
          [] act.does = "run" -> Call("function_call", "exec_command", [cmd |-> act.to], i) \o Output("function_call_output", i)
          [] act.does = "ask" -> Call("function_call", "ask_user", [question |-> act.to], i) \o Output("function_call_output", i)
          [] OnFile(act) /\ (i = 1 \/ ~OnFile(turn[i - 1])) ->
                Call("custom_tool_call", "apply_patch", Patch(turn, i), i) \o Output("custom_tool_call_output", i)
          [] OTHER -> <<>>])

\* Pi: a message holds what the agent thinks and says and the calls after it; the results follow.
PiCall(act) ==
    CASE act.does = "run" -> [type |-> "toolCall", name |-> "bash", arguments |-> [command |-> act.to]]
      [] OnFile(act) -> [type |-> "toolCall", name |-> act.does, arguments |-> [path |-> act.to, content |-> "body"]]
      [] act.does = "ask" -> [type |-> "toolCall", name |-> "ask", arguments |-> [question |-> act.to]]

PiBlocks(acts) ==
    [k \in DOMAIN acts |-> CASE acts[k].does \in {"prompt", "say"} -> Text(acts[k].to)
                            [] acts[k].does = "think" -> [type |-> "thinking"]
                            [] Tool(acts[k]) -> PiCall(acts[k])]

\* Act i opens a message.
Opens(turn, i) ==
    i = 1 \/ "prompt" \in {turn[i - 1].does, turn[i].does} \/ (Tool(turn[i - 1]) /\ ~Tool(turn[i]))

\* The acts of the message that act i opens.
Together(turn, i) ==
    LET next == {j \in i + 1 .. Len(turn) : Opens(turn, j)}
    IN SubSeq(turn, i, IF next = {} THEN Len(turn) ELSE (CHOOSE j \in next : \A k \in next : j <= k) - 1)

PiLines(turn) ==
    <<[type |-> "session"], [type |-> "model_change"]>> \o
    FlattenSeq([i \in DOMAIN turn |->
        IF ~Opens(turn, i) THEN <<>>
        ELSE LET acts == Together(turn, i) IN
             <<[type |-> "message", id |-> [message |-> i], content |-> PiBlocks(acts),
                role |-> IF turn[i].does = "prompt" THEN "user" ELSE "assistant"]>>
             \o [k \in DOMAIN SelectSeq(acts, Tool) |->
                    [type |-> "message", id |-> [result |-> i, of |-> k], role |-> "toolResult", content |-> <<>>]]])
=============================================================================
