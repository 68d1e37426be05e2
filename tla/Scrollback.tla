----------------------------- MODULE Scrollback -----------------------------
(***************************************************************************)
(* What a tab of the web UI shows of a chat: the messages of the session,  *)
(* rendered as history when the tab connects or switches, and the events   *)
(* of the agent loop from then on.  A text is a sequence of parts, <<>>    *)
(* when it is blank.  An item has the key by which a later event finds it: *)
(* the id of the call for a chip, <<>> for an item of the history.         *)
(***************************************************************************)
EXTENDS SequencesExt, Integers

UserMessage(text) == [role |-> "user", text |-> text, calls |-> <<>>]
AssistantMessage(text, calls) == [role |-> "assistant", text |-> text, calls |-> calls]
ToolResultOf(call) == [role |-> "toolResult", text |-> <<>>, calls |-> <<call>>]

ChatItem(role, key, text) == [role |-> role, key |-> key, text |-> text, toolError |-> FALSE]
Bubble(role, text) == IF text = <<>> THEN <<>> ELSE <<ChatItem(role, <<>>, text)>>

\* The primary argument, when it is a text, else all arguments.
PrimaryFields == <<"query", "pattern", "value", "id", "nodeId", "name">>
DescribeToolCall(name, args) ==
    LET given == SelectSeq(PrimaryFields, LAMBDA f : f \in DOMAIN args)
    IN IF given # <<>> /\ args[Head(given)] # "not a text" THEN <<name, args[Head(given)]>> ELSE <<name, "all">>

\* Sessions of older versions have the instructions behind the first prompt.
StripLegacySystemInstructions(text) ==
    LET i == SelectInSeq(text, LAMBDA part : part = "instructions") IN IF i = 0 THEN text ELSE SubSeq(text, 1, i - 1)

\* renderHistory: the chips of a message, red if a result says so, and then its text.
FailedLater(messages, i, call) ==
    \E j \in i + 1 .. Len(messages) : messages[j].role = "toolResult" /\ messages[j].calls[1] = call /\ call.fails
HistoryChip(messages, i, call) ==
    [ChatItem("tool", <<>>, DescribeToolCall(call.name, call.args)) EXCEPT !.toolError = FailedLater(messages, i, call)]
RenderMessage(messages, i) ==
    LET m == messages[i] IN
    CASE m.role = "user" -> Bubble("user", StripLegacySystemInstructions(m.text))
      [] m.role = "assistant" -> [k \in DOMAIN m.calls |-> HistoryChip(messages, i, m.calls[k])] \o Bubble("agent", m.text)
      [] m.role = "toolResult" -> <<>>
RenderHistory(messages) == FlattenSeq([i \in DOMAIN messages |-> RenderMessage(messages, i)])

---------------------------------------------------------------------------
(* The tab.                                                                *)

NewTab == [painted |-> "no session", items |-> <<>>]

\* Mutant of OnReady: every `ready' paints.
OnReadyAlways(tab, path, history) == [painted |-> path, items |-> history]
\* `ready' comes again when the transport reconnects: the tab paints only a session it has not painted.
OnReady(tab, path, history) == IF tab.painted = path THEN tab ELSE [painted |-> path, items |-> history]
OnSwitched(tab, path, history) == [painted |-> path, items |-> history]

\* send and ingestPiEvent.
Ingest(items, event) ==
    CASE event.type = "prompt" -> items \o Bubble("user", event.text)
      [] event.type = "tool_execution_start" ->
            Append(items, ChatItem("tool", event.call.id, DescribeToolCall(event.call.name, event.call.args)))
      [] event.type = "tool_execution_end" ->
            IF ~event.call.fails THEN items
            ELSE [i \in DOMAIN items |-> IF items[i].key = event.call.id THEN [items[i] EXCEPT !.toolError = TRUE] ELSE items[i]]
      [] event.type = "message_end" -> items \o Bubble("agent", event.text)
      [] event.type = "nothing" -> items

---------------------------------------------------------------------------
(* The agent loop: one step adds to the messages of the session, or makes  *)
(* an event, or both.                                                      *)

Step(round, messages, event) == [round |-> round, messages |-> messages, event |-> event]
\* The calls of a round start after its message has ended, or, as agentSessions.ts has it, before.
RoundSteps(r, n, callsFirst) ==
    LET ended == <<Step(n, <<AssistantMessage(r.text, r.calls)>>, [type |-> "message_end", text |-> r.text])>>
        ran == FlattenSeq([k \in DOMAIN r.calls |->
                   <<Step(n, <<>>, [type |-> "tool_execution_start", call |-> r.calls[k]]),
                     Step(n, <<>>, [type |-> "tool_execution_end", call |-> r.calls[k]])>>])
        results == [k \in DOMAIN r.calls |-> Step(n, <<ToolResultOf(r.calls[k])>>, [type |-> "nothing"])]
    IN (IF callsFirst THEN ran \o ended ELSE ended \o ran) \o results
ChatSteps(prompt, legacy, rounds, callsFirst) ==
    <<Step(0, <<UserMessage(IF legacy THEN prompt \o <<"instructions">> ELSE prompt)>>, [type |-> "prompt", text |-> prompt])>>
    \o FlattenSeq([n \in DOMAIN rounds |-> RoundSteps(rounds[n], n, callsFirst)])
=============================================================================
