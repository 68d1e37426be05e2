------------------------------ MODULE MCLogs ------------------------------
(* Small instances of AgentLog for TLC. *)
EXTENDS AgentLog

Ev(kind, says) == [kind |-> kind, says |-> says, topic |-> NoTopic, at |-> 0, uuid |-> 0]
User == Ev("user_input", "nothing")
Todo == Ev("todo_write", "completed")

Plan == Ev("plan_proposed", "nothing")

MCKinds == {User, Todo, Plan}
MCRefusals == {{}, {"Span"}}
=============================================================================
