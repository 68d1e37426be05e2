--------------------------- MODULE SessionsProofs ---------------------------
(***************************************************************************)
(* What the chat of the web UI keeps for any number of tabs, requests and  *)
(* faults: at rest every listening tab is on the session that its messages *)
(* go to, and none is left waiting.                                        *)
(***************************************************************************)
EXTENDS AgentSessions, TLAPS, FiniteSetTheorems, WellFoundedInduction

(* Shapes.  What the files are does not matter: S stands for any set that  *)
(* holds those in use.                                                     *)

OpNames == {"none", "stream", "send", "new", "activate", "delete", "rebind"}
Steps == {"free", "post", "abort", "build"}
Session(S) == [file : S, disposed : BOOLEAN, busy : BOOLEAN, running : Nat]
Call(S) == [op : OpNames, step : Steps, tab : Tabs \cup {NoTab}, file : S, prev : Nat]
Tab(S) == [conn : {"off", "opening", "on"}, shown : S, busy : BOOLEAN, unheard : BOOLEAN]
Env(S) == [kind : {"ready", "session_switched", "agent_start", "agent_end", "error"}, file : S]

ShapedBy(S) ==
    /\ sessions \in Seq(Session(S))
    /\ calls \in [Calls -> Call(S)]
    /\ tabs \in [Tabs -> Tab(S)]
    /\ inbox \in [Tabs -> Seq(Env(S))]
    /\ NoFile \in S

Shape ==
    /\ \E S : ShapedBy(S)
    /\ active \in 0 .. Len(sessions)
    /\ overwritten \in BOOLEAN /\ faults \in Nat

(* The envelopes that change what a tab shows, and the file a tab comes to *)
(* show once it has handled those that are on their way to it.             *)
Switch(env) == env.kind \in {"ready", "session_switched"}
Switches(q) == {i \in DOMAIN q : Switch(q[i])}
EndsOn(q, shown, f) ==
    \/ Switches(q) = {} /\ shown = f
    \/ \E i \in Switches(q) : q[i].file = f /\ \A j \in Switches(q) : j <= i

OnActive(t) == active # 0 /\ EndsOn(inbox[t], tabs[t].shown, sessions[active].file)
Rebuilding == \E c \in Calls : calls[c].step = "build" /\ calls[c].op # "stream"

(* Every listener is told of the active session last, unless a call that   *)
(* will tell all of them of another one is under way.                      *)
ToldLast ==
    ~overwritten /\ faults = 0 => \A t \in Listeners : Rebuilding \/ OnActive(t)

(* Whoever aborts will tell, but after a removal that failed.              *)
AbortsAreSwitches ==
    \A c \in Calls : /\ calls[c].step = "abort" => calls[c].op # "stream"
                     /\ calls[c].op = "rebind" => faults > 0

(* A session is busy exactly while its one prompt runs.                    *)
InTurn(s) == s.running = IF s.busy THEN 1 ELSE 0
PromptsInTurn == \A i \in DOMAIN sessions : InTurn(sessions[i])

---------------------------------------------------------------------------
(* Lemmas about the envelopes.                                             *)

LEMMA SessionShape ==
  ASSUME NEW S, NEW s \in Session(S)
  PROVE  /\ s.file \in S /\ s.disposed \in BOOLEAN /\ s.busy \in BOOLEAN /\ s.running \in Nat
         /\ \A b \in BOOLEAN : [s EXCEPT !.disposed = b] \in Session(S)
         /\ \A b \in BOOLEAN, n \in Nat : [s EXCEPT !.busy = b, !.running = n] \in Session(S)
BY DEF Session

\* Delivering the first envelope leaves where the tab ends.
LEMMA EndsAfterDelivery ==
  ASSUME NEW S, NEW q \in Seq(Env(S)), q # <<>>, NEW shown, NEW f, EndsOn(q, shown, f)
  PROVE  EndsOn(Tail(q), IF Switch(Head(q)) THEN Head(q).file ELSE shown, f)
<1> DEFINE r == Tail(q)
<1>1. /\ DOMAIN q = 1 .. Len(q) /\ Len(q) \in Nat /\ Len(q) > 0
      /\ DOMAIN r = 1 .. (Len(q) - 1) /\ \A i \in DOMAIN r : r[i] = q[i + 1]
      /\ Head(q) = q[1]
  OBVIOUS
<1>2. \A i \in DOMAIN q : i = 1 \/ (i - 1 \in DOMAIN r /\ r[i - 1] = q[i])
  BY <1>1
<1> HIDE DEF r
<1>3. CASE Switches(q) = {} /\ shown = f
  BY <1>1, <1>3 DEF EndsOn, Switches
<1>4. CASE \E i \in Switches(q) : q[i].file = f /\ \A j \in Switches(q) : j <= i
  <2>1. PICK i \in Switches(q) : q[i].file = f /\ \A j \in Switches(q) : j <= i
    BY <1>4
  <2>2. \A j \in Switches(r) : j + 1 \in Switches(q) /\ j + 1 \in Nat /\ j \in Nat /\ j > 0
    BY <1>1 DEF Switches
  <2>3. CASE i = 1
    <3>1. Switches(r) = {}
      <4> SUFFICES ASSUME NEW j \in Switches(r)  PROVE FALSE
        OBVIOUS
      <4>1. j + 1 <= 1 /\ j \in Nat /\ j > 0
        BY <2>1, <2>2, <2>3
      <4> QED  BY <4>1
    <3> QED  BY <3>1, <2>1, <2>3, <1>1 DEF EndsOn, Switches, r
  <2>4. CASE i # 1
    <3>1. i - 1 \in Switches(r) /\ r[i - 1].file = f
      BY <2>1, <2>4, <1>2 DEF Switches
    <3>2. \A j \in Switches(r) : j <= i - 1
      BY <2>1, <2>2, <1>1 DEF Switches
    <3> QED  BY <3>1, <3>2 DEF EndsOn, r
  <2> QED  BY <2>3, <2>4
<1> QED  BY <1>3, <1>4 DEF EndsOn

\* An envelope that switches nothing leaves where the tab ends.
LEMMA EndsAfterNews ==
  ASSUME NEW S, NEW q \in Seq(Env(S)), NEW shown, NEW f, EndsOn(q, shown, f),
         NEW env \in Env(S), ~Switch(env)
  PROVE  EndsOn(q \o <<env>>, shown, f)
<1> DEFINE r == q \o <<env>>
<1>1. /\ Len(q) \in Nat /\ DOMAIN q = 1 .. Len(q) /\ DOMAIN r = 1 .. (Len(q) + 1)
      /\ r[Len(q) + 1] = env /\ \A i \in DOMAIN q : r[i] = q[i]
  OBVIOUS
<1> HIDE DEF r
<1>2. \A i \in DOMAIN r : i \in DOMAIN q \/ i = Len(q) + 1
  BY <1>1
<1>3. Switches(r) = Switches(q) /\ \A i \in Switches(q) : r[i] = q[i]
  BY <1>1, <1>2 DEF Switches
<1>4. EndsOn(r, shown, f)
  BY <1>3 DEF EndsOn
<1> QED  BY <1>4 DEF r

\* An envelope that switches to f makes the tab end there.
LEMMA EndsAfterSwitch ==
  ASSUME NEW S, NEW q \in Seq(Env(S)), NEW shown, NEW env \in Env(S), Switch(env)
  PROVE  EndsOn(q \o <<env>>, shown, env.file)
<1> DEFINE r == q \o <<env>>
<1>1. Len(q) \in Nat /\ DOMAIN r = 1 .. (Len(q) + 1) /\ r[Len(q) + 1] = env
  OBVIOUS
<1> HIDE DEF r
<1>2. Len(q) + 1 \in Switches(r) /\ \A j \in Switches(r) : j <= Len(q) + 1
  BY <1>1 DEF Switches
<1>3. EndsOn(r, shown, env.file)
  BY <1>1, <1>2 DEF EndsOn
<1> QED  BY <1>3 DEF r

---------------------------------------------------------------------------
(* What reaches the tabs.                                                  *)

LEMMA LargerShape ==
  ASSUME NEW S, NEW T, S \subseteq T, ShapedBy(S)
  PROVE  ShapedBy(T)
<1>1. Session(S) \subseteq Session(T) /\ Call(S) \subseteq Call(T) /\ Tab(S) \subseteq Tab(T) /\ Env(S) \subseteq Env(T)
  BY DEF Session, Call, Tab, Env
<1>2. sessions \in Seq(Session(T))
  BY <1>1 DEF ShapedBy
<1>3. \A t \in Tabs : inbox[t] \in Seq(Env(T))
  BY <1>1 DEF ShapedBy
<1>4. inbox \in [Tabs -> Seq(Env(T))]
  BY <1>3 DEF ShapedBy
<1> QED  BY <1>1, <1>2, <1>4 DEF ShapedBy

\* A broadcast appends the same envelopes to the inbox of every listener.
LEMMA SentShape ==
  ASSUME NEW S, ShapedBy(S), NEW q \in Seq(Env(S))
  PROVE  /\ Sent(q) \in [Tabs -> Seq(Env(S))]
         /\ \A t \in Listeners : Sent(q)[t] = inbox[t] \o q
BY DEF Sent, ShapedBy, Listeners

LEMMA InitShapedBy == Init => ShapedBy({NoFile})
<1> SUFFICES ASSUME Init  PROVE ShapedBy({NoFile})
  OBVIOUS
<1>1. sessions \in Seq(Session({NoFile}))
  BY DEF Init
<1>2. calls \in [Calls -> Call({NoFile})]
  BY DEF Init, Free, Call, OpNames, Steps, NoFile
<1>3. tabs \in [Tabs -> Tab({NoFile})]
  BY DEF Init, Tab, NoFile
<1>4. inbox \in [Tabs -> Seq(Env({NoFile}))]
  BY DEF Init
<1> QED  BY <1>1, <1>2, <1>3, <1>4 DEF ShapedBy

LEMMA InitShape == Init /\ SessionsAssumption => Shape /\ PromptsInTurn /\ AbortsAreSwitches /\ ToldLast
<1> SUFFICES ASSUME Init, SessionsAssumption  PROVE Shape /\ PromptsInTurn /\ AbortsAreSwitches /\ ToldLast
  OBVIOUS
<1>1. ShapedBy({NoFile})
  BY InitShapedBy
<1>2. Shape
  <2>1. \E S : ShapedBy(S)
    BY <1>1
  <2>2. active \in 0 .. Len(sessions)
    BY DEF Init
  <2> QED  BY <2>1, <2>2 DEF Shape, Init, SessionsAssumption
<1>3. PromptsInTurn
  BY DEF PromptsInTurn, InTurn, Init
<1>4. AbortsAreSwitches
  BY DEF AbortsAreSwitches, Init, Free
<1>5. ToldLast
  BY DEF ToldLast, Listeners, Init
<1> QED  BY <1>2, <1>3, <1>4, <1>5

---------------------------------------------------------------------------
(* Every step keeps the shapes.                                            *)

\* A set that holds the files in use, and those a request may choose, shapes the next state too.
LEMMA StepShapedBy ==
  ASSUME SessionsAssumption, Shape, [Next]_vars, NEW T, ShapedBy(T), Files \subseteq T,
         \A c \in Calls : calls[c].step \in {"post", "abort"} =>
             Fresh \in T /\ Recent(disk) \in T /\ Recent(disk') \in T
  PROVE  /\ ShapedBy(T)'
         /\ active' \in 0 .. Len(sessions') /\ overwritten' \in BOOLEAN /\ faults' \in Nat
<1>2. ShapedBy(T) /\ NoFile \in T /\ Files \subseteq T
  BY DEF ShapedBy
<1>3. /\ sessions \in Seq(Session(T)) /\ calls \in [Calls -> Call(T)]
      /\ tabs \in [Tabs -> Tab(T)] /\ inbox \in [Tabs -> Seq(Env(T))]
      /\ active \in 0 .. Len(sessions) /\ overwritten \in BOOLEAN /\ faults \in Nat
      /\ Len(sessions) \in Nat /\ active \in Nat
  BY <1>2 DEF ShapedBy, Shape
<1> DEFINE CallsOK == calls' \in [Calls -> Call(T)]
           TabsOK == tabs' \in [Tabs -> Tab(T)]
           InboxOK == inbox' \in [Tabs -> Seq(Env(T))]
           SessionsOK == sessions' \in Seq(Session(T)) /\ active' \in 0 .. Len(sessions')
           OthersOK == overwritten' \in BOOLEAN /\ faults' \in Nat
<1> SUFFICES CallsOK /\ TabsOK /\ InboxOK /\ SessionsOK /\ OthersOK
  BY <1>2 DEF ShapedBy, NoFile
<1>4. /\ UNCHANGED calls => CallsOK
      /\ UNCHANGED tabs => TabsOK
      /\ UNCHANGED inbox => InboxOK
      /\ UNCHANGED <<sessions, active>> => SessionsOK
      /\ UNCHANGED <<overwritten, faults>> => OthersOK
  BY <1>3
<1>5. \A c \in Calls : Done(c) \/ AbortsFirst(c) \/ (\E f \in T : Builds(c, f)) => CallsOK
  <2> SUFFICES ASSUME NEW c \in Calls, Done(c) \/ AbortsFirst(c) \/ (\E f \in T : Builds(c, f))
               PROVE  CallsOK
    BY Zenon
  <2>1. calls[c] \in Call(T) /\ Free \in Call(T)
    BY <1>2, <1>3 DEF Free, Call, OpNames, Steps
  <2>2. /\ [calls[c] EXCEPT !.step = "abort", !.prev = active] \in Call(T)
        /\ \A f \in T : [calls[c] EXCEPT !.step = "build", !.file = f] \in Call(T)
    BY <1>3, <2>1 DEF Call, Steps
  <2>3. \A r \in Call(T) : [calls EXCEPT ![c] = r] \in [Calls -> Call(T)]
    BY <1>3
  <2>4. CASE Done(c)
    BY <2>1, <2>3, <2>4 DEF Done
  <2>5. CASE AbortsFirst(c)
    BY <1>3, <2>2, <2>3, <2>5 DEF AbortsFirst
  <2>6. CASE \E f \in T : Builds(c, f)
    BY <1>3, <2>2, <2>3, <2>6, ZenonT(30) DEF Builds
  <2> QED  BY <2>4, <2>5, <2>6
<1>6. \A kind \in {"ready", "session_switched", "agent_start", "agent_end", "error"}, f \in T :
        Envelope(kind, f) \in Env(T)
  BY DEF Envelope, Env
<1>7. \A q \in Seq(Env(T)) : inbox' = Sent(q) => InboxOK
  BY <1>2, SentShape
<1>8. \A t : \A f \in T : Ready(t, f) => TabsOK /\ InboxOK
  <2> SUFFICES ASSUME NEW t, NEW f \in T, Ready(t, f)  PROVE TabsOK /\ InboxOK
    BY Zenon
  <2>1. <<Envelope("ready", f)>> \in Seq(Env(T))
    BY <1>6
  <2>2. TabsOK
    BY <1>3, ZenonT(30) DEF Ready, Tab
  <2>3. InboxOK
    BY <1>3, <2>1 DEF Ready
  <2> QED  BY <2>2, <2>3
<1>9. \A c \in Calls : /\ calls[c].file \in T /\ calls[c].tab \in Tabs \cup {NoTab}
                       /\ calls[c].prev \in Nat /\ calls[c].op \in OpNames
  BY <1>3 DEF Call
<1>10. active # 0 => active \in DOMAIN sessions /\ sessions[active] \in Session(T) /\ sessions[active].file \in T
  <2>1. active # 0 => active \in DOMAIN sessions
    BY <1>3
  <2>2. active # 0 => sessions[active] \in Session(T)
    BY <1>3, <2>1
  <2> QED  BY <2>1, <2>2, SessionShape
<1>11. \A t \in Tabs : /\ tabs[t] \in Tab(T)
                       /\ \A b \in BOOLEAN : [tabs[t] EXCEPT !.busy = b] \in Tab(T)
                       /\ \A b, u \in BOOLEAN : [tabs[t] EXCEPT !.busy = b, !.unheard = u] \in Tab(T)
                       /\ \A f \in T : [tabs[t] EXCEPT !.shown = f] \in Tab(T)
                       /\ \A f \in T, b \in BOOLEAN : [tabs[t] EXCEPT !.shown = f, !.busy = b] \in Tab(T)
                       /\ \A k \in {"off", "opening", "on"} : [tabs[t] EXCEPT !.conn = k] \in Tab(T)
  BY <1>3 DEF Tab
<1>11a. \A t, r : (t \in Tabs => r \in Tab(T)) /\ tabs' = [tabs EXCEPT ![t] = r] => TabsOK
  BY <1>3
<1>12. \A i \in DOMAIN sessions, s \in Session(T) :
         sessions' = [sessions EXCEPT ![i] = s] => sessions' \in Seq(Session(T)) /\ Len(sessions') = Len(sessions)
  BY <1>3
<1> HIDE DEF CallsOK, TabsOK, InboxOK, SessionsOK, OthersOK
<1>13. ASSUME NEW c \in Calls, NEW t \in Tabs, NEW op \in Ops, NEW f \in Files \cup {NoFile}, Ask(c, t, op, f)
       PROVE  CallsOK /\ TabsOK /\ InboxOK /\ SessionsOK /\ OthersOK
  <2>1. f \in T
    BY <1>2
  <2>2. CallsOK
    BY <1>3, <1>13, <2>1 DEF Ask, CallsOK, Call, OpNames, Steps, SessionsAssumption
  <2>3. TabsOK
    BY <1>3, <1>11, <1>13, <1>11a DEF Ask
  <2> QED  BY <2>2, <2>3, <1>4, <1>13 DEF Ask
<1>14. ASSUME NEW t \in Tabs, Deliver(t)
       PROVE  CallsOK /\ TabsOK /\ InboxOK /\ SessionsOK /\ OthersOK
  <2>1. Head(inbox[t]) \in Env(T) /\ Tail(inbox[t]) \in Seq(Env(T))
    BY <1>3, <1>14 DEF Deliver
  <2>2. TabsOK
    <3>1. Head(inbox[t]).file \in T
      BY <2>1 DEF Env
    <3>2. PICK r : r \in Tab(T) /\ tabs' = [tabs EXCEPT ![t] = r]
      <4>1. Head(inbox[t]).kind \in {"ready", "session_switched", "agent_start", "agent_end", "error"}
        BY <2>1 DEF Env
      <4>2. \E r : r \in Tab(T) /\ tabs' = [tabs EXCEPT ![t] = r]
        BY <1>11, <1>14, <3>1, <4>1 DEF Deliver
      <4> QED  BY <4>2
    <3> QED  BY <1>11a, <3>2
  <2>3. InboxOK
    BY <1>3, <1>14, <2>1 DEF Deliver, InboxOK
  <2> QED  BY <2>2, <2>3, <1>4, <1>14 DEF Deliver
<1>15. ASSUME NEW t \in Tabs, Drop(t)
       PROVE  CallsOK /\ TabsOK /\ InboxOK /\ SessionsOK /\ OthersOK
  <2>1. InboxOK /\ OthersOK
    BY <1>3, <1>15 DEF Drop, InboxOK, OthersOK
  <2>2. tabs' = [tabs EXCEPT ![t] = [tabs[t] EXCEPT !.conn = "off"]]
    BY <1>15 DEF Drop
  <2>3. TabsOK
    BY <1>11, <1>11a, <2>2
  <2> QED  BY <2>1, <2>3, <1>4, <1>15 DEF Drop
<1>16. ASSUME NEW c \in Calls, Stream(c)
       PROVE  CallsOK /\ TabsOK /\ InboxOK /\ SessionsOK /\ OthersOK
  <2>1. CallsOK
    BY <1>2, <1>5, <1>16 DEF Stream
  <2>2. TabsOK /\ InboxOK
    <3>1. CASE active # 0
      BY <1>8, <1>10, <1>16, <3>1 DEF Stream
    <3>2. CASE active = 0
      BY <1>4, <1>16, <3>2 DEF Stream
    <3> QED  BY <3>1, <3>2
  <2> QED  BY <2>1, <2>2, <1>4, <1>16 DEF Stream
<1>17. ASSUME NEW c \in Calls, Message(c)
       PROVE  CallsOK /\ TabsOK /\ InboxOK /\ SessionsOK /\ OthersOK
  <2>0. sessions[active] \in Session(T)
    BY <1>10, <1>17 DEF Message
  <2>1. Prompted(active) \in Session(T)
    <3>0. sessions[active].running \in Nat
      BY <2>0, SessionShape
    <3>1. sessions[active].running + 1 \in Nat
      BY <3>0
    <3>2. [sessions[active] EXCEPT !.busy = TRUE, !.running = sessions[active].running + 1] \in Session(T)
      BY <2>0, <3>1, SessionShape
    <3>3. [sessions[active] EXCEPT !.busy = TRUE, !.running = @ + 1] \in Session(T)
      BY <3>2
    <3> QED  BY <2>0, <3>3 DEF Prompted
  <2>2. SessionsOK
    BY <1>3, <1>10, <1>12, <1>17, <2>1 DEF Message, SessionsOK
  <2>3. TabsOK
    <3>1. CASE UNCHANGED tabs
      BY <1>4, <3>1
    <3>2. CASE tabs' = [tabs EXCEPT ![calls[c].tab] = [tabs[calls[c].tab] EXCEPT !.busy = FALSE]]
      BY <1>11, <1>11a, <3>2
    <3>3. tabs' = [tabs EXCEPT ![calls[c].tab].busy = FALSE] \/ UNCHANGED tabs
      BY <1>17 DEF Message
    <3> QED  BY <3>1, <3>2, <3>3
  <2>4. <<Envelope("agent_start", NoFile)>> \in Seq(Env(T))
    BY <1>2, <1>6
  <2>5. InboxOK
    BY <1>4, <1>7, <1>17, <2>4 DEF Message
  <2> QED  BY <2>2, <2>3, <2>5, <1>4, <1>5, <1>17 DEF Message
<1>18. ASSUME NEW c \in Calls, NewSession(c) \/ Activate(c) \/ Delete(c)
       PROVE  CallsOK /\ TabsOK /\ InboxOK /\ SessionsOK /\ OthersOK
  <2>1. CallsOK
    BY <1>2, <1>5, <1>9, <1>18 DEF NewSession, Activate, Delete
  <2> QED  BY <2>1, <1>4, <1>18 DEF NewSession, Activate, Delete
<1>19. ASSUME NEW c \in Calls, TearDown(c)
       PROVE  CallsOK /\ TabsOK /\ InboxOK /\ SessionsOK /\ OthersOK
  <2>1. CallsOK
    BY <1>2, <1>5, <1>9, <1>19 DEF TearDown
  <2>2. SessionsOK
    <3>1. CASE calls[c].prev \in DOMAIN sessions
      <4>0. sessions[calls[c].prev] \in Session(T)
        BY <1>3, <3>1
      <4>1. [sessions[calls[c].prev] EXCEPT !.disposed = TRUE] \in Session(T)
        BY <4>0, SessionShape
      <4>2. active' = 0 /\ sessions' = [sessions EXCEPT ![calls[c].prev] = [@ EXCEPT !.disposed = TRUE]]
        BY <1>19 DEF TearDown
      <4>3. sessions' \in Seq(Session(T)) /\ Len(sessions') = Len(sessions)
        BY <1>12, <3>1, <4>1, <4>2
      <4> QED  BY <1>3, <4>2, <4>3 DEF SessionsOK
    <3>2. CASE calls[c].prev \notin DOMAIN sessions
      <4>1. sessions' = sessions
        BY <1>3, <1>19, <3>2 DEF TearDown
      <4> QED  BY <4>1, <1>3, <1>19 DEF TearDown, SessionsOK
    <3> QED  BY <3>1, <3>2
  <2> QED  BY <2>1, <2>2, <1>4, <1>19 DEF TearDown
<1>20. ASSUME NEW c \in Calls, Bind(c)
       PROVE  CallsOK /\ TabsOK /\ InboxOK /\ SessionsOK /\ OthersOK
  <2>1. CallsOK
    BY <1>5, <1>20 DEF Bind
  <2>2. SessionsOK
    BY <1>3, <1>9, <1>20 DEF Bind, SessionsOK, Session
  <2>3. Told(calls[c].op, calls[c].file) \in Seq(Env(T))
    <3>1. /\ Envelope("session_switched", calls[c].file) \in Env(T)
          /\ Envelope("agent_start", NoFile) \in Env(T)
      BY <1>2, <1>6, <1>9
    <3> QED  BY <3>1 DEF Told
  <2>4. TabsOK /\ InboxOK
    BY <2>3, <1>4, <1>7, <1>8, <1>9, <1>20 DEF Bind
  <2>5. OthersOK
    BY <1>3, <1>20 DEF Bind, OthersOK
  <2> QED  BY <2>1, <2>2, <2>4, <2>5
<1>21. ASSUME NEW c \in Calls, BuildFails(c)
       PROVE  CallsOK /\ TabsOK /\ InboxOK /\ SessionsOK /\ OthersOK
  <2>1. TabsOK /\ OthersOK
    <3>1. PICK r : (calls[c].tab \in Tabs => r \in Tab(T)) /\ tabs' = [tabs EXCEPT ![calls[c].tab] = r]
      <4>1. \E r : (calls[c].tab \in Tabs => r \in Tab(T)) /\ tabs' = [tabs EXCEPT ![calls[c].tab] = r]
        BY <1>11, <1>21 DEF BuildFails
      <4> QED  BY <4>1
    <3>2. TabsOK
      BY <1>11a, <3>1
    <3>3. OthersOK
      BY <1>3, <1>21 DEF BuildFails, OthersOK
    <3> QED  BY <3>2, <3>3
  <2> QED  BY <2>1, <1>4, <1>5, <1>21 DEF BuildFails
<1>21a. ASSUME NEW c \in Calls, DeleteFails(c)
        PROVE  CallsOK /\ TabsOK /\ InboxOK /\ SessionsOK /\ OthersOK
  <2>1. OthersOK
    BY <1>3, <1>21a DEF DeleteFails, OthersOK
  <2>2. CASE calls[c].step = "post" /\ Done(c) /\ UNCHANGED <<sessions, active>>
    BY <1>4, <1>5, <1>21a, <2>1, <2>2 DEF DeleteFails
  <2>3. CASE /\ calls[c].step = "abort" /\ active' = 0 /\ Rebinds(c, Recent(disk))
             /\ sessions' = [sessions EXCEPT ![calls[c].prev] = [@ EXCEPT !.disposed = TRUE]]
    <3>1. CallsOK
      <4>1. PICK f \in T : f = Recent(disk)
        BY <2>3
      <4>2. calls[c] \in Call(T)
        BY <1>3
      <4>3. [calls[c] EXCEPT !.op = "rebind", !.step = "build", !.file = f] \in Call(T)
        BY <4>2 DEF Call, OpNames, Steps
      <4>4. calls' = [calls EXCEPT ![c] = [calls[c] EXCEPT !.op = "rebind", !.step = "build", !.file = f]]
        BY <2>3, <4>1 DEF Rebinds
      <4> QED  BY <1>3, <4>3, <4>4 DEF CallsOK
    <3>2. CASE calls[c].prev \in DOMAIN sessions
      <4>1. [sessions[calls[c].prev] EXCEPT !.disposed = TRUE] \in Session(T)
        <5>1. sessions[calls[c].prev] \in Session(T)
          BY <1>3, <3>2
        <5> QED  BY <5>1, SessionShape
      <4>2. sessions' \in Seq(Session(T)) /\ Len(sessions') = Len(sessions)
        BY <1>12, <2>3, <3>2, <4>1
      <4>3. SessionsOK
        BY <1>3, <2>3, <4>2 DEF SessionsOK
      <4> QED  BY <2>1, <3>1, <4>3, <1>4, <1>21a DEF DeleteFails
    <3>3. CASE calls[c].prev \notin DOMAIN sessions
      <4>0. sessions' = sessions
        BY <1>3, <2>3, <3>3
      <4>0a. active' = 0
        BY <2>3
      <4>1. SessionsOK
        BY <1>3, <4>0, <4>0a DEF SessionsOK
      <4> QED  BY <2>1, <3>1, <4>1, <1>4, <1>21a DEF DeleteFails
    <3> QED  BY <3>2, <3>3
  <2> QED  BY <1>21a, <2>2, <2>3 DEF DeleteFails
<1>22. ASSUME NEW i \in DOMAIN sessions, NEW kind \in {"agent_end", "error"}, Settle(i, kind)
       PROVE  CallsOK /\ TabsOK /\ InboxOK /\ SessionsOK /\ OthersOK
  <2>1. sessions[i] \in Session(T) /\ sessions[i].running - 1 \in Nat
    <3>1. sessions[i] \in Session(T)
      BY <1>3
    <3>2. sessions[i].running \in Nat /\ sessions[i].running > 0
      BY <1>22, <3>1, SessionShape DEF Settle
    <3> QED  BY <3>1, <3>2
  <2>2. [sessions[i] EXCEPT !.busy = FALSE, !.running = @ - 1] \in Session(T)
    BY <2>1, SessionShape
  <2>3. SessionsOK
    BY <1>3, <1>12, <1>22, <2>2 DEF Settle, SessionsOK
  <2>4. <<Envelope(kind, NoFile)>> \in Seq(Env(T))
    BY <1>2, <1>6
  <2>5. InboxOK
    BY <1>4, <1>7, <1>22, <2>4 DEF Settle
  <2> QED  BY <2>3, <2>5, <1>4, <1>22 DEF Settle
<1>23. CASE UNCHANGED vars
  BY <1>4, <1>23 DEF vars
<1> QED
  BY <1>13, <1>14, <1>15, <1>16, <1>17, <1>18, <1>19, <1>20, <1>21, <1>21a, <1>22, <1>23 DEF Next, Serve

LEMMA StepShape ==
  ASSUME SessionsAssumption, Shape, [Next]_vars
  PROVE  Shape'
<1>1. PICK S : ShapedBy(S)
  BY DEF Shape
<1>2. PICK T : /\ ShapedBy(T) /\ Files \subseteq T
               /\ Fresh \in T /\ Recent(disk) \in T /\ Recent(disk') \in T
  <2>1. S \subseteq S \cup {Fresh, Recent(disk), Recent(disk')} \cup Files
    OBVIOUS
  <2>2. ShapedBy(S \cup {Fresh, Recent(disk), Recent(disk')} \cup Files)
    BY <1>1, <2>1, LargerShape
  <2> QED  BY <2>2
<1> QED
  BY <1>2, StepShapedBy DEF Shape

---------------------------------------------------------------------------
(* Every step keeps prompts in turn, and whoever aborts will tell.         *)

LEMMA StepTurns ==
  ASSUME Shape, PromptsInTurn, [Next]_vars
  PROVE  PromptsInTurn'
<1>1. PICK S : ShapedBy(S)
  BY DEF Shape
<1>2. sessions \in Seq(Session(S)) /\ DOMAIN sessions = 1 .. Len(sessions) /\ Len(sessions) \in Nat
  BY <1>1 DEF ShapedBy
<1>3. \A i \in DOMAIN sessions : sessions[i] \in Session(S) /\ InTurn(sessions[i])
  BY <1>2 DEF PromptsInTurn, InTurn
<1> SUFFICES \A i \in DOMAIN sessions' : InTurn(sessions'[i])
  BY DEF PromptsInTurn, InTurn
<1>4. UNCHANGED sessions => \A i \in DOMAIN sessions' : InTurn(sessions'[i])
  BY <1>3
<1>5. \A j, s : (j \in DOMAIN sessions => InTurn(s)) /\ sessions' = [sessions EXCEPT ![j] = s]
                  => \A i \in DOMAIN sessions' : InTurn(sessions'[i])
  BY <1>2, <1>3
<1>6. ASSUME NEW c \in Calls, Message(c)
      PROVE  \A i \in DOMAIN sessions' : InTurn(sessions'[i])
  <2>1. active \in DOMAIN sessions => InTurn(Prompted(active))
    <3> SUFFICES ASSUME active \in DOMAIN sessions  PROVE InTurn(Prompted(active))
      OBVIOUS
    <3>1. InTurn(sessions[active]) /\ sessions[active] \in Session(S)
      BY <1>3
    <3> QED  BY <3>1 DEF InTurn, Prompted, Session
  <2> QED  BY <2>1, <1>5, <1>6 DEF Message
<1>7. ASSUME NEW c \in Calls, TearDown(c) \/ DeleteFails(c)
      PROVE  \A i \in DOMAIN sessions' : InTurn(sessions'[i])
  <2> DEFINE s == [sessions[calls[c].prev] EXCEPT !.disposed = TRUE]
  <2>1. calls[c].prev \in DOMAIN sessions => InTurn(s)
    <3> SUFFICES ASSUME calls[c].prev \in DOMAIN sessions  PROVE InTurn(s)
      OBVIOUS
    <3>1. InTurn(sessions[calls[c].prev]) /\ sessions[calls[c].prev] \in Session(S)
      BY <1>3
    <3> QED  BY <3>1 DEF InTurn, Session
  <2>2. UNCHANGED sessions \/ sessions' = [sessions EXCEPT ![calls[c].prev] = s]
    BY <1>7 DEF TearDown, DeleteFails
  <2> HIDE DEF s
  <2> QED  BY <2>1, <2>2, <1>4, <1>5
<1>8. ASSUME NEW c \in Calls, Bind(c)
      PROVE  \A i \in DOMAIN sessions' : InTurn(sessions'[i])
  <2> DEFINE sends == calls[c].op = "send"
             s == [file |-> calls[c].file, disposed |-> FALSE, busy |-> sends, running |-> IF sends THEN 1 ELSE 0]
  <2>1. InTurn(s)
    BY DEF InTurn
  <2>2. sessions' = Append(sessions, s)
    BY <1>8 DEF Bind
  <2> HIDE DEF s
  <2> QED  BY <2>1, <2>2, <1>2, <1>3
<1>9. ASSUME NEW j \in DOMAIN sessions, NEW kind \in {"agent_end", "error"}, Settle(j, kind)
      PROVE  \A i \in DOMAIN sessions' : InTurn(sessions'[i])
  <2> DEFINE s == [sessions[j] EXCEPT !.busy = FALSE, !.running = @ - 1]
  <2>1. sessions[j].running = 1 /\ sessions[j] \in Session(S)
    <3>1. sessions[j] \in Session(S) /\ InTurn(sessions[j]) /\ sessions[j].running > 0
      BY <1>3, <1>9 DEF Settle
    <3> QED  BY <3>1 DEF InTurn, Session
  <2>2. InTurn(s)
    BY <2>1 DEF InTurn, Session
  <2>3. sessions' = [sessions EXCEPT ![j] = s]
    BY <1>9 DEF Settle
  <2> HIDE DEF s
  <2> QED  BY <2>2, <2>3, <1>5
<1>10. CASE UNCHANGED vars
  BY <1>4, <1>10 DEF vars
<1> QED
  BY <1>4, <1>6, <1>7, <1>8, <1>9, <1>10
  DEF Next, Serve, Ask, Deliver, Drop, Stream, NewSession, Activate, Delete, BuildFails

LEMMA StepAborts ==
  ASSUME SessionsAssumption, Shape, AbortsAreSwitches, [Next]_vars
  PROVE  AbortsAreSwitches'
<1>1. PICK S : calls \in [Calls -> Call(S)]
  BY DEF Shape, ShapedBy
<1> SUFFICES ASSUME NEW d \in Calls
             PROVE  /\ calls'[d].step = "abort" => calls'[d].op # "stream"
                    /\ calls'[d].op = "rebind" => faults' > 0
  BY DEF AbortsAreSwitches
<1> DEFINE OK == /\ calls'[d].step = "abort" => calls'[d].op # "stream"
                 /\ calls'[d].op = "rebind" => faults' > 0
<1>2. /\ calls[d].step = "abort" => calls[d].op # "stream"
      /\ calls[d].op = "rebind" => faults > 0
  BY DEF AbortsAreSwitches
<1>3a. faults' = faults \/ faults' = faults + 1
  BY DEF Next, Serve, Ask, Deliver, Drop, Stream, Message, NewSession, Activate, Delete, TearDown,
         Bind, DeleteFails, BuildFails, Settle, vars
<1>3. faults \in Nat /\ faults' \in Nat /\ faults' >= faults
  BY <1>3a DEF Shape
<1>4. calls'[d] = calls[d] => OK
  BY <1>2, <1>3
<1>5. \A c \in Calls : Done(c) \/ (\E f : Builds(c, f)) \/ (AbortsFirst(c) /\ calls[c].op # "stream") => OK
  <2> SUFFICES ASSUME NEW c \in Calls,
                      Done(c) \/ (\E f : Builds(c, f)) \/ (AbortsFirst(c) /\ calls[c].op # "stream")
               PROVE  OK
    OBVIOUS
  <2>1. CASE c = d
    <3>1. CASE Done(c)
      BY <1>1, <2>1, <3>1 DEF Done, Free
    <3>2. CASE (\E f : Builds(c, f)) \/ (AbortsFirst(c) /\ calls[c].op # "stream")
      <4>1. /\ calls'[d].op = calls[d].op
            /\ calls'[d].step = "build" \/ calls[d].op # "stream"
        BY <1>1, <2>1, <3>2 DEF Builds, AbortsFirst, Call
      <4> QED  BY <1>2, <1>3, <4>1
    <3> QED  BY <3>1, <3>2
  <2>2. CASE c # d
    BY <1>1, <1>4, <2>2 DEF Done, Builds, AbortsFirst
  <2> QED  BY <2>1, <2>2
<1> HIDE DEF OK
<1>6. ASSUME NEW c \in Calls, NEW t \in Tabs, NEW op \in Ops, NEW f \in Files \cup {NoFile}, Ask(c, t, op, f)
      PROVE  OK
  <2>1. CASE c = d
    <3>1. calls'[d].step = "post" /\ calls'[d].op = op
      BY <1>1, <1>6, <2>1 DEF Ask
    <3>2. op # "rebind"
      BY <1>6, SessionsAssumption
    <3> QED  BY <3>1, <3>2 DEF OK
  <2>2. CASE c # d
    BY <1>1, <1>4, <1>6, <2>2 DEF Ask
  <2> QED  BY <2>1, <2>2
<1>7. ASSUME NEW c \in Calls, Serve(c) \/ BuildFails(c)
      PROVE  OK
  BY <1>5, <1>7
  DEF Serve, Stream, Message, NewSession, Activate, Delete, TearDown, Bind, BuildFails
<1>8. ASSUME NEW c \in Calls, DeleteFails(c)
      PROVE  OK
  <2>1. faults' > 0
    BY <1>3, <1>8 DEF DeleteFails
  <2>2. CASE Done(c)
    BY <1>5, <2>2
  <2>3. CASE Rebinds(c, Recent(disk))
    <3>1. CASE c = d
      <4>1. calls'[d].step = "build"
        BY <1>1, <2>3, <3>1 DEF Rebinds, Call
      <4> QED  BY <2>1, <4>1 DEF OK
    <3>2. CASE c # d
      BY <1>1, <1>4, <2>3, <3>2 DEF Rebinds
    <3> QED  BY <3>1, <3>2
  <2> QED  BY <1>8, <2>2, <2>3 DEF DeleteFails
<1>9. ASSUME \/ \E t \in Tabs : Deliver(t) \/ Drop(t)
             \/ \E i \in DOMAIN sessions, kind \in {"agent_end", "error"} : Settle(i, kind)
             \/ UNCHANGED vars
      PROVE  OK
  <2>1. UNCHANGED calls
    BY <1>9 DEF Deliver, Drop, Settle, vars
  <2> QED  BY <1>4, <2>1
<1>10. OK
  BY <1>6, <1>7, <1>8, <1>9 DEF Next
<1> QED
  BY <1>10 DEF OK

---------------------------------------------------------------------------
(* Every step keeps the tabs on the active session.                        *)

LEMMA StepToldLast ==
  ASSUME SessionsAssumption, Shape, AbortsAreSwitches, ToldLast, [Next]_vars
  PROVE  ToldLast'
<1>1. PICK S : ShapedBy(S)
  BY DEF Shape
<1>2. /\ sessions \in Seq(Session(S)) /\ calls \in [Calls -> Call(S)]
      /\ tabs \in [Tabs -> Tab(S)] /\ inbox \in [Tabs -> Seq(Env(S))]
      /\ active \in 0 .. Len(sessions) /\ Len(sessions) \in Nat
      /\ overwritten \in BOOLEAN /\ faults \in Nat
  BY <1>1 DEF ShapedBy, Shape
<1> SUFFICES ASSUME ~overwritten', faults' = 0, NEW t \in Tabs, tabs'[t].conn = "on", ~Rebuilding'
             PROVE  OnActive(t)'
  BY DEF ToldLast, Listeners
<1>3. CASE UNCHANGED vars
  <2>1. OnActive(t)
    BY <1>3 DEF ToldLast, Listeners, vars, Rebuilding
  <2> QED  BY <2>1, <1>3 DEF OnActive, vars
<1>4. ~overwritten /\ faults = 0
  <2>1. overwritten => overwritten'
    BY DEF Next, Serve, Ask, Deliver, Drop, Stream, Message, NewSession, Activate, Delete, TearDown,
           Bind, DeleteFails, BuildFails, Settle, vars
  <2>2. faults' = faults \/ faults' = faults + 1
    BY DEF Next, Serve, Ask, Deliver, Drop, Stream, Message, NewSession, Activate, Delete, TearDown,
           Bind, DeleteFails, BuildFails, Settle, vars
  <2> QED  BY <1>2, <2>1, <2>2
<1>5. tabs[t].conn = "on" => Rebuilding \/ OnActive(t)
  BY <1>4 DEF ToldLast, Listeners
<1>6. active # 0 => active \in DOMAIN sessions /\ sessions[active] \in Session(S)
  <2>1. active # 0 => active \in DOMAIN sessions
    BY <1>2
  <2> QED  BY <1>2, <2>1
\* A call that is not building when a step takes it away leaves the others building.
<1>7. \A c \in Calls : calls[c].step # "build" /\ (\A d \in Calls : d # c => calls'[d] = calls[d]) => ~Rebuilding
  BY DEF Rebuilding
<1>8. \A c \in Calls : Done(c) \/ AbortsFirst(c) \/ (\E f : Builds(c, f)) =>
        \A d \in Calls : d # c => calls'[d] = calls[d]
  BY <1>2 DEF Done, AbortsFirst, Builds
<1>9. UNCHANGED calls => ~Rebuilding
  BY DEF Rebuilding
\* Sessions keep their files.
<1>10. \A i \in DOMAIN sessions : \A s : s.file = sessions[i].file /\ sessions' = [sessions EXCEPT ![i] = s]
         => \A j \in DOMAIN sessions : sessions'[j].file = sessions[j].file
  BY <1>2
<1>11. NoFile \in S
  BY <1>1 DEF ShapedBy
<1>12. ASSUME UNCHANGED active, active # 0 => sessions'[active].file = sessions[active].file,
              tabs[t].conn = "on" /\ tabs'[t].shown = tabs[t].shown, ~Rebuilding,
              \/ inbox'[t] = inbox[t]
              \/ \E kind \in {"agent_start", "agent_end", "error"} : inbox'[t] = inbox[t] \o <<Envelope(kind, NoFile)>>
       PROVE  OnActive(t)'
  <2>1. OnActive(t)
    BY <1>5, <1>12
  <2>2. EndsOn(inbox'[t], tabs[t].shown, sessions[active].file)
    <3>1. CASE inbox'[t] = inbox[t]
      BY <2>1, <3>1 DEF OnActive
    <3>2. ASSUME NEW kind \in {"agent_start", "agent_end", "error"},
                 inbox'[t] = inbox[t] \o <<Envelope(kind, NoFile)>>
          PROVE  EndsOn(inbox'[t], tabs[t].shown, sessions[active].file)
      <4>1. Envelope(kind, NoFile) \in Env(S) /\ ~Switch(Envelope(kind, NoFile))
        BY <1>11 DEF Envelope, Env, Switch
      <4>2. inbox[t] \in Seq(Env(S))
        BY <1>2
      <4> QED  BY <2>1, <3>2, <4>1, <4>2, EndsAfterNews DEF OnActive
    <3> QED  BY <1>12, <3>1, <3>2
  <2>3. active' # 0 /\ tabs'[t].shown = tabs[t].shown /\ sessions'[active'].file = sessions[active].file
    BY <1>12, <2>1 DEF OnActive
  <2> QED  BY <2>2, <2>3 DEF OnActive
<1>13. ASSUME NEW c \in Calls, NEW u \in Tabs, NEW op \in Ops, NEW f \in Files \cup {NoFile}, Ask(c, u, op, f)
       PROVE  OnActive(t)'
  <2>1. tabs[t].conn = "on" /\ tabs'[t].shown = tabs[t].shown
    BY <1>2, <1>13 DEF Ask, Tab
  <2>2. ~Rebuilding
    BY <1>2, <1>7, <1>13 DEF Ask
  <2> QED  BY <2>1, <2>2, <1>12, <1>13 DEF Ask
<1>14. ASSUME NEW u \in Tabs, Deliver(u)
       PROVE  OnActive(t)'
  <2>0. Head(inbox[u]).kind \in {"ready", "session_switched", "agent_start", "agent_end", "error"}
    <3>1. Head(inbox[u]) \in Env(S)
      BY <1>2, <1>14 DEF Deliver
    <3> QED  BY <3>1 DEF Env
  <2>1. OnActive(t)
    <3>1. tabs[t].conn = "on"
      <4>1. tabs[t] \in Tab(S)
        BY <1>2
      <4> QED  BY <1>2, <1>14, <2>0, <4>1 DEF Deliver, Tab
    <3> QED  BY <3>1, <1>5, <1>9, <1>14 DEF Deliver
  <2>2. CASE u # t
    <3>1. tabs'[t] = tabs[t] /\ inbox'[t] = inbox[t]
      BY <1>2, <1>14, <2>2 DEF Deliver
    <3> QED  BY <2>1, <3>1, <1>14 DEF OnActive, Deliver
  <2>3. CASE u = t
    <3>1. inbox[t] \in Seq(Env(S)) /\ inbox[t] # <<>> /\ inbox'[t] = Tail(inbox[t])
      BY <1>2, <1>14, <2>3 DEF Deliver
    <3>2. tabs'[t].shown = IF Switch(Head(inbox[t])) THEN Head(inbox[t]).file ELSE tabs[t].shown
      BY <1>2, <1>14, <2>0, <2>3 DEF Deliver, Switch, Tab
    <3>3. EndsOn(inbox'[t], tabs'[t].shown, sessions[active].file)
      BY <2>1, <3>1, <3>2, EndsAfterDelivery DEF OnActive
    <3> QED  BY <2>1, <3>3, <1>14 DEF OnActive, Deliver
  <2> QED  BY <2>2, <2>3
<1>15. ASSUME NEW u \in Tabs, Drop(u)  PROVE FALSE
  BY <1>2, <1>15 DEF Drop
<1>16. ASSUME NEW c \in Calls, DeleteFails(c) \/ BuildFails(c)  PROVE FALSE
  BY <1>2, <1>16 DEF DeleteFails, BuildFails
\* What Ready leaves in the inbox of the tab it answers.
<1>17. \A f : Ready(t, f) => EndsOn(inbox'[t], tabs'[t].shown, f)
  <2> SUFFICES ASSUME NEW f, Ready(t, f)  PROVE EndsOn(inbox'[t], tabs'[t].shown, f)
    OBVIOUS
  <2>1. inbox'[t] = <<Envelope("ready", f)>>
    BY <1>2 DEF Ready
  <2> DEFINE q == <<Envelope("ready", f)>>
  <2>2. DOMAIN q = {1} /\ q[1] = Envelope("ready", f)
    OBVIOUS
  <2>3. 1 \in Switches(q) /\ q[1].file = f /\ \A j \in Switches(q) : j <= 1
    BY <2>2 DEF Switches, Switch, Envelope
  <2> HIDE DEF q
  <2>4. EndsOn(q, tabs'[t].shown, f)
    BY <2>3 DEF EndsOn
  <2> QED  BY <2>1, <2>4 DEF q
<1>18. \A u, f : Ready(u, f) /\ u # t => tabs'[t] = tabs[t] /\ inbox'[t] = inbox[t]
  BY <1>2 DEF Ready
<1>19. ASSUME NEW c \in Calls, Stream(c)
       PROVE  OnActive(t)'
  <2>1. ~Rebuilding
    BY <1>7, <1>8, <1>19 DEF Stream
  <2>2. CASE active # 0 /\ calls[c].tab = t
    BY <1>17, <1>19, <2>2 DEF Stream, OnActive
  <2>3. CASE active # 0 /\ calls[c].tab # t
    <3>1. tabs'[t] = tabs[t] /\ inbox'[t] = inbox[t]
      BY <1>18, <1>19, <2>3 DEF Stream
    <3> QED  BY <2>1, <3>1, <1>12, <1>19 DEF Stream
  <2>4. CASE active = 0
    BY <2>1, <2>4, <1>12, <1>19 DEF Stream
  <2> QED  BY <2>2, <2>3, <2>4
<1>20. ASSUME NEW c \in Calls, Message(c)
       PROVE  OnActive(t)'
  <2>1. ~Rebuilding
    BY <1>7, <1>8, <1>20 DEF Message
  <2>2. tabs[t].conn = "on" /\ tabs'[t].shown = tabs[t].shown
    <3>1. tabs' = [tabs EXCEPT ![calls[c].tab].busy = FALSE] \/ UNCHANGED tabs
      BY <1>20 DEF Message
    <3>2. \/ tabs'[t] = tabs[t]
          \/ tabs'[t] = [tabs[t] EXCEPT !.busy = FALSE]
      BY <1>2, <3>1
    <3>3. tabs[t] \in Tab(S)
      BY <1>2
    <3>4. tabs'[t].conn = tabs[t].conn /\ tabs'[t].shown = tabs[t].shown
      BY <3>2, <3>3 DEF Tab
    <3> QED  BY <3>4
  <2>3. active # 0 /\ active \in DOMAIN sessions /\ Prompted(active).file = sessions[active].file
    BY <1>6, <1>20 DEF Message, Prompted, Session
  <2>4. sessions'[active].file = sessions[active].file
    BY <1>10, <1>20, <2>3 DEF Message
  <2>5. inbox'[t] = inbox[t] \/ inbox'[t] = inbox[t] \o <<Envelope("agent_start", NoFile)>>
    BY <1>2, <1>20, <2>2 DEF Message, Sent, Listeners
  <2> QED  BY <2>1, <2>2, <2>4, <2>5, <1>12, <1>20 DEF Message
<1>21. ASSUME NEW c \in Calls, NewSession(c) \/ Activate(c) \/ Delete(c)
       PROVE  OnActive(t)'
  <2>1. ~Rebuilding
    BY <1>7, <1>8, <1>21 DEF NewSession, Activate, Delete
  <2> QED  BY <2>1, <1>12, <1>21 DEF NewSession, Activate, Delete
<1>22. ASSUME NEW c \in Calls, TearDown(c)  PROVE FALSE
  <2>1. calls[c].op # "stream"
    BY <1>22 DEF TearDown, AbortsAreSwitches
  <2>2. calls'[c].step = "build" /\ calls'[c].op = calls[c].op
    BY <1>2, <1>22 DEF TearDown, Builds, Call
  <2> QED  BY <2>1, <2>2 DEF Rebuilding
<1>23. ASSUME NEW c \in Calls, Bind(c)
       PROVE  OnActive(t)'
  <2> DEFINE f == calls[c].file
  <2>1. active' # 0 /\ sessions'[active'].file = f
    BY <1>2, <1>23 DEF Bind
  <2>2. f \in S
    BY <1>2 DEF Call
  <2>3. CASE calls[c].op = "stream" /\ calls[c].tab = t
    BY <1>17, <1>23, <2>1, <2>3 DEF Bind, OnActive
  <2>4. CASE calls[c].op = "stream" /\ calls[c].tab # t
    <3>1. tabs'[t] = tabs[t]
      BY <1>18, <1>23, <2>4 DEF Bind
    <3>2. active = 0
      BY <1>23, <2>4 DEF Bind
    <3>3. PICK d \in Calls : calls[d].step = "build" /\ calls[d].op # "stream"
      BY <1>5, <3>1, <3>2 DEF OnActive, Rebuilding
    <3>4. calls'[d] = calls[d]
      BY <1>8, <1>23, <2>4, <3>3 DEF Bind
    <3> QED  BY <3>3, <3>4 DEF Rebuilding
  <2>5. CASE calls[c].op # "stream"
    <3>1. UNCHANGED tabs /\ inbox'[t] = inbox[t] \o Told(calls[c].op, f)
      BY <1>2, <1>23, <2>5 DEF Bind, Sent, Listeners
    <3> DEFINE told == Envelope("session_switched", f)
               news == Envelope("agent_start", NoFile)
    <3>2. told \in Env(S) /\ Switch(told) /\ told.file = f /\ news \in Env(S) /\ ~Switch(news)
      BY <1>11, <2>2 DEF Envelope, Env, Switch
    <3>3. inbox[t] \in Seq(Env(S)) /\ inbox[t] \o <<told>> \in Seq(Env(S))
      BY <1>2, <3>2
    <3>4. EndsOn(inbox[t] \o <<told>>, tabs[t].shown, f)
      BY <3>2, <3>3, EndsAfterSwitch
    <3>5. EndsOn((inbox[t] \o <<told>>) \o <<news>>, tabs[t].shown, f)
      BY <3>2, <3>3, <3>4, EndsAfterNews
    <3>6. inbox'[t] = inbox[t] \o <<told>> \/ inbox'[t] = (inbox[t] \o <<told>>) \o <<news>>
      <4>1. Told(calls[c].op, f) = <<told>> \/ Told(calls[c].op, f) = <<told, news>>
        BY <1>4 DEF Told, AbortsAreSwitches
      <4>2. inbox[t] \o <<told, news>> = (inbox[t] \o <<told>>) \o <<news>>
        BY <1>2, <3>2
      <4> QED  BY <3>1, <4>1, <4>2
    <3> HIDE DEF f, told, news
    <3> QED  BY <2>1, <3>1, <3>4, <3>5, <3>6 DEF OnActive
  <2> QED  BY <2>3, <2>4, <2>5
<1>24. ASSUME NEW i \in DOMAIN sessions, NEW kind \in {"agent_end", "error"}, Settle(i, kind)
       PROVE  OnActive(t)'
  <2>1. sessions[i] \in Session(S)
    BY <1>2
  <2> DEFINE s == [sessions[i] EXCEPT !.busy = FALSE, !.running = @ - 1]
  <2>2. s.file = sessions[i].file
    BY <2>1 DEF Session
  <2>3. sessions' = [sessions EXCEPT ![i] = s]
    BY <1>24 DEF Settle
  <2> HIDE DEF s
  <2>4. active # 0 => sessions'[active].file = sessions[active].file
    BY <1>6, <1>10, <2>2, <2>3
  <2>5. inbox'[t] = inbox[t] \/ inbox'[t] = inbox[t] \o <<Envelope(kind, NoFile)>>
    BY <1>2, <1>24 DEF Settle, Sent, Listeners
  <2>6. UNCHANGED <<active, tabs>> /\ ~Rebuilding
    BY <1>9, <1>24 DEF Settle
  <2> QED  BY <2>4, <2>5, <2>6, <1>12
<1> QED
  BY <1>3, <1>13, <1>14, <1>15, <1>16, <1>19, <1>20, <1>21, <1>22, <1>23, <1>24 DEF Next, Serve

---------------------------------------------------------------------------
(* No tab waits for nothing.                                               *)

(* The envelopes that turn the idle indicator of a tab, and when the last  *)
(* of those on their way leaves it off.                                    *)
Turns(q) == {i \in DOMAIN q : q[i].kind # "ready"}
Rests(q, busy) ==
    \/ Turns(q) = {} /\ ~busy
    \/ \E i \in Turns(q) : q[i].kind # "agent_start" /\ \A j \in Turns(q) : j <= i

Asking(t) == \E c \in Calls : calls[c].op = "send" /\ calls[c].tab = t
Running == \E i \in DOMAIN sessions : sessions[i].running > 0 /\ ~sessions[i].disposed

(* A tab whose indicator is on, and which listens, has somebody to wait    *)
(* for: its own request, a switch under way, or a prompt that will be told.*)
Awaited ==
    faults = 0 =>
        \A t \in Tabs :
            \/ tabs[t].unheard
            \/ Rests(inbox[t], tabs[t].busy)
            \/ tabs[t].conn = "on" /\ (Asking(t) \/ Rebuilding \/ Running)

(* A request for the stream belongs to a tab that opens it, a tab that     *)
(* does not listen has no envelopes, and a request that is over asks for   *)
(* nothing.                                                                *)
StreamsOpen ==
    \A c \in Calls : calls[c].op = "stream" =>
        /\ tabs[calls[c].tab].conn = "opening" /\ calls[c].tab \in Tabs
        /\ \A d \in Calls \ {c} : calls[d].op = "stream" => calls[d].tab # calls[c].tab
DeafTabs == \A t \in Tabs : tabs[t].conn # "on" => inbox[t] = <<>>
FreeCalls == \A c \in Calls : calls[c].step = "free" => calls[c].op = "none"
ActiveLives == active # 0 => ~sessions[active].disposed

Tidy == StreamsOpen /\ DeafTabs /\ FreeCalls

LEMMA RestsAfterDelivery ==
  ASSUME NEW S, NEW q \in Seq(Env(S)), q # <<>>, NEW busy \in BOOLEAN, Rests(q, busy), NEW after \in BOOLEAN,
         Head(q).kind = "ready" => after = busy,
         Head(q).kind \notin {"ready", "agent_start"} => ~after
  PROVE  Rests(Tail(q), after)
<1> DEFINE r == Tail(q)
<1>1. /\ DOMAIN q = 1 .. Len(q) /\ Len(q) \in Nat /\ Len(q) > 0
      /\ DOMAIN r = 1 .. (Len(q) - 1) /\ \A i \in DOMAIN r : r[i] = q[i + 1]
      /\ Head(q) = q[1]
  OBVIOUS
<1>2. \A i \in DOMAIN q : i = 1 \/ (i - 1 \in DOMAIN r /\ r[i - 1] = q[i])
  BY <1>1
<1> HIDE DEF r
<1>3. \A j \in Turns(r) : j + 1 \in Turns(q) /\ j \in Nat /\ j > 0
  BY <1>1 DEF Turns
<1>4. CASE Turns(q) = {} /\ ~busy
  <2>1. Head(q).kind = "ready" /\ Turns(r) = {}
    BY <1>1, <1>3, <1>4 DEF Turns
  <2> QED  BY <1>4, <2>1 DEF Rests, r
<1>5. CASE \E i \in Turns(q) : q[i].kind # "agent_start" /\ \A j \in Turns(q) : j <= i
  <2>1. PICK i \in Turns(q) : q[i].kind # "agent_start" /\ \A j \in Turns(q) : j <= i
    BY <1>5
  <2>2. CASE i = 1
    <3>1. Turns(r) = {}
      <4> SUFFICES ASSUME NEW j \in Turns(r)  PROVE FALSE
        OBVIOUS
      <4>1. j + 1 <= 1 /\ j \in Nat /\ j > 0
        BY <1>3, <2>1, <2>2
      <4> QED  BY <4>1
    <3>2. Head(q).kind \notin {"ready", "agent_start"}
      BY <1>1, <2>1, <2>2 DEF Turns
    <3> QED  BY <3>1, <3>2 DEF Rests, r
  <2>3. CASE i # 1
    <3>1. i - 1 \in Turns(r) /\ r[i - 1].kind # "agent_start"
      BY <2>1, <2>3, <1>2 DEF Turns
    <3>2. \A j \in Turns(r) : j <= i - 1
      <4> SUFFICES ASSUME NEW j \in Turns(r)  PROVE j <= i - 1
        OBVIOUS
      <4>1. j + 1 <= i /\ j \in Nat /\ i \in Nat
        BY <1>1, <1>3, <2>1 DEF Turns
      <4> QED  BY <4>1
    <3> QED  BY <3>1, <3>2 DEF Rests, r
  <2> QED  BY <2>2, <2>3
<1> QED  BY <1>4, <1>5 DEF Rests

\* A switch, an end and an error leave the indicator off.
LEMMA RestsAfterNews ==
  ASSUME NEW S, NEW q \in Seq(Env(S)), NEW busy, NEW env \in Env(S), env.kind \notin {"ready", "agent_start"}
  PROVE  Rests(q \o <<env>>, busy)
<1> DEFINE r == q \o <<env>>
<1>1. Len(q) \in Nat /\ DOMAIN r = 1 .. (Len(q) + 1) /\ r[Len(q) + 1] = env
  OBVIOUS
<1> HIDE DEF r
<1>2. Len(q) + 1 \in Turns(r) /\ \A j \in Turns(r) : j <= Len(q) + 1
  BY <1>1 DEF Turns
<1>3. Rests(r, busy)
  BY <1>1, <1>2 DEF Rests
<1> QED  BY <1>3 DEF r

\* Every step keeps the requests and the inboxes tidy.
LEMMA StepTidy ==
  ASSUME SessionsAssumption, Shape, Tidy, AbortsAreSwitches, [Next]_vars
  PROVE  Tidy'
<1>1. PICK S : ShapedBy(S)
  BY DEF Shape
<1>2. /\ calls \in [Calls -> Call(S)] /\ tabs \in [Tabs -> Tab(S)] /\ inbox \in [Tabs -> Seq(Env(S))]
  BY <1>1 DEF ShapedBy
<1> USE DEF Tidy
<1>3. UNCHANGED <<calls, tabs, inbox>> => Tidy'
  BY DEF StreamsOpen, DeafTabs, FreeCalls
\* A request that moves on keeps its name and its tab, one that is over loses both.
<1>4. ASSUME NEW c \in Calls, AbortsFirst(c) \/ Done(c) \/ \E f : Builds(c, f)
      PROVE  /\ \A d \in Calls : calls'[d].op = "stream" =>
                   calls[d].op = "stream" /\ calls'[d].tab = calls[d].tab
             /\ FreeCalls' <=> FreeCalls
             /\ Done(c) => calls'[c].op = "none"
  <2>1. \A d \in Calls \ {c} : calls'[d] = calls[d]
    BY <1>2, <1>4 DEF AbortsFirst, Done, Builds
  <2>2. \/ calls'[c].op = "none" /\ calls'[c].step = "free"
        \/ calls'[c].op = calls[c].op /\ calls'[c].tab = calls[c].tab /\ calls'[c].step # "free"
    BY <1>2, <1>4 DEF AbortsFirst, Done, Builds, Free, Call
  <2>3. Done(c) => calls'[c].op = "none"
    BY <1>2 DEF Done, Free
  <2>4. \A d \in Calls : calls'[d].op = "stream" => calls[d].op = "stream" /\ calls'[d].tab = calls[d].tab
    BY <2>1, <2>2
  <2>5. FreeCalls'
    BY <2>1, <2>2 DEF FreeCalls
  <2> QED  BY <2>3, <2>4, <2>5
<1>5. ASSUME NEW c \in Calls, AbortsFirst(c) \/ Done(c) \/ (\E f : Builds(c, f)),
             \A t \in Tabs : tabs'[t].conn = tabs[t].conn
      PROVE  StreamsOpen' /\ FreeCalls'
  BY <1>4, <1>5 DEF StreamsOpen
<1>6. \A q : \A t \in Tabs : tabs[t].conn # "on" => Sent(q)[t] = inbox[t]
  BY DEF Sent, Listeners
<1>7. ASSUME NEW q, \A t \in Tabs : tabs'[t].conn = tabs[t].conn, inbox' = Sent(q) \/ inbox' = inbox
      PROVE  DeafTabs'
  BY <1>6, <1>7 DEF DeafTabs, Sent, Listeners
<1>8. ASSUME NEW c \in Calls, calls[c].op = "stream", \E f : Ready(calls[c].tab, f), Done(c)
      PROVE  Tidy'
  <2>1. PICK t \in Tabs : t = calls[c].tab
    BY <1>8 DEF StreamsOpen
  <2>2. \A u \in Tabs \ {t} : tabs'[u] = tabs[u] /\ inbox'[u] = inbox[u]
    BY <1>2, <1>8, <2>1 DEF Ready
  <2>3. tabs'[t].conn = "on"
    BY <1>2, <1>8, <2>1 DEF Ready, Tab
  <2>4. \A d \in Calls : calls'[d].op = "stream" => calls[d].op = "stream" /\ calls'[d].tab = calls[d].tab /\ d # c
    BY <1>4, <1>8
  <2>5. StreamsOpen'
    BY <1>8, <2>1, <2>2, <2>4 DEF StreamsOpen
  <2>6. DeafTabs'
    BY <2>2, <2>3 DEF DeafTabs
  <2> QED  BY <1>4, <1>8, <2>5, <2>6
<1>9. ASSUME NEW c \in Calls, NEW t \in Tabs, NEW op \in Ops, NEW f \in Files \cup {NoFile}, Ask(c, t, op, f)
      PROVE  Tidy'
  <2>1. /\ \A d \in Calls \ {c} : calls'[d] = calls[d]
        /\ calls'[c].op = op /\ calls'[c].tab = t /\ calls'[c].step = "post"
        /\ calls[c].op = "none"
    BY <1>2, <1>9 DEF Ask, FreeCalls
  <2>2. /\ \A u \in Tabs \ {t} : tabs'[u] = tabs[u]
        /\ op # "stream" => tabs'[t].conn = tabs[t].conn
        /\ op = "stream" => tabs[t].conn = "off" /\ tabs'[t].conn = "opening"
    BY <1>2, <1>9 DEF Ask, MayAsk, Tab
  <2>3. StreamsOpen'
    BY <2>1, <2>2 DEF StreamsOpen
  <2>4. FreeCalls'
    BY <2>1 DEF FreeCalls
  <2>5. DeafTabs'
    BY <1>9, <2>2 DEF DeafTabs, Ask
  <2> QED  BY <2>3, <2>4, <2>5
<1>10. ASSUME NEW t \in Tabs, Deliver(t)
       PROVE  Tidy'
  <2>0. Head(inbox[t]).kind \in {"ready", "session_switched", "agent_start", "agent_end", "error"}
    <3>1. Head(inbox[t]) \in Env(S)
      BY <1>2, <1>10 DEF Deliver
    <3> QED  BY <3>1 DEF Env
  <2>1. \A u \in Tabs : tabs'[u].conn = tabs[u].conn
    <3>1. \A u \in Tabs \ {t} : tabs'[u] = tabs[u]
      BY <1>2, <1>10 DEF Deliver
    <3>2. tabs'[t].conn = tabs[t].conn
      <4>1. tabs[t] \in Tab(S)
        BY <1>2
      <4> QED  BY <1>2, <1>10, <2>0, <4>1 DEF Deliver, Tab
    <3> QED  BY <3>1, <3>2
  <2>2. DeafTabs'
    BY <1>2, <1>10, <2>1 DEF Deliver, DeafTabs
  <2> QED  BY <1>10, <2>1, <2>2 DEF Deliver, StreamsOpen, FreeCalls
<1>11. ASSUME NEW t \in Tabs, Drop(t)
       PROVE  Tidy'
  <2>1. /\ \A u \in Tabs \ {t} : tabs'[u] = tabs[u] /\ inbox'[u] = inbox[u]
        /\ inbox'[t] = <<>> /\ tabs[t].conn = "on" /\ calls' = calls
    BY <1>2, <1>11 DEF Drop
  <2>2. DeafTabs'
    BY <2>1 DEF DeafTabs
  <2> QED  BY <2>1, <2>2 DEF StreamsOpen, FreeCalls
<1>12. ASSUME NEW c \in Calls, Stream(c)
       PROVE  Tidy'
  <2>1. CASE active # 0
    BY <1>8, <1>12, <2>1 DEF Stream
  <2>2. CASE active = 0
    <3>1. UNCHANGED <<tabs, inbox>> /\ \E f : Builds(c, f)
      BY <1>12, <2>2 DEF Stream
    <3> QED  BY <1>5, <3>1 DEF DeafTabs
  <2> QED  BY <2>1, <2>2
<1>13. ASSUME NEW c \in Calls, Message(c)
       PROVE  Tidy'
  <2>1. tabs' = [tabs EXCEPT ![calls[c].tab].busy = FALSE] \/ UNCHANGED tabs
    BY <1>13 DEF Message
  <2>2. \A t \in Tabs : tabs'[t].conn = tabs[t].conn
    <3> SUFFICES ASSUME NEW t \in Tabs  PROVE tabs'[t].conn = tabs[t].conn
      OBVIOUS
    <3>1. tabs'[t] = tabs[t] \/ tabs'[t] = [tabs[t] EXCEPT !.busy = FALSE]
      BY <1>2, <2>1
    <3>2. tabs[t] \in Tab(S)
      BY <1>2
    <3> QED  BY <3>1, <3>2 DEF Tab
  <2>3. DeafTabs'
    BY <1>7, <1>13, <2>2 DEF Message
  <2> QED  BY <1>5, <1>13, <2>2, <2>3 DEF Message
<1>14. ASSUME NEW c \in Calls, NewSession(c) \/ Activate(c) \/ Delete(c) \/ TearDown(c)
       PROVE  Tidy'
  <2>1. UNCHANGED <<tabs, inbox>>
    BY <1>14 DEF NewSession, Activate, Delete, TearDown
  <2>2. AbortsFirst(c) \/ Done(c) \/ \E f : Builds(c, f)
    BY <1>14 DEF NewSession, Activate, Delete, TearDown
  <2> QED  BY <1>5, <2>1, <2>2 DEF DeafTabs
<1>15. ASSUME NEW c \in Calls, Bind(c)
       PROVE  Tidy'
  <2>1. CASE calls[c].op = "stream"
    BY <1>8, <1>15, <2>1 DEF Bind
  <2>2. CASE calls[c].op # "stream"
    <3>1. UNCHANGED tabs /\ Done(c) /\ inbox' = Sent(Told(calls[c].op, calls[c].file))
      BY <1>15, <2>2 DEF Bind
    <3>2. DeafTabs'
      BY <1>7, <3>1
    <3> QED  BY <1>5, <3>1, <3>2
  <2> QED  BY <2>1, <2>2
<1>16. ASSUME NEW c \in Calls, BuildFails(c)
       PROVE  Tidy'
  <2>1. Done(c) /\ UNCHANGED inbox
    BY <1>16 DEF BuildFails
  <2>2. \A t \in Tabs : tabs'[t].conn = tabs[t].conn
                        \/ (calls[c].op = "stream" /\ t = calls[c].tab /\ tabs'[t].conn = "off")
    BY <1>2, <1>16 DEF BuildFails, Tab
  <2>3. \A d \in Calls : calls'[d].op = "stream" => calls[d].op = "stream" /\ calls'[d].tab = calls[d].tab /\ d # c
    BY <1>4, <2>1
  <2>4. StreamsOpen'
    <3> SUFFICES ASSUME NEW d \in Calls, calls'[d].op = "stream"
                 PROVE  /\ tabs'[calls'[d].tab].conn = "opening" /\ calls'[d].tab \in Tabs
                        /\ \A x \in Calls \ {d} : calls'[x].op = "stream" => calls'[x].tab # calls'[d].tab
      BY DEF StreamsOpen
    <3>1. /\ calls[d].op = "stream" /\ calls'[d].tab = calls[d].tab /\ d # c
          /\ tabs[calls[d].tab].conn = "opening" /\ calls[d].tab \in Tabs
          /\ calls[c].op = "stream" => calls[c].tab # calls[d].tab
      BY <2>3 DEF StreamsOpen
    <3>2. tabs'[calls[d].tab].conn = "opening"
      BY <2>2, <3>1
    <3> QED  BY <2>3, <3>1, <3>2 DEF StreamsOpen
  <2>5. DeafTabs'
    BY <2>1, <2>2 DEF DeafTabs, StreamsOpen
  <2> QED  BY <1>4, <2>1, <2>4, <2>5
<1>16a. ASSUME NEW c \in Calls, DeleteFails(c)
        PROVE  Tidy'
  <2>1. UNCHANGED <<tabs, inbox>>
    BY <1>16a DEF DeleteFails
  <2>2. CASE Done(c)
    BY <1>5, <2>1, <2>2 DEF DeafTabs
  <2>3. CASE Rebinds(c, Recent(disk))
    <3>1. /\ calls'[c].op = "rebind" /\ calls'[c].step = "build"
          /\ \A d \in Calls \ {c} : calls'[d] = calls[d]
      BY <1>2, <2>3 DEF Rebinds, Call
    <3> QED  BY <2>1, <3>1 DEF StreamsOpen, DeafTabs, FreeCalls
  <2> QED  BY <1>16a, <2>2, <2>3 DEF DeleteFails
<1>17. ASSUME NEW i \in DOMAIN sessions, NEW kind \in {"agent_end", "error"}, Settle(i, kind)
       PROVE  Tidy'
  <2>1. DeafTabs'
    BY <1>7, <1>17 DEF Settle
  <2> QED  BY <1>17, <2>1 DEF Settle, StreamsOpen, FreeCalls
<1> QED
  BY <1>3, <1>9, <1>10, <1>11, <1>12, <1>13, <1>14, <1>15, <1>16, <1>16a, <1>17 DEF Next, Serve, vars

\* The active session has not been torn down.
LEMMA StepLives ==
  ASSUME Shape, ActiveLives, [Next]_vars
  PROVE  ActiveLives'
<1>1. PICK S : ShapedBy(S)
  BY DEF Shape
<1>2. sessions \in Seq(Session(S)) /\ active \in 0 .. Len(sessions) /\ Len(sessions) \in Nat
  BY <1>1 DEF ShapedBy, Shape
<1>3. \A i \in DOMAIN sessions : sessions[i] \in Session(S)
  BY <1>2
<1>4. active # 0 => active \in DOMAIN sessions
  BY <1>2
<1>5. ASSUME UNCHANGED active,
             \/ sessions' = sessions
             \/ \E i \in DOMAIN sessions : \E s : s.disposed = sessions[i].disposed /\ sessions' = [sessions EXCEPT ![i] = s]
      PROVE  ActiveLives'
  BY <1>2, <1>4, <1>5 DEF ActiveLives
<1>6. ASSUME NEW c \in Calls, Message(c)  PROVE ActiveLives'
  <2>1. active \in DOMAIN sessions /\ sessions[active] \in Session(S)
    BY <1>3, <1>4, <1>6 DEF Message
  <2>2. Prompted(active).disposed = sessions[active].disposed
    BY <2>1 DEF Prompted, Session
  <2> QED  BY <1>5, <1>6, <2>1, <2>2 DEF Message
<1>7. ASSUME NEW i \in DOMAIN sessions, NEW kind \in {"agent_end", "error"}, Settle(i, kind)  PROVE ActiveLives'
  <2> DEFINE s == [sessions[i] EXCEPT !.busy = FALSE, !.running = @ - 1]
  <2>1. s.disposed = sessions[i].disposed
    BY <1>3 DEF Session
  <2>2. sessions' = [sessions EXCEPT ![i] = s] /\ UNCHANGED active
    BY <1>7 DEF Settle
  <2> HIDE DEF s
  <2> QED  BY <1>5, <2>1, <2>2
<1>8. ASSUME NEW c \in Calls, TearDown(c) \/ DeleteFails(c)  PROVE ActiveLives'
  BY <1>5, <1>8 DEF TearDown, DeleteFails, ActiveLives
<1>9. ASSUME NEW c \in Calls, Bind(c)  PROVE ActiveLives'
  BY <1>2, <1>9 DEF Bind, ActiveLives
<1> QED
  BY <1>5, <1>6, <1>7, <1>8, <1>9
  DEF Next, Serve, Ask, Deliver, Drop, Stream, NewSession, Activate, Delete, BuildFails, vars

\* Every step leaves each listening tab somebody to wait for.
LEMMA StepAwaited ==
  ASSUME SessionsAssumption, Shape, PromptsInTurn, AbortsAreSwitches, Tidy, ActiveLives, Awaited, [Next]_vars
  PROVE  Awaited'
<1>1. PICK S : ShapedBy(S)
  BY DEF Shape
<1>2. /\ sessions \in Seq(Session(S)) /\ calls \in [Calls -> Call(S)]
      /\ tabs \in [Tabs -> Tab(S)] /\ inbox \in [Tabs -> Seq(Env(S))]
      /\ active \in 0 .. Len(sessions) /\ Len(sessions) \in Nat /\ faults \in Nat /\ NoFile \in S
  BY <1>1 DEF ShapedBy, Shape
<1> DEFINE OK(t) == \/ tabs[t].unheard
                    \/ Rests(inbox[t], tabs[t].busy)
                    \/ tabs[t].conn = "on" /\ (Asking(t) \/ Rebuilding \/ Running)
<1> SUFFICES ASSUME faults' = 0, NEW t \in Tabs  PROVE OK(t)'
  BY DEF Awaited
<1>3. faults' = faults \/ faults' = faults + 1
  BY DEF Next, Serve, Ask, Deliver, Drop, Stream, Message, NewSession, Activate, Delete, TearDown,
         Bind, DeleteFails, BuildFails, Settle, vars
<1>4. OK(t)
  BY <1>2, <1>3 DEF Awaited
<1>5. \A i \in DOMAIN sessions : sessions[i] \in Session(S)
  BY <1>2
\* A step that touches neither the tab nor its inbox has to keep what it waits for.
<1>6. ASSUME tabs'[t] = tabs[t], inbox'[t] = inbox[t],
             tabs[t].conn = "on" /\ (Asking(t) \/ Rebuilding \/ Running) => (Asking(t) \/ Rebuilding \/ Running)'
      PROVE  OK(t)'
  <2>1. CASE tabs[t].unheard
    BY <1>6, <2>1
  <2>2. CASE Rests(inbox[t], tabs[t].busy)
    <3>1. Rests(inbox'[t], tabs'[t].busy)
      BY <1>6, <2>2
    <3> QED  BY <3>1
  <2>3. CASE tabs[t].conn = "on" /\ (Asking(t) \/ Rebuilding \/ Running)
    BY <1>6, <2>3
  <2> QED  BY <1>4, <2>1, <2>2, <2>3
<1>7. UNCHANGED calls => (Asking(t)' <=> Asking(t)) /\ (Rebuilding' <=> Rebuilding)
  BY DEF Asking, Rebuilding
<1>8. UNCHANGED sessions => (Running' <=> Running)
  BY DEF Running
<1>9. ASSUME NEW c \in Calls, calls[c].step # "build" \/ calls[c].op = "stream",
             AbortsFirst(c) \/ Done(c) \/ \E f : Builds(c, f)
      PROVE  /\ Rebuilding => Rebuilding'
             /\ (calls[c].op # "send" \/ ~Done(c)) /\ Asking(t) => Asking(t)'
  <2>1. \A d \in Calls \ {c} : calls'[d] = calls[d]
    BY <1>2, <1>9 DEF AbortsFirst, Done, Builds
  <2>2. ~Done(c) => calls'[c].op = calls[c].op /\ calls'[c].tab = calls[c].tab
    BY <1>2, <1>9 DEF AbortsFirst, Builds, Call
  <2>3. Rebuilding => Rebuilding'
    BY <1>9, <2>1 DEF Rebuilding
  <2>4. (calls[c].op # "send" \/ ~Done(c)) /\ Asking(t) => Asking(t)'
    BY <2>1, <2>2 DEF Asking
  <2> QED  BY <2>3, <2>4
\* A tab that does not listen is quiet, or was not heard.
<1>10. tabs[t].conn # "on" => tabs[t].unheard \/ ~tabs[t].busy
  BY <1>4 DEF Tidy, DeafTabs, Rests, Turns
<1>11. ASSUME NEW f, Ready(t, f), tabs[t].conn # "on"
       PROVE  OK(t)'
  <2>1. tabs'[t].unheard = tabs[t].unheard /\ tabs'[t].busy = tabs[t].busy
    BY <1>2, <1>11 DEF Ready, Tab
  <2> DEFINE q == <<Envelope("ready", f)>>
  <2>2. DOMAIN q = {1} /\ q[1].kind = "ready" /\ inbox'[t] = q
    BY <1>2, <1>11 DEF Ready, Envelope
  <2> HIDE DEF q
  <2>3. ~tabs[t].busy => Rests(inbox'[t], tabs'[t].busy)
    BY <2>1, <2>2 DEF Rests, Turns
  <2> QED  BY <1>10, <1>11, <2>1, <2>3
<1>12. \A u, f : Ready(u, f) /\ u # t => tabs'[t] = tabs[t] /\ inbox'[t] = inbox[t]
  BY <1>2 DEF Ready
<1>13. ASSUME NEW c \in Calls, NEW u \in Tabs, NEW op \in Ops, NEW f \in Files \cup {NoFile}, Ask(c, u, op, f)
       PROVE  OK(t)'
  <2>1. /\ \A d \in Calls \ {c} : calls'[d] = calls[d]
        /\ calls'[c].op = op /\ calls'[c].tab = u
        /\ calls[c].op = "none" /\ calls[c].step = "free"
    BY <1>2, <1>13 DEF Ask, Tidy, FreeCalls
  <2>2. (Asking(t) => Asking(t)') /\ (Rebuilding => Rebuilding') /\ (Running => Running')
    BY <1>8, <1>13, <2>1 DEF Asking, Rebuilding, Ask
  <2>3. inbox' = inbox
    BY <1>13 DEF Ask
  <2>4. CASE u # t \/ op \notin {"send", "stream"}
    <3>1. tabs'[t] = tabs[t]
      BY <1>2, <1>13, <2>4 DEF Ask
    <3> QED  BY <1>6, <2>2, <2>3, <3>1
  <2>5. CASE u = t /\ op = "send"
    <3>1. tabs'[t].conn = tabs[t].conn /\ (tabs[t].conn # "on" => tabs'[t].unheard)
      BY <1>2, <1>13, <2>5 DEF Ask, Tab
    <3>2. Asking(t)'
      BY <2>1, <2>5 DEF Asking
    <3> QED  BY <3>1, <3>2
  <2>6. CASE u = t /\ op = "stream"
    <3>1. tabs[t].conn = "off" /\ tabs'[t].unheard = tabs[t].unheard /\ tabs'[t].busy = tabs[t].busy
      BY <1>2, <1>13, <2>6 DEF Ask, MayAsk, Tab
    <3>2. ~tabs[t].busy => Rests(inbox'[t], tabs'[t].busy)
      BY <2>3, <3>1 DEF Tidy, DeafTabs, Rests, Turns
    <3> QED  BY <1>10, <3>1, <3>2
  <2> QED  BY <2>4, <2>5, <2>6
<1>14. ASSUME NEW u \in Tabs, Deliver(u)
       PROVE  OK(t)'
  <2>1. UNCHANGED <<calls, sessions>>
    BY <1>14 DEF Deliver
  <2>2. CASE u # t
    <3>1. tabs'[t] = tabs[t] /\ inbox'[t] = inbox[t]
      BY <1>2, <1>14, <2>2 DEF Deliver
    <3> QED  BY <1>6, <1>7, <1>8, <2>1, <3>1
  <2>3. CASE u = t
    <3>1. /\ inbox[t] \in Seq(Env(S)) /\ inbox[t] # <<>> /\ inbox'[t] = Tail(inbox[t])
          /\ Head(inbox[t]) \in Env(S) /\ tabs[t] \in Tab(S)
      BY <1>2, <1>14, <2>3 DEF Deliver
    <3>2. Head(inbox[t]).kind \in {"ready", "session_switched", "agent_start", "agent_end", "error"}
      BY <3>1 DEF Env
    <3>3. /\ tabs'[t].conn = tabs[t].conn /\ tabs'[t].unheard = tabs[t].unheard
          /\ tabs'[t].busy \in BOOLEAN /\ tabs[t].busy \in BOOLEAN
          /\ Head(inbox[t]).kind = "ready" => tabs'[t].busy = tabs[t].busy
          /\ Head(inbox[t]).kind \notin {"ready", "agent_start"} => ~tabs'[t].busy
      BY <1>2, <1>14, <2>3, <3>1, <3>2 DEF Deliver, Tab
    <3>4. Rests(inbox[t], tabs[t].busy) => Rests(inbox'[t], tabs'[t].busy)
      <4> SUFFICES ASSUME Rests(inbox[t], tabs[t].busy)  PROVE Rests(inbox'[t], tabs'[t].busy)
        OBVIOUS
      <4>1. PICK q, b, a : q = inbox[t] /\ b = tabs[t].busy /\ a = tabs'[t].busy
        OBVIOUS
      <4>2. Rests(Tail(q), a)
        BY <3>1, <3>3, <4>1, RestsAfterDelivery
      <4> QED  BY <3>1, <4>1, <4>2
    <3> QED  BY <1>4, <1>7, <1>8, <2>1, <3>3, <3>4
  <2> QED  BY <2>2, <2>3
<1>15. ASSUME NEW u \in Tabs, Drop(u)  PROVE FALSE
  BY <1>2, <1>15 DEF Drop
<1>16. ASSUME NEW c \in Calls, DeleteFails(c) \/ BuildFails(c)  PROVE FALSE
  BY <1>2, <1>16 DEF DeleteFails, BuildFails
<1>17. ASSUME NEW c \in Calls, Stream(c)
       PROVE  OK(t)'
  <2>1. calls[c].op = "stream" /\ UNCHANGED sessions /\ tabs[calls[c].tab].conn # "on"
    BY <1>17 DEF Stream, Tidy, StreamsOpen
  <2>2. Asking(t) \/ Rebuilding \/ Running => (Asking(t) \/ Rebuilding \/ Running)'
    BY <1>8, <1>9, <1>17, <2>1 DEF Stream
  <2>3. CASE active # 0 /\ calls[c].tab = t
    BY <1>11, <1>17, <2>1, <2>3 DEF Stream
  <2>4. CASE active = 0 \/ calls[c].tab # t
    <3>1. tabs'[t] = tabs[t] /\ inbox'[t] = inbox[t]
      BY <1>12, <1>17, <2>4 DEF Stream
    <3> QED  BY <1>6, <2>2, <3>1
  <2> QED  BY <2>3, <2>4
<1>18. ASSUME NEW c \in Calls, Message(c)
       PROVE  OK(t)'
  <2>1. active \in DOMAIN sessions /\ sessions[active] \in Session(S) /\ ~sessions[active].disposed
    BY <1>2, <1>5, <1>18 DEF Message, ActiveLives
  <2>2. Prompted(active).running > 0 /\ ~Prompted(active).disposed
    <3>1. sessions[active].running \in Nat /\ sessions[active].busy \in BOOLEAN
      BY <2>1 DEF Session
    <3>2. sessions[active].busy => sessions[active].running = 1
      BY <2>1 DEF PromptsInTurn, InTurn
    <3> QED  BY <2>1, <3>1, <3>2 DEF Prompted, Session
  <2>3. sessions'[active] = Prompted(active) /\ active \in DOMAIN sessions'
    BY <1>2, <1>18, <2>1 DEF Message
  <2>4. Running'
    BY <2>2, <2>3 DEF Running
  <2>5. /\ tabs'[t].conn = tabs[t].conn /\ tabs'[t].unheard = tabs[t].unheard
        /\ ~tabs[t].busy => ~tabs'[t].busy
    <3>1. tabs' = [tabs EXCEPT ![calls[c].tab].busy = FALSE] \/ UNCHANGED tabs
      BY <1>18 DEF Message
    <3>2. tabs'[t] = tabs[t] \/ tabs'[t] = [tabs[t] EXCEPT !.busy = FALSE]
      BY <1>2, <3>1
    <3>3. tabs[t] \in Tab(S)
      BY <1>2
    <3> QED  BY <3>2, <3>3 DEF Tab
  <2>6. CASE tabs[t].conn = "on"
    BY <2>4, <2>5, <2>6
  <2>7. CASE tabs[t].conn # "on"
    <3>1. inbox'[t] = <<>>
      BY <1>2, <1>18, <2>7 DEF Message, Sent, Listeners, Tidy, DeafTabs
    <3>2. ~tabs[t].busy => Rests(inbox'[t], tabs'[t].busy)
      BY <2>5, <3>1 DEF Rests, Turns
    <3> QED  BY <1>10, <2>5, <2>7, <3>2
  <2> QED  BY <2>6, <2>7
<1>19. ASSUME NEW c \in Calls, NewSession(c) \/ Activate(c) \/ Delete(c)
       PROVE  OK(t)'
  <2>1. UNCHANGED <<tabs, inbox, sessions>>
    BY <1>19 DEF NewSession, Activate, Delete
  <2>2. calls[c].step = "post" /\ (AbortsFirst(c) \/ Done(c) \/ \E f : Builds(c, f))
    BY <1>19 DEF NewSession, Activate, Delete
  <2>3. calls[c].op = "send" => ~Done(c)
    <3>1. calls[c].op = "send" => AbortsFirst(c) \/ \E f : Builds(c, f)
      BY <1>19 DEF NewSession, Activate, Delete
    <3>2. AbortsFirst(c) \/ (\E f : Builds(c, f)) => calls'[c].step # "free"
      BY <1>2 DEF AbortsFirst, Builds, Call
    <3>3. Done(c) => calls'[c].step = "free"
      BY <1>2 DEF Done, Free
    <3> QED  BY <3>1, <3>2, <3>3
  <2>4. Asking(t) \/ Rebuilding \/ Running => (Asking(t) \/ Rebuilding \/ Running)'
    BY <1>8, <1>9, <2>1, <2>2, <2>3
  <2> QED  BY <1>6, <2>1, <2>4
<1>20. ASSUME NEW c \in Calls, TearDown(c)
       PROVE  OK(t)'
  <2>1. calls[c].op # "stream" /\ UNCHANGED <<tabs, inbox>>
    BY <1>20 DEF TearDown, AbortsAreSwitches
  <2>2. calls'[c].step = "build" /\ calls'[c].op = calls[c].op
    BY <1>2, <1>20 DEF TearDown, Builds, Call
  <2>3. Rebuilding'
    BY <2>1, <2>2 DEF Rebuilding
  <2> QED  BY <1>6, <2>1, <2>3
<1>21. ASSUME NEW c \in Calls, Bind(c)
       PROVE  OK(t)'
  <2> DEFINE f == calls[c].file
             sends == calls[c].op = "send"
             s == [file |-> f, disposed |-> FALSE, busy |-> sends, running |-> IF sends THEN 1 ELSE 0]
  <2>1. sessions' = Append(sessions, s) /\ Done(c)
    BY <1>21 DEF Bind
  <2>2. ~s.disposed /\ (sends => s.running = 1)
    OBVIOUS
  <2>3. f \in S
    BY <1>2 DEF Call
  <2> HIDE DEF s, f
  <2>4. /\ DOMAIN sessions \subseteq DOMAIN sessions' /\ \A i \in DOMAIN sessions : sessions'[i] = sessions[i]
        /\ Len(sessions) + 1 \in DOMAIN sessions' /\ sessions'[Len(sessions) + 1] = s
    BY <1>2, <2>1
  <2>5. (Running => Running') /\ (sends => Running')
    BY <2>2, <2>4 DEF Running
  <2>6. CASE calls[c].op = "stream"
    <3>1. Ready(calls[c].tab, f) /\ tabs[calls[c].tab].conn # "on"
      BY <1>21, <2>6 DEF Bind, Tidy, StreamsOpen, f
    <3>2. Asking(t) \/ Rebuilding \/ Running => (Asking(t) \/ Rebuilding \/ Running)'
      BY <1>9, <2>1, <2>5, <2>6
    <3>3. CASE calls[c].tab = t
      BY <1>11, <3>1, <3>3
    <3>4. CASE calls[c].tab # t
      BY <1>6, <1>12, <3>1, <3>2, <3>4
    <3> QED  BY <3>3, <3>4
  <2>7. CASE calls[c].op # "stream" /\ tabs[t].conn # "on"
    <3>1. tabs'[t] = tabs[t] /\ inbox'[t] = inbox[t]
      BY <1>2, <1>21, <2>7 DEF Bind, Sent, Listeners
    <3> QED  BY <1>6, <2>7, <3>1
  <2>8. CASE calls[c].op # "stream" /\ tabs[t].conn = "on"
    <3>1. UNCHANGED tabs /\ inbox'[t] = inbox[t] \o Told(calls[c].op, f)
      BY <1>2, <1>21, <2>8 DEF Bind, Sent, Listeners, f
    <3>2. CASE sends
      BY <2>5, <2>8, <3>1, <3>2
    <3>3. CASE ~sends
      <4>1. calls[c].op # "rebind"
        BY <1>2, <1>3 DEF AbortsAreSwitches
      <4>1a. Told(calls[c].op, f) = <<Envelope("session_switched", f)>>
        BY <3>3, <4>1 DEF Told
      <4>2. Envelope("session_switched", f) \in Env(S) /\ Envelope("session_switched", f).kind = "session_switched"
        BY <2>3 DEF Envelope, Env
      <4>3. inbox[t] \in Seq(Env(S))
        BY <1>2
      <4>4. Rests(inbox[t] \o <<Envelope("session_switched", f)>>, tabs[t].busy)
        BY <4>2, <4>3, RestsAfterNews
      <4> QED  BY <3>1, <4>1a, <4>4
    <3> QED  BY <3>2, <3>3
  <2> QED  BY <2>6, <2>7, <2>8
<1>22. ASSUME NEW i \in DOMAIN sessions, NEW kind \in {"agent_end", "error"}, Settle(i, kind)
       PROVE  OK(t)'
  <2>1. UNCHANGED <<tabs, calls>>
    BY <1>22 DEF Settle
  <2>2. CASE Heard(i, kind) /\ tabs[t].conn = "on"
    <3>1. inbox'[t] = inbox[t] \o <<Envelope(kind, NoFile)>>
      BY <1>2, <1>22, <2>2 DEF Settle, Sent, Listeners
    <3>2. Envelope(kind, NoFile) \in Env(S) /\ Envelope(kind, NoFile).kind \notin {"ready", "agent_start"}
      BY <1>2 DEF Envelope, Env
    <3>3. inbox[t] \in Seq(Env(S))
      BY <1>2
    <3>4. Rests(inbox[t] \o <<Envelope(kind, NoFile)>>, tabs[t].busy)
      BY <3>2, <3>3, RestsAfterNews
    <3> QED  BY <2>1, <3>1, <3>4
  <2>3. CASE tabs[t].conn # "on"
    <3>1. inbox'[t] = inbox[t]
      BY <1>2, <1>22, <2>3 DEF Settle, Sent, Listeners
    <3> QED  BY <1>6, <2>1, <2>3, <3>1
  <2>4. CASE ~Heard(i, kind) /\ tabs[t].conn = "on"
    <3>1. inbox' = inbox /\ sessions[i].disposed
      BY <1>22, <2>4 DEF Settle, Heard
    <3>2. \A j \in DOMAIN sessions : j # i => j \in DOMAIN sessions' /\ sessions'[j] = sessions[j]
      BY <1>2, <1>22 DEF Settle
    <3>3. Running => Running'
      BY <3>1, <3>2 DEF Running
    <3> QED  BY <1>6, <1>7, <2>1, <3>1, <3>3
  <2> QED  BY <2>2, <2>3, <2>4
<1>23. CASE UNCHANGED vars
  BY <1>6, <1>7, <1>8, <1>23 DEF vars
<1> QED
  BY <1>13, <1>14, <1>15, <1>16, <1>17, <1>18, <1>19, <1>20, <1>21, <1>22, <1>23 DEF Next, Serve

---------------------------------------------------------------------------
(* Theorems.                                                               *)

IInv == Shape /\ PromptsInTurn /\ AbortsAreSwitches /\ ToldLast /\ Tidy /\ ActiveLives /\ Awaited

LEMMA InitInv == Init /\ SessionsAssumption => IInv
<1> SUFFICES ASSUME Init, SessionsAssumption  PROVE IInv
  OBVIOUS
<1>1. Tidy
  BY DEF Tidy, StreamsOpen, DeafTabs, FreeCalls, Init, Free
<1>2. ActiveLives
  BY DEF ActiveLives, Init
<1>3. Awaited
  <2>1. \A t \in Tabs : inbox[t] = <<>> /\ ~tabs[t].busy
    BY DEF Init
  <2>2. Turns(<<>>) = {}
    BY DEF Turns
  <2> QED  BY <2>1, <2>2 DEF Awaited, Rests
<1> QED  BY <1>1, <1>2, <1>3, InitShape DEF IInv

LEMMA Inductive == Spec /\ SessionsAssumption => []IInv
<1>1. IInv /\ SessionsAssumption /\ [Next]_vars => IInv'
  BY StepShape, StepTurns, StepAborts, StepToldLast, StepTidy, StepLives, StepAwaited DEF IInv
<1> QED  BY <1>1, InitInv, SessionsAssumption, PTL DEF Spec

\* At rest every tab that listens shows the session its messages go to, for any number of tabs and
\* requests, unless two first connects overlapped, a connection was lost or a build failed.
THEOREM TabsFollowTheServer == Spec => []ShownIsActive
<1>1. IInv => ShownIsActive
  <2> SUFFICES ASSUME IInv, AtRest, ~overwritten, faults = 0, NEW t \in Listeners
               PROVE  active # 0 /\ tabs[t].shown = sessions[active].file
    BY DEF ShownIsActive
  <2>1. t \in Tabs /\ inbox[t] = <<>>
    BY DEF AtRest, Listeners
  <2>2. ~Rebuilding
    BY DEF AtRest, Rebuilding, Free
  <2>3. OnActive(t)
    BY <2>2 DEF IInv, ToldLast
  <2>4. Switches(inbox[t]) = {}
    BY <2>1 DEF Switches
  <2> QED  BY <2>3, <2>4 DEF OnActive, EndsOn
<1> QED  BY <1>1, Inductive, SessionsAssumption, PTL

\* Once all is delivered and no prompt runs, no tab that was heard is left with its idle indicator on,
\* for any number of tabs, sends, switches and deletions, unless a connection was lost or a build failed
\* (handleEnvelope of AgentChatPanel.tsx, tearDown and runPrompt of agentSessions.ts).
THEOREM NoTabStaysBusy == Spec => []BusyEnds
<1>1. IInv => BusyEnds
  <2> SUFFICES ASSUME IInv, AtRest, \A i \in DOMAIN sessions : sessions[i].running = 0, faults = 0,
                      NEW t \in Tabs, tabs[t].busy
               PROVE  tabs[t].unheard
    BY DEF BusyEnds
  <2>1. inbox[t] = <<>> /\ \A c \in Calls : calls[c] = Free
    BY DEF AtRest
  <2>2. ~Asking(t) /\ ~Rebuilding /\ ~Running
    BY <2>1 DEF Asking, Rebuilding, Running, Free
  <2>3. ~Rests(inbox[t], tabs[t].busy)
    BY <2>1 DEF Rests, Turns
  <2> QED  BY <2>2, <2>3 DEF IInv, Awaited
<1> QED  BY <1>1, Inductive, SessionsAssumption, PTL

---------------------------------------------------------------------------
(* A file for every session.  The types hold only because the choice of a  *)
(* file for a new session finds one: every session built and every request *)
(* under way was asked for, so a request that comes to choose leaves a     *)
(* file of the bound unused.                                               *)

UnderWay == {c \in Calls : calls[c].step # "free"}
Built == {sessions[i].file : i \in DOMAIN sessions}
Distinct(q) == \A i, j \in DOMAIN q : q[i] = q[j] => i = j
Elements(q) == {q[i] : i \in DOMAIN q}

Counted == IsFiniteSet(UnderWay) /\ Len(sessions) + Cardinality(UnderWay) <= asks

\* The file that a request holds: before its session is built one that is there already, if any.
HoldsFile(c) ==
    /\ calls[c].step = "free" => calls[c].file = NoFile
    /\ calls[c].step \in {"post", "abort"} => calls[c].file \in Built \cup {NoFile}
    /\ calls[c].step \in {"post", "abort"} /\ calls[c].op \in {"activate", "delete"} => calls[c].file \in Built
    /\ calls[c].step = "build" => calls[c].file \in Files
    /\ calls[c].prev <= Len(sessions)

OnFiles(q) == q \in Seq(Files) /\ Distinct(q) /\ Elements(q) \subseteq Built

TypeInv ==
    /\ ShapedBy(Files \cup {NoFile})
    /\ Counted
    /\ Built \subseteq Files /\ OnFiles(disk) /\ \A c \in Calls : HoldsFile(c)
    /\ asks \in 0 .. MaxAsks /\ faults \in 0 .. MaxFaults

LEMMA NatHasLeast ==
  ASSUME NEW S \in SUBSET Nat, S # {}
  PROVE  \E x \in S : \A y \in S : x <= y
<1>1. PICK x \in S : \A y \in S : ~ (<<y, x>> \in OpToRel(<, Nat))
  BY NatLessThanWellFounded, WFMin
<1>2. \A y \in S : ~ (y < x)
  BY <1>1 DEF OpToRel
<1> QED  BY <1>2

\* The directory without a file, and with a file moved to its end.
LEMMA WithoutFile ==
  ASSUME disk \in Seq(Files), Distinct(disk), NEW f
  PROVE  /\ Without(f) \in Seq(Files) /\ Distinct(Without(f))
         /\ Elements(Without(f)) \subseteq OnDisk \ {f}
<1>1. CASE f \notin OnDisk
  BY <1>1 DEF Without, OnDisk, Elements
<1>2. CASE f \in OnDisk
  <2>1. PICK i \in DOMAIN disk : /\ disk[i] = f
                                 /\ Without(f) = SubSeq(disk, 1, i - 1) \o SubSeq(disk, i + 1, Len(disk))
    <3>1. \E j \in DOMAIN disk : disk[j] = f
      BY <1>2 DEF OnDisk
    <3>2. (CHOOSE j \in DOMAIN disk : disk[j] = f) \in DOMAIN disk
          /\ disk[CHOOSE j \in DOMAIN disk : disk[j] = f] = f
      BY <3>1
    <3> QED  BY <1>2, <3>2 DEF Without
  <2>2. Len(disk) \in Nat /\ DOMAIN disk = 1 .. Len(disk) /\ i \in 1 .. Len(disk)
    OBVIOUS
  <2> DEFINE p == SubSeq(disk, 1, i - 1)
             r == SubSeq(disk, i + 1, Len(disk))
             q == p \o r
  <2>3. /\ p \in Seq(Files) /\ Len(p) = i - 1 /\ \A j \in 1 .. (i - 1) : p[j] = disk[j]
    BY <2>2
  <2>4. /\ r \in Seq(Files) /\ Len(r) = Len(disk) - i /\ \A j \in 1 .. (Len(disk) - i) : r[j] = disk[j + i]
    BY <2>2
  <2> HIDE DEF p, r
  <2>5. /\ q \in Seq(Files) /\ Len(q) = Len(disk) - 1
        /\ \A j \in 1 .. Len(q) : q[j] = IF j < i THEN disk[j] ELSE disk[j + 1]
    <3>1. q \in Seq(Files) /\ Len(q) = Len(p) + Len(r)
      BY <2>3, <2>4
    <3>2. Len(q) = Len(disk) - 1
      BY <2>2, <2>3, <2>4, <3>1
    <3>3. ASSUME NEW j \in 1 .. Len(q), j < i  PROVE q[j] = disk[j]
      <4>1. j \in 1 .. Len(p)
        BY <2>2, <2>3, <3>3
      <4> QED  BY <2>3, <2>4, <4>1
    <3>4. ASSUME NEW j \in 1 .. Len(q), ~(j < i)  PROVE q[j] = disk[j + 1]
      <4>1. j - Len(p) \in 1 .. Len(r) /\ (j - Len(p)) + i = j + 1
        BY <2>2, <2>3, <2>4, <3>2, <3>4
      <4>2. q[j] = r[j - Len(p)]
        <5>1. \A a, b \in Seq(Files) : \A k \in 1 .. Len(b) : (a \o b)[k + Len(a)] = b[k]
          OBVIOUS
        <5>2. j = (j - Len(p)) + Len(p)
          BY <2>2, <2>3
        <5>3. (p \o r)[(j - Len(p)) + Len(p)] = r[j - Len(p)]
          BY <2>3, <2>4, <4>1, <5>1
        <5> QED  BY <5>2, <5>3
      <4> QED  BY <2>4, <4>1, <4>2
    <3> QED  BY <3>1, <3>2, <3>3, <3>4
  <2> HIDE DEF q
  <2> DEFINE at(j) == IF j < i THEN j ELSE j + 1
  <2>6. \A j \in 1 .. Len(q) : at(j) \in DOMAIN disk /\ at(j) # i /\ q[j] = disk[at(j)]
    BY <2>2, <2>5
  <2>7. \A j, k \in 1 .. Len(q) : at(j) = at(k) => j = k
    BY <2>2, <2>5
  <2> HIDE DEF at
  <2>8. DOMAIN q = 1 .. Len(q)
    BY <2>5
  <2>9. Distinct(q)
    BY <2>6, <2>7, <2>8 DEF Distinct
  <2>10. Elements(q) \subseteq OnDisk \ {f}
    BY <2>1, <2>6, <2>8 DEF Elements, Distinct, OnDisk
  <2> QED  BY <2>1, <2>5, <2>9, <2>10 DEF q, p, r
<1> QED  BY <1>1, <1>2

LEMMA TouchedFile ==
  ASSUME disk \in Seq(Files), Distinct(disk), NEW f \in Files
  PROVE  /\ Append(Without(f), f) \in Seq(Files) /\ Distinct(Append(Without(f), f))
         /\ Elements(Append(Without(f), f)) \subseteq OnDisk \cup {f}
<1> DEFINE w == Without(f)
           q == Append(w, f)
<1>1. w \in Seq(Files) /\ Distinct(w) /\ Elements(w) \subseteq OnDisk \ {f}
  BY WithoutFile
<1> HIDE DEF w
<1>2. /\ q \in Seq(Files) /\ DOMAIN q = 1 .. (Len(w) + 1) /\ q[Len(w) + 1] = f /\ Len(w) \in Nat
      /\ DOMAIN w = 1 .. Len(w) /\ \A j \in DOMAIN w : q[j] = w[j]
  BY <1>1
<1> HIDE DEF q
<1>3. \A j \in DOMAIN q : j = Len(w) + 1 \/ (j \in DOMAIN w /\ q[j] \in OnDisk \ {f})
  BY <1>1, <1>2 DEF Elements
<1>4. Distinct(q)
  BY <1>1, <1>2, <1>3 DEF Distinct
<1>5. Elements(q) \subseteq OnDisk \cup {f}
  BY <1>2, <1>3 DEF Elements
<1> QED  BY <1>2, <1>4, <1>5 DEF q, w

\* A request that comes to choose a file finds one that nobody uses.
LEMMA FreshIsFile ==
  ASSUME SessionsAssumption, TypeInv, NEW c \in Calls, calls[c].step \in {"post", "abort"}
  PROVE  Fresh \in Files
<1> DEFINE Held == {calls[d].file : d \in UnderWay \ {c}}
           used == Built \cup Held
<1>1. Len(sessions) \in Nat /\ DOMAIN sessions = 1 .. Len(sessions) /\ MaxAsks \in Nat /\ asks <= MaxAsks
  BY DEF TypeInv, ShapedBy, SessionsAssumption
<1>2. IsFiniteSet(Built) /\ Cardinality(Built) <= Len(sessions)
  <2>1. IsFiniteSet(1 .. Len(sessions)) /\ Cardinality(1 .. Len(sessions)) = Len(sessions)
    <3>1. \A n \in Nat : IsFiniteSet(1 .. n) /\ Cardinality(1 .. n) = n
      BY FS_Interval
    <3> QED  BY <1>1, <3>1
  <2> DEFINE g == [i \in 1 .. Len(sessions) |-> sessions[i].file]
  <2>2. g \in Surjection(1 .. Len(sessions), Built)
    BY <1>1 DEF Surjection, Built
  <2> QED  BY <2>1, <2>2, FS_Surjection
<1>3. IsFiniteSet(Held) /\ Cardinality(Held) <= Cardinality(UnderWay) - 1
  <2>1. c \in UnderWay /\ IsFiniteSet(UnderWay)
    BY DEF UnderWay, TypeInv, Counted
  <2>2. IsFiniteSet(UnderWay \ {c}) /\ Cardinality(UnderWay \ {c}) = Cardinality(UnderWay) - 1
    BY <2>1, FS_RemoveElement
  <2> DEFINE g == [d \in UnderWay \ {c} |-> calls[d].file]
  <2>3. g \in Surjection(UnderWay \ {c}, Held)
    BY DEF Surjection
  <2> QED  BY <2>2, <2>3, FS_Surjection
<1>4. Cardinality(Built) \in Nat /\ Cardinality(Held) \in Nat /\ Cardinality(UnderWay) \in Nat
      /\ Cardinality(Built \cap Held) \in Nat
  <2>1. IsFiniteSet(Built \cap Held)
    BY <1>2, FS_Subset
  <2> QED  BY <1>2, <1>3, <2>1, FS_CardinalityType DEF TypeInv, Counted
<1> HIDE DEF Held
<1>5. IsFiniteSet(used) /\ Cardinality(used) < MaxAsks
  <2>1. IsFiniteSet(used) /\ Cardinality(used) = Cardinality(Built) + Cardinality(Held) - Cardinality(Built \cap Held)
    BY <1>2, <1>3, FS_Union
  <2>2. Len(sessions) + Cardinality(UnderWay) <= asks /\ asks \in Nat
    BY DEF TypeInv, Counted
  <2> QED  BY <1>1, <1>2, <1>3, <1>4, <2>1, <2>2
<1>6. InUse \subseteq used \cup {NoFile}
  <2>1. OnDisk \subseteq Built
    BY DEF TypeInv, OnFiles, Elements, OnDisk
  <2>2. ASSUME NEW d \in Calls  PROVE calls[d].file \in used \cup {NoFile}
    <3>1. CASE d = c
      BY <3>1 DEF TypeInv, HoldsFile
    <3>2. CASE d # c /\ calls[d].step = "free"
      BY <3>2 DEF TypeInv, HoldsFile
    <3>3. CASE d # c /\ calls[d].step # "free"
      BY <3>3 DEF Held, UnderWay
    <3> QED  BY <3>1, <3>2, <3>3
  <2> QED  BY <2>1, <2>2 DEF InUse, Built
<1> HIDE DEF used
<1>7. PICK f \in Files : f \notin InUse
  <2> SUFFICES ASSUME Files \subseteq InUse  PROVE FALSE
    OBVIOUS
  <2>1. Files \subseteq used
    BY <1>6, <1>1 DEF Files, NoFile
  <2>2. Cardinality(Files) <= Cardinality(used)
    BY <1>5, <2>1, FS_Subset
  <2>3. Cardinality(Files) = MaxAsks
    BY <1>1, FS_Interval DEF Files
  <2>4. Cardinality(used) \in Nat
    BY <1>5, FS_CardinalityType
  <2> QED  BY <1>1, <1>5, <2>2, <2>3, <2>4
<1>8. \E g \in Files \ InUse : \A h \in Files \ InUse : g <= h
  <2>1. Files \ InUse \subseteq Nat /\ Files \ InUse # {}
    BY <1>7 DEF Files
  <2> QED  BY <2>1, NatHasLeast
<1> QED  BY <1>8 DEF Fresh

\* Sessions keep their files, and there are never fewer of them; a new one has the file of the request that
\* was building.
Building == {c \in Calls : calls[c].step = "build"}

LEMMA SessionsStay ==
  ASSUME Shape, [Next]_vars
  PROVE  /\ Built \subseteq Built' /\ Len(sessions) <= Len(sessions')
         /\ Built' \subseteq Built \cup {calls[c].file : c \in Building}
<1> DEFINE Grows == /\ Built \subseteq Built' /\ Len(sessions) <= Len(sessions')
                    /\ Built' \subseteq Built \cup {calls[c].file : c \in Building}
<1>1. PICK S : ShapedBy(S)
  BY DEF Shape
<1>2. sessions \in Seq(Session(S)) /\ Len(sessions) \in Nat /\ DOMAIN sessions = 1 .. Len(sessions)
  BY <1>1 DEF ShapedBy
<1>3. CASE UNCHANGED sessions
  BY <1>2, <1>3 DEF Built
<1>4. ASSUME NEW j, NEW s, j \in DOMAIN sessions => s.file = sessions[j].file,
             sessions' = [sessions EXCEPT ![j] = s]
      PROVE  Grows
  <2>1. DOMAIN sessions' = DOMAIN sessions /\ Len(sessions') = Len(sessions)
    BY <1>2, <1>4
  <2>2. \A i \in DOMAIN sessions : sessions'[i].file = sessions[i].file
    BY <1>2, <1>4
  <2> QED  BY <1>2, <2>1, <2>2 DEF Built
<1>5. ASSUME NEW c \in Calls, Message(c)
      PROVE  Grows
  <2>1. active \in DOMAIN sessions => Prompted(active).file = sessions[active].file
    <3> SUFFICES ASSUME active \in DOMAIN sessions  PROVE Prompted(active).file = sessions[active].file
      OBVIOUS
    <3>1. sessions[active] \in Session(S)
      BY <1>2
    <3> QED  BY <3>1 DEF Prompted, Session
  <2> QED  BY <1>4, <1>5, <2>1 DEF Message
<1>6. ASSUME NEW c \in Calls, TearDown(c) \/ DeleteFails(c)
      PROVE  Grows
  <2> DEFINE s == [sessions[calls[c].prev] EXCEPT !.disposed = TRUE]
  <2>1. calls[c].prev \in DOMAIN sessions => s.file = sessions[calls[c].prev].file
    <3> SUFFICES ASSUME calls[c].prev \in DOMAIN sessions  PROVE s.file = sessions[calls[c].prev].file
      OBVIOUS
    <3>1. sessions[calls[c].prev] \in Session(S)
      BY <1>2
    <3> QED  BY <3>1 DEF Session
  <2>2. UNCHANGED sessions \/ sessions' = [sessions EXCEPT ![calls[c].prev] = s]
    BY <1>6 DEF TearDown, DeleteFails
  <2> HIDE DEF s
  <2> QED  BY <1>3, <1>4, <2>1, <2>2
<1>7. ASSUME NEW c \in Calls, Bind(c)
      PROVE  Grows
  <2>1. PICK s : sessions' = Append(sessions, s) /\ s.file = calls[c].file
    BY <1>7 DEF Bind
  <2>2. Len(sessions') = Len(sessions) + 1 /\ DOMAIN sessions' = 1 .. (Len(sessions) + 1)
    BY <1>2, <2>1
  <2>3. /\ \A i \in DOMAIN sessions : i \in DOMAIN sessions' /\ sessions'[i] = sessions[i]
        /\ sessions'[Len(sessions) + 1] = s
    BY <1>2, <2>1, <2>2
  <2>4. \A i \in DOMAIN sessions' : i \in DOMAIN sessions \/ i = Len(sessions) + 1
    BY <1>2, <2>2
  <2>5. c \in Building
    BY <1>7 DEF Bind, Building
  <2> QED  BY <1>2, <2>1, <2>2, <2>3, <2>4, <2>5 DEF Built
<1>8. ASSUME NEW j \in DOMAIN sessions, NEW kind, Settle(j, kind)
      PROVE  Grows
  <2> DEFINE s == [sessions[j] EXCEPT !.busy = FALSE, !.running = @ - 1]
  <2>1. s.file = sessions[j].file
    <3>1. sessions[j] \in Session(S)
      BY <1>2
    <3> QED  BY <3>1 DEF Session
  <2>2. sessions' = [sessions EXCEPT ![j] = s]
    BY <1>8 DEF Settle
  <2> HIDE DEF s
  <2> QED  BY <1>4, <2>1, <2>2
<1>9. CASE UNCHANGED vars
  BY <1>3, <1>9 DEF vars
<1> QED
  BY <1>3, <1>5, <1>6, <1>7, <1>8, <1>9
  DEF Next, Serve, Ask, Deliver, Drop, Stream, NewSession, Activate, Delete, BuildFails

LEMMA RecentIsFile ==
  ASSUME SessionsAssumption, TypeInv, NEW c \in Calls, calls[c].step \in {"post", "abort"}, NEW q \in Seq(Files)
  PROVE  Recent(q) \in Files
<1>1. q # <<>> => q[Len(q)] \in Files
  OBVIOUS
<1> QED  BY <1>1, FreshIsFile DEF Recent

\* The directory only ever holds files of sessions, each once.
LEMMA StepDisk ==
  ASSUME SessionsAssumption, Shape, TypeInv, [Next]_vars
  PROVE  OnFiles(disk)' /\ Built' \subseteq Files
<1>1. /\ disk \in Seq(Files) /\ Distinct(disk) /\ Elements(disk) = OnDisk /\ OnDisk \subseteq Built
      /\ Built \subseteq Files
  BY DEF TypeInv, OnFiles, Elements, OnDisk
<1>2. Built \subseteq Built'
  BY SessionsStay
<1>3. Built' \subseteq Files
  <2>1. \A c \in Building : calls[c].file \in Files
    BY DEF Building, TypeInv, HoldsFile
  <2> QED  BY <1>1, <2>1, SessionsStay
<1>4. UNCHANGED disk => OnFiles(disk)'
  BY <1>1, <1>2 DEF OnFiles, Distinct, Elements
<1>5. \A f : disk' = Without(f) => OnFiles(disk)'
  <2> SUFFICES ASSUME NEW f, disk' = Without(f)  PROVE OnFiles(disk)'
    OBVIOUS
  <2>1. disk' \in Seq(Files) /\ Distinct(disk') /\ Elements(disk') \subseteq OnDisk
    BY <1>1, WithoutFile
  <2> QED  BY <1>1, <1>2, <2>1 DEF OnFiles, Distinct, Elements
<1>6. \A f \in Files \cap Built' : disk' = Append(Without(f), f) => OnFiles(disk)'
  <2> SUFFICES ASSUME NEW f \in Files \cap Built', disk' = Append(Without(f), f)  PROVE OnFiles(disk)'
    OBVIOUS
  <2>1. disk' \in Seq(Files) /\ Distinct(disk') /\ Elements(disk') \subseteq OnDisk \cup {f}
    BY <1>1, TouchedFile
  <2> QED  BY <1>1, <1>2, <2>1 DEF OnFiles, Distinct, Elements
<1>7. ASSUME NEW c \in Calls, Message(c)
      PROVE  OnFiles(disk)'
  <2>1. active \in DOMAIN sessions
    BY <1>7 DEF Message, Shape, ShapedBy
  <2>2. sessions[active].file \in Files \cap Built'
    BY <1>1, <1>2, <2>1 DEF Built
  <2> QED  BY <1>4, <1>6, <1>7, <2>2 DEF Message
<1>8. ASSUME NEW c \in Calls, Delete(c) \/ TearDown(c)
      PROVE  OnFiles(disk)'
  BY <1>4, <1>5, <1>8 DEF Delete, TearDown
<1>9. ASSUME NEW c \in Calls, Bind(c)
      PROVE  OnFiles(disk)'
  <2>1. PICK s : sessions' = Append(sessions, s) /\ s.file = calls[c].file
    BY <1>9 DEF Bind
  <2>2. sessions \in Seq(Session(Files \cup {NoFile}))
    BY DEF TypeInv, ShapedBy
  <2>3. Len(sessions) + 1 \in DOMAIN sessions' /\ sessions'[Len(sessions) + 1] = s
    BY <2>1, <2>2
  <2>4. calls[c].file \in Files \cap Built'
    BY <1>3, <2>1, <2>3 DEF Built
  <2> QED  BY <1>4, <1>6, <1>9, <2>4 DEF Bind
<1>10. ASSUME NEW c \in Calls, Stream(c) \/ NewSession(c) \/ Activate(c) \/ DeleteFails(c) \/ BuildFails(c)
       PROVE  OnFiles(disk)'
  BY <1>4, <1>10 DEF Stream, NewSession, Activate, DeleteFails, BuildFails
<1>11. ASSUME \/ \E c \in Calls, t \in Tabs, f \in Files \cup {NoFile}, op \in Ops : Ask(c, t, op, f)
              \/ \E t \in Tabs : Deliver(t) \/ Drop(t)
              \/ \E i \in DOMAIN sessions, kind \in {"agent_end", "error"} : Settle(i, kind)
              \/ UNCHANGED vars
       PROVE  OnFiles(disk)'
  <2>1. UNCHANGED disk
    BY <1>11 DEF Ask, Deliver, Drop, Settle, vars
  <2> QED  BY <1>4, <2>1
<1> QED
  BY <1>3, <1>7, <1>8, <1>9, <1>10, <1>11 DEF Next, Serve

\* A request holds a file of the bound by the time its session is built.
LEMMA StepHolds ==
  ASSUME SessionsAssumption, Shape, TypeInv, [Next]_vars
  PROVE  \A d \in Calls : HoldsFile(d)'
<1> DEFINE T == Files \cup {NoFile}
<1>1. /\ calls \in [Calls -> Call(T)] /\ \A c \in Calls : HoldsFile(c)
      /\ active \in 0 .. Len(sessions) /\ Len(sessions) \in Nat
      /\ disk' \in Seq(Files) /\ disk \in Seq(Files) /\ OnDisk \subseteq Built /\ Built \subseteq Files
  <2>1. sessions \in Seq(Session(T)) /\ calls \in [Calls -> Call(T)]
    BY DEF TypeInv, ShapedBy
  <2>2. active \in 0 .. Len(sessions) /\ Len(sessions) \in Nat
    BY <2>1 DEF Shape
  <2>3. disk' \in Seq(Files)
    BY StepDisk DEF OnFiles
  <2>4. disk \in Seq(Files) /\ OnDisk \subseteq Built /\ Built \subseteq Files /\ \A c \in Calls : HoldsFile(c)
    BY DEF TypeInv, OnFiles, Elements, OnDisk
  <2> QED  BY <2>1, <2>2, <2>3, <2>4
<1>2. Built \subseteq Built' /\ Len(sessions) <= Len(sessions') /\ Len(sessions') \in Nat
  <2>1. Len(sessions') \in Nat
    BY StepShape DEF Shape, ShapedBy
  <2> QED  BY <2>1, SessionsStay
<1> HIDE DEF T
<1>3. \A c \in Calls : calls[c] \in Call(T) /\ calls[c].prev \in Nat
  BY <1>1 DEF Call
<1>4. \A d \in Calls : calls'[d] = calls[d] => HoldsFile(d)'
  BY <1>1, <1>2, <1>3 DEF HoldsFile
<1>5. \A c \in Calls : Done(c) => \A d \in Calls : HoldsFile(d)'
  <2> SUFFICES ASSUME NEW c \in Calls, Done(c)  PROVE \A d \in Calls : HoldsFile(d)'
    OBVIOUS
  <2>1. calls'[c] = Free /\ \A d \in Calls \ {c} : calls'[d] = calls[d]
    BY <1>1 DEF Done
  <2>2. HoldsFile(c)'
    BY <1>2, <2>1 DEF HoldsFile, Free
  <2> QED  BY <1>4, <2>1, <2>2
<1>6. \A c \in Calls : calls[c].step = "post" /\ AbortsFirst(c) => \A d \in Calls : HoldsFile(d)'
  <2> SUFFICES ASSUME NEW c \in Calls, calls[c].step = "post", AbortsFirst(c)
               PROVE  \A d \in Calls : HoldsFile(d)'
    OBVIOUS
  <2>1. /\ calls'[c].step = "abort" /\ calls'[c].prev = active /\ calls'[c].file = calls[c].file
        /\ calls'[c].op = calls[c].op /\ \A d \in Calls \ {c} : calls'[d] = calls[d]
    BY <1>1, <1>3 DEF AbortsFirst, Call
  <2>2. HoldsFile(c)'
    BY <1>1, <1>2, <2>1 DEF HoldsFile
  <2> QED  BY <1>4, <2>1, <2>2
<1>7. \A c \in Calls, f \in Files : Builds(c, f) => \A d \in Calls : HoldsFile(d)'
  <2> SUFFICES ASSUME NEW c \in Calls, NEW f \in Files, Builds(c, f)
               PROVE  \A d \in Calls : HoldsFile(d)'
    OBVIOUS
  <2>1. /\ calls'[c].step = "build" /\ calls'[c].file = f /\ calls'[c].prev = calls[c].prev
        /\ \A d \in Calls \ {c} : calls'[d] = calls[d]
    BY <1>1, <1>3 DEF Builds, Call
  <2>2. HoldsFile(c)'
    BY <1>1, <1>2, <1>3, <2>1 DEF HoldsFile
  <2> QED  BY <1>4, <2>1, <2>2
<1>8. ASSUME NEW c \in Calls, NEW t \in Tabs, NEW op \in Ops, NEW f \in Files \cup {NoFile}, Ask(c, t, op, f)
      PROVE  \A d \in Calls : HoldsFile(d)'
  <2>1. /\ calls'[c] = [op |-> op, step |-> "post", tab |-> t, file |-> f, prev |-> 0]
        /\ \A d \in Calls \ {c} : calls'[d] = calls[d]
    BY <1>1, <1>8 DEF Ask
  <2>2. f \in Built \cup {NoFile} /\ (op \in {"activate", "delete"} => f \in Built)
    BY <1>1, <1>8 DEF Ask, MayAsk, SessionsAssumption
  <2>3. HoldsFile(c)'
    BY <1>2, <2>1, <2>2 DEF HoldsFile
  <2> QED  BY <1>4, <2>1, <2>3
<1>9. ASSUME NEW c \in Calls, Stream(c) \/ NewSession(c) \/ Activate(c)
      PROVE  \A d \in Calls : HoldsFile(d)'
  <2>1. calls[c].step = "post"
    BY <1>9 DEF Stream, NewSession, Activate
  <2>2. Fresh \in Files /\ Recent(disk) \in Files
    BY <1>1, <2>1, FreshIsFile, RecentIsFile
  <2>3. calls[c].op = "activate" => calls[c].file \in Files
    BY <1>1, <2>1 DEF HoldsFile
  <2> QED  BY <1>5, <1>6, <1>7, <1>9, <2>1, <2>2, <2>3 DEF Stream, NewSession, Activate
<1>10. ASSUME NEW c \in Calls, Message(c) \/ Delete(c) \/ Bind(c) \/ BuildFails(c)
       PROVE  \A d \in Calls : HoldsFile(d)'
  BY <1>5, <1>6, <1>10 DEF Message, Delete, Bind, BuildFails
<1>11. ASSUME NEW c \in Calls, TearDown(c)
       PROVE  \A d \in Calls : HoldsFile(d)'
  <2>1. calls[c].step = "abort"
    BY <1>11 DEF TearDown
  <2>2. Fresh \in Files /\ Recent(disk') \in Files
    BY <1>1, <2>1, FreshIsFile, RecentIsFile
  <2>3. calls[c].op = "activate" => calls[c].file \in Files
    BY <1>1, <2>1 DEF HoldsFile
  <2>4. \E f \in Files : Builds(c, f)
    BY <1>11, <2>2, <2>3 DEF TearDown
  <2> QED  BY <1>7, <2>4
<1>11a. ASSUME NEW c \in Calls, DeleteFails(c)
        PROVE  \A d \in Calls : HoldsFile(d)'
  <2>1. CASE Done(c)
    BY <1>5, <2>1
  <2>2. CASE calls[c].step = "abort" /\ Rebinds(c, Recent(disk))
    <3>1. PICK f \in Files : f = Recent(disk)
      BY <1>1, <2>2, RecentIsFile
    <3>2. /\ calls'[c].step = "build" /\ calls'[c].file = f /\ calls'[c].prev = calls[c].prev
          /\ \A d \in Calls \ {c} : calls'[d] = calls[d]
      BY <1>1, <1>3, <2>2, <3>1 DEF Rebinds, Call
    <3>3. HoldsFile(c)'
      BY <1>1, <1>2, <1>3, <3>2 DEF HoldsFile
    <3> QED  BY <1>4, <3>2, <3>3
  <2> QED  BY <1>11a, <2>1, <2>2 DEF DeleteFails
<1>12. ASSUME \/ \E t \in Tabs : Deliver(t) \/ Drop(t)
              \/ \E i \in DOMAIN sessions, kind \in {"agent_end", "error"} : Settle(i, kind)
              \/ UNCHANGED vars
       PROVE  \A d \in Calls : HoldsFile(d)'
  <2>1. UNCHANGED calls
    BY <1>12 DEF Deliver, Drop, Settle, vars
  <2> QED  BY <1>4, <2>1
<1> QED
  BY <1>8, <1>9, <1>10, <1>11, <1>11a, <1>12 DEF Next, Serve

\* Every request under way and every session built was asked for.
LEMMA StepCounted ==
  ASSUME SessionsAssumption, Shape, TypeInv, [Next]_vars
  PROVE  Counted' /\ asks' \in 0 .. MaxAsks /\ faults' \in 0 .. MaxFaults
<1> DEFINE T == Files \cup {NoFile}
<1>1. /\ calls \in [Calls -> Call(T)] /\ Len(sessions) \in Nat /\ IsFiniteSet(UnderWay)
      /\ Len(sessions) + Cardinality(UnderWay) <= asks /\ asks \in 0 .. MaxAsks /\ faults \in 0 .. MaxFaults
      /\ MaxAsks \in Nat /\ MaxFaults \in Nat
  <2>1. sessions \in Seq(Session(T)) /\ calls \in [Calls -> Call(T)]
    BY DEF TypeInv, ShapedBy
  <2>2. Counted /\ asks \in 0 .. MaxAsks /\ faults \in 0 .. MaxFaults
    BY DEF TypeInv
  <2>3. Len(sessions) \in Nat
    BY <2>1
  <2> QED  BY <2>1, <2>2, <2>3 DEF Counted, SessionsAssumption
<1>2. Cardinality(UnderWay) \in Nat
  BY <1>1, FS_CardinalityType
<1> HIDE DEF T
<1>3. /\ asks' = asks \/ (asks < MaxAsks /\ asks' = asks + 1)
      /\ faults' = faults \/ (faults < MaxFaults /\ faults' = faults + 1)
  BY DEF Next, Serve, Ask, Deliver, Drop, Stream, Message, NewSession, Activate, Delete, TearDown, Bind,
         DeleteFails, BuildFails, Settle, vars
<1>4. asks' \in 0 .. MaxAsks /\ faults' \in 0 .. MaxFaults
  BY <1>1, <1>3
<1>5. ASSUME UNCHANGED asks, Len(sessions') = Len(sessions), \A d \in Calls : calls'[d].step = calls[d].step
      PROVE  Counted'
  <2>1. UnderWay' = UnderWay
    BY <1>5 DEF UnderWay
  <2> QED  BY <1>1, <1>5, <2>1 DEF Counted
<1>6. ASSUME NEW c \in Calls, calls[c].step # "free", UNCHANGED asks, Len(sessions') <= Len(sessions) + 1,
             Len(sessions') \in Nat, Done(c)
      PROVE  Counted'
  <2>1. calls'[c].step = "free" /\ \A d \in Calls \ {c} : calls'[d] = calls[d]
    BY <1>1, <1>6 DEF Done, Free
  <2>2. UnderWay' = UnderWay \ {c} /\ c \in UnderWay
    BY <1>6, <2>1 DEF UnderWay
  <2>3. IsFiniteSet(UnderWay') /\ Cardinality(UnderWay') = Cardinality(UnderWay) - 1
    BY <1>1, <2>2, FS_RemoveElement
  <2> QED  BY <1>1, <1>2, <1>6, <2>3 DEF Counted
<1>7. ASSUME NEW c \in Calls, calls[c].step # "free", UNCHANGED asks, Len(sessions') = Len(sessions),
             AbortsFirst(c) \/ \E f : Builds(c, f) \/ Rebinds(c, f)
      PROVE  Counted'
  <2>1. calls[c] \in Call(T)
    BY <1>1
  <2>2. calls'[c].step # "free" /\ \A d \in Calls \ {c} : calls'[d] = calls[d]
    BY <1>1, <1>7, <2>1 DEF AbortsFirst, Builds, Rebinds, Call
  <2>3. UnderWay' = UnderWay
    BY <1>7, <2>2 DEF UnderWay
  <2> QED  BY <1>1, <1>7, <2>3 DEF Counted
<1>8. ASSUME NEW c \in Calls, NEW t \in Tabs, NEW op \in Ops, NEW f \in Files \cup {NoFile}, Ask(c, t, op, f)
      PROVE  Counted'
  <2>1. calls[c].step = "free" /\ calls'[c].step = "post" /\ \A d \in Calls \ {c} : calls'[d] = calls[d]
    BY <1>1, <1>8 DEF Ask
  <2>2. UnderWay' = UnderWay \cup {c} /\ c \notin UnderWay
    BY <2>1 DEF UnderWay
  <2>3. IsFiniteSet(UnderWay') /\ Cardinality(UnderWay') = Cardinality(UnderWay) + 1
    BY <1>1, <2>2, FS_AddElement
  <2> QED  BY <1>1, <1>2, <1>8, <2>3 DEF Ask, Counted
<1>9. \A i, s : sessions' = [sessions EXCEPT ![i] = s] => Len(sessions') = Len(sessions) /\ Len(sessions') \in Nat
  <2>1. sessions \in Seq(Session(T))
    BY DEF TypeInv, ShapedBy, T
  <2> QED  BY <2>1
<1>10. ASSUME NEW c \in Calls, Message(c) \/ TearDown(c) \/ DeleteFails(c)
       PROVE  Counted'
  <2>1. Len(sessions') = Len(sessions) /\ Len(sessions') \in Nat
    BY <1>1, <1>9, <1>10 DEF Message, TearDown, DeleteFails
  <2>2. CASE Message(c)
    BY <1>1, <1>6, <2>1, <2>2 DEF Message
  <2>3. CASE TearDown(c)
    BY <1>7, <2>1, <2>3 DEF TearDown
  <2>4. CASE DeleteFails(c)
    <3>1. calls[c].step # "free" /\ UNCHANGED asks /\ (Done(c) \/ Rebinds(c, Recent(disk)))
      BY <2>4 DEF DeleteFails
    <3> QED  BY <1>1, <1>6, <1>7, <2>1, <3>1
  <2> QED  BY <1>10, <2>2, <2>3, <2>4
<1>11. ASSUME NEW c \in Calls, Bind(c)
       PROVE  Counted'
  <2>1. Len(sessions') = Len(sessions) + 1
    BY <1>1, <1>11 DEF Bind, TypeInv, ShapedBy
  <2> QED  BY <1>1, <1>6, <1>11, <2>1 DEF Bind
<1>12. ASSUME NEW c \in Calls, Stream(c) \/ NewSession(c) \/ Activate(c) \/ Delete(c) \/ BuildFails(c)
       PROVE  Counted'
  <2>1. calls[c].step # "free" /\ UNCHANGED <<sessions, asks>>
    BY <1>12 DEF Stream, NewSession, Activate, Delete, BuildFails
  <2>2. Done(c) \/ AbortsFirst(c) \/ \E f : Builds(c, f)
    BY <1>12 DEF Stream, NewSession, Activate, Delete, BuildFails
  <2> QED  BY <1>1, <1>6, <1>7, <2>1, <2>2
<1>13. ASSUME \/ \E t \in Tabs : Deliver(t) \/ Drop(t)
              \/ UNCHANGED vars
       PROVE  Counted'
  <2>1. UNCHANGED <<sessions, calls, asks>>
    BY <1>13 DEF Deliver, Drop, vars
  <2> QED  BY <1>5, <2>1
<1>14. ASSUME NEW i \in DOMAIN sessions, NEW kind, Settle(i, kind)
       PROVE  Counted'
  <2>1. UNCHANGED <<calls, asks>> /\ Len(sessions') = Len(sessions)
    BY <1>9, <1>14 DEF Settle
  <2> QED  BY <1>5, <2>1
<1> QED
  BY <1>4, <1>8, <1>10, <1>11, <1>12, <1>13, <1>14 DEF Next, Serve

LEMMA StepTypes ==
  ASSUME SessionsAssumption, Shape, TypeInv, [Next]_vars
  PROVE  TypeInv'
<1> DEFINE T == Files \cup {NoFile}
<1>1. OnFiles(disk)' /\ Built' \subseteq Files /\ disk' \in Seq(Files)
  BY StepDisk DEF OnFiles
<1>2. disk \in Seq(Files)
  BY DEF TypeInv, OnFiles
<1>3. \A c \in Calls : calls[c].step \in {"post", "abort"} =>
        Fresh \in T /\ Recent(disk) \in T /\ Recent(disk') \in T
  BY <1>1, <1>2, FreshIsFile, RecentIsFile
<1>4. ShapedBy(T)
  BY DEF TypeInv
<1>5. Files \subseteq T
  OBVIOUS
<1> HIDE DEF T
<1>6. ShapedBy(T)'
  BY <1>3, <1>4, <1>5, StepShapedBy
<1> QED
  BY <1>1, <1>6, StepHolds, StepCounted DEF TypeInv, T

LEMMA InitTypes == Init /\ SessionsAssumption => TypeInv
<1> SUFFICES ASSUME Init, SessionsAssumption  PROVE TypeInv
  OBVIOUS
<1>1. ShapedBy({NoFile})
  BY InitShapedBy
<1>2. ShapedBy(Files \cup {NoFile})
  BY <1>1, LargerShape
<1>3. Counted
  <2>1. UnderWay = {} /\ Len(sessions) = 0 /\ asks = 0
    BY DEF UnderWay, Init, Free
  <2> QED  BY <2>1, FS_EmptySet DEF Counted
<1>4. Built = {} /\ disk = <<>>
  BY DEF Built, Init
<1>5. OnFiles(disk)
  BY <1>4 DEF OnFiles, Distinct, Elements
<1>6. \A c \in Calls : HoldsFile(c)
  BY DEF HoldsFile, Init, Free
<1>7. asks \in 0 .. MaxAsks /\ faults \in 0 .. MaxFaults
  BY DEF Init, SessionsAssumption
<1> QED  BY <1>2, <1>3, <1>4, <1>5, <1>6, <1>7 DEF TypeInv

\* The types of the sessions, requests and tabs, for any number of tabs, requests and faults. A session
\* always has a file of its directory, which holds every file once, and a tab that does not listen has no
\* envelopes (PerProjectState, the chat panel's state).
THEOREM SessionTypes == Spec => []TypeOK
<1>1. IInv /\ TypeInv /\ SessionsAssumption /\ [Next]_vars => TypeInv'
  BY StepTypes DEF IInv
<1>2. IInv /\ TypeInv => TypeOK
  <2> SUFFICES ASSUME IInv, TypeInv  PROVE TypeOK
    OBVIOUS
  <2> DEFINE T == Files \cup {NoFile}
  <2>1. /\ sessions \in Seq(Session(T)) /\ calls \in [Calls -> Call(T)] /\ tabs \in [Tabs -> Tab(T)]
    BY DEF TypeInv, ShapedBy
  <2>2. \A i \in DOMAIN sessions : sessions[i].file \in Files /\ {sessions[i].disposed, sessions[i].busy} \subseteq BOOLEAN
    <3>1. \A i \in DOMAIN sessions : sessions[i] \in Session(T)
      BY <2>1
    <3>2. \A i \in DOMAIN sessions : sessions[i].file \in Files
      BY DEF TypeInv, Built
    <3> QED  BY <3>1, <3>2 DEF Session
  <2>3. Len(sessions) <= asks /\ active \in 0 .. Len(sessions)
    <3>1. Len(sessions) \in Nat /\ Cardinality(UnderWay) \in Nat
      BY <2>1, FS_CardinalityType DEF TypeInv, Counted
    <3> QED  BY <3>1 DEF TypeInv, Counted, IInv, Shape
  <2>4. OnDisk \subseteq Files /\ \A i, j \in DOMAIN disk : disk[i] = disk[j] => i = j
    BY DEF TypeInv, OnFiles, OnDisk, Distinct
  <2>5. \A c \in Calls : calls[c].step \in {"free", "post", "abort", "build"} /\ calls[c].prev <= Len(sessions)
    BY <2>1 DEF TypeInv, HoldsFile, Call, Steps
  <2>6. \A t \in Tabs : tabs[t].conn \in {"off", "opening", "on"} /\ tabs[t].shown \in Files \cup {NoFile}
    BY <2>1 DEF Tab
  <2>7. \A t \in Tabs : tabs[t].conn # "on" => inbox[t] = <<>>
    BY DEF IInv, Tidy, DeafTabs
  <2>8. asks \in 0 .. MaxAsks /\ faults \in 0 .. MaxFaults
    BY DEF TypeInv
  <2> QED  BY <2>2, <2>3, <2>4, <2>5, <2>6, <2>7, <2>8 DEF TypeOK
<1> QED
  BY <1>1, <1>2, InitTypes, Inductive, SessionsAssumption, PTL DEF Spec
=============================================================================
