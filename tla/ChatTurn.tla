--------------------------------- MODULE ChatTurn ---------------------------------
(***************************************************************************)
(* on_message and _dispatch_tool (chat_ui/app.py) with the tool helpers of *)
(* chat_ui/mcp_tools.py: one chat turn at a time asks the model, sends its *)
(* tool calls to the MCP sessions of the websocket session, reconnects a   *)
(* Gateway session that answers 401 and repeats the call, and asks again.  *)
(* The history is a list changed in place, so what a turn that dies has    *)
(* appended is there for the next one.  POST and DELETE handlers connect   *)
(* and disconnect MCP sessions at every await; they are the subject of     *)
(* GatewayMcpConnect and single steps here.                                *)
(***************************************************************************)
EXTENDS Naturals, Sequences, FiniteSets, SequencesExt

CONSTANTS Servers,   \* MCP connections; each has one tool, of the same name
          Gateway,   \* those that go through the Gateway
          MaxOpens,  \* bound: sessions opened per server
          MaxTurns,  \* bound: user messages
          MaxCalls,  \* bound: tool calls, all turns together
          NoServer

ASSUME GatewayAssumption == Gateway \subseteq Servers
ASSUME BoundsAssumption == MaxOpens \in Nat /\ MaxTurns \in Nat /\ MaxCalls \in Nat
ASSUME NoServerAssumption == NoServer \notin Servers

VARIABLES messages,    \* user_session["messages"]
          registered,  \* the keys of user_session["mcp_tools"], in dict order
          open,        \* mcp_sessions[s]: number of its session, 0 if none
          opened,      \* sessions opened so far
          pc, offered, todo, payloads,  \* of the turn
          first, sess, \* the session a call went to first, and the one it is at now
          turns, calls,
          cut          \* history: a turn ended before its calls were answered

turn == <<pc, offered, todo, payloads, first, sess, turns, calls>>
sessions == <<registered, open, opened>>
vars == <<messages, registered, open, opened, pc, offered, todo, payloads, first, sess,
          turns, calls, cut>>

Errors == {"unknown tool", "no session", "failed", "expired", "refused"}
Ids == 1 .. MaxCalls
Sessions == Servers \X (1 .. MaxOpens)
NoSession == <<NoServer, 0>>
NoName == <<"none">>

(* Mutant: Gateway tools keep their bare names. *)
BareName(s) == <<"tool">>

(* llm_tool_name, for connections of the Gateway (prefix_tools_for_gateway). *)
LlmName(s) == IF s \in Gateway THEN <<s, "tool">> ELSE <<"tool">>
Names == {LlmName(s) : s \in Servers} \cup {NoName}

(* ids: the calls an assistant message makes or a tool message answers;     *)
(* facts: the errors in the text.                                           *)
Messages == [role : {"system", "user", "assistant", "tool"}, ids : SUBSET Ids, facts : SUBSET Errors]
Message(role, ids, facts) == [role |-> role, ids |-> ids, facts |-> facts]

TypeOK == /\ messages \in Seq(Messages)
          /\ registered \in Seq(Servers)
          /\ \A i, j \in DOMAIN registered : registered[i] = registered[j] => i = j
          /\ open \in [Servers -> 0 .. MaxOpens]
          /\ opened \in [Servers -> 0 .. MaxOpens]
          /\ \A s \in Servers : open[s] <= opened[s]
          /\ pc \in {"idle", "generate", "dispatch", "call", "reconnect", "reconnected", "retry"}
          /\ offered \subseteq Names \X Servers
          /\ todo \in Seq(Ids \X Names)
          /\ payloads \subseteq Errors
          /\ first \in Sessions \cup {NoSession}
          /\ sess \in Sessions \cup {NoSession}
          /\ turns \in 0 .. MaxTurns
          /\ calls \in 0 .. MaxCalls
          /\ cut \in BOOLEAN

Init == /\ messages = <<Message("system", {}, {})>>
        /\ registered = <<>>
        /\ open = [s \in Servers |-> 0]
        /\ opened = [s \in Servers |-> 0]
        /\ pc = "idle" /\ offered = {} /\ todo = <<>> /\ payloads = {}
        /\ first = NoSession /\ sess = NoSession
        /\ turns = 0 /\ calls = 0
        /\ cut = FALSE

--------------------------------------------------------------------------------
(* Mutant: a list instead of a dict. *)
RegisteredTwice(s) == Append(registered, s)

(* on_mcp_connect and on_mcp_disconnect: a dict keeps the place of a key it  *)
(* has, and puts a new one last.                                             *)
Registered(s) == IF s \in ToSet(registered) THEN registered ELSE Append(registered, s)
Place(s) == CHOOSE i \in DOMAIN registered : registered[i] = s
Unregistered(s) == IF s \in ToSet(registered) THEN RemoveAt(registered, Place(s)) ELSE registered

(* _connect_gateway_mcp swaps a new session of s in; tools that replace      *)
(* those of an open session are dropped with it.                             *)
SwapIn(s) ==
    /\ opened[s] < MaxOpens
    /\ opened' = [opened EXCEPT ![s] = @ + 1]
    /\ open' = [open EXCEPT ![s] = opened[s] + 1]
    /\ registered' = IF open[s] = 0 THEN Registered(s) ELSE Unregistered(s)

(* POST /mcp: a new session, or the tools of the one that is open again; a   *)
(* session that was disconnected while it was being asked for its tools      *)
(* registers them, too.                                                      *)
Connect(s) ==
    /\ \/ SwapIn(s)
       \/ opened[s] > 0 /\ registered' = Registered(s) /\ UNCHANGED <<open, opened>>
    /\ UNCHANGED <<messages, cut>> /\ UNCHANGED turn

Disconnected(s) ==
    /\ open' = [open EXCEPT ![s] = 0]
    /\ registered' = Unregistered(s)
    /\ UNCHANGED opened

(* DELETE /mcp. *)
Disconnect(s) ==
    /\ open[s] # 0
    /\ Disconnected(s)
    /\ UNCHANGED <<messages, cut>> /\ UNCHANGED turn

--------------------------------------------------------------------------------
(* on_chat_start. *)
ChatStart ==
    /\ pc = "idle" /\ turns < MaxTurns
    /\ messages' = <<Message("system", {}, {})>>
    /\ cut' = FALSE
    /\ UNCHANGED sessions /\ UNCHANGED turn

(* The turn returns, or an exception leaves on_message. *)
EndTurn ==
    /\ pc' = "idle" /\ offered' = {} /\ todo' = <<>> /\ payloads' = {}
    /\ first' = NoSession /\ sess' = NoSession
    /\ UNCHANGED <<turns, calls>>

Die == EndTurn /\ cut' = (cut \/ todo # <<>>) /\ UNCHANGED messages

(* Chainlit cancels the task of a turn its user stops. *)
Stop == pc # "idle" /\ Die /\ UNCHANGED sessions

(* collect_openai_tools: of equal names the first one is offered. *)
Offered == {<<LlmName(registered[i]), registered[i]>> : i \in
               {k \in DOMAIN registered :
                   \A j \in 1 .. k - 1 : LlmName(registered[j]) # LlmName(registered[k])}}

UserMessage ==
    /\ pc = "idle" /\ turns < MaxTurns
    /\ turns' = turns + 1
    /\ messages' = Append(messages, Message("user", {}, {}))
    /\ offered' = Offered
    /\ pc' = "generate"
    /\ UNCHANGED <<todo, payloads, first, sess, calls, cut>> /\ UNCHANGED sessions

(* The completion API refuses a request in which the calls of an assistant   *)
(* message are not answered by the tool messages right behind it.            *)
ToolsOnly(i, j) == \A k \in i + 1 .. j : messages[k].role = "tool"
Answered(i, id) ==
    \E j \in i + 1 .. Len(messages) : messages[j].ids = {id} /\ ToolsOnly(i, j)
WellFormed ==
    \A i \in DOMAIN messages : messages[i].role = "assistant" =>
        \A id \in messages[i].ids : Answered(i, id)

GenerateFails == pc = "generate" /\ Die /\ UNCHANGED sessions

(* The model calls one or two tools, which need not be among those offered.  *)
GenerateCalls ==
    /\ pc = "generate" /\ WellFormed /\ offered # {}
    /\ \E n \in 1 .. 2 : \E names \in [1 .. n -> {o[1] : o \in offered} \cup {NoName}] :
         /\ calls + n <= MaxCalls
         /\ calls' = calls + n
         /\ todo' = [i \in 1 .. n |-> <<calls + i, names[i]>>]
    /\ messages' = Append(messages, Message("assistant", {todo'[i][1] : i \in DOMAIN todo'}, {}))
    /\ pc' = "dispatch"
    /\ UNCHANGED <<offered, payloads, first, sess, turns, cut>> /\ UNCHANGED sessions

(* Mutant: what the model said is sent as it is. *)
ModelFacts(said) == said

(* merge_assistant_with_tool_facts. *)
MergedFacts(said) == said \cup (payloads \ said)

GenerateAnswers ==
    /\ pc = "generate" /\ WellFormed
    /\ \E said \in SUBSET payloads :
         messages' = Append(messages, Message("assistant", {}, MergedFacts(said)))
    /\ EndTurn
    /\ UNCHANGED cut /\ UNCHANGED sessions

--------------------------------------------------------------------------------
(* Mutant: the result is kept for the answer only. *)
ForgetResult(facts) ==
    /\ payloads' = payloads \cup facts
    /\ UNCHANGED messages
    /\ todo' = Tail(todo)
    /\ first' = NoSession /\ sess' = NoSession
    /\ pc' = IF Len(todo) = 1 THEN "generate" ELSE "dispatch"
    /\ UNCHANGED <<offered, turns, calls, cut>>

(* The result of the call becomes a tool message and the next one's turn comes. *)
Answer(facts) ==
    /\ payloads' = payloads \cup facts
    /\ messages' = Append(messages, Message("tool", {Head(todo)[1]}, facts))
    /\ todo' = Tail(todo)
    /\ first' = NoSession /\ sess' = NoSession
    /\ pc' = IF Len(todo) = 1 THEN "generate" ELSE "dispatch"
    /\ UNCHANGED <<offered, turns, calls, cut>>

(* json.loads of the arguments raises. *)
BadArguments == pc = "dispatch" /\ Die /\ UNCHANGED sessions

(* find_session_for_tool, in the dict as it is by now. *)
Owners(name) == {i \in DOMAIN registered : LlmName(registered[i]) = name}
Target(name) == registered[CHOOSE i \in Owners(name) : \A j \in Owners(name) : i <= j]

Dispatch ==
    /\ pc = "dispatch"
    /\ LET name == Head(todo)[2]
       IN \/ Owners(name) = {} /\ Answer({"unknown tool"})
          \/ /\ Owners(name) # {}
             /\ open[Target(name)] = 0
             /\ Answer({"no session"})
          \/ /\ Owners(name) # {}
             /\ open[Target(name)] # 0
             /\ sess' = <<Target(name), open[Target(name)]>>
             /\ first' = sess'
             /\ pc' = "call"
             /\ UNCHANGED <<messages, offered, todo, payloads, turns, calls, cut>>
    /\ UNCHANGED sessions

(* call_session_tool answers, with a result or an error, or raises. *)
Call ==
    /\ pc = "call"
    /\ \E facts \in {{}, {"failed"}} : Answer(facts)
    /\ UNCHANGED sessions

(* 401: only a connection of the Gateway is connected again; its session, if *)
(* there is one, is taken out first.                                         *)
CallExpired ==
    /\ pc = "call"
    /\ LET s == sess[1]
       IN \/ s \notin Gateway /\ Answer({"expired"}) /\ UNCHANGED sessions
          \/ /\ s \in Gateway
             /\ \/ open[s] # 0 /\ Disconnected(s)
                \/ open[s] = 0 /\ UNCHANGED sessions
             /\ pc' = "reconnect"
             /\ UNCHANGED <<messages, offered, todo, payloads, first, sess, turns, calls, cut>>

(* HTTPException of reconnect_gateway_mcp. *)
ReconnectRefused ==
    /\ pc = "reconnect"
    /\ Answer({"refused"})
    /\ UNCHANGED sessions

(* Another exception: the Gateway's catalog cannot be read, or the new       *)
(* session does not answer its last list_tools.                              *)
ReconnectRaises == pc \in {"reconnect", "reconnected"} /\ Die /\ UNCHANGED sessions

ReconnectOpens ==
    /\ pc = "reconnect"
    /\ SwapIn(sess[1])
    /\ pc' = "reconnected"
    /\ UNCHANGED <<messages, offered, todo, payloads, first, sess, turns, calls, cut>>

(* The entry is read again: it is gone if somebody disconnected meanwhile.   *)
ReconnectReturns ==
    /\ pc = "reconnected"
    /\ \/ open[sess[1]] = 0 /\ Answer({"expired"})
       \/ /\ open[sess[1]] # 0
          /\ sess' = <<sess[1], open[sess[1]]>>
          /\ pc' = "retry"
          /\ UNCHANGED <<messages, offered, todo, payloads, first, turns, calls, cut>>
    /\ UNCHANGED sessions

(* The repeated call; a 401 is its answer now, and nothing catches an        *)
(* exception.                                                                *)
Retry ==
    /\ pc = "retry"
    /\ \/ \E facts \in {{}, {"failed"}, {"expired"}} : Answer(facts)
       \/ Die
    /\ UNCHANGED sessions

Next == \/ \E s \in Servers : Connect(s) \/ Disconnect(s)
        \/ ChatStart \/ UserMessage \/ Stop
        \/ GenerateFails \/ GenerateCalls \/ GenerateAnswers
        \/ BadArguments \/ Dispatch \/ Call \/ CallExpired
        \/ ReconnectRefused \/ ReconnectRaises \/ ReconnectOpens \/ ReconnectReturns
        \/ Retry

Spec == Init /\ [][Next]_vars
--------------------------------------------------------------------------------
(* Every request can be accepted: each call of the history has its answer    *)
(* right behind it, whatever became of sessions, tools and the token, unless *)
(* a turn died between its calls.  A turn that dies while it waits for the   *)
(* model leaves a history the next one can go on with.                       *)
RequestsWellFormed == pc = "generate" /\ ~cut => WellFormed

(* A Gateway's tool is called on the server that offered it, although the    *)
(* list it is looked up in has been changed since it was offered; a call is  *)
(* repeated at most once, on another session of the same server than the one *)
(* whose token had expired.                                                  *)
OfferedByTarget ==
    pc \in {"call", "retry"} =>
        \A o \in offered : o[1] = Head(todo)[2] /\ o[2] \in Gateway => sess[1] = o[2]
RetryGoesToNewSession == pc = "retry" => sess[1] = first[1] /\ sess[2] > first[2]

CallReachesItsServer == OfferedByTarget /\ RetryGoesToNewSession

(* Why, as an inductive invariant.  Between its awaits a turn is at the      *)
(* first of its calls, on the server that bears the name; once it is told to *)
(* reconnect, the session that failed is closed for good.  A call of the     *)
(* history is answered, or it is still to do and nothing but answers has     *)
(* come after it.  Since the last question of the user no tool has given an  *)
(* error that is not among the payloads.                                     *)
TurnInPlace ==
    /\ pc \in {"idle", "generate"} <=> todo = <<>>
    /\ \A o \in offered : o[1] = LlmName(o[2])
    /\ pc \in {"call", "reconnect", "reconnected", "retry"} =>
         /\ first \in Sessions /\ sess \in Sessions
         /\ sess[1] = first[1] /\ LlmName(sess[1]) = Head(todo)[2]
         /\ first[2] <= opened[first[1]]
    /\ pc \in {"reconnect", "reconnected"} => open[sess[1]] = 0 \/ open[sess[1]] > first[2]
    /\ pc = "retry" => sess[2] > first[2]

HistoryInPlace ==
    ~cut => \A i \in DOMAIN messages : messages[i].role = "assistant" =>
        \A id \in messages[i].ids :
            \/ Answered(i, id)
            \/ (\E k \in DOMAIN todo : todo[k][1] = id) /\ ToolsOnly(i, Len(messages))

QuestionAt(u) ==
    /\ messages[u].role = "user"
    /\ \A i \in u + 1 .. Len(messages) :
         /\ messages[i].role # "user"
         /\ messages[i].role = "tool" => messages[i].facts \subseteq payloads
PayloadsInPlace == pc # "idle" => \E u \in DOMAIN messages : QuestionAt(u)

ChatInv == TypeOK /\ TurnInPlace /\ HistoryInPlace /\ PayloadsInPlace

(* Whatever error a tool gave in this turn, in whichever round, the text the *)
(* user is sent names it, although the model may not mention it: a refused   *)
(* reconnect tells the user to sign in again                                 *)
(* (docs/current/features/authentication.md).                                *)
LastUser == Max({i \in DOMAIN messages : messages[i].role = "user"})
ToolErrorsAreShown ==
    [][GenerateAnswers =>
         \A i \in LastUser + 1 .. Len(messages) :
            messages[i].role = "tool" => messages[i].facts \subseteq messages'[Len(messages')].facts]_vars
===================================================================================
