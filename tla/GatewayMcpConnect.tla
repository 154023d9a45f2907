---------------------------- MODULE GatewayMcpConnect ----------------------------
(***************************************************************************)
(* The MCP session of one Gateway server in one websocket session:         *)
(* connect_gateway_mcp, disconnect_gateway_mcp and reconnect_gateway_mcp   *)
(* (chat_ui/gateway_mcp_connect.py) with the callbacks on_mcp_connect and  *)
(* on_mcp_disconnect (chat_ui/app.py).  POST /mcp and DELETE /mcp handlers *)
(* and the chat turn run on one event loop and interleave at every await;  *)
(* only connects hold the lock of this (session, name).  The user may stop *)
(* a chat turn, and with it the reconnect it awaits, at any await.         *)
(***************************************************************************)
EXTENDS Naturals

CONSTANTS Handlers,  \* POST and DELETE handlers and chat turns in flight at once
          MaxOpens,  \* bound: MCP sessions opened
          None

ASSUME MaxOpensAssumption == MaxOpens \in Nat
ASSUME NoneAssumption == None \notin Handlers /\ None \notin 1 .. MaxOpens

Ids == 1 .. MaxOpens

VARIABLES open,     \* session.mcp_sessions[ui_name]: the MCP session, or None
          tools,    \* the MCP session user_session["mcp_tools"][ui_name] came from, or None
          running,  \* MCP sessions whose background task holds a transport
          dead,     \* those whose server no longer answers (token expired, restart)
          opened,   \* MCP sessions opened so far
          abandoned, \* history: those a cancelled reconnect opened and did not register
          lock,     \* holder of _connect_lock, or None
          pc, force, mine, old, answer

vars == <<open, tools, running, dead, opened, abandoned, lock, pc, force, mine, old, answer>>
handler == <<pc, force, mine, old, answer>>

TypeOK == /\ open \in Ids \cup {None}
          /\ tools \in Ids \cup {None}
          /\ running \subseteq 1 .. opened
          /\ dead \subseteq 1 .. opened
          /\ opened \in 0 .. MaxOpens
          /\ abandoned \subseteq 1 .. opened
          /\ lock \in Handlers \cup {None}
          /\ pc \in [Handlers -> {"idle", "close", "lock", "probe", "authorize",
                                  "open", "hook", "closeold", "list"}]
          /\ force \in [Handlers -> BOOLEAN]
          /\ mine \in [Handlers -> Ids \cup {None}]
          /\ old \in [Handlers -> Ids \cup {None}]
          /\ answer \in [Handlers -> {0, 200, 400, 403, 500}]

Init == /\ open = None /\ tools = None
        /\ running = {} /\ dead = {} /\ opened = 0 /\ abandoned = {}
        /\ lock = None
        /\ pc = [h \in Handlers |-> "idle"]
        /\ force = [h \in Handlers |-> FALSE]
        /\ mine = [h \in Handlers |-> None]
        /\ old = [h \in Handlers |-> None]
        /\ answer = [h \in Handlers |-> 0]

--------------------------------------------------------------------------------
Answer(h, code) ==
    /\ pc' = [pc EXCEPT ![h] = "idle"]
    /\ force' = [force EXCEPT ![h] = FALSE]
    /\ mine' = [mine EXCEPT ![h] = None]
    /\ old' = [old EXCEPT ![h] = None]
    /\ answer' = [answer EXCEPT ![h] = code]

GoTo(h, where) == pc' = [pc EXCEPT ![h] = where]

(* Mutant: the lock is not given back. *)
ReleaseKeepingLock(h, code) == Answer(h, code) /\ UNCHANGED lock

(* Leaving `async with _connect_lock(...)`, by return or exception. *)
Release(h, code) == Answer(h, code) /\ lock' = None

Usable(i) == i \in running /\ i \notin dead

(* The server stops answering on this transport. *)
Die(i) ==
    /\ Usable(i)
    /\ dead' = dead \cup {i}
    /\ UNCHANGED <<open, tools, running, opened, abandoned, lock>> /\ UNCHANGED handler

(* POST /mcp. *)
Post(h) ==
    /\ pc[h] = "idle"
    /\ GoTo(h, "lock")
    /\ answer' = [answer EXCEPT ![h] = 0]
    /\ UNCHANGED <<open, tools, running, dead, opened, abandoned, lock, force, mine, old>>

(* disconnect_gateway_mcp up to `await close()`: pop, then on_mcp_disconnect, *)
(* which does not suspend.                                                    *)
Pop(h) ==
    /\ mine' = [mine EXCEPT ![h] = open]
    /\ open' = None
    /\ tools' = None
    /\ GoTo(h, "close")

(* DELETE /mcp. *)
Delete(h) ==
    /\ pc[h] = "idle"
    /\ \/ /\ open = None
          /\ Answer(h, 200)
          /\ UNCHANGED <<open, tools>>
       \/ /\ open # None
          /\ Pop(h)
          /\ answer' = [answer EXCEPT ![h] = 0]
          /\ UNCHANGED <<force, old>>
    /\ UNCHANGED <<running, dead, opened, abandoned, lock>>

(* reconnect_gateway_mcp, from a chat turn whose tool call got 401. *)
Reconnect(h) ==
    /\ pc[h] = "idle"
    /\ force' = [force EXCEPT ![h] = TRUE]
    /\ answer' = [answer EXCEPT ![h] = 0]
    /\ \/ open # None /\ Pop(h)
       \/ open = None /\ GoTo(h, "lock") /\ UNCHANGED <<open, tools, mine>>
    /\ UNCHANGED <<running, dead, opened, abandoned, lock, old>>

(* McpSession.close. *)
Close(h) ==
    /\ pc[h] = "close"
    /\ running' = running \ {mine[h]}
    /\ \/ ~force[h] /\ Answer(h, 200)
       \/ /\ force[h]
          /\ GoTo(h, "lock")
          /\ mine' = [mine EXCEPT ![h] = None]
          /\ UNCHANGED <<force, old, answer>>
    /\ UNCHANGED <<open, tools, dead, opened, abandoned, lock>>

(* Mutant: connects do not wait for one another. *)
AcquireWithoutLock(h) ==
    /\ pc[h] = "lock"
    /\ lock' = h
    /\ \/ ~force[h] /\ open # None /\ GoTo(h, "probe") /\ mine' = [mine EXCEPT ![h] = open]
       \/ (force[h] \/ open = None) /\ GoTo(h, "authorize") /\ UNCHANGED mine
    /\ UNCHANGED <<open, tools, running, dead, opened, abandoned, force, old, answer>>

(* The lock is taken; a connect that is not forced looks for an open session *)
(* and asks it for its tools.                                                *)
Acquire(h) ==
    /\ pc[h] = "lock" /\ lock = None
    /\ lock' = h
    /\ \/ ~force[h] /\ open # None /\ GoTo(h, "probe") /\ mine' = [mine EXCEPT ![h] = open]
       \/ (force[h] \/ open = None) /\ GoTo(h, "authorize") /\ UNCHANGED mine
    /\ UNCHANGED <<open, tools, running, dead, opened, abandoned, force, old, answer>>

(* existing_gateway_mcp_result once list_tools has answered: the session is *)
(* reused and on_mcp_connect registers its tools again.                     *)
Reuse(h) ==
    /\ pc[h] = "probe" /\ Usable(mine[h])
    /\ tools' = mine[h]
    /\ Release(h, 200)
    /\ UNCHANGED <<open, running, dead, opened, abandoned>>

ProbeFails(h) ==
    /\ pc[h] = "probe" /\ ~Usable(mine[h])
    /\ GoTo(h, "authorize")
    /\ mine' = [mine EXCEPT ![h] = None]
    /\ UNCHANGED <<open, tools, running, dead, opened, abandoned, lock, force, old, answer>>

(* access_token_for_gateway_session and resolve_gateway_url: no token or no  *)
(* entry in the catalog is 403; an unreachable Gateway is an exception the   *)
(* handler does not expect.                                                  *)
Authorize(h) ==
    /\ pc[h] = "authorize"
    /\ \/ GoTo(h, "open") /\ UNCHANGED <<lock, force, mine, old, answer>>
       \/ Release(h, 403)
       \/ Release(h, 500)
    /\ UNCHANGED <<open, tools, running, dead, opened, abandoned>>

(* The background task signals that the session is initialised. *)
Open(h) ==
    /\ pc[h] = "open" /\ opened < MaxOpens
    /\ opened' = opened + 1
    /\ running' = running \cup {opened + 1}
    /\ mine' = [mine EXCEPT ![h] = opened + 1]
    /\ GoTo(h, "hook")
    /\ UNCHANGED <<open, tools, dead, abandoned, lock, force, old, answer>>

(* ... or an error, or nothing until _MCP_CONNECT_TIMEOUT_HTTP. *)
OpenFails(h) ==
    /\ pc[h] = "open"
    /\ Release(h, 400)
    /\ UNCHANGED <<open, tools, running, dead, opened, abandoned>>

(* on_mcp_connect raises: its list_tools failed. *)
HookFails(h) ==
    /\ pc[h] = "hook"
    /\ running' = running \ {mine[h]}
    /\ Release(h, 400)
    /\ UNCHANGED <<open, tools, dead, opened, abandoned>>

(* on_mcp_connect registers the tools under ui_name, the session is swapped  *)
(* in, and for a session that was there on_mcp_disconnect drops the tools    *)
(* registered under ui_name; nothing suspends between the three.             *)
RegisteredTools(h) == IF open = None THEN mine[h] ELSE None

(* Mutant: the session is swapped in before the old one is looked up. *)
SwapThenLookUp(h) ==
    /\ pc[h] = "hook" /\ Usable(mine[h])
    /\ tools' = RegisteredTools(h)
    /\ open' = mine[h]
    /\ old' = [old EXCEPT ![h] = mine[h]]
    /\ GoTo(h, "closeold")
    /\ UNCHANGED <<running, dead, opened, abandoned, lock, force, mine, answer>>

(* Mutant: the session is not put into mcp_sessions. *)
SwapWithoutRegistering(h) ==
    /\ pc[h] = "hook" /\ Usable(mine[h])
    /\ tools' = RegisteredTools(h)
    /\ GoTo(h, "list")
    /\ UNCHANGED <<open, running, dead, opened, abandoned, lock, force, mine, old, answer>>

Swap(h) ==
    /\ pc[h] = "hook" /\ Usable(mine[h])
    /\ tools' = RegisteredTools(h)
    /\ open' = mine[h]
    /\ old' = [old EXCEPT ![h] = open]
    /\ GoTo(h, IF open = None THEN "list" ELSE "closeold")
    /\ UNCHANGED <<running, dead, opened, abandoned, lock, force, mine, answer>>

CloseOld(h) ==
    /\ pc[h] = "closeold"
    /\ running' = running \ {old[h]}
    /\ old' = [old EXCEPT ![h] = None]
    /\ GoTo(h, "list")
    /\ UNCHANGED <<open, tools, dead, opened, abandoned, lock, force, mine, answer>>

(* The final list_tools; when it raises, the session stays registered. *)
ListTools(h) ==
    /\ pc[h] = "list"
    /\ \/ Usable(mine[h]) /\ Release(h, 200)
       \/ ~Usable(mine[h]) /\ Release(h, 500)
    /\ UNCHANGED <<open, tools, running, dead, opened, abandoned>>

(* The turn that awaits a reconnect is stopped.  CancelledError leaves the   *)
(* lock but passes `except Exception`: a background task that is being      *)
(* initialised, or waits for on_mcp_connect, goes on and nobody has its stop *)
(* event.  McpSession.close has set the event before it waits.              *)
Cancel(h) ==
    /\ force[h] /\ pc[h] # "idle"
    /\ Answer(h, 0)
    /\ lock' = IF lock = h THEN None ELSE lock
    /\ \/ /\ pc[h] \in {"lock", "authorize", "open", "list"}
          /\ UNCHANGED <<running, opened, abandoned>>
       \/ /\ pc[h] = "close"
          /\ running' = running \ {mine[h]}
          /\ UNCHANGED <<opened, abandoned>>
       \/ /\ pc[h] = "closeold"
          /\ running' = running \ {old[h]}
          /\ UNCHANGED <<opened, abandoned>>
       \/ /\ pc[h] = "open" /\ opened < MaxOpens
          /\ opened' = opened + 1
          /\ running' = running \cup {opened + 1}
          /\ abandoned' = abandoned \cup {opened + 1}
       \/ /\ pc[h] = "hook"
          /\ abandoned' = abandoned \cup {mine[h]}
          /\ UNCHANGED <<running, opened>>
    /\ UNCHANGED <<open, tools, dead>>

Work(h) == \/ Close(h) \/ Acquire(h) \/ Reuse(h) \/ ProbeFails(h) \/ Authorize(h)
           \/ Open(h) \/ OpenFails(h) \/ HookFails(h) \/ Swap(h) \/ CloseOld(h) \/ ListTools(h)

Next == \/ \E i \in Ids : Die(i)
        \/ \E h \in Handlers : \/ Post(h)
                               \/ Delete(h)
                               \/ Reconnect(h)
                               \/ Close(h)
                               \/ Acquire(h)
                               \/ Reuse(h)
                               \/ ProbeFails(h)
                               \/ Authorize(h)
                               \/ Open(h)
                               \/ OpenFails(h)
                               \/ HookFails(h)
                               \/ Swap(h)
                               \/ CloseOld(h)
                               \/ ListTools(h)
                               \/ Cancel(h)

Spec == Init /\ [][Next]_vars

(* Every await has a timeout, and asyncio.Lock wakes its waiters in order:   *)
(* a waiting connect gets the lock when it is released again and again.      *)
Fairness == \A h \in Handlers : WF_vars(Work(h)) /\ SF_vars(Acquire(h))
FairSpec == Spec /\ Fairness
--------------------------------------------------------------------------------
(* No background task is left behind but by a reconnect that is cancelled    *)
(* between create_task and the swap: each other one is the registered        *)
(* session's, or some handler has yet to register or close it.               *)
Disposes(h, i) == \/ pc[h] \in {"close", "hook"} /\ mine[h] = i
                  \/ pc[h] = "closeold" /\ old[h] = i

NoOrphanRunner ==
    \A i \in running \ abandoned : open = i \/ \E h \in Handlers : Disposes(h, i)

(* The registered session has its transport, however connects, disconnects   *)
(* and reconnects interleave: nobody closes a session another one swapped in. *)
OpenSessionRuns == open # None => open \in running \ abandoned

(* Why both hold, as an inductive invariant: a connect works under the lock, *)
(* a session about to be closed is not the registered one, one about to be   *)
(* registered is nobody else's, and without force a connect goes on only     *)
(* where no usable session is registered.                                    *)
Locked == {"probe", "authorize", "open", "hook", "closeold", "list"}

HandlerInPlace(h) ==
    /\ lock = h <=> pc[h] \in Locked
    /\ pc[h] # "idle" => answer[h] = 0
    /\ mine[h] # None => mine[h] <= opened /\ mine[h] \notin abandoned
    /\ pc[h] \in {"idle", "lock"} => mine[h] = None
    /\ pc[h] \in {"close", "probe", "hook", "closeold", "list"} => mine[h] # None
    /\ pc[h] = "close" => mine[h] # open
    /\ pc[h] = "probe" => open \in {None, mine[h]}
    /\ pc[h] = "closeold" => old[h] \notin {None, open}
    /\ pc[h] \in {"authorize", "open", "hook"} /\ ~force[h] => open = None \/ ~Usable(open)
    /\ pc[h] = "hook" => /\ mine[h] \in running /\ mine[h] # open
                         /\ \A g \in Handlers : pc[g] = "close" => mine[g] # mine[h]

ConnectInv == /\ TypeOK
              /\ NoOrphanRunner
              /\ OpenSessionRuns
              /\ \A h \in Handlers : HandlerInPlace(h)

(* Connects are serialised: a POST replaces a registered session only if the *)
(* server behind it no longer answers; otherwise the second of two POSTs     *)
(* reuses what the first one opened.                                         *)
UsableSessionIsReused ==
    [][\A h \in Handlers : pc[h] = "hook" /\ open' = mine[h] /\ ~force[h]
         => open = None \/ ~Usable(open)]_vars

(* Every handler answers, so the lock is always given back. *)
HandlersAnswer == \A h \in Handlers : pc[h] # "idle" ~> pc[h] = "idle"

(* "connected" is true when it is said: when a connect answers 200 its       *)
(* session runs, and it is the registered one unless a DELETE or a chat turn *)
(* has taken it out meanwhile and is about to close it.                      *)
ConnectedMeansOpen ==
    [][\A h \in Handlers : lock = h /\ answer'[h] = 200
         => /\ mine[h] \in running'
            /\ \/ open' = mine[h]
               \/ \E g \in Handlers : pc[g] = "close" /\ mine[g] = mine[h]]_vars

(* docs/current/features/authentication.md: a connected Gateway MCP offers   *)
(* its tools; a connect loads them again.                                    *)
ConnectedSessionOffersTools ==
    (\A h \in Handlers : pc[h] = "idle") /\ open # None => tools = open
==================================================================================
