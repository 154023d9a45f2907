------------------------- MODULE GatewayMcpConnectProofs -------------------------
(***************************************************************************)
(* What GatewayMcpConnect guarantees for every number of handlers of one   *)
(* MCP name and of sessions opened, however their steps interleave; and    *)
(* what GatewayCatalogue guarantees of where a connect goes, for every     *)
(* registry, however its readers restart.                                  *)
(***************************************************************************)
EXTENDS GatewayMcpConnect, GatewayCatalogue, WellFoundedInduction, TLAPS

(* No handler and no MCP session is None, and sessions are counted. *)
LEMMA Counted ==
  ASSUME ConnectInv
  PROVE  /\ opened \in Nat /\ MaxOpens \in Nat
         /\ \A i \in Ids : i \in Nat /\ i # None
         /\ \A h \in Handlers : h # None
         /\ \A i \in running : i \in Ids /\ i <= opened
         /\ open # None => open \in running /\ open \notin abandoned
         /\ opened + 1 \notin abandoned
<1>1. opened \in Nat /\ MaxOpens \in Nat /\ opened <= MaxOpens
  BY MaxOpensAssumption DEF ConnectInv, TypeOK
<1>2. \A i \in running : i \in Ids /\ i <= opened
  BY <1>1 DEF ConnectInv, TypeOK, Ids
<1>3. opened + 1 \notin abandoned
  BY <1>1 DEF ConnectInv, TypeOK
<1>4. open # None => open \in running /\ open \notin abandoned
  BY DEF ConnectInv, OpenSessionRuns
<1> QED
  BY <1>1, <1>2, <1>3, <1>4, NoneAssumption DEF Ids

(* Two handlers that work under the lock are the same. *)
LEMMA OneAtATime ==
  ASSUME ConnectInv, NEW g \in Handlers, NEW h \in Handlers,
         pc[g] \in Locked, pc[h] \in Locked
  PROVE  g = h
  BY DEF ConnectInv, HandlerInPlace

(* The variables of the handlers, each with its type. *)
HandlerTypes ==
    /\ pc \in [Handlers -> {"idle", "close"} \cup {"lock"} \cup Locked]
    /\ force \in [Handlers -> BOOLEAN]
    /\ mine \in [Handlers -> Ids \cup {None}]
    /\ old \in [Handlers -> Ids \cup {None}]
    /\ answer \in [Handlers -> {0, 200, 400, 403, 500}]

(* Nothing of the handlers other than h changes. *)
OthersRest(h) ==
    \A g \in Handlers \ {h} :
        /\ pc'[g] = pc[g] /\ force'[g] = force[g] /\ mine'[g] = mine[g]
        /\ old'[g] = old[g] /\ answer'[g] = answer[g]

LEMMA TypesOfHandlers == ConnectInv => HandlerTypes
  BY DEF ConnectInv, TypeOK, HandlerTypes, Locked

(* A handler that answers is idle, and the others rest. *)
LEMMA AnswerKeeps ==
  ASSUME ConnectInv, NEW h \in Handlers, NEW code \in {0, 200, 400, 403, 500}, Answer(h, code)
  PROVE  /\ HandlerTypes' /\ OthersRest(h)
         /\ pc'[h] = "idle" /\ mine'[h] = None /\ old'[h] = None /\ answer'[h] = code
  BY TypesOfHandlers DEF HandlerTypes, Answer, OthersRest

--------------------------------------------------------------------------------
(* DELETE and the first half of a reconnect, which take no lock. *)
LEMMA PopKeeps ==
  ASSUME ConnectInv, NEW h \in Handlers, pc[h] = "idle", open # None, Pop(h),
         HandlerTypes', OthersRest(h), pc'[h] = "close", mine'[h] = open, answer'[h] = 0,
         UNCHANGED <<running, dead, opened, abandoned, lock>>
  PROVE  ConnectInv'
<1>1. HandlerTypes /\ HandlerInPlace(h)
  BY TypesOfHandlers DEF ConnectInv
<1>2. open' = None /\ tools' = None
  BY DEF Pop
<1>3. TypeOK'
  BY <1>2 DEF ConnectInv, TypeOK, HandlerTypes, Locked
<1>4. NoOrphanRunner'
  BY <1>1, <1>2 DEF ConnectInv, NoOrphanRunner, Disposes, OthersRest
<1>5. OpenSessionRuns'
  BY <1>2 DEF OpenSessionRuns
<1>6. HandlerInPlace(h)'
  BY <1>1, <1>2, Counted DEF HandlerInPlace, Locked
<1>7. ASSUME NEW g \in Handlers, g # h
      PROVE  HandlerInPlace(g)'
  <2>1. HandlerInPlace(g)
    BY DEF ConnectInv
  <2> QED
    BY <1>1, <1>2, <1>7, <2>1, Counted DEF HandlerInPlace, Locked, OthersRest, Usable
<1> QED
  BY <1>3, <1>4, <1>5, <1>6, <1>7 DEF ConnectInv

(* A step under the lock, or of nobody in particular, that leaves the        *)
(* registered session and the running tasks alone.                           *)
LEMMA QuietStep ==
  ASSUME ConnectInv, NEW h \in Handlers, HandlerTypes', OthersRest(h),
         UNCHANGED <<open, running, opened, abandoned>>,
         dead' \subseteq 1 .. opened, dead \subseteq dead',
         tools' \in Ids \cup {None}, lock' \in Handlers \cup {None},
         \A g \in Handlers \ {h} : lock' = g <=> lock = g,
         HandlerInPlace(h)', pc'[h] # "close",
         pc[h] \notin {"close", "hook", "closeold"}
  PROVE  ConnectInv'
<1>1. TypeOK'
  BY DEF ConnectInv, TypeOK, HandlerTypes, Locked
<1>2. NoOrphanRunner'
  BY DEF ConnectInv, NoOrphanRunner, Disposes, OthersRest
<1>3. OpenSessionRuns'
  BY DEF ConnectInv, OpenSessionRuns
<1>4. ASSUME NEW g \in Handlers, g # h
      PROVE  HandlerInPlace(g)'
  <2>1. HandlerInPlace(g)
    BY DEF ConnectInv
  <2> QED
    BY <1>4, <2>1 DEF HandlerInPlace, Locked, OthersRest, Usable
<1> QED
  BY <1>1, <1>2, <1>3, <1>4 DEF ConnectInv

(* Delete, Reconnect and Close. *)
LEMMA DeleteKeeps ==
  ASSUME ConnectInv, NEW h \in Handlers, Delete(h)
  PROVE  ConnectInv'
<1>1. HandlerTypes /\ HandlerInPlace(h) /\ pc[h] = "idle"
  BY TypesOfHandlers DEF ConnectInv, Delete
<1>2. CASE open # None /\ Pop(h) /\ answer' = [answer EXCEPT ![h] = 0]
           /\ UNCHANGED <<force, old>> /\ UNCHANGED <<running, dead, opened, abandoned, lock>>
  <2>1. /\ HandlerTypes' /\ OthersRest(h)
        /\ pc'[h] = "close" /\ mine'[h] = open /\ answer'[h] = 0
    BY <1>1, <1>2, Counted DEF HandlerTypes, OthersRest, Pop, GoTo
  <2> QED
    BY <1>1, <1>2, <2>1, PopKeeps
<1>3. CASE open = None /\ Answer(h, 200) /\ UNCHANGED <<open, tools>>
           /\ UNCHANGED <<running, dead, opened, abandoned, lock>>
  <2>1. HandlerInPlace(h)' /\ HandlerTypes' /\ OthersRest(h) /\ pc'[h] = "idle"
    BY <1>1, <1>3, AnswerKeeps DEF HandlerInPlace, Locked
  <2>2. /\ dead' \subseteq 1 .. opened /\ dead \subseteq dead'
        /\ tools' \in Ids \cup {None} /\ lock' \in Handlers \cup {None}
    BY <1>3 DEF ConnectInv, TypeOK
  <2> QED
    BY <1>1, <1>3, <2>1, <2>2, QuietStep
<1> QED
  BY <1>2, <1>3 DEF Delete

LEMMA ReconnectKeeps ==
  ASSUME ConnectInv, NEW h \in Handlers, Reconnect(h)
  PROVE  ConnectInv'
<1>1. HandlerTypes /\ HandlerInPlace(h) /\ pc[h] = "idle"
  BY TypesOfHandlers DEF ConnectInv, Reconnect
<1>2. CASE open # None /\ Pop(h)
  <2>1. /\ HandlerTypes' /\ OthersRest(h)
        /\ pc'[h] = "close" /\ mine'[h] = open /\ answer'[h] = 0
        /\ UNCHANGED <<running, dead, opened, abandoned, lock>>
    BY <1>1, <1>2, Counted DEF HandlerTypes, OthersRest, Pop, GoTo, Reconnect
  <2> QED
    BY <1>1, <1>2, <2>1, PopKeeps
<1>3. CASE open = None /\ GoTo(h, "lock") /\ UNCHANGED <<open, tools, mine>>
  <2>1. /\ HandlerTypes' /\ OthersRest(h) /\ pc'[h] = "lock" /\ answer'[h] = 0
        /\ UNCHANGED <<running, dead, opened, abandoned, lock, old, open, tools, mine>>
    BY <1>1, <1>3 DEF HandlerTypes, OthersRest, GoTo, Reconnect
  <2>2. HandlerInPlace(h)'
    BY <1>1, <2>1 DEF HandlerInPlace, Locked
  <2>3. /\ dead' \subseteq 1 .. opened /\ dead \subseteq dead'
        /\ tools' \in Ids \cup {None} /\ lock' \in Handlers \cup {None}
    BY <2>1 DEF ConnectInv, TypeOK
  <2> QED
    BY <1>1, <2>1, <2>2, <2>3, QuietStep
<1> QED
  BY <1>2, <1>3 DEF Reconnect

(* A task that ends is not the registered session's, nor one about to be     *)
(* registered.                                                               *)
LEMMA TaskEnds ==
  ASSUME ConnectInv, NEW h \in Handlers, NEW i \in Ids, HandlerTypes', OthersRest(h),
         running' = running \ {i}, i # open,
         UNCHANGED <<open, tools, dead, opened, abandoned>>,
         lock' \in Handlers \cup {None},
         \A g \in Handlers \ {h} : lock' = g <=> lock = g,
         \A g \in Handlers \ {h} : pc[g] = "hook" => mine[g] # i,
         Disposes(h, i), pc'[h] \notin {"close", "hook"},
         HandlerInPlace(h)'
  PROVE  ConnectInv'
<1>1. TypeOK'
  <2>1. TypeOK /\ running' \subseteq running
    BY DEF ConnectInv
  <2>2. running' \subseteq 1 .. opened'
    BY <2>1 DEF TypeOK
  <2> QED
    BY <2>1, <2>2 DEF TypeOK, HandlerTypes, Locked
<1>2. ASSUME NEW j \in running' \ abandoned'
      PROVE  open' = j \/ \E g \in Handlers : Disposes(g, j)'
  <2>1. j \in running \ abandoned /\ j # i
    BY <1>2
  <2>2. open = j \/ \E g \in Handlers : Disposes(g, j)
    BY <2>1 DEF ConnectInv, NoOrphanRunner
  <2>3. ~Disposes(h, j)
    BY <2>1 DEF Disposes
  <2> QED
    BY <2>2, <2>3 DEF Disposes, OthersRest
<1>3. NoOrphanRunner'
  BY <1>2 DEF NoOrphanRunner
<1>4. OpenSessionRuns'
  BY DEF ConnectInv, OpenSessionRuns
<1>5. ASSUME NEW g \in Handlers, g # h
      PROVE  HandlerInPlace(g)'
  <2>1. HandlerInPlace(g)
    BY DEF ConnectInv
  <2> QED
    BY <1>5, <2>1 DEF HandlerInPlace, Locked, OthersRest, Usable
<1> QED
  BY <1>1, <1>3, <1>4, <1>5 DEF ConnectInv

LEMMA CloseKeeps ==
  ASSUME ConnectInv, NEW h \in Handlers, Close(h)
  PROVE  ConnectInv'
<1>1. HandlerTypes /\ HandlerInPlace(h) /\ pc[h] = "close" /\ Disposes(h, mine[h])
  BY TypesOfHandlers DEF ConnectInv, Close, Disposes
<1>2. /\ HandlerTypes' /\ OthersRest(h) /\ pc'[h] \in {"idle", "lock"}
      /\ mine'[h] = None /\ (pc'[h] = "lock" => answer'[h] = answer[h])
      /\ old'[h] \in {None, old[h]}
  <2>1. CASE Answer(h, 200)
    BY <2>1, AnswerKeeps
  <2>2. CASE /\ GoTo(h, "lock") /\ mine' = [mine EXCEPT ![h] = None]
             /\ UNCHANGED <<force, old, answer>>
    BY <1>1, <2>2 DEF HandlerTypes, OthersRest, GoTo
  <2> QED
    BY <2>1, <2>2 DEF Close
<1>3. mine[h] \in Ids /\ mine[h] # open
      /\ \A g \in Handlers \ {h} : pc[g] = "hook" => mine[g] # mine[h]
  BY <1>1 DEF ConnectInv, HandlerTypes, HandlerInPlace
<1>4. /\ running' = running \ {mine[h]} /\ UNCHANGED <<open, tools, dead, opened, abandoned, lock>>
      /\ lock' \in Handlers \cup {None}
  BY DEF Close, ConnectInv, TypeOK
<1>5. HandlerInPlace(h)'
  BY <1>1, <1>2, <1>4 DEF HandlerInPlace, Locked
<1> QED
  BY <1>1, <1>2, <1>3, <1>4, <1>5, TaskEnds

--------------------------------------------------------------------------------
(* The steps of a connect up to the new session, and its last one. *)
LEMMA QuietSteps ==
  ASSUME ConnectInv, NEW h \in Handlers,
         Post(h) \/ Acquire(h) \/ Reuse(h) \/ ProbeFails(h) \/ Authorize(h)
           \/ OpenFails(h) \/ ListTools(h)
  PROVE  ConnectInv'
<1>1. HandlerTypes /\ HandlerInPlace(h) /\ TypeOK
  BY TypesOfHandlers DEF ConnectInv
<1>2. /\ dead' = dead /\ UNCHANGED <<open, running, opened, abandoned>>
      /\ pc[h] \notin {"close", "hook", "closeold"}
      /\ dead' \subseteq 1 .. opened /\ tools' \in Ids \cup {None}
  <2>1. dead \subseteq 1 .. opened /\ tools \in Ids \cup {None} /\ mine[h] \in Ids \cup {None}
    BY <1>1 DEF TypeOK, HandlerTypes
  <2>2. UNCHANGED <<open, running, dead, opened, abandoned>> /\ tools' \in {tools, mine[h]}
    BY DEF Post, Acquire, Reuse, ProbeFails, Authorize, OpenFails, ListTools
  <2>3. pc[h] \notin {"close", "hook", "closeold"}
    BY DEF Post, Acquire, Reuse, ProbeFails, Authorize, OpenFails, ListTools
  <2> QED
    BY <2>1, <2>2, <2>3
<1>3. CASE Post(h)
  <2>1. HandlerTypes' /\ OthersRest(h) /\ pc'[h] = "lock" /\ answer'[h] = 0
    BY <1>1, <1>3 DEF HandlerTypes, OthersRest, Post, GoTo
  <2>2. HandlerInPlace(h)' /\ lock' = lock
    BY <1>1, <1>2, <1>3, <2>1 DEF HandlerInPlace, Locked, Post
  <2> QED
    BY <1>1, <1>2, <2>1, <2>2, QuietStep DEF TypeOK
<1>4. CASE Acquire(h)
  <2>1. /\ HandlerTypes' /\ OthersRest(h) /\ answer'[h] = answer[h] /\ force'[h] = force[h]
        /\ \/ pc'[h] = "probe" /\ mine'[h] = open /\ open # None
           \/ pc'[h] = "authorize" /\ mine'[h] = mine[h] /\ (force[h] \/ open = None)
    BY <1>1, <1>4, Counted DEF HandlerTypes, OthersRest, Acquire, GoTo, Locked
  <2>2. HandlerInPlace(h)' /\ lock = None /\ lock' = h /\ h # None
    BY <1>1, <1>2, <1>4, <2>1, Counted DEF HandlerInPlace, Locked, Acquire, Usable
  <2>3. \A g \in Handlers \ {h} : lock' = g <=> lock = g
    BY <2>2, Counted
  <2> QED
    BY <1>1, <1>2, <2>1, <2>2, <2>3, QuietStep DEF TypeOK
<1>5. CASE ProbeFails(h)
  <2>1. /\ HandlerTypes' /\ OthersRest(h) /\ pc'[h] = "authorize" /\ answer'[h] = answer[h]
        /\ force'[h] = force[h] /\ mine'[h] = None
    BY <1>1, <1>5 DEF HandlerTypes, OthersRest, ProbeFails, GoTo, Locked
  <2>2. HandlerInPlace(h)' /\ lock' = lock
    BY <1>1, <1>2, <1>5, <2>1 DEF HandlerInPlace, Locked, ProbeFails, Usable
  <2> QED
    BY <1>1, <1>2, <2>1, <2>2, QuietStep DEF TypeOK
<1>6. CASE Authorize(h) /\ GoTo(h, "open") /\ UNCHANGED <<lock, force, mine, old, answer>>
  <2>1. HandlerTypes' /\ OthersRest(h) /\ pc'[h] = "open"
    BY <1>1, <1>6 DEF HandlerTypes, OthersRest, GoTo, Locked
  <2>2. HandlerInPlace(h)'
    BY <1>1, <1>2, <1>6, <2>1 DEF HandlerInPlace, Locked, Authorize, Usable
  <2> QED
    BY <1>1, <1>2, <1>6, <2>1, <2>2, QuietStep DEF TypeOK
<1>7. ASSUME NEW code \in {0, 200, 400, 403, 500}, Release(h, code), pc[h] \in Locked
      PROVE  ConnectInv'
  <2>1. /\ HandlerTypes' /\ OthersRest(h)
        /\ pc'[h] = "idle" /\ mine'[h] = None /\ old'[h] = None
    BY <1>7, AnswerKeeps DEF Release
  <2>2. lock' = None /\ lock = h
    BY <1>1, <1>7 DEF Release, HandlerInPlace
  <2>3. HandlerInPlace(h)'
    BY <2>1, <2>2, Counted DEF HandlerInPlace, Locked
  <2>4. \A g \in Handlers \ {h} : lock' = g <=> lock = g
    BY <2>2, Counted
  <2> QED
    BY <1>1, <1>2, <2>1, <2>2, <2>3, <2>4, QuietStep DEF TypeOK
<1> QED
  BY <1>3, <1>4, <1>5, <1>6, <1>7 DEF Reuse, Authorize, OpenFails, ListTools, Locked

(* The new session has a number of its own. *)
LEMMA OpenKeeps ==
  ASSUME ConnectInv, NEW h \in Handlers, Open(h)
  PROVE  ConnectInv'
<1>1. HandlerTypes /\ HandlerInPlace(h) /\ TypeOK
  BY TypesOfHandlers DEF ConnectInv
<1>2. /\ opened \in Nat /\ opened + 1 \in Ids /\ opened + 1 # None /\ opened' = opened + 1
      /\ opened + 1 \notin running \cup abandoned /\ open # opened + 1
      /\ UNCHANGED <<open, tools, dead, abandoned, lock>>
      /\ running' = running \cup {opened + 1}
  BY Counted DEF Open, Ids
<1>3. /\ HandlerTypes' /\ OthersRest(h) /\ pc[h] = "open" /\ pc'[h] = "hook"
      /\ mine'[h] = opened + 1 /\ UNCHANGED <<force, old, answer>>
  BY <1>1, <1>2 DEF HandlerTypes, OthersRest, Open, GoTo, Locked
<1>4. TypeOK'
  <2>1. running' \subseteq 1 .. opened' /\ dead' \subseteq 1 .. opened' /\ opened' \in 0 .. MaxOpens
    BY <1>1, <1>2 DEF TypeOK, Ids
  <2> QED
    BY <1>1, <1>2, <1>3, <2>1 DEF TypeOK, HandlerTypes, Locked
<1>5. NoOrphanRunner'
  BY <1>1, <1>2, <1>3 DEF ConnectInv, NoOrphanRunner, Disposes, OthersRest
<1>6. OpenSessionRuns'
  BY <1>2 DEF ConnectInv, OpenSessionRuns
<1>7. \A g \in Handlers : mine[g] # None => mine[g] # opened + 1
  BY <1>2, Counted DEF ConnectInv, HandlerInPlace
<1>8. HandlerInPlace(h)'
  BY <1>1, <1>2, <1>3, <1>7 DEF HandlerInPlace, Locked, Usable, OthersRest
<1>9. ASSUME NEW g \in Handlers, g # h
      PROVE  HandlerInPlace(g)'
  <2>1. HandlerInPlace(g) /\ pc[g] # "hook"
    BY <1>3, <1>9, OneAtATime DEF ConnectInv, Locked
  <2>2. mine[g] \in Ids \cup {None} /\ \A i \in Ids : i \in Nat
    BY <1>1, Counted DEF HandlerTypes
  <2> QED
    BY <1>2, <1>3, <1>9, <2>1, <2>2 DEF HandlerInPlace, Locked, OthersRest, Usable
<1> QED
  BY <1>4, <1>5, <1>6, <1>8, <1>9 DEF ConnectInv

(* A session that cannot be registered, and the one that was replaced, end. *)
LEMMA HookFailsKeeps ==
  ASSUME ConnectInv, NEW h \in Handlers, HookFails(h)
  PROVE  ConnectInv'
<1>1. HandlerTypes /\ HandlerInPlace(h) /\ pc[h] = "hook" /\ Disposes(h, mine[h])
  BY TypesOfHandlers DEF ConnectInv, HookFails, Disposes
<1>2. HandlerTypes' /\ OthersRest(h) /\ pc'[h] = "idle" /\ mine'[h] = None /\ old'[h] = None
  BY AnswerKeeps DEF HookFails, Release
<1>3. /\ running' = running \ {mine[h]} /\ UNCHANGED <<open, tools, dead, opened, abandoned>>
      /\ lock' = None /\ lock = h /\ mine[h] \in Ids /\ mine[h] # open
  BY <1>1 DEF HookFails, Release, HandlerInPlace, HandlerTypes, Locked
<1>4. HandlerInPlace(h)'
  BY <1>2, <1>3, Counted DEF HandlerInPlace, Locked
<1>5. \A g \in Handlers \ {h} : (lock' = g <=> lock = g) /\ pc[g] # "hook"
  BY <1>1, <1>3, Counted, OneAtATime DEF Locked
<1> QED
  BY <1>1, <1>2, <1>3, <1>4, <1>5, TaskEnds

LEMMA CloseOldKeeps ==
  ASSUME ConnectInv, NEW h \in Handlers, CloseOld(h)
  PROVE  ConnectInv'
<1>1. HandlerTypes /\ HandlerInPlace(h) /\ pc[h] = "closeold" /\ Disposes(h, old[h])
  BY TypesOfHandlers DEF ConnectInv, CloseOld, Disposes
<1>2. /\ HandlerTypes' /\ OthersRest(h) /\ pc'[h] = "list" /\ mine'[h] = mine[h]
      /\ answer'[h] = answer[h]
  BY <1>1 DEF HandlerTypes, OthersRest, CloseOld, GoTo, Locked
<1>3. /\ running' = running \ {old[h]} /\ UNCHANGED <<open, tools, dead, opened, abandoned, lock>>
      /\ lock' \in Handlers \cup {None} /\ old[h] \in Ids /\ old[h] # open
  BY <1>1 DEF CloseOld, HandlerInPlace, HandlerTypes, ConnectInv, TypeOK
<1>4. HandlerInPlace(h)'
  BY <1>1, <1>2, <1>3 DEF HandlerInPlace, Locked
<1>5. \A g \in Handlers \ {h} : pc[g] # "hook"
  BY <1>1, OneAtATime DEF Locked
<1> QED
  BY <1>1, <1>2, <1>3, <1>4, <1>5, TaskEnds

(* on_mcp_connect and the swap: what was registered is kept to be closed.    *)
LEMMA SwapKeeps ==
  ASSUME ConnectInv, NEW h \in Handlers, Swap(h)
  PROVE  ConnectInv'
<1>1. HandlerTypes /\ HandlerInPlace(h) /\ TypeOK /\ pc[h] = "hook" /\ lock = h
  BY TypesOfHandlers DEF ConnectInv, Swap, HandlerInPlace, Locked
<1>2. /\ mine[h] \in Ids /\ mine[h] \in running /\ mine[h] # None /\ mine[h] # open
      /\ mine[h] \notin abandoned
  BY <1>1 DEF HandlerInPlace, HandlerTypes
<1>3. /\ open' = mine[h] /\ tools' \in {None, mine[h]} /\ UNCHANGED <<running, dead, opened, abandoned, lock>>
      /\ UNCHANGED <<force, mine, answer>>
      /\ old' = [old EXCEPT ![h] = open]
      /\ GoTo(h, IF open = None THEN "list" ELSE "closeold")
  BY DEF Swap, RegisteredTools
<1>4. /\ HandlerTypes' /\ OthersRest(h) /\ old'[h] = open
      /\ pc'[h] = IF open = None THEN "list" ELSE "closeold"
  BY <1>1, <1>3 DEF HandlerTypes, OthersRest, GoTo, Locked, TypeOK
<1>5. TypeOK'
  BY <1>1, <1>2, <1>3, <1>4 DEF TypeOK, HandlerTypes, Locked
<1>6. ASSUME NEW i \in running \ abandoned
      PROVE  open' = i \/ \E g \in Handlers : Disposes(g, i)'
  <2>1. CASE open = i
    BY <1>2, <1>4, <2>1, Counted DEF Disposes
  <2>2. ASSUME NEW g \in Handlers, Disposes(g, i)
        PROVE  open' = i \/ Disposes(g, i)'
    BY <1>1, <1>3, <1>4, <2>2 DEF Disposes, OthersRest
  <2> QED
    BY <2>1, <2>2 DEF ConnectInv, NoOrphanRunner
<1>7. NoOrphanRunner' /\ OpenSessionRuns'
  BY <1>2, <1>3, <1>6 DEF NoOrphanRunner, OpenSessionRuns
<1>8. HandlerInPlace(h)'
  BY <1>1, <1>2, <1>3, <1>4 DEF HandlerInPlace, Locked
<1>9. ASSUME NEW g \in Handlers, g # h
      PROVE  HandlerInPlace(g)'
  <2>1. HandlerInPlace(g) /\ pc[g] \notin Locked
    BY <1>1, <1>9, OneAtATime DEF ConnectInv, Locked
  <2>2. pc[g] = "close" => mine[g] # mine[h]
    BY <1>1 DEF HandlerInPlace
  <2> QED
    BY <1>3, <1>4, <1>9, <2>1, <2>2 DEF HandlerInPlace, Locked, OthersRest
<1> QED
  BY <1>5, <1>7, <1>8, <1>9 DEF ConnectInv

(* A turn that is stopped takes its reconnect along, wherever it stands. *)
LEMMA CancelKeeps ==
  ASSUME ConnectInv, NEW h \in Handlers, Cancel(h)
  PROVE  ConnectInv'
<1>1. HandlerTypes /\ HandlerInPlace(h) /\ TypeOK
  BY TypesOfHandlers DEF ConnectInv
<1>2. /\ HandlerTypes' /\ OthersRest(h)
      /\ pc'[h] = "idle" /\ mine'[h] = None /\ old'[h] = None
  BY AnswerKeeps DEF Cancel
<1>3. /\ lock' \in Handlers \cup {None} /\ lock' # h
      /\ \A g \in Handlers \ {h} : lock' = g <=> lock = g
      /\ UNCHANGED <<open, tools, dead>>
  BY <1>1, Counted DEF Cancel, TypeOK
<1>4. HandlerInPlace(h)'
  BY <1>2, <1>3 DEF HandlerInPlace, Locked
<1>5. CASE /\ pc[h] \in {"lock", "authorize", "open", "list"}
           /\ UNCHANGED <<running, opened, abandoned>>
  BY <1>1, <1>2, <1>3, <1>4, <1>5, QuietStep DEF TypeOK
<1>6. CASE /\ pc[h] = "close" /\ running' = running \ {mine[h]}
           /\ UNCHANGED <<opened, abandoned>>
  <2>1. mine[h] \in Ids /\ mine[h] # open /\ Disposes(h, mine[h])
        /\ \A g \in Handlers \ {h} : pc[g] = "hook" => mine[g] # mine[h]
    BY <1>1, <1>6 DEF ConnectInv, HandlerTypes, HandlerInPlace, Disposes
  <2> QED
    BY <1>2, <1>3, <1>4, <1>6, <2>1, TaskEnds
<1>7. CASE /\ pc[h] = "closeold" /\ running' = running \ {old[h]}
           /\ UNCHANGED <<opened, abandoned>>
  <2>1. old[h] \in Ids /\ old[h] # open /\ Disposes(h, old[h])
        /\ \A g \in Handlers \ {h} : pc[g] # "hook"
    BY <1>1, <1>7, OneAtATime DEF HandlerTypes, HandlerInPlace, Disposes, Locked
  <2> QED
    BY <1>2, <1>3, <1>4, <1>7, <2>1, TaskEnds
<1>8. ASSUME NEW i \in Ids, i # open,
             pc[h] \in {"open", "hook"},
             running' = running \cup {i}, abandoned' = abandoned \cup {i},
             opened' \in 0 .. MaxOpens, opened <= opened', i <= opened',
             \A g \in Handlers \ {h} : mine[g] # i
      PROVE  ConnectInv'
  <2>1. TypeOK'
    <3>1. running' \subseteq 1 .. opened' /\ dead' \subseteq 1 .. opened' /\ abandoned' \subseteq 1 .. opened'
      BY <1>1, <1>3, <1>8 DEF TypeOK, Ids
    <3> QED
      BY <1>1, <1>2, <1>3, <1>8, <3>1 DEF TypeOK, HandlerTypes, Locked
  <2>2. ASSUME NEW j \in running' \ abandoned'
        PROVE  open' = j \/ \E g \in Handlers : Disposes(g, j)'
    <3>1. j \in running \ abandoned /\ j # i
      BY <1>8, <2>2
    <3>2. open = j \/ \E g \in Handlers : Disposes(g, j)
      BY <3>1 DEF ConnectInv, NoOrphanRunner
    <3>3. Disposes(h, j) => j = i
      <4>1. ASSUME pc[h] = "hook" PROVE mine[h] = i
        <5>1. mine[h] \notin abandoned
          BY <1>1, <4>1 DEF HandlerInPlace
        <5>2. mine[h] \in abandoned'
          BY <4>1 DEF Cancel
        <5> QED
          BY <1>8, <5>1, <5>2
      <4> QED
        BY <1>8, <4>1 DEF Disposes
    <3> QED
      BY <1>2, <1>3, <3>1, <3>2, <3>3 DEF Disposes, OthersRest
  <2>3. NoOrphanRunner' /\ OpenSessionRuns'
    BY <1>3, <1>8, <2>2 DEF ConnectInv, NoOrphanRunner, OpenSessionRuns
  <2>4. ASSUME NEW g \in Handlers, g # h
        PROVE  HandlerInPlace(g)'
    <3>1. HandlerInPlace(g) /\ pc[g] \notin Locked /\ mine[g] # i
      BY <1>8, <2>4, OneAtATime DEF ConnectInv, Locked
    <3>2. mine[g] \in Ids \cup {None} /\ (\A j \in Ids : j \in Nat) /\ opened \in Nat /\ opened' \in Nat
      BY <1>1, <1>8, Counted DEF HandlerTypes
    <3> QED
      BY <1>2, <1>3, <1>8, <2>4, <3>1, <3>2 DEF HandlerInPlace, Locked, OthersRest
  <2> QED
    BY <1>4, <2>1, <2>3, <2>4 DEF ConnectInv
<1>9. CASE /\ pc[h] = "open" /\ opened < MaxOpens /\ opened' = opened + 1
           /\ running' = running \cup {opened + 1}
           /\ abandoned' = abandoned \cup {opened + 1}
  <2>1. /\ opened \in Nat /\ MaxOpens \in Nat /\ opened + 1 \in Ids /\ opened + 1 # open
        /\ opened' \in 0 .. MaxOpens /\ opened <= opened' /\ opened + 1 <= opened'
    BY <1>9, Counted DEF Ids
  <2>2. \A g \in Handlers : mine[g] # opened + 1
    BY <2>1, Counted DEF ConnectInv, HandlerInPlace
  <2> QED
    BY <1>8, <1>9, <2>1, <2>2
<1>10. CASE /\ pc[h] = "hook" /\ abandoned' = abandoned \cup {mine[h]}
            /\ UNCHANGED <<running, opened>>
  <2>1. /\ mine[h] \in Ids /\ mine[h] # open /\ mine[h] \in running /\ mine[h] # None
        /\ opened' \in 0 .. MaxOpens /\ opened <= opened' /\ mine[h] <= opened'
    BY <1>1, <1>10, Counted DEF HandlerInPlace, HandlerTypes, TypeOK
  <2>2. ASSUME NEW g \in Handlers \ {h}
        PROVE  mine[g] # mine[h]
    <3>1. pc[g] \in {"idle", "lock", "close"}
      BY <1>1, <1>10, OneAtATime DEF HandlerTypes, Locked
    <3>2. HandlerInPlace(g)
      BY DEF ConnectInv
    <3> QED
      BY <1>1, <1>10, <2>1, <3>1, <3>2 DEF HandlerInPlace
  <2>3. running' = running \cup {mine[h]}
    BY <1>10, <2>1
  <2> QED
    BY <1>8, <1>10, <2>1, <2>2, <2>3
<1> QED
  BY <1>5, <1>6, <1>7, <1>9, <1>10 DEF Cancel

(* A server that stops answering makes no session usable. *)
LEMMA DieKeeps ==
  ASSUME ConnectInv, (\E i \in Ids : Die(i)) \/ UNCHANGED vars
  PROVE  ConnectInv'
<1>1. /\ UNCHANGED <<open, tools, running, opened, abandoned, lock>> /\ UNCHANGED handler
      /\ dead \subseteq dead' /\ dead' \subseteq dead \cup running
  BY DEF Die, Usable, vars, handler
<1>2. TypeOK'
  <2>1. TypeOK
    BY DEF ConnectInv
  <2>2. dead' \subseteq 1 .. opened
    BY <1>1, <2>1 DEF TypeOK
  <2> QED
    BY <1>1, <2>1, <2>2 DEF TypeOK, handler
<1>3. NoOrphanRunner' /\ OpenSessionRuns'
  BY <1>1 DEF ConnectInv, NoOrphanRunner, OpenSessionRuns, Disposes, handler
<1>4. ASSUME NEW g \in Handlers
      PROVE  HandlerInPlace(g)'
  BY <1>1 DEF ConnectInv, HandlerInPlace, Usable, handler
<1> QED
  BY <1>2, <1>3, <1>4 DEF ConnectInv

(* No handler runs and nothing is connected when a websocket session begins. *)
LEMMA InitInPlace == Init => ConnectInv
<1> SUFFICES ASSUME Init
             PROVE  ConnectInv
  OBVIOUS
<1>1. TypeOK
  BY MaxOpensAssumption DEF Init, TypeOK
<1>2. \A h \in Handlers : HandlerInPlace(h)
  BY NoneAssumption DEF Init, HandlerInPlace, Locked
<1> QED
  BY <1>1, <1>2 DEF Init, ConnectInv, NoOrphanRunner, OpenSessionRuns

(* Every step keeps the invariant. *)
LEMMA StepInPlace == ConnectInv /\ [Next]_vars => ConnectInv'
  BY DieKeeps, DeleteKeeps, ReconnectKeeps, CloseKeeps, QuietSteps, OpenKeeps, HookFailsKeeps,
     SwapKeeps, CloseOldKeeps, CancelKeeps DEF Next

--------------------------------------------------------------------------------
(* Only a reconnect that is cancelled between create_task and the swap leaves *)
(* a background task behind, and the registered session has its transport,   *)
(* whichever handlers meet and whichever requests fail.                      *)
THEOREM ConnectInvariance == Spec => []ConnectInv
  BY InitInPlace, StepInPlace, PTL DEF Spec

(* A connect without force replaces a registered session only if the server  *)
(* behind it no longer answers.                                              *)
THEOREM UsableReused == Spec => UsableSessionIsReused
<1> DEFINE Reused == \A h \in Handlers : pc[h] = "hook" /\ open' = mine[h] /\ ~force[h]
                       => open = None \/ ~Usable(open)
<1>1. ConnectInv => Reused
  BY DEF ConnectInv, HandlerInPlace
<1>2. ConnectInv /\ [Next]_vars => [Reused]_vars
  BY <1>1
<1>3. Spec => [][Reused]_vars
  BY <1>2, ConnectInvariance, PTL DEF Spec
<1> QED
  BY <1>3 DEF UsableSessionIsReused

(* A connect that answers 200 leaves a session that runs and is registered,  *)
(* unless another handler has taken it out and is about to close it.         *)
THEOREM ConnectedRuns == Spec => ConnectedMeansOpen
<1> DEFINE Connected ==
      \A h \in Handlers : lock = h /\ answer'[h] = 200
        => /\ mine[h] \in running'
           /\ \/ open' = mine[h]
              \/ \E g \in Handlers : pc[g] = "close" /\ mine[g] = mine[h]
<1>1. ASSUME ConnectInv, Next, NEW h \in Handlers, lock = h, answer'[h] = 200
      PROVE  /\ mine[h] \in running'
             /\ \/ open' = mine[h]
                \/ \E g \in Handlers : pc[g] = "close" /\ mine[g] = mine[h]
  <2>1. HandlerTypes /\ pc[h] \in Locked /\ answer[h] = 0
    BY <1>1, TypesOfHandlers DEF ConnectInv, HandlerInPlace, Locked
  <2>2. (Reuse(h) \/ ListTools(h)) /\ pc[h] \in {"probe", "list"} /\ mine[h] \in running
        /\ UNCHANGED <<open, running>>
    BY <1>1, <2>1 DEF Next, HandlerTypes, Locked, Die, Post, Delete, Reconnect, Close, Acquire, Reuse,
         ProbeFails, Authorize, Open, OpenFails, HookFails, Swap, CloseOld, ListTools, Cancel,
         Release, Answer, Pop, handler, Usable
  <2>3. ASSUME NEW g \in Handlers, Disposes(g, mine[h])
        PROVE  pc[g] = "close" /\ mine[g] = mine[h]
    <3>1. pc[g] \in {"hook", "closeold"} => g = h
      BY <2>1, OneAtATime, <1>1 DEF Locked
    <3> QED
      BY <2>2, <2>3, <3>1 DEF Disposes
  <2>4. mine[h] \in running \ abandoned
    BY <1>1, <2>1, <2>2 DEF ConnectInv, HandlerInPlace
  <2> QED
    BY <1>1, <2>2, <2>3, <2>4 DEF ConnectInv, NoOrphanRunner
<1>2. ConnectInv /\ [Next]_vars => [Connected]_vars
  BY <1>1
<1>3. Spec => [][Connected]_vars
  BY <1>2, ConnectInvariance, PTL DEF Spec
<1> QED
  BY <1>3 DEF ConnectedMeansOpen

(* The steps a handler may have left before it answers. *)
StepsLeft == [idle |-> 0, list |-> 1, closeold |-> 2, hook |-> 3, open |-> 4,
              authorize |-> 5, probe |-> 6, lock |-> 7, close |-> 8]

(* The part of HandlersAnswer that needs no fairness: every step of a handler *)
(* brings it nearer to its answer, and no step of anybody else sets it back   *)
(* (neither a retry nor a loop in connect, disconnect and reconnect).         *)
THEOREM HandlersProgress ==
    Spec => [][\A h \in Handlers : pc[h] # "idle" =>
                 /\ StepsLeft[pc'[h]] <= StepsLeft[pc[h]]
                 /\ Work(h) \/ Cancel(h) => StepsLeft[pc'[h]] < StepsLeft[pc[h]]]_vars
<1> DEFINE Nearer == \A h \in Handlers : pc[h] # "idle" =>
                       /\ StepsLeft[pc'[h]] <= StepsLeft[pc[h]]
                       /\ Work(h) \/ Cancel(h) => StepsLeft[pc'[h]] < StepsLeft[pc[h]]
<1>1. ASSUME ConnectInv, NEW h \in Handlers, Work(h) \/ Cancel(h)
      PROVE  StepsLeft[pc'[h]] < StepsLeft[pc[h]]
  <2>1. pc \in [Handlers -> {"idle", "close", "lock", "probe", "authorize",
                             "open", "hook", "closeold", "list"}]
    BY <1>1 DEF ConnectInv, TypeOK
  <2>2. CASE Close(h)
    BY <2>1, <2>2 DEF Close, Answer, GoTo, StepsLeft
  <2>3. CASE Acquire(h)
    BY <2>1, <2>3 DEF Acquire, GoTo, StepsLeft
  <2>4. CASE Reuse(h) \/ OpenFails(h) \/ HookFails(h) \/ ListTools(h)
    BY <2>1, <2>4 DEF Reuse, OpenFails, HookFails, ListTools, Release, Answer, StepsLeft
  <2>5. CASE ProbeFails(h) \/ Open(h) \/ CloseOld(h)
    BY <2>1, <2>5 DEF ProbeFails, Open, CloseOld, GoTo, StepsLeft
  <2>6. CASE Authorize(h)
    BY <2>1, <2>6 DEF Authorize, Release, Answer, GoTo, StepsLeft
  <2>7. CASE Swap(h)
    BY <2>1, <2>7 DEF Swap, GoTo, StepsLeft
  <2>8. CASE Cancel(h)
    BY <2>1, <2>8 DEF Cancel, Answer, StepsLeft
  <2> QED
    BY <1>1, <2>2, <2>3, <2>4, <2>5, <2>6, <2>7, <2>8 DEF Work
<1>2. ASSUME ConnectInv, Next, NEW h \in Handlers, pc[h] # "idle", ~Work(h), ~Cancel(h)
      PROVE  pc'[h] = pc[h]
  <2>1. pc \in [Handlers -> {"idle", "close", "lock", "probe", "authorize",
                             "open", "hook", "closeold", "list"}]
    BY <1>2 DEF ConnectInv, TypeOK
  <2>2. ASSUME NEW g \in Handlers, Post(g) \/ Delete(g) \/ Reconnect(g)
        PROVE  pc'[h] = pc[h]
    BY <1>2, <2>1, <2>2 DEF Post, Delete, Reconnect, Answer, Pop, GoTo
  <2>3. ASSUME NEW g \in Handlers, Work(g) \/ Cancel(g)
        PROVE  pc'[h] = pc[h]
    <3>1. g # h
      BY <1>2, <2>3
    <3> QED
      BY <2>1, <2>3, <3>1 DEF Work, Close, Acquire, Reuse, ProbeFails, Authorize, Open, OpenFails,
           HookFails, Swap, CloseOld, ListTools, Cancel, Release, Answer, GoTo
  <2>4. ASSUME NEW i \in Ids, Die(i)
        PROVE  pc'[h] = pc[h]
    BY <2>4 DEF Die, handler
  <2> QED
    BY <1>2, <2>2, <2>3, <2>4 DEF Next, Work
<1>3. ConnectInv /\ ConnectInv' /\ [Next]_vars => [Nearer]_vars
  <2> SUFFICES ASSUME ConnectInv, ConnectInv', Next, NEW h \in Handlers, pc[h] # "idle"
               PROVE  /\ StepsLeft[pc'[h]] <= StepsLeft[pc[h]]
                      /\ Work(h) \/ Cancel(h) => StepsLeft[pc'[h]] < StepsLeft[pc[h]]
    OBVIOUS
  <2>1. StepsLeft[pc[h]] \in Nat /\ StepsLeft[pc'[h]] \in Nat
    BY DEF ConnectInv, TypeOK, StepsLeft
  <2>2. CASE Work(h) \/ Cancel(h)
    BY <1>1, <2>1, <2>2
  <2>3. CASE ~Work(h) /\ ~Cancel(h)
    BY <1>2, <2>1, <2>3
  <2> QED
    BY <2>2, <2>3
<1>4. Spec => [][Nearer]_vars
  BY <1>3, ConnectInvariance, PTL DEF Spec
<1> QED
  BY <1>4

(* A handler that waits for the lock waits for one that is at work: nobody    *)
(* answers, or waits for it a second time, with the lock in hand.             *)
THEOREM WaitsForWork ==
    Spec => [](\A h \in Handlers : pc[h] = "lock" =>
                 lock = None \/ \E g \in Handlers \ {h} : lock = g /\ pc[g] \in Locked)
<1>1. ConnectInv => \A h \in Handlers : pc[h] = "lock" =>
        lock = None \/ \E g \in Handlers \ {h} : lock = g /\ pc[g] \in Locked
  BY DEF ConnectInv, TypeOK, HandlerInPlace, Locked
<1> QED
  BY <1>1, ConnectInvariance, PTL

--------------------------------------------------------------------------------
(* Where such a connect goes: GatewayCatalogue, for any registries, Gateways *)
(* and names.                                                                *)

(* An entry of a registry, and the servers in it. *)
LEMMA EntryAt ==
  ASSUME CatalogueConstants, NEW reg \in Registries, NEW k \in DOMAIN reg
  PROVE  /\ k \in Nat /\ Len(reg) \in Nat /\ k <= Len(reg)
         /\ reg[k].url \in Urls \cup {NoUrl}
         /\ reg[k].servers \in Seq(Servers)
         /\ KeyedById(reg[k].servers)
<1>1. reg \in Seq(Gateways) /\ KeyedById(reg[k].servers)
  BY DEF CatalogueConstants
<1>2. reg[k] \in Gateways /\ k \in Nat /\ Len(reg) \in Nat /\ k <= Len(reg)
  BY <1>1
<1> QED
  BY <1>1, <1>2 DEF Gateways

LEMMA PositionType ==
  ASSUME CatalogueConstants, NEW reg \in Registries, NEW p \in UiServers(reg)
  PROVE  /\ p[1] \in DOMAIN reg /\ p[1] \in Nat /\ p[1] <= Len(reg) /\ Len(reg) \in Nat
         /\ p[2] \in DOMAIN reg[p[1]].servers /\ p[2] \in Nat
         /\ p[2] <= Len(reg[p[1]].servers) /\ Len(reg[p[1]].servers) \in Nat
         /\ p = <<p[1], p[2]>>
         /\ ServerAt(reg, p) \in Servers /\ ServerAt(reg, p).enabled
<1>1. PICK k \in DOMAIN reg : p \in {k} \X DOMAIN reg[k].servers
  BY DEF UiServers
<1>2. p[1] = k /\ p[2] \in DOMAIN reg[k].servers /\ p = <<p[1], p[2]>>
  BY <1>1
<1>3. /\ k \in Nat /\ k <= Len(reg) /\ Len(reg) \in Nat
      /\ reg[k].servers \in Seq(Servers)
  BY EntryAt
<1>4. /\ p[2] \in Nat /\ p[2] <= Len(reg[k].servers) /\ Len(reg[k].servers) \in Nat
      /\ reg[k].servers[p[2]] \in Servers
  BY <1>2, <1>3
<1>5. ServerAt(reg, p).enabled
  BY DEF UiServers, ServerAt
<1> QED
  BY <1>1, <1>2, <1>3, <1>4, <1>5 DEF ServerAt

(* A non-empty set of numbers has a smallest element. *)
LEMMA SmallestNumber ==
  ASSUME NEW S, S \subseteq Nat, S # {}
  PROVE  \E k \in S : \A j \in S : k <= j
<1> DEFINE R == OpToRel(<, Nat)
<1>1. IsWellFoundedOn(R, Nat)
  BY NatLessThanWellFounded
<1> HIDE DEF R
<1>2. PICK k \in S : \A j \in S : ~ (<<j, k>> \in R)
  BY <1>1, WFMin
<1>3. \A j \in S : ~(j < k)
  BY <1>2 DEF R, OpToRel
<1> QED
  BY <1>3

(* Of the enabled servers with a name, one is the last in the file. *)
LEMMA LastIsNamed ==
  ASSUME CatalogueConstants, NEW reg \in Registries, NEW n, Named(reg, n) # {}
  PROVE  LastNamed(reg, n) \in Named(reg, n)
<1> DEFINE N == Named(reg, n)
<1>1. \A p \in N : p \in UiServers(reg)
  BY DEF Named
<1>2. PICK p \in N : \A q \in N : q[1] <= p[1]
  <2> DEFINE S == {Len(reg) - q[1] : q \in N}
  <2>1. \A q \in N : q[1] \in Nat /\ q[1] <= Len(reg) /\ Len(reg) \in Nat
    BY <1>1, PositionType
  <2>2. S \subseteq Nat /\ S # {}
    BY <2>1
  <2>3. PICK k \in S : \A j \in S : k <= j
    BY <2>2, SmallestNumber
  <2>4. PICK p \in N : k = Len(reg) - p[1]
    BY <2>3
  <2>5. \A q \in N : Len(reg) - p[1] <= Len(reg) - q[1]
    BY <2>3, <2>4
  <2>6. \A q \in N : q[1] <= p[1]
    <3> HIDE DEF N
    <3> QED
      BY <2>1, <2>5
  <2> QED
    BY <2>6
<1>3. PICK r \in N : r[1] = p[1] /\ \A q \in N : q[1] = p[1] => q[2] <= r[2]
  <2> DEFINE M == {q \in N : q[1] = p[1]}
             L == Len(reg[p[1]].servers)
             S == {L - q[2] : q \in M}
  <2>1. \A q \in M : q[2] \in Nat /\ q[2] <= L /\ L \in Nat
    BY <1>1, PositionType
  <2> HIDE DEF L
  <2>2. S \subseteq Nat /\ S # {}
    BY <2>1, <1>2
  <2>3. PICK k \in S : \A j \in S : k <= j
    BY <2>2, SmallestNumber
  <2>4. PICK r \in M : k = L - r[2]
    BY <2>3
  <2>5. \A q \in M : L - r[2] <= L - q[2]
    BY <2>3, <2>4
  <2>6. \A q \in M : q[2] <= r[2]
    BY <2>1, <2>5
  <2> QED
    BY <2>4, <2>6
<1>4. \A q \in N : Before(q, r)
  <2> TAKE q \in N
  <2>1. q[1] \in Nat /\ p[1] \in Nat /\ q[1] <= p[1]
    BY <1>1, <1>2, PositionType
  <2> QED
    BY <2>1, <1>3 DEF Before
<1> QED
  BY <1>3, <1>4 DEF LastNamed

(* The Gateway of a name and the id of a name. *)
LEMMA NameTypes ==
  ASSUME CatalogueConstants, NEW reg \in Registries, NEW n, Named(reg, n) # {}
  PROVE  /\ NameToId(reg, n) \in ServerIds
         /\ NameToUrl(reg, n) \in Urls \cup {NoUrl}
<1>1. LastNamed(reg, n) \in UiServers(reg)
  BY LastIsNamed DEF Named
<1>2. /\ LastNamed(reg, n)[1] \in DOMAIN reg
      /\ ServerAt(reg, LastNamed(reg, n)) \in Servers
  BY <1>1, PositionType
<1>3. reg[LastNamed(reg, n)[1]].url \in Urls \cup {NoUrl}
  BY <1>2, EntryAt
<1> QED
  BY <1>2, <1>3 DEF NameToId, NameToUrl, Servers

(* A process takes the servers of an entry with its PUBLIC_BASE_URL, of the  *)
(* only entry if there is none, or no servers.                               *)
LEMMA OwnEntry ==
  ASSUME CatalogueConstants, NEW reg \in Registries, NEW p \in Processes
  PROVE  LET own == {j \in DOMAIN reg : reg[j].url = PublicUrl[p]} IN
         /\ own # {} => \E j \in own : ServersFor(reg, p) = reg[j].servers
         /\ own = {} /\ Len(reg) = 1 => ServersFor(reg, p) = reg[1].servers
         /\ own = {} /\ Len(reg) # 1 => ServersFor(reg, p) = <<>>
<1> DEFINE own == {j \in DOMAIN reg : reg[j].url = PublicUrl[p]}
           first == CHOOSE m \in own : \A j \in own : m <= j
<1>1. own \subseteq Nat
  BY EntryAt
<1>2. ASSUME own # {}
      PROVE  first \in own
  <2>1. \E m \in own : \A j \in own : m <= j
    BY <1>1, <1>2, SmallestNumber
  <2> QED
    BY <2>1
<1>3. own # {} => ServersFor(reg, p) = reg[first].servers
  BY DEF ServersFor
<1>4. /\ own = {} /\ Len(reg) = 1 => ServersFor(reg, p) = reg[1].servers
      /\ own = {} /\ Len(reg) # 1 => ServersFor(reg, p) = <<>>
  BY DEF ServersFor
<1> HIDE DEF first
<1> QED
  BY <1>2, <1>3, <1>4

(* A name that stands in the registry once, as its id does, has one place. *)
LEMMA Home ==
  ASSUME CatalogueConstants, chat \in Registries, NEW n, Unambiguous(n)
  PROVE  LET p == LastNamed(chat, n) IN
         /\ Named(chat, n) = {p}
         /\ p[1] \in GatewayUrls(chat) /\ chat[p[1]].url = NameToUrl(chat, n)
         /\ p[2] \in DOMAIN chat[p[1]].servers
         /\ chat[p[1]].servers[p[2]].id = NameToId(chat, n)
         /\ chat[p[1]].servers[p[2]].enabled
         /\ chat[p[1]].servers[p[2]].permitted <=> Permitted(n)
         /\ \A k \in DOMAIN chat : chat[k].url = NameToUrl(chat, n) => k = p[1]
         /\ \A k \in DOMAIN chat : \A i \in DOMAIN chat[k].servers :
              chat[k].servers[i].id = NameToId(chat, n) => k = p[1]
<1> DEFINE p == LastNamed(chat, n)
           holders == {k \in DOMAIN chat : \E i \in DOMAIN chat[k].servers :
                         chat[k].servers[i].id = NameToId(chat, n)}
<1>1. Named(chat, n) = {p}
  BY LastIsNamed DEF Unambiguous, Once
<1>2. /\ p[1] \in DOMAIN chat /\ p[2] \in DOMAIN chat[p[1]].servers
      /\ ServerAt(chat, p).enabled
  BY <1>1, PositionType DEF Named
<1>3. /\ chat[p[1]].servers[p[2]].id = NameToId(chat, n)
      /\ chat[p[1]].url = NameToUrl(chat, n)
      /\ chat[p[1]].servers[p[2]].enabled
      /\ chat[p[1]].servers[p[2]].permitted <=> Permitted(n)
  BY <1>2 DEF NameToId, NameToUrl, ServerAt, Permitted
<1>4. p[1] \in holders
  BY <1>2, <1>3
<1>5. Once(holders) /\ NameToUrl(chat, n) # NoUrl
      /\ Once({k \in DOMAIN chat : chat[k].url = NameToUrl(chat, n)})
  BY DEF Unambiguous
<1>6. \A k \in holders : k = p[1]
  BY <1>4, <1>5 DEF Once
<1>7. \A k \in DOMAIN chat : chat[k].url = NameToUrl(chat, n) => k = p[1]
  BY <1>2, <1>3, <1>5 DEF Once
<1> HIDE DEF p
<1>8. p[1] \in GatewayUrls(chat)
  BY <1>2, <1>3, <1>5 DEF GatewayUrls
<1> QED
  BY <1>1, <1>2, <1>3, <1>6, <1>7, <1>8 DEF p

(* Such a name has a URL, and its Gateway one of itself. *)
LEMMA HomeUrls ==
  ASSUME CatalogueConstants, chat \in Registries, NEW n, Unambiguous(n)
  PROVE  /\ NameToUrl(chat, n) \in Urls /\ ProcessAt[NameToUrl(chat, n)] \in Processes
         /\ OwnUrls(n) \subseteq Urls
<1>1. Named(chat, n) # {} /\ NameToUrl(chat, n) # NoUrl
  BY DEF Unambiguous, Once
<1>2. NameToUrl(chat, n) \in Urls
  BY <1>1, NameTypes
<1> QED
  BY <1>2 DEF OwnUrls, CatalogueConstants

(* A Gateway with the registry of the chat UI that has the id of such a name *)
(* gives one of the name's URLs for it: the process found the name's entry   *)
(* by its PUBLIC_BASE_URL, or the registry has that entry only, ...          *)
LEMMA OnlyHomeLists ==
  ASSUME CatalogueConstants, chat \in Registries, NEW n, Unambiguous(n),
         NEW k \in DOMAIN chat, chat[k].url \in Urls,
         gateway[ProcessAt[chat[k].url]] = chat,
         Lists(ProcessAt[chat[k].url], NameToId(chat, n))
  PROVE  PublicUrl[ProcessAt[chat[k].url]] \in OwnUrls(n)
<1> DEFINE p == ProcessAt[chat[k].url]
           own == {j \in DOMAIN chat : chat[j].url = PublicUrl[p]}
           h == LastNamed(chat, n)[1]
<1>1. p \in Processes
  BY DEF CatalogueConstants
<1>2. \E i \in DOMAIN ServersFor(chat, p) : ServersFor(chat, p)[i].id = NameToId(chat, n)
  BY DEF Lists
<1>3. /\ h \in DOMAIN chat /\ chat[h].url = NameToUrl(chat, n)
      /\ \A j \in DOMAIN chat : \A i \in DOMAIN chat[j].servers :
           chat[j].servers[i].id = NameToId(chat, n) => j = h
  BY Home DEF GatewayUrls
<1>4. CASE own # {}
  <2>1. PICK j \in own : ServersFor(chat, p) = chat[j].servers
    BY <1>1, <1>4, OwnEntry
  <2>2. j = h
    BY <1>2, <1>3, <2>1
  <2> QED
    BY <1>3, <2>1, <2>2 DEF OwnUrls
<1>5. CASE own = {} /\ Len(chat) = 1
  <2>1. h = 1 /\ k = 1
    <3>1. h \in Nat /\ k \in Nat /\ h <= 1 /\ k <= 1 /\ 1 <= h /\ 1 <= k
      <4>1. chat \in Seq(Gateways)
        BY DEF CatalogueConstants
      <4> HIDE DEF h
      <4> QED
        BY <1>3, <1>5, <4>1
    <3> HIDE DEF h
    <3> QED
      BY <3>1
  <2> QED
    BY <1>3, <2>1 DEF OwnUrls
<1>6. CASE own = {} /\ Len(chat) # 1
  <2>1. ServersFor(chat, p) = <<>>
    BY <1>1, <1>6, OwnEntry
  <2> QED
    BY <1>2, <2>1
<1> QED
  BY <1>4, <1>5, <1>6

(* ... and the name's Gateway lists it, if the process takes that entry for  *)
(* its own and the caller is permitted.                                      *)
LEMMA HomeLists ==
  ASSUME CatalogueConstants, chat \in Registries, NEW n, Unambiguous(n),
         Permitted(n), TakesEntry(n), gateway[ProcessAt[NameToUrl(chat, n)]] = chat
  PROVE  Lists(ProcessAt[NameToUrl(chat, n)], NameToId(chat, n))
<1> DEFINE h == LastNamed(chat, n)
           u == NameToUrl(chat, n)
           p == ProcessAt[u]
           own == {j \in DOMAIN chat : chat[j].url = PublicUrl[p]}
<1>1. /\ h[1] \in DOMAIN chat /\ chat[h[1]].url = u
      /\ \A j \in DOMAIN chat : chat[j].url = u => j = h[1]
  BY Home DEF GatewayUrls
<1>2. p \in Processes
  BY HomeUrls
<1>3. ServersFor(chat, p) = chat[h[1]].servers
  <2>1. own = {h[1]} \/ (own = {} /\ Len(chat) = 1 /\ h[1] = 1)
    <3>1. CASE PublicUrl[p] = u
      BY <1>1, <3>1
    <3>2. CASE Len(chat) = 1
      <4>1. DOMAIN chat = {1}
        <5>1. chat \in Seq(Gateways)
          BY DEF CatalogueConstants
        <5> QED
          BY <3>2, <5>1
      <4> HIDE DEF h
      <4> QED
        BY <1>1, <3>2, <4>1
    <3>3. PublicUrl[p] = u \/ Len(chat) = 1
      BY DEF TakesEntry, OwnUrls
    <3> QED
      BY <3>1, <3>2, <3>3
  <2> HIDE DEF h, p
  <2> QED
    BY <1>2, <2>1, OwnEntry
<1>4. /\ h[2] \in DOMAIN chat[h[1]].servers
      /\ chat[h[1]].servers[h[2]].id = NameToId(chat, n)
      /\ chat[h[1]].servers[h[2]].enabled
      /\ chat[h[1]].servers[h[2]].permitted
  BY Home
<1> HIDE DEF h, u
<1> QED
  BY <1>3, <1>4 DEF Lists, h, u

(* The Gateway that is asked next has an origin. *)
LEMMA AskedUrl ==
  ASSUME CatalogueConstants, chat \in Registries, NEW k \in ToAsk
  PROVE  /\ k \in DOMAIN chat /\ k \in Nat /\ chat[k].url \in Urls
         /\ ProcessAt[chat[k].url] \in Processes
         /\ PublicUrl[ProcessAt[chat[k].url]] \in Urls
<1>1. k \in DOMAIN chat /\ chat[k].url # NoUrl
  BY DEF ToAsk, GatewayUrls
<1>2. k \in Nat /\ chat[k].url \in Urls
  BY <1>1, EntryAt
<1> QED
  BY <1>1, <1>2 DEF CatalogueConstants

(* A label that is shown is put on the entries of its name only. *)
LEMMA ShownEntries ==
  ASSUME page \subseteq Entries, NEW n, NEW label \in Urls \cup {NoUrl}, Shown(n, label)
  PROVE  /\ page' \subseteq Entries
         /\ \A e \in page' : \/ e.name = n /\ e.gateway /\ e.label = label
                             \/ e \in page /\ ~(e.name = n /\ e.gateway)
<1>1. ASSUME NEW e \in page'
      PROVE  /\ e \in Entries
             /\ \/ e.name = n /\ e.gateway /\ e.label = label
                \/ e \in page /\ ~(e.name = n /\ e.gateway)
  <2>1. PICK f \in page :
          e = IF f.name = n /\ f.gateway THEN [f EXCEPT !.label = label] ELSE f
    BY <1>1 DEF Shown
  <2>2. CASE f.name = n /\ f.gateway
    BY <2>1, <2>2 DEF Entries
  <2>3. CASE ~(f.name = n /\ f.gateway)
    BY <2>1, <2>3
  <2> QED
    BY <2>2, <2>3
<1> QED
  BY <1>1

LEMMA CatalogueTypes ==
  ASSUME CatalogueConstants, CatalogueInv, [CatalogueNext]_catalogueVars
  PROVE  CatalogueTypeOK'
<1>0. /\ file \in Registries /\ chat \in Registries
      /\ gateway \in [Processes -> Registries \cup {Down}]
      /\ drift \in BOOLEAN /\ page \subseteq Entries
      /\ session \in [Names -> Endpoints \cup {Absent}]
      /\ connect \in Connects \cup {Absent} /\ status \in {0, 200, 400, 403, 500}
  BY DEF CatalogueInv, CatalogueTypeOK
<1>1. CASE EditRegistry
  BY <1>0, <1>1 DEF EditRegistry, CatalogueTypeOK
<1>2. CASE StartChat
  BY <1>0, <1>2 DEF StartChat, Drifted, CatalogueTypeOK
<1>3. ASSUME NEW p \in Processes, StartGateway(p) \/ StopGateway(p)
      PROVE  CatalogueTypeOK'
  <2>1. drift' \in BOOLEAN
    BY <1>0, <1>3 DEF StartGateway, StopGateway
  <2>2. gateway' \in [Processes -> Registries \cup {Down}]
    BY <1>0, <1>3 DEF StartGateway, StopGateway
  <2>3. UNCHANGED <<file, chat, page, session, connect, status>>
    BY <1>3 DEF StartGateway, StopGateway
  <2> QED
    BY <1>0, <2>1, <2>2, <2>3 DEF CatalogueTypeOK
<1>4. CASE LoadPage
  <2>1. ASSUME NEW p \in UiServers(chat)
        PROVE  [name |-> ServerAt(chat, p).name, label |-> chat[p[1]].url,
                gateway |-> TRUE] \in Entries
    BY <1>0, <2>1, PositionType, EntryAt DEF Servers, Entries
  <2>2. page' \subseteq Entries
    BY <1>0, <1>4, <2>1 DEF LoadPage
  <2> QED
    BY <1>0, <1>4, <2>2 DEF LoadPage, CatalogueTypeOK
<1>5. ASSUME NEW n \in Names, AddOwn(n) \/ Disconnect(n)
      PROVE  CatalogueTypeOK'
  <2>1. page' \subseteq Entries
    <3> DEFINE own == [name |-> n, label |-> NoUrl, gateway |-> FALSE]
    <3>1. own \in Entries /\ (AddOwn(n) => page' = page \cup {own})
      BY DEF Entries, AddOwn
    <3> HIDE DEF own
    <3>2. CASE AddOwn(n)
      BY <1>0, <3>1, <3>2
    <3>3. CASE Disconnect(n)
      BY <1>0, <3>3 DEF Disconnect
    <3> QED
      BY <1>5, <3>2, <3>3
  <2> QED
    BY <1>0, <1>5, <2>1 DEF AddOwn, Disconnect, CatalogueTypeOK
<1>6. ASSUME NEW n \in Names, Connect(n)
      PROVE  CatalogueTypeOK'
  <2>1. NameToId(chat, n) \in ServerIds /\ NameToUrl(chat, n) \in Urls \cup {NoUrl}
    BY <1>0, <1>6, NameTypes DEF Connect
  <2>2. page' \subseteq Entries
    BY <1>0, <1>6, <2>1, ShownEntries DEF Connect, ReuseSession
  <2>3. connect' \in Connects \cup {Absent} /\ status' \in {0, 200}
    BY <1>6, <2>1 DEF Connect, ReuseSession, Ends, Connects
  <2> QED
    BY <1>0, <1>6, <2>2, <2>3 DEF Connect, CatalogueTypeOK
<1>7. CASE AskNext
  <2>1. PICK k \in ToAsk : Listed(k) \/ ListingError(k) \/ Unreachable(k)
    BY <1>7 DEF AskNext
  <2>2. /\ k \in Nat /\ chat[k].url \in Urls /\ connect \in Connects
        /\ PublicUrl[ProcessAt[chat[k].url]] \in Urls
    BY <1>0, <1>7, <2>1, AskedUrl DEF AskNext
  <2>3. connect' \in Connects \cup {Absent} /\ status' \in {0, 200, 400, 403, 500}
    <3>1. CASE Listed(k)
      <4> DEFINE p == ProcessAt[chat[k].url]
                 found == IF connect.found = Absent /\ Lists(p, connect.id)
                            THEN PublicUrl[p] ELSE connect.found
      <4>1. connect' = [connect EXCEPT !.next = k + 1, !.found = found] /\ status' = status
        BY <3>1 DEF Listed
      <4>2. found \in Urls \cup {Absent}
        BY <2>2 DEF Connects
      <4> HIDE DEF found
      <4>3. connect' = [name |-> connect.name, id |-> connect.id, next |-> k + 1,
                        found |-> found, failed |-> connect.failed]
        BY <2>2, <4>1 DEF Connects
      <4>4. connect' \in Connects
        BY <2>2, <4>2, <4>3 DEF Connects
      <4> QED
        BY <1>0, <4>1, <4>4
    <3>2. CASE ListingError(k)
      <4>1. connect' = [name |-> connect.name, id |-> connect.id, next |-> k + 1,
                        found |-> connect.found, failed |-> connect.failed \cup {chat[k].url}]
            /\ status' = status
        BY <2>2, <3>2 DEF ListingError, Connects
      <4>2. connect' \in Connects
        BY <2>2, <4>1 DEF Connects
      <4> QED
        BY <1>0, <4>1, <4>2
    <3>3. CASE Unreachable(k)
      BY <3>3 DEF Unreachable, Ends
    <3> QED
      BY <2>1, <3>1, <3>2, <3>3
  <2> QED
    BY <1>0, <1>7, <2>3 DEF AskNext, CatalogueTypeOK
<1>8. CASE Refuse
  BY <1>0, <1>8 DEF Refuse, Ends, CatalogueTypeOK
<1>9. CASE OpenSession
  <2>1. connect \in Connects /\ connect' = Absent /\ status' \in {200, 400}
    BY <1>0, <1>9 DEF OpenSession, Ends
  <2>2. connect.found # Absent
    BY <1>9 DEF OpenSession
  <2>3. connect.found \in Urls /\ connect.name \in Names /\ connect.id \in ServerIds
    BY <2>1, <2>2 DEF Connects
  <2>4. page' \subseteq Entries
    BY <1>0, <1>9, <2>3, ShownEntries DEF OpenSession
  <2>5. session' \in [Names -> Endpoints \cup {Absent}]
    BY <1>0, <1>9, <2>3 DEF OpenSession, Endpoints
  <2> QED
    BY <1>0, <1>9, <2>1, <2>4, <2>5 DEF OpenSession, CatalogueTypeOK
<1>10. CASE UNCHANGED catalogueVars
  BY <1>0, <1>10 DEF catalogueVars, CatalogueTypeOK
<1> QED
  BY <1>1, <1>2, <1>3, <1>4, <1>5, <1>6, <1>7, <1>8, <1>9, <1>10 DEF CatalogueNext

(* Without drift the Gateways that run have the registry of the chat UI. *)
LEMMA GatewaysInStep ==
  ASSUME CatalogueInv, [CatalogueNext]_catalogueVars
  PROVE  SameRegistry'
<1>0. /\ gateway \in [Processes -> Registries \cup {Down}]
      /\ ~drift => \A p \in Processes : gateway[p] \in {chat, Down}
  BY DEF CatalogueInv, CatalogueTypeOK, SameRegistry
<1>1. CASE StartChat
  BY <1>0, <1>1 DEF StartChat, Drifted, SameRegistry
<1>2. ASSUME NEW p \in Processes, StartGateway(p) \/ StopGateway(p)
      PROVE  SameRegistry'
  BY <1>0, <1>2 DEF StartGateway, StopGateway, SameRegistry
<1>3. CASE UNCHANGED <<chat, gateway, drift>>
  BY <1>0, <1>3 DEF SameRegistry
<1>4. \/ StartChat
      \/ \E p \in Processes : StartGateway(p) \/ StopGateway(p)
      \/ UNCHANGED <<chat, gateway, drift>>
  BY DEF CatalogueNext, catalogueVars, EditRegistry, LoadPage, AddOwn, Disconnect,
         Connect, AskNext, Refuse, OpenSession
<1> QED
  BY <1>1, <1>2, <1>3, <1>4

(* Where the sessions of names lead that stand in the registry once. *)
LEMMA SessionsLead ==
  ASSUME CatalogueConstants, CatalogueInv, [CatalogueNext]_catalogueVars
  PROVE  SessionsInPlace'
<1>0. /\ session \in [Names -> Endpoints \cup {Absent}]
      /\ SessionsInPlace /\ ConnectInPlace
  BY DEF CatalogueInv, CatalogueTypeOK
<1>1. CASE StartChat
  BY <1>1 DEF StartChat, SessionsInPlace
<1>2. ASSUME NEW p \in Processes, StartGateway(p)
      PROVE  SessionsInPlace'
  <2>1. UNCHANGED <<chat, session>> /\ (drift => drift')
    BY <1>2 DEF StartGateway
  <2> QED
    BY <1>0, <2>1 DEF SessionsInPlace, Unambiguous, OwnUrls
<1>3. ASSUME NEW n \in Names, Disconnect(n)
      PROVE  SessionsInPlace'
  <2>1. UNCHANGED <<chat, drift>> /\ session' = [session EXCEPT ![n] = Absent]
    BY <1>3 DEF Disconnect
  <2>2. \A m \in Names : session'[m] # Absent => session'[m] = session[m]
    BY <1>0, <2>1
  <2> QED
    BY <1>0, <2>1, <2>2 DEF SessionsInPlace, Unambiguous, OwnUrls
<1>4. CASE OpenSession
  <2>1. UNCHANGED <<chat, drift>> /\ connect # Absent /\ connect.found # Absent
    BY <1>4 DEF OpenSession
  <2>2. CASE session' = session
    BY <1>0, <2>1, <2>2 DEF SessionsInPlace, Unambiguous, OwnUrls
  <2>3. CASE session' = [session EXCEPT ![connect.name] =
                           [url |-> connect.found, id |-> connect.id]]
    <3>1. ASSUME ~drift, NEW n \in Names, Unambiguous(n), session'[n] # Absent
          PROVE  session'[n].url \in OwnUrls(n)
      <4>1. CASE n = connect.name
        <5>1. connect.found \in OwnUrls(n)
          BY <1>0, <2>1, <3>1, <4>1 DEF ConnectInPlace
        <5>2. session'[n] = [url |-> connect.found, id |-> connect.id]
          BY <1>0, <2>3, <3>1, <4>1
        <5> QED
          BY <5>1, <5>2
      <4>2. CASE n # connect.name
        BY <1>0, <2>3, <3>1, <4>2 DEF SessionsInPlace
      <4> QED
        BY <4>1, <4>2
    <3> QED
      BY <2>1, <3>1 DEF SessionsInPlace, Unambiguous, OwnUrls
  <2> QED
    BY <1>4, <2>2, <2>3 DEF OpenSession
<1>5. CASE UNCHANGED <<chat, drift, session>>
  BY <1>0, <1>5 DEF SessionsInPlace, Unambiguous, OwnUrls
<1>6. \/ StartChat \/ OpenSession
      \/ \E p \in Processes : StartGateway(p)
      \/ \E n \in Names : Disconnect(n)
      \/ UNCHANGED <<chat, drift, session>>
  BY DEF CatalogueNext, catalogueVars, EditRegistry, StopGateway, LoadPage, AddOwn,
         Connect, AskNext, Refuse
<1> QED
  BY <1>1, <1>2, <1>3, <1>4, <1>5, <1>6

(* The label a page load gives to a name that stands in the registry once. *)
LEMMA LoadedLabel ==
  ASSUME CatalogueConstants, chat \in Registries, LoadPage,
         NEW e \in page', Unambiguous(e.name)
  PROVE  e.label \in OwnUrls(e.name)
<1>1. Named(chat, e.name) # {}
  BY DEF Unambiguous, Once
<1>2. PICK p \in UiServers(chat) :
        e = [name |-> ServerAt(chat, p).name, label |-> chat[p[1]].url, gateway |-> TRUE]
  BY <1>1 DEF LoadPage
<1>3. p \in Named(chat, e.name)
  BY <1>2 DEF Named
<1>4. p = LastNamed(chat, e.name)
  BY <1>3, Home
<1> QED
  BY <1>2, <1>4 DEF NameToUrl, OwnUrls

(* What the list shows of them. *)
LEMMA LabelsLead ==
  ASSUME CatalogueConstants, CatalogueInv, [CatalogueNext]_catalogueVars
  PROVE  LabelsInPlace'
<1>0. /\ chat \in Registries /\ page \subseteq Entries
      /\ session \in [Names -> Endpoints \cup {Absent}]
      /\ LabelsInPlace /\ ConnectInPlace
  BY DEF CatalogueInv, CatalogueTypeOK
<1>a. \A e \in page : e.name \in Names
  BY <1>0 DEF Entries
<1>1. CASE StartChat
  <2>1. page' = page /\ \A n \in Names : session'[n] = Absent
    BY <1>1 DEF StartChat
  <2> QED
    BY <1>a, <2>1 DEF LabelsInPlace
<1>2. ASSUME NEW p \in Processes, StartGateway(p)
      PROVE  LabelsInPlace'
  <2>1. UNCHANGED <<chat, session, page>> /\ (drift => drift')
    BY <1>2 DEF StartGateway
  <2> QED
    BY <1>0, <2>1 DEF LabelsInPlace, Unambiguous, OwnUrls
<1>3. CASE LoadPage
  <2>1. UNCHANGED <<chat, session>>
    BY <1>3 DEF LoadPage
  <2>2. \A e \in page' : Unambiguous(e.name) => e.label \in OwnUrls(e.name)
    BY <1>0, <1>3, LoadedLabel
  <2> QED
    BY <2>1, <2>2 DEF LabelsInPlace, Unambiguous, OwnUrls
<1>4. ASSUME NEW n \in Names, AddOwn(n)
      PROVE  LabelsInPlace'
  <2>1. /\ UNCHANGED <<chat, session, drift>>
        /\ page' = page \cup {[name |-> n, label |-> NoUrl, gateway |-> FALSE]}
    BY <1>4 DEF AddOwn
  <2>2. \A e \in page' : e.gateway => e \in page
    BY <2>1
  <2> QED
    BY <1>0, <2>1, <2>2 DEF LabelsInPlace, Unambiguous, OwnUrls
<1>5. ASSUME NEW n \in Names, Disconnect(n)
      PROVE  LabelsInPlace'
  <2>1. /\ UNCHANGED <<chat, drift>> /\ session' = [session EXCEPT ![n] = Absent]
        /\ page' = {e \in page : e.name # n}
    BY <1>5 DEF Disconnect
  <2>2. \A e \in page' : e \in page /\ session'[e.name] = session[e.name]
    BY <1>0, <1>a, <2>1
  <2>3. ASSUME ~drift, NEW e \in page', e.gateway, Unambiguous(e.name),
               session'[e.name] # Absent
        PROVE  e.label \in OwnUrls(e.name)
    BY <1>0, <2>2, <2>3 DEF LabelsInPlace
  <2> QED
    BY <2>1, <2>3 DEF LabelsInPlace, Unambiguous, OwnUrls
<1>6. ASSUME NEW n \in Names, Connect(n)
      PROVE  LabelsInPlace'
  <2>1. UNCHANGED <<chat, drift, session>> /\ Named(chat, n) # {}
    BY <1>6 DEF Connect
  <2>2. CASE page' = page
    BY <1>0, <2>1, <2>2 DEF LabelsInPlace, Unambiguous, OwnUrls
  <2>3. CASE Shown(n, NameToUrl(chat, n))
    <3>1. NameToUrl(chat, n) \in Urls \cup {NoUrl}
      BY <1>0, <2>1, NameTypes
    <3>2. \A e \in page' : e \in page \/ e.label \in OwnUrls(e.name)
      BY <1>0, <2>3, <3>1, ShownEntries DEF OwnUrls
    <3> QED
      BY <1>0, <2>1, <3>2 DEF LabelsInPlace, Unambiguous, OwnUrls
  <2> QED
    BY <1>6, <2>2, <2>3 DEF Connect, ReuseSession
<1>7. CASE OpenSession
  <2>1. UNCHANGED <<chat, drift>> /\ connect # Absent /\ connect.found # Absent
    BY <1>7 DEF OpenSession
  <2>2. CASE UNCHANGED <<page, session>>
    BY <1>0, <2>1, <2>2 DEF LabelsInPlace, Unambiguous, OwnUrls
  <2>3. CASE /\ session' = [session EXCEPT ![connect.name] =
                              [url |-> connect.found, id |-> connect.id]]
             /\ Shown(connect.name, connect.found)
    <3>1. connect.found \in Urls
      BY <2>1 DEF CatalogueInv, CatalogueTypeOK, Connects
    <3>2. \A e \in page' : \/ e.name = connect.name /\ e.gateway /\ e.label = connect.found
                           \/ e \in page /\ ~(e.name = connect.name /\ e.gateway)
      BY <1>0, <2>3, <3>1, ShownEntries
    <3>3. ASSUME ~drift, NEW e \in page', e.gateway, Unambiguous(e.name),
                 session'[e.name] # Absent
          PROVE  e.label \in OwnUrls(e.name)
      <4>1. CASE e.name = connect.name
        <5>1. connect.found \in OwnUrls(e.name)
          BY <1>0, <2>1, <3>3, <4>1 DEF ConnectInPlace
        <5> QED
          BY <3>2, <3>3, <4>1, <5>1
      <4>2. CASE e.name # connect.name
        <5>1. e \in page /\ session'[e.name] = session[e.name]
          BY <1>0, <1>a, <2>3, <3>2, <4>2
        <5> QED
          BY <1>0, <3>3, <5>1 DEF LabelsInPlace
      <4> QED
        BY <4>1, <4>2
    <3> QED
      BY <2>1, <3>3 DEF LabelsInPlace, Unambiguous, OwnUrls
  <2> QED
    BY <1>7, <2>2, <2>3 DEF OpenSession
<1>8. CASE UNCHANGED <<chat, drift, page, session>>
  BY <1>0, <1>8 DEF LabelsInPlace, Unambiguous, OwnUrls
<1>9. \/ StartChat \/ LoadPage \/ OpenSession
      \/ \E p \in Processes : StartGateway(p)
      \/ \E n \in Names : AddOwn(n) \/ Disconnect(n) \/ Connect(n)
      \/ UNCHANGED <<chat, drift, page, session>>
  BY DEF CatalogueNext, catalogueVars, EditRegistry, StopGateway, AskNext, Refuse
<1> QED
  BY <1>1, <1>2, <1>3, <1>4, <1>5, <1>6, <1>7, <1>8, <1>9

(* What a connect holds after it has asked one more Gateway. *)
LEMMA AskingInPlace ==
  ASSUME CatalogueConstants, CatalogueInv, AskNext
  PROVE  ConnectInPlace'
<1>0. /\ chat \in Registries /\ SameRegistry
      /\ connect \in Connects /\ UNCHANGED <<chat, drift>>
  BY DEF CatalogueInv, CatalogueTypeOK, AskNext
<1> DEFINE n == connect.name
           home == NameToUrl(chat, n)
<1>1. PICK k \in ToAsk : /\ \A j \in ToAsk : k <= j
                         /\ Listed(k) \/ ListingError(k) \/ Unreachable(k)
  BY DEF AskNext
<1>2. /\ k \in DOMAIN chat /\ k \in Nat /\ chat[k].url \in Urls
      /\ ProcessAt[chat[k].url] \in Processes
      /\ PublicUrl[ProcessAt[chat[k].url]] # Absent
  BY <1>0, AskedUrl DEF CatalogueConstants
<1>3. /\ Named(chat, n) # {} /\ connect.id = NameToId(chat, n)
      /\ ~drift /\ Unambiguous(n) =>
           /\ connect.found \in OwnUrls(n) \cup {Absent}
           /\ connect.found = Absent /\ Permitted(n) /\ TakesEntry(n) =>
                \A j \in GatewayUrls(chat) :
                   j < connect.next /\ chat[j].url = home => chat[j].url \in connect.failed
  BY <1>0 DEF CatalogueInv, ConnectInPlace, AskNext
<1>4. \A j \in GatewayUrls(chat) : j < k + 1 => j < connect.next \/ j = k
  <2> TAKE j \in GatewayUrls(chat)
  <2>1. j \in Nat /\ connect.next \in Nat
    BY <1>0, EntryAt DEF GatewayUrls, Connects
  <2>2. j >= connect.next => k <= j
    BY <1>1 DEF ToAsk
  <2> QED
    BY <1>2, <2>1, <2>2
<1>5. CASE Unreachable(k)
  BY <1>5 DEF Unreachable, Ends, ConnectInPlace
<1>6. CASE ListingError(k)
  <2>1. connect' = [name |-> n, id |-> connect.id, next |-> k + 1,
                    found |-> connect.found, failed |-> connect.failed \cup {chat[k].url}]
    BY <1>0, <1>6 DEF ListingError, Connects
  <2>2. ASSUME ~drift, Unambiguous(n), connect.found = Absent, Permitted(n), TakesEntry(n),
               NEW j \in GatewayUrls(chat), j < k + 1, chat[j].url = home
        PROVE  chat[j].url \in connect'.failed
    BY <1>3, <1>4, <2>1, <2>2
  <2> HIDE DEF home
  <2>3. connect'.name = n /\ connect'.id = connect.id /\ connect'.next = k + 1
        /\ connect'.found = connect.found
    BY <2>1
  <2> QED
    BY <1>0, <1>3, <2>2, <2>3 DEF ConnectInPlace, Unambiguous, Permitted, OwnUrls, TakesEntry, home
<1>7. CASE Listed(k)
  <2> DEFINE p == ProcessAt[chat[k].url]
             found == IF connect.found = Absent /\ Lists(p, connect.id)
                        THEN PublicUrl[p] ELSE connect.found
  <2>1. /\ connect' = [name |-> n, id |-> connect.id, next |-> k + 1,
                       found |-> found, failed |-> connect.failed]
        /\ gateway[p] # Down
    BY <1>0, <1>7 DEF Listed, Connects
  <2>2. ~drift => gateway[p] = chat
    BY <1>0, <1>2, <2>1 DEF SameRegistry
  <2>3. ASSUME ~drift, Unambiguous(n)
        PROVE  found \in OwnUrls(n) \cup {Absent}
    <3>1. CASE connect.found = Absent /\ Lists(p, connect.id)
      <4>1. PublicUrl[p] \in OwnUrls(n)
        BY <1>0, <1>2, <1>3, <2>2, <2>3, <3>1, OnlyHomeLists
      <4> QED
        BY <3>1, <4>1
    <3>2. CASE ~(connect.found = Absent /\ Lists(p, connect.id))
      BY <1>3, <2>3, <3>2
    <3> QED
      BY <3>1, <3>2
  <2>4. ASSUME ~drift, Unambiguous(n), found = Absent, Permitted(n), TakesEntry(n),
               NEW j \in GatewayUrls(chat), j < k + 1, chat[j].url = home
        PROVE  chat[j].url \in connect.failed
    <3>1. connect.found = Absent /\ ~Lists(p, connect.id)
      BY <1>2, <2>4
    <3>2. j # k
      <4> SUFFICES ASSUME j = k PROVE FALSE
        OBVIOUS
      <4>1. p = ProcessAt[home] /\ gateway[p] = chat
        BY <2>2, <2>4
      <4>2. Lists(p, connect.id)
        BY <1>0, <1>3, <2>4, <4>1, HomeLists
      <4> QED
        BY <3>1, <4>2
    <3> QED
      BY <1>3, <1>4, <2>4, <3>1, <3>2
  <2> HIDE DEF found, home
  <2>5. connect'.name = n /\ connect'.id = connect.id /\ connect'.next = k + 1
        /\ connect'.found = found /\ connect'.failed = connect.failed
    BY <2>1
  <2> QED
    BY <1>0, <1>3, <2>3, <2>4, <2>5 DEF ConnectInPlace, Unambiguous, Permitted, OwnUrls, TakesEntry, home
<1> QED
  BY <1>1, <1>5, <1>6, <1>7

LEMMA ConnectsInPlace ==
  ASSUME CatalogueConstants, CatalogueInv, [CatalogueNext]_catalogueVars
  PROVE  ConnectInPlace'
<1>0. chat \in Registries /\ ConnectInPlace
  BY DEF CatalogueInv, CatalogueTypeOK
<1>1. CASE connect' = Absent
  BY <1>1 DEF ConnectInPlace
<1>2. CASE UNCHANGED <<chat, connect>> /\ (drift => drift')
  BY <1>0, <1>2 DEF ConnectInPlace, Unambiguous, Permitted, OwnUrls, TakesEntry
<1>3. ASSUME NEW n \in Names, Connect(n)
      PROVE  ConnectInPlace'
  <2>1. /\ UNCHANGED chat /\ Named(chat, n) # {}
        /\ \/ connect' = Absent
           \/ connect' = [name |-> n, id |-> NameToId(chat, n), next |-> 1,
                          found |-> Absent, failed |-> {}]
    BY <1>3 DEF Connect, ReuseSession, Ends
  <2>2. \A k \in GatewayUrls(chat) : ~(k < 1)
    <3>1. chat \in Seq(Gateways)
      BY <1>0 DEF CatalogueConstants
    <3> QED
      BY <3>1 DEF GatewayUrls
  <2> QED
    BY <2>1, <2>2 DEF ConnectInPlace
<1>4. CASE AskNext
  BY <1>4, AskingInPlace
<1>5. \/ connect' = Absent
      \/ UNCHANGED <<chat, connect>> /\ (drift => drift')
      \/ \E n \in Names : Connect(n)
      \/ AskNext
  BY DEF CatalogueNext, catalogueVars, EditRegistry, StartChat, StartGateway, StopGateway,
         LoadPage, AddOwn, Disconnect, Refuse, OpenSession, Ends
<1> QED
  BY <1>1, <1>2, <1>3, <1>4, <1>5

(* What the chat UI, the Gateways, the browser and a connect under way hold    *)
(* of the registry (gateway_registry.py, registry.py, mcp_ui.py).              *)
THEOREM CatalogueInvariance == CatalogueSpec => []CatalogueInv
<1>1. CatalogueInit => CatalogueInv
  BY DEF CatalogueInit, CatalogueInv, CatalogueTypeOK, SameRegistry, ConnectInPlace,
         SessionsInPlace, LabelsInPlace
<1>2. CatalogueInv /\ [CatalogueNext]_catalogueVars => CatalogueInv'
  BY RegistriesAssumption, CatalogueTypes, GatewaysInStep, ConnectsInPlace, SessionsLead, LabelsLead
     DEF CatalogueInv
<1> QED
  BY <1>1, <1>2, PTL DEF CatalogueSpec

(* The URL the browser's list shows for a name leads to the process that its  *)
(* session calls, for a name and an id that stand in the registry once and a  *)
(* Gateway that is reached at its PUBLIC_BASE_URL.                            *)
THEOREM ShownIsUsed == CatalogueSpec => []ShownGatewayIsUsed
<1>1. CatalogueInv => ShownGatewayIsUsed
  <2> SUFFICES ASSUME CatalogueInv, ~drift, NEW e \in page, e.gateway, Unambiguous(e.name),
                      CallsItself(e.name), session[e.name] # Absent
               PROVE  ProcessAt[e.label] = ProcessAt[session[e.name].url]
    BY DEF ShownGatewayIsUsed
  <2>1. e.name \in Names
    BY DEF CatalogueInv, CatalogueTypeOK, Entries
  <2>2. e.label \in OwnUrls(e.name) /\ session[e.name].url \in OwnUrls(e.name)
    BY <2>1 DEF CatalogueInv, SessionsInPlace, LabelsInPlace
  <2> QED
    BY <2>2 DEF CallsItself
<1>2. CatalogueSpec => []CatalogueInv
  BY CatalogueInvariance
<1> QED
  BY <1>1, <1>2, PTL

(* "Gateway MCP not authorized" means that the caller lacks a role, or that   *)
(* the server's own Gateway answered with an error or does not find itself in *)
(* the registry.                                                              *)
THEOREM RefusedMeansIt == CatalogueSpec => RefusedMeansNotPermitted
<1> DEFINE n == connect.name
           Meant == status' = 403 /\ status # 403 /\ ~drift =>
                      \/ ~Unambiguous(n)
                      \/ ~Permitted(n)
                      \/ ~TakesEntry(n)
                      \/ NameToUrl(chat, n) \in connect.failed
<1>1. ASSUME CatalogueInv, [CatalogueNext]_catalogueVars, status' = 403, status # 403, ~drift,
             Permitted(n), TakesEntry(n), Unambiguous(n)
      PROVE  NameToUrl(chat, n) \in connect.failed
  <2>1. Refuse
    <3>1. /\ ~StartChat /\ ~OpenSession
          /\ \A m \in Names : ~Disconnect(m)
      BY <1>1 DEF StartChat, OpenSession, Disconnect, Ends
    <3>2. ~AskNext
      <4>1. \A k \in ToAsk : ~Listed(k) /\ ~ListingError(k) /\ ~Unreachable(k)
        BY <1>1 DEF Listed, ListingError, Unreachable, Ends
      <4> QED
        BY <4>1 DEF AskNext
    <3>3. \A m \in Names : ~Connect(m)
      <4>1. \A m \in Names : ~ReuseSession(m)
        BY <1>1 DEF ReuseSession, Ends
      <4> QED
        BY <1>1, <4>1 DEF Connect
    <3>4. /\ ~EditRegistry /\ ~LoadPage
          /\ \A m \in Names : ~AddOwn(m)
          /\ \A p \in Processes : ~StartGateway(p) /\ ~StopGateway(p)
      BY <1>1 DEF EditRegistry, LoadPage, AddOwn, StartGateway, StopGateway
    <3>5. ~UNCHANGED catalogueVars
      BY <1>1 DEF catalogueVars
    <3> QED
      BY <1>1, <3>1, <3>2, <3>3, <3>4, <3>5 DEF CatalogueNext
  <2>2. connect # Absent /\ ToAsk = {} /\ connect.found = Absent /\ chat \in Registries
        /\ ConnectInPlace /\ connect.next \in Nat
    BY <1>1, <2>1 DEF Refuse, CatalogueInv, CatalogueTypeOK, Connects
  <2> DEFINE h == LastNamed(chat, n)[1]
  <2>3. h \in GatewayUrls(chat) /\ chat[h].url = NameToUrl(chat, n)
    BY <1>1, <2>2, Home, RegistriesAssumption
  <2> HIDE DEF h
  <2>4. h \in Nat
    BY <2>2, <2>3, EntryAt, RegistriesAssumption DEF GatewayUrls
  <2>5. h < connect.next
    BY <2>2, <2>3, <2>4 DEF ToAsk
  <2> QED
    BY <1>1, <2>2, <2>3, <2>5 DEF ConnectInPlace
<1>2. CatalogueInv /\ [CatalogueNext]_catalogueVars => [Meant]_catalogueVars
  BY <1>1
<1>3. CatalogueSpec => []CatalogueInv
  BY CatalogueInvariance
<1>4. CatalogueSpec => [][Meant]_catalogueVars
  BY <1>2, <1>3, PTL DEF CatalogueSpec
<1> QED
  BY <1>4 DEF RefusedMeansNotPermitted
==================================================================================
