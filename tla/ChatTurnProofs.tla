------------------------------ MODULE ChatTurnProofs ------------------------------
(***************************************************************************)
(* What ChatTurn guarantees for every set of servers and any number of     *)
(* sessions, turns and calls, whatever handlers, servers and the model do. *)
(***************************************************************************)
EXTENDS ChatTurn, SequenceTheorems, WellFoundedInduction, TLAPS

(* The types of what the handlers change, and of what the turn does. *)
SessionTypes ==
    /\ registered \in Seq(Servers)
    /\ \A i, j \in DOMAIN registered : registered[i] = registered[j] => i = j
    /\ open \in [Servers -> 0 .. MaxOpens]
    /\ opened \in [Servers -> 0 .. MaxOpens]
    /\ \A s \in Servers : open[s] <= opened[s]

TurnTypes ==
    /\ messages \in Seq(Messages)
    /\ pc \in {"idle", "generate", "dispatch", "call", "reconnect", "reconnected", "retry"}
    /\ offered \subseteq Names \X Servers
    /\ todo \in Seq(Ids \X Names)
    /\ payloads \subseteq Errors
    /\ first \in Sessions \cup {NoSession}
    /\ sess \in Sessions \cup {NoSession}
    /\ turns \in 0 .. MaxTurns
    /\ calls \in 0 .. MaxCalls
    /\ cut \in BOOLEAN

LEMMA Types == TypeOK <=> SessionTypes /\ TurnTypes
  BY DEF TypeOK, SessionTypes, TurnTypes

LEMMA TypesNext == SessionTypes' /\ TurnTypes' => TypeOK'
  BY DEF TypeOK, SessionTypes, TurnTypes

--------------------------------------------------------------------------------
(* RemoveAt takes one element out and keeps the order of the others. *)
LEMMA RemoveAtProperties ==
  ASSUME NEW S, NEW seq \in Seq(S), NEW p \in 1 .. Len(seq)
  PROVE  /\ RemoveAt(seq, p) \in Seq(S)
         /\ Len(RemoveAt(seq, p)) = Len(seq) - 1
         /\ \A i \in 1 .. Len(seq) - 1 :
              RemoveAt(seq, p)[i] = IF i < p THEN seq[i] ELSE seq[i + 1]
<1> DEFINE n == Len(seq)
           a == SubSeq(seq, 1, p - 1)
           b == SubSeq(seq, p + 1, n)
<1>1. n \in Nat /\ p \in Nat /\ 1 <= p /\ p <= n /\ \A i \in 1 .. n : seq[i] \in S
  OBVIOUS
<1> HIDE DEF n
<1>2. /\ a \in Seq(S)
      /\ Len(a) = IF 1 <= p - 1 THEN p - 1 - 1 + 1 ELSE 0
      /\ \A i \in 1 .. p - 1 - 1 + 1 : a[i] = seq[1 + i - 1]
  <2>1. 1 \in Int /\ p - 1 \in Int /\ \A i \in 1 .. p - 1 : seq[i] \in S
    BY <1>1
  <2> QED
    BY <2>1, SubSeqProperties
<1>3. /\ b \in Seq(S)
      /\ Len(b) = IF p + 1 <= n THEN n - (p + 1) + 1 ELSE 0
      /\ \A i \in 1 .. n - (p + 1) + 1 : b[i] = seq[(p + 1) + i - 1]
  <2>1. p + 1 \in Int /\ n \in Int /\ \A i \in p + 1 .. n : seq[i] \in S
    BY <1>1
  <2> QED
    BY <2>1, SubSeqProperties
<1> HIDE DEF a, b
<1>4. /\ a \o b \in Seq(S)
      /\ Len(a \o b) = Len(a) + Len(b)
      /\ \A i \in 1 .. Len(a) + Len(b) :
           (a \o b)[i] = IF i <= Len(a) THEN a[i] ELSE b[i - Len(a)]
  BY <1>2, <1>3, ConcatProperties
<1>5. Len(a) = p - 1 /\ Len(b) = n - p
  BY <1>1, <1>2, <1>3
<1>6. ASSUME NEW i \in 1 .. n - 1
      PROVE  (a \o b)[i] = IF i < p THEN seq[i] ELSE seq[i + 1]
  <2>0. i \in Int /\ 1 <= i /\ i <= n - 1 /\ i \in 1 .. Len(a) + Len(b)
    BY <1>1, <1>5, <1>6
  <2>1. CASE i < p
    <3>1. i <= Len(a) /\ i \in 1 .. p - 1 - 1 + 1 /\ 1 + i - 1 = i
      BY <1>1, <1>5, <2>0, <2>1
    <3>2. (a \o b)[i] = a[i]
      BY <1>4, <2>0, <3>1
    <3>3. a[i] = seq[1 + i - 1]
      BY <1>2, <3>1
    <3> QED
      BY <2>1, <3>1, <3>2, <3>3
  <2>2. CASE ~(i < p)
    <3>1. /\ ~(i <= Len(a)) /\ i - Len(a) \in 1 .. n - (p + 1) + 1
          /\ (p + 1) + (i - Len(a)) - 1 = i + 1
      BY <1>1, <1>5, <2>0, <2>2
    <3>2. (a \o b)[i] = b[i - Len(a)]
      BY <1>4, <2>0, <3>1
    <3>3. b[i - Len(a)] = seq[(p + 1) + (i - Len(a)) - 1]
      BY <1>3, <3>1
    <3> QED
      BY <2>2, <3>1, <3>2, <3>3
  <2> QED
    BY <2>1, <2>2
<1>7. RemoveAt(seq, p) = a \o b
  BY DEF RemoveAt, a, b, n
<1>8. Len(a) + Len(b) = n - 1
  BY <1>1, <1>5
<1> QED
  BY <1>4, <1>6, <1>7, <1>8 DEF n
(* The dict of tools keeps its keys apart. *)
LEMMA RegisteredTypes ==
  ASSUME SessionTypes, NEW s \in Servers
  PROVE  /\ Registered(s) \in Seq(Servers)
         /\ \A i, j \in DOMAIN Registered(s) : Registered(s)[i] = Registered(s)[j] => i = j
<1>1. registered \in Seq(Servers)
      /\ \A i, j \in DOMAIN registered : registered[i] = registered[j] => i = j
  BY DEF SessionTypes
<1>2. CASE s \in ToSet(registered)
  BY <1>1, <1>2 DEF Registered
<1>3. CASE s \notin ToSet(registered)
  <2>1. Registered(s) = Append(registered, s)
    BY <1>3 DEF Registered
  <2>2. \A i \in DOMAIN registered : registered[i] # s
    BY <1>3 DEF ToSet
  <2> QED
    BY <1>1, <2>1, <2>2, AppendProperties
<1> QED
  BY <1>2, <1>3

LEMMA UnregisteredTypes ==
  ASSUME SessionTypes, NEW s \in Servers
  PROVE  /\ Unregistered(s) \in Seq(Servers)
         /\ \A i, j \in DOMAIN Unregistered(s) : Unregistered(s)[i] = Unregistered(s)[j] => i = j
<1> DEFINE n == Len(registered)
<1>1. registered \in Seq(Servers) /\ n \in Nat /\ DOMAIN registered = 1 .. n
      /\ \A i, j \in DOMAIN registered : registered[i] = registered[j] => i = j
  BY LenProperties DEF SessionTypes
<1> HIDE DEF n
<1>2. CASE s \notin ToSet(registered)
  BY <1>1, <1>2 DEF Unregistered
<1>3. CASE s \in ToSet(registered)
  <2> DEFINE p == Place(s)
             u == Unregistered(s)
  <2>1. p \in 1 .. n
    BY <1>1, <1>3 DEF ToSet, Place
  <2>2. u = RemoveAt(registered, p)
    BY <1>3 DEF Unregistered
  <2> HIDE DEF p, u
  <2>3. /\ u \in Seq(Servers) /\ Len(u) = n - 1
        /\ \A i \in 1 .. n - 1 : u[i] = IF i < p THEN registered[i] ELSE registered[i + 1]
    <3>1. p \in 1 .. Len(registered)
      BY <2>1 DEF n
    <3>2. /\ RemoveAt(registered, p) \in Seq(Servers)
          /\ Len(RemoveAt(registered, p)) = Len(registered) - 1
          /\ \A i \in 1 .. Len(registered) - 1 : RemoveAt(registered, p)[i] =
               IF i < p THEN registered[i] ELSE registered[i + 1]
      BY <1>1, <3>1, RemoveAtProperties
    <3> QED
      BY <2>2, <3>2 DEF n
  <2>4. DOMAIN u = 1 .. n - 1
    BY <2>3, LenProperties
  <2>5. ASSUME NEW i \in 1 .. n - 1, NEW j \in 1 .. n - 1, u[i] = u[j], i < j
        PROVE  FALSE
    <3> DEFINE k(x) == IF x < p THEN x ELSE x + 1
    <3>1. k(i) \in 1 .. n /\ k(j) \in 1 .. n /\ k(i) # k(j)
      BY <1>1, <2>1, <2>5
    <3>2. u[i] = registered[k(i)] /\ u[j] = registered[k(j)]
      BY <2>3
    <3> HIDE DEF k
    <3> QED
      BY <1>1, <2>5, <3>1, <3>2
  <2>6. \A i, j \in 1 .. n - 1 : u[i] = u[j] => i = j
    BY <1>1, <2>5
  <2> QED
    BY <2>3, <2>4, <2>6 DEF u
<1> QED
  BY <1>2, <1>3

(* What handlers and reconnects do to the sessions: numbers grow, and a      *)
(* session that is open afterwards was open before or is a new one.          *)
SessionMoves ==
    /\ SessionTypes'
    /\ \A s \in Servers : /\ opened[s] <= opened'[s]
                          /\ \/ open'[s] = open[s]
                             \/ open'[s] = 0
                             \/ open'[s] > opened[s]

LEMMA SwapInMoves ==
  ASSUME SessionTypes, NEW s \in Servers, SwapIn(s)
  PROVE  SessionMoves /\ open'[s] > opened[s]
<1>1. registered' \in Seq(Servers)
      /\ \A i, j \in DOMAIN registered' : registered'[i] = registered'[j] => i = j
  BY RegisteredTypes, UnregisteredTypes DEF SwapIn
<1>2. /\ open' \in [Servers -> 0 .. MaxOpens]
      /\ opened' \in [Servers -> 0 .. MaxOpens]
      /\ \A x \in Servers : open'[x] <= opened'[x]
      /\ open'[s] = opened[s] + 1 /\ opened'[s] = opened[s] + 1
      /\ \A x \in Servers \ {s} : open'[x] = open[x] /\ opened'[x] = opened[x]
  BY BoundsAssumption DEF SwapIn, SessionTypes
<1> QED
  BY <1>1, <1>2 DEF SessionMoves, SessionTypes

LEMMA DisconnectedMoves ==
  ASSUME SessionTypes, NEW s \in Servers, Disconnected(s)
  PROVE  SessionMoves /\ open'[s] = 0
<1>1. registered' \in Seq(Servers)
      /\ \A i, j \in DOMAIN registered' : registered'[i] = registered'[j] => i = j
  BY UnregisteredTypes DEF Disconnected
<1>2. /\ open' \in [Servers -> 0 .. MaxOpens]
      /\ opened' = opened
      /\ \A x \in Servers : open'[x] <= opened'[x]
      /\ open'[s] = 0
      /\ \A x \in Servers \ {s} : open'[x] = open[x]
  BY BoundsAssumption DEF Disconnected, SessionTypes
<1> QED
  BY <1>1, <1>2 DEF SessionMoves, SessionTypes

LEMMA UnchangedMoves ==
  ASSUME SessionTypes, UNCHANGED sessions
  PROVE  SessionMoves
  BY DEF SessionMoves, SessionTypes, sessions

--------------------------------------------------------------------------------
LEMMA InitInPlace == Init => ChatInv
<1> SUFFICES ASSUME Init PROVE ChatInv
  OBVIOUS
<1>1. messages = <<Message("system", {}, {})>> /\ Message("system", {}, {}) \in Messages
  BY DEF Init, Message, Messages
<1>2. messages \in Seq(Messages) /\ DOMAIN messages = {1} /\ messages[1].role = "system"
  BY <1>1 DEF Message
<1>3. TypeOK
  <2>1. SessionTypes
    BY BoundsAssumption DEF Init, SessionTypes
  <2>2. TurnTypes
    <3>1. todo \in Seq(Ids \X Names)
      BY DEF Init
    <3>2. turns \in 0 .. MaxTurns /\ calls \in 0 .. MaxCalls
      BY BoundsAssumption DEF Init
    <3>3. offered \subseteq Names \X Servers /\ payloads \subseteq Errors /\ cut \in BOOLEAN
      BY DEF Init
    <3>4. first = NoSession /\ sess = NoSession /\ pc = "idle"
      BY DEF Init
    <3> QED
      BY <1>2, <3>1, <3>2, <3>3, <3>4 DEF TurnTypes
  <2> QED
    BY <2>1, <2>2, Types
<1>4. TurnInPlace
  BY DEF Init, TurnInPlace
<1>5. HistoryInPlace
  BY <1>2 DEF HistoryInPlace
<1> QED
  BY <1>3, <1>4, <1>5 DEF Init, PayloadsInPlace, ChatInv

LEMMA HistoryRests ==
  ASSUME HistoryInPlace, messages' = messages, cut' = cut, todo' = todo
  PROVE  HistoryInPlace'
<1>1. \A i, j : ToolsOnly(i, j)' <=> ToolsOnly(i, j)
  BY DEF ToolsOnly
<1>2. \A i, id : Answered(i, id) => Answered(i, id)'
  BY DEF Answered, ToolsOnly
<1> SUFFICES ASSUME ~cut, NEW i \in DOMAIN messages, messages[i].role = "assistant",
                    NEW id \in messages[i].ids
             PROVE  \/ Answered(i, id)'
                    \/ (\E k \in DOMAIN todo : todo[k][1] = id) /\ ToolsOnly(i, Len(messages))'
  BY DEF HistoryInPlace
<1>3. ToolsOnly(i, Len(messages)) => ToolsOnly(i, Len(messages))'
  BY DEF ToolsOnly
<1> QED
  BY <1>2, <1>3 DEF HistoryInPlace

(* Handlers do not touch the turn. *)
LEMMA HandlersKeep ==
  ASSUME ChatInv, SessionMoves, UNCHANGED <<messages, cut>>, UNCHANGED turn
  PROVE  ChatInv'
<1>1. TypeOK'
  BY Types DEF ChatInv, SessionMoves, SessionTypes, TurnTypes, TypeOK, turn
<1>2. TurnInPlace'
  <2>1. \A s \in Servers : open[s] \in Nat /\ opened[s] \in Nat
                           /\ open'[s] \in Nat /\ opened'[s] \in Nat
    BY BoundsAssumption, Types DEF ChatInv, SessionMoves, SessionTypes
  <2>2. \A x \in Sessions : x[1] \in Servers /\ x[2] \in Nat
    BY DEF Sessions
  <2> QED
    BY <2>1, <2>2 DEF ChatInv, TurnInPlace, SessionMoves, turn
<1>3. HistoryInPlace'
  <2>1. messages' = messages /\ cut' = cut /\ todo' = todo
    BY DEF turn
  <2>2. HistoryInPlace
    BY DEF ChatInv
  <2> QED
    BY <2>1, <2>2, HistoryRests
<1>4. PayloadsInPlace'
  BY DEF ChatInv, PayloadsInPlace, QuestionAt, turn
<1> QED
  BY <1>1, <1>2, <1>3, <1>4 DEF ChatInv

--------------------------------------------------------------------------------
(* What a new message at the end of the history does not change. *)
LEMMA AppendFacts ==
  ASSUME messages \in Seq(Messages), NEW m \in Messages, messages' = Append(messages, m)
  PROVE  /\ Len(messages) \in Nat /\ DOMAIN messages = 1 .. Len(messages)
         /\ messages' \in Seq(Messages)
         /\ Len(messages') = Len(messages) + 1
         /\ DOMAIN messages' = 1 .. Len(messages) + 1
         /\ \A i \in 1 .. Len(messages) : messages'[i] = messages[i]
         /\ messages'[Len(messages) + 1] = m
  BY AppendProperties, LenProperties

LEMMA AnsweredStays ==
  ASSUME messages \in Seq(Messages), NEW m \in Messages, messages' = Append(messages, m),
         NEW i \in DOMAIN messages, NEW id, Answered(i, id)
  PROVE  Answered(i, id)'
<1>1. PICK j \in i + 1 .. Len(messages) : messages[j].ids = {id} /\ ToolsOnly(i, j)
  BY DEF Answered
<1>2. j \in i + 1 .. Len(messages') /\ \A k \in i + 1 .. j : messages'[k] = messages[k]
  BY <1>1, AppendFacts
<1>3. j \in i + 1 .. j
  BY <1>1, AppendFacts
<1>4. messages'[j].ids = {id} /\ ToolsOnly(i, j)'
  BY <1>1, <1>2, <1>3 DEF ToolsOnly
<1> QED
  BY <1>2, <1>4 DEF Answered

LEMMA ToolsOnlyGrows ==
  ASSUME messages \in Seq(Messages), NEW m \in Messages, messages' = Append(messages, m),
         NEW i \in DOMAIN messages, m.role = "tool", ToolsOnly(i, Len(messages))
  PROVE  ToolsOnly(i, Len(messages))'
<1>1. \A k \in i + 1 .. Len(messages') : messages'[k].role = "tool"
  <2> SUFFICES ASSUME NEW k \in i + 1 .. Len(messages') PROVE messages'[k].role = "tool"
    OBVIOUS
  <2>1. \/ k \in i + 1 .. Len(messages) /\ messages'[k] = messages[k]
        \/ messages'[k] = m
    BY AppendFacts
  <2> QED
    BY <2>1 DEF ToolsOnly
<1> QED
  BY <1>1 DEF ToolsOnly

(* Without calls to do, every call of the history is answered. *)
LEMMA AllAnswered ==
  ASSUME ChatInv, ~cut, todo = <<>>,
         NEW i \in DOMAIN messages, messages[i].role = "assistant", NEW id \in messages[i].ids
  PROVE  Answered(i, id)
  BY DEF ChatInv, HistoryInPlace

(* An action that appends one message and leaves nothing to do. *)
LEMMA HistoryGrows ==
  ASSUME ChatInv, todo = <<>>, cut' = cut,
         NEW m \in Messages, messages' = Append(messages, m),
         m.role = "assistant" => \A id \in m.ids : \E k \in DOMAIN todo' : todo'[k][1] = id
  PROVE  HistoryInPlace'
<1>1. messages \in Seq(Messages)
  BY DEF ChatInv, TypeOK
<1> SUFFICES ASSUME ~cut, NEW i \in DOMAIN messages', messages'[i].role = "assistant",
                    NEW id \in messages'[i].ids
             PROVE  \/ Answered(i, id)'
                    \/ (\E k \in DOMAIN todo' : todo'[k][1] = id) /\ ToolsOnly(i, Len(messages))'
  BY DEF HistoryInPlace
<1>2. CASE i \in DOMAIN messages
  <2>1. messages'[i] = messages[i]
    BY <1>1, <1>2, AppendFacts
  <2>2. Answered(i, id)
    BY <1>2, <2>1, AllAnswered
  <2> QED
    BY <1>1, <1>2, <2>2, AnsweredStays
<1>3. CASE i \notin DOMAIN messages
  <2>1. i = Len(messages) + 1 /\ messages'[i] = m /\ Len(messages') = i
    BY <1>1, <1>3, AppendFacts
  <2>2. i \in Nat
    BY <1>1, <2>1, AppendFacts
  <2>3. ToolsOnly(i, Len(messages))'
    BY <2>1, <2>2 DEF ToolsOnly
  <2> QED
    BY <2>1, <2>3
<1> QED
  BY <1>2, <1>3

LEMMA DieKeeps ==
  ASSUME ChatInv, Die, UNCHANGED sessions
  PROVE  ChatInv'
<1>1. TurnTypes' /\ SessionTypes'
  BY Types DEF ChatInv, Die, EndTurn, TurnTypes, SessionTypes, sessions
<1>2. TurnInPlace'
  BY DEF Die, EndTurn, TurnInPlace
<1>3. HistoryInPlace'
  <2>1. messages' = messages /\ cut' = (cut \/ todo # <<>>)
    BY DEF Die
  <2>2. ASSUME ~cut', NEW i \in DOMAIN messages, messages[i].role = "assistant",
               NEW id \in messages[i].ids
        PROVE  Answered(i, id)'
    <3>1. Answered(i, id)
      BY <2>1, <2>2, AllAnswered
    <3> QED
      BY <2>1, <3>1 DEF Answered, ToolsOnly
  <2> QED
    BY <2>1, <2>2 DEF HistoryInPlace
<1> QED
  BY <1>1, <1>2, <1>3, TypesNext DEF ChatInv, PayloadsInPlace, Die, EndTurn

(* The result of a call is the answer to it. *)
LEMMA AnswerKeeps ==
  ASSUME ChatInv, SessionMoves, pc \notin {"idle", "generate"},
         NEW facts \in SUBSET Errors, Answer(facts)
  PROVE  ChatInv'
<1> DEFINE m == Message("tool", {Head(todo)[1]}, facts)
           n == Len(messages)
<1>1. /\ messages \in Seq(Messages) /\ todo \in Seq(Ids \X Names) /\ todo # <<>>
      /\ payloads \subseteq Errors
  BY DEF ChatInv, TypeOK, TurnInPlace
<1>2. /\ Len(todo) \in Nat /\ Len(todo) >= 1 /\ Head(todo) = todo[1] /\ todo[1] \in Ids \X Names
      /\ Tail(todo) \in Seq(Ids \X Names) /\ Len(Tail(todo)) = Len(todo) - 1
      /\ DOMAIN todo = 1 .. Len(todo) /\ DOMAIN Tail(todo) = 1 .. Len(todo) - 1
      /\ \A k \in 1 .. Len(todo) - 1 : Tail(todo)[k] = todo[k + 1]
  BY <1>1, HeadTailProperties, LenProperties, EmptySeq
<1>3. m \in Messages /\ m.role = "tool" /\ m.ids = {todo[1][1]} /\ m.facts = facts
  BY <1>2 DEF Message, Messages
<1> HIDE DEF m
<1>4. /\ messages' = Append(messages, m) /\ todo' = Tail(todo) /\ payloads' = payloads \cup facts
      /\ pc' = IF Len(todo) = 1 THEN "generate" ELSE "dispatch"
      /\ first' = NoSession /\ sess' = NoSession
      /\ offered' = offered /\ turns' = turns /\ calls' = calls /\ cut' = cut
  BY DEF Answer, m
<1>5. TurnTypes'
  <2>1. messages' \in Seq(Messages) /\ todo' \in Seq(Ids \X Names)
    BY <1>1, <1>2, <1>3, <1>4, AppendFacts
  <2>2. pc' \in {"generate", "dispatch"} /\ payloads' \subseteq Errors
    BY <1>1, <1>4
  <2> QED
    BY <1>4, <2>1, <2>2, Types DEF ChatInv, TurnTypes
<1>6. TurnInPlace'
  <2>1. Tail(todo) = <<>> <=> Len(todo) = 1
    <3>1. Tail(todo) # <<>> => Len(Tail(todo)) # 0
      BY <1>2, EmptySeq
    <3>2. Tail(todo) = <<>> => Len(Tail(todo)) = 0
      BY EmptySeq
    <3> QED
      BY <1>2, <3>1, <3>2
  <2> QED
    BY <1>4, <2>1 DEF ChatInv, TurnInPlace
<1>7. HistoryInPlace'
  <2> SUFFICES ASSUME ~cut, NEW i \in DOMAIN messages', messages'[i].role = "assistant",
                      NEW id \in messages'[i].ids
               PROVE  \/ Answered(i, id)'
                      \/ (\E k \in DOMAIN todo' : todo'[k][1] = id) /\ ToolsOnly(i, Len(messages))'
    BY <1>4 DEF HistoryInPlace
  <2>1. i \in DOMAIN messages /\ messages'[i] = messages[i]
    BY <1>1, <1>3, <1>4, AppendFacts
  <2>2. CASE Answered(i, id)
    BY <1>1, <1>3, <1>4, <2>1, <2>2, AnsweredStays
  <2>3. ASSUME NEW k \in DOMAIN todo, todo[k][1] = id, ToolsOnly(i, n)
        PROVE  \/ Answered(i, id)'
               \/ (\E l \in DOMAIN todo' : todo'[l][1] = id) /\ ToolsOnly(i, Len(messages))'
    <3>1. Len(messages') = n + 1 /\ messages'[n + 1] = m /\ n \in Nat /\ i \in 1 .. n
      BY <1>1, <1>3, <1>4, <2>1, AppendFacts
    <3>2. ToolsOnly(i, Len(messages))'
      BY <1>1, <1>3, <1>4, <2>1, <2>3, ToolsOnlyGrows
    <3>3. CASE k = 1
      <4>1. Len(messages') \in i + 1 .. Len(messages') /\ messages'[Len(messages')].ids = {id}
        BY <1>3, <2>3, <3>1, <3>3
      <4> QED
        BY <3>2, <4>1 DEF Answered
    <3>4. CASE k # 1
      <4>1. k - 1 \in DOMAIN todo' /\ todo'[k - 1] = todo[k]
        BY <1>2, <1>4, <2>3, <3>4
      <4> QED
        BY <2>3, <3>1, <3>2, <4>1
    <3> QED
      BY <3>3, <3>4
  <2> QED
    BY <2>1, <2>2, <2>3 DEF ChatInv, HistoryInPlace
<1>8. PayloadsInPlace'
  <2>1. PICK u \in DOMAIN messages : QuestionAt(u)
    BY DEF ChatInv, PayloadsInPlace
  <2>2. /\ u \in DOMAIN messages' /\ messages'[u] = messages[u]
        /\ \A i \in u + 1 .. Len(messages') :
             \/ i \in u + 1 .. n /\ messages'[i] = messages[i]
             \/ messages'[i] = m
    BY <1>1, <1>3, <1>4, <2>1, AppendFacts
  <2>3. QuestionAt(u)'
    BY <1>3, <1>4, <2>1, <2>2 DEF QuestionAt
  <2> QED
    BY <2>2, <2>3 DEF PayloadsInPlace
<1> QED
  BY <1>5, <1>6, <1>7, <1>8, TypesNext DEF ChatInv, SessionMoves

(* An action between two awaits of a call. *)
LEMMA GoesOnKeeps ==
  ASSUME ChatInv, SessionMoves, pc \notin {"idle", "generate"},
         UNCHANGED <<messages, offered, todo, payloads, turns, calls, cut>>,
         pc' \in {"call", "reconnect", "reconnected", "retry"},
         first' \in Sessions, sess' \in Sessions, sess'[1] = first'[1],
         LlmName(sess'[1]) = Head(todo)[2], first'[2] <= opened'[first'[1]],
         pc' \in {"reconnect", "reconnected"} => open'[sess'[1]] = 0 \/ open'[sess'[1]] > first'[2],
         pc' = "retry" => sess'[2] > first'[2]
  PROVE  ChatInv'
<1>1. TurnTypes'
  BY Types DEF ChatInv, TurnTypes
<1>2. TurnInPlace'
  BY DEF ChatInv, TurnInPlace
<1>3. HistoryInPlace'
  <2>1. messages' = messages /\ cut' = cut /\ todo' = todo
    OBVIOUS
  <2>2. HistoryInPlace
    BY DEF ChatInv
  <2> QED
    BY <2>1, <2>2, HistoryRests
<1>4. PayloadsInPlace'
  <2>1. pc # "idle" /\ PayloadsInPlace
    BY DEF ChatInv
  <2> QED
    BY <2>1 DEF PayloadsInPlace, QuestionAt
<1> QED
  BY <1>1, <1>2, <1>3, <1>4, TypesNext DEF ChatInv, SessionMoves

LEMMA ChatStartKeeps ==
  ASSUME ChatInv, ChatStart
  PROVE  ChatInv'
<1> DEFINE m == Message("system", {}, {})
<1>1. /\ messages' = <<m>> /\ m \in Messages /\ m.role = "system" /\ pc' = "idle" /\ cut' = FALSE
      /\ UNCHANGED sessions /\ UNCHANGED turn
  BY DEF ChatStart, Message, Messages, turn
<1> HIDE DEF m
<1>2. messages' \in Seq(Messages) /\ DOMAIN messages' = {1} /\ messages'[1].role = "system"
  BY <1>1
<1>3. SessionTypes' /\ TurnTypes'
  BY <1>1, <1>2, Types DEF ChatInv, SessionTypes, TurnTypes, sessions, turn
<1>4. TurnInPlace'
  BY <1>1 DEF ChatInv, TurnInPlace, ChatStart, turn, sessions
<1>5. HistoryInPlace'
  BY <1>2 DEF HistoryInPlace
<1> QED
  BY <1>1, <1>3, <1>4, <1>5, TypesNext DEF ChatInv, PayloadsInPlace

LEMMA OfferedBears ==
  ASSUME SessionTypes
  PROVE  Offered \subseteq Names \X Servers /\ \A o \in Offered : o[1] = LlmName(o[2])
<1>1. \A i \in DOMAIN registered : registered[i] \in Servers
  BY DEF SessionTypes
<1> QED
  BY <1>1 DEF Offered, Names

LEMMA UserMessageKeeps ==
  ASSUME ChatInv, UserMessage
  PROVE  ChatInv'
<1> DEFINE m == Message("user", {}, {})
           n == Len(messages)
<1>1. /\ messages' = Append(messages, m) /\ m \in Messages /\ m.role = "user"
      /\ messages \in Seq(Messages) /\ todo = <<>> /\ pc' = "generate" /\ offered' = Offered
      /\ UNCHANGED <<todo, payloads, first, sess, calls, cut>> /\ UNCHANGED sessions
  BY DEF UserMessage, Message, Messages, ChatInv, TypeOK, TurnInPlace
<1> HIDE DEF m
<1>2. SessionTypes /\ TurnTypes /\ turns' \in 0 .. MaxTurns
  BY Types, BoundsAssumption DEF ChatInv, TurnTypes, UserMessage
<1>3. TurnTypes'
  BY <1>1, <1>2, AppendFacts, OfferedBears DEF TurnTypes
<1>4. SessionTypes'
  BY <1>1, <1>2 DEF SessionTypes, sessions
<1>5. TurnInPlace'
  BY <1>1, <1>2, OfferedBears DEF TurnInPlace
<1>6. HistoryInPlace'
  BY <1>1, HistoryGrows
<1>7. PayloadsInPlace'
  <2>1. /\ Len(messages') = n + 1 /\ n \in Nat /\ DOMAIN messages' = 1 .. n + 1
        /\ messages'[n + 1] = m
    BY <1>1, AppendFacts
  <2>2. Len(messages') \in DOMAIN messages' /\ messages'[Len(messages')] = m
        /\ Len(messages') + 1 .. Len(messages') = {}
    BY <2>1
  <2>3. QuestionAt(Len(messages))'
    BY <1>1, <2>2 DEF QuestionAt
  <2> QED
    BY <2>2, <2>3 DEF PayloadsInPlace
<1> QED
  BY <1>3, <1>4, <1>5, <1>6, <1>7, TypesNext DEF ChatInv

(* A message of the model leaves the question and the payloads as they are. *)
LEMMA QuestionStays ==
  ASSUME ChatInv, pc # "idle", NEW m \in Messages, messages' = Append(messages, m),
         m.role = "assistant", UNCHANGED payloads
  PROVE  PayloadsInPlace'
<1>1. messages \in Seq(Messages)
  BY DEF ChatInv, TypeOK
<1>2. PICK u \in DOMAIN messages : QuestionAt(u)
  BY DEF ChatInv, PayloadsInPlace
<1>3. /\ u \in DOMAIN messages' /\ messages'[u] = messages[u]
      /\ \A i \in u + 1 .. Len(messages') :
           \/ i \in u + 1 .. Len(messages) /\ messages'[i] = messages[i]
           \/ messages'[i] = m
  BY <1>1, <1>2, AppendFacts
<1>4. QuestionAt(u)'
  BY <1>2, <1>3 DEF QuestionAt
<1> QED
  BY <1>3, <1>4 DEF PayloadsInPlace

LEMMA GenerateCallsKeeps ==
  ASSUME ChatInv, GenerateCalls
  PROVE  ChatInv'
<1> DEFINE m == Message("assistant", {todo'[i][1] : i \in DOMAIN todo'}, {})
<1>1. SessionTypes /\ TurnTypes /\ pc = "generate" /\ todo = <<>>
  BY Types DEF ChatInv, GenerateCalls, TurnInPlace
<1>2. PICK n \in 1 .. 2 : \E names \in [1 .. n -> {o[1] : o \in offered} \cup {NoName}] :
         /\ calls + n <= MaxCalls
         /\ calls' = calls + n
         /\ todo' = [i \in 1 .. n |-> <<calls + i, names[i]>>]
  BY DEF GenerateCalls
<1>3. PICK names \in [1 .. n -> {o[1] : o \in offered} \cup {NoName}] :
         /\ calls + n <= MaxCalls
         /\ calls' = calls + n
         /\ todo' = [i \in 1 .. n |-> <<calls + i, names[i]>>]
  BY <1>2
<1>4. /\ messages' = Append(messages, m) /\ pc' = "dispatch"
      /\ UNCHANGED <<offered, payloads, first, sess, turns, cut>> /\ UNCHANGED sessions
  BY DEF GenerateCalls
<1>5. calls' \in 0 .. MaxCalls /\ \A i \in 1 .. n : calls + i \in Ids
  BY <1>1, <1>3, BoundsAssumption DEF TurnTypes, Ids
<1>6. \A i \in 1 .. n : names[i] \in Names
  <2>1. \A o \in offered : o[1] \in Names
    BY <1>1 DEF TurnTypes
  <2>2. NoName \in Names
    BY DEF Names
  <2> QED
    BY <1>3, <2>1, <2>2
<1>7. todo' \in Seq(Ids \X Names) /\ DOMAIN todo' = 1 .. n /\ \A i \in 1 .. n : todo'[i][1] \in Ids
  <2>1. \A i \in 1 .. n : <<calls + i, names[i]>> \in Ids \X Names
    BY <1>5, <1>6
  <2>2. todo' \in [1 .. n -> Ids \X Names]
    BY <1>3, <2>1
  <2> QED
    BY <1>3, <1>5, <2>2
<1>8. todo' # <<>>
  <2>1. 1 \in DOMAIN todo'
    BY <1>7
  <2> QED
    BY <2>1
<1>9. m \in Messages /\ m.role = "assistant" /\ m.ids = {todo'[i][1] : i \in DOMAIN todo'}
  BY <1>7 DEF Message, Messages
<1> HIDE DEF m
<1>10. TurnTypes'
  <2>1. messages' \in Seq(Messages)
    BY <1>1, <1>4, <1>9, AppendFacts DEF TurnTypes
  <2> QED
    BY <1>1, <1>4, <1>5, <1>7, <2>1 DEF TurnTypes
<1>11. SessionTypes'
  BY <1>1, <1>4 DEF SessionTypes, sessions
<1>12. TurnInPlace'
  BY <1>4, <1>8 DEF ChatInv, TurnInPlace
<1>13. HistoryInPlace'
  BY <1>1, <1>4, <1>9, HistoryGrows
<1>14. PayloadsInPlace'
  BY <1>1, <1>4, <1>9, QuestionStays
<1> QED
  BY <1>10, <1>11, <1>12, <1>13, <1>14, TypesNext DEF ChatInv

LEMMA GenerateAnswersKeeps ==
  ASSUME ChatInv, GenerateAnswers
  PROVE  ChatInv'
<1>1. SessionTypes /\ TurnTypes /\ todo = <<>> /\ todo' = <<>> /\ pc' = "idle"
      /\ UNCHANGED cut /\ UNCHANGED sessions
  BY Types DEF ChatInv, GenerateAnswers, EndTurn, TurnInPlace
<1>2. PICK said \in SUBSET payloads :
         messages' = Append(messages, Message("assistant", {}, MergedFacts(said)))
  BY DEF GenerateAnswers
<1> DEFINE m == Message("assistant", {}, MergedFacts(said))
<1>3. m \in Messages /\ m.ids = {} /\ messages' = Append(messages, m)
  BY <1>1, <1>2 DEF Message, Messages, MergedFacts, TurnTypes
<1> HIDE DEF m
<1>4. TurnTypes'
  BY <1>1, <1>3, AppendFacts DEF TurnTypes, GenerateAnswers, EndTurn
<1>5. SessionTypes'
  BY <1>1 DEF SessionTypes, sessions
<1>6. TurnInPlace'
  BY DEF GenerateAnswers, EndTurn, TurnInPlace
<1>7. HistoryInPlace'
  BY <1>1, <1>3, HistoryGrows
<1> QED
  BY <1>1, <1>4, <1>5, <1>6, <1>7, TypesNext DEF ChatInv, PayloadsInPlace

(* A non-empty set of numbers has a smallest element. *)
LEMMA SmallestNumber ==
  ASSUME NEW S, S \subseteq Nat, S # {}
  PROVE  \E k \in S : \A j \in S : k <= j
<1> DEFINE R == OpToRel(<, Nat)
<1>1. IsWellFoundedOn(R, Nat)
  BY NatLessThanWellFounded
<1> HIDE DEF R
<1>2. PICK k \in S : \A j \in S : ~ (<<j, k>> \in R)
  BY <1>1, WFMin
<1>3. \A j \in S : ~(j < k)
  BY <1>2 DEF R, OpToRel
<1> QED
  BY <1>3

(* A call goes out on the session of the server that bears its name. *)
LEMMA TargetBears ==
  ASSUME SessionTypes, NEW name, Owners(name) # {}
  PROVE  Target(name) \in Servers /\ LlmName(Target(name)) = name
<1>1. registered \in Seq(Servers) /\ DOMAIN registered = 1 .. Len(registered)
      /\ Len(registered) \in Nat /\ \A i \in DOMAIN registered : registered[i] \in Servers
  BY LenProperties DEF SessionTypes
<1> DEFINE i == CHOOSE i \in Owners(name) : \A j \in Owners(name) : i <= j
<1>2. \E k \in Owners(name) : \A j \in Owners(name) : k <= j
  <2>1. Owners(name) \subseteq Nat
    BY <1>1 DEF Owners
  <2> QED
    BY <2>1, SmallestNumber
<1>3. i \in Owners(name)
  BY <1>2
<1> HIDE DEF i
<1>4. Target(name) = registered[i]
  BY DEF Target, i
<1> QED
  BY <1>1, <1>3, <1>4 DEF Owners

LEMMA DispatchKeeps ==
  ASSUME ChatInv, Dispatch
  PROVE  ChatInv'
<1> DEFINE name == Head(todo)[2]
<1>1. SessionTypes /\ SessionMoves /\ UNCHANGED sessions /\ pc = "dispatch"
  BY Types, UnchangedMoves DEF ChatInv, Dispatch
<1>2. CASE \E facts \in {{"unknown tool"}, {"no session"}} : Answer(facts)
  BY <1>1, <1>2, AnswerKeeps DEF Errors
<1>3. CASE /\ Owners(name) # {}
           /\ open[Target(name)] # 0
           /\ sess' = <<Target(name), open[Target(name)]>>
           /\ first' = sess'
           /\ pc' = "call"
           /\ UNCHANGED <<messages, offered, todo, payloads, turns, calls, cut>>
  <2>1. Target(name) \in Servers /\ LlmName(Target(name)) = name
    BY <1>1, <1>3, TargetBears
  <2>2. /\ open[Target(name)] \in 1 .. MaxOpens /\ opened'[Target(name)] = opened[Target(name)]
        /\ open[Target(name)] <= opened[Target(name)]
    BY <1>1, <1>3, <2>1, BoundsAssumption DEF SessionTypes, sessions
  <2>3. /\ first' \in Sessions /\ sess' \in Sessions /\ sess'[1] = Target(name)
        /\ first'[1] = Target(name) /\ first'[2] = open[Target(name)]
    BY <1>3, <2>1, <2>2 DEF Sessions
  <2> QED
    BY <1>1, <1>3, <2>1, <2>2, <2>3, GoesOnKeeps
<1> QED
  BY <1>2, <1>3 DEF Dispatch

LEMMA ReconnectFacts ==
  ASSUME ChatInv, pc \in {"call", "reconnect", "reconnected", "retry"}
  PROVE  /\ SessionTypes /\ sess \in Sessions /\ first \in Sessions
         /\ sess[1] \in Servers /\ sess[1] = first[1] /\ LlmName(sess[1]) = Head(todo)[2]
         /\ first[2] \in Nat /\ first[2] <= opened[sess[1]]
         /\ open[sess[1]] \in Nat /\ opened[sess[1]] \in Nat
  BY Types, BoundsAssumption DEF ChatInv, TurnInPlace, Sessions, SessionTypes

LEMMA CallExpiredKeeps ==
  ASSUME ChatInv, CallExpired
  PROVE  ChatInv'
<1>1. pc = "call"
  BY DEF CallExpired
<1>2. CASE Answer({"expired"}) /\ UNCHANGED sessions
  BY <1>1, <1>2, AnswerKeeps, UnchangedMoves, ReconnectFacts DEF Errors
<1>3. CASE /\ \/ open[sess[1]] # 0 /\ Disconnected(sess[1])
              \/ open[sess[1]] = 0 /\ UNCHANGED sessions
           /\ pc' = "reconnect"
           /\ UNCHANGED <<messages, offered, todo, payloads, first, sess, turns, calls, cut>>
  <2>1. SessionMoves /\ open'[sess[1]] = 0
    BY <1>1, <1>3, UnchangedMoves, DisconnectedMoves, ReconnectFacts DEF sessions
  <2>2. opened[sess[1]] <= opened'[sess[1]] /\ opened'[sess[1]] \in Nat
    BY <1>1, <2>1, ReconnectFacts, BoundsAssumption DEF SessionMoves, SessionTypes
  <2> QED
    BY <1>1, <1>3, <2>1, <2>2, ReconnectFacts, GoesOnKeeps
<1> QED
  BY <1>2, <1>3 DEF CallExpired

LEMMA ReconnectOpensKeeps ==
  ASSUME ChatInv, ReconnectOpens
  PROVE  ChatInv'
<1>1. /\ pc = "reconnect" /\ SwapIn(sess[1]) /\ pc' = "reconnected"
      /\ UNCHANGED <<messages, offered, todo, payloads, first, sess, turns, calls, cut>>
  BY DEF ReconnectOpens
<1>2. SessionMoves /\ open'[sess[1]] > opened[sess[1]]
  BY <1>1, ReconnectFacts, SwapInMoves
<1>3. opened[sess[1]] <= opened'[sess[1]] /\ opened'[sess[1]] \in Nat /\ open'[sess[1]] \in Nat
  BY <1>1, <1>2, ReconnectFacts, BoundsAssumption DEF SessionMoves, SessionTypes
<1> QED
  BY <1>1, <1>2, <1>3, ReconnectFacts, GoesOnKeeps

LEMMA ReconnectReturnsKeeps ==
  ASSUME ChatInv, ReconnectReturns
  PROVE  ChatInv'
<1>1. pc = "reconnected" /\ UNCHANGED sessions /\ SessionMoves
  BY ReconnectFacts, UnchangedMoves DEF ReconnectReturns
<1>2. CASE Answer({"expired"})
  BY <1>1, <1>2, AnswerKeeps DEF Errors
<1>3. CASE /\ open[sess[1]] # 0
           /\ sess' = <<sess[1], open[sess[1]]>>
           /\ pc' = "retry"
           /\ UNCHANGED <<messages, offered, todo, payloads, first, turns, calls, cut>>
  <2>1. open[sess[1]] > first[2] /\ open[sess[1]] \in 1 .. MaxOpens
    BY <1>1, <1>3, ReconnectFacts, BoundsAssumption DEF ChatInv, TurnInPlace, SessionTypes
  <2>2. /\ sess' \in Sessions /\ sess'[1] = sess[1] /\ sess'[2] = open[sess[1]]
    BY <1>1, <1>3, <2>1, ReconnectFacts DEF Sessions
  <2> QED
    BY <1>1, <1>3, <2>1, <2>2, ReconnectFacts, GoesOnKeeps DEF sessions
<1> QED
  BY <1>2, <1>3 DEF ReconnectReturns

(* The rest: handlers, turns that end, and answers that leave the sessions   *)
(* alone.                                                                    *)
LEMMA HandlerSteps ==
  ASSUME ChatInv, NEW s \in Servers, Connect(s) \/ Disconnect(s)
  PROVE  ChatInv'
<1>1. SessionTypes /\ UNCHANGED <<messages, cut>> /\ UNCHANGED turn
  BY Types DEF ChatInv, Connect, Disconnect
<1>2. CASE SwapIn(s) \/ Disconnected(s)
  BY <1>1, <1>2, SwapInMoves, DisconnectedMoves, HandlersKeep
<1>3. CASE registered' = Registered(s) /\ UNCHANGED <<open, opened>>
  <2>1. SessionMoves
    BY <1>1, <1>3, RegisteredTypes DEF SessionMoves, SessionTypes
  <2> QED
    BY <1>1, <2>1, HandlersKeep
<1> QED
  BY <1>2, <1>3 DEF Connect, Disconnect

LEMMA QuietSteps ==
  ASSUME ChatInv,
         Stop \/ GenerateFails \/ BadArguments \/ Call \/ ReconnectRefused
         \/ ReconnectRaises \/ Retry
  PROVE  ChatInv'
<1>1. UNCHANGED sessions /\ SessionMoves
  <2>1. UNCHANGED sessions
    BY DEF Stop, GenerateFails, BadArguments, Call, ReconnectRefused, ReconnectRaises, Retry
  <2> QED
    BY <2>1, Types, UnchangedMoves DEF ChatInv
<1>2. CASE Die
  BY <1>1, <1>2, DieKeeps
<1>3. CASE pc \notin {"idle", "generate"} /\ \E facts \in SUBSET Errors : Answer(facts)
  BY <1>1, <1>3, AnswerKeeps
<1> QED
  BY <1>2, <1>3 DEF Stop, GenerateFails, BadArguments, Call, ReconnectRefused,
                    ReconnectRaises, Retry, Errors

LEMMA RestKeeps ==
  ASSUME ChatInv, UNCHANGED vars
  PROVE  ChatInv'
<1>1. UNCHANGED sessions /\ UNCHANGED turn /\ UNCHANGED <<messages, cut>> /\ SessionTypes
  BY Types DEF vars, sessions, turn, ChatInv
<1> QED
  BY <1>1, UnchangedMoves, HandlersKeep

LEMMA StepInPlace == ChatInv /\ [Next]_vars => ChatInv'
  BY RestKeeps, HandlerSteps, QuietSteps, ChatStartKeeps, UserMessageKeeps, GenerateCallsKeeps,
     GenerateAnswersKeeps, DispatchKeeps, CallExpiredKeeps, ReconnectOpensKeeps,
     ReconnectReturnsKeeps DEF Next

--------------------------------------------------------------------------------
(* A turn is where its calls, its session and its history say, whatever      *)
(* handlers connect and disconnect meanwhile.                                *)
THEOREM ChatInvariance == Spec => []ChatInv
  BY InitInPlace, StepInPlace, PTL DEF Spec

(* Every request is well formed, unless a turn died between its calls.       *)
THEOREM WellFormedRequests == Spec => []RequestsWellFormed
<1>1. ChatInv => RequestsWellFormed
  BY DEF ChatInv, TurnInPlace, HistoryInPlace, RequestsWellFormed, WellFormed
<1> QED
  BY <1>1, ChatInvariance, PTL

(* A Gateway's tool is called on the server that offered it, and a repeated  *)
(* call goes to another session of that server.                              *)
THEOREM CallsReachTheirServer == Spec => []CallReachesItsServer
<1>1. ASSUME ChatInv, pc \in {"call", "retry"}, NEW o \in offered,
             o[1] = Head(todo)[2], o[2] \in Gateway
      PROVE  sess[1] = o[2]
  <2>1. LlmName(o[2]) = LlmName(sess[1])
    BY <1>1 DEF ChatInv, TurnInPlace
  <2>2. LlmName(o[2]) = <<o[2], "tool">>
    BY <1>1 DEF LlmName
  <2>3. sess[1] \in Gateway
    <3>1. ASSUME sess[1] \notin Gateway PROVE FALSE
      <4>1. <<"tool">> = <<o[2], "tool">>
        BY <2>1, <2>2, <3>1 DEF LlmName
      <4>2. Len(<<"tool">>) = 1 /\ Len(<<o[2], "tool">>) = 2
        OBVIOUS
      <4> QED
        BY <4>1, <4>2
    <3> QED
      BY <3>1
  <2>4. <<sess[1], "tool">> = <<o[2], "tool">>
    BY <2>1, <2>2, <2>3 DEF LlmName
  <2> QED
    BY <2>4
<1>2. ChatInv => OfferedByTarget
  BY <1>1 DEF OfferedByTarget
<1>3. ChatInv => RetryGoesToNewSession
  BY DEF ChatInv, TurnInPlace, RetryGoesToNewSession
<1>4. ChatInv => CallReachesItsServer
  BY <1>2, <1>3 DEF CallReachesItsServer
<1> QED
  BY <1>4, ChatInvariance, PTL

(* The answer a user is sent names every error a tool gave in the turn.      *)
THEOREM ErrorsAreShown == Spec => ToolErrorsAreShown
<1> DEFINE Shown == GenerateAnswers =>
              \A i \in LastUser + 1 .. Len(messages) :
                 messages[i].role = "tool" => messages[i].facts \subseteq messages'[Len(messages')].facts
<1>1. ASSUME ChatInv, GenerateAnswers, NEW i \in LastUser + 1 .. Len(messages),
             messages[i].role = "tool"
      PROVE  messages[i].facts \subseteq messages'[Len(messages')].facts
  <2>1. messages \in Seq(Messages) /\ Len(messages) \in Nat /\ DOMAIN messages = 1 .. Len(messages)
        /\ payloads \subseteq Errors
    BY <1>1, LenProperties DEF ChatInv, TypeOK
  <2>2. PICK u \in DOMAIN messages : QuestionAt(u)
    BY <1>1 DEF ChatInv, PayloadsInPlace, GenerateAnswers
  <2>3. LastUser = u
    <3> DEFINE users == {k \in DOMAIN messages : messages[k].role = "user"}
    <3>1. u \in users /\ \A k \in users : k <= u
      BY <2>1, <2>2 DEF QuestionAt
    <3>2. \A v \in users : (\A k \in users : k <= v) => v = u
      BY <2>1, <3>1
    <3> HIDE DEF users
    <3> QED
      BY <3>1, <3>2 DEF LastUser, Max, users
  <2>4. messages[i].facts \subseteq payloads
    BY <1>1, <2>2, <2>3 DEF QuestionAt
  <2>5. PICK said \in SUBSET payloads :
           messages' = Append(messages, Message("assistant", {}, MergedFacts(said)))
    BY <1>1 DEF GenerateAnswers
  <2>6. Message("assistant", {}, MergedFacts(said)) \in Messages
    BY <2>1, <2>5 DEF Message, Messages, MergedFacts
  <2>7. messages'[Len(messages')].facts = MergedFacts(said)
    BY <2>1, <2>5, <2>6, AppendFacts DEF Message
  <2> QED
    BY <2>4, <2>7 DEF MergedFacts
<1>2. ChatInv /\ [Next]_vars => [Shown]_vars
  BY <1>1
<1>3. Spec => [][Shown]_vars
  BY <1>2, ChatInvariance, PTL DEF Spec
<1> QED
  BY <1>3 DEF ToolErrorsAreShown
===================================================================================
