--------------------------- MODULE TokenManagerProofs ---------------------------
(***************************************************************************)
(* What TokenManager guarantees for every number of users, browser tabs    *)
(* and calls, over either store, however their steps interleave.           *)
(***************************************************************************)
EXTENDS TokenManager, TLAPS

(* No user and no token is None. *)
LEMMA Somebody ==
  /\ \A s \in Sessions : UserOf[s] \in Subjects /\ UserOf[s] # None
  /\ \A t \in Tokens : t # None /\ t.subject \in Subjects /\ t.sso \in Nat /\ t.issue \in Nat
  /\ \A s \in Sessions : s # None
  BY UserOfAssumption, NoneAssumption, MaxIssuesAssumption DEF Tokens, Issues

(* Nothing of the calls other than c changes. *)
OthersRest(c) ==
    \A x \in Calls \ {c} :
        /\ pc'[x] = pc[x] /\ session'[x] = session[x] /\ force'[x] = force[x]
        /\ held'[x] = held[x] /\ since'[x] = since[x] /\ result'[x] = result[x]

(* A call that does not move stays in place while Keycloak opens new SSO     *)
(* sessions, ends others and counts its responses.                           *)
LEMMA RestInPlace ==
  ASSUME TokenInv, NEW x \in Calls,
         pc'[x] = pc[x], session'[x] = session[x], held'[x] = held[x],
         since'[x] = since[x], result'[x] = result[x],
         issued' \in Nat, issued <= issued',
         \A i \in ssoLive' : i \in ssoLive \/ i = issued + 1
  PROVE  InPlace(x)'
<1>1. InPlace(x) /\ issued \in Nat /\ since[x] \in Nat
  BY MaxIssuesAssumption DEF TokenInv, TypeOK
<1>2. held[x] \in Tokens => held[x].sso \in Nat
  BY Somebody
<1>3. pc[x] = "refused" => ~Live(held[x])'
  BY <1>1, <1>2 DEF InPlace, Live
<1> QED
  BY <1>1, <1>2, <1>3 DEF InPlace

(* A step of call c is right if c is in place after it and the others rest.  *)
LEMMA CallInPlace ==
  ASSUME TokenInv, NEW c \in Calls, OthersRest(c), InPlace(c)',
         issued' \in Nat, issued <= issued',
         \A i \in ssoLive' : i \in ssoLive \/ i = issued + 1
  PROVE  \A x \in Calls : InPlace(x)'
<1> SUFFICES ASSUME NEW x \in Calls, x # c
             PROVE  InPlace(x)'
  OBVIOUS
<1> QED
  BY RestInPlace DEF OthersRest

--------------------------------------------------------------------------------
(* Binding a session to its user leaves ids that lead to their users.        *)
LEMMA BindType ==
  ASSUME TokenInv, NEW s \in Sessions
  PROVE  /\ Bind(UserOf[s], s) \in [Sessions -> Subjects \cup {None}]
         /\ \A x \in Sessions : Bind(UserOf[s], s)[x] \in {None, UserOf[x]}
<1>1. bound \in [Sessions -> Subjects \cup {None}] /\ UserOf[s] \in Subjects
  BY Somebody DEF TokenInv, TypeOK
<1>2. \A x \in Sessions : bound[x] \in {None, UserOf[x]}
  BY DEF TokenInv, StoreInPlace
<1> QED
  BY <1>1, <1>2 DEF Bind

(* bind_session. *)
LEMMA BindSessionKeeps ==
  ASSUME TokenInv, NEW s \in Sessions, BindSession(UserOf[s], s), UNCHANGED issued
  PROVE  /\ StoreInPlace'
         /\ backend' \in {"postgres", "memory"}
         /\ tokens' \in [Subjects -> Tokens \cup {None}]
         /\ bound' \in [Sessions -> Subjects \cup {None}]
<1>1. bound' = bound \/ bound' = Bind(UserOf[s], s)
  BY DEF BindSession
<1>2. UNCHANGED <<backend, tokens>>
  BY DEF BindSession
<1> QED
  BY <1>1, <1>2, BindType DEF TokenInv, TypeOK, StoreInPlace

(* upsert, of a sign-in or of a refresh for the user of its session.         *)
LEMMA UpsertKeeps ==
  ASSUME TokenInv, NEW t \in Tokens, t.sso <= issued, UNCHANGED issued,
         NEW s \in Sessions \cup {None}, s # None => t.subject = UserOf[s],
         Upsert(t, s)
  PROVE  /\ StoreInPlace'
         /\ backend' \in {"postgres", "memory"}
         /\ tokens' \in [Subjects -> Tokens \cup {None}]
         /\ bound' \in [Sessions -> Subjects \cup {None}]
<1>1. tokens' = [tokens EXCEPT ![t.subject] = t] /\ t.subject \in Subjects
  BY Somebody DEF Upsert
<1>2. bound' = bound \/ (s \in Sessions /\ bound' = Bind(UserOf[s], s))
  BY DEF Upsert
<1>3. tokens \in [Subjects -> Tokens \cup {None}]
  BY DEF TokenInv, TypeOK
<1>4. \A u \in Subjects : tokens'[u] # None => tokens'[u].subject = u /\ tokens'[u].sso <= issued'
  BY <1>1, <1>3 DEF TokenInv, StoreInPlace
<1>5. /\ bound' \in [Sessions -> Subjects \cup {None}]
      /\ \A x \in Sessions : bound'[x] \in {None, UserOf[x]}
  BY <1>2, BindType DEF TokenInv, TypeOK, StoreInPlace
<1> QED
  BY <1>1, <1>3, <1>4, <1>5 DEF Upsert, TokenInv, TypeOK, StoreInPlace

(* delete_by_session. *)
LEMMA DeleteKeeps ==
  ASSUME TokenInv, NEW s \in Sessions, DeleteBySession(s), UNCHANGED issued
  PROVE  /\ StoreInPlace'
         /\ backend' \in {"postgres", "memory"}
         /\ tokens' \in [Subjects -> Tokens \cup {None}]
         /\ bound' \in [Sessions -> Subjects \cup {None}]
         /\ \A u \in Subjects : tokens[u] # None /\ tokens'[u] = None => u = UserOf[s]
<1>1. /\ tokens \in [Subjects -> Tokens \cup {None}]
      /\ bound \in [Sessions -> Subjects \cup {None}]
      /\ backend \in {"postgres", "memory"}
  BY DEF TokenInv, TypeOK
<1>2. bound[s] # None => bound[s] = UserOf[s]
  BY DEF TokenInv, StoreInPlace
<1>3. tokens' = tokens \/ (bound[s] # None /\ tokens' = [tokens EXCEPT ![bound[s]] = None])
  BY DEF DeleteBySession
<1>4. bound' = [bound EXCEPT ![s] = None] /\ backend' = backend
  BY DEF DeleteBySession
<1>5. tokens' \in [Subjects -> Tokens \cup {None}] /\ bound' \in [Sessions -> Subjects \cup {None}]
  BY <1>1, <1>3, <1>4
<1>6. \A u \in Subjects : tokens'[u] = tokens[u] \/ (tokens'[u] = None /\ u = UserOf[s])
  BY <1>1, <1>2, <1>3
<1>7. StoreInPlace'
  BY <1>1, <1>4, <1>6 DEF TokenInv, StoreInPlace
<1> QED
  BY <1>1, <1>4, <1>5, <1>6, <1>7

--------------------------------------------------------------------------------
(* The variables of the calls, each with its type. *)
CallTypes ==
    /\ pc \in [Calls -> {"idle", "login", "read", "post", "save", "refused", "bind"}]
    /\ session \in [Calls -> Sessions \cup {None}]
    /\ force \in [Calls -> BOOLEAN]
    /\ retry \in [Calls -> BOOLEAN]
    /\ held \in [Calls -> Tokens \cup {None}]
    /\ since \in [Calls -> 0 .. MaxIssues]
    /\ result \in [Calls -> Outcomes]

(* No call has begun before Keycloak has answered. *)
LEMMA Since == 0 \in 0 .. MaxIssues
  BY MaxIssuesAssumption

(* A call that returns is idle and the others rest. *)
LEMMA ReturnKeeps ==
  ASSUME TokenInv, NEW c \in Calls, NEW what \in Outcomes, NEW t \in Tokens \cup {None},
         Return(c, what, t)
  PROVE  CallTypes' /\ OthersRest(c) /\ InPlace(c)'
<1>1. CallTypes
  BY DEF TokenInv, TypeOK, CallTypes
<1>2. CallTypes'
  BY <1>1, Since DEF CallTypes, Return
<1>3. OthersRest(c)
  BY <1>1 DEF CallTypes, Return, OthersRest
<1>4. pc'[c] = "idle"
  BY <1>1 DEF CallTypes, Return
<1> QED
  BY <1>2, <1>3, <1>4 DEF InPlace

(* A call without a token returns or is repeated after binding its session.  *)
LEMMA ReturnNoneKeeps ==
  ASSUME TokenInv, NEW c \in Calls, NEW why \in Outcomes, ReturnNone(c, why),
         pc[c] \in {"read", "post"}, UNCHANGED issued
  PROVE  CallTypes' /\ OthersRest(c) /\ InPlace(c)'
<1>1. CallTypes
  BY DEF TokenInv, TypeOK, CallTypes
<1>2. CASE ~retry[c]
  BY <1>2, ReturnKeeps DEF ReturnNone
<1>3. CASE retry[c]
  <2>1. /\ pc' = [pc EXCEPT ![c] = "bind"] /\ retry' = [retry EXCEPT ![c] = FALSE]
        /\ held' = [held EXCEPT ![c] = None]
        /\ UNCHANGED <<session, force, since, result>>
    BY <1>3 DEF ReturnNone
  <2>2. CallTypes' /\ OthersRest(c) /\ pc'[c] = "bind"
    BY <1>1, <2>1 DEF CallTypes, OthersRest
  <2>3. InPlace(c)
    BY DEF TokenInv
  <2> QED
    BY <2>1, <2>2, <2>3 DEF InPlace
<1> QED
  BY <1>2, <1>3

(* Steps of a call that touch neither the store nor Keycloak. *)
LEMMA CallStepKeeps ==
  ASSUME TokenInv, NEW c \in Calls, CallTypes', OthersRest(c), InPlace(c)',
         UNCHANGED store, UNCHANGED keycloak
  PROVE  TokenInv'
<1>1. TypeOK'
  BY DEF TokenInv, TypeOK, CallTypes, store, keycloak
<1>2. StoreInPlace'
  BY DEF TokenInv, StoreInPlace, store, keycloak
<1>3. issued \in Nat
  BY MaxIssuesAssumption DEF TokenInv, TypeOK
<1>4. \A x \in Calls : InPlace(x)'
  BY <1>3, CallInPlace DEF keycloak
<1> QED
  BY <1>1, <1>2, <1>4 DEF TokenInv

(* Steps of a call that write to the store. *)
LEMMA StoreStepKeeps ==
  ASSUME TokenInv, NEW c \in Calls, CallTypes', OthersRest(c), InPlace(c)',
         StoreInPlace',
         backend' \in {"postgres", "memory"},
         tokens' \in [Subjects -> Tokens \cup {None}],
         bound' \in [Sessions -> Subjects \cup {None}],
         UNCHANGED keycloak
  PROVE  TokenInv'
<1>1. TypeOK'
  BY DEF TokenInv, TypeOK, CallTypes, keycloak
<1>2. issued \in Nat
  BY MaxIssuesAssumption DEF TokenInv, TypeOK
<1>3. \A x \in Calls : InPlace(x)'
  BY <1>2, CallInPlace DEF keycloak
<1> QED
  BY <1>1, <1>3 DEF TokenInv

(* A response of Keycloak: one more, numbered, perhaps of a new session.     *)
LEMMA IssueStepKeeps ==
  ASSUME TokenInv, NEW c \in Calls, CallTypes', OthersRest(c), InPlace(c)',
         issued < MaxIssues, issued' = issued + 1,
         ssoLive' \in {ssoLive, ssoLive \cup {issued + 1}},
         UNCHANGED stale, UNCHANGED store
  PROVE  TokenInv'
<1>1. issued \in Nat /\ issued' \in 0 .. MaxIssues /\ issued' \in Issues /\ issued <= issued'
  BY MaxIssuesAssumption DEF TokenInv, TypeOK, Issues
<1>2. ssoLive' \subseteq Issues
  BY <1>1 DEF TokenInv, TypeOK
<1>3. TypeOK'
  BY <1>1, <1>2 DEF TokenInv, TypeOK, CallTypes, store
<1>4. StoreInPlace'
  <2>1. \A u \in Subjects : tokens[u] # None => tokens[u].sso \in Nat
    BY Somebody DEF TokenInv, TypeOK
  <2> QED
    BY <1>1, <2>1 DEF TokenInv, StoreInPlace, store
<1>5. issued' \in Nat
  BY <1>1
<1>6. \A x \in Calls : InPlace(x)'
  BY <1>1, <1>5, CallInPlace
<1> QED
  BY <1>3, <1>4, <1>6 DEF TokenInv

--------------------------------------------------------------------------------
(* A sign-in opens an SSO session of its own. *)
LEMMA LoginKeeps ==
  ASSUME TokenInv, NEW c \in Calls, NEW u \in Subjects, Login(c, u)
  PROVE  TokenInv'
<1>1. CallTypes /\ issued \in Nat /\ issued + 1 \in Issues
  BY MaxIssuesAssumption DEF TokenInv, TypeOK, CallTypes, Login, Issues
<1>2. PICK captured \in BOOLEAN :
        held' = [held EXCEPT ![c] = [subject |-> u, sso |-> issued + 1,
                                     issue |-> issued + 1, refresh |-> captured]]
  BY DEF Login
<1>3. [subject |-> u, sso |-> issued + 1, issue |-> issued + 1, refresh |-> captured] \in Tokens
  BY <1>1 DEF Tokens
<1>4. CallTypes'
  BY <1>1, <1>2, <1>3 DEF CallTypes, Login, Outcomes
<1>5. OthersRest(c)
  BY <1>1, <1>2 DEF CallTypes, Login, OthersRest
<1>6. /\ pc'[c] = "login" /\ result'[c] = "pending" /\ issued' = issued + 1
      /\ held'[c] = [subject |-> u, sso |-> issued + 1, issue |-> issued + 1, refresh |-> captured]
  BY <1>1, <1>2 DEF CallTypes, Login
<1>7. InPlace(c)'
  BY <1>1, <1>3, <1>6 DEF InPlace
<1> QED
  BY <1>4, <1>5, <1>7, IssueStepKeeps DEF Login

(* A call reads the stored tokens of its session's user. *)
LEMMA StoredTokens ==
  ASSUME TokenInv, NEW s \in Sessions, GetBySession(s) # None
  PROVE  /\ GetBySession(s) \in Tokens /\ GetBySession(s).subject = UserOf[s]
         /\ GetBySession(s).sso <= issued
<1>1. bound[s] = UserOf[s] /\ UserOf[s] \in Subjects
  BY Somebody DEF TokenInv, StoreInPlace, GetBySession
<1>2. GetBySession(s) = tokens[UserOf[s]]
  BY <1>1, Somebody DEF GetBySession
<1> QED
  BY <1>1, <1>2 DEF TokenInv, TypeOK, StoreInPlace

(* get_access_token up to the refresh grant. *)
LEMMA ReadKeeps ==
  ASSUME TokenInv, NEW c \in Calls, Read(c)
  PROVE  TokenInv'
<1> DEFINE t == GetBySession(session[c])
<1>1. /\ CallTypes /\ InPlace(c) /\ pc[c] = "read" /\ session[c] \in Sessions
      /\ UNCHANGED store /\ UNCHANGED keycloak /\ issued' = issued
  BY DEF TokenInv, TypeOK, CallTypes, InPlace, Read, keycloak
<1>2. t # None => t \in Tokens /\ t.subject = UserOf[session[c]] /\ t.sso <= issued
  BY <1>1, StoredTokens
<1>3. CASE ReturnNone(c, "none") \/ ReturnNone(c, "unavailable")
  BY <1>1, <1>3, ReturnNoneKeeps, CallStepKeeps DEF Outcomes
<1>4. CASE t # None /\ Return(c, "token", t)
  BY <1>1, <1>2, <1>4, ReturnKeeps, CallStepKeeps DEF Outcomes
<1>5. CASE /\ t # None /\ held' = [held EXCEPT ![c] = t]
           /\ pc' = [pc EXCEPT ![c] = "post"]
           /\ UNCHANGED <<session, force, retry, since, result>>
  <2>1. CallTypes' /\ OthersRest(c) /\ pc'[c] = "post" /\ held'[c] = t
    BY <1>1, <1>2, <1>5 DEF CallTypes, OthersRest
  <2>2. InPlace(c)'
    BY <1>1, <1>2, <1>5, <2>1 DEF InPlace
  <2> QED
    BY <1>1, <2>1, <2>2, CallStepKeeps
<1> QED
  BY <1>3, <1>4, <1>5 DEF Read

(* A refresh keeps the user and the SSO session, and is newer than the call. *)
LEMMA RefreshedKeeps ==
  ASSUME TokenInv, NEW c \in Calls, Refreshed(c)
  PROVE  TokenInv'
<1>1. /\ CallTypes /\ InPlace(c) /\ issued \in Nat /\ issued + 1 \in Issues
      /\ since[c] \in Nat /\ pc[c] = "post"
  BY MaxIssuesAssumption DEF TokenInv, TypeOK, CallTypes, Refreshed, Issues
<1>2. held[c] \in Tokens /\ held[c].sso <= issued /\ held[c].sso \in Nat
      /\ held[c].subject = UserOf[session[c]] /\ session[c] \in Sessions /\ since[c] <= issued
  BY <1>1, Somebody DEF InPlace
<1>3. PICK given \in BOOLEAN :
        held' = [held EXCEPT ![c] = [@ EXCEPT !.issue = issued + 1, !.refresh = given]]
  BY DEF Refreshed
<1> DEFINE new == [held[c] EXCEPT !.issue = issued + 1, !.refresh = given]
<1>4. /\ new \in Tokens /\ new.sso = held[c].sso /\ new.subject = held[c].subject
      /\ new.issue = issued + 1
  BY <1>1, <1>2 DEF Tokens
<1>5. CallTypes'
  BY <1>1, <1>4, <1>3 DEF CallTypes, Refreshed
<1>6. OthersRest(c)
  BY <1>1 DEF CallTypes, Refreshed, OthersRest
<1>7. /\ pc'[c] = "save" /\ held'[c] = new /\ session' = session /\ since' = since
      /\ result' = result /\ issued' = issued + 1
  BY <1>1, <1>3 DEF CallTypes, Refreshed
<1>8. InPlace(c)'
  BY <1>1, <1>2, <1>4, <1>7 DEF InPlace
<1> QED
  BY <1>5, <1>6, <1>8, IssueStepKeeps DEF Refreshed

(* The other steps of a call. *)
LEMMA OtherCallSteps ==
  ASSUME TokenInv, NEW c \in Calls,
         \/ \E s \in Sessions, f \in BOOLEAN : Ask(c, s, f)
         \/ SaveLogin(c) \/ Refuse(c) \/ Transient(c) \/ SaveRefresh(c)
         \/ DropRefused(c) \/ Rebind(c)
  PROVE  TokenInv'
<1>1. CallTypes /\ InPlace(c) /\ issued \in Nat /\ issued \in 0 .. MaxIssues
  BY MaxIssuesAssumption DEF TokenInv, TypeOK, CallTypes
<1>2. ASSUME NEW s \in Sessions, NEW f \in BOOLEAN, Ask(c, s, f)
      PROVE  TokenInv'
  <2>1. CallTypes'
    BY <1>1, <1>2 DEF CallTypes, Ask, Outcomes
  <2>2. OthersRest(c)
    BY <1>1, <1>2 DEF CallTypes, Ask, OthersRest
  <2>3. /\ pc'[c] = "read" /\ session'[c] = s /\ since'[c] = issued /\ result'[c] = "pending"
        /\ issued' = issued /\ UNCHANGED store /\ UNCHANGED keycloak
    BY <1>1, <1>2 DEF CallTypes, Ask, keycloak
  <2>4. InPlace(c)'
    BY <1>1, <2>3 DEF InPlace
  <2> QED
    BY <2>1, <2>2, <2>3, <2>4, CallStepKeeps
<1>3. CASE SaveLogin(c)
  <2>1. held[c] \in Tokens /\ held[c].sso <= issued /\ UNCHANGED keycloak /\ issued' = issued
    BY <1>1, <1>3 DEF InPlace, SaveLogin, keycloak
  <2>2. CallTypes' /\ OthersRest(c) /\ InPlace(c)'
    BY <1>3, ReturnKeeps DEF SaveLogin, Outcomes
  <2>3. Upsert(held[c], None)
    BY <1>3 DEF SaveLogin
  <2> QED
    BY <2>1, <2>2, <2>3, UpsertKeeps, StoreStepKeeps
<1>4. CASE Refuse(c)
  <2>1. CallTypes' /\ OthersRest(c)
    BY <1>1, <1>4 DEF CallTypes, OthersRest, Refuse
  <2>2. InPlace(c)'
    BY <1>1, <1>4 DEF CallTypes, InPlace, Refuse, Live, keycloak
  <2> QED
    BY <1>4, <2>1, <2>2, CallStepKeeps DEF Refuse
<1>5. CASE Transient(c)
  <2>1. CallTypes' /\ OthersRest(c) /\ InPlace(c)'
    BY <1>5, ReturnNoneKeeps, ReturnKeeps DEF Transient, keycloak, Outcomes
  <2> QED
    BY <1>5, <2>1, CallStepKeeps DEF Transient
<1>6. CASE SaveRefresh(c)
  <2>1. /\ held[c] \in Tokens /\ held[c].sso <= issued /\ session[c] \in Sessions
        /\ held[c].subject = UserOf[session[c]] /\ UNCHANGED keycloak /\ issued' = issued
    BY <1>1, <1>6 DEF InPlace, SaveRefresh, keycloak
  <2>2. CallTypes' /\ OthersRest(c) /\ InPlace(c)'
    BY <1>6, <2>1, ReturnKeeps DEF SaveRefresh, Outcomes
  <2>3. Upsert(held[c], session[c])
    BY <1>6 DEF SaveRefresh
  <2> QED
    BY <2>1, <2>2, <2>3, UpsertKeeps, StoreStepKeeps
<1>7. CASE DropRefused(c)
  <2>1. session[c] \in Sessions /\ UNCHANGED keycloak /\ issued' = issued
    BY <1>1, <1>7 DEF InPlace, DropRefused, keycloak
  <2>2. CallTypes' /\ OthersRest(c) /\ InPlace(c)'
    BY <1>7, ReturnKeeps DEF DropRefused, Outcomes
  <2>3. DeleteBySession(session[c])
    BY <1>7 DEF DropRefused
  <2> QED
    BY <2>1, <2>2, <2>3, DeleteKeeps, StoreStepKeeps
<1>8. CASE Rebind(c)
  <2>1. session[c] \in Sessions /\ UNCHANGED keycloak /\ issued' = issued
    BY <1>1, <1>8 DEF InPlace, Rebind, keycloak
  <2>2. CallTypes' /\ OthersRest(c) /\ pc'[c] = "read"
    BY <1>1, <1>8 DEF CallTypes, OthersRest, Rebind
  <2>3. InPlace(c)'
    BY <1>1, <1>8, <2>1, <2>2 DEF InPlace, Rebind
  <2>4. BindSession(UserOf[session[c]], session[c])
    BY <1>8 DEF Rebind
  <2> QED
    BY <2>1, <2>2, <2>3, <2>4, BindSessionKeeps, StoreStepKeeps
<1> QED
  BY <1>2, <1>3, <1>4, <1>5, <1>6, <1>7, <1>8

(* Keycloak, a chat that starts, and a step of nobody. *)
LEMMA NobodyKeeps ==
  ASSUME TokenInv,
         \/ \E i \in Issues : EndSso(i) \/ Age(i)
         \/ \E s \in Sessions : ChatStart(s)
         \/ UNCHANGED vars
  PROVE  TokenInv'
<1> DEFINE rest == UNCHANGED <<pc, session, force, retry, held, since, result>>
<1>1. rest /\ issued' = issued /\ ssoLive' \subseteq ssoLive /\ stale' \subseteq Issues
  BY DEF TokenInv, TypeOK, EndSso, Age, ChatStart, vars, keycloak
<1>2. /\ StoreInPlace'
      /\ backend' \in {"postgres", "memory"}
      /\ tokens' \in [Subjects -> Tokens \cup {None}]
      /\ bound' \in [Sessions -> Subjects \cup {None}]
  <2>1. CASE UNCHANGED store
    BY <1>1, <2>1 DEF TokenInv, TypeOK, StoreInPlace, store
  <2>2. ASSUME NEW s \in Sessions, ChatStart(s)
        PROVE  BindSession(UserOf[s], s)
    BY <2>2 DEF ChatStart
  <2> QED
    BY <1>1, <2>1, <2>2, BindSessionKeeps DEF EndSso, Age, vars, store
<1>3. TypeOK'
  BY <1>1, <1>2 DEF TokenInv, TypeOK
<1>4. issued \in Nat /\ issued' \in Nat
  BY <1>1, MaxIssuesAssumption DEF TokenInv, TypeOK
<1>5. \A x \in Calls : InPlace(x)'
  BY <1>1, <1>4, RestInPlace
<1> QED
  BY <1>2, <1>3, <1>5 DEF TokenInv

(* Nobody is bound and nothing is stored when the process starts. *)
LEMMA InitInPlace == Init => TokenInv
<1> SUFFICES ASSUME Init
             PROVE  TokenInv
  OBVIOUS
<1>1. TypeOK
  BY Since DEF Init, TypeOK, Outcomes
<1> QED
  BY <1>1 DEF Init, TokenInv, StoreInPlace, InPlace

(* Every step keeps the invariant. *)
LEMMA StepInPlace == TokenInv /\ [Next]_vars => TokenInv'
  BY NobodyKeeps, LoginKeeps, ReadKeeps, RefreshedKeeps, OtherCallSteps DEF Next

--------------------------------------------------------------------------------
(* The inductive invariant holds in every reachable state.                   *)
THEOREM TokenInvariance == Spec => []TokenInv
  BY InitInPlace, StepInPlace, PTL DEF Spec

(* What a step is that returns a token to a call. *)
LEMMA TokenStep ==
  ASSUME TokenInv, Next, NEW c \in Calls, pc[c] \in {"read", "save"}, result'[c] = "token"
  PROVE  \/ /\ pc[c] = "read" /\ GetBySession(session[c]) # None
            /\ ~force[c] /\ Fresh(GetBySession(session[c]))
            /\ held'[c] = GetBySession(session[c])
         \/ pc[c] = "save" /\ held'[c] = held[c]
<1>1. CallTypes /\ InPlace(c) /\ result[c] = "pending"
  BY DEF TokenInv, TypeOK, CallTypes, InPlace
<1>2. Read(c) \/ SaveRefresh(c)
  <2>1. ASSUME NEW d \in Calls, Refreshed(d)
        PROVE  FALSE
    BY <1>1, <2>1 DEF Refreshed
  <2>2. ASSUME NEW d \in Calls, Transient(d)
        PROVE  FALSE
    BY <1>1, <2>2 DEF CallTypes, Transient, Return, ReturnNone
  <2> QED
    BY <1>1, <2>1, <2>2 DEF CallTypes, Next, EndSso, Age, ChatStart, Login, Ask, SaveLogin,
                            Read, Refuse, SaveRefresh, DropRefused, Rebind, Return, ReturnNone
<1>3. CASE Read(c)
  BY <1>1, <1>3 DEF CallTypes, Read, Return, ReturnNone
<1>4. CASE SaveRefresh(c)
  BY <1>1, <1>4 DEF CallTypes, SaveRefresh, Return
<1> QED
  BY <1>2, <1>3, <1>4

(* A call returns tokens of its own user only. *)
THEOREM OwnTokens == Spec => OwnToken
<1> DEFINE Own == \A c \in Calls : pc[c] \in {"read", "save"} /\ result'[c] = "token"
                    => held'[c].subject = UserOf[session[c]]
<1>1. ASSUME TokenInv, Next, NEW c \in Calls, pc[c] \in {"read", "save"}, result'[c] = "token"
      PROVE  held'[c].subject = UserOf[session[c]]
  <2>1. InPlace(c) /\ session[c] \in Sessions
    BY <1>1 DEF TokenInv, InPlace
  <2> QED
    BY <1>1, <2>1, TokenStep, StoredTokens DEF InPlace
<1>2. TokenInv /\ [Next]_vars => [Own]_vars
  BY <1>1
<1>3. Spec => [][Own]_vars
  BY <1>2, TokenInvariance, PTL DEF Spec
<1> QED
  BY <1>3 DEF OwnToken

(* A forced refresh returns a token issued after the call began, another     *)
(* call at least one that is not about to expire.                            *)
THEOREM FreshTokens == Spec => FreshOrNew
<1> DEFINE New == \A c \in Calls : pc[c] \in {"read", "save"} /\ result'[c] = "token"
                    => \/ held'[c].issue > since[c]
                       \/ ~force[c] /\ held'[c].issue \notin stale
<1>1. ASSUME TokenInv, Next, NEW c \in Calls, pc[c] \in {"read", "save"}, result'[c] = "token"
      PROVE  held'[c].issue > since[c] \/ (~force[c] /\ held'[c].issue \notin stale)
  <2>1. InPlace(c)
    BY <1>1 DEF TokenInv
  <2> QED
    BY <1>1, <2>1, TokenStep DEF InPlace, Fresh
<1>2. TokenInv /\ [Next]_vars => [New]_vars
  BY <1>1
<1>3. Spec => [][New]_vars
  BY <1>2, TokenInvariance, PTL DEF Spec
<1> QED
  BY <1>3 DEF FreshOrNew

(* Tokens leave the store only after Keycloak has refused one of their user. *)
THEOREM RefusedTokensOnly == Spec => DeletedOnlyAfterRefusal
<1> DEFINE Refused == \A u \in Subjects : tokens[u] # None /\ tokens'[u] = None
         => \E c \in Calls : /\ pc[c] = "refused" /\ pc'[c] = "idle"
                             /\ held[c].subject = u /\ ~Live(held[c])
<1>1. ASSUME TokenInv, Next, NEW u \in Subjects, tokens[u] # None, tokens'[u] = None
      PROVE  \E c \in Calls : /\ pc[c] = "refused" /\ pc'[c] = "idle"
                              /\ held[c].subject = u /\ ~Live(held[c])
  <2>1. tokens \in [Subjects -> Tokens \cup {None}] /\ CallTypes
    BY <1>1 DEF TokenInv, TypeOK, CallTypes
  <2>2. ASSUME NEW c \in Calls, SaveLogin(c) \/ SaveRefresh(c)
        PROVE  FALSE
    <3>1. held[c] \in Tokens /\ tokens' = [tokens EXCEPT ![held[c].subject] = held[c]]
      BY <1>1, <2>2 DEF TokenInv, InPlace, SaveLogin, SaveRefresh, Upsert
    <3> QED
      BY <1>1, <2>1, <3>1, Somebody
  <2>3. PICK c \in Calls : DropRefused(c)
    BY <1>1, <2>2 DEF Next, EndSso, Age, ChatStart, BindSession, Login, Ask, Read, Refreshed,
                      Refuse, Transient, Rebind, store
  <2>4. InPlace(c) /\ pc[c] = "refused" /\ session[c] \in Sessions
        /\ DeleteBySession(session[c]) /\ issued' = issued
    BY <1>1, <2>3 DEF TokenInv, InPlace, DropRefused, keycloak
  <2>5. u = UserOf[session[c]]
    BY <1>1, <2>4, DeleteKeeps
  <2>6. pc'[c] = "idle"
    BY <2>1, <2>3 DEF CallTypes, DropRefused, Return
  <2> QED
    BY <2>4, <2>5, <2>6 DEF InPlace
<1>2. TokenInv /\ [Next]_vars => [Refused]_vars
  BY <1>1
<1>3. Spec => [][Refused]_vars
  BY <1>2, TokenInvariance, PTL DEF Spec
<1> QED
  BY <1>3 DEF DeletedOnlyAfterRefusal
==================================================================================
