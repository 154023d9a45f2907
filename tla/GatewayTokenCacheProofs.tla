------------------------- MODULE GatewayTokenCacheProofs -------------------------
(***************************************************************************)
(* What GatewayTokenCache guarantees for every number of requests, callers *)
(* and servers, every lifetime Keycloak may give or leave out, every time  *)
(* an exchange may take and every setting.                                 *)
(***************************************************************************)
EXTENDS GatewayTokenCache, TLAPS

(* How long an entry is served: no longer than the limit, and no longer     *)
(* than the expires_in less the margin.                                     *)
LEMMA TtlBound ==
  ASSUME NEW life \in Nat, Ttl(life) # 0
  PROVE  Ttl(life) \in Nat /\ Ttl(life) <= MaxTtl /\ Ttl(life) + Margin <= life
  BY TimesAssumption DEF Ttl, Smaller

(* The times of a token. *)
LEMMA TokenType ==
  ASSUME NEW t \in Tokens
  PROVE  t.iat \in Nat /\ t.exp \in Nat /\ t.said \in Nat
<1>1. t.iat \in Nat /\ t.exp \in Nat /\ t.said \in Lifespans \cup {0}
  BY DEF Tokens
<1>2. \A life \in Lifespans : life \in Nat
  BY TimesAssumption
<1> QED
  BY <1>1, <1>2

(* The key of a request names its caller and its server (TokenCache._key). *)
LEMMA KeyType ==
  ASSUME NEW r \in Requests, query[r] \in Queries
  PROVE  /\ Key(r) \in Keys
         /\ Key(r)[1] = query[r].source /\ Key(r)[2] = query[r].server
  BY DEF Key, Keys, Queries

(* The Gateway starts with an empty cache and no request. *)
LEMMA InitCache == Init => CacheInv
  BY TimesAssumption
     DEF Init, CacheInv, TypeOK, EntriesMatchKeys, RequestsInPlace, ForwardedTokenIsOurs,
         EntriesAreBounded

(* A request that is over holds nothing, and nothing else has changed.      *)
LEMMA AnswerKeeps ==
  ASSUME CacheInv, NEW r \in Requests,
         NEW code \in {0, 200, 202, 400, 401, 403, 404, 500, 502, 503, 504},
         Answer(r, code), UNCHANGED <<now, cache>>
  PROVE  CacheInv'
<1>1. TypeOK'
  BY TimesAssumption DEF CacheInv, TypeOK, Answer
<1>2. EntriesMatchKeys' /\ EntriesAreBounded'
  BY DEF CacheInv, EntriesMatchKeys, EntriesAreBounded
<1>3. /\ pc'[r] = "idle"
      /\ \A o \in Requests \ {r} : /\ pc'[o] = pc[o] /\ query'[o] = query[o]
                                   /\ token'[o] = token[o]
  BY DEF CacheInv, TypeOK, Answer
<1>4. RequestsInPlace' /\ ForwardedTokenIsOurs'
  BY <1>3 DEF CacheInv, RequestsInPlace, ForwardedTokenIsOurs
<1> QED
  BY <1>1, <1>2, <1>4 DEF CacheInv

(* A request that goes from one stage to the next, with the cache as it is. *)
LEMMA ArriveKeeps ==
  ASSUME CacheInv, NEW r \in Requests, NEW q \in Inputs, Arrive(r, q)
  PROVE  CacheInv'
<1>1. CASE Unverified(r, q.source) /\ UNCHANGED <<now, cache>>
  <2>1. \E code \in {401, 403, 500} : Answer(r, code)
    BY <1>1 DEF Unverified
  <2> QED
    BY <1>1, <2>1, AnswerKeeps
<1>2. CASE /\ pc' = [pc EXCEPT ![r] = "body"]
           /\ query' = [query EXCEPT ![r] = q]
           /\ answer' = [answer EXCEPT ![r] = 0]
           /\ UNCHANGED <<token, now, cache>>
  <2>1. q \in Queries
    BY InputsAssumption
  <2>2. TypeOK'
    BY <1>2, <2>1 DEF CacheInv, TypeOK
  <2>3. EntriesMatchKeys' /\ EntriesAreBounded'
    BY <1>2 DEF CacheInv, EntriesMatchKeys, EntriesAreBounded
  <2>4. RequestsInPlace' /\ ForwardedTokenIsOurs'
    BY <1>2, <2>1 DEF CacheInv, TypeOK, RequestsInPlace, ForwardedTokenIsOurs
  <2> QED
    BY <2>2, <2>3, <2>4 DEF CacheInv
<1> QED
  BY <1>1, <1>2 DEF Arrive

(* A catalogue is a request that is over at once. *)
LEMMA ListServersKeeps ==
  ASSUME CacheInv, NEW r \in Requests, NEW q \in Inputs, ListServers(r, q)
  PROVE  CacheInv'
<1>1. \E code \in {200, 401, 403, 500} : Answer(r, code)
  BY DEF ListServers, Unverified
<1> QED
  BY <1>1, AnswerKeeps DEF ListServers

(* A token taken from the cache was put there for this caller and server. *)
LEMMA CacheHitKeeps ==
  ASSUME CacheInv, NEW r \in Requests, CacheHit(r)
  PROVE  CacheInv'
<1>1. query[r] \in Queries /\ Key(r) \in Keys
      /\ Key(r)[1] = query[r].source /\ Key(r)[2] = query[r].server
  BY KeyType DEF CacheInv, RequestsInPlace, CacheHit
<1>2. cache[Key(r)] # None /\ cache[Key(r)] \in Entries
  BY <1>1 DEF CacheInv, TypeOK, CacheHit, Fresh
<1>3. /\ cache[Key(r)].token \in Tokens
      /\ cache[Key(r)].token.source = query[r].source
      /\ cache[Key(r)].token.aud = query[r].server
  BY <1>1, <1>2 DEF CacheInv, EntriesMatchKeys, Entries
<1>4. TypeOK'
  BY <1>3 DEF CacheInv, TypeOK, CacheHit
<1>5. EntriesMatchKeys' /\ EntriesAreBounded'
  BY DEF CacheInv, EntriesMatchKeys, EntriesAreBounded, CacheHit
<1>6. RequestsInPlace' /\ ForwardedTokenIsOurs'
  BY <1>1, <1>3 DEF CacheInv, TypeOK, RequestsInPlace, ForwardedTokenIsOurs, CacheHit
<1> QED
  BY <1>4, <1>5, <1>6 DEF CacheInv

(* Popping an entry takes nothing from the others. *)
LEMMA CacheMissKeeps ==
  ASSUME CacheInv, NEW r \in Requests, CacheMiss(r)
  PROVE  CacheInv'
<1>1. TypeOK'
  BY DEF CacheInv, TypeOK, CacheMiss
<1>2. EntriesMatchKeys' /\ EntriesAreBounded'
  BY DEF CacheInv, TypeOK, EntriesMatchKeys, EntriesAreBounded, CacheMiss
<1>3. RequestsInPlace' /\ ForwardedTokenIsOurs'
  BY DEF CacheInv, TypeOK, RequestsInPlace, ForwardedTokenIsOurs, CacheMiss
<1> QED
  BY <1>1, <1>2, <1>3 DEF CacheInv

(* A token on its way from Keycloak was issued now, for this caller. *)
LEMMA IssueKeeps ==
  ASSUME CacheInv, NEW r \in Requests, KeycloakIssue(r)
  PROVE  CacheInv'
<1>1. query[r] \in Queries /\ query[r].source \in Sources
  BY DEF CacheInv, RequestsInPlace, KeycloakIssue, Queries
<1>2. PICK life \in Lifespans, aud \in Configured, said \in Lifespans \cup {0} :
        /\ said \in {life, 0}
        /\ token' = [token EXCEPT ![r] = [source |-> query[r].source, aud |-> aud,
                                          iat |-> now, exp |-> now + life, said |-> said]]
  BY DEF KeycloakIssue
<1>3. now \in Nat /\ life \in Nat /\ aud \in Servers /\ said \in Lifespans \cup {0}
  BY <1>2, TimesAssumption, RegistryAssumption DEF CacheInv, TypeOK
<1>4. [source |-> query[r].source, aud |-> aud,
       iat |-> now, exp |-> now + life, said |-> said] \in Tokens
  BY <1>1, <1>3 DEF Tokens
<1>5. TypeOK'
  BY <1>2, <1>3, <1>4 DEF CacheInv, TypeOK, KeycloakIssue
<1>6. EntriesMatchKeys' /\ EntriesAreBounded'
  BY DEF CacheInv, EntriesMatchKeys, EntriesAreBounded, KeycloakIssue
<1>7. /\ pc'[r] = "exchanged" /\ query' = query /\ now' = now
      /\ token'[r] = [source |-> query[r].source, aud |-> aud,
                      iat |-> now, exp |-> now + life, said |-> said]
      /\ \A o \in Requests \ {r} : pc'[o] = pc[o] /\ token'[o] = token[o]
  BY <1>2 DEF CacheInv, TypeOK, KeycloakIssue
<1>8. RequestsInPlace'
  BY <1>1, <1>2, <1>3, <1>4, <1>7, TimesAssumption DEF CacheInv, RequestsInPlace
<1>9. ForwardedTokenIsOurs'
  BY <1>7 DEF CacheInv, ForwardedTokenIsOurs
<1> QED
  BY <1>5, <1>6, <1>8, <1>9 DEF CacheInv

(* The one step that adds an entry.                                         *)
LEMMA ReceiveKeeps ==
  ASSUME CacheInv, NEW r \in Requests, Receive(r)
  PROVE  CacheInv'
<1> DEFINE tok == token[r]
           ttl == Ttl(ExpiresIn(tok))
<1>1. CASE (\E code \in {500, 502} : Answer(r, code)) /\ UNCHANGED <<now, cache>>
  BY <1>1, AnswerKeeps
<1>2. CASE /\ Verified(r)
           /\ Put(Key(r), tok)
           /\ pc' = [pc EXCEPT ![r] = "forward"]
           /\ UNCHANGED <<query, token, answer, now>>
  <2>1. /\ query[r] \in Queries /\ Key(r) \in Keys
        /\ Key(r)[1] = query[r].source /\ Key(r)[2] = query[r].server
    BY KeyType DEF CacheInv, RequestsInPlace, Receive
  <2>2. /\ tok \in Tokens /\ tok.source = query[r].source /\ tok.aud = query[r].server
        /\ tok.said # 0 => tok.exp = tok.iat + tok.said
        /\ now \in Nat /\ tok.said \in Nat
        /\ ExpiresIn(tok) \in Nat /\ (tok.said # 0 => ExpiresIn(tok) = tok.said)
    <3>1. /\ tok \in Tokens /\ tok.source = query[r].source
          /\ tok.said # 0 => tok.exp = tok.iat + tok.said
      BY DEF CacheInv, RequestsInPlace, Receive
    <3>2. tok.aud = query[r].server
      BY <1>2 DEF Verified
    <3>3. now \in Nat
      BY TimesAssumption DEF CacheInv, TypeOK
    <3>4. tok.said \in Nat
      BY <3>1, TokenType
    <3>5. ExpiresIn(tok) \in Nat /\ (tok.said # 0 => ExpiresIn(tok) = tok.said)
      BY <3>4, TimesAssumption DEF ExpiresIn
    <3> QED
      BY <3>1, <3>2, <3>3, <3>4, <3>5
  <2>3. RequestsInPlace' /\ ForwardedTokenIsOurs'
    <3>1. /\ pc'[r] = "forward" /\ query' = query /\ token' = token /\ now' = now
          /\ \A o \in Requests \ {r} : pc'[o] = pc[o]
      BY <1>2 DEF CacheInv, TypeOK
    <3>2. RequestsInPlace'
      BY <2>1, <2>2, <3>1 DEF CacheInv, RequestsInPlace
    <3>3. ForwardedTokenIsOurs'
      BY <2>2, <3>1 DEF CacheInv, ForwardedTokenIsOurs
    <3> QED
      BY <3>2, <3>3
  <2>4. CASE ttl = 0
    <3>1. cache' = cache
      BY <1>2, <2>4 DEF Put
    <3>2. TypeOK'
      BY <1>2, <3>1 DEF CacheInv, TypeOK
    <3>3. EntriesMatchKeys' /\ EntriesAreBounded'
      BY <1>2, <3>1 DEF CacheInv, EntriesMatchKeys, EntriesAreBounded
    <3> QED
      BY <2>3, <3>2, <3>3 DEF CacheInv
  <2>5. CASE ttl # 0
    <3> DEFINE entry == [token |-> tok, expires_at |-> now + ttl, put |-> now]
    <3>1. cache' = [cache EXCEPT ![Key(r)] = entry]
      BY <1>2, <2>5 DEF Put
    <3>2. /\ ttl \in Nat /\ ttl <= MaxTtl
          /\ ttl + Margin <= ExpiresIn(tok)
      BY <2>2, <2>5, TtlBound
    <3>3. /\ now + ttl \in Nat
          /\ now + ttl <= now + MaxTtl
          /\ tok.said # 0 => (now + ttl) + Margin <= now + tok.said
      <4> HIDE DEF tok, ttl
      <4> QED
        BY <2>2, <3>2, TimesAssumption
    <3> HIDE DEF ttl
    <3>4. entry \in Entries
      BY <2>2, <3>3 DEF Entries
    <3>5. TypeOK'
      BY <1>2, <3>1, <3>4 DEF CacheInv, TypeOK
    <3>6. /\ cache'[Key(r)] = entry
          /\ \A k \in Keys \ {Key(r)} : cache'[k] = cache[k]
      BY <2>1, <3>1 DEF CacheInv, TypeOK
    <3>7. EntriesMatchKeys'
      BY <2>1, <2>2, <3>3, <3>6 DEF CacheInv, EntriesMatchKeys, Stated
    <3>8. EntriesAreBounded'
      BY <1>2, <3>3, <3>6 DEF CacheInv, EntriesAreBounded
    <3> QED
      BY <2>3, <3>5, <3>7, <3>8 DEF CacheInv
  <2> QED
    BY <2>4, <2>5
<1> QED
  BY <1>1, <1>2 DEF Receive

(* Time passes for entries and for answers on their way. *)
LEMMA TickKeeps ==
  ASSUME CacheInv, Tick
  PROVE  CacheInv'
<1>1. now \in Nat /\ now' = now + 1 /\ now' \in 0 .. MaxTime
  BY TimesAssumption DEF CacheInv, TypeOK, Tick
<1>2. TypeOK'
  BY <1>1 DEF CacheInv, TypeOK, Tick
<1>3. EntriesMatchKeys' /\ ForwardedTokenIsOurs' /\ RequestsInPlace'
  BY DEF CacheInv, EntriesMatchKeys, ForwardedTokenIsOurs, RequestsInPlace, Tick
<1>4. EntriesAreBounded'
  <2> SUFFICES ASSUME NEW k \in Keys, cache[k] # None
               PROVE  cache[k].expires_at <= now' + MaxTtl
    BY DEF EntriesAreBounded, Tick
  <2>1. cache[k].expires_at \in Nat /\ cache[k].expires_at <= now + MaxTtl
    BY DEF CacheInv, TypeOK, EntriesAreBounded, Entries
  <2> QED
    BY <1>1, <2>1, TimesAssumption
<1> QED
  BY <1>2, <1>3, <1>4 DEF CacheInv

(* Every step keeps the invariant. *)
LEMMA StepKeeps == CacheInv /\ [Next]_vars => CacheInv'
<1> SUFFICES ASSUME CacheInv, [Next]_vars
             PROVE  CacheInv'
  OBVIOUS
<1>1. CASE UNCHANGED vars
  BY <1>1 DEF CacheInv, TypeOK, EntriesMatchKeys, RequestsInPlace, ForwardedTokenIsOurs,
              EntriesAreBounded, vars
<1>2. ASSUME NEW r \in Requests,
             Reject(r) \/ AnswerLocally(r) \/ ExchangeFails(r) \/ Forward(r)
      PROVE  CacheInv'
  <2>1. UNCHANGED <<now, cache>>
    BY <1>2 DEF Reject, AnswerLocally, ExchangeFails, Forward
  <2>2. \E code \in {200, 202, 400, 403, 404, 500, 502, 503, 504} : Answer(r, code)
    BY <1>2 DEF Reject, AnswerLocally, ExchangeFails, Forward
  <2> QED
    BY <2>1, <2>2, AnswerKeeps
<1> QED
  BY <1>1, <1>2, ArriveKeeps, ListServersKeeps, CacheHitKeeps, CacheMissKeeps, IssueKeeps, ReceiveKeeps, TickKeeps
     DEF Next

--------------------------------------------------------------------------------
(* The inductive invariant holds in every reachable state.                  *)
THEOREM CacheInvariance == Spec => []CacheInv
  BY InitCache, StepKeeps, PTL DEF Spec

(* Every variable keeps its type.                                           *)
THEOREM CacheTypes == Spec => []TypeOK
<1>1. CacheInv => TypeOK
  BY DEF CacheInv
<1> QED
  BY <1>1, CacheInvariance, PTL

(* No call is forwarded with another caller's token or another server's.    *)
THEOREM ForwardedTokens == Spec => []ForwardedTokenIsOurs
<1>1. CacheInv => ForwardedTokenIsOurs
  BY DEF CacheInv
<1> QED
  BY <1>1, CacheInvariance, PTL

(* No entry outlives token_cache_ttl_seconds.                               *)
THEOREM BoundedEntries == Spec => []EntriesAreBounded
<1>1. CacheInv => EntriesAreBounded
  BY DEF CacheInv
<1> QED
  BY <1>1, CacheInvariance, PTL

(* A token served from the cache has not expired, if its lifetime was       *)
(* stated and it was put within the margin of its issue.                    *)
THEOREM CachedTokens == Spec => CachedTokenIsLive
<1> DEFINE Served == \A r \in Requests :
                       /\ pc[r] = "body" /\ pc'[r] = "forward"
                       /\ Stated(cache[Key(r)]) /\ Prompt(cache[Key(r)])
                       => Live(token'[r].exp)
<1>1. ASSUME CacheInv, Next, NEW r \in Requests, pc[r] = "body", pc'[r] = "forward",
             Stated(cache[Key(r)]), Prompt(cache[Key(r)])
      PROVE  Live(token'[r].exp)
  <2> DEFINE e == cache[Key(r)]
  <2>1. CacheHit(r)
    BY <1>1 DEF Next, CacheInv, TypeOK, Arrive, ListServers, Unverified, Reject, AnswerLocally, CacheHit, CacheMiss,
                KeycloakIssue, ExchangeFails, Receive, Forward, Tick, Answer
  <2>2. Key(r) \in Keys /\ e # None /\ e.expires_at > now
    BY <1>1, <2>1, KeyType DEF CacheInv, RequestsInPlace, CacheHit, Fresh
  <2>3. token'[r] = e.token
    BY <1>1, <2>1 DEF CacheInv, TypeOK, CacheHit
  <2>4. e \in Entries /\ e.token \in Tokens
    BY <1>1, <2>2 DEF CacheInv, TypeOK, Entries
  <2>5. /\ e.expires_at \in Nat /\ e.put \in Nat /\ e.token.exp \in Nat
        /\ e.token.iat \in Nat /\ e.token.said \in Nat /\ now \in Nat
    <3>1. e.expires_at \in Nat /\ e.put \in Nat
      BY <2>4 DEF Entries
    <3>2. now \in Nat
      BY <1>1, TimesAssumption DEF CacheInv, TypeOK
    <3> QED
      BY <2>4, <3>1, <3>2, TokenType
  <2>6. /\ e.token.exp = e.token.iat + e.token.said
        /\ e.expires_at + Margin <= e.put + e.token.said
        /\ e.put <= e.token.iat + Margin
    BY <1>1, <2>2 DEF CacheInv, EntriesMatchKeys, Prompt
  <2> HIDE DEF e
  <2>7. e.token.exp > now
    BY <2>2, <2>5, <2>6, TimesAssumption
  <2> QED
    BY <2>3, <2>7 DEF Live
<1>2. CacheInv /\ [Next]_vars => [Served]_vars
  BY <1>1
<1>3. Spec => [][Served]_vars
  BY <1>2, CacheInvariance, PTL DEF Spec
<1> QED
  BY <1>3 DEF CachedTokenIsLive

(* A request under way has not been answered. *)
NoAnswerYet == \A r \in Requests : pc[r] # "idle" => answer[r] = 0

(* Requests are answered when they end, and reset when they arrive.         *)
LEMMA AnsweredAtTheEnd == Spec => []NoAnswerYet
<1>1. Init => NoAnswerYet
  BY DEF Init, NoAnswerYet
<1>2. ASSUME CacheInv, NoAnswerYet, [Next]_vars
      PROVE  NoAnswerYet'
  <2>1. ASSUME NEW r \in Requests, NEW code \in Nat, Answer(r, code)
        PROVE  NoAnswerYet'
    BY <1>2, <2>1 DEF NoAnswerYet, CacheInv, TypeOK, Answer
  <2>2. ASSUME NEW r \in Requests, NEW q \in Inputs, Arrive(r, q)
        PROVE  NoAnswerYet'
    <3>1. CASE Unverified(r, q.source)
      BY <2>1, <3>1 DEF Unverified
    <3>2. CASE pc' = [pc EXCEPT ![r] = "body"] /\ answer' = [answer EXCEPT ![r] = 0]
      BY <1>2, <3>2 DEF NoAnswerYet, CacheInv, TypeOK
    <3> QED
      BY <2>2, <3>1, <3>2 DEF Arrive
  <2>3. ASSUME NEW r \in Requests, NEW q \in Inputs, ListServers(r, q)
        PROVE  NoAnswerYet'
    BY <2>1, <2>3 DEF ListServers, Unverified
  <2>4. ASSUME NEW r \in Requests,
               Reject(r) \/ AnswerLocally(r) \/ ExchangeFails(r) \/ Forward(r)
        PROVE  NoAnswerYet'
    BY <2>1, <2>4 DEF Reject, AnswerLocally, ExchangeFails, Forward
  <2>5. ASSUME NEW r \in Requests, CacheHit(r) \/ CacheMiss(r) \/ KeycloakIssue(r)
        PROVE  NoAnswerYet'
    BY <1>2, <2>5 DEF NoAnswerYet, CacheInv, TypeOK, CacheHit, CacheMiss, KeycloakIssue
  <2>6. ASSUME NEW r \in Requests, Receive(r)
        PROVE  NoAnswerYet'
    <3>1. CASE \E code \in {500, 502} : Answer(r, code)
      BY <2>1, <3>1
    <3>2. CASE pc' = [pc EXCEPT ![r] = "forward"] /\ UNCHANGED answer
      BY <1>2, <2>6, <3>2 DEF NoAnswerYet, CacheInv, TypeOK, Receive
    <3> QED
      BY <2>6, <3>1, <3>2 DEF Receive
  <2>7. CASE Tick \/ UNCHANGED vars
    BY <1>2, <2>7 DEF NoAnswerYet, Tick, vars
  <2> QED
    BY <1>2, <2>2, <2>3, <2>4, <2>5, <2>6, <2>7 DEF Next
<1> QED
  BY <1>1, <1>2, CacheInvariance, PTL DEF Spec

(* A tool in the caller's catalogue is neither unknown nor forbidden to it.  *)
THEOREM ShownIsCallable == Spec => CatalogueIsCallable
<1> DEFINE Callable == \A r \in Requests :
         /\ pc[r] = "body" /\ query[r].method = "tools/call"
         /\ <<query[r].server, query[r].tool>> \in Catalogue(query[r].source)
         => answer'[r] \notin {403, 404}
<1>1. ASSUME CacheInv, NoAnswerYet, Next, NEW r \in Requests,
             pc[r] = "body", query[r].method = "tools/call",
             <<query[r].server, query[r].tool>> \in Catalogue(query[r].source)
      PROVE  answer'[r] \notin {403, 404}
  <2>1. Known(query[r]) /\ ToolAllowed(query[r]) /\ RolesSuffice(query[r])
    BY <1>1 DEF Catalogue, Known, ToolAllowed, RolesSuffice
  <2>2. answer[r] = 0 /\ answer \in [Requests -> {0, 200, 202, 400, 401, 403, 404, 500, 502, 503, 504}]
    BY <1>1 DEF NoAnswerYet, CacheInv, TypeOK
  <2>3. answer'[r] = answer[r] \/ Reject(r)
    BY <1>1, <2>2 DEF Next, Arrive, ListServers, Unverified, Reject, AnswerLocally, CacheHit,
                      CacheMiss, KeycloakIssue, ExchangeFails, Receive, Forward, Tick, Answer
  <2>4. CASE Reject(r)
    <3>1. Answer(r, 400) \/ Answer(r, 500)
      BY <1>1, <2>1, <2>4 DEF Reject
    <3> QED
      BY <2>2, <3>1 DEF Answer
  <2> QED
    BY <2>2, <2>3, <2>4
<1>2. CacheInv /\ NoAnswerYet /\ [Next]_vars => [Callable]_vars
  BY <1>1
<1>3. Spec => [][Callable]_vars
  BY <1>2, CacheInvariance, AnsweredAtTheEnd, PTL DEF Spec
<1> QED
  BY <1>3 DEF CatalogueIsCallable
==================================================================================
