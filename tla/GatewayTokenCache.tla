---------------------------- MODULE GatewayTokenCache ----------------------------
(***************************************************************************)
(* The MCP Gateway's POST /mcp/{server_id} and GET /v1/mcp                 *)
(* (gateway/src/mcp_gateway): requests that verify the caller's token,     *)
(* look up or exchange a token for the server behind (TokenCache, Token    *)
(* Exchange at Keycloak) and forward the call, or list what the registry   *)
(* has for the caller.  Requests run on one event loop and interleave at   *)
(* every await: the body, the exchange, the downstream call.  Time is a    *)
(* clock in seconds; Keycloak and the downstream server read the same one. *)
(***************************************************************************)
EXTENDS Naturals

CONSTANTS Requests,         \* requests in flight at once
          Sources,          \* callers' access tokens
          SourceExp,        \* their exp claims
          Servers,          \* server ids a caller may name
          Trusted,          \* sources with the audience of the Gateway and azp chainlit
          RolesOf,          \* their realm roles
          Enabled,          \* the servers that are registered and enabled
          Configured,       \* those with a mode, a resource and scopes to exchange for
          Addressable,      \* those whose URL is http(s) and names no blocked host
          Tools,            \* tool names
          AllowedTools,     \* authorization.allowed_tools of each server
          RequiredRoles,    \* authorization.required_roles of each server
          Inputs,           \* the queries requests carry
          Lifespans,        \* lifetimes Keycloak gives exchanged tokens
          MaxTtl,           \* token_cache_ttl_seconds (300)
          Margin,           \* seconds TokenCache.put takes off (5)
          Leeway,           \* leeway of jwt.decode (5)
          DefaultLife,      \* expires_in taken when the answer has none, or 0 (300)
          MaxTime,          \* bound of the clock
          None

ASSUME TimesAssumption ==
    /\ SourceExp \in [Sources -> Nat]
    /\ Lifespans \subseteq Nat \ {0}
    /\ MaxTtl \in Nat /\ Margin \in Nat /\ Leeway \in Nat /\ MaxTime \in Nat
    /\ DefaultLife \in Nat

ASSUME RegistryAssumption == /\ Enabled \subseteq Servers
                             /\ AllowedTools \in [Servers -> SUBSET Tools]
                             /\ Configured \subseteq Servers /\ Addressable \subseteq Servers
                             /\ Trusted \subseteq Sources
                             /\ DOMAIN RequiredRoles = Servers /\ DOMAIN RolesOf = Sources

(* JSON-RPC methods: those the Gateway answers itself are "local"; a body   *)
(* that is JSON but no object is "malformed", one that is no JSON           *)
(* "unreadable"; "catalogue" is GET /v1/mcp.                                *)
Methods == {"local", "tools/list", "tools/call", "other", "malformed", "unreadable", "catalogue"}

Queries == [source: Sources, server: Servers, method: Methods, tool: Tools]

ASSUME InputsAssumption == Inputs \subseteq Queries

(* An exchanged token: whom it was exchanged for, its audience, when it was  *)
(* issued and when it expires, and the expires_in the answer states: 0 is    *)
(* none.                                                                     *)
Tokens == [source: Sources, aud: Servers, iat: Nat, exp: Nat, said: Lifespans \cup {0}]

(* An entry also records when it was put, for the properties only. *)
Entries == [token: Tokens, expires_at: Nat, put: Nat]

Keys == Sources \X Servers

ASSUME NoneAssumption == /\ None \notin Queries
                         /\ None \notin Tokens
                         /\ None \notin Entries

VARIABLES now,     \* the clock
          cache,   \* TokenCache._entries
          pc,      \* where each request stands
          query,   \* what it asks for
          token,   \* the exchanged token it holds
          answer   \* the status of its answer

vars == <<now, cache, pc, query, token, answer>>

TypeOK == /\ now \in 0 .. MaxTime
          /\ cache \in [Keys -> Entries \cup {None}]
          /\ pc \in [Requests -> {"idle", "body", "exchange", "exchanged", "forward"}]
          /\ query \in [Requests -> Queries \cup {None}]
          /\ token \in [Requests -> Tokens \cup {None}]
          /\ answer \in [Requests -> {0, 200, 202, 400, 401, 403, 404, 500, 502, 503, 504}]

Init == /\ now = 0
        /\ cache = [k \in Keys |-> None]
        /\ pc = [r \in Requests |-> "idle"]
        /\ query = [r \in Requests |-> None]
        /\ token = [r \in Requests |-> None]
        /\ answer = [r \in Requests |-> 0]

--------------------------------------------------------------------------------
Live(exp) == exp > now

(* jwt.decode with leeway. *)
Accepted(exp) == exp + Leeway > now

(* A GatewayError or a result: the request is over. *)
Answer(r, code) ==
    /\ pc' = [pc EXCEPT ![r] = "idle"]
    /\ query' = [query EXCEPT ![r] = None]
    /\ token' = [token EXCEPT ![r] = None]
    /\ answer' = [answer EXCEPT ![r] = code]

(* verify_chainlit_token: expired, not for the Gateway, or the signing keys *)
(* cannot be fetched, which no handler turns into a GatewayError.           *)
Unverified(r, source) ==
    \/ ~Accepted(SourceExp[source]) /\ Answer(r, 401)
    \/ Accepted(SourceExp[source]) /\ source \notin Trusted /\ Answer(r, 403)
    \/ Answer(r, 500)

Verifies(source) == Accepted(SourceExp[source]) /\ source \in Trusted

(* Mutant: listed whatever roles a server requires. *)
CatalogueForAll(source) == {p \in Enabled \X Tools : p[2] \in AllowedTools[p[1]]}

(* list_enabled_servers: the servers whose roles the caller has, with their *)
(* allowed tools.                                                           *)
Catalogue(source) ==
    {p \in Enabled \X Tools :
        RequiredRoles[p[1]] \subseteq RolesOf[source] /\ p[2] \in AllowedTools[p[1]]}

(* list_servers: verified and answered without an await. *)
ListServers(r, q) ==
    /\ pc[r] = "idle"
    /\ q.method = "catalogue"
    /\ \/ Unverified(r, q.source)
       \/ Verifies(q.source) /\ Answer(r, 200)
    /\ UNCHANGED <<now, cache>>

(* mcp_endpoint up to `await request.json()`. *)
Arrive(r, q) ==
    /\ pc[r] = "idle"
    /\ q.method # "catalogue"
    /\ \/ Unverified(r, q.source)
       \/ /\ Verifies(q.source)
          /\ pc' = [pc EXCEPT ![r] = "body"]
          /\ query' = [query EXCEPT ![r] = q]
          /\ answer' = [answer EXCEPT ![r] = 0]
          /\ UNCHANGED token
    /\ UNCHANGED <<now, cache>>

(* get_server, authorize_tool for tools/call only, _server_authentication. *)
Known(q) == q.server \in Enabled
ToolAllowed(q) == q.method = "tools/call" => q.tool \in AllowedTools[q.server]
RolesSuffice(q) == q.method = "tools/call" => RequiredRoles[q.server] \subseteq RolesOf[q.source]
Authorized(q) == ToolAllowed(q) /\ RolesSuffice(q)
Forwardable(q) == /\ Known(q) /\ Authorized(q) /\ q.server \in Configured
                  /\ q.method \in {"tools/list", "tools/call"}

Reject(r) ==
    LET q == query[r] IN
    /\ pc[r] = "body"
    /\ \/ q.method = "unreadable" /\ Answer(r, 500)
       \/ q.method = "malformed" /\ Answer(r, 400)
       \/ q.method \notin {"unreadable", "malformed"} /\ ~Known(q) /\ Answer(r, 404)
       \/ Known(q) /\ ~ToolAllowed(q) /\ Answer(r, 404)
       \/ Known(q) /\ ToolAllowed(q) /\ ~RolesSuffice(q) /\ Answer(r, 403)
       \/ Known(q) /\ q.method = "other" /\ Answer(r, 400)
       \/ /\ Known(q) /\ Authorized(q) /\ q.server \notin Configured
          /\ q.method \in {"tools/list", "tools/call"}
          /\ Answer(r, 500)
    /\ UNCHANGED <<now, cache>>

(* initialize, ping and notifications are answered by the Gateway itself. *)
AnswerLocally(r) ==
    /\ pc[r] = "body"
    /\ Known(query[r]) /\ query[r].method = "local"
    /\ \E code \in {200, 202} : Answer(r, code)
    /\ UNCHANGED <<now, cache>>

(* Mutant: the cache is keyed by the caller only. *)
KeyWithoutServer(r) == <<query[r].source, CHOOSE s \in Servers : TRUE>>

Key(r) == <<query[r].source, query[r].server>>

(* TokenCache.get: an entry that is past its time is popped. *)
Fresh(k) == cache[k] # None /\ cache[k].expires_at > now

CacheHit(r) ==
    /\ pc[r] = "body"
    /\ Forwardable(query[r])
    /\ Fresh(Key(r))
    /\ token' = [token EXCEPT ![r] = cache[Key(r)].token]
    /\ pc' = [pc EXCEPT ![r] = "forward"]
    /\ UNCHANGED <<now, cache, query, answer>>

CacheMiss(r) ==
    /\ pc[r] = "body"
    /\ Forwardable(query[r])
    /\ ~Fresh(Key(r))
    /\ cache' = [cache EXCEPT ![Key(r)] = None]
    /\ pc' = [pc EXCEPT ![r] = "exchange"]
    /\ UNCHANGED <<now, query, token, answer>>

(* Keycloak issues a token for a subject_token that is still live; which    *)
(* audience it carries is up to the realm's mappers.  The answer states its *)
(* lifetime or states none.                                                 *)
KeycloakIssue(r) ==
    /\ pc[r] = "exchange"
    /\ Live(SourceExp[query[r].source])
    /\ \E life \in Lifespans, aud \in Configured : \E said \in {life, 0} :
         token' = [token EXCEPT ![r] =
                     [source |-> query[r].source, aud |-> aud,
                      iat |-> now, exp |-> now + life, said |-> said]]
    /\ pc' = [pc EXCEPT ![r] = "exchanged"]
    /\ UNCHANGED <<now, cache, query, answer>>

(* exchange_token raises: 4xx from Keycloak, the only answer an expired     *)
(* subject_token gets, an answer that is no JSON, or 5xx, unreachable,      *)
(* timed out.                                                               *)
ExchangeFails(r) ==
    /\ \/ pc[r] = "exchange" /\ \E code \in {500, 502} : Answer(r, code)
       \/ pc[r] \in {"exchange", "exchanged"} /\ Answer(r, 503)
    /\ UNCHANGED <<now, cache>>

(* verify_exchanged_token. *)
Verified(r) == token[r].aud = query[r].server /\ Accepted(token[r].exp)

(* TokenCache.put, with expires_at = the clock now + int(exp or 300). *)
Smaller(a, b) == IF a < b THEN a ELSE b
(* Mutants: no upper limit; nothing taken off. *)
TtlWithoutLimit(life) == IF life > Margin THEN life - Margin ELSE 0
TtlWithoutMargin(life) == Smaller(MaxTtl, life)

Ttl(life) == Smaller(MaxTtl, IF life > Margin THEN life - Margin ELSE 0)

ExpiresIn(tok) == IF tok.said = 0 THEN DefaultLife ELSE tok.said

Put(k, tok) ==
    LET ttl == Ttl(ExpiresIn(tok)) IN
    cache' = IF ttl = 0 THEN cache
             ELSE [cache EXCEPT ![k] = [token |-> tok, expires_at |-> now + ttl, put |-> now]]

(* The rest of _mcp_token once the exchange has answered.  The verification *)
(* may have to fetch the signing keys first: the token ages on its way from *)
(* Keycloak (the timeouts are per read of the socket) and during the fetch. *)
Receive(r) ==
    /\ pc[r] = "exchanged"
    /\ \/ /\ \/ ~Verified(r) /\ Answer(r, 502)
             \/ Answer(r, 500)
          /\ UNCHANGED cache
       \/ /\ Verified(r)
          /\ Put(Key(r), token[r])
          /\ pc' = [pc EXCEPT ![r] = "forward"]
          /\ UNCHANGED <<query, token, answer>>
    /\ UNCHANGED now

(* call_mcp_tool, list_mcp_tools: _validate_registry_url first; the server  *)
(* behind accepts a live token; any refusal is 502, only call_mcp_tool      *)
(* tells a timeout apart.                                                   *)
Forward(r) ==
    /\ pc[r] = "forward"
    /\ \/ query[r].server \notin Addressable /\ Answer(r, 404)
       \/ /\ query[r].server \in Addressable
          /\ \/ Live(token[r].exp) /\ Answer(r, 200)
             \/ Answer(r, 502)
             \/ query[r].method = "tools/call" /\ Answer(r, 504)
    /\ UNCHANGED <<now, cache>>

Tick ==
    /\ now < MaxTime
    /\ now' = now + 1
    /\ UNCHANGED <<cache, pc, query, token, answer>>

Next == \/ \E r \in Requests : \/ \E q \in Inputs : Arrive(r, q) \/ ListServers(r, q)
                               \/ Reject(r)
                               \/ AnswerLocally(r)
                               \/ CacheHit(r)
                               \/ CacheMiss(r)
                               \/ KeycloakIssue(r)
                               \/ ExchangeFails(r)
                               \/ Receive(r)
                               \/ Forward(r)
        \/ Tick

Spec == Init /\ [][Next]_vars
--------------------------------------------------------------------------------
(* A call is forwarded with a token exchanged for this caller and meant for *)
(* this server, whichever request it was exchanged by (_mcp_token).         *)
ForwardedTokenIsOurs ==
    \A r \in Requests : pc[r] = "forward" =>
        token[r].source = query[r].source /\ token[r].aud = query[r].server

(* A token that is put with its lifetime stated, no later after its issue   *)
(* than the seconds TokenCache.put takes off, is live whenever it is taken  *)
(* from the cache (cache.py, app.py); for one whose answer states no        *)
(* lifetime, or that was longer on its way, the code promises nothing.      *)
Stated(entry) == entry.token.said # 0
Prompt(entry) == entry.put <= entry.token.iat + Margin

CachedTokenIsLive ==
    [][\A r \in Requests :
         /\ pc[r] = "body" /\ pc'[r] = "forward"
         /\ Stated(cache[Key(r)]) /\ Prompt(cache[Key(r)])
         => Live(token'[r].exp)]_vars

(* No entry is served longer than token_cache_ttl_seconds: what Keycloak    *)
(* revoked is out of use by then.                                           *)
EntriesAreBounded ==
    \A k \in Keys : cache[k] # None => cache[k].expires_at <= now + MaxTtl

(* What GET /v1/mcp shows a caller, POST /mcp/{server_id} lets it call: the *)
(* filter of list_enabled_servers and authorize_tool, written apart, agree  *)
(* (registry.py, policy.py).                                                *)
CatalogueIsCallable ==
    [][\A r \in Requests :
         /\ pc[r] = "body" /\ query[r].method = "tools/call"
         /\ <<query[r].server, query[r].tool>> \in Catalogue(query[r].source)
         => answer'[r] \notin {403, 404}]_vars

(* Why they hold, as an inductive invariant: an entry is for the caller and *)
(* the server of its key and, if its lifetime was stated, ends Margin       *)
(* before that lifetime counted from when it was put; a token on its way    *)
(* from Keycloak is the caller's.                                           *)
EntriesMatchKeys ==
    \A k \in Keys : cache[k] # None =>
        /\ cache[k].token.source = k[1] /\ cache[k].token.aud = k[2]
        /\ Stated(cache[k]) =>
             /\ cache[k].token.exp = cache[k].token.iat + cache[k].token.said
             /\ cache[k].expires_at + Margin <= cache[k].put + cache[k].token.said

RequestsInPlace ==
    \A r \in Requests :
        /\ pc[r] # "idle" => query[r] \in Queries
        /\ pc[r] \in {"exchanged", "forward"} =>
             token[r] \in Tokens /\ token[r].source = query[r].source
        /\ pc[r] = "exchanged" /\ token[r].said # 0 => token[r].exp = token[r].iat + token[r].said

CacheInv == /\ TypeOK
            /\ EntriesMatchKeys
            /\ RequestsInPlace
            /\ ForwardedTokenIsOurs
            /\ EntriesAreBounded
==================================================================================
