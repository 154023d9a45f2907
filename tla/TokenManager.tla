------------------------------- MODULE TokenManager ------------------------------
(***************************************************************************)
(* KeycloakTokenManager and its two stores (chat_ui/token_manager.py), the *)
(* login that fills the store (chat_ui/auth.py, oauth_callback), the chat  *)
(* start that binds a websocket session to its user (chat_ui/app.py) and   *)
(* access_token_for_gateway_session (chat_ui/gateway_mcp_connect.py).      *)
(*                                                                         *)
(* Calls run on one event loop: they interleave at every await, that is at *)
(* each statement sent to the store and at the refresh grant.  Nothing     *)
(* serialises two calls for one user.                                      *)
(***************************************************************************)
EXTENDS Naturals

CONSTANTS Subjects,   \* keycloak_sub values
          Sessions,   \* websocket session ids (browser tabs)
          UserOf,     \* the signed-in user of each session
          Calls,      \* calls of the token manager in flight at once
          MaxIssues,  \* bound: token responses Keycloak gives
          None

ASSUME UserOfAssumption == UserOf \in [Sessions -> Subjects]
ASSUME MaxIssuesAssumption == MaxIssues \in Nat

Issues == 1 .. MaxIssues

(* StoredTokens.  issue numbers Keycloak's responses; sso is the response   *)
(* that opened the SSO session the refresh token hangs on.                  *)
Tokens == [subject: Subjects, sso: Issues, issue: Issues, refresh: BOOLEAN]

ASSUME NoneAssumption == None \notin Tokens /\ None \notin Subjects /\ None \notin Sessions

VARIABLES backend,  \* the store build_token_manager chose when the process started
          tokens,   \* the stored tokens of each subject, or None
          bound,    \* the subject each session id leads to, or None
          issued,   \* number of responses Keycloak has given
          ssoLive,  \* SSO sessions Keycloak still honours
          stale,    \* access tokens within 30 s of their end
          pc,       \* where each call stands
          session,  \* the session a call is for
          force,    \* its force_refresh
          retry,    \* it may still bind and read again
          held,     \* the tokens it has read, received or returned
          since,    \* issued when the call began
          result    \* what it returned

vars == <<backend, tokens, bound, issued, ssoLive, stale, pc, session, force, retry, held, since, result>>
store == <<backend, tokens, bound>>
keycloak == <<issued, ssoLive, stale>>

Outcomes == {"none", "reauth", "pending", "unavailable", "error", "saved", "token"}

TypeOK == /\ backend \in {"postgres", "memory"}
          /\ tokens \in [Subjects -> Tokens \cup {None}]
          /\ bound \in [Sessions -> Subjects \cup {None}]
          /\ issued \in 0 .. MaxIssues
          /\ ssoLive \subseteq Issues
          /\ stale \subseteq Issues
          /\ pc \in [Calls -> {"idle", "login", "read", "post", "save", "refused", "bind"}]
          /\ session \in [Calls -> Sessions \cup {None}]
          /\ force \in [Calls -> BOOLEAN]
          /\ retry \in [Calls -> BOOLEAN]
          /\ held \in [Calls -> Tokens \cup {None}]
          /\ since \in [Calls -> 0 .. MaxIssues]
          /\ result \in [Calls -> Outcomes]

Init == /\ backend \in {"postgres", "memory"}
        /\ tokens = [u \in Subjects |-> None]
        /\ bound = [s \in Sessions |-> None]
        /\ issued = 0
        /\ ssoLive = {}
        /\ stale = {}
        /\ pc = [c \in Calls |-> "idle"]
        /\ session = [c \in Calls |-> None]
        /\ force = [c \in Calls |-> FALSE]
        /\ retry = [c \in Calls |-> FALSE]
        /\ held = [c \in Calls |-> None]
        /\ since = [c \in Calls |-> 0]
        /\ result = [c \in Calls |-> "none"]

--------------------------------------------------------------------------------
(* Keycloak. *)

Live(t) == t.sso \in ssoLive

EndSso(i) == /\ i \in ssoLive
             /\ ssoLive' = ssoLive \ {i}
             /\ UNCHANGED <<issued, stale, pc, session, force, retry, held, since, result>>
             /\ UNCHANGED store

Age(i) == /\ i \in 1 .. issued \ stale
          /\ stale' = stale \cup {i}
          /\ UNCHANGED <<issued, ssoLive, pc, session, force, retry, held, since, result>>
          /\ UNCHANGED store

--------------------------------------------------------------------------------
(* The stores.  A Postgres row has one session_id: giving it to a session   *)
(* takes it from the user's other session, and a deleted row leaves none.   *)

Bind(u, s) ==
    [x \in Sessions |-> IF x = s THEN u
                        ELSE IF backend = "postgres" /\ bound[x] = u THEN None ELSE bound[x]]

(* upsert; without a session_id the row keeps the one it has. *)
Upsert(t, s) ==
    /\ tokens' = [tokens EXCEPT ![t.subject] = t]
    /\ bound' = IF s = None THEN bound ELSE Bind(t.subject, s)
    /\ UNCHANGED backend

(* Mutant: a session that is not bound gets whatever tokens are stored. *)
GetAnyForUnbound(s) ==
    LET u == IF bound[s] # None THEN bound[s]
             ELSE CHOOSE x \in Subjects : tokens[x] # None \/ \A y \in Subjects : tokens[y] = None
    IN tokens[u]

GetBySession(s) == IF bound[s] = None THEN None ELSE tokens[bound[s]]

(* bind_session; Postgres has no row to update before the first login. *)
BindSession(u, s) ==
    /\ bound' = IF backend = "postgres" /\ tokens[u] = None THEN bound ELSE Bind(u, s)
    /\ UNCHANGED <<backend, tokens>>

DeleteBySession(s) ==
    /\ tokens' = IF bound[s] = None THEN tokens ELSE [tokens EXCEPT ![bound[s]] = None]
    /\ bound' = [bound EXCEPT ![s] = None]
    /\ UNCHANGED backend

--------------------------------------------------------------------------------
Return(c, what, t) ==
    /\ pc' = [pc EXCEPT ![c] = "idle"]
    /\ session' = [session EXCEPT ![c] = None]
    /\ force' = [force EXCEPT ![c] = FALSE]
    /\ retry' = [retry EXCEPT ![c] = FALSE]
    /\ held' = [held EXCEPT ![c] = t]
    /\ since' = [since EXCEPT ![c] = 0]
    /\ result' = [result EXCEPT ![c] = what]

(* get_access_token has returned None: access_token_for_gateway_session     *)
(* binds the user to the session and asks once more.                        *)
ReturnNone(c, why) ==
    IF retry[c]
      THEN /\ pc' = [pc EXCEPT ![c] = "bind"]
           /\ retry' = [retry EXCEPT ![c] = FALSE]
           /\ held' = [held EXCEPT ![c] = None]
           /\ UNCHANGED <<session, force, since, result>>
      ELSE Return(c, why, None)

(* A sign-in has been answered by Keycloak's token endpoint; oauth_callback *)
(* may find no refresh_token captured.                                      *)
Login(c, u) ==
    /\ pc[c] = "idle" /\ issued < MaxIssues
    /\ issued' = issued + 1
    /\ ssoLive' = ssoLive \cup {issued + 1}
    /\ \E captured \in BOOLEAN :
         held' = [held EXCEPT ![c] = [subject |-> u, sso |-> issued + 1,
                                      issue |-> issued + 1, refresh |-> captured]]
    /\ pc' = [pc EXCEPT ![c] = "login"]
    /\ result' = [result EXCEPT ![c] = "pending"]
    /\ UNCHANGED <<stale, session, force, retry, since>> /\ UNCHANGED store

(* save_response of the callback: it knows no session. *)
SaveLogin(c) ==
    /\ pc[c] = "login"
    /\ Upsert(held[c], None)
    /\ Return(c, "saved", None)
    /\ UNCHANGED keycloak

(* on_chat_start. *)
ChatStart(s) ==
    /\ BindSession(UserOf[s], s)
    /\ UNCHANGED <<pc, session, force, retry, held, since, result>>
    /\ UNCHANGED keycloak

(* A caller asks for a token: access_token_for_gateway_session. *)
Ask(c, s, f) ==
    /\ pc[c] = "idle"
    /\ pc' = [pc EXCEPT ![c] = "read"]
    /\ session' = [session EXCEPT ![c] = s]
    /\ force' = [force EXCEPT ![c] = f]
    /\ retry' = [retry EXCEPT ![c] = TRUE]
    /\ since' = [since EXCEPT ![c] = issued]
    /\ result' = [result EXCEPT ![c] = "pending"]
    /\ held' = [held EXCEPT ![c] = None]
    /\ UNCHANGED store /\ UNCHANGED keycloak

(* Mutant: expires_at is not looked at. *)
AlwaysFresh(t) == TRUE

(* get_access_token up to the refresh grant. *)
Fresh(t) == t.issue \notin stale

Read(c) ==
    LET t == GetBySession(session[c]) IN
    /\ pc[c] = "read"
    /\ \/ t = None /\ ReturnNone(c, "none")
       \/ t # None /\ ~force[c] /\ Fresh(t) /\ Return(c, "token", t)
       \/ t # None /\ (force[c] \/ ~Fresh(t)) /\ ~t.refresh /\ ReturnNone(c, "unavailable")
       \/ /\ t # None /\ (force[c] \/ ~Fresh(t)) /\ t.refresh
          /\ held' = [held EXCEPT ![c] = t]
          /\ pc' = [pc EXCEPT ![c] = "post"]
          /\ UNCHANGED <<session, force, retry, since, result>>
    /\ UNCHANGED store /\ UNCHANGED keycloak

(* The grant is honoured while the SSO session lives.  The realm does not   *)
(* revoke used refresh tokens.  What is kept of a response without a        *)
(* refresh_token has none, whatever the tokens before it had.               *)
Refreshed(c) ==
    /\ pc[c] = "post" /\ Live(held[c]) /\ issued < MaxIssues
    /\ issued' = issued + 1
    /\ \E given \in BOOLEAN :
         held' = [held EXCEPT ![c] = [@ EXCEPT !.issue = issued + 1, !.refresh = given]]
    /\ pc' = [pc EXCEPT ![c] = "save"]
    /\ UNCHANGED <<ssoLive, stale, session, force, retry, since, result>> /\ UNCHANGED store

(* Mutant: every 4xx is taken for the end of the SSO session. *)
RefuseOnAny4xx(c) ==
    /\ pc[c] = "post"
    /\ pc' = [pc EXCEPT ![c] = "refused"]
    /\ UNCHANGED <<session, force, retry, held, since, result>>
    /\ UNCHANGED store /\ UNCHANGED keycloak

(* 4xx with invalid_grant or invalid_token. *)
Refuse(c) ==
    /\ pc[c] = "post" /\ ~Live(held[c])
    /\ pc' = [pc EXCEPT ![c] = "refused"]
    /\ UNCHANGED <<session, force, retry, held, since, result>>
    /\ UNCHANGED store /\ UNCHANGED keycloak

(* Mutant: a passing failure deletes the tokens too. *)
TransientDeletes(c) ==
    /\ pc[c] = "post"
    /\ DeleteBySession(session[c])
    /\ ReturnNone(c, "unavailable")
    /\ UNCHANGED keycloak

(* Unreachable, timed out, 3xx, 5xx, a 4xx that does not blame the token, or *)
(* a 2xx without a usable access_token; an answer that is no JSON is an      *)
(* exception.                                                                *)
Transient(c) ==
    /\ pc[c] = "post"
    /\ ReturnNone(c, "unavailable") \/ Return(c, "error", None)
    /\ UNCHANGED store /\ UNCHANGED keycloak

(* save_response of the refresh. *)
SaveRefresh(c) ==
    /\ pc[c] = "save"
    /\ Upsert(held[c], session[c])
    /\ Return(c, "token", held[c])
    /\ UNCHANGED keycloak

(* delete_by_session, then ReauthRequired. *)
DropRefused(c) ==
    /\ pc[c] = "refused"
    /\ DeleteBySession(session[c])
    /\ Return(c, "reauth", None)
    /\ UNCHANGED keycloak

Rebind(c) ==
    /\ pc[c] = "bind"
    /\ BindSession(UserOf[session[c]], session[c])
    /\ pc' = [pc EXCEPT ![c] = "read"]
    /\ UNCHANGED <<session, force, retry, held, since, result>> /\ UNCHANGED keycloak

Next == \/ \E i \in Issues : EndSso(i) \/ Age(i)
        \/ \E s \in Sessions : ChatStart(s)
        \/ \E c \in Calls : \/ \E u \in Subjects : Login(c, u)
                            \/ \E s \in Sessions, f \in BOOLEAN : Ask(c, s, f)
                            \/ SaveLogin(c)
                            \/ Read(c)
                            \/ Refreshed(c)
                            \/ Refuse(c)
                            \/ Transient(c)
                            \/ SaveRefresh(c)
                            \/ DropRefused(c)
                            \/ Rebind(c)

Spec == Init /\ [][Next]_vars
--------------------------------------------------------------------------------
(* A call never returns another user's token, however calls, logins and     *)
(* rebinds interleave.                                                      *)
OwnToken ==
    [][\A c \in Calls : pc[c] \in {"read", "save"} /\ result'[c] = "token"
         => held'[c].subject = UserOf[session[c]]]_vars

(* After a 401 the chat asks with force_refresh: it gets a token issued     *)
(* since, never the one that was just refused.  Otherwise the token is one  *)
(* that is not about to expire, or a new one.                               *)
FreshOrNew ==
    [][\A c \in Calls : pc[c] \in {"read", "save"} /\ result'[c] = "token"
         => \/ held'[c].issue > since[c]
            \/ ~force[c] /\ held'[c].issue \notin stale]_vars

(* Tokens leave the store only because Keycloak refused a refresh token of  *)
(* that very user; a passing failure keeps them (the table of outcomes in   *)
(* docs/current/features/authentication.md).                                *)
DeletedOnlyAfterRefusal ==
    [][\A u \in Subjects : tokens[u] # None /\ tokens'[u] = None
         => \E c \in Calls : /\ pc[c] = "refused" /\ pc'[c] = "idle"
                             /\ held[c].subject = u /\ ~Live(held[c])]_vars

(* Why they hold, as an inductive invariant: stored tokens are their        *)
(* subject's and a session id leads to the session's user or to nobody; a   *)
(* call that goes on holds tokens of its session's user, once refreshed     *)
(* newer than the call, once refused for good; sso sessions do not reopen.  *)
StoreInPlace ==
    /\ \A u \in Subjects : tokens[u] # None => tokens[u].subject = u /\ tokens[u].sso <= issued
    /\ \A s \in Sessions : bound[s] \in {None, UserOf[s]}

InPlace(c) ==
    /\ pc[c] # "idle" => result[c] = "pending"
    /\ pc[c] \notin {"idle", "login"} => session[c] \in Sessions /\ since[c] <= issued
    /\ pc[c] \in {"login", "post", "save", "refused"} =>
         held[c] \in Tokens /\ held[c].sso <= issued
    /\ pc[c] \in {"post", "save", "refused"} => held[c].subject = UserOf[session[c]]
    /\ pc[c] = "save" => held[c].issue > since[c]
    /\ pc[c] = "refused" => ~Live(held[c])

TokenInv == TypeOK /\ StoreInPlace /\ \A c \in Calls : InPlace(c)
==================================================================================
