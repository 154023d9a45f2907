--------------------------- MODULE GatewayCatalogue ---------------------------
(***************************************************************************)
(* One registry file (infra/app/gateway-registry.yml), read at the start   *)
(* of the chat UI, for the names, ids and Gateway URLs it works with       *)
(* (chat_ui/gateway_registry.py), and at the start of every Gateway        *)
(* process, for the servers it has (mcp_gateway/registry.py).  The file is *)
(* edited and each process restarted on its own, so they may work with     *)
(* different versions.                                                     *)
(*                                                                         *)
(* A connect finds the URL of a name by asking the Gateways one after the  *)
(* other what they have for the caller (chat_ui/gateway_client.py); the    *)
(* answer gives the URL a Gateway has of itself, PUBLIC_BASE_URL, which    *)
(* need not be the one it was asked at. The browser keeps a list of its    *)
(* own, which a script written at the start of the chat UI seeds at every  *)
(* page load (chat_ui/mcp_ui.py).                                          *)
(***************************************************************************)
EXTENDS Naturals, Sequences

CONSTANTS Urls,        \* origins; gateway_display_url tells them apart
          Processes,   \* Gateway processes
          ProcessAt,   \* the process that an origin leads to
          PublicUrl,   \* PUBLIC_BASE_URL of each process
          NoUrl,       \* a Gateway entry without url, or servers at the top of the file
          ServerIds,   \* server ids
          Names,       \* values of ui.name, and names the user chooses
          Registries,  \* versions of the file
          Down, Absent

(* permitted: the caller has the server's required_roles. *)
Servers == [id: ServerIds, name: Names, enabled: BOOLEAN, permitted: BOOLEAN]
Gateways == [url: Urls \cup {NoUrl}, servers: Seq(Servers)]

(* gateway: the entry is of type "gateway", not the user's own. *)
Entries == [name: Names, label: Urls \cup {NoUrl}, gateway: BOOLEAN]
Endpoints == [url: Urls, id: ServerIds]
(* next: the position in the registry from which Gateways are still to be asked. *)
Connects == [name: Names, id: ServerIds, next: Nat, found: Urls \cup {Absent},
             failed: SUBSET Urls]

(* A server id is a key of its Gateway's servers. *)
KeyedById(servers) ==
    \A i, j \in DOMAIN servers : servers[i].id = servers[j].id => i = j

CatalogueConstants ==
    /\ ProcessAt \in [Urls -> Processes]
    /\ PublicUrl \in [Processes -> Urls]
    /\ NoUrl \notin Urls
    /\ Down \notin Registries
    /\ Absent \notin Urls \cup Endpoints \cup Connects
    /\ \A reg \in Registries :
         /\ reg \in Seq(Gateways)
         /\ \A k \in DOMAIN reg : KeyedById(reg[k].servers)
ASSUME RegistriesAssumption == CatalogueConstants

VARIABLES file,     \* the registry on disk
          chat,     \* the one the chat UI has loaded
          gateway,  \* the one each Gateway process has loaded, or Down
          drift,    \* a Gateway has run with another one than the chat UI's
          page,     \* the MCP list of the browser
          session,  \* the open session of each name: its URL and server id
          connect,  \* the connect under way
          status    \* the HTTP status of the last one

catalogueVars == <<file, chat, gateway, drift, page, session, connect, status>>

CatalogueTypeOK ==
    /\ file \in Registries
    /\ chat \in Registries
    /\ gateway \in [Processes -> Registries \cup {Down}]
    /\ drift \in BOOLEAN
    /\ page \subseteq Entries
    /\ session \in [Names -> Endpoints \cup {Absent}]
    /\ connect \in Connects \cup {Absent}
    /\ status \in {0, 200, 400, 403, 500}

CatalogueInit ==
    /\ file \in Registries
    /\ chat = file
    /\ gateway = [p \in Processes |-> file]
    /\ drift = FALSE
    /\ page = {}
    /\ session = [n \in Names |-> Absent]
    /\ connect = Absent
    /\ status = 0

--------------------------------------------------------------------------------
(* The positions <<gateway, server>> of the enabled servers, in file order. *)
UiServers(reg) == {p \in UNION {{k} \X DOMAIN reg[k].servers : k \in DOMAIN reg} :
                     reg[p[1]].servers[p[2]].enabled}

ServerAt(reg, p) == reg[p[1]].servers[p[2]]
Before(p, q) == p[1] < q[1] \/ (p[1] = q[1] /\ p[2] <= q[2])

Named(reg, n) == {p \in UiServers(reg) : ServerAt(reg, p).name = n}

(* load_name_index and _ui_name_to_gateway_url: of two entries with a name   *)
(* the last one counts.                                                     *)
LastNamed(reg, n) == CHOOSE p \in Named(reg, n) : \A q \in Named(reg, n) : Before(q, p)
NameToId(reg, n) == ServerAt(reg, LastNamed(reg, n)).id
NameToUrl(reg, n) == reg[LastNamed(reg, n)[1]].url

(* load_gateway_urls: the positions of the entries that have a url. *)
GatewayUrls(reg) == {k \in DOMAIN reg : reg[k].url # NoUrl}

(* Mutant: every process takes the first entry. *)
ServersOfFirst(reg, p) == IF reg = <<>> THEN <<>> ELSE reg[1].servers

(* _servers_for_process: the first entry with the process's PUBLIC_BASE_URL, *)
(* or the only one there is.                                                *)
ServersFor(reg, p) ==
    LET own == {k \in DOMAIN reg : reg[k].url = PublicUrl[p]} IN
    IF own # {} THEN reg[CHOOSE k \in own : \A j \in own : k <= j].servers
    ELSE IF Len(reg) = 1 THEN reg[1].servers ELSE <<>>

(* get_server at process p: enabled, whatever the caller's roles. *)
Has(p, id) == /\ gateway[p] # Down
              /\ \E i \in DOMAIN ServersFor(gateway[p], p) :
                    LET s == ServersFor(gateway[p], p)[i] IN s.id = id /\ s.enabled

(* list_enabled_servers: and permitted. *)
Lists(p, id) ==
    \E i \in DOMAIN ServersFor(gateway[p], p) :
        LET s == ServersFor(gateway[p], p)[i] IN s.id = id /\ s.enabled /\ s.permitted

Drifted(loaded, running) == \E p \in Processes : running[p] \notin {loaded, Down}

--------------------------------------------------------------------------------
EditRegistry ==
    /\ file' \in Registries
    /\ UNCHANGED <<chat, gateway, drift, page, session, connect, status>>

(* Websocket sessions and what they hold end with the process. *)
StartChat ==
    /\ chat' = file
    /\ drift' = Drifted(file, gateway)
    /\ session' = [n \in Names |-> Absent]
    /\ connect' = Absent
    /\ status' = 0
    /\ UNCHANGED <<file, gateway, page>>

StartGateway(p) ==
    /\ gateway' = [gateway EXCEPT ![p] = file]
    /\ drift' = (drift \/ file # chat)
    /\ UNCHANGED <<file, chat, page, session, connect, status>>

(* A Gateway keeps no sessions: one that is back goes on with the old ones. *)
StopGateway(p) ==
    /\ gateway' = [gateway EXCEPT ![p] = Down]
    /\ UNCHANGED <<file, chat, drift, page, session, connect, status>>

(* mcp-autoload.js: entries with the names of the registry are replaced. *)
LoadPage ==
    /\ page' = {e \in page : Named(chat, e.name) = {}}
               \cup {[name |-> ServerAt(chat, p).name, label |-> chat[p[1]].url, gateway |-> TRUE] :
                       p \in UiServers(chat)}
    /\ UNCHANGED <<file, chat, gateway, drift, session, connect, status>>

(* A server the user adds in Chainlit's dialog. *)
AddOwn(n) ==
    /\ \A e \in page : e.name # n
    /\ page' = page \cup {[name |-> n, label |-> NoUrl, gateway |-> FALSE]}
    /\ UNCHANGED <<file, chat, gateway, drift, session, connect, status>>

(* The answer to POST /mcp: Chainlit shows its label. *)
Shown(n, label) ==
    page' = {IF e.name = n /\ e.gateway THEN [e EXCEPT !.label = label] ELSE e : e \in page}

Ends(code) == connect' = Absent /\ status' = code

(* DELETE /mcp, and the entry goes. *)
Disconnect(n) ==
    /\ connect = Absent
    /\ session' = [session EXCEPT ![n] = Absent]
    /\ page' = {e \in page : e.name # n}
    /\ status' = 200
    /\ UNCHANGED <<file, chat, gateway, drift, connect>>

(* Mutant: a reused session gets the label of the client's first base URL. *)
ReuseShowingFirst(n) ==
    /\ session[n] # Absent /\ Has(ProcessAt[session[n].url], session[n].id)
    /\ Ends(200)
    /\ Shown(n, chat[1].url)

(* existing_gateway_mcp_result: the session answered list_tools. *)
ReuseSession(n) ==
    /\ session[n] # Absent /\ Has(ProcessAt[session[n].url], session[n].id)
    /\ Ends(200)
    /\ Shown(n, NameToUrl(chat, n))

(* POST /mcp for a name of the registry: a session that answers is reused,  *)
(* otherwise list_servers begins.                                           *)
Connect(n) ==
    /\ connect = Absent
    /\ \E e \in page : e.name = n
    /\ Named(chat, n) # {}
    /\ \/ ReuseSession(n)
       \/ /\ connect' = [name |-> n, id |-> NameToId(chat, n), next |-> 1,
                         found |-> Absent, failed |-> {}]
          /\ status' = 0
          /\ UNCHANGED page
    /\ UNCHANGED <<file, chat, gateway, drift, session>>

(* One GET {url}/v1/mcp; resolve_gateway_url takes the URL that the first    *)
(* answer with the id gives for it.                                         *)
Listed(k) ==
    LET p == ProcessAt[chat[k].url] IN
    /\ gateway[p] # Down
    /\ connect' = [connect EXCEPT !.next = k + 1,
                                  !.found = IF @ = Absent /\ Lists(p, connect.id)
                                            THEN PublicUrl[p] ELSE @]
    /\ UNCHANGED status

(* Mutant: an error answer ends the listing. *)
ListingErrorEnds(k) ==
    /\ gateway[ProcessAt[chat[k].url]] # Down
    /\ connect' = [connect EXCEPT !.next = Len(chat) + 1, !.failed = @ \cup {chat[k].url}]
    /\ UNCHANGED status

(* A status of 400 or more is passed over. *)
ListingError(k) ==
    /\ gateway[ProcessAt[chat[k].url]] # Down
    /\ connect' = [connect EXCEPT !.next = k + 1, !.failed = @ \cup {chat[k].url}]
    /\ UNCHANGED status

(* An unreachable Gateway raises, whichever one the name belongs to. *)
Unreachable(k) == gateway[ProcessAt[chat[k].url]] = Down /\ Ends(500)

ToAsk == {k \in GatewayUrls(chat) : k >= connect.next}

AskNext ==
    /\ connect # Absent
    /\ \E k \in ToAsk : /\ \A j \in ToAsk : k <= j
                       /\ \/ Listed(k)
                          \/ ListingError(k)
                          \/ Unreachable(k)
    /\ UNCHANGED <<file, chat, gateway, drift, page, session>>

(* No Gateway lists the id: "Gateway MCP not authorized". *)
Refuse ==
    /\ connect # Absent
    /\ ToAsk = {}
    /\ connect.found = Absent
    /\ Ends(403)
    /\ UNCHANGED <<file, chat, gateway, drift, page, session>>

(* initialize at the URL, which takes the place of an earlier session, or   *)
(* "Could not connect".                                                     *)
OpenSession ==
    /\ connect # Absent
    /\ ToAsk = {}
    /\ connect.found # Absent
    /\ \/ /\ Has(ProcessAt[connect.found], connect.id)
          /\ session' = [session EXCEPT ![connect.name] =
                           [url |-> connect.found, id |-> connect.id]]
          /\ Shown(connect.name, connect.found)
          /\ Ends(200)
       \/ /\ Ends(400)
          /\ UNCHANGED <<page, session>>
    /\ UNCHANGED <<file, chat, gateway, drift>>

CatalogueNext ==
    \/ EditRegistry
    \/ StartChat
    \/ \E p \in Processes : StartGateway(p) \/ StopGateway(p)
    \/ LoadPage
    \/ \E n \in Names : AddOwn(n) \/ Disconnect(n) \/ Connect(n)
    \/ AskNext
    \/ Refuse
    \/ OpenSession

CatalogueSpec == CatalogueInit /\ [][CatalogueNext]_catalogueVars
--------------------------------------------------------------------------------
(* The name and the id of a server stand in the registry once. *)
Once(S) == \E x \in S : S = {x}
Unambiguous(n) ==
    /\ Once(Named(chat, n))
    /\ Once({k \in DOMAIN chat :
               \E i \in DOMAIN chat[k].servers : chat[k].servers[i].id = NameToId(chat, n)})
    /\ NameToUrl(chat, n) # NoUrl
    /\ Once({k \in DOMAIN chat : chat[k].url = NameToUrl(chat, n)})

(* The URL of the name's entry, and the one its Gateway gives of itself. *)
OwnUrls(n) == {NameToUrl(chat, n), PublicUrl[ProcessAt[NameToUrl(chat, n)]]}

(* That Gateway is reached at the URL it gives of itself; and it takes the  *)
(* name's entry for its own.                                                *)
CallsItself(n) == \A u \in OwnUrls(n) : ProcessAt[u] = ProcessAt[NameToUrl(chat, n)]
TakesEntry(n) == Len(chat) = 1 \/ OwnUrls(n) = {NameToUrl(chat, n)}

(* docs/current/features/ui.md: what the list shows of a Gateway MCP names  *)
(* the Gateway that its calls go to.  The label comes from the name at a    *)
(* page load and a reuse and from the Gateway's answer at a connect; for a  *)
(* name and an id that stand in the registry once both lead to the same     *)
(* process, as long as the Gateways run with the registry of the chat UI,   *)
(* by whichever URL they call themselves.                                   *)
ShownGatewayIsUsed ==
    ~drift => \A e \in page :
        /\ e.gateway /\ Named(chat, e.name) # {} /\ Unambiguous(e.name) /\ CallsItself(e.name)
        /\ session[e.name] # Absent
        => ProcessAt[e.label] = ProcessAt[session[e.name].url]

(* Why, as an inductive invariant.  Without drift every Gateway that runs    *)
(* has the registry of the chat UI.  A connect looks for the id of its name, *)
(* and is given a URL of the Gateway of the name or none; if that Gateway    *)
(* takes the entry for its own and the caller may have the server, it has    *)
(* not been asked yet or answered with an error.  Sessions and labels of     *)
(* names that stand in the registry once lead to their Gateway.              *)
SameRegistry == ~drift => \A p \in Processes : gateway[p] \in {chat, Down}

Permitted(n) == ServerAt(chat, LastNamed(chat, n)).permitted
ConnectInPlace ==
    connect # Absent =>
      LET n == connect.name IN
      /\ Named(chat, n) # {} /\ connect.id = NameToId(chat, n)
      /\ ~drift /\ Unambiguous(n) =>
           /\ connect.found \in OwnUrls(n) \cup {Absent}
           /\ connect.found = Absent /\ Permitted(n) /\ TakesEntry(n) =>
                \A k \in GatewayUrls(chat) :
                   k < connect.next /\ chat[k].url = NameToUrl(chat, n) => chat[k].url \in connect.failed

SessionsInPlace ==
    ~drift => \A n \in Names :
        Unambiguous(n) /\ session[n] # Absent => session[n].url \in OwnUrls(n)
LabelsInPlace ==
    ~drift => \A e \in page :
        e.gateway /\ Unambiguous(e.name) /\ session[e.name] # Absent
          => e.label \in OwnUrls(e.name)

CatalogueInv ==
    CatalogueTypeOK /\ SameRegistry /\ ConnectInPlace /\ SessionsInPlace /\ LabelsInPlace

(* A connect is refused as not authorized only if the caller lacks the      *)
(* roles, or the server's own Gateway failed or does not know itself in the *)
(* registry: trouble at other Gateways does not hide a server (list_servers *)
(* passes over them).                                                       *)
RefusedMeansNotPermitted ==
    [][status' = 403 /\ status # 403 /\ ~drift =>
         LET n == connect.name IN
         \/ ~Unambiguous(n)
         \/ ~Permitted(n)
         \/ ~TakesEntry(n)
         \/ NameToUrl(chat, n) \in connect.failed]_catalogueVars
================================================================================
