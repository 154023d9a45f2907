# Verification of template-ai-coding

TLA+ models of the running system in this repository: a chat UI (Chainlit) whose tools are MCP
servers behind Gateways, and a document index (Postgres/pgvector) filled by operator commands and
searched by one of those servers. TLC checks small instances; TLAPS proves the theorems of the eight
`*Proofs` modules for all values of the constants. `PROJECT.json` maps every definition to the lines
it stands for.

```
tlc -config lifecycle_concurrent.cfg MCDocumentLifecycle.tla      # a run
tlapm KnowledgeProofs.tla                                         # the proofs of a module
```

Paths below are relative to the repository root (`src/knowledge_mcp`, `gateway/...`).

## 1. Inventory

| Component | Code | State | Operations | Interacts with |
|---|---|---|---|---|
| Document lifecycle | `src/knowledge_mcp/ingest.py`, `repository.py`, `scripts/seed.py`, `scripts/delete_document.py`, `infra/app/init.sql` | table `documents`: a row per (document_id, chunk_index) with content_hash and embedding_model | `sync_document`, `replace_document`, seed, `delete_document` | search reads the table at any time |
| Knowledge MCP server and search | `src/knowledge_mcp/server.py`, `service.py`, `embeddings.py`, `models.py` | none; a caller keeps the ids of its hits | `search_knowledge`, `get_document` | reads `documents`, calls the embedding API |
| Schema migrations | `scripts/migrate_documents.py`, `infra/app/migrate_*.sql` | schema and old rows | one idempotent statement after the other | seed and delete migrate first, import does not |
| Langflow import | `langflow_import.py`, `scripts/import_langflow.py` | the same table; Langflow's Collection (read) | `sync_mapped_chunks`: groups by source, host paths before fallbacks | calls the lifecycle per group |
| Langflow ingest | `langflow_ingest.py`, `scripts/run_langflow_ingest.py` | uploads at Langflow, rows of the Collection, the mapping of one command | upload, run, delete per file; then import | Langflow's Files and Flow API, the import |
| Gateway | `gateway/src/mcp_gateway/*` | `TokenCache._entries` | `POST /mcp/{server_id}`: verify, authorise, cached or exchanged token, forward; `GET /v1/mcp` | Keycloak, MCP servers |
| Gateway catalogue of the chat UI | `gateway_registry.py`, `mcp_ui.py`, `gateway_client.py`, the Gateway's `registry.py` | the registry as each process has loaded it, the browser's list of MCPs | page load, connect from a name to a Gateway's URL | one registry file, Gateways |
| Token manager | `src/chat_ui/token_manager.py`, `auth.py` | stored tokens per user, session id binding (Postgres row or two dicts) | sign-in, `get_access_token` (refresh, delete on refusal), bind | Keycloak; called by connects |
| Gateway MCP sessions | `src/chat_ui/gateway_mcp_connect.py`, callbacks of `app.py` | `session.mcp_sessions`, `user_session["mcp_tools"]`, background tasks, `_connect_locks` | POST, DELETE, reconnect | token manager, Gateway, chat turn |
| Chat turn | `app.py` (`on_message`, `_dispatch_tool`), `mcp_tools.py` | `user_session["messages"]`, tools offered to the model | ask the model, dispatch calls, reconnect on 401, repeat, answer | MCP sessions |
| Web search server, OpenAI client, tracing, repository tooling | see `PROJECT.json` | none that the program reads again | | |

What is hard, and what makes each part correct:

* **Index.** Every statement commits on its own, from a pool, and several commands may run: deletes
  and inserts of two commands interleave, and a command can die between any two. Correct means: a
  document at rest is exactly one version; nobody reads a mixture; a half-written document is
  noticed and repaired by the next sync; what a command reports is true; an unchanged document is
  not touched; no text is indexed twice under a host path and a fallback.
* **Search.** The id of a hit may be used long after the search. Correct means: it never leads to
  another text than the one the hit showed.
* **Migrations.** A migration may die, run twice, and overlap with commands of this and the earlier
  release. Correct means: repeating it completes it, and no command deletes a document it cannot
  write back because the schema is half migrated.
* **Langflow ingest.** Three requests per file, each of which may fail, lose its answer or (the flow)
  go on after its timeout. Correct means: no original stays at Langflow, a file's text ends under
  the file's host path, and no other file's text of the same command does.
* **Gateway.** Requests interleave at the exchange; a cached token belongs to a caller and a server,
  and time passes between Keycloak's answer and the entry. Correct means: a token only reaches
  the caller and server it is for, and is alive when it is served, as far as Keycloak says how long
  it lives; what the catalogue shows a caller it may call.
* **Catalogue.** One file is read by several processes at restarts of their own, and a process may call
  itself by another URL than the file does. Correct means: the Gateway the list shows is the one the
  session uses, and a refusal says something about the
  caller, not about other Gateways.
* **Token manager.** Nothing serialises calls for one user: read, refresh and save or delete of
  several calls and sign-ins mix. Correct means: own token only, a forced refresh gives a new one,
  tokens are deleted only when Keycloak has refused one.
* **MCP sessions.** Connects hold a lock, disconnects do not, both suspend often, and a reconnect may
  be cancelled with its chat turn. Correct means: no background task is lost, nobody closes the session
  another one registered, a working session is not replaced, every handler answers.
* **Chat turn.** The history is changed in place; the tool table changes under a turn. Correct
  means: a request can always be accepted by the API, a call reaches the server that offered the
  tool, a retry is not a repetition on the same dead session, errors reach the user.

The full list of hazards, each at its line and with the properties that watch it (or the reason why
none does), is `hazards` in `PROJECT.json`.

## 2. Modules

| Module | Models | Used by |
|---|---|---|
| `DocumentIndex` | abstract: a document goes from version to version, or to `Mixed` | refined by `DocumentLifecycle` |
| `DocumentLifecycle` | the lifecycle, one step per SQL statement | `KnowledgeSearch`, `MCDocumentLifecycle`, `KnowledgeProofs` |
| `KnowledgeSearch` | composition: readers over the commands of `DocumentLifecycle` | `MCKnowledgeSearch`, `KnowledgeProofs` |
| `SchemaMigration` | both SQL scripts and the commands that meet them | `MCSchemaMigration`, `SchemaMigrationProofs` |
| `LangflowImport` | the import of a Collection, one step per statement | `MCLangflowImport`, `LangflowImportProofs` |
| `LangflowIngest` | the ingest commands, one step per request | `MCLangflowIngest`, `LangflowIngestProofs` |
| `GatewayTokenCache` | the Gateway's two endpoints, its cache and the exchange, with a clock | `MCGatewayTokenCache`, `GatewayTokenCacheProofs` |
| `GatewayCatalogue` | the registry as processes have loaded it, the browser's list, connects from names to URLs | `MCGatewayCatalogue`, `GatewayMcpConnectProofs` |
| `TokenManager` | token calls, both stores, sign-in, Keycloak's SSO sessions | `MCTokenManager`, `TokenManagerProofs` |
| `GatewayMcpConnect` | connect, disconnect, reconnect of one name, one step per await | `MCGatewayMcpConnect`, `GatewayMcpConnectProofs` |
| `ChatTurn` | the chat turn, one step per await | `MCChatTurn`, `ChatTurnProofs` |

Actions bear the names of the functions, or of the branch of one they stand for; a step ends where
the code suspends or commits. Definitions commented "Mutant" are plausible mistakes in the
definition below them; nothing uses them, they document which property notices which mistake
(`mutants` in `PROJECT.json`).

**DocumentLifecycle.** `rows` is the table, an entry per chunk. `Begin` is a command with an input
from `Jobs`; `Fingerprint` compares (`fingerprint_matches`) and ends with `skipped` or goes on;
`Embed` is the seed's call of the embedding API between reading and replacing; `Delete`, then one
`Upsert` per chunk; `Crash` ends a command anywhere. `claim` is a history variable: the version last
written to the document, or `Mixed` once replacements of different versions overlapped or one was cut
short. Embeddings, titles and metadata are left out; the two compared columns are kept.

**KnowledgeSearch.** `CommandStep` is any step of `DocumentLifecycle`; readers take `Search` (the
checks of the arguments), `EmbedQuery`, `Select` (one SELECT with its ORDER BY and LIMIT) and
`GetDocument`. The database draws a UUID for every inserted row and `DO UPDATE` keeps it, so a
hit carries `live`: its row has not been deleted since. The table's index is HNSW (`init.sql` line
19), which answers ORDER BY/LIMIT approximately: `Selected` is any set of at most `top_k` rows, so no
property says which rows a search finds, or when a row `SearchHit` refuses (`models.py` line 11) fails
it. Rows of another embedding model are compared as if they were of the query's (`repository.py` line
52 does not look at the column). The checks of `server.py` accept `top_k` up to 20; the instance has
`MaxTopK` 2 in its place.

**SchemaMigration.** `Script` is the list of statements of both files, in the order of execution;
`Execute` runs one of them with its effect on `schema` and `table`, `ExecuteFails` is a constraint
that existing rows refuse. `CREATE EXTENSION` has no effect on an existing volume and is left out.
The commands are those of `DocumentLifecycle`, cut to the statements a schema may refuse. A seed of
the earlier release writes with `LegacyWrite`; it may insert a row between the two backfills of
`document_id` (`migrate_documents_chunks.sql` line 15), which then is a document of its own: `late`
marks such rows, and `OneDocumentPerSource` leaves them out. Sources of earlier rows are assumed to
be written as this release writes them, without blanks around them.

**LangflowImport.** `collection` is any content of the Collection, as chunk hashes by source, and may
be edited at any time. An import reads it, reads the host hashes, syncs the chosen groups one by one
(fingerprint, delete, inserts), reads the hashes again, then the fallbacks, and drops those whose
text is known. A fallback is named after the id of its row, so its text never changes
(`CollectionsAssumption`).

**LangflowIngest.** `uploads` is Langflow's storage, `flows` are runs nobody waits for any more (given up
or killed with their command), `collection` has one row per run, `index` the resulting documents. What
a row says of its origin is a sequence of keys in the order of `_source_keys`: the path of the upload,
the last part of that path, the name of the file. Langflow names an upload by the file's name or by
an id of its own: `LastPart`. `Overrides` is the mapping a file adds; `SourcesOf` is `remap_sources`:
the first key the mapping has decides. The import is one step.

**GatewayTokenCache.** A request passes `Arrive` (verify, with leeway), `Reject`/`AnswerLocally`,
`CacheHit` or `CacheMiss`, `KeycloakIssue`, `Receive` (verify the new token, `TokenCache.put`) and
`Forward`; `ListServers` is `GET /v1/mcp`, `Catalogue` its answer. Who may do what comes from
`Trusted` (audience and azp), `RolesOf` and `RequiredRoles`. An answer of Keycloak states the lifetime
of its token or states none (`said` 0), then `ExpiresIn` is the default of `app.py` lines 80-81. `Tick`
is the clock; nothing holds it while an answer is on its way or the signing keys are fetched for
its verification, so a token may be put at any age.

**GatewayCatalogue.** `file` is the registry on disk, `chat` and `gateway[p]` the versions the chat UI
and each Gateway process have loaded, `page` the browser's list with the label it shows, `session` the
endpoint each connected name uses. `Connect` finds the id of a name in the chat UI's registry, `next`
is the position in it from which Gateways are still to be asked (`ToAsk`), `AskNext` is one `GET
{url}/v1/mcp` of `list_servers`, `Refuse` and `OpenSession` what follows. `permitted` stands for the
caller's roles (`GatewayTokenCache` has them); token errors of a connect and everything about the lock
belong to `GatewayMcpConnect`. A process is reached at the origins `ProcessAt` leads to it from, and
gives `PublicUrl[p]` (PUBLIC_BASE_URL) of itself, by which it also picks its entry of the file:
`Listed` takes that URL, not the one asked. So the URL shown may be the registry's and the session's
PUBLIC_BASE_URL; `ShownGatewayIsUsed` compares the processes they lead to. `drift` remembers that a
Gateway has run with another registry than the chat UI. The two properties speak of registries without
drift in which a name and an id stand once and have a URL (`Unambiguous`), and of Gateways that are
reached at the URL they give (`CallsItself`) and find their entry by it (`TakesEntry`); other settings
are in the instance, and what happens with them is: of two entries with a name the last one counts, an
entry without URL answers 403 to every connect, and an entry taken out of the registry stays in the
browser's list until the user disconnects it. A Gateway that cannot be reached fails every connect that
asks it, also for servers of others (`gateway_client.py` line 75).

**TokenManager.** A call is `Ask`, `Read`, then a token, a refresh (`Refreshed`, `Refuse`,
`Transient`) and `SaveRefresh` or `DropRefused`; a response may come without a new refresh token, and
what is stored has none then (`refresh`); `Rebind` is the second attempt of
`access_token_for_gateway_session`. `Login`/`SaveLogin` is `oauth_callback`, `EndSso` and `Age` are
Keycloak. `backend` chooses the Postgres row (one session id per user) or the two dicts.

**GatewayMcpConnect.** Handlers are POSTs, DELETEs and chat turns that reconnect. `open` is
`mcp_sessions[name]`, `tools` the session whose tools are registered, `running` the sessions whose
background task is alive. `Die` is a server that stops answering. `Cancel` ends a chat turn's
reconnect at any of its awaits, as Chainlit's stop button does: the lock is given back, but a session
it was opening goes on without anyone to stop it. `abandoned` remembers those sessions.

**ChatTurn.** `registered` is the key order of `mcp_tools` (a tool name is looked up in it), `open` the
sessions. Connects and disconnects are single steps here; that they may be is what
`GatewayMcpConnect` is about. `Stop` is Chainlit's cancellation of a turn.

## 3. Runs

| Run | Properties | Shows |
|---|---|---|
| `lifecycle_concurrent` | `ClaimedVersionInstalled`, `NoVersionMix`, `LifecycleInv`, `ReportedVersionInstalled`, `OnlyChangedDocumentsReplaced`, `IndexPromise` | three commands on one document, any versions, crashes anywhere; refinement of `DocumentIndex` |
| `knowledge_search` | `SearchInv`, `FetchedTextIsTheHits` | a reader next to two commands that replace, delete and die |
| `schema_migration` | `MigrationInv`, `NoStrandedReplacement`, `FingerprintsAreTrue`, `OneDocumentPerSource`, `RerunCompletes` | two migrations or commands over volumes of the earlier release, with a death and a write of that release, with fairness |
| `import_runs` | `ImportInv`, `NoDuplicateContent`, `ConvergedIndex`, `ThirdImportWritesNothing` | two imports, crashes and edits of the Collection |
| `ingest_commands` | `IngestInv`, `OwnTextFiled`, `NamesakesStayApart` | two ingest commands over files of one name, lost answers, late flows, kills |
| `gateway_cache` | `ForwardedTokenIsOurs`, `CacheInv`, `CachedTokenIsLive`, `CatalogueIsCallable` | two requests, three callers, a clock, lifetimes stated or not |
| `catalogue_connects` | `CatalogueInv`, `ShownGatewayIsUsed`, `RefusedMeansNotPermitted` | four registries, two Gateways with other public URLs than the registry's, restarts at any time |
| `token_stores` | `TokenInv`, `OwnToken`, `FreshOrNew`, `DeletedOnlyAfterRefusal` | two token calls or sign-ins of two users, both stores |
| `connect_handlers` | `ConnectInv`, `UsableSessionIsReused`, `ConnectedMeansOpen`, `HandlersAnswer` | three handlers of one name, cancelled or not, with fairness |
| `chat_turns` | `ChatInv`, `RequestsWellFormed`, `CallReachesItsServer`, `ToolErrorsAreShown` | two turns, three calls, a Gateway server and another one |

Some invariants have named parts: `LifecycleInv` (types, `JobsInPlace`, `ReplacersAgree`,
`MissingChunksAhead`), `SearchInv` (`LifecycleInv`, the readers' types, hits have rows), `CacheInv`
(types, `EntriesAreBounded`, what entries and requests hold), `TokenInv` (types, `StoreInPlace`,
`InPlace`), `ConnectInv` (types, `NoOrphanRunner`: a background task belongs to a session or to a
handler that will stop it, or a cancelled reconnect has abandoned it; `OpenSessionRuns`: a registered
session has its task; `HandlerInPlace`: what a handler holds between two awaits), `IngestInv` (types,
`NoUploadLeft`, and `InPlace` for a command), `MigrationInv` (types, `InOrder`, `InPlace`,
`RowsFollow`), `ImportInv` (types, `InPlace`, `FallbackTexts`, `DuplicatesWillGo`, `Alone`, `Again`),
`CatalogueInv` (types, `SameRegistry`, `ConnectInPlace`, `SessionsInPlace`, `LabelsInPlace`), `ChatInv`
(types, `TurnInPlace`, `HistoryInPlace`, `PayloadsInPlace`), `CallReachesItsServer` (`OfferedByTarget`,
`RetryGoesToNewSession`).

Two runs find a documented statement violated by what the code does (`findings` in `PROJECT.json`
quotes the statement):

| Run | Property | What happens |
|---|---|---|
| `ingest_upload_path` | `UploadPathIsNoSource` | rows of earlier uploads are not in the mapping of a later command and are filed under their upload path |
| `connect_stale_swap` | `ConnectedSessionOffersTools` | a connect over a dead session registers tools, swaps, and the old session's disconnect callback removes them |

More disagreements were met while modelling; the models contain them, and properties leave
exactly those cases out:

* Two imports of different versions of a document at once may leave chunks of both, until a later
  sync notices (ADR-0007 line 37 says the old chunks are gone): `claim` is then `Mixed`.
* A refused refresh deletes the row of the session id, also when a new sign-in has stored fresh
  tokens in it meanwhile (`token_manager.py` line 223; `authentication.md` lines 74 and 82 keep
  tokens that are not dead): `DeletedOnlyAfterRefusal` asks for a refused token of that user, not
  for the deleted one.
* An import decides which fallbacks to sync on host hashes read before it replaces host documents
  (`langflow_import.py` line 186), so the next import of the same Collection may add one more
  (ADR-0007 line 36): the property is about the third import.
* A cached token may outlive its end: `expires_in` missing or 0 counts as 300 s (`app.py` lines 80-81),
  and the signing keys may be fetched between Keycloak's answer and `TokenCache.put`.
  `CachedTokenIsLive` is about entries with a stated lifetime that were put in time.
* After a page load or a reuse the list shows the registry's URL of a Gateway, the session uses the one
  of its answer, PUBLIC_BASE_URL (`gateway_client.py` line 122), which may be written differently
  (`ui.md` line 29: what is shown and what runs agree). `ShownGatewayIsUsed` asks for one process.
* A chat turn cancelled while it reconnects leaves the session's background task behind
  (`gateway_mcp_connect.py` lines 290-342: CancelledError passes `except Exception` in line 323):
  `NoOrphanRunner` leaves out those sessions (`abandoned`).
* A refresh answered without a refresh token stores none, and the next refresh ends with no token
  (`token_manager.py` lines 96, 173 and 196; `authentication.md`: 2xx stores new access and refresh).
* Rows of an earlier command that say their file's name are filed under a namesake that is ingested
  alone later (`langflow_ingest.py` lines 119-121; `ingest.md` line 30 says equal names in different
  directories do not overwrite each other). `NamesakesStayApart` names this exception.
* A turn that dies between its calls leaves calls without answers in the history (`app.py` lines 185,
  243, 259): `RequestsWellFormed` is about sessions without such a turn.
* A Gateway that cannot be reached fails connects to servers of the others (`gateway_client.py` line
  75): the connect ends with an error, not with a refusal.

### Bounds, and why they are enough

* `lifecycle_concurrent`: one document (the code never relates two in one statement; the proofs have
  any number), two hashes, two models, up to two chunks (grow, shrink, change, same), three
  commands: two that agree and a third that clashes. Commands are interchangeable and so are
  hashes and models: none is named in an action or property, so symmetry is sound.
* `knowledge_search`: one document of up to two chunks, a text near the query and one that
  `SearchHit` refuses, `top_k` from 0 to 3 around the limit of 2; any selection of the rows.
* `schema_migration`: one source, the two volumes a release can leave (with and without rows that
  have no source or a blank one) and an empty one; five row ids are what two chunks, three rows and
  a write of the earlier release need at most, so an insert always finds one (`HasRoom`);
  one death and one such write, two slots for commands.
* `import_runs`: one host document that changes, grows and vanishes, one fallback with the text of one
  of its versions, two imports. `streak` counts undisturbed imports up to 2.
* `ingest_commands`: two files of one name, two commands, three uploads: a file twice and a namesake.
  Two uploads keep the file's name in their path, one is stored under its id. A row has its upload
  path as source, or a title first and the path further on; rows that record no path are fallbacks
  and belong to `LangflowImport` (`RowKeys` also admits them). An import after another command's
  namesake, the exception of `NamesakesStayApart`, happens in the instance.
* `gateway_cache`: an early and a late caller and one that is not trusted, two usable servers (one at
  a blocked address), one without configuration and one not enabled, an input for every way through
  the endpoints, a clock to 2 with tokens of lifetime 2, stated or not, a default of 4, `MaxTtl` 2,
  margin and leeway 1: a token may be put when issued, at the margin, or past it; an entry expires
  before, with or after its token.
* `catalogue_connects`: two Gateways, one of which is reached at two origins and gives the second of
  itself; two servers. The registries put both at one Gateway under the first origin, one at each, one
  with a role the caller lacks and one disabled, an id and a name at two Gateways, an entry without
  URL and one its Gateway does not find.
* `token_stores`: two users with a tab each, two calls, two responses of Keycloak: a refresh and a
  sign-in, in each order.
* `connect_handlers`: three handlers, any of which may be a chat turn that is cancelled, two sessions
  opened (an old and a new one). Handlers are not
  declared symmetric because the run checks liveness.
* `chat_turns`: a Gateway server and one that is not, two sessions opened each, two turns, three calls,
  at most two per model answer.

Deadlock is checked in all runs.

### Fairness

Two properties are about liveness.

* `HandlersAnswer`: `FairSpec` of `GatewayMcpConnect` gives each handler weak fairness of its steps:
  every await in these paths has a timeout (connect timeout, probe timeout, HTTP client timeouts), so
  an await that is reached ends, with an answer or an exception. Taking the lock has strong
  fairness: `asyncio.Lock` wakes its waiters in order, so a waiter gets a lock that is released
  again and again. In that module, `Next` lists the disjuncts of `Work` again so that fairness can
  name a handler's step.
* `RerunCompletes`: `FairSpec` of `SchemaMigration` gives a statement that was sent weak fairness (the
  database answers), and the start of a migration strong fairness: the operator repeats a migration
  that died (`seed` and `delete-document` run one as well, and every statement is written to be
  repeated: IF [NOT] EXISTS, or rows that are still NULL), between other commands that may occupy
  a slot again and again.

Nothing else is assumed of users. A chat turn has no liveness property: nothing in the code bounds the
rounds of tool calls the model may ask for.

## 4. Proofs

**`KnowledgeProofs`**, first part (any documents, hashes, models, chunk bound, commands, with or without
crashes; from the assumptions of `DocumentLifecycle` that `NoRow`, `NoJob`, `Mixed` are none of the
values they stand beside):

* `Invariance`: `Spec => []LifecycleInv`. `ClaimedVersionInstalled` is not inductive: it says
  nothing while a document is being replaced. Three parts make it so. `JobsInPlace`: a command
  between its delete and last insert has a chunk left to write. `ReplacersAgree`: all commands
  replacing a document with a claim bring the claimed version (another version makes the claim
  `Mixed` when it deletes). `MissingChunksAhead`: a row is the claimed one, or it is missing and
  some replacer has not passed that index yet; so when the last replacer ends nothing is missing.
  The delete of a second command with the same version removes rows the first has inserted, and its own
  index is 0, so they are ahead of it.
* `TypeCorrect`, `VersionInstalled`, `OneVersionVisible`, `ReportsAreTrue`, `UnchangedDocumentSkipped`:
  the run's properties for every instance. `FingerprintExact` is the lemma about the comparison:
  equal sets of (index, hash, model) mean equal rows.
* `Refinement`: `Spec => IndexPromise`, with the mapping `VisibleVersion`: under the invariant a
  reader's view is the claim, and each step starts, settles, clashes or stutters.

**`KnowledgeProofs`**, second part (any readers, similarities and limits, finitely many documents), builds
on it:

* `SearchInvariance`: the invariant of the lifecycle holds with readers beside it, since they write
  nothing, and a live hit has a row: only a delete takes a row away, and `StillThere` then ends
  the hit. An upsert over a row that is there keeps the id, and while the document has a claim both
  commands bring the same text: this is where `FetchedTextIsTheHits` needs `ReplacersAgree`.
* `FetchedText`: the property of the run. Nothing is assumed of which rows a search selects.

**`GatewayTokenCacheProofs`** (any callers, servers, roles, lifetimes, requests, clock bound):

* `CacheInvariance`: an entry is for the caller and server of its key; if the lifetime of its token was
  stated, it ends the margin before that lifetime counted from when it was put (`EntriesMatchKeys`).
  A token on its way is its request's (`RequestsInPlace`). When a token is put, relative to its issue,
  is bounded by nothing: the HTTP client's timeout bounds each read and not the exchange, and the
  signing keys may be fetched in between.
* `CacheTypes`, `ForwardedTokens`, `BoundedEntries` follow. `CachedTokens`: a token served from the
  cache is live if its lifetime was stated (`Stated`) and it was put within the margin of its issue
  (`Prompt`, 5 s: `cache.py` line 39). The code ensures neither, so they are conditions of the property
  and not assumptions on the constants; for a token without `expires_in` nothing but the limit holds.
* `ShownIsCallable`: what `GET /v1/mcp` lists for a caller, `authorize_tool` allows it. The two decide
  separately in the code (`list_enabled_servers` of `registry.py`, `authorize_tool` of `policy.py`).

**`TokenManagerProofs`** (any users, tabs, calls and number of Keycloak's answers, either store):

* `TokenInvariance`: `TokenInv`. `StoreInPlace` (stored tokens are their user's, an id leads to its own
  session's user or to nobody) carries the identity through the store; `InPlace` through a call:
  what it holds between an await and the next is its session's user's, what it saves is newer than
  the call, and what was refused stays refused, since SSO sessions end and do not come back.
* `OwnTokens`, `FreshTokens`, `RefusedTokensOnly`: the three action properties of the run.

**`GatewayMcpConnectProofs`**, first part (any handlers and any number of sessions):

* `ConnectInvariance`: `ConnectInv`. `NoOrphanRunner` and `OpenSessionRuns` are not inductive: they do not
  say whose a session is that is opened but not registered, or popped but not stopped.
  `HandlerInPlace` does: whoever works between `probe` and `list` has the lock, so there is one; the
  session it is about to register runs and nobody closes it; a session about to be closed, after
  a pop or a swap, is not the registered one. Disconnects take no lock, and need none for this.
  `Cancel` adds sessions to `abandoned`: none of them is registered or in a handler's hands.
* `UsableReused` and `ConnectedRuns`: the two action properties. The first one holds although a DELETE
  may come between the probe and the swap: then nothing is registered any more.
* `HandlersProgress`: every step of a handler, its cancellation included, brings it nearer to its
  answer, and no step of another one sets it back; `WaitsForWork`: who waits for the lock waits for
  another handler that is at work. With fairness the two are why `HandlersAnswer` holds; that last step
  is TLC's.

**`LangflowIngestProofs`** (any files and names, commands, uploads and kinds of rows):

* `IngestInvariance`: `IngestInv`. `InPlace` says what a command holds between two requests: while it
  is at an upload the file of the upload is still to do, otherwise it holds none; a file that
  is done has its rows; a path in the mapping leads to the file of that upload, a name (the
  file's or the last part of its upload path) only to the one file of the command that bears it.
* `OwnTexts` and `Namesakes`: the two action properties. Both need that ids of uploads are never used
  again and are not names (`KeysAssumption`), and that Langflow names an upload by its file's name or
  by one nothing else has (`LastPartAssumption`).

**`SchemaMigrationProofs`** (any commands, sources, texts, volumes and row ids, any number of deaths and
of writes of the earlier release):

* `MigrationInvariance`: `MigrationInv`. That a command finds what its statements need is not
  inductive by itself: it depends on what other migrations have done and may still do. `InOrder` says
  it once for all of them: the schema alone shows which statements have run, and whatever it has, it
  has everything above it in the script (`DoneAbove`), since no statement undoes another. So a
  migration at a statement finds those above it done, by itself or by another one. `RowsFollow`
  ties the rows to it: while `document_id` may be NULL there are no hashes (so the earlier
  release, which would leave them stale, is shut out before they appear), and at the second backfill
  of `document_id` every row with a source has its parent, late rows excepted.
* `NothingStranded`: a command whose fingerprints could be read may delete, since the columns they are
  read from come last in the script. `TrueFingerprints`, `OneParent`: the other invariants of the run.
* `MigrationEnds`: whoever comes to the end of the scripts leaves `init.sql`'s schema and complete
  rows, whatever died or overlapped: the part of `RerunCompletes` that needs no fairness.

**`LangflowImportProofs`** (any hosts, fallbacks, hashes, Collections and imports):

* `ImportInvariance`: `ImportInv`. `DuplicatesWillGo` says who cleans up: as long as no death is
  unrepaired, a text that is under a host path and a fallback is known to an import that will still
  drop the fallback. Whoever inserts a text has its own second read of the hashes, and then its read
  of the fallbacks, still before it. `Alone` describes an import nobody disturbs: host documents it is
  done with are exact, and it will drop every fallback that shares a text with one. `Again`
  describes the imports after one that was alone: host documents are exact and nothing is duplicated,
  so only fallbacks that no host document replaces are written; after the second one nothing is.
* `NoTextTwice`, `TwoImportsConverge`, `ImportsSettle`: the properties of the run. They rest on
  `CollectionsAssumption`: the text of a fallback never changes (its name is its row's id).

**`GatewayMcpConnectProofs`**, second part: `GatewayCatalogue` (any registries, Gateways, servers and
names that are as `CatalogueConstants` says: a server id is a key of its Gateway's servers). The two
modules share a proof module and no variable; where one needs another name for what both have, it is
the catalogue that carries it (`CatalogueSpec`, `ServerIds`, `Absent`).

* `CatalogueInvariance`: `CatalogueInv`. `ShownGatewayIsUsed` compares two things that are written at
  different times from different sources: the label by name, the session by id. `SessionsInPlace` and
  `LabelsInPlace` compare each with the Gateway of the name instead, by either of its URLs (`OwnUrls`:
  the registry's and PUBLIC_BASE_URL); `ConnectInPlace` says that a connect between two requests has
  been given a URL of that Gateway or none, and, if none, has not asked there yet or got an error;
  `SameRegistry` is why: without drift every Gateway that runs reads the registry as the chat UI does,
  and `Unambiguous` leaves one place for the name and the id.
* `ShownIsUsed`, `RefusedMeansIt`: the other two properties of the run.

**`ChatTurnProofs`** (any servers, numbers of sessions, turns and calls):

* `ChatInvariance`: `ChatInv`. `RequestsWellFormed` says nothing while calls are being dispatched;
  `HistoryInPlace` does: a call of the history is answered, or it is among those still to do and
  nothing but tool messages has come after it. `TurnInPlace` follows one call over its awaits: it is at
  a server that bears the tool's name (for a Gateway's tool: the only one), and once a 401 has sent it to
  reconnect, the session that failed is closed or replaced by a later one, whatever other handlers
  do. `PayloadsInPlace`: since the user's last question no tool message has an error that
  `payloads` has not.
* `WellFormedRequests`, `CallsReachTheirServer`, `ErrorsAreShown`: the properties of the run.

Every invariant and action property of the passing runs is stated by a theorem. Only model-checked are
`HandlersAnswer` and `RerunCompletes`: liveness under fairness is out of the prover's reach, as are
ENABLED and induction over data. Their parts that need no fairness are proved: `HandlersProgress`,
`WaitsForWork` and `MigrationEnds`. No module declares a RECURSIVE operator.

## 5. Not modelled

* The web search server, the OpenAI client and tracing keep no state the program reads again: one
  request per call, or spans that are only written. `validate_okf.py` and the other scripts of the
  development workflow check texts in one pass and are no part of the running system.
* `load_gateway_catalog`, `call_gateway_tool`, `load_id_to_name` and `MCPBridge` have no callers.
* Signature checks, encryption of stored tokens, the cookie check of the middleware, the destination
  check and FastMCP's token check decide one request each and share no state.
* The growth of `_connect_locks` and of the token cache has no bound that could be checked.

## 6. Plan

Done: all parts that keep state or meet others, with the abstract index, readers over the index, and
proofs of the safety properties of every component.

Next, model:

1. `ChatTurn` over `GatewayMcpConnect` with `TokenManager`: the 401 path from the expired token to
   the new session in one composed model; `LangflowIngest` with the steps of `LangflowImport`.
2. An abstract token store that `TokenManager` implements, to state what a sign-in promises.

Then, prove:

1. That `ChatTurn`'s connects and disconnects as single steps are what the handlers of
   `GatewayMcpConnect` amount to (a refinement between the two).
2. That the index `LangflowImport` writes implements `DocumentIndex`, document by document, as
   `DocumentLifecycle` does.
