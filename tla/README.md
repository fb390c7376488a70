# TLA+ verification of Orjanda

Orjanda is a Go framework for business applications. A developer declares document types
(DocTypes); the framework derives tables, a REST API, a permission model, workflows and an AI
agent that works on the documents with tools. This directory holds TLA+ models of the parts whose
correctness depends on orderings and failures that tests hardly reach, the TLC configurations that
check them on small instances, and TLAPS proofs for every instance.

`PROJECT.json` lists components, runs, mutants, the map from definitions to source lines, findings,
hazards and theorems.

## 1. Inventory

| Component (source) | State | Operations | Used by / uses |
|---|---|---|---|
| Document Engine (`document/engine.go`) | none of its own; rows of one table per DocType | Create, Read, Update, Delete, List | API, agent executor → perm, event bus, DAL, audit |
| Workflow Engine (`workflow/engine.go`) | definitions, fixed after start-up | Register, Execute, AvailableTransitions | API, agent executor → DAL, perm, bus, audit |
| Audit log (`audit/`) | table `audit_entries` | WriteInTx, Query, DiffMaps | both engines, inside their transaction |
| Event bus (`event/bus.go`) | handlers, fixed after start-up | On, Emit | both engines: before-hooks outside, after-hooks inside the transaction |
| DAL, SQLite dialect (`dal/dialect/sqlite`) | the database | Query on pool connections, Transaction (`BEGIN IMMEDIATE`, busy timeout 5 s), DDL | the engines, bootstrap, migrator |
| DAL, PostgreSQL dialect (`dal/dialect/postgres`) | the database | the same interface, READ COMMITTED | the same |
| Agent WebSocket (`api/agent.go`) | per connection: turn queue, pending map, early map | read loop, turn worker, RequestApproval, submit | agent runtime |
| Agent runtime (`agent/runtime`) | per turn: tool steps, plan, results | Execute, executeTool, gateApproval, executePlanMode | safety, planner, engines, LLM |
| Sessions (`agent/runtime/session.go`) | transcript, seen DocTypes, target count, last access | New, Get, Remove, markSeen, setTargetCount | runtime |
| Safety layer (`agent/safety`) | rate-limit stamps in `cache.Store`, token usage | RequiresApprovalWithReason, CheckRateLimit, CheckTokenBudget, IsToolAllowed | runtime |
| Planner (`agent/planner`) | none | Validate, ValidateArgs | runtime |
| LLM gateway (`agent/llm/gateway.go`) | circuit breaker per provider, token usage | ChatCompletion with failover | runtime |
| Providers (`agent/llm/openai.go`, `anthropic.go`, `http.go`) | one goroutine and channel per stream | ChatCompletion, StreamChatCompletion | gateway |
| Tool registry (`agent/tools/tools.go`) | templates, built at start-up | Compile, ForIdentity, RegisterCustomTool | runtime → perm |
| Permission engine (`perm/engine.go`) | declared permissions, table `RolePermission` | CheckAction, CheckRoles, FilterRead, FilterWrite | engines, middleware, tools, metadata |
| Authentication (`auth/jwt.go`, `api/auth.go`) | revoked refresh-token ids, in memory | login, GenerateTokenPair, RefreshToken, ValidateToken | API |
| API middleware (`api/middleware`, `api/router.go`) | stamps of each user or address | authentication, rate limit, permission | in front of every handler |
| REST, RPC and metadata API (`api/rest`, `api/rpc`, `api/meta.go`) | none | handlers | engines, perm |
| Cache (`cache/cache.go`) | LRU list with TTLs | Get, Set, Delete | safety layer |
| Schema registry (`schema/`) | compiled DocTypes | Register, Compile | everything |
| Migrator (`dal/migrator.go`) | migration files, goose's version table | Diff, Write, Up, Status | CLI |
| Bootstrap, server, CLI (`orjanda-core/bootstrap.go`, `site.go`, `cmd/`) | first administrator | `migrate diff`, `migrate up`, `serve` | operators |
| Applications, background jobs, search, UI and code generation | | set-up, stubs, queries, presentation | |

The behaviours that are hard:

* **Reads before a transaction.** Both engines read the record and check uniqueness on a pool
  connection and only then open the write transaction. Any other request may commit in between.
* **All or nothing.** Row, after-hooks and audit entry share a transaction that may fail at each
  step; the process may die.
* **One write lock.** SQLite has one writer; the others wait at most the busy timeout.
* **Two goroutines and a mutex.** On an agent connection the read loop delivers approvals to a
  worker that waits for them, with answers that come early, late or twice, timeouts and disconnects.
* **A model that may answer anything.** The agent's loop must end, ask a human where the policy says
  so, and do nothing when a plan is rejected.
* **Check here, act there.** Limits, tokens and permissions are read in one step and used in
  another, while tables change and the server restarts.
* **Processes on one database.** Diffs, migrations, development and production servers start in any
  order and die anywhere.

What makes each part correct is stated with its module below.

## 2. Modules

| Module | Models | State and actions |
|---|---|---|
| `AuditedStore` | abstract specification of the write path | `table`, `log`, `status`; `Commit` changes one row, adds one entry and answers the request in a single step, `Fail` changes nothing |
| `DocumentEngine` | Create, Update, Delete, workflow Execute, their transaction, hooks, audit entry | `pc` per request: `read → validate → hooks → begin → write → audit → commit`; `writer` is SQLite's write lock, `txRow`/`txLog` what the open transaction has written |
| `ApprovalGateway` | one agent connection: read loop, worker, `wsGateway` | `reader` and `worker` are program counters, `mu` the mutex, `pending`, `chan`, `early` the maps and channels |
| `AgentRuntime` | turns of one session: ReAct loop, executor gate, plan mode, safety policy, planner | `phase` of the turn, `calls` still to execute, `plan` and `at`, `results`; session state `seen`, `target` |
| `AgentSessions` | session managers of several connections, the agent's rate limit, the LRU store | `managers`, `store` (a sequence, most recent first), `conn`: the turn each connection is in; reading and writing the stamps are two steps |
| `LlmGateway` | the LLM calls of concurrent sessions: token budget, failover, circuit breakers, accounting | per provider `failures`, `open`; per session `pc` of its call, `at` (position in the provider list), `usage` |
| `ProviderCalls` | requests, responses and streams of both providers | the transcript a turn leaves and the wire messages made of it; the stream's goroutine, body, channel and consumer |
| `AccessControl` | operators: permission engine, tool templates and their projection, metadata | no state |
| `ApiAccess` | the HTTP API: middleware, login, refresh, handlers, tool calls | `req[r].pc` per request; tables `active`, `roles`, `grants`; `pairs` and `revoked` tokens; `stamps` of the limiter; extends `AccessControl` |
| `SchemaDiff` | operators: compile checks, columns, types, Diff, Write and the DDL of both dialects | no state |
| `SiteStartup` | `migrate diff`, `migrate up`, `serve` in development and production, Bootstrap | `proc[p].pc` per process; the schema `live`, `files`, `applied`, `users`, `admins`; extends `SchemaDiff` |
| `MC…` | the instances of section 3 | |
| `…Proofs` | the proofs of section 4 | |

How they meet: `RunCall`, `Approved` and `RunStep` of `AgentRuntime` stand for a call that may
become a request of `DocumentEngine`; `AskApproval … Approved/Refused` and
`ConfirmPlan … PlanApproved/PlanRefused` are one round trip of `ApprovalGateway`. The runtime's
fairness assumption that an approval is answered or given up is what `RoundTripEnds` establishes; that
an LLM call returns is an assumption about the providers, to which `CallsEnd` of `LlmGateway` reduces
it. `StartTurn` of
`AgentRuntime` may refuse a turn: `AgentSessions` says when (`Refuse`), and `LlmGateway` adds the
budget. The session that carries `seen` and `target` from turn to turn lasts as long as
`ContinuesUntilLapse` says. `Write` and `Delete` of `ApiAccess` are what starts a request of
`DocumentEngine`; its `Refuse` covers the permission checks that `ApiAccess` models. A provider's
answer in `LlmGateway` is one response of `ProviderCalls`. The schema and the administrator that the
others take for granted are what `SiteStartup` leaves behind.

### DocumentEngine

A request is a goroutine that serves one operation. Permission checks, format validation, query
errors and failing before-hooks are one action, `Refuse`: all of them end the request before the
transaction. `RunBeforeHooks` lets hooks overwrite columns, after uniqueness was checked, as in the
code. `NewRow` is the row as the INSERT or UPDATE leaves it: Update writes every column of the
merged row, the ones it read and did not mean to change too. `Accepts` is the primary key, NOT NULL
and UNIQUE. `Rollback` covers a failing constraint, guard, after-hook, audit write and commit.
`Crash` is the death of the process: SQLite discards the open transaction. A PATCH may name any column,
the read-only `workflow_state` included, since `Update` does not look at ReadOnly.

Abstractions: one DocType; timestamps, owner and the other system columns are left out (no property
compares them); a column holds a model value; after-hooks do not change the map they are given (the
PRD calls it immutable) and hooks on Delete do not edit the record. The SQLite dialect is modelled,
not PostgreSQL's.

### ApprovalGateway

`submit` runs in the read loop and sends on a channel of capacity one **while holding** `g.mu`;
if the channel is full the reader keeps the mutex (`reader = "blocked"`). `RequestApproval` is
`Register`, then one of `ReceiveAnswer`, `SeeCancelled`, `Timeout`, then `Cleanup`, the deferred
delete that needs the mutex again. The client may answer any action it was asked about at any time,
more than once. The payload of an answer (the human's amended arguments) is left to `AgentRuntime`.

### AgentRuntime

The model, the human and the engines are environment: every response, plan, answer and result in
the bounds is possible. A tool call is a record of what the policy and the planner tell apart: the
kind (the verb of the tool, or the workflow action), the DocType, the size of an array argument, the
`ref:<i>` it contains, whether its arguments satisfy the schema, and its declared dependencies.
`ran` is a ghost: each dispatch, with the reason the policy gives for it and whether a human
consented. `listed` is another: what the last list or search showed the model, which the properties
compare with the session's `target`. A list or search that fails sets `target` to a count of 0, as
`recordCount` makes of the nil slice. Rate limit and token budget appear as a turn or an LLM call that may be refused.
`MaxBulkOperations` is positive (`NewLayer` replaces 0 by 5; a negative value, which switches the
check off, is not modelled).

### AgentSessions

Each WebSocket connection has a runtime, and so a session manager, of its own; all share the rate
limiter's store. `sessionFor` looks the connection's session up (`Get`, which touches it or drops it
when it is older than its TTL) and otherwise makes a new one (`New`, which sweeps the expired ones).
`CheckRateLimit` is `ReadStamps` and then `Refuse` or `Admit`: a `Get` and a `Set` on the store
without a lock around both, so two turns may read the same list and one of them overwrites the
other's stamp. The store is an LRU list: a hit moves the entry to the front, a `Set` on a full store
drops the last one. `admitted` and `lost` are ghosts: what was admitted, and which of the stamps left
the store before their time. The limit therefore holds **up to** what was lost (`RateAccounted`).

### LlmGateway

One `llm.Gateway` serves the connections of the application, so sessions share its breakers; within a
session calls follow each other, since a connection has one turn worker. `allow`, the provider's
answer and the recording of its outcome are separate steps: calls of other sessions are recorded in
between, and a failure may be recorded after the circuit has opened. The clock is abstracted to
`CooldownEnds`, which may happen at any time while the circuit is open. `Proceed` is what the gateway
does by itself, `Returned` what it does once a provider has answered or its connection has failed. An open circuit's success
resets the count and does not close it, as in the code. `streak`, `tripped` and `failed` are ghosts
that record what the providers did, independently of the breaker's own count. A budget of 0 switches
the check off and is not modelled. `MaxTokens` bounds what a provider reports for one answer.

### ProviderCalls

Two clients. The *runtime* leaves a transcript, turn after turn, through answers, tool calls, failed
calls, plans, corrections and summaries; before each call it becomes the messages of a request:
OpenAI's with one message per tool result, Anthropic's with the results of one response collected in
a user message (`flushToolResults`). A message keeps what pairing depends on: role, whether there is
text, the ids of its calls, the call it answers. The *stream* client opens a stream of server-sent
events; the goroutine scans events into chunks and sends them on an unbuffered channel, in a `select`
with the context; the server may break off after any event, the caller may cancel at any time and
stop reading. Texts and arguments are sequences of deltas, an empty one being the empty object.

### AccessControl and ApiAccess

A caller is the set of roles of its token. `CheckAction` is the administrator's bypass, the declared
permissions and the `RolePermission` rows; a gated field needs its own role. `Templates` and
`ForIdentity` are the tool registry's two phases. `DbBooleans` says whether the driver scans boolean
columns into Go booleans (PostgreSQL does, SQLite does not). `describeDocument` and `Relationships` are
the fields that discovery names, for which nobody is asked.

A request of `ApiAccess` goes through `Auth`, `TakeTime` and `RateLimit`, `Permission` and then its
handler, each a step of its own: the middleware takes the time before it takes the mutex, the login
handler looks the user up before it issues tokens, refresh parses the token before it locks and
rotates, a write is answered by a second read with its own permission check (`Reread`), and an agent
turn projects its tools (`Offer`) long before it calls one (`Dispatch`; `Accepted` says what the
engines then decide, the workflow engine by the roles of the transition alone) or asks a discovery
tool (`Discover`). `GetLinks` is `Links`. What a caller has been shown (`seen`) and which names
discovery has told it (`told`) are kept apart. Meanwhile administrators
change accounts and grants and the server restarts, which empties the revoked set and the stamps.
Signatures and password hashes are taken to be sound. `Fail` is any other error of a handler, the
ABAC rules included.

### SchemaDiff and SiteStartup

A registry has the registrations in their order with tables, columns, links and children. `Compiles`
is Register and Compile, `diffWithInspector` the migrator's Diff, `Statements` what Write puts into a
file, `Applied` and `Rejects` what a dialect makes of them, failures included. A process runs
one command: `migrate diff` (RunDiff, then Name, which finds a free file name for the second, then Write, which
overwrites a file of that name: schema and directory may change in between), `migrate
up` (Collect, then Apply file by file in the order of their versions, each with its own commit), `serve` in production (compile,
diff, refuse if changes are pending) or in development (CreateTables, Bootstrap). Bootstrap's reads
and inserts are steps of a transaction, which on SQLite excludes the other process and on PostgreSQL
does not. `Crash` may come anywhere. A process started with another registry than the last one is a deploy.
A child table that is declared twice, or has the name of a document's table, is taken from whichever
document Diff meets first in the random order of `reg.List()`; registries whose declarations differ
are left out (`TablesAgree` in `StartupConstants`). `--allow-destructive` counts as given only where
something would be dropped: elsewhere it has no effect.

## 3. Runs

| Run | Bounds | Checks |
|---|---|---|
| `documents_concurrent` | 3 requests at once, 2 records, 2 create bodies, 3 patches, hooks that set the unique column; symmetric requests and records | `TypeOK`; `AuditAtomic`: success ⇔ exactly one entry; `UniqueKept`; `NewValuesRecorded`; `EntryDescribesWrite`: a commit changes what its entry says, if it finds the row it read; `DeletedIsFinal`; `LegalTransitions`: what may move a record's workflow state; `ImplementsStore`: refinement of `AuditedStore` |
| `documents_live` | 3 requests, 2 at once, 1 record, no symmetry | `RequestsEnd`: every request is answered |
| `documents_replay` | 2 requests at once | `AuditReplay` **fails**: finding 1 |
| `gateway_connection` | 2 actions, 2 messages, 3 answers, queue and early map of 1 | `TypeOK`, `AnswerIsTheClients`, `EarlyAnswerSeen`, `RoundTripEnds`, `ConnectionReleased` |
| `gateway_stuck` | 1 action, 2 answers | `RoundTripBounded` **fails**: finding 2 |
| `agent_turns` | 2 turns, 2 tool iterations, 2 calls per response, plans of up to 2 steps, 8 calls, bulk limit 1 | `TypeOK`, `ConsentBeforeRun`, `BulkAskedInLoop`, `RejectedPlanWroteNothing`, `TurnEnds` |
| `agent_sessions` | 3 connections of 2 users, both scopes, limit 1, window 2, session TTL 1, store of 2 entries, 4 turns, 3 sessions | `TypeOK`; `RateAccounted`; `ContinuesUntilLapse`; `EvictsLeastRecent` |
| `llm_calls` | 2 sessions, 2 providers, threshold 2, 3 calls per session, budget 3, answers of 0 or 2 tokens | `TypeOK`, `OpensAfterThreshold`, `FailoverJustified`, `BudgetOverrun`, `CallsEnd` |
| `provider_streams` | both providers, 8 answers with up to 2 calls and 2 deltas each, transcripts of up to 9 messages | `WirePaired`; `FinishedIsWhole`; `StreamEnds` |
| `api_access` | 1 user and 1 anonymous address, 2 request slots, 3 requests, 3 token pairs, 1 restart or change of account or grant, limit 2 per window of 1, token lifetimes of 1 | `TypeOK`, `RateBound`, `RefreshBound`, `GatedUnseen`, `OfferKept` |
| `api_gated_names` | the same | `GatedNamesUnseen` **fails**: finding 3 |
| `site_startup` | 2 processes, 3 commands, 2 files, 1 deploy, 4 registries, both dialects | `DataKept`, `Converges`, `ProductionComplete`, `OneAdministrator` |

**Why the bounds are enough.** Three requests give a first write and two that race on it; two
records are what uniqueness relates; hooks that write the unique column make the engine's check and
the constraint disagree; one of the patches names the workflow state. One place in queue and early map make both overflow. Two steps and two
calls give a reference, a dependency, a failing first step and a step after it; two turns carry the
session's target count over, and a large list, a failed one and a call on the same DocType fit. Six calls at a threshold of two open a circuit, close it and open it
again while a call admitted earlier is still out. Two connections of one user race on one stamp list
and a third fills the store of two entries; four turns over three units of time let a session lapse
under its connection and a window pass. Nine messages hold two turns with tool calls, or a plan with
a correction. Three requests in two slots are a login and two refreshes that race on one token, or
two at the limit and one more; the one event is the restart between them, or the grant that changes
between offer and call; one field is gated, and one transition is for a role the caller may lack. Three commands are two that race and one after them; two files and a deploy
give a file that was made for another schema. The registries differ by a table, a type, a unique
column, a child table and a dangling link.

Two cases lie outside: a request beyond the middleware's limit because it was overtaken needs four
requests in three slots (the theorem `RateLimited` covers it for any number), and three processes that
bootstrap at once (the theorem `OneAdministratorKept`).

**Deadlock** is not checked: in each model the bounded clients run out of requests, and a served
connection legitimately stops.

**Fairness.**
* `DocumentEngine`: weak fairness of the steps of each request. The Go scheduler runs every runnable
  goroutine. Nothing is assumed of the lock: a request that never gets it takes `BusyTimeout`, which
  is enabled whenever the lock is held. `Create` … `Execute` (the clients), `Refuse` and `Crash` are
  not fair.
* `ApprovalGateway`: weak fairness of read loop and worker, the armed timer included; none for the
  client.
* `AgentRuntime`: weak fairness of the turn. That LLM calls return is an assumption about the
  providers, which answer or break off: no timeout in the code enforces it. Approvals end as
  `RoundTripEnds` says.
* `LlmGateway`: weak fairness of `Proceed`, the gateway's own steps; none for the providers and none
  for the end of a cooldown. The providers use `http.DefaultClient`, which has no timeout, and set no
  deadline on the context (`openai.go:39`, `anthropic.go:40`): a provider that never returns holds the
  call for ever, and `CallsEnd` says that nothing else does.
* `ProviderCalls`: weak fairness of the stream's goroutine, where the server sends or breaks off, and
  of a caller that has not cancelled and reads; a caller that has cancelled owes nothing, and nobody
  is obliged to cancel.

### Findings

1. `Update` works on a pre-image read before its transaction and writes back every column of it. A
   concurrent write is undone, a deleted record can come back, and the entry does not say so. The TAD
   (§13.1, §13.2) says the pre-image is fetched inside the transaction and the log can never diverge.
   A stale read is the only cause: a commit that finds the row it read does what its entry says
   (`EntryDescribesWrite`), and as long as every commit does, the log replays to the table for any
   number of concurrent requests (theorems `FreshReplay`, `SerialWrites`). Only such an Update brings a
   deleted record back (`DeletedIsFinal`).
2. A repeated `approval_response` can block the read loop in `submit` with the mutex held; the worker
   cannot leave `RequestApproval` and the connection is stuck even after a disconnect. If no action
   is answered twice, round trips end (`gateway_connection`).
3. `describe_document`, `list_relationships` and `GetLinks` name gated fields to everyone
   (`executor.go:285`, `meta.go:158`), although the tool schemas are projected to hide them from the
   model (`tools.go:526`, TAD §10.3). Values and schemas are guarded (`GatedUnseen`).

Noticed while modelling and not made into runs; the actions that do it are in the models, and the
properties beside them say what does hold:

* *Engines.* The entry of `Delete` lists every column as changed to nil
  (`document/engine.go:373`; `audit.go:41`: unchanged fields are omitted). `Execute` resolves the
  transition from a state read before its transaction and its UPDATE does not test that state
  (`workflow/engine.go:171`, TAD §8.1): of two actions on one record both commit. A ReadOnly field
  "prevents modification after initial creation" (`schema/types.go:199`) and `workflow_state` is one
  (`workflow/engine.go:106`), but only the tool templates leave it out: a PATCH moves a record past its
  workflow. `LegalTransitions` is what is left of a workflow then.
* *Agent.* A list or search that fails returns a nil slice, which counts as 0 records and replaces the
  target count of the list before it (`executor.go:86`): the bulk question of TAD §12.1 is no longer
  asked. Up to such a failure it is (`BulkAskedInLoop`). `execute_action` is offered without a look at
  roles and its `action` has no enum (`tools.go:514`; TAD §8.2 fills it from `AvailableTransitions`), so
  an offered call may be refused; the other tools are offered only where they are accepted
  (`OfferKept`). `planApproval` asks the policy without the target count (`plan.go:120`) and plan steps are
  not asked about again, so the bulk limit of TAD §12.1 holds in the ReAct loop only. While no step
  has left a result `resolveRefs` returns the arguments unresolved (`plan.go:214`). `planApproval`
  takes `describe_document` for an unknown verb, so a read-only plan with a discovery step asks for
  confirmation. An answer that arrives after its round trip timed out stays in the early map for
  ever. Once a session has lapsed under its connection each later turn gets a fresh one, since the
  context keeps the old id (`api/agent.go:133` says it survives); in scope `session` the rate limit
  and the token budget then start afresh every turn.
* *LLM.* `Gateway.Usage` counts every chat twice, since `ChatCompletion` charges the key "" and the
  runtime then charges the session; after a cooldown the breaker admits any number of calls, not one
  probe as its comment suggests. Anthropic's alternation of roles, which `anthropic.go:118` asks for,
  is not kept after a failed turn (two user messages) or in plan mode (two assistant messages). A
  stream gives empty arguments as "" where the response gives "{}", and drops OpenAI's `index`.
* *API.* The middleware takes the time before the mutex, so an overtaken request may exceed the
  limit. A refresh token can be used once more after each restart, and refresh copies the claims of
  the old token: roles and the active flag are not read again until the next login. `RolePermission`
  rows never grant on SQLite, where booleans are integers. A DocType that is opened by
  `RolePermission` rows only gets no create, update or delete tool.
* *Migrations.* `Write` looks for a free file name and writes later (`migrator.go:285`, `293`): two
  diffs of one second may choose the same name and the first file is lost, which the counter should
  prevent. A later column never becomes UNIQUE and Diff never compares UNIQUE or NOT NULL. On
  PostgreSQL `ADD COLUMN … NOT NULL DEFAULT ''` fails for types other than text. Type changes are
  comments in SQLite's files, so production refuses to serve until the table was rebuilt by hand. Two
  diffs within one second get the same version; two diffs before an `up` make the second file's ADD
  COLUMN fail. Without `--allow-destructive` Write refuses the whole file.
* *Bootstrap.* A crash between commit and print loses the administrator's password; with the only
  administrator soft-deleted the insert meets the UNIQUE constraint and Bootstrap silently does nothing.

## 4. Proofs

All proofs are for arbitrary constants under the named assumptions of each module
(`ConstantsAssumption`, `GatewayAssumption`, `RuntimeAssumption`, `SessionConstants`,
`GatewayConstants`, `ProviderConstants`, `AccessConstants`, `ApiConstants`, `StartupConstants`:
distinct null values, the shape of rows, calls, answers, schemas, registries and workflow
definitions, natural-number bounds; in `ProviderConstants`, that a provider gives the calls of one
response distinct ids). TLC evaluates the assumptions in every run.

* **`DocumentEngineProofs`**: `TypeCorrect`, `WritePathGuarantee`, `UniquenessKept`. `AuditAtomic`
  is not inductive: a commit appends `txLog`, about which it says nothing. The invariant adds who
  holds the lock (exactly the request inside its transaction) and what the transaction holds at each
  stage: no row and no entry before the write, the row after it, one entry of that request
  before the commit. Uniqueness needs that the row about to be committed was accepted against a table
  no one else could change since, which follows from the lock.

  `NewValuesAreTheRows`, `EngineImplementsStore`: the stage invariant is strengthened, the
  transaction's row **is** `NewRow`, and its entry **is** `BuildEntry`, of its request. The refinement
  then has one case per action: `TxCommit` is the abstract `Commit`, the error steps and `Crash` are
  `Fail` of a set of requests, everything else stutters.

  `WorkflowMoves` proves `LegalTransitions` without any hypothesis: a request that commits on the row it
  read writes the workflow state of a transition declared from it, or one that the PATCH or the hook
  named, since all other columns of the merged row are those that were read.

  `EntriesDescribeWrites`, `DeletedRecordsRest`: no hypothesis either. What a request has read is a live
  row and the target of a transition is declared from the state that was read (`ReadInv`); a commit on
  the row that was read changes the table exactly where its entry says so, since the columns that
  `BuildEntry` leaves out are those in which the new row agrees with the old one (`CommitDescribes`).

  `FreshReplay`, `FreshTransitions`, `SerialWrites`: replaying the log and the match of a transition with
  the state it finds (`TransitionsDeclared`), proved under the hypothesis that every commit of an Update,
  Delete or Execute finds the row it read (`FreshStep`), with any number of requests in flight and any
  PATCH and hook; without it finding 1 refutes the first and the race of two Executes the second.
  `SerialWrites` discharges the hypothesis for one request in flight at a time.
* **`ApprovalGatewayProofs`**: `GatewayTypes`, `NoStrandedAnswer`, `OnlyTheClientApproves`. The
  invariant says that an answer, wherever it is (in an unread frame, in the frame being handled, in a
  channel, in `early`, in the worker's hands), was sent by the client for the action it is filed
  under; and that an action has an entry in at most one of `pending` and `early`.
* **`AgentRuntimeProofs`**: `NothingRunsUnapproved`, `BulkCallsApproved`,
  `RejectedPlansAreHarmless`, `RuntimeTypes`. The invariant adds that a plan runs without consent
  only if the policy asked nothing of any of its steps, and that nothing is written between the
  request for a plan and its first step. For `BulkCallsApproved` it relates the session's target count
  to the ghost `listed`: they agree unless the last list or search failed. The types need that a turn under way is within the iteration
  cap, that the index moves only while a plan runs and that a call waits for approval only while it
  is there.
* **`AgentSessionsProofs`**: `SessionsTypeOK`, `SlidingWindow`, `TurnsAreCounted`,
  `SessionContinues`, `EvictionIsLru`. The bound on admitted turns is not inductive: what counts is
  that every turn admitted in the window is either lost or still in the store under its key
  (`CountInv`), that no list holds more than `Limit` stamps and that an entry outlives all of its
  stamps, so that the store drops a stale entry only when nothing in it counts (`StampInv`). For the
  eviction the store's order agrees with the ghost `recent` at every step (`ListInv`). A session's
  last access is the start of the last turn until a pause is too long (`SessInv`). `TurnsAreCounted`
  shows that what is bounded is really the number of turns: two turns admitted in the same moment
  leave two stamps.
* **`LlmGatewayProofs`**: `GatewayTypes`, `CircuitsOpenForCause`, `FailoverHasCause`, `BudgetKept`.
  The invariant relates the breaker's count to what happened (`failures ≤ streak`, an open circuit has
  tripped), and says that a session with a call under way is within its budget, since nothing is
  charged to it between the check and the answer.
* **`ProviderCallsProofs`**: `CallsArePaired`, `FinishedStreamsAreWhole`. For pairing the invariant
  says which calls the transcript **owes** results for, and that they are the calls in `todo`, in
  both wire forms: for OpenAI the last message with calls and the results behind it, for Anthropic
  the last message and the results still collected. For the stream it is the stage the stream is in
  (`Stage`: in the text, before a call, in its arguments, at the end), which ties the events that are
  left and the tool the goroutine remembers to what the caller has accumulated; `StageAdvances` shows
  that one event leads to the next stage. Requests and responses are recursive functions over
  sequences; what they compute for every length is proved by taking the least length that would be a
  counterexample (`LeastNatural`, from the well-foundedness of `<` on the naturals), which needs no
  induction theorem with an operator parameter.
* **`ApiAccessProofs`**: `ApiTypes`, `RateLimited`, `RefreshedOnce`, `GatedFieldsUnseen`,
  `OffersKept`. The rate limit is not inductive: what counts is that the limiter still holds every
  admitted stamp in the window of the latest time at which a request of its key had the mutex; an
  admission on that time finds fewer than `Limit` of them, one before it is late. A refresh token has
  been used at most once per restart, and once more only if it is revoked. For the tools the lemma
  `OfferedAccepted` shows, template by template, that what `ForIdentity` offers passes `CheckAction`,
  `CheckRoles` and `FilterWrite`; workflow actions alone are refused after they were
  offered, and the names that discovery tells are outside `GatedFieldsUnseen` (finding 3).
* **`SiteStartupProofs`**: `OneAdministratorKept`, `NoDataLost`, `ProductionIsComplete`,
  `MigrationsConverge`. The invariant says where a transaction's own inserts are and that the unique
  keys exclude a second commit; which columns each file's statements can remove; that a file keeps its version when it is
  overwritten and the files one `up` has collected have different versions; and that a server in
  production started with an empty diff and no file with drops or type changes was applied since.
  Convergence rests on lemmas about the operators: applying the statements of a diff to the schema it was
  computed from leaves the diff empty, for each dialect and kind of change.

Only model-checked: the liveness properties (`RequestsEnd`, `RoundTripEnds`, `ConnectionReleased`,
`TurnEnds`, `CallsEnd`, `StreamEnds`), since fairness and ENABLED are out of the prover's reach. Every
invariant and every action property of the runs that hold is a theorem; `AuditReplay` is
one under the hypothesis named above, without which finding 1 refutes it.

## 5. Not modelled

* **Applications** (`app/`): `ResolveDAG` is called by the test site only; a site registers its
  applications in the order given, which `Compiles` checks.
* **Background jobs**: an in-memory stub without a caller.
* **Search**, `List`'s query syntax, `AvailableTransitions`, `audit.Query`, `migrate status`: read
  only.
* **UI and code generation**: presentation and generated code.
* **The gateway's `StreamChatCompletion`**: the failover loop again, without a caller in the runtime.
* **PostgreSQL under the document engine**: `DocumentEngine` models SQLite's single writer. Under READ
  COMMITTED finding 1 remains and uniqueness rests on the same constraint.
* **Field gates of child tables**: the templates and the permission engine look at the fields of a
  DocType, not at those of its children, and so does `AccessControl`.
* **Reflection** over Go types in the schema parser, JSON schemas of fields, prompts and wording:
  data that no property tells apart. ABAC rules are arbitrary predicates and appear as failures.

Open: one module that composes `AgentRuntime` with `ApprovalGateway` (each is checked under what the
other guarantees, section 2), and a measure that every step of a turn of `AgentRuntime` decreases, the
safety half of `TurnEnds`.
