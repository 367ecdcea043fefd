# A TLA+ verification of mona.expert

mona.expert is a local dashboard, a wrapper server and a library that put guard
rails around LLM agents: a pipeline of checks in front of a model, a catalogue of
agents with a kill switch, a queue of messages between agents, a hash-linked
audit log, consent, budgets, API keys and tenants; and a web API in PHP for the
accounts and their audit table. The Node processes are single-threaded. What can
go wrong is not two threads in one statement but two *requests* that interleave
at their `await`s (or, in PHP, between two SQL statements), two *processes* that
share a file or a table, a process that ends between two steps, and a long
sequence of legal calls. The modules here describe exactly that.

Paths below are relative to the repository; `src/x.js` is the library file
`src/src/x.js` of the mapping in `PROJECT.json`.

## 1. Inventory

| Part | State | Operations | What is hard, and what must hold |
|---|---|---|---|
| Audit log: `audit-log.js`, `broadcast.js`, `audit()` of both servers | `events.jsonl`; the hash cached by `broadcast.js` in each process | append (three kinds of caller), read, verify | read-then-append without a lock, in two processes; a stale cache; appends cut short. Records link to earlier ones; branches only under overlap; a reader gets all or nothing |
| Agent registry: `agent-registry.js`, `agent-manifest.js` | `_registry` in each process, `registry.json` for both | load, install, uninstall, add, remove, set status | two first loads; overlapping whole-file writes; a process that saves what it had read before the other one's changes; a crash between truncation and text. Nothing else loses an acknowledged change |
| Agent sandbox: `agent-sandbox.js` | `runningProcesses`, one interval per agent | start, stop, stop all, monitoring | check and effect are two suspensions apart. A running agent is monitored; a stop is final |
| Message broker: `message-broker.js`, `/api/messages` of the wrapper | table `message_queue` | send, broadcast, poll, acknowledge, clean | SELECT and UPDATE are not one transaction; replies get lost; priorities starve; anybody may acknowledge anything. One delivery, or a known reason why not |
| LLM proxy and budgets: `llm-proxy.js`, `rate-limiter.js` | limiter of the proxy's key; pipelines in flight | `process`, `processStream`, limiter calls | budget checked before and charged after a slow call; tool rounds; consent revoked meanwhile. Overspending is bounded; a revocation is missed only where the code never looks |
| Consent: `consent-manager.js` | records and agreements in two lists, tables `consent_records` and `data_agreements` | record, revoke, agree, decide, load | nobody waits for INSERT and UPDATE, and a pool executes them in any order; dates lose their milliseconds. A revocation outlives a restart |
| API keys: `key-store.js`, `api-auth.js` | table `api_keys` or a map in memory | generate, authenticate, revoke, rotate, list, clean | every statement suspends; rotation is two statements and ignores the old key's status; the mode is fixed at import. A revoked key stays out, a good one is not refused |
| Tenants: `tenant-isolation.js` | tenants and usage, in a map and a table | register, count tokens and sessions, load | the load runs while requests are served; whole rows are written by statements that overtake each other; tokens are not checked. Use stays within limits, and is what was reported |
| Sentinel and built-in agents: `agents/*.js`, `system-monitor.js` | interval handle, gateway session, tick counters | start, stop, tick, check, shutdown | the sentinel's start suspends twice before it sets its interval. One interval, and none after a shutdown |
| Safety pipeline: `security-layer.js`, `safety-engine.js`, `injection-guard.js`, `tool-registry.js`, `decoder.js` | the list of breaches and its file | `secureAction`, `wrapAction` | three verdicts override each other in turn. A stricter request never gets a laxer verdict |
| Streams and events: `streamAudit`, `streamBreaches`, `/api/live`, `event-bus.js`, `agent-instrument.js` | subscriber sets, an interval per client | connect, snapshot, join, announce, close, shutdown | snapshot and subscription with a gap in between; a snapshot that fails; a close in that gap |
| Servers: `server.js`, `wrapper-server.js` | shutdown phase | routes, start-up, shutdown | requests in flight during the shutdown |
| Dashboard page: `public/dashboard.js` | entries, search and offset of the audit tab; timer, latest entries and counter of the live tab | search, next page, poll | answers arrive after the search has changed, and out of order; the order of a second's records changes from query to query. No row is skipped, no entry counted twice, but for that |
| Web API: `server/web/api.php` | MySQL tables of users, keys, resets and audit; a rate-limit file | accounts, sessions, keys, password resets, audit, limit on requests | no transactions: another request fits between any two statements; the file is read without the lock it is written with. Deleted keys and accounts stay out; a reset works once; the table is one chain |
| Guardian client, database pool, website server, environment check, licence, command line, installers | configuration, a pool | I/O | nothing stateful of their own |

How they interact. The wrapper and the dashboard are two processes that share
`.mona-dashboard/` (the audit log), `.mona-agents/registry.json` and MySQL. In
each of them the routes call the
library directly; `llm-proxy.js` calls consent, limiter and safety engine
synchronously and the models asynchronously, and reports to the audit log
through `broadcast()`; the sandbox calls the registry; the shutdown of the
dashboard calls the sandbox, the built-in agents and the streams. The page talks
to the web API, which the Node processes push their audit records to.
`PROJECT.json` lists each part with its status, and under `hazards` every place
where one of these behaviours bites, each with the properties that watch it.

## 2. Modules

In each module a *call in flight* (a slot, a client, a request) has a step that
says at which `await` or SQL statement it is suspended; an action is the code
between two of them, which runs in one turn.

| Module | Models | State ↔ code |
|---|---|---|
| `AuditChain` | the three kinds of append, reading and verification, torn appends, restarts | `file` = lines of `events.jsonl`, `broken` = lines that do not parse, `open` = the last line lacks its newline, `lastHash` = the cache of `broadcast.js` per process |
| `LinkedLog` | the promise of an append-only log whose writers link to something no older than their own last entry | one variable, the log |
| `AgentRegistry` | `loadRegistry`, `saveRegistry` and all mutations with each of their suspensions, in any number of processes with one file | `cur`/`objs` = `_registry` of each process and the objects earlier loads returned (two loads give two objects), `disk` = `registry.json` missing, empty (truncated), whole or mixed (two texts) |
| `AgentLedger` | the promise of the registry to requests that come one after the other, in several processes: one reads the records whole, changes one agent lawfully in its copy and puts the copy on record, whole; nothing else changes a record | the records, the copy of each process, and whether a save is under way |
| `AccessLedger` | the promise of issuing and checking keys, wherever they are kept: issued once to one owner, withdrawn for good, and a request served only for an owner one of whose keys was valid after it began | a state and an owner per key, a phase per request |
| `AgentSandbox` (extends `AgentRegistry`) | `startAgent`, `stopAgent`, `stopAllAgents`, monitoring intervals, signal, shutdown, restart | per process: `running` = keys of `runningProcesses`, `monitors` = intervals alive per agent, `phase` = stage of the shutdown |
| `MessageBroker` | `message-broker.js` behind its routes | `queue` = the table, `poll` = the poll each client has in flight: rows selected, then marked, then in a reply |
| `LLMProxy` | `process`/`processStream` with the limiter and the answer of `checkConsent` | `req` = each pipeline's step, estimate and tool depth, `budget`/`spent` = `dailyUsd`/`spentToday` of the limiter |
| `KeyStore` | `key-store.js` behind `api-auth.js` and `/api/keys`: each SELECT, INSERT, UPDATE with the table, one turn with the map; failing statements, cleaning, expiry, restarts in either mode | `keyMode` = `mysqlAvailable`, `keyStore` = the table and the map, `keyCall` = the call of each caller and what it read |
| `ConsentStore` | `consent-manager.js`: records, revocations, agreements, the decision, the load, restarts | `consents` = the lists in memory, `consentTable` = the tables in row order, `sent` = statements on their way |
| `TenantStore` | `tenant-isolation.js` in one process: registration, tokens (numbers, text or none), the load, restarts | `tenants` = the map, `tenantTable` = the rows, `tenantSent` = statements on their way, `tenantLoad` = the load and the rows it read |
| `BuiltinAgents` | heartbeat, boss and sentinel with their start in `server.js` and its shutdown | `handle` = `intervalHandle` is set, `timers` = intervals alive, `starting` = the step of each `startSentinel`, `token` = the gateway session |
| `EventStream` | the audit, breach and live streams of both servers, `audit()` as far as they hear of it, the shutdown | `client` = snapshot read or failed, joined, interval, closed; `unsaid` = records appended and not yet announced |
| `SafetyPipeline` | `wrapAction` and `secureAction` with the safety engine's rules, the injection guard over all decodings, the tool policy and the list of breaches | `wrapped` = each call, `breaches` = `breachHistory`, `breachFile` = the log |
| `DashboardPage` | the audit and live tabs with the answers of the web API, which may order the records of one second in any way | `rows` = the second of each record in `audit_log`, `audit` = `state.audit`, `answer` = what is under way, `liveTop` = the latest of `state.live.entries`, `poll` = polls in flight |
| `WebApi` | registration, login, `authUser`, keys, password changes and resets, deletion of accounts, `auditLog` and `push_audit`: one action per SQL statement | `accounts`, `webKeys`, `resets`, `auditTable` = tables, `webCall` = the statement each request is at |
| `RequestLimit` | the limit at the top of `api.php`, with both reads, the lock, the truncation and the text | `rateFile` = the file, `rateCall` = the step of each process |
| `AuditChainProofs`, `AgentSandboxProofs`, `MessageBrokerProofs`, `LLMProxyProofs`, `KeyStoreProofs`, `WebApiProofs` | theorems about the module named (with the registry in the second) | section 4 |
| `StoreProofs` | theorems about `ConsentStore` and `TenantStore` | section 4 |
| `ServicesProofs` | theorems about `BuiltinAgents`, `SafetyPipeline`, `EventStream`, `DashboardPage` and `RequestLimit` | section 4 |
| `MCAuditChain`, `MCAgentSandbox`, `MCMessageBroker`, `MCLLMProxy`, `MCKeyStore` | instances for TLC | |
| `MCServices` | the nine smaller parts in one run: an initial state picks a part, and only that part takes steps | `component` = the part |

Variables marked *history* in the modules record what happened for the sake of a
property; no action's guard reads them, except where a bound is named
(`MaxTorn`, `MaxFailures`, `MaxReturned`).

A definition commented *Slip* is not part of a specification. It is a mistake
someone could make in the definition after it (a dropped guard, a forgotten
reset); `PROJECT.json` pairs every property with a slip that violates it, which
shows that the property says something about the code.

Abstractions worth knowing:

- A hash is a number no other record has: the hashed event carries a random id.
  The rows of the web API's table carry none: there, two rows after the same one
  may have the same hash.
- A text of the registry is its content per agent. Two writes that overlap leave
  either text whole or a mixture, which does not parse.
- `createSandbox` is one suspension: its directory and manifest are read by
  nobody.
- A broker's row has no payload; equal priorities may be served in any order,
  because `created_at` has a resolution of a second. So may records of one second
  in the page's queries, which sort by `created_at` alone: `Pages` is the set of
  all answers such a query can give.
- A count of tokens is a number, or `Text` once a report was a string, which
  JavaScript then concatenates; whether a string passes the comparison with the
  limit is left open. A missing number (`Missing`) makes NaN, which the next
  reading and JSON both take for none. Negative counts are bounded by `MaxCredit`.
- Money comes in units. The monthly budget is left out: within one limiter
  `spentThisMonth` equals `spentToday`, as neither is ever reset, and each plan's
  monthly budget is the larger. A guard is only whether a request goes on.
- A key and its hash are one value. A date of consent loses its fraction of a
  second in the table: two instants are one second. A tenant's plan stands for
  its limits and models.
- A text, to the safety pipeline, is what the patterns find in it, as it is and
  decoded, with the scores of the code.
- The web API's requests know a password or do not; all name one address. Its
  schema is not part of the repository, so nothing is assumed of it, no unique
  index and no cascade. Time is a clock of seconds in `RequestLimit` and a set
  of expired things elsewhere.

## 3. Runs

| Run | Instance | Checks | Shows |
|---|---|---|---|
| `audit_readers` | two slots of one process and one of another, four records, `audit()` and `appendAuditEvent()` | `ForkNeedsOverlap`, `NoForkBySelf`, `ImplementsLinkedLog` | without overlap the chain verifies, in several processes and across restarts; with overlap a slot still never branches off from its own record, and the log implements `LinkedLog` |
| `audit_mixed` | two slots of one process, four records, all three callers, two torn appends | `LinksPointBack`, `AllOrNothing` | a link names an earlier line, or an acknowledged record that was glued to a torn line; a reader gets every acknowledged record or, only after a torn append, an error |
| `audit_stale` | one slot, `audit()` and `broadcast()` | `AlwaysVerifies` (violated) | finding 1 |
| `agents_races` | one built-in agent, two calls in flight | `TypeOK`, `MonitorsCover`, `MonitorsDrain` | a running agent always has an interval; surplus intervals of overlapping starts clear themselves after the stop |
| `agents_serial` | two processes, a built-in and a custom agent, one call at a time (`SerialSpec`) | `SerialDurable`, `GhostNeedsCrash`, `ImplementsLedger` | the file has what was saved last and each process what it read and changed, whatever crashes: a change is lost only to a crash during a write or to a save of the other process that had read before; agents are on record as running without running only after one of these, a crash or a shutdown that gave up; file and copies implement `AgentLedger` |
| `agents_kill` | as `agents_races` | `StopIsFinal` (violated) | finding 2 |
| `broker_delivery` | two agents of a tenant, two messages (direct or broadcast, two priorities), `LIMIT 1`, one failure, one returned message, any acknowledgements | `TypeOK`, `CopiesNeedContention`, `DeliveredReached`, `PendingTaken` | a second copy needs two polls that held the row at once, or one while it was returned; a row that a poll marked delivered has reached somebody or was in a lost reply; priorities only delay |
| `broker_broadcast` | the same, nothing fails | `BroadcastReachesAll` (violated) | finding 3 |
| `proxy_budget` | two requests, budgets of one and two units, calls of up to two units, one round of tools | `OverspendBounded`, `RevocationHonoured`, `RequestsAnswered` | overspending stays within one call per request in flight; calls without the consent they need are only those of later tool rounds and the one of a stream; tool rounds end |
| `proxy_cost` | one request | `CostRecorded` (violated) | finding 4 |
| `services` | nine parts, see below | twenty-two properties | see below |
| `keys_expiry` | one caller that uses keys and one that manages them, two keys | `ExpiredRejected` (violated) | finding 5 |

`services` checks parts that share no state. Interleaving them would multiply
their states and show nothing, so an initial state picks one of them and the
others stay as they are; a property of a part that is not picked holds trivially
in those states and is really checked in its own.

| Part, and its instance | Properties | What they say |
|---|---|---|
| keys: one request and one administrator, two keys, both modes | `RevocationFinal`, `RejectionJustified`, `SuccessorMeansRevoked`, `ExpiredRejectedByTable`, `KeysImplementAccess` | an answered revocation or rotation is final; no good key is refused; a successor and its predecessor are never both good, whichever statement of a rotation fails; the table's keys expire; it is `AccessLedger` |
| consents: two records or agreements, three instants | `RevocationKept`, `RestartKeepsDecision` | a revocation is not undone by a load unless its UPDATE failed or came first; a restart decides as before if no two records are of one second |
| tenants: one and the demo tenant, two plans, counts down to -1, reports of text and of nothing | `UsageWithinLimits` | whatever is reported, a count that is a number is within the limits on record, unless the tenant was entered beside a row; and it is what was reported, also when loaded by a later process, unless an UPDATE failed, was cut off, found no row or came late |
| agents: one plain agent, two starts and one check of the sentinel, two ticks | `OneInterval`, `ShutdownStopsAgents`, `StartSettles` | a second interval needs overlapping starts; what ticks after a shutdown was being started during it; a start ends even if the gateway never answers |
| streams: one client, two audit slots, snapshots of two of four records | `DeliveredOnce`, `LeftoversNeedEarlyClose` | a record is missed or doubled only in the gap between snapshot and joining, also by a client whose snapshot could not be read; a closed client leaves nothing behind unless it closed in that gap |
| safety: one call, four texts, three modes, six lists of tools, three clearances | `VerdictMonotone`, `BreachesLatest` | more strictness never softens a verdict; the list of breaches has the latest, newest first |
| page, each tab on its own: pages of one row, polls of two, two polls, four records of any seconds | `NoRowSkipped`, `RecountNeedsReorder` | unless the search changed during a load, paging skips only a record in whose place another one of its second is listed twice; a double count needs answers out of order, or another counted record of its second |
| web: two clients, three requests, two accounts, two keys, one reset | `DeletedStaysOut`, `ResetSetsOnce`, `TableForksNeedOverlap`, `WebKeysImplementAccess` | requests that come after the deletion of their key or account stop in `authUser`; a reset is used twice only under overlap or a failure; so do branches of the audit table; keys and accounts together are `AccessLedger` |
| limit: two processes, four requests, a limit of two in one second | `AdmittedPerWindow` | one after the other, at most twice the limit less one request gets in during any span as long as a window: the last of four in a row comes later than a window after the first |

Types are proved, in every component's module of proofs. A run checks a type
invariant where it says more than types: in `agents_races` that no interval is
cleared twice, in `broker_delivery` that a poll is idle exactly when it holds no
rows.

Bounds. Races of these components need two parties, and in the audit log a third
in another process; each instance has that many. `MaxRecords = 4` leaves room for
a record, two that branch off from it and one that follows. `MaxTorn = 2` lets a
torn line be followed by another. `MaxMonitors = 2` is the number of overlapping
starts two slots can have; `Started` waits beyond it, which cuts off only states
with a third interval for the same agent. One failure is enough for each of the
partial failures of a poll, and one returned message for a second delivery, which
can meet a stale UPDATE of the first (`NoUncontendedCopies` is for any number of
both). The page's four records are two that were loaded and more than a page of
later ones, of one second or several; its theorems are for any number.
`Asked` says what clients of `agents_serial` ask for: everything for the custom
agent, and for the built-in one what the custom agent's requests need beside
them, to be installed and started; the two processes are alike (`SYMMETRY`).
`MaxSent = 2` lets two statements of a tenant overtake each other. `MaxDepth` is 5
in the code and 1 here: the depth is only compared with its limit (the theorems hold for every depth). Costs
up to two with estimates from one make underestimates possible. Two keys are one
and its successor; two consents are one and the one that overrides it, and the
second instant is the first one of another second. Four records let a snapshot
of two leave one out, show two and be followed by another. Three requests of the
web API are the two that meet and the one that comes later (a login, a deletion,
a late use of the key), and a second account is the one registered under the
address of the first. Four requests with a limit of two fill a window and find
the next one; the span then holds three, which is the bound.

Deadlock is checked except for the broker, whose table is finite in the model and
may end with every message cleaned and every poll idle, and for the two runs over
services, where every count is bounded (keys drawn, ticks, requests): when all
bounds are reached nothing is left to do, which says nothing of the code.

Fairness. `AgentSandbox!FairSpec` assumes that the interval of a stopped agent
fires: Node runs timers (the interval is `unref`ed, but the servers' sockets keep
the process alive). `MessageBroker!FairSpec` assumes that clients keep polling,
which is what agents do with this interface, and that a poll that was started
goes on: `await`ed statements settle. Failures, lost replies and crashes are not
fair, merely possible. `LLMProxy!FairSpec` assumes that every call of a model
settles (`fetch` has a headers and a body timeout by default) and that a
pipeline then goes on. `BuiltinFairness` assumes that the file system settles
and that the timer of `gatewayRequest` fires, which is not `unref`ed; that the
gateway ever answers is not assumed. No other property needs fairness.

## 4. Proofs

TLAPS checks these for every value of the constants. Assumptions are those stated
with the constants: finite set of requests, natural amounts, a process for every
slot, at least one key or account.

`AuditChainProofs`
- `TypeCorrect`. The type invariant with the link between a suspended call and
  the record it carries (`TInv`): a call about to append carries a record with a
  hash.
- `LinksAlwaysPointBack` and `ReaderGetsAllOrNothing`, for any number of appends
  that are cut short, from `CutInv`. `NewHashes`: a hash about to be appended is
  carried by no other call, is not on file, and was reported to nobody.
  `KnownLinks`: cached hashes, the links carried by calls in flight and the record
  of a call about to resume are of records on a line of their own, or of
  acknowledged ones that were glued to a torn line. `WrittenInv`: while every line
  parses, every acknowledged record is on a line.
- `ForksNeedOverlap`. `SInv`: while no call overlapped, at most one call is
  between its read and its append, and it carries the last hash of the file.
- `Refinement`. With callers that read before they append (`MaxTorn = 0`, no
  `broadcast`), the specification implements `LinkedLog`. `RInv`: what a call
  carries is no older than the last record of its own slot, and hashes on file
  differ from each other and from those carried. Every `AppendFile` maps to an
  `Add`, everything else to a stutter.
- `SlotsNeverFork`. `FInv`: the records of one slot link to strictly later
  places, so that no two of them link to the same one.

`LLMProxyProofs`
- `TypeCorrect` needs `UsedByRounds`: what a request has used is paid for by its
  rounds, so that its history variable stays in its range.
- `OverspendIsBounded`. The bound itself is not inductive: a call under way could
  charge beyond it. `Headroom` keeps, for each call in flight, room for the most
  it can cost. An admission restores the room because the budget was not
  exceeded; an answer uses its share; a new limiter starts from zero.
- `RevocationIsHonoured`. The inductive invariant says, by the step of a request,
  how many calls it can have made without consent: none before the first call, at
  that call one for a stream and none for `process`, and after it one more for
  each tool round.

`AgentSandboxProofs`, for every set of agents and any number of calls in flight,
shutdowns and crashes
- `SandboxTypes`, `RunningIsMonitored`, for any number of processes.
  `MonitorsCover` alone does not say why no interval is cleared twice. `MonitorInv` adds that, until requests overlap
  (`SingleInv`: there is one at a time), an agent has exactly as many intervals as
  it runs, and a start past its check still finds it without an entry.
- `SerialChangesDurable` from `DurableInv` and `FileInv`, for any number of
  processes. `view`, per process, and `acked` are the history: what it has read and
  saved since, and that of the process that saved last. `FileInv` says, for each
  step of the one request in flight, what the object in use, the file and these
  have to do with each other; every process without a request has its view in
  memory. Two processes may disagree for as long as they like, and `acked` goes
  back and forth between them: that is the code.
- `GhostsNeedCrash` from `GhostInv`: an agent that a process has on record as
  running is in its map, was found so (`found`), is being started by a request
  that has written its record and not yet entered it, or stopped by one that has
  removed it and not yet written. While nothing was unclean all views agree with
  the file, which is why one process suffices to run the agent.
- `LedgerKept`: requests that come one after the other (`SerialSpec`) implement
  `AgentLedger`, through every shutdown and crash, in any number of processes.
  What is on record (`OnRecord`) is what the file holds or, while it is truncated,
  what is about to be written. `LedgerInv`: from its change to its save the object
  of a process is one lawful change ahead of its view (`Allowed`, `LawfulEffect`).
  A first load maps to `Read`, opening the file to `Save` or `FirstSave`, the end
  of a write to `Saved`, the end of a process to `End`, and during its write to
  `CutShort`; everything else to a stutter. With requests that overlap the file is
  no ledger (TLC finds it with two first loads): a save carries what another call
  has changed in memory meanwhile, and two texts can mix.

`MessageBrokerProofs`, for every set of messages, clients and agents, every
`LIMIT`, any number of failures and returns
- `BrokerTypes`: a poll is idle exactly when it holds no rows.
- `NoUncontendedCopies` from `OncePerSend`: of a message that was never contended
  at most one poll holds the row; from its UPDATE on, and once it was handed out,
  the row is not pending. Induction showed what the history has to keep: copies
  are counted from the last return, and the return of a message that a poll still
  carries is contention, because that poll's reply hands it out once more.
- `DeliveredMeansReached` from `MarkedInv`: whoever marked a row is about to reply
  with it, or its reply arrived, or was lost. What others acknowledge meanwhile
  only takes rows out of the property's reach, or begins a new delivery.

`KeyStoreProofs`, for every number of keys and callers, with the table and in
memory, across restarts
- The inductive invariant `KeyInv` is needed because a call acts on what it read
  several statements ago. `EntriesInv` is about the store: a key that was not
  drawn has no entry, a key that is dead (revoked, or being retired by a rotation
  under way) is active in neither mode, a key has an entry in one mode only, an
  active one that is past its date carries that date, and the predecessor of an
  issued key is not active. `WaitInv`, `MemoryInv` and `RowInv` are about calls:
  what a call noted when it began, and the row it selected, can be out of date in
  one direction only (good then and dead now, never the reverse).
- A step of one call keeps what the others remember because every action satisfies
  `EntriesStep` and `FreshStep`; there is one lemma per action.
- `KeyTypesCorrect`, `RevocationIsFinal`, `RejectionIsJustified`,
  `SuccessorsReplace`, `ExpiryIsChecked` follow from `KeyInv`.

- `KeysAreLedger`: the store implements `AccessLedger`. A key is valid while it is
  active in either mode, and unissued until it has an entry. That keys only go
  forward is `EntriesStep` again. The row that was selected assures a request of
  its key, although the answer comes a statement later: to select the row of an
  active key maps to `Assure`, to accept it to `Serve`; in memory both are one
  turn (`ServeAtOnce`). All that administrators, failures, cleaning, expiry and
  restarts do is `Manage`, which may end requests and serves none.

`WebApiProofs`, for every number of clients, accounts, keys and resets
- `WebTypesCorrect` and `DeletedNeverServed` from `WebInv`: types; `Flow`, what
  the step of a request says of its other fields; `RowsInv`, owners of keys and
  resets were registered, and a deleted key is not there; `Grounded`, what a
  request remembers still holds. The last says of a request that came too late
  that it is at its first SELECT with a key that is gone or whose owner is, or at
  its second with an owner who is gone. `TablesGrow` (accounts are never
  undeleted, owners never change, a deleted row never returns) carries it over
  the steps of others.
- `TableForksNeedTwo` from `ChainInv`: until two requests overlap, at most one is
  about to insert, and it knows the end of the chain.
- `ResetsSetOnce` from `ResetInv`: a reset is in the table or with one account, a
  request that found it agrees with where it is, at most one request has an
  unraced reset in hand, and one that has set a password (`Spent`) cannot be
  found: it is with no account, and in the table it is used or about to be marked.

- `WebKeysAreLedger`: the web API implements `AccessLedger` too. Here a key is
  valid if its row is there and its account is open, two rows that `authUser`
  reads by two statements. It is the first of them that is mapped to `Assure`, if
  the account is open at that time; should it be deleted before the second, the
  request falls back to asking, and the second statement ends it. Accounts never
  reopen and keys keep their owner (`TablesGrow`), so that the second statement,
  finding the account open, shows that the key was valid at the first. The key
  itself may be deleted in between; the request is then served all the same, and
  the promise says no more.

`StoreProofs`, for every number of records, instants, tenants and plans
- `ConsentTypes`, `RevocationsStay`, `RestartsDecideAlike` from `ConsentInv`. The
  property is about memory, but a load fills memory from the table, and what is in
  the table was sent by calls, also of earlier processes. `IdsInv`: no two
  records, rows or INSERTs have one id. `LoadedInv`: nothing is sent before the
  end of the load, and memory then has every row and every record that is sent.
  `CopiesInv`: a record nothing went wrong with is in the table, or its INSERT is
  on its way, with the same content but for an UPDATE under way. `RevokedInv`: a
  revoked one is withdrawn in memory, and in the table unless its UPDATE is on its
  way. The proof made the model better in two places: the lists are kept per
  kind, as in the code, and a second revocation, which sends another UPDATE, is
  possible.
- `RestartsDecideAlike` then compares `Allowed` over the rows with `Allowed` over
  memory, record by record: the order of rows matters only between records of one
  second.
- `TenantTypes`, `TenantsWithinLimits` from `TenantInv`, tenant by tenant, for every
  table of plans with a largest one (`TenantAssumption`). `RowsInv`: what the map,
  the table, a load and an INSERT under way say of a tenant that is not known.
  `LimitsInv`: a number of tokens within the plan's limit in memory, in the row, in
  the rows loaded and in every statement under way, unless the tenant was entered
  beside its own row or replaced by one. `CountInv`: as long as the sum of what was
  reported can be told, memory has it, and so has the row, unless its write failed
  or was never made, or an UPDATE with that sum is on its way.

`ServicesProofs`
- `BuiltinTypes`, `OneIntervalEach`, `ShutdownStops` for every set of agents,
  starts and checks. `TicksInv`: every interval began a tick and every start under
  way will begin one, counted by the cardinality of the starts. `IntervalInv`:
  until a start of the sentinel began during another there is one, and the
  sentinel is not running meanwhile. `StoppedInv`: what the shutdown left.
- `PipelineTypes`, `BreachesAreLatest`, `VerdictsAreMonotone` for every set of
  requests that have the fields of one (`RequestAssumption`). More points never
  lower the decision of the rules, nor does a stricter mode; the injection guard
  keeps the order of two decisions, the tool policy is monotone in the clearance,
  and so is the composition of the three.
- `StreamTypes`, `StreamDelivers`, `ClosedMeansGone` for every number of clients
  and records. `RecordsInv`: a record is announced at most once. `SnapshotInv`: for
  a client of the audit stream, what it has read, or failed to read, and what it
  was sent since, at each step between the reading and the joining. `ClosingInv`:
  where a client is when its closing is heard.
- `PageTypes`, `ListSkipsNothing`, `CountsOnce` for every size of a page and every
  number of rows and polls. Records of one second have no order of their
  own, so the list is counted by seconds. `PlaceOfSecond`: a place of the answer
  belongs to one second, whichever record is put there. `ListInv`: of a second it
  has passed the list has as many entries as there are records (`Passed`), and one
  for each place it has come to (`Reached`); `NextPageListed` keeps it when an
  answer is appended, also when records were added in between. So a record that is
  missing means that another of its second is listed twice (`TwiceListed`).
  `LoadInv`: the offset is the length of the list, also after a load that failed.
  `LiveInv`: what is shown is a latest set of the records there were (`IsLatest`),
  and the entry it leaves out for one of the same second was counted
  (`LeftForAnother`).
- `RateTypes`, `WindowsAdmit` for every limit, window and number of requests, with
  one after the other. `Windows`: an admission is kept with the end of its window;
  a window has at most `RateLimit` of them, begins with its first, and begins after
  the one before it has ended. `Tells`: what the file says of the admissions, which
  a request that has counted itself is about to make true again (`CountInv`).
  `SpanOfWindows`: the first and the last of `2 * RateLimit` in a row are of windows
  with one in between, or the first begins its window.

Model-checked only: all liveness (`MonitorsDrain`, `PendingTaken`,
`RequestsAnswered`, `StartSettles`), which this prover does not support. Every
invariant, action property and refinement that a passing run checks is a theorem.

## 5. Findings

1. **The chain of one process does not verify** (`audit_stale`). `broadcast()`
   links to the hash it cached at its own last append; `audit()` writes to the
   same file without renewing that cache. `README.md` promises a hash-linked
   chain, `wrapper-server.js:543` a tamper-detectable one; `verifyAuditChain`
   rejects what two calls one after the other have written.
2. **A stop can be overtaken** (`agents_kill`). `startAgent` suspends between its
   check and its entry into `runningProcesses`. A stop in between answers
   `not_running`, and the agent then runs. `agent-sandbox.js:12` promises a kill
   switch that is always accessible.
3. **A broadcast reaches one agent** (`broker_broadcast`). It is one row with one
   status; the first agent to poll marks it delivered for all.
   `message-broker.js:22` promises all agents of the tenant.
4. **Only the last round of tools is charged** (`proxy_cost`).
   `_callLLMWithTools` returns the tokens of its last call, or none at the limit
   of rounds.
5. **Keys in memory never expire** (`keys_expiry`). The map's entries have their
   date in `expiresAt` (`key-store.js:129`), and `authenticateRequest` looks for
   `expires_at` (line 183), which only rows of the table have. `key-store.js:5-6`
   promises expiry, and the map as a fallback.

## 6. Not modelled

- The encrypted audit log, event normalisation, statistics and reports: no state
  that others depend on.
- What the patterns of the safety pipeline match, the decodings and redaction:
  data about texts. Tools added with `registerTool`: the policy is that of the
  built-in table.
- `removeCustomAgent` is a mutation of the registry that the library exports but
  no route calls; the model includes it as a call like the others.
- A second signal during a shutdown; the tunnel of the wrapper; the setup routes.
- The map of tenants in the wrapper's process, and its writes to the same table;
  `isolateSession`, which answers with a copy of the tenant and counts a session.
- The registry's file under requests that overlap is modelled, but nothing is
  promised of it: `SerialDurable` and `ImplementsLedger` are of requests that come
  one after the other.
- The dry run of the proxy: it calls nobody and charges nothing.
- Of the page, every tab but two: most show one answer at a time. The chat tab
  stops at its first message, as `sendMessage` calls `renderMessages` with an
  array and the functions that load conversations do not exist.
- Of the web API: wrappers, heartbeats, chat, statistics, administration.
- The guardian client, the database pool, the website server, installers and
  command line: I/O.

Observed while reading, where no sentence of the repository contradicts the code
or nothing depends on it; the models have the code's behaviour where they reach:

- Streams of the proxy are never charged (`processStream` does not call
  `recordCost`), and its output guards speak after the tokens were sent.
- `sendMessage` gives each attempt a new id; `ttlSeconds: null` expires at once;
  a payload that does not parse fails every poll that selects it.
- `POST /api/messages/clean` is never reached, because the route before it takes
  every path under `/api/messages`. The library's `cleanExpiredMessages` is
  modelled, as a call of its own.
- A rotated key loses its date of expiry, and with the table its successor belongs
  to the default tenant (`old.mysqlAvailable` is undefined).
- The servers import `key-store.js` and `consent-manager.js` before they connect
  to the database, so that both work in memory. `server.js` calls
  `registerTenant`, `generateApiKey` and `revokeApiKey` without `await`. Demo
  tenants are never inserted into the table, the daily token counter is never
  reset, and `concurrentSessions` is never enforced.
- `allow_with_controls` neither executes nor goes to review in `wrapAction`; a
  pattern counts once for each decoding that shows it, where a comment says once.
- Clients of the breach stream are sent audit events and no new breaches; those of
  `/api/live` are not told of a shutdown and keep it from ending by itself.
- The page never sends its dates and types, never stops its timers, and an empty
  search of `search_logs` finds nothing.
- In the web API, `get_audit_log` calls the chain verified if no hash is null;
  `admin_delete_user` reads a variable that is not set; `admin_setup` checks and
  then acts; `update_wrapper` finds by id or uuid and updates by id; a heartbeat
  renews one column and the status is judged by another; confirming an old-style
  reset clears a newer one.

## 7. Plan

What would add most next:

1. `ConsentStore` under `LLMProxy`, in place of the answer of `checkConsent`.
2. The web API's wrappers (creation, heartbeat, status, `connect_wrapper`) and the
   administration, with the page's tabs for them.
3. Custom tools in `SafetyPipeline`.
4. The second process of `TenantStore`, with rows that it writes whole.
