# Scholar Studio in TLA+

These modules model the parts of Scholar Studio whose correctness depends on the order in which things
happen: overlapping gateway calls, database transactions that race, leases that lapse, workers that die.
TLC checks every module on small instances; TLAPS proves the main theorems for every value of the constants.

`PROJECT.json` lists the components, the runs, the properties each run checks, the source lines each
definition translates, the hazards and the theorems.

## The system

Two programs share the repository. The **Scholar Proxy Hub** (`src/services/proxy-hub`) is a FastAPI service
between researchers and Scholar backends: it authenticates a request, charges a quota, forwards it to a
backend over MCP, streams the answer and keeps an audit. **Scholar** itself (`src/scholar`,
`src/scholar_mcp`) parses papers, builds a corpus out of them and serves it to MCP clients.

| component | state it keeps | operations | what is hard | module |
|---|---|---|---|---|
| Backend circuit breaker (`circuit.py`) | per backend, in memory: failures, `open_until`, probe mark | `before_request`, `record_failure`, `record_success` | overlapping calls report late; calls that report nothing | CircuitBreaker |
| Quota reservations (`quota.py`, `mcp_quota.py`) | `quota_windows`, `quota_reservations`, `access_key_usage_windows` | `reserve`, `complete`, `refresh`, reaping | leases that lapse while a call waits, crashes, policies that change | QuotaLedger |
| Enrolment exchange (`enrolment.py`, `session.py`) | `enrolment_tokens`, `dsh_capabilities` | create, exchange, revoke | two exchanges, or an exchange and a revocation, of one token | EnrolmentExchange, OneTimeGrant |
| Token facade and Access Keys (`simple_tokens.py`, `access_keys.py`) | `principals`, `memberships`, `access_keys`, idempotency records | create, rename, rotate, revoke, delete | stale reads written back; unique names; retries | TokenFacade |
| MCP gateway and affinity (`mcp_gateway.py`, `routing.py`, `capabilities.py`) | `mcp_session_affinities`, `dsh_capabilities` | forward, open and end a session, revoke a capability | revocation or re-routing while a body or a backend is awaited | McpGateway |
| Administrative resources (`admin*.py`, `mutations.py`) | tenants, teams, principals, memberships, bindings, policies, idempotency records | create, patch, put, revoke | ETag checks, compare-and-set, replays, grants read before the decision | AdminIam |
| Backend probe and readiness (`backend_probe.py`, `single_lab.py`) | backends, routes | update, rotate, probe, refresh, route | the configuration changes while the probe is awaited; writes that compare nothing | BackendRegistry |
| Operator authentication (`auth.py`) | login states, browser sessions, principals | login, callback, logout | two first logins of one subject | AdminIam |
| Corpus releases and builds (`v2/*builder.py`, `v2/corpus_importer.py`) | releases, builds, snapshots, files | import, build, seal, create snapshot | repeated and concurrent imports, failure between steps | CorpusRelease |
| Serving channel, jobs, pool (`v2/database.py`) | channel row, job rows, pooled connections | activate, acquire | compare-and-set, nested waits | CorpusRelease, RequestRuntime |
| Request runtime (`v2/runtime.py`, `v2/services.py`, `scholar_mcp/`) | permits, pinned snapshot | a call of a tool | permits given back on every way out; the channel moves under a call | RequestRuntime |
| Paper library (`db.py`, `vecstore.py`, `graph_mem.py`, `commands/sync_ops.py`, `kb_update.py`, the enrichment commands) | parsed files, rows, vectors, cached graph, `sync-state.json` | parse, ingest, sync, enrich, graph-build, ... | files overwritten in place while derived stores are made of them, commands that die or fail half way | PaperLibrary |
| Parsers, scoring, console, Lean corpus, scripts | none that is shared | | sequential text processing | none |

Hub handlers call one another only through the database and the circuit breaker. A synchronous handler runs
in a worker thread with one SQLAlchemy session; the gateway's handler is asynchronous and keeps its session
across the network call. PostgreSQL runs the transactions at READ COMMITTED: each statement sees what was
committed before it, an UPDATE re-tests its WHERE clause on the newest row and keeps it locked to the commit.

## The modules

Names follow the code. A guard comes from a condition or an early return, a primed variable from an
assignment or an UPDATE. Variables under "history" in a module's VARIABLES record what happened, for the
properties, and never influence a step of the code.

An operator that stands right before another with the same parameters, and that no formula uses, is that
operator with a fault a programmer could have made. `PROJECT.json` ("mutants") says which property notices it:
put in place of the real operator, each one makes TLC report that property as violated.

### CircuitBreaker

`circuit` is the `CircuitState` of one backend (circuits of different backends share nothing). `call` holds the
calls inside `send_upstream`. `Admits` and `Admitted` are `before_request`, `AfterFailure` is `record_failure`,
`ClosedCircuit` is what `record_success` leaves. Each runs under the lock, so each is atomic; `Enter`, `Retry`,
`RecordFailure` and `RecordSuccess` are the parts of `send_upstream` between two awaits, and `Escape` is the way out that
records nothing (an exception that is not an `httpx.HTTPError`, or a cancelled task).

Time is relative: `cooldown` is what is left until `open_until`.

### QuotaLedger

`window`, `record`, `keyUsed` and `policy` are the tables, `request` is what the gateway does for a request.
One action is one transaction: `Reserve` reaps the lapsed leases of its window, tests both limits in the
conditional UPDATE and commits, with the Access Key's allowance consumed first, whatever the outcome. `Arrive`
is separate because the request's `now` is read before routing. `RefreshLease` is the task beside the stream,
`Settle` is `complete`, which any of the three ways a stream ends reaches in its `finally`. `Crash` is a dead
worker or a handler that leaves without settling.

### EnrolmentExchange and OneTimeGrant

`OneTimeGrant` says what a one-time credential promises, in two actions: a party takes the grant while nobody
has it and it is not withdrawn; the credential is withdrawn. `EnrolmentExchange` is the code: every SELECT of
`create_session` and `revoke_enrolment` is a step, the conditional UPDATE is a step together with what commits
with it. The refinement mapping takes the capability's request for the holder and `revoked` for withdrawn.

### TokenFacade

A Token is a managed principal, its membership and its Access Keys. `principal` and `key` are those rows (the
membership is a field of its principal), `records` the idempotency records, `request` what each handler has
read. A handler is two steps: `Load` is everything up to its decision, with every early return (`Accepts`);
`Commit` is the flush and the commit, one `Commit...` action per handler. Between the two, other handlers
commit. Three things make the stale reads matter, and the model keeps each:

- SQLAlchemy sends only the columns whose value changed since it was loaded, computed from the value loaded
  (`Written`). A rename that loaded a name and assigns another overwrites whatever is there by now; an
  assignment that changes nothing leaves what others wrote.
- Versions are compared with the ETag when loading only (`EtagMatches`), except in `update_researcher`
  (`CommitStatus`) and `update_access_key`. A client sends an ETag it was sent: `listed` holds those of the console's list, which may
  be refreshed at any time, and of the answers.
- `NamesUnique` are the unique columns `managed_name_key` and `active_name_key`. A commit that would break
  them cannot happen; `RollBack` is the 409 or 500 that follows, and also a worker that dies.

`create_researcher`, `create_access_key`, `update_access_key`, `rotate_access_key` and `revoke_access_key` are the
older routes, still mounted, that write the same rows without the names the Token routes keep on them.

### CorpusRelease

One release, its artifact directory and its builds. A command (`worker`) is a process: an import, which goes
`check`, `register`, then for the manifest and each paper `look`, `write`, `verify`, `replace`, and `store` for
a paper, and `seal`; or a derived build, which goes `prepare`, `fill`, `seal`. Each stage is one transaction or
one file operation, and between two stages anything else may happen. `release`, `build` and `rows` are the
tables, `file` and `partial` the directory, `snapshots` and `channel` what is served.

- A build's identifier and its lock are both derived from its kind and the manifest, so both are the pair
  `<<kind, manifest>>`. `Free` is `pg_try_advisory_lock`: the lock lives as long as its command.
- `Raise` is any error. Inside the try of `import_release` and of the builders it leads to `Fail`, which records
  it (or cannot: `FailUnrecorded`, for that error is swallowed); outside it the command just ends (`Recovers`
  says which is which). `Crash` ends a command anywhere, and may leave a torn `.partial`.
- The `.partial` beside a file is shared by all imports, and imports of different manifests hold different
  locks. `contended` records that two of them were past their registration at once.
- Contents are abstract: a paper's rows are the paper and the version of the file that was parsed, a derived
  build's rows are those it read. One content stands for the XML, its projection, chunks, graph or vectors.

Left out: other values of `--artifact-root` (all imports share the default one), a commit whose answer is lost,
and a lock whose connection the server closes while its command goes on.

### BackendRegistry

`backend` and `route` are the rows of `scholar_backends` and of the lab tenant's `tenant_routes`. A request is
`Ask` (its ETag is one the client was sent), a load (`LoadEdit`, `LoadProbe`), for a probe `Observe` (the network
call; what the backend answers is any observation), for the refresh task `Recheck`, and a commit. What separates
the three ways a probe is recorded is what the commit compares:

- the administrator's probe compares the version it loaded (`CommitProbe`), as updates, rotations and routes do;
- the refresh task compares the configuration it probed with that of the row it reads again (`Recheck`), and
  then writes by primary key;
- the console's probe compares nothing (`CommitBlind`, with the columns SQLAlchemy sends in `Sent`).

`proof` (history) is the configuration last recorded as ready. `overtaken` (history) collects the rows a write
without comparison changed over a change it had not seen; the properties are about the other rows.

### McpGateway

`request` is a place in the asynchronous server. `Authenticate` or `Deny` ends the first part of
`forward_scholar_mcp`; `Send` comes after the body was read, with the affinity or the route looked up again
(`Pinned`, `Routed`); `Respond` or `Fail` follow the backend's answer; `Keep`, `End`, `RefuseCollision` and
`Break` are the ways the handler ends after it. The session of SQLAlchemy stays open over both waits, so a row it
has loaded is not read anew: `seen` is that row. `RevokeCapability` deletes the capability's affinities
(`Forgotten`), `Disable` stands for everything that bars a caller for a time. The circuit and the quota appear
here as refusals only; their modules say when they refuse.

### AdminIam

One table of rows with the columns the guards and constraints name. A request takes the three steps of the code:
`Arrive` is `admin_context` and the role check, in a transaction of its own, `Load...` the handler's reads and
refusals, `Commit...` the writes with the constraints that may roll them back. `KeyOf` and `Clash` are the UNIQUE
constraints (two NULLs do not clash in PostgreSQL), `Twins` the row a handler looks for itself; `Unmoved` is the
`WHERE version = ...`, `KeyFree` is `uq_idempotency_operation`. Sign-in (`ArriveLogin`, `LoadLogin`,
`CommitLogin`, `CommitFirstLogin`) and `Logout` write the same table, because a bootstrap subject becomes an
administrator at its first login. Names, slugs, limits and expiry times that no guard reads are left out: a
rename is an edit that keeps everything but the version. The exchange of an enrolment is EnrolmentExchange's.

### RequestRuntime

A caller goes through the waits of `RequestCoordinator.request` (global permit, then the tool's), pins the
snapshot, then takes the steps of `Plan[op]`, each a query that holds a connection of the bounded pool, and the
embedding of the query text, which holds none. `auto_notes` reads its papers in a loop (`NextNote`) that goes on
after a query that failed (`Noting`, `Fail`) and ends with the papers or with the deadline. Every wait has a way
out (`GlobalBusy`, `ToolBusy`, `PoolBusy`), every query may fail, the deadline is looked at where the code looks (`Query`, `Answer`), and `Leave` is the
unwinding of the context managers. `CutOver` is `scholar v2 activate` in another process. Lineage, neighbours
and vector passages resolve a work id a second time without naming the build; what they find is the same id, so
the step reads the pinned build. `cancelled` is never set by any caller. The first check of the deadline in the
services is part of `PinSnapshot`.

### PaperLibrary

A command is a process with the steps of its kind in their order (`proc[p].steps`), the place of the one it is at
(`at`) and the places of those that are to follow (`left`). `StepsOf` lists the steps for all papers; a command
leaves out those it has no use for when it starts (papers that are parsed already, a database that is not there:
`Asked`), and passes over more of them as it learns more (`Without`): papers it cannot read or store, vectors that
are fresh. `file` is a parsed JSON file with its modification time, its text
and whether its metadata were filled in; `row`, `vector`, `graph` and `seen` are what is derived from it. Every
step is a file operation or a transaction, a file that is open for writing is `Broken` until it is saved, and `Die`
ends a command between any two steps. What happens after an error differs from command to command (`StoreFails`,
`LeaveAlone`): a batch goes on with the next paper, a single ingestion raises, a sync notes the paper in its
report. `Content` is what `vecstore.py` makes of a text: title and abstract alone; a text that has neither
gets no vector, and loses the one it had (`List`, `Purge`). A sync needs the database: without one it dies at
`vecstore.py:136` and has stored and recorded nothing, which is `Die` at its first step (a server that
comes back between the rows and the vectors of one sync is not modelled). A graph that cannot be written to its cache
is passed over in silence and leaves the old cache or none (`WriteCache`). `clean` and `rows` (history) say that a
process is a sync that nothing ran beside and nothing failed in, and that it is to store the rows of all files.

Left out: the passage chunks of `rag.py` and the notes (no other step reads them), the arXiv id and the
DOI, which a row keeps when the file has none, the counts of sections, formulas and citations and the path of the
file (`db.py:180-183`), which a command that parses stores and one that reads the file resets, so that `Mirrored`
says nothing of them, the reference sidecar and the Lean file among the inputs of the
graph's fingerprint, and the cache of `_state.py`, which a one-shot command fills and drops. Two writes of one
file never have the same modification time here.

## The runs

| run | instance | shows |
|---|---|---|
| `circuit` | 3 calls, threshold 2, recovery 2 ticks, 1 retry | recovery probes are spaced; calls are admitted again and again |
| `quota` | 3 requests, 2 of them with one Access Key, 3 policies, 2 windows, lease 2 ticks | counters, limits, allowances and leases agree; a refusal has its reason |
| `enrolment` | 3 exchanges, 2 revocations, lifetime 2 ticks | the exchange implements OneTimeGrant |
| `tokens` | 3 requests of 12 kinds, 2 researchers, 2 names, 2 Idempotency-Keys | retries issue one key; a Token that is not renamed has one live key and stays deleted |
| `tokens_deleted` | 3 requests of the console | violated: a deleted Token comes back to life |
| `corpus` | 2 processes, 4 commands, 2 manifests with 1 and 2 papers that share one name, 1 kind of derived build, 2 cut-overs | a sealed build is whole and stays as it is; what is served is sealed; cut-overs replace what was seen |
| `registry` | 3 requests of 6 kinds, 2 backends, 2 credentials, 2 corpora | what is ready or active was found so as it is configured; an ETag names one state |
| `gateway` | 2 requests at a time without end, a capability and an Access Key, 2 backends, 1 session, 1 change of the configuration | sessions stay where and whose they are; revoked sessions are those of late requests; a revoked capability falls silent |
| `admin` | 3 requests, 2 at a time, 2 operators and a subject who has not signed in yet, 2 new rows | retries create once; no lost update; the last administrator stays |
| `runtime` | 3 callers of 3 operations (hybrid search, graph statistics, notes on all papers), 2 permits, 1 permit of a tool, 1 connection, 2 snapshots, one without vectors and graph | permits and connections add up; answers are of one snapshot; every call ends |
| `library` | 1 paper, 3 texts, one of them without title and abstract, a process that syncs or reads the graph, one that ingests in batches | a cached graph is of its files; an undisturbed sync repairs rows, vectors and graph whatever was left |
| `library_seen` | the same with parse, classify and bootstrap, the database does not fail | violated: a file is recorded as seen though its rows are not its own |

Bounds. Three calls are what it takes for a late failure to meet a probe and a newcomer; two retries would
only repeat one. Three requests exceed the tighter policies and just fit the widest; the clock runs past the
end of the first window and past a lease. Three exchanges make a winner and two losers whose reasons differ. A
Token that exists from the start and three more requests suffice for every race of two handlers followed by a
third that profits from it; each request is one operation and ends. `Horizon` bounds the clocks of QuotaLedger
and EnrolmentExchange; when it is reached and every request is answered nothing is left to do, hence
CHECK_DEADLOCK FALSE there and in TokenFacade, BackendRegistry and AdminIam, where all requests may be over, in
the gateway, where every credential may be revoked, and in the library, where every file may have been written as
often as `MaxWrites` allows. Symmetry is used only in runs without liveness properties, over requests, processes,
new rows or contents that no property tells apart.

Two imports of different manifests are what it takes to meet in one directory; four commands allow a failed
import, a rival that seals, a build derived from it and a late retry of the first. The kinds of derived build do
not look at one another, so one stands for both. Two activations make a cut-over that was overtaken.

Three registry requests let a probe load, an administrator change the row and a third request rely on it. A
request of the gateway's may be followed by any number of others, so two at a time with one session meet in every
way: opening, using, ending and losing it. In `admin` two requests race and the third comes before, between or
after them; `MaxVersion` 3 leaves two changes to a row, one to a row whose role was revoked before
(`MaxArrivals` 3 bounds the requests). Three callers for one permit and one connection make a holder, one that waits
and one that gives up. One paper is enough for the library, since no store mixes papers but the graph, and the
graph is a set of what was read of each; opening a file and saving it each count as a write, so four
writes are two parses, a parse and an amendment, or a rewrite that dies and its repair. Two texts to tell apart make a vector stale, and one without content makes it superfluous. Two table transactions (`papers` and one more) stand for the four of `ingest_paper`: a
failure between them is what can go wrong.

Fairness. `KeepsAdmitting` assumes that time passes and that no attempt lasts for ever: the HTTP client has
connect and request timeouts (`app.py`). Nobody has to call, and no attempt has to succeed. In QuotaLedger
time does not pass a due refresh: the refresh task sleeps half a lease, so it may be late by less than the
other half. `RevokedFallsSilent` assumes that a handler that waits for its backend goes on, for the answer comes
or `backend_request_timeout_seconds` is over; a body may be awaited for ever. `EveryCallEnds` assumes that a
caller that is inside goes on and that time passes: permits and connections are waited for with a timeout, statements have one in
PostgreSQL and the embedding provider's client has one, and the deadline, which comes, ends the loop over papers
if they do not end before. All other modules are checked for safety only: nothing
in them has to happen.

## What the runs found

- `tokens_deleted`: a rename that read the principal before it was deleted gives it its name back, and a name
  is all `rotate_token` asks for before it sets principal and membership active. `docs/proxy-hub.md:25` says that
  deletion disables both.
- `library_seen`: a sync records the modification times the files have at its end. A file parsed or amended
  while it ran and a file whose rows could not be stored are recorded as seen, and only `--full` takes them again.

The models also allow what no document of the repository denies, and the properties are worded around it:

- A call admitted before the circuit opened clears the mark of the running probe when it fails late, so that a
  second probe starts once the recovery time is over again (`ProbesAreSpaced` says how far apart they are); a probe
  that leaves `send_upstream` with an exception of another kind leaves its mark, and the backend stays refused
  (`KeepsAdmitting` leaves out these exits).
- The concurrency limit of a tenant counts the leases of the current window only.
- `SealedBuildIsWhole` makes an exception when imports of different manifests were at work at once: they share
  the `.partial` files, and one may move what the other has just written over what it verified.
- The refresh task and the console's probe may write over a change they have not seen (`overtaken`). A rotation of
  the credential leaves an active backend active, unready until it is probed (`ActiveWasProbed` leaves the
  credential out).
- Two creations of one platform role may both insert: its scope is NULL, and NULLs are distinct in a UNIQUE
  constraint. Two administrators may strip each other, each let in while they still had the role
  (`LastAdministratorStays` says that this is the only way).
- A response that opens a session after its capability was revoked stores the affinity all the same. No request
  can use it (`RevokedFallsSilent`).
- Two commands that amend one parsed file at once overwrite each other's fields.

## What is proved

| module | theorems | argument |
|---|---|---|
| McpGatewayProofs, on CircuitBreaker | CircuitTypeCorrect, OpensAtThresholdAlways, OpenForRecoveryAlways, MarkedProbeIsRunningAlways, ProbesAreSpacedAlways | one inductive invariant ties the failure count to the failures since the last success, the cooldown to the time since the last failure, and the probe mark to the call that set it |
| QuotaLedgerProofs | TypeCorrect, WindowConservedAlways, RequestLimitHeldAlways, RefreshedStreamsKeepLeaseAlways, SettledForGoodAlways, LedgerMatchesOutcomeAlways, KeyAllowanceHeldAlways, RefusalsAreJustifiedAlways | conservation is inductive once records and phases agree (an absent record belongs to a request that has not reserved); each transaction moves one request, or a set of lapsed ones, between two finite sets of records, and the counters move by the sets' cardinalities. What a key has used in its period is at least the number of its requests that went upstream in it (`UpstreamCounted`), and the reservation that lets one through keeps that use within the allowance |
| TokenFacadeProofs | TypeCorrect, RetriesIssueOnceAlways, LiveKeysAreNamedAlways, OneLiveKeyAlways, DeletionHoldsAlways | what a request read as revoked is revoked (`DeadStaysDead`); hence every commit, whatever it read, changes the keys in one of two ways (`KeyStep`): each keeps its owner and, while it lives, a name, and at most one is added, under a record that did not exist. Of a Token that was not renamed, the principal, its keys and every request that read it agree on one name (`NamedOnce`), which one key may hold at a time; and what has lost its membership has lost its name, so that no rotation finds it again (`StaysGone`) |
| CorpusReleaseProofs | TypeCorrect, SealedForGoodAlways, ReleaseFollowsBuildsAlways, ServedIsWholeAlways, CutoverReplacesSeenAlways, SealedBuildIsWholeAlways | the lock gives each build one command (`Alone`), and what that command has found out stays true while it works (`Knows`), since it alone writes its build; hence every step either changes no table (`Move`) or writes one unsealed build (`Change`). `WholeInv` follows an import through its papers: the rows stored so far are those of the papers it has passed, and what it has verified stays as it is until two imports have been at work at once, for until then it alone writes files |
| BackendRegistryProofs | TypeCorrect, ReadyWasProbedAlways, ActiveWasProbedAlways, VersionNamesStateAlways | of a row that was not overtaken, whatever a request holds as a copy is at most as new as the row, and agrees with it if the versions agree (`KnowsBackend`, `KnowsRoute`); so a comparing write that finds the version unchanged knows the row, and what it records as ready is the configuration it probed |
| McpGatewayProofs, on McpGateway | TypeCorrect, RevokedSessionsAreLateAlways, SessionsStayPutAlways | a stored session is where it was opened last (`AtHome`): only an INSERT, which fails on a row that is there, says anew whose it is |
| AdminIamProofs, on AdminIam | TypeCorrect, RetriesCreateOnceAlways, EditsReplaceSeenAlways, LastAdministratorStaysAlways | no step deletes a row or changes what it is about (`RowsKept`), so an edit that has passed `NotOneself` when it was loaded still passes when it is committed (`Prepared`), whatever was committed in between; a request that replaces a row and whose caller is an administrator then leaves that administrator |
| AdminIamProofs, on EnrolmentExchange | ExchangeTypeCorrect, OneCapabilityPerTokenAlways, RowAgreesAlways, AcceptedRevocationHoldsAlways, ExchangeImplementsGrant | the version counts the changes of the row, so a request that loaded a version and finds it unchanged knows that nothing happened; the refinement maps `Consume` to `Take`, `CommitRevocation` to `Withdraw` and the rest to stuttering |
| RequestRuntimeProofs | TypeCorrect, PermitsAddUpAlways, AnswersArePinnedAlways | each step moves at most one caller across a counter and changes that counter by one; the queries a call still has to make and those it made account for every projection it wants (`Faithful`, `Needs`), and all are of the snapshot it pinned |
| PaperLibraryProofs | TypeCorrect, GraphIsOfItsFilesAlways, SyncRefreshesAlways, FullSyncMirrorsAlways | two halves. What holds of the sequence of steps of every command (`WellFormed`), by induction over the papers: a step that uses what was read comes right after the step that reads it, a cached graph comes after its fingerprint and two passes over all papers, a sync stores everything before it is done. And what holds of a process at a place of that sequence (`Running`, `Noted`, `Synced`): what it passed over was needed by nobody left; what it has looked at is what the file was when the fingerprint was taken, unless the file is younger by now; each vector, row or graph entry of a sync that is alone is up to date or still to be stored or, for a vector that must go, still to be deleted |

The proofs assume only what the modules state as named assumptions: positive limits and times, a finite set of
requests, a lease of at least two ticks, manifests that list no paper twice. TypeOK bounds clocks and counters
by the constants, never by numbers.

PaperLibrary assumes that `None` and `Broken` are no papers, texts, files, fingerprints or graphs, that the tables' names are
no names of steps, and that the commands are those it knows; nothing is assumed of the number of papers, tables,
processes and writes.

The theorems about the circuit stand in McpGatewayProofs, which extends both modules; they use nothing of the
gateway. Those about the enrolment token stand in AdminIamProofs likewise, beside the other administrators' changes. For RequestRuntime the assumption says that every limited tool is an operation, that limits are positive
and that every snapshot has its relational and lexical build, which `snapshot_builder.py` fills in with one id.

Only model-checked: liveness (`KeepsAdmitting`, `RevokedFallsSilent`, `EveryCallEnds`), which is beyond the prover,
as is ENABLED; and the two violations. Every invariant and every action property of the passing runs is proved.

The one induction over data, over the papers a command goes through with FlattenSeq, is done by hand: the lemma
`Induction` of PaperLibraryProofs says that a set of numbers which holds 0 and every successor is Nat, and is
proved from the well-foundedness of `<`; it takes a set where the library's theorem takes an operator.

`OneLiveKey` and `DeletionHolds` make an exception of Tokens that were renamed. For deletion, `tokens_deleted`
shows why. For live keys: `rotate_token` revokes the key named in its path, live or not, and leaves it to the
unique `active_name_key` to stop a second live key; while a rename moves the live key to a new name, a rotation
of an earlier key that loaded the old name finds it free.

## Plan

1. CircuitBreaker, QuotaLedger, EnrolmentExchange, TokenFacade, CorpusRelease: done; every safety property the
   runs check is proved.
2. BackendRegistry, McpGateway, AdminIam, RequestRuntime: done, likewise.
3. PaperLibrary: done, likewise.

What would come next: abstract specifications for the ledger (an allowance that is taken and given back) and for a corpus
release (an artifact that is published once), shown to be implemented as the one-time grant is.

## What is not modelled

- The parsers of LaTeX, PDF and XML, classification, scoring, citation resolution and ranking: sequential functions
  of text. That they read a parsed file and write it back is in PaperLibrary.
- `lease_job` and `heartbeat_job` of `v2/database.py`: nothing in the repository calls them.
- The OIDC exchange, secrets and digests: cryptography and calls to outside services. What they return is an input.
- Audit rows: they are added in the transactions modelled here and never read by a handler that decides something.
- The research loop, downloads, the Lean export, the console, migrations, scripts and containers: they keep no state
  of their own that another component writes.

`PROJECT.json` lists each with its reason.
