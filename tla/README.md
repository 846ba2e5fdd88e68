# A verification of OwnForge

OwnForge is a set of Go services: `identity` (accounts, logins, sessions), `notes` (snippets, groups, sharing, AI
enrichment) with its `ai-worker` process, a `gateway` that turns HTTP into gRPC, and the packages under `pkg`.
Identity and notes keep their data in Postgres and coordinate through Redis. This directory holds TLA+ models of the
parts whose correctness depends on interleavings, failures and retries, TLC configurations that check them on small
instances, and TLAPS proofs of what holds for every instance. Paths below are relative to `src/`; `PROJECT.json` maps
every definition to the lines it stands for.

## 1. Inventory

### Identity (`services/identity`)

| Part | State | Operations | What is hard | What makes it correct |
|---|---|---|---|---|
| Sessions and tokens (`service/auth/auth.go`, `service/account/user.go`, `store/.../session`) | `users.user_version`, `sso_sessions`, `sessions`; Redis device field, refresh lock, grace answer | Login, ExchangeSSO, RefreshToken, Logout, LogoutAllSessions, ChangePassword | each handler is up to a dozen separate store calls; no transaction but the one of revoke-all; lock TTL; retries within the grace period; cleanup after partial failure | revoke-all is final; a refresh token is spent once; Logout ends its device's session and no other; an ended session stays ended |
| Accounts, registration (`service/account`, `phone_auth.go`) | users, profiles, identities, outbox rows | Register, PhoneAuthEntry, BindEmail, SetPassword, ChangePassword | two first logins with one phone number; unique keys inserted in one transaction; the gateway repeats calls; decisions on rows read earlier | an account is whole and announced once, has one password; a phone finds its owner; retries are safe |
| Phone codes (`store/redisstore/phonecode`, `platform/smsauth`) | a cooldown key; the code itself is kept by the SMS provider | send, verify | sending is not atomic with the cooldown | a code is used once (provider) |

### Notes (`services/notes`)

| Part | State | Operations | What is hard | What makes it correct |
|---|---|---|---|---|
| Snippets (`service/snippet`, `store/entstore/snippet`) | `snippets`: content, group, `sort_order`, `deleted_at`, `updated_at` | Create, Update, Delete (twice = for good), Restore, Move, SetFavorite, SetTags, ListMineFiltered | every handler reads, decides, writes in separate statements; Update writes all columns back; cursors outlive the page | saved edits stay; the trash behaves as answered; pages neither repeat nor skip |
| Groups (`service/group`, `store/entstore/group`) | `groups.parent_id`, `sort_order`; `snippets.group_id` | Create, Update, Delete, GetTree | cycle check and emptiness check are not atomic with the write | a forest, no deletion of a filled group, no dangling reference, a complete tree in the answer |
| AI enrichment (`service/ai`, `event`, `platform/lock`, `cmd/ai-worker`) | Redis Stream with a consumer group and its pending lists, enrich lock, `snippet_ai_metadata` | publish, read, drain, acknowledge, Enrich | one goroutine per publish, redelivery after restart, lock TTL, text loaded before the lock | every saved text ends with its metadata; a worker that starts gets to new messages |
| Sharing, forks, lineage (`service/share`, `service/lineage`) | `shares` with counters, `snippet_lineages` | create (find first), delete, view, fork or import | find-then-insert without a unique key; a fork is several writes without a transaction; the source may be purged meanwhile | one active link per request, no dangling link, exact counts |
| Templates, tags (`service/template`, `service/tag`) | `templates`; `tags`, `snippet_tags` | seed at start, create, delete, use; create, delete, SetTags | instances that start together; a tag deleted between validation and write | seeded once; the tags are those of the last list |
| Uploads; LLM clients | object storage | presign; call | - | - |

### Gateway and packages

| Part | State | What is hard | What makes it correct |
|---|---|---|---|
| Id generation (`pkg/id/snowflake.go`) | last timestamp and sequence under a mutex | clock steps back, exhausted millisecond, cancelled wait, restart, equal node ids | ids are unique and increasing, and carry the node id |
| Gateway (`services/gateway`) | none of its own; JWTs, cookies | it repeats every call after UNAVAILABLE or a deadline | calls are safe to repeat |
| Rate limiters (`pkg/ratelimiter`) | three Redis scripts; samples and in-flight count of BBR | window edges, stamps older than their script, Redis down, panics | limits hold, a pause helps, an overloaded gateway still serves |
| Health and probes (`pkg/health`, `pkg/probe`, `cmd/server/main.go`) | serving status per service | the shutdown against the periodic synchronisation | a stopping server says so |
| Circuit breaker (`grpcclient/breaker.go`) | kept by the library gobreaker | which errors count | - |
| Bus and outbox (`pkg/mq`, `eventoutbox_store.go`) | outbox rows, Kafka and NATS offsets | restarts, a commit past a failed message | every event is handled at least once |
| Configuration, logging, tracing, generated code | - | - | not behaviour |

**How they interact.** The gateway calls identity and notes by gRPC. Handlers of one service meet only in the stores:
they share no memory except the mutex of the id generator and the `singleflight` group of one instance. Notes talks to
the ai-worker only through the Redis Stream `snippet.saved` and the `snippets` table, and the worker answers only by
its metadata row. A registration writes its event into `event_outbox` in its own transaction; Debezium (external)
carries it to the bus. Deleting a group touches snippets, and purging a snippet touches tags and shares, through foreign
keys. Revocation reaches other instances through `user_version` and the session rows, never by a message.

## 2. Modules

| Module | Models | Builds on |
|---|---|---|
| `AuthSession` | sessions and tokens of one account, step by step | |
| `SessionContract` | abstract specification: a session opens once, lives with one token at a time, once ended stays ended | refined by `AuthSession` (checked and proved) |
| `MCAuthSession`, `MCLogoutRace` | instances; the second adds a history of logouts | `AuthSession` |
| `Accounts` | users, identities, outbox rows; registration, phone entry, email and password | |
| `EventBus` | outbox to topic to a Kafka and a JetStream subscriber | `Accounts` |
| `SignUp`, `MCSignUp` | accounts and the bus that announces them, together | `EventBus` |
| `EnrichPipeline`, `MCEnrichPipeline` | stream, consumer group, lock, Enrich | |
| `GroupTree` | groups and filing | |
| `GroupListing`, `MCGroupListing` | the answer of GetTree in every state of the groups | `GroupTree` |
| `Snippets`, `MCSnippets` | edits, trash, order | |
| `SnippetListing`, `MCSnippetListing` | a client that pages through a list while `Snippets` goes on | `Snippets` |
| `Library` | shares, forks, lineage, templates | |
| `Tags`, `MCLibrary` | tags and SetTags, while `Library` purges the snippets | `Library` |
| `Limiters` | the three Redis limiters, one key | |
| `Gateway` | a request through the IP limiter and the overload protection | `Limiters` |
| `Health` | the serving status of a gRPC server, its shutdown and restart | |
| `MCGateway` | instance of the three above | `Gateway`, `Health` |
| `Snowflake` | the id generator | |
| `..._proofs` | theorems, see section 5 | |

A *flight* (in `EnrichPipeline`: the `work` of a goroutine) is the local state of a handler between two store calls:
`pc` names the next call, the other fields are the Go variables that are still used. A store call is atomic, anything
may happen between two of them. Variables and fields commented "history" have no counterpart in the code; no guard
reads them, except that a client presents only tokens it was handed. Definitions commented "Mutant" are broken variants
of the definition that follows; no specification uses them.

### AuthSession

`sso` and `session` are the two tables keyed by the token they were created with; `session[id].tok` stands for
`session_token_hash`. `device` is the Redis hash `user_sessions:<uid>`, `lock` and `grace` the keys of the refresh
lock and of its answer. The row's `version` is the optimistic version that `Rotate` checks: as in the code, the check
(`RotateCheck`) and the update (`RotateWrite`) are two statements, the second one by id alone. Login by password reads
the hash (`LoginReadIdentity`) and the user version (`LoginReadUser`) at different times; `Issue` mints the pair and
writes the Redis field, `Persist` the rows, `Respond` hands the pair to the client. `RefreshToken` is `RefreshStart`
to `UnLock` with all its early returns; `OnError` is where each of its steps goes when its store call fails
(`StoreFails`), including the cleanup of the token just issued. The transaction of LogoutAllSessions and ChangePassword
keeps its rows locked and its writes invisible until `TxCommit` (Postgres READ COMMITTED: an UPDATE waits for the
row). A process may die at every step (`Crash`).

Left out: `singleflight` (callers of one instance get the leader's answer, so each `Proc` is a leader on an instance of
its own, the harder case), the `refresh_token:*` index that nobody reads, phone codes. `SlowHandlers` says whether a
handler may outlive the 5 s TTL of its refresh lock.

### Accounts, EventBus, SignUp

`identity` is the unique index of `user_identities`: owner and credential hash per key (phone, email or username). What a
transaction has inserted and not committed is in its flight (`mine`, `event`); an INSERT of a key that another
transaction holds waits (`Insert`), as the index does. `Commit` makes user, identities and outbox row visible at once. A
`Call` is one Register of the gateway, whose gRPC client repeats it (`LoseAnswer`, `NoAnswer`, up to `MaxTries`): the
lost attempt runs on. `PhoneFind` to `PhoneAgain` is the find-or-register of PhoneAuthEntry. BindEmail, SetPassword and
ChangePassword are a read (`BindRead`, `SetRead`, `ChangeRead`) and a later write.

The bus reads committed outbox rows in order. The Kafka subscriber fetches, handles, commits an offset
(`kafkabus/subscriber.go`); the JetStream one acknowledges or asks again (`natsbus/js_subscriber.go`). Connector and
subscribers may restart at their last saved position and handlers may fail. Debezium and the brokers are external and
modelled by what the code relies on.

### EnrichPipeline

`text` is the content (told apart by its hash), `unsent` the goroutines of `publishSnippetSaved` that have not run,
`stream`/`next`/`pel` the stream, the position of the group and the pending entries of each consumer. A worker drains its
pending entries (`ReadPending`), polls (`ReadNew`), runs Enrich for each message (`Load`, `Acquire`, `Check`, `Upsert`,
`Release`) and acknowledges if Enrich returned no error (`Ack`). The faults of each call are actions of their own. The
LLM call, its prompt and the parsing are one step that succeeds (`Upsert`) or not (`EnrichFails`).
A worker is a goroutine of a process under a consumer name; names are `worker-0`, `worker-1`, ... in every process, so
processes share the pending entries, and one that starts is given messages another has in hand (excuse `shared`).
`Publish` may trim the stream down to `MaxLen` entries: a trimmed entry that is pending comes back `blank` and is
acknowledged unhandled, one that nobody has read is skipped (excuse `trimmed`). The newest entry always survives, so
only a second snippet can push out the last event of the first: the scene with the trimmed stream has two.

### GroupTree and GroupListing

`parent` is `groups.parent_id`; `New` and `Dead` mark ids without a row. `SafeTarget` is the cycle check of Update over
the list it has read, `UpdateQuery`/`UpdateSave` the read and the write inside `Store.Update`, `DeleteCheck`,
`DeleteCount`, `DeleteExec` the three statements of Delete. The foreign keys (`ent/migrate/schema.go`) set references
to NULL on delete and refuse unknown ones. `GroupListing` evaluates the two passes of GetTree, by-value copies
included, in the order `sort_order, name`: `Attached[S]` is the tree after the groups `S`, the first ones of the listing.

### Snippets and SnippetListing

A row is where the snippet is (active, trashed, gone), its text, group, `sort_order` and `updated_at`. Update fills what
the request leaves out from the row it read, and writes every column; Move without an order reads the maximum first;
Delete decides from the row it read whether it trashes or purges; SoftDelete, Restore and SetFavorite are bulk updates
that succeed on no row. `SnippetListing` adds a client that asks for a page, keeps its cursor and asks for the next
one (`Page`: at most `Limit` of the rows behind the cursor, the first ones in the order of the query), in the modes `manual` and `updated_at` (created_at and title are the same query with a key that no request, or only
Update, changes). All stamps come from one clock; answers always reach the client.

### Library and Tags

A row of `share` keeps the counters and, as history, how many views and forks it is owed and how many counts were lost
with their handler. `ShareFind`/`ShareInsert` are the find-or-create of a link; `OpenLink`, `LoadSource`, `CreateCopy`,
`Record`, `Count` the steps of a view and of a fork. A snippet is written, trashed and purged in one step here: what can
go wrong within those requests is the subject of `Snippets`. `Purge` is refused while a share refers to the snippet:
the migrated foreign key has no action (`ent/migrate/schema.go:158`), although the schema asks for Cascade
(`ent/schema/share.go:67`). `SeedCount`/`SeedInsert` are SeedSystemTemplates. In `Tags`, SetTags validates the list
(`TagsRead`) and replaces it in a transaction that locks the snippet (`TagsWrite`).

### Limiters, Gateway, Health

One key of one limiter, chosen at the start. Time passes in `Tick`s and stamps are kept as ages, so that the model is
finite; a caller stamps its request before the script runs (`Send`, `Answer`), so scripts may run in another order. Redis
may be down (`FailOpen`). What has an age (the entries of the sliding window, the history of who was let in) is kept
cumulatively, as the number of those that are so old or younger. `Gateway` adds BBR: `RecordRT` and `OverMaxFlight` are its ring of buckets and its formula
(`bbr.go`), `Check`/`IncrInflight`/`End` the middleware, `Panic` a handler that does not come back to it.

`Health` is `startGRPCHealthSync` of both servers: `TickerFires`, `Evaluate`, `UpdateSets` and the `Select` that chooses
by chance when both the tick and the cancelled context are ready; `Cancel` and `GRPCShutdown` are the shutdown in main.

### Snowflake

`NextID` is one call under the mutex; `back` and `wrap` are the two places where it sleeps in `waitUntil`, `Cancel` its
cancelled context. `Pack` is the shift-and-or of time, node and sequence. `Restart` is a new process: `lastTimestamp` lives in
memory only, so a new life knows nothing of the milliseconds the earlier ones used (`forgotten`).

## 3. Runs

Small values are enough where a property speaks of two requests, because handlers interact only through the rows they
share: two of each actor give every pairwise race, a third token, save or group gives every chain of two steps. Some
runs have *scenes*: each behaviour has one, chosen at the start, which bounds it differently, so that one run asks its
question on several instances and none is larger than it must be.

| Run | Instance | Shows |
|---|---|---|
| `auth` | 2 handlers, 1 login, 1 fault. Scene "sweep": 2 devices, 2 tokens, 1 revoke-all or password change; scene "refresh": 1 device, 3 tokens (a chain of two rotations) | `LogoutAllIsFinal`: nothing a client held before the bump buys a pair that is good after it; `OldPasswordOnlyByOverlap`; `LogoutHitsItsDevice`; `OneSuccessor`: all who present a token get the same pair; `ContractSpec`: the rows implement `SessionContract` |
| `auth_logout_race` (violation) | 2 handlers, 2 tokens, no fault | a Logout that overlaps a refresh answers success and leaves the session alive |
| `signup` | 2 handlers, 2 calls with 2 attempts, 2 phones, 2 emails, 1 username, 2 passwords. Scene "signup": 3 ids, 1 fault; "change": 2 accounts, no fault; "events": 2 accounts, 2 troubles of the bus | `AccountsWhole`, `NoWaitCycle`, `PhoneFindsItsOwner`, `RetriesAreSafe`; `OnePassword`, `ChecksHold`; `PassedOnlyAfterHandling`, and under fairness `AnnouncedInTime` |
| `enrich` | batches of 2, purges, in three scenes: two workers of one process and 1 snippet (saves and restarts together 3, 1 fault); two processes under one consumer name and 1 snippet (2 saves; saves, restarts and faults together 3); one worker, 2 snippets and a stream trimmed to 1 entry (saves, restarts and faults together 3) | `NothingLost`, `StaleOnlyByOverlap`, and under fairness `StartedWorkersPoll`: a worker that starts gets to new messages unless a pending message of a purged snippet holds it up |
| `enrich_retry` (violation) | 1 worker, 1 save, 1 restart | a redelivered message meets the lock of the dead worker and is acknowledged unhandled |
| `groups` | 3 groups, 1 snippet. Scene "races": 2 handlers; "sorts": 1 at a time, which renumbers | `CycleOnlyByOverlap`, `DeletesOnlyEmpty`, `ReferencesOK`; `LosesOnlyLateChildren`: what the tree leaves out |
| `get_tree` (violation) | the same | a group listed after the group it is in is missing from the tree |
| `snippets` | 2 handlers, 2 snippets, 1 group and the inbox, 4 requests beside the creations, 2 instants | `EditsSurvive`, `TrashAsTold`, `AppendsAtEnd`. Four requests are enough for a chain of three trash operations with a fourth racing one of them |
| `snippet_pages` | 1 handler, 3 snippets, pages of 1, 2 requests, 2 instants | `PageOnce`: with equal keys, whatever happens meanwhile, what nobody touches is shown exactly once. Two requests are one that may pass the cursor and one that may remove its row |
| `sharing` | 2 handlers, 3 snippets, 3 requests, 1 fault, in three scenes (links, templates, tags) | `OneLinkPerSnippet`, `LinksNeverDangle`, `CountsExact`, `SeededOnce`, `TagsAsSet` |
| `gateway` | Scene "limits": 2 callers, limit 2 in a window of 3, scripts up to 1 late; "overload": 2 callers, 2 buckets of 2, 2 panics; "shutdown": one server with 2 service names | `LimiterPromise`: no more than the limit in a window (less what may be late), and a pause always helps; under fairness `ServedAgain`: BBR never shuts the gateway for good; `StopIsTold` |
| `snowflake` | 3 ids per millisecond, 2 nodes, 5 instants, 7 ids, 2 steps back, 1 restart | `IncreasingUnlessForgotten`: wrap, wait, a clock that is behind and a new process, in every order; `CarriesNode`: processes with different node ids do not collide |

Several properties have the form "unless two requests overlapped": the history fields mark exactly the overlap (a check
that is outdated when its write happens), so that the property still fails when a sequential request misbehaves. Every
property of a passing run has a mutant in `PROJECT.json`, a plausible slip in the code that makes the run fail.

Bounds on requests, versions, tokens, faults, restarts and the clock are guards named `Max...` or finite constants; the
runs set `CHECK_DEADLOCK FALSE` because a system whose bounds are used up stops, as an idle one may. `gateway` has no
such bound and is checked for deadlock.

What the limiters promise differs, and `LimiterPromise` says so for each: the sliding window lets in at most `Limit`
within `Window` less the delay of a script, because a late script carries an old stamp; the token bucket `Limit`, what
is refilled in between, and what is refilled during the delay of a script once for each window begun; the fixed window renews its expiry with every attempt, so it has no burst at the border, and
a client that keeps trying stays locked out while one that pauses for a window is let in.

**Fairness.** `EnrichPipeline`: weak fairness of each publish goroutine and of each worker's steps, since the Go
scheduler runs a goroutine that can run and the blocking calls time out. `SignUp`: of the connector and of the two
subscribers, which their supervisors restart. `Gateway`: time passes, a handler that runs ends (its calls time out), and
callers keep sending; without requests nothing could be served. Users, faults, expiries and restarts owe nothing.

## 4. What the runs found

* **Logout and refresh** (`auth_logout_race`). Logout finds the row through the token it read in Redis; a rotation in
  between leaves it without a row, which counts as success.
* **The dead worker's lock** (`enrich_retry`). "Lock held" is taken for "somebody is at work", also after a restart
  within the TTL.
* **Children missing in GetTree** (`get_tree`). Nodes are appended by value before their own children are attached.

Stated in the modules or told by a comment, and refuted by TLC on the same instances, without a run of their own:

* `SkippingIsHarmless` (`EnrichPipeline`): the holder of the lock may have loaded its text before the save that is skipped.
* `DrainsThenPolls` (`EnrichPipeline`): the pending list is re-read from ID 0 until it is empty, so a message that cannot
  succeed keeps its worker in the drain for ever.
* `NoCycle` (`GroupTree`): two moves at once make a cycle.
* `IdsIncrease` (`Snowflake`): a call cancelled while it waits for the next millisecond has reset the sequence, so the
  next call repeats an id.
* `OldPasswordOnlyByOverlap` (`AuthSession`) without its exception: a login that checked the old hash may read the new
  version.
* The comment of `kafkabus/subscriber.go:43` (a message whose handler failed is consumed again): the commit of the next
  message covers it; `PassedOnlyAfterHandling` with `taken` alone is refuted.
* The comment of `bbr.go:30` (a bucket counts one slice): a bucket started late in its slice is younger than a window
  one turn later and goes on counting.
* `StopIsFinal` (`Health`): an update under way when the server is told to stop writes SERVING after NOT_SERVING.

## 5. Proofs

TLAPS checks these for all values of the constants, from the named `ASSUME`s of the modules only (markers such as `None`
differ from the values they stand beside, `Group`, `Library`'s `Proc` and `Gateway`'s `Caller` are finite, the ids of
groups and snippets are numbers where they are sorted, a millisecond has at least two ids). The bounds are
assumed numbers; no proof uses their values.

* `AuthSession_proofs`: `TypeCorrect`, `RevocationIsFinal`, `LogoutIsLocal`, `TokensSpentOnce`, `OldPasswordsDie`,
  `ImplementsContract`: every property of the run `auth`. `LogoutAllIsFinal` is not inductive: it
  speaks of minted pairs, but a pair is minted from what a handler read several steps earlier. `IInv` adds that every
  token keeps the version and device it was minted with (`TokensOK`), that rows, Redis fields and grace entries agree
  with the tokens they name (`RowsOK`, `DeviceOK`, `HandedOK`), and that what a flight has read stays true
  (`FlightOK`): versions only grow, rows never vanish, a row's device never changes. The heart of the argument is
  `f.ver <= f.cred`: what a refresh or an exchange works with is never newer than the moment its credential was handed
  out. It needs neither the lock nor its TTL, so these theorems hold for slow handlers and any number of faults.
  `QuietStep` and `DataStep` do the bookkeeping of all 40 steps once.
  `Handover` is the invariant of succession: a flight that works under a lock is its only holder (`Exclusive`); a token
  that is issued and not yet written is unknown to rows, answers and clients and belongs to one flight (`FlightsOK`); no
  two rows hold one token (`RowsDiffer`); and once a successor is alive, no row holds its predecessor, which has no second
  successor (`SpentOnce`). `Exclusive` and `SpentOnce` are claimed while `SlowHandlers` is FALSE, and so is
  `TokensSpentOnce`; the rest, and with it the refinement, needs no lock. `Origins` ties what a login has read to one side
  of a password change and every session to an SSO row that exists; `OldPasswordsDie` follows from it.
* `GroupTree_proofs`: `TreeTypeCorrect`, `ForestUnlessRaced`, `DeletionIsSafe`, `ReferencesStand`. A successful walk
  leaves a set of groups that contains the target, not the moved group, and is closed under parents (`Separated`);
  creations, deletions with their SET NULL and moves to the top keep such a set closed, only a move below a group may
  break it, and that marks the flight stale. A cycle is a set of groups each of whose parents is in the set (`Island`),
  so no induction over paths is needed.
  `TreeLosesOnlyLate` is about what GetTree computes, in any state of the tables. The recursion of `Attached` over sets
  is unfolded by induction in the form the provers can use: the sets for which a claim fails have a smallest cardinality
  (`MinExists`), and the claim holds for a set if it does without the group listed last. Two claims are enough. A group
  outside a set that holds the late groups and is closed under children is never lost: some copy of it is in a group that
  is still to be attached, or already below the roots (`Held`). And no late group is shown: what a copy or the roots hold
  hangs together without one (`Sound`).
* `Snippets_proofs`: `SnippetsTypeCorrect`, `SavedEditsSurvive`, `TrashIsAsTold`, `MovesAppend`. What each request has
  read (the columns Update will write back, where the snippet was, the maximum of the group) stays true while it runs,
  or the request is marked stale (`EditOK`, `TrashOK`, `AppendOK`). Every write changes one row and is shown, by the one
  lemma `WriteStep`, to leave the readings of all other requests true or to mark them.
  `PagesShowOnce` is the property of the walk. Its invariant says that the cursor divides the untouched rows into those
  shown once and those still behind it (`CursorDivides`). The order of the query and the condition on the cursor are the
  same total order, so that the last row of a page leaves nothing between itself and the next one; a row that is written
  leaves the claim with the write, and no other row can move. The property has
  a second half that is easily forgotten: an untouched row that did not match at the start is never shown.
* `Library_proofs`: `LibraryTypeCorrect`, `OneLink`, `NoDanglingLink`, `SeededOnceOnly`, `EveryVisitCounted`; with the tags
  beside it `TagsTypeCorrect`, `ListsReplace`, `LibraryBesideTags`. A Create that nobody has overtaken still finds no active
  link (`FoundNone`), a seeding no system template (`CountedNone`), and an opened link keeps its snippet (`LinkKnown`); an
  insertion marks exactly the flights it overtakes. `Frame` collects what most steps have in common: they only take links
  away and change no flight that matters. The counts are kept by bookkeeping (`Counting`): a step changes what its handler
  has still to count and what the row of that link says by the same amount (`Balance`), and nobody has used a link that is
  just made. For the tags it is enough that a list names only tags that were made, and that a purged snippet stays so.
* `Snowflake_proofs`: `IdsTypeCorrect`, `IdsAreUnique`, `IdsCarryNode`. An id is at most the pair (last timestamp,
  sequence) packed, in a wait for the next millisecond below that millisecond, or else below the milliseconds that were
  forgotten in a restart (`Bounded`). The arithmetic of shifts is a handful of lemmas on products and remainders.
* `Accounts_proofs`: `AccountsTypeCorrect`, `WholeAccounts`, `NoDeadlock`, `OnePasswordEach`, `ChecksStand`,
  `PhoneSignsIn`, `SafeRetries`. `IInv` says of each request at which stage it is, with which of its keys inserted and
  which still to come (`Stages`), that what it has read of other rows is still there (`Known`), that two open
  transactions hold different keys and ids (`Apart`), who owns what is committed (`Owned`, `Announced`), and which
  attempt of a repeated call made which account (`CallsTied`, `Makers`). No cycle of waits: every registration inserts
  phone, email, username in this order, so among the waiting the one that waits for the latest kind of key waits for
  a transaction that waits for nobody.
  With the bus beside them: `SignUpImplementsAccounts` (every step of the composition is a step or a stutter of
  `Accounts`, so all its theorems hold there), `WholeAccountsOnTheBus`, `SignUpTypesCorrect`, `NothingPassedUnhandled`
  (every position up to the offset was taken, has failed, or is the one in hand, which is not committed).
* `EnrichPipeline_proofs`: `PipelineTypeCorrect`, `NoEventLost`, `StalenessHasACause`. `IInv` has five parts beside the
  types: a worker that is not reading has a message in hand, and in Enrich a text (`Handled`); what it has read is pending
  under its name and in no other hand, unless that is noted as shared (`Owned`); two workers on one snippet are noted (`OverlapsNoted`); a snippet without metadata has an event that is still to come or stays pending
  (`NoneLost`); one whose metadata lags, or will by what a worker holds in hand, has such an event whose handler has not
  loaded an old text (`LagNoted`). The steps fall into three classes (outside the workers, a worker's turn that changes no
  table, a worker that carries something over), each with a lemma.
* `Gateway_proofs`: `LimitersKeepPromise`, `GatewayTypeCorrect`, `CountLeaksByPanics`, `StoppingIsTold`. A promise over a
  stretch of time is not inductive; what is, is how the key accounts for those who were let in (`LimitersIInv`). A fixed
  window counts at least those of its last window (`FixedOK`). Whoever a sliding window has let in has an entry that is at
  most `MaxLate` older, until the key expires with nobody left to count (`SlidingOK`). A token bucket has a stock, its
  tokens and what its last stamp is behind (`Stock`): a script never adds to it and takes one window's worth from it for
  each it lets in, a tick refills it, and only an expired key makes it full again, which costs a quiet window (`BucketOK`).
  A bound with one delay for the whole stretch would be false, although it holds in the instance of the run: TLC refutes
  it for a limit of 3 in a window of 3 with a delay of 1, since every expiry, or refill to the brim, forgets how late the
  last stamp was. `LimitHolds` therefore allows one delay for each window begun.
  `OnlyPanicsLeak` is exact: the count in flight is the number of requests being served plus the panics, whatever the
  limiter, the check and the samples do. For `StopIsTold`, what a synchronisation is about to write matters only once
  main has been told to stop; from then on either no update was under way, and none starts, or it is noted
  (`ShutdownOK`).

Only model-checked: the liveness properties `AnnouncedInTime`, `StartedWorkersPoll` and `ServedAgain`. They need fairness, hence
ENABLED, which no installed prover handles; every other property that a passing run checks is a theorem. The three
runs that expect a violation have nothing to prove.

## 6. Not modelled, and the plan

Next, in this order:

1. Abstract specifications of a share link (open, counted, revoked) and of a walk through pages, with the proofs that
   `Library` and `SnippetListing` implement them.
2. Validation of titles, languages and names, and the sort modes the list of snippets still lacks.

Not modelled, with reasons in `PROJECT.json`: the circuit breaker (its state machine is a library), phone codes (kept by
the SMS provider), request decoding, HTTP and gRPC wiring, uploads, LLM clients and the offline evaluation tool,
configuration, logging and tracing. They keep no state of this code whose steps could interleave. Four fifths of the
repository's lines are generated by ent and protoc; the map covers none of them, because every query that a model needs
is mapped to the store that calls it.
