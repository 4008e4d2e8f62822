# bp-backend-express in TLA+

A TLA+ model of the Express boilerplate in this repository: what is in MongoDB
while processes boot, sync, crash and serve, what a request may meet on its way
to a handler, what a process does with its clients, requests and jobs from
start to exit, how a module's routes are built and the modules ordered, what
the rate limiter lets pass, what soft deletion leaves in a document, and what
the cache promises. TLC checks the models on small instances; TLAPS proves
the central safety properties and two refinements for every instance.

## 1. The system

| part | state | operations | talks to |
| --- | --- | --- | --- |
| route builder (`packages/acl/define-routes.ts`) | a tree of scopes and the routes in it | `use`, `param`, `prefix`, `root`, `require`, the methods, `finalize` | called once per module, at import |
| route table (`modules/*/routes`) | the `RouteRecord[]` of a build | constant after the import | read by the sync and by the mount layer |
| module ordering and init (`lib/modules.ts`, `types/module.ts`) | the order of `config.app.modules` | sort by `depends` and `priority`, `initModules` runs each `onInit` and swallows rejections | core's sync |
| resource registry (`modules/core`) | the `resources` collection and its unique `(method, path)` index | boot sync (one ordered bulk of upserts), background index build, `enable`, `disable`, `softDelete`, `restore` | MongoDB; read by every request |
| soft-delete plugin (`packages/mongoose/plugins`) | `is_deleted`, `deleted_at`, `deleted_by` of every document | query hooks, instance and bulk deletes and restores | every model |
| access control (`lib/access-control.ts`, `config/app.config.ts`, `config/roles.definition.ts`) | the merged ACL, `req.auth` of a request | `authenticate`, `checkResourceEnabled`, `authorize(rai)` | registry |
| request pipeline (`lib/express.ts`, `packages/acl/mount-routes.ts`, `lib/error-handler.ts`) | where each request is | edge middleware, matching, guards, handler, `next()` | registry, access control |
| process lifecycle (`Application.ts`, `worker.ts`, `lib/bootstrap.ts`, `lib/http.ts`, `lib/shutdown.ts`, PM2) | stage of a process and which clients are open | ordered boot, signals, drain, forced exit | MongoDB, Redis, BullMQ, SMTP |
| queue and mailer (`lib/queue.ts`, `lib/mailer.ts`) | jobs in Redis, handlers, the SMTP transport | enqueue, dispatch, retry, deliver, close | Redis, SMTP |
| cache (`packages/cache`, `lib/cache.ts`) | entries with an expiry | `get`, `set`, `del`, `wrap` | Redis or a `Map` |
| rate limiter (`lib/security.ts`) | a counter per client and window | count, pass, reject, choice of store at import | Redis or memory |
| JWT helpers, i18n, email rendering, env, logging, banner, envelope | none that changes after start | pure functions and output | - |

What is hard in it:

* the registry is written by the boot of every release, by a background index
  build, and by operators who save copies they loaded some time ago; the bulk
  of a sync is not atomic and stops at the first error or with its process;
* every request reads the registry and acts on what it read after an `await`;
* only PM2 instance 0 syncs, the others serve without waiting for it; a reload
  starts a new instance 0 while the old one still serves or syncs, of the same
  release or of another, over the one collection;
* a route may be reached by the `next()` of another route;
* signals arrive at any point of the boot, of a request or of a job, and the
  forced exit, PM2's kill and crashes race the drain, which waits for connections
  but not for the handlers whose clients have left;
* a mail's job outlives its process: it is retried after a rejection and after a
  process that died, which cannot know whether the mail went out;
* the route builder's calls come in any order, and what is handed down to a
  route is settled only at the end;
* `wrap()` awaits between its look-up, its producer and its `set()`, and the two
  cache classes keep different things: text, or the caller's own object;
* a document is deleted and restored through copies that may be stale, while
  bulk operations reach it at some moment of their own;
* the limiters choose their store while the process imports its code, and count
  in windows that begin with a client's first request.

What makes the parts correct, in words; the properties are in section 4:
the index is never violated; a completed sync stays mirrored until another one
writes; nobody but an operator flips a switch; a boot ends; a handler runs only behind all its
guards; the gate looks like a board of switches read once per request; no job,
and no handler that a client waits for, finds a client of its process closed; a
process told to stop is gone after a while; mails are sent, resent and given up
for a reason; a route's stack is what the declarations say; two caches of
different classes cannot be told apart by calls that both can serve; a deletion's
actor and date are its own; no client gets more than two limits around the end of a window, and none is turned away for less than one; a
module's hook is called after those it depends on.

## 2. Modules

| module | models | how |
| --- | --- | --- |
| `RouteTable` | `RouteRecord[]`, `createApp`'s and `mountModuleRoutes`' order | constants and operators. A `(method, path)` pair is one value, an *endpoint*; a path pattern counts by the requests it matches (`UrlsOf`) |
| `AccessControl` | `resolveModulesACLs`, `authenticate`, `createAuthorize` | operators on a caller and a RAI |
| `ResourceRegistry` | core's `onInit`, the Resource model, the soft-delete operations on it, `initModules`, `connect` | state machine |
| `ResourceRegistryProofs` | | theorems about `ResourceRegistry` |
| `Switchboard` | what the DB-backed toggles promise a request | abstract specification |
| `RequestGate` | a request through the Express stack, over `ResourceRegistry` and `AccessControl` | state machine, and the refinement of `Switchboard` |
| `RequestGateProofs` | | theorems about `RequestGate` |
| `Lifecycle` | `Application.ts`, `worker.ts`, `bootstrap`, `http`, `shutdown`, `queue`, `mailer`, with PM2, BullMQ and the SMTP server around them | state machine |
| `LifecycleProofs` | | theorems about `Lifecycle` |
| `RouteScopes` | `defineRoutes()`, its scopes, `finalize()` | state machine of the calls; `finalize` as recursive functions |
| `RouteScopesProofs` | | theorems about `RouteScopes` |
| `Cache` | the `Cache` interface and `wrap` | abstract specification |
| `CacheStores` | `RedisCache` and `MemoryCache` | state machine, and the refinement of `Cache` |
| `CacheProofs` | | theorems about `CacheStores` |
| `SoftDelete` | the soft-delete plugin | state machine of some documents, handlers and bulk operations |
| `SoftDeleteProofs` | | theorems about `SoftDelete` |
| `RateLimit` | the global limiter of every web process and its store | state machine with time |
| `RateLimitProofs` | | theorems about `RateLimit` |
| `ModuleInit` | `sortModulesByPriorityAndDependencies`, `initModules` | state machine; the recursion's call stack is a variable |
| `ModuleInitProofs` | | theorems about `ModuleInit` |
| `AppTable` | the routes and ACLs of `categories`, `users` and `core` | values for the constants |
| `MC*` | | instances for TLC, and the statements the repository's own texts make |

### ResourceRegistry

| variable | in the code |
| --- | --- |
| `resources` | the collection; a document keeps its endpoint, `is_root`, `is_enabled`, `is_deleted` |
| `indexed` | the unique index of `resource.model.ts:54` exists in MongoDB |
| `deployed` | the build a starting process runs |
| `proc[i]` | a web process: its phase, its release, the operations of its bulk that MongoDB has applied, the outcome `initModules` logged, and whether its background `createIndex` is unanswered |
| `held[o]` | a Resource document in some caller's memory |
| `crossed[i]` | history: the releases whose syncs wrote to the collection while process `i` was up |

`Instances` are processes, not PM2's numbers: `SyncInstances` are those whose
number is 0. Under `pm2 reload` two of them overlap, so any number may, each with
a release of its own, and each may boot at any moment of the others.
`MirrorComplete` therefore says for how long a finished sync holds: its last
routes stay mirrored until another process writes, and each RAI stays mirrored by
one of its routes until another *release* does (two bulks of the same release
that run side by side agree except on which of several routes of one RAI wrote
last).

`SyncOp`, `SyncConflict`, `SyncLost`, `SyncDone` are one `bulkWrite`: MongoDB
applies an ordered bulk operation by operation, and others see the collection
in between. A rejected bulk is swallowed by `initModules`, so every outcome leads
to `serving`. The upsert's filter is the `_id` alone (no soft-delete hook runs in a
bulk), so a soft-deleted resource is updated like any other. A mongoose
`save()` sends only the paths changed since the load (`SavedEnabled`,
`SavedDeleted`).

Abstractions: `initI18n`, `createApp` and `listen` after the sync are part of
`Serving`; a bulk stops when its process does (MongoDB may finish a command whose
client is gone: a longer prefix of the same bulk, as if the stop had come
later); `updateMany` is applied one document at a time; `deleteOne` is not
used by anything in the repository and is left out.

### RequestGate

`request[q]` is a request: `edge` (before any route), `lookup`
(`Resource.exists` is awaited), `found` (answered: `authorize` and the rest of
the route run without another read of the registry), `answered`. `Edge` and
`FallThrough` use `PassedOn`, which is Express's `next()`: any route may pass a
request on once its guards let it through, with a handler or without, since
middlewares and handlers are given `next`. A handler's own
`await`s, validation errors and thrown errors all end in `answered` with the
answer `route`: what the properties ask is whether that code ran at all.

### Lifecycle

| variable | in the code |
| --- | --- |
| `stage[p]` | where a process is in `start()`, or in `gracefulShutdown` and `closeInfra` |
| `open[p]` | which of mongoose, Redis, the queue, the mailer, the worker and the HTTP server it has open |
| `elapsed[p]` | time since its signal: the forced-exit timer and PM2's `kill_timeout` |
| `req[r]` | the process in which the request's handler runs |
| `gone` | the requests whose connection has ended while the handler still runs |
| `job[j]` | a mail's job in Redis: its state, the process working on it, its failed attempts, its stalls, and how often the SMTP server accepted it |

The order of `open`'s changes is `bootstrapInfra`'s and `closeInfra`'s. What the
code does without yielding is one step: `initCache`, `setupQueue`, `initMailer`
and `startWorker` after Redis has connected; `closeMailer` after the queue. The
signal handlers are installed just before `listen()` in a web process and after
`bootstrapInfra()` in a worker; before that a signal kills, and between
`listen()` and the open port `server.close()` rejects, so that `closeInfra` is
skipped. A second signal finds the shutdown under way.

A request's connection and its handler end separately. `Leave` is a client that
goes away, or has its answer while the handler goes on; `Respond` ends the handler.
`server.close()` waits for connections (`Serves`), not for handlers (`Handles`), so
`closeInfra` may run beside a handler that was left.

A job is retried on a rejection (`attempts` of `defaultJobOptions`) and given to
another worker when its process is gone (BullMQ's stalled check). The outcome of
an SMTP transaction may be lost after the server accepted it.

Abstractions: mails with `queue` off are deliveries inside a request and add
nothing to the states; BullMQ's lock renewal is not modelled, so that a live
process does not lose its job; the backoff is any delay; several jobs per worker
are several `Mails`.

### RouteScopes

`scopes` are the groups in order of creation, the first the registry itself;
`routes` the routes in order of declaration. A handler is the number of the call
that registered it, so that a stack tells who put what in it; a path is the
sequence of its parameter names. Paths are given with their leading `/`, as
everywhere in the repository: joining is concatenation. `validate()` and `use()`
of a route append to the same array and are one action. `InheritedUses`,
`InheritedParams` and `InheritedRoot` are what `finalize()` hands down,
`Subtree` its order of traversal, as numbers of routes, and `Flattened` the table.
A scope's `Map` of `param()` handlers is a function of all names, `NoHandler` where
there is none. The reference definition, `Declared`, says what each route's stack
should be from the list of calls alone: the calls of the enclosing scopes, put
in order by counting what comes `Before` each.

### Cache and CacheStores

`call[c]` is a call under way and the `await` it is at. A value is the version of
what its producer computed it from, so that staleness can be told. `Form` says
what JSON makes of it: an object it keeps (`plain`) or changes (`rich`: a Date in
it), `null`, or `undefined`. `answer[c]` is what the caller's last call returned: the
producer's own value (`fresh`), JSON's copy of what is stored (`copy`), and, outside
the contract, the object as it was given (`given`), the object after one of its
holders changed it (`changed`), or a rejection by the class itself (`refused`).
`changed` holds the keys whose object in the `Map` somebody has changed: whoever
stored it or got it has the same object (`Mutate`). `dropped` and `raced` are history
variables: the version at the last `del()`, and whether an older value was on
its way to `set()` at that time. `Visible`, the refinement mapping, is what a
caller can still read of `entries`: an expired entry is absent whether or not
Redis has evicted it or a look-up has dropped it from the `Map`.

The contract hands out copies: a `get` of `null` or `undefined` is a miss, and of
anything else JSON's copy. `RedisCache` differs where it cannot do what is asked
(`Refused`): what ioredis stores for `undefined` is no JSON and every `get` of it
rejects, and Redis rejects an `EX` that is not whole seconds (`WholeTtls`).
`MemoryCache` differs where its object is not what the copy would be
(`MeetsObject`): a Date, `undefined`, which its `wrap()` takes for a hit, or an object
that was changed. `ImplementsCache` excepts exactly these calls (`Differs`), and
lets them do nothing but end; section 6 has what the repository's texts say.

Abstractions: the key prefix (keys are compared only with each other); values
JSON cannot write (cycles, BigInt), for which `RedisCache.set` rejects; one object
stored under two keys; and the loss of a `Map` when its process ends, which is a
cache of its own for each process. A Redis command may be lost before or after
it took effect; either way the call rejects, `wrap()` included. The contract lets
any call reject for such a reason.

### SoftDelete

| variable | in the code |
| --- | --- |
| `doc` | `is_deleted`, `deleted_at`, `deleted_by` of each document in MongoDB |
| `copy` | the document a handler or a job has in memory, with the marks it was loaded or last saved with |
| `bulk` | the `updateMany` it awaits: its patch, its filter, and the documents MongoDB has still to come to |
| `issued` | history: the actor of each `softDelete()`; the n-th one's `deleted_at` is n |
| `stale` | history: documents last saved through a copy that was no longer up to date |

`Selected` is the `excludeDeleted` hook together with the caller's filter:
targeting `is_deleted`, `.withDeleted()` and `.onlyDeleted()` change what it
finds. It is evaluated when MongoDB comes to the document, which is why a bulk
`softDelete()` does not overwrite a deletion that came in between. `Saved` is
Mongoose's `save()`, which sends only the paths that `set()` changed; no query hook
runs for it. A bulk may stop half-way.

Abstractions: two `softDelete()` calls never read the same time (with equal
times the dates could not be told apart); documents from before the plugin,
without the fields, count as live, as `$ne: true` treats them; a `save()` that
rejects ends the use of that copy, and is then as if it had not been called or
as if its answer did not matter; other fields are independent of the marks.
A hard delete removes a document and its marks together.

### RateLimit

`proc[p]` is a process: its stage, whether its Redis client is connected, and the
store its limiter was built with. `hits` are the counters of each store,
`admitted` (history) the times at which a process, since its start, let a client
pass. `Import` is the evaluation of `lib/security.ts`, which `lib/express.ts`
imports and `Application.ts` imports that, so it precedes `bootstrapInfra()` in
every process; `StoreFor` is `makeStore()`. `Counted` is the fixed window of
express-rate-limit's stores: the first request after the end of a window begins
the next one, and requests that are turned away count.

Abstractions: the limiter for authentication is built the same way and attached
to no route; a client is what `req.ip` says; the counter's `resetTime` is an exact
time; a Redis client that drops after the boot changes nothing, as the store is
never looked at again; the limit is at least 1.

### ModuleInit

A frame of `stack` is a `visit()` under way and the dependencies it has still to
visit; `ordered` is what the sort has pushed; `verdict` tells how it ended; `hooks`
how each `onInit` did. `depends` and `priority` are chosen freely at the start.
The loop over all modules takes them in the order of the stable sort (`First`).
Dependencies of one module with equal priority are visited in the order of its
`depends` list, which is a set here: the model allows any order.

## 3. Runs

| run | bounds | shows |
| --- | --- | --- |
| `registry`, reload | 2 processes that both sync, at any overlap, 2 releases, 2 RAIs, 2 endpoints, 1 operator at a time with a copy of 1 resource | `TypeOK`, `UniqueOnceIndexed`, `MirrorComplete`, `TogglesSurvive` |
| `registry`, operators | 1 process at a time, 2 operators with copies of 1 resource, the rest as above | the same |
| `gate_access` | 2 processes that both sync, 2 releases in two mount orders, 2 URLs, all callers of 2 role names, 1 request | `GateTypeOK`, `GrantedPath`, `SyncedReleaseKnown` |
| `gate_board`, requests | 1 process of 1 release, 1 operator, 1 request | `ImplementsBoard`, `EveryRequestEnds` |
| `gate_board`, boots | 2 processes, one of them not syncing, 2 releases that swap two endpoints | `BootTerminates` |
| `app_registered`, `app_endpoints`, `app_public` | the shipped routes and ACLs | violations, section 6 |
| `registry_moves` | 2 processes, 2 releases, 2 RAIs, 3 endpoints, 1 operator | violation, section 6 |
| `lifecycle` | 1 web process with an inline worker, 1 worker, 1 request, 1 mail; 3 faults; 3 attempts, 1 stall; a unit of time is 10 s: forced exit and web kill after 1, worker kill after 3 | `TypeOK`, `InfraWhileWorking`, `MailAccounted`, `SignalledStops`, `MailSettles` |
| `job_kill_timeout` | as `lifecycle`, but 1 fault: the signal | violation, section 6 |
| `imports`, routes | 5 calls of the builder, 2 parameter names, 3 paths, a granted and an ungranted RAI | `TypeOK`, `TableAsDeclared`, `MisplacedReported` |
| `imports`, modules | every `depends` of 3 modules over themselves and an unknown name, 2 priorities | `SortTypeOK`, `OrderSound`, `VerdictRight`, `PriorityBorrowed`, `BootReachesHooks` |
| `imports`, limiters | 2 processes, 1 client, a limit of 2 in a window of 2 units, time up to 5, 4 hits counted in a window | `RateTypeOK`, `BurstBounded`, `RefusedForCause` |
| `limit_shared` | the same limiters alone | violation, section 6 |
| `stored`, cache | both classes, 1 key, 2 callers, no ttl, one of whole seconds and a fraction (2 units are a second), 4 versions, one of each form, time up to 2 | `TypeOK`, `InvalidationHolds`, `ImplementsCache` |
| `stored`, marks | 1 document, 2 handlers, 1 actor and none, 2 deletions | `MarksTypeOK`, `MarksAgree`, `FlipsTakeEffect`, `DeletionRecordKept` |

`registry` and `gate_board` each check two instances of one module, `imports` and
`stored` each follow several modules that share no state: `part` chooses at the
start which of them a behaviour is about. The parts of `gate_board` leave out only
steps without fairness (who boots, deploys, loads or sends a request), so the
liveness properties are asked of the same fair steps as in the whole.

The registry and the gate are unbounded only in the bulk's cursor, which the table
bounds. `Lifecycle` counts its faults (`MaxFaults`), `RouteScopes` its calls
(`MaxCalls`), `CacheStores` its versions and its time (`MaxVersion`, `MaxNow`),
`SoftDelete` its deletions (`MaxDeletions`), `RateLimit` its time and the requests
it counts in one window (`MaxNow`, `MaxHits`), in the guards; no run
needs a state constraint. Two releases are enough for a move of an endpoint in
either direction; the second binds one RAI twice, as the shipped table does.
Two processes give a syncing and a non-syncing instance, or the old and the new
instance 0 of a reload; in `registry` and `gate_access` they are
interchangeable, which their symmetry uses, as are the operators of `registry` and
the callers of `stored`. One operator with one copy gives a stale copy against
syncs and bulk patches; two are needed for a copy that is stale against
another's save. Requests do not act on each other or on the registry, so one
request against all interleavings of the rest is enough.

Three faults are a signal, a crash of the process that took over, and a failed
close or attempt; more repeat these. An inline worker and a worker process are
the two kinds of consumer, and the second is what a stalled job needs. (PM2's
environments set `WORKER_INLINE` to false; inline workers run beside others in
development. With the same deadline for the forced exit and PM2's kill of a web
process, that instance allows no more than both alone.) Five calls
are a group in a group, a route, a `param()` or `use()` on either and one more
after them; two names tell an overridden handler from another name's. One key is
enough because no operation relates two; two callers are a producer and whoever
interferes; time 2 lets an entry of either ttl expire and its successor be stored.
Three modules make chains, forks, and cycles that do not reach the first one;
two priorities make ties and inversions. A window of two units tells a request
at its start, in it and at its end, and five units are three windows; the 2 *
Limit + 1 requests of `BurstBounded` fit. Clients share no counter, and processes
only if their stores were shared. Two deletions are a record and what may overwrite
it; two handlers, each with a copy and a bulk, are the writer and the one whose
copy is stale.

### Fairness

`BootsGoOn` is weak fairness of `InitModules(i)`: the boot is one chain of
awaits on MongoDB commands that return or fail. `SyncLost`, `Stop`, `Deploy`
and the operators are under no fairness. `FairGateSpec` adds weak fairness of
`Handle(q)`: the event loop runs what is ready and the MongoDB client settles
every query. `gate_board` assumes both.

`Lifecycle`'s `FairSpec` assumes weak fairness of `Starts(p)`: PM2 restarts what
exits and connection attempts end; of `Deadline(p)`: Node's timers fire; and of
`Deliver(j)`: BullMQ hands out waiting jobs and an SMTP transaction ends. There
is none on `Leave`, `Respond`, the closes, signals or faults: a client may
keep its connection, a handler may never end, and a close may hang, which is what
the forced exit is for.
`MailSettles` holds for finitely many faults only; a process that dies each time
it takes the job stalls it once too often, and then it is given up.

`ImportSpec` assumes weak fairness of the sort and of `initModules` (`SortStep`):
the sort is synchronous, and each hook's promise settles (core's does by the
fairness above; the others have none). The route builder, the limiters, the cache
and soft deletion have no fairness and no liveness property. A builder that is
finished stops, as do modules that are initialised and a cache, a limiter or
documents whose bounds are used up; deadlock is not checked in these runs.

## 4. Properties

* `UniqueOnceIndexed`, `MirrorComplete`, `TogglesSurvive`, `BootTerminates`
  (`ResourceRegistry`): the registry against concurrent boots, stale saves and
  crashes.
* `GrantedPath`, `SyncedReleaseKnown`, `EveryRequestEnds` (`RequestGate`): a
  handler runs behind every guard on its way; a 404 of the gate in a synced
  release is an operator's doing; each request is answered.
* `ImplementsBoard`: the gate refines `Switchboard` under `SwitchOf` and
  `AskOf`. A request's answer is decided by one reading of one switch per
  route, taken between the question and the reply; a toggle after the reading
  is not seen by that request.

* `InfraWhileWorking`, `MailAccounted`, `SignalledStops`, `MailSettles`
  (`Lifecycle`): a request whose client is there may query, cache and enqueue, and
  a job deliver, until the last moment of the drain, and a handler that was left
  at least until `closeInfra`; however processes die, the count of what
  was sent is explained by failures and stalls; no request, job or client keeps a
  process that got its signal; an enqueued mail is delivered or given up.
* `TableAsDeclared`, `MisplacedReported` (`RouteScopes`): whatever the order of
  the calls, each declared route is in the table once with exactly the stack
  its scopes, names and own calls declare, and nothing of a sibling group;
  `defineRoutes()` throws for a `param()` no route below it names, and only then.
* `ImplementsCache`, `InvalidationHolds` (`CacheStores`): either class may stand in
  for the other in calls that both can serve, whatever their order, expiry and
  failing commands do; a value older than the last `del()` is there only because it
  was on its way to `set()` at that time. That exception is real: `wrap()` has no
  guard against it.
* `MarksAgree`, `FlipsTakeEffect`, `DeletionRecordKept` (`SoftDelete`): the three
  marks belong to one operation unless the document was last saved through an
  outdated copy; that exception is real too: a second `softDelete()` with the
  same actor's copy, or a `restore()` by a copy that looks live, writes only what
  differs from the copy. What a caller asked for by flipping `is_deleted` always
  happens; a record of a deletion is never overwritten in passing.
* `BurstBounded`, `RefusedForCause` (`RateLimit`): the two sides of a fixed window,
  what it lets pass and whom it turns away, in terms of times alone.
* `OrderSound`, `VerdictRight`, `PriorityBorrowed`, `BootReachesHooks`
  (`ModuleInit`): the order respects `depends`, and `priority` except where a
  dependency is the reason; the sort refuses cycles and unknown names wherever
  they are, and nothing else; and a rejected hook keeps no other from being
  called.

Each property of a passing run has a mutant in `PROJECT.json`: a one-definition
change of the model that makes the run fail.

## 5. Proofs

`ResourceRegistryProofs` holds for all tables, releases, processes and
operators, from the assumptions `TableAssumption`, `InstancesAssumption`,
`NoDocAssumption`, `NoHoldAssumption`. Any number of processes may sync at once.

* `Typing`, `TypeCorrect`. `TypeOK` is not inductive: `SetEnabled` writes the
  document the operator holds, which must still be in the collection.
  `HeldRegistered` adds that; together they are `TypeInv`.
* `Uniqueness`. Inductive over `TypeInv`: the only steps that change an endpoint are
  `SyncOp`, which the index guards, and saves, which keep it (`SavedFacts`).
* `Progress`, `Mirror`. `MirrorComplete` speaks only of finished syncs;
  `SyncProgress` adds that in the middle of a bulk the first `cursor` routes are
  mirrored (`Covered`), that what a bulk has passed stays registered whoever
  crosses it, and that a synced process is at the end of its table. `SyncOpOwn`:
  writing route `n+1` keeps each earlier *last* route of a RAI mirrored, because a
  route with the same RAI is then no longer the last. `SyncOpOthers`: another
  process's write enters `crossed` of all that sync, and if it is of the same
  release it leaves the RAI under one of that release's routes
  (`OneOfItsRoutes`).
* `Toggles`. An action property from `TypeInv` alone, by cases over the writers.

`RequestGateProofs` adds `RolesAssumption`, `AclAssumption`, `UrlsAssumption`; it
uses `Typing` and `Progress` of the registry, whose steps the gate does not change
(`GateRegistry`).

* `NextRouteFacts`: the order of mounting is a strict total order (`MountOrder`),
  a set of routes has a first (`FirstMounted`, from the well-foundedness of the
  naturals, three times), so `next()` goes to the first route that remains.
* `GateTypeCorrect`, `PathGranted`. Neither is inductive: the invariant
  `WellRouted` adds that a request at a route, answered or not, has been let
  through by the guards of all matching routes mounted before it. The step that
  matters is `PassedOnRouted`: a matching route before the next one is the one
  that was just passed, or was before it.
* `SyncedKnown`: from `Progress`, since a synced process is past its whole table
  and no write unregisters a document, another sync's neither.
* `GateImplementsBoard`: the step simulation. A registry step writes at most one
  document (`RegistryWrites`), which registers or turns one switch
  (`LampMoves`); a step that cuts requests writes none, because a request in
  flight is in a process that serves (`Attended`).

`LifecycleProofs` needs `ProcessesAssumption` and `NumbersAssumption`.

* `Staging`: the stage of a process determines which clients it has open
  (`ClientsByStage`) and what may be under way in it (`WorkByStage`): connections
  until `server.close()` has called back, handlers that were left until the process
  is gone, jobs until the worker is closed. `LifecycleTypeCorrect` and `InfraKept` (`InfraWhileWorking`)
  follow.
* `MailLedger` (`MailAccounted`): the strengthening `Ledger` counts by the
  state of the job; a job that is waiting has been accepted at most once for each
  of its failures and stalls.

`CacheProofs` needs `CacheAssumption`.

* `CacheTypeCorrect`, over `SetsValues`: a call on its way to `set()` has a value.
* `ClassesImplementCache` (`ImplementsCache`): a look-up of RedisCache that is not
  refused, and one of MemoryCache that meets no object of its own, is the contract's
  (`LookImplements`); what meets an object, or is refused, ends its call
  (`ObjectDiffers`) and does nothing else. Under `Visible` a look-up and an eviction change
  nothing (`SameVisible`), `set()` and `del()` do what they do to the entries
  (`VisibleStored`, since what is stored is not over yet), and the passing of time
  hides what is over (`VisibleTicks`).
* `DeletedStaysDeleted` (`InvalidationHolds`), over `DropsNoted`: a value on its way
  that is older than the last `del()` was on its way then.

`SoftDeleteProofs` needs `SoftDeleteAssumption`.

* `SoftDeleteTypeCorrect`, `MarksTogether`: `MarksAgree` is not inductive, since a
  bulk writes a patch it began with some time ago. `BulksWhole` adds that this patch
  is of one call and no deletion if it reaches deleted documents, `CopiesDated`
  that no copy is dated by a call to come. The step that matters is `SaveKeeps`.
* `FlipsWin`: a copy that looks live carries no date of the present call
  (`CopiesDated`), so `save()` sends all of flag and date (`SaveFlips`).
* `RecordKept`, from `BulksWhole`: a bulk that reaches deleted documents without
  asking for them is a restore.

`RateLimitProofs` needs `RateAssumption`.

* `RateTypeCorrect`, `BurstsBounded`, `RefusalsForCause`: `OwnStore` says that
  each process counts in its own memory, `Agree` relates a counter to the history:
  the admissions it stands for, at most `Limit`, came in its window, all others
  before it, and those a further `Limit` back before the window that precedes it.
  `PassAgrees` and `RefuseAgrees` are the two ways to count.

`ModuleInitProofs` needs `ModulesAssumption`.

* `SortTypeCorrect`, `OrderIsSound`, `VerdictIsRight`: the invariant says of the
  call stack that each visit is of another module, not placed, and a dependency of
  the one before (`StackSound`), and that nothing a module depends on is forgotten
  (`TodoSound`); so a module that is placed has all its dependencies placed. A
  dependency found on the stack closes a cycle (`CircularKeeps`), and no module of a
  cycle is ever placed (`NoLoopPlaced`).
* `PrioritiesBorrowed`: the module the outer loop is at has the highest priority of
  those left and needs what is placed meanwhile (`Borrowing`).

`RouteScopesProofs` needs `PathsAssumption` only.

* The invariant is `Ledger`, what the builders hold of the calls so far, and
  `Concluded`, how `finalize()` ended. `Ledger` adds to `TypeOK` that a scope's
  uses (`UsesKept`) and a route's handlers (`OwnKept`) are those of the calls to
  it, in order, and that a scope's `Map` has the last `param()` of each name
  (`ParamsKept`). Each builder call keeps it (`UseKeeps` to `FinalizeKeeps`).
* What `finalize()` returns, given `Ledger`, is an induction over the tree of
  scopes. The induction theorems of the library take a predicate, which no
  backend can instantiate; here induction is over a set instead: `LeastNat`
  (from `WFMin`) gives `Upward`, from parent to group, and `Downward`, from groups
  to parent, for any set of the numbers that is closed under the step. `HandedDown`
  and `SubtreeStep` show that the recursive functions obey their equations, which a
  `CHOOSE` alone does not say; `FlattenSteps` does so for `FlattenSeq`.
* `ResolvedFacts`: what is handed down is ranked by `Before` (`UsesFacts`,
  `ParamsFacts`), and only one array has the calls of a set in that order
  (`InOrderFacts`), so `Resolved` is `Declared`. `SubtreeFacts`: below a scope are
  the routes it encloses, each once, because it encloses another through just one
  of its groups (`TreeFacts`). Together: `BuiltAsDeclared`; `MisplacedIsReported`
  from `SubtreeFacts` and `ParamsKept` (`UnmatchedFacts`).

Only model-checked: liveness (`BootTerminates`, `EveryRequestEnds`,
`SignalledStops`, `MailSettles`, `BootReachesHooks`), which the prover does not
reach.

## 6. Where code and text differ

* `EveryRouteRegistered` (README: "every route is mirrored"). Both
  `categories:bo:list` and `categories:guest:list` are `GET /categories`. With
  the index in place the bulk ends at the second one and neither the guest
  routes of `categories` nor any route of `users` is registered: they answer
  404. Without the index the sync goes through, but `users:bo:list` is bound to two
  routes and `POST /users` is overwritten.
* `EndpointsUnique` (`resource.model.ts`: "prevents the creation of multiple
  resources"). The sync can be faster than the background index, which then
  fails for good over the duplicates.
* `SyncAcceptsMoves` (`config.module.ts`: update "if they have changed"). A
  release in which a route takes the endpoint another one still holds is refused
  in the middle of the bulk, although neither table has a duplicate.
* `PublicReachesPublic` (`roles.definition.ts`: "Public role has access to
  public resources"). The back-office route at `GET /categories` answers 401
  before the guest route is tried.
* `JobsGetKillTimeout` (`ecosystem.config.cjs`: "give in-flight jobs time to
  finish before SIGKILL", 30 s for the worker). The process ends itself after
  `SHUTDOWN_TIMEOUT_MS`, 10 s (`lib/shutdown.ts:8`), so a job that takes longer is
  cut long before the 30 s are over.
* `LimitShared` (`lib/security.ts:46`: "Redis-backed store so the limit is shared
  across PM2 cluster instances"; README: "Redis-backed (shared across PM2
  instances; in-memory fallback)"). `makeStore()` runs while `lib/security.ts` is
  imported, before `connectRedis()`, so it never finds Redis connected: the
  fallback is the only case, and each process lets a client have the whole limit.

Three more differences are exceptions that a property of a passing run states:

* `InfraWhileWorking` keeps its promise only to handlers somebody waits for. The
  README has "`kill_timeout` gives in-flight work time to finish" (line 516), but
  a handler whose client has gone away, or has its answer, is waited for by nothing:
  `closeInfra()` closes the queue, the mailer, Redis and MongoDB under it as soon as
  the last connection has ended.
* `ImplementsCache` excepts `MeetsObject`. `packages/cache/types.ts:2` has
  "Implementations serialize values themselves", and `lib/cache.ts:6` lets the
  classes be swapped "without touching call sites"; `MemoryCache` keeps the object
  it is given and hands it out. A caller that changes it changes what the others
  read, and a Date stays a Date that is a string with `RedisCache`.
* `ImplementsCache` excepts `Refused`. `get()` "Returns the cached value, or `null`"
  (`packages/cache/types.ts:7`), but `RedisCache` stores `undefined`, also from a
  producer, as a text that `JSON.parse()` refuses: each `get()` or `wrap()` of the key
  rejects until the entry is gone, where `MemoryCache` returns it. A ttl that is
  not whole seconds is refused by Redis and served by the `Map`.

A failed sync of this kind is a logged warning: the boot sequence is not
fail-fast there (`lib/modules.ts:105`), and the process serves.

## 7. Not modelled

JWT helpers (no caller yet), i18n, email rendering, environment parsing,
logging, the response envelope and the scripts: pure functions or output.
CORS, helmet and the key scrubbing are stateless; with the rate limit and the
body parser they are the nondeterministic `EdgeRejects` of the gate, which does not
depend on `RateLimit`: a request that is turned away never reaches a route.
Timestamps are metadata nothing reads. `loadModuleModels` imports files before
anything is connected. `RateLimit` stops at the process: what a client gets across
restarts is bounded by nothing in the code.

## 8. Plan

1. *Done*: the modules of section 2, and the proofs of all their safety properties.
2. Larger instances where time allows: a third handler, a second client and a
   shared store for `RateLimit` once the code builds its limiters after the
   connection.
