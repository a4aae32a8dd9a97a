# A TLA+ verification project for pgweb's query cache

pgweb (the flowbi fork) is a web PostgreSQL browser. The part of it that holds state
shared between requests and is hard to get right is the in-memory cache package
(`src/unnamed/part_000`, package `cache`). It is a TTL key-value store with an item-count
bound, a memory bound, approximate size accounting and a background sweep. The
database client (`src/unnamed/part_001`, package `client`) adds a second such part. It
injects the request's database role (`SET ROLE`) into a pooled connection before every
statement. This directory holds the TLA+ models of these parts, the TLC configurations
that check them, and the TLAPS proofs about them.

## 1. Inventory

### Components

| Component | Source | State it keeps | Operations |
|---|---|---|---|
| Cache store | `part_000` lines 12-154, 172-317 | `items` (map key → {value, expiresAt, size}), `currentSize`, `defaultTTL`, `maxItems`, `maxMemory` | `New*` constructors, `Set`, `Get`, `Delete`, `Clear`, `Stats`; internal `evictExpired`, `evictOldest`, `evictOldestBySize`, `evictToFitMemory` |
| Cleanup goroutine | `part_000` lines 156-170 | none of its own: the ticker | one sweep per 5-minute tick, under the write lock |
| SizeEstimator | `part_000` lines 194-225 | none (pure) | `estimateSize` (reflection, recursive over pointers) |
| KeyBuilder | `part_000` lines 319-328 | none (pure) | `GenerateKey(components...)`: join with `\|`, MD5 |
| Query-cache caller | not in `src/` (described in `docs/query-caching.md` and the spec) | two `Cache` instances (query, metadata) | classify SQL, build key from (query, connection, role), Get, on a miss run the query and Set if under 10,000 rows |
| DB client: requests | `part_001` lines 603-790, 848-889; `part_002` 221-240 | `defaultRole`, `readonly`, `History`, a `sql.DB` pool whose connections keep session state (`SET ROLE`, `default_transaction_read_only`) | middleware, `SetRole`, `Query`, `query`, `exec`, `SetReadOnlyMode`, `hasHistoryRecord` |
| DB client: lifecycle | `part_001` lines 790-870 | `closed`, `lastQueryTime` | `New`, `Close`, `IsIdle` |
| Options | `pkg/command/options.go` | `Opts` | `ParseOptions` (flags, environment fallbacks, modes), `SetDefaultOptions` |
| Scripts, tests, docs | `part_002`-`part_005`, `docs/`, `README.md` | — | — |

### How they interact

- The query executor and the metadata layer call the `Cache` methods. Every method
  holds the cache's `sync.RWMutex` for its whole body. So the methods are atomic
  with respect to each other and to the cleanup goroutine.
- The cleanup goroutine is started by `New`, `NewWithMaxItems` and
  `NewWithMemoryLimit`. It is never stopped. It competes for the same write lock.
- The caller (not in `src/`) combines the cache with the database client. The cache
  key includes the role string that `SetRole` stores in the client.
- The client issues `SET ROLE` and the statement as two separate calls on a
  `sql.DB` pool. HTTP requests run concurrently, and a single-connection server
  shares one client between them.

### What is hard

- **Accounting across compound steps.** `Set` first evicts for the count bound.
  It then subtracts the size of the item it replaces, and then evicts for memory.
  Each deletion subtracts a size. A deletion the code did not expect (the
  replaced item deleted again, or the sweep) breaks `currentSize`. The error shows
  up only after long sequences of calls.
- **Time.** Expiry is lazy and is compared with a strict `After`. Items are
  swept on a 5-minute ticker, which no unit test waits for.
- **Eviction order.** It comes from an exchange sort over a map with random
  iteration order, so ties are broken arbitrarily.
- **Concurrency in the client.** There are unsynchronised fields (`defaultRole`,
  `History`, `closed`, `lastQueryTime`). Session state is also set on one pooled
  connection and then used on another.

### Properties that make each component correct

- Cache:
  - one item per key;
  - `currentSize` equals the sum of the item sizes;
  - at most `maxItems` items;
  - the real footprint stays at most `maxMemory`, except for a single oversized item;
  - eviction takes the nearest expiries first, and removes only as many items as needed;
  - `Get` never returns an item at or past its expiry;
  - `Stats` never changes anything.
- Cleanup: every expired item is eventually removed or overwritten.
- SizeEstimator: the estimate is deterministic and never negative. The closed form
  equals the recursion.
- KeyBuilder: distinct component tuples have distinct preimages. At the least,
  different roles never share a key.
- Client: every statement of a request runs under that request's role and
  read-only mode.

## 2. Plan

Modules, in order of importance (✓ = done):

1. ✓ `Cache.tla`: the store and the sweep, one action per method. `MCCache.tla`
   and its cfgs instantiate it for TLC. `CacheProofs.tla` holds the proofs.
2. ✓ `CacheAbstract.tla`: what the store promises (section 5). `Cache` implements
   it (`Cache!Abs`, property `ImplementsAbstract`), which is proved in
   `CacheRefinementProofs.tla`.
3. ✓ `ClientRole.tla`: concurrent requests on one client (section 7).
   `ClientSessions.tla` states the session contract that it implements
   (`ClientRole!Sessions`). `ClientRoleProofs.tla` proves the role-safety
   invariant and the refinement.
4. ✓ `Options.tla`: `ParseOptions` and `SetDefaultOptions` (section 8).
   `OptionsProofs.tla` proves its sessions-mode invariant.
5. `QueryCache.tla`: the read-through caller (spec-modelled). It composes `Cache`
   (by INSTANCE) with the client's role. It will check role isolation of cached
   results: a hit never returns rows computed under another role.
6. `KeyBuilder.tla`: `GenerateKey` over strings on a small alphabet, as a pure
   function. It will check which distinct tuples share a preimage. Its recursive
   reference definitions stay in a TLC-only module.
7. `SizeEstimatorRef.tla` (TLC only): the recursive `estimateSize` over nested
   shapes, checked against the closed form `EstimateSize`.

## 3. The model of the cache (`Cache.tla`)

| TLA+ | Code |
|---|---|
| `items` (function, domain = present keys) | `c.items` |
| `currentSize` | `c.currentSize` |
| `now` | `time.Now()`, a discrete clock advanced by `Tick` (environment, bounded by `MaxTime`) |
| constants `DefaultTTL`, `MaxItems`, `MaxMemory` | `defaultTTL`, `maxItems`, `maxMemory` as the constructors set them |
| `Set(k, v, ttl)` | `Set` lines 82-121, whole: `AfterCountLimit` (lines 90-98: `evictExpired`, `evictOldest`), the subtraction of the replaced item (104-106), `AfterMemoryLimit` (109-111: `evictToFitMemory`, `evictExpired`, `evictOldestBySize`), insertion (113-120) |
| `Delete(k)`, `Clear` | `Delete`, `Clear` |
| `Cleanup` | one pass of the `cleanup` loop: deletes expired items and leaves `currentSize` alone |
| `GetFound`, `GetValue`, `Stats` | `Get`, `Stats` (read lock; they change nothing, so they are operators, not actions) |
| `EstimateSize(v)` | `estimateSize`, over a value shape `[ptrs, kind, len]` |
| `OldestFirst`, `EvictOldest`, `EvictOldestBySize` | the sort and the deletion loops. A deleted set is a prefix of *some* ascending-expiry order, because map iteration order is random. `EvictOldestBySize` is the shortest prefix whose bytes reach the target, or everything. |
| `SumSize(its, R)` | the sum of `size` over `R`, defined as the number of (key, byte) pairs. That definition is finite and has no recursion, so TLAPS can reason about it. |

All reads of `time.Now()` inside one locked method see the same `now`. The lock
makes each method atomic, so interleavings between callers and the sweep are
interleavings of whole actions.

## 4. Runs

The cache runs use `MCCache.tla`, with keys `k1, k2, k3` as model values, `TTLs = {0, 1}`
(0 means the default) and `MaxTime = 3`. `DefaultTTL` is 2 in the item-count,
sweep and expiry runs. It is 0 in the memory run, which is the cache that a
`PGWEB_QUERY_CACHE_TTL=0` start-up builds (`options.go:203`): items written
with the default expire one tick later, so eviction meets expired items too. With these values
items expire while others are still live, ties in expiry happen, and both
constructors' bounds are hit.

- `MCCacheItems.cfg` (pass) is `NewWithMaxItems(_, 2)`: maxMemory is 100 MiB, which
  the values never approach. It checks `TypeOK`, `ItemBound` and
  `ImplementsAbstract`.
- `MCCacheMemory.cfg` (pass) is `NewWithMemoryLimit`: maxItems is 10000, which three
  keys never approach. It checks `ImplementsAbstract` for the memory stage (the
  count bound never fires here, so this is the `evictOldestBySize` path, with
  the 120-byte value that empties the cache). `TypeOK` is checked by the
  item-count run only. The bound
  and the value sizes are scaled together from MiB to bytes: bound 100, values of
  40 and 120 bytes. Every comparison the code makes is a linear inequality between
  sums of sizes and the bound, so the behaviour is the same as with a 1 MiB bound
  and strings of comparable size, while `SumSize` stays small.
- `MCCacheSweep.cfg` (pass) uses `FairSpec` and checks `ExpiredEventuallySwept`.
  `FairSpec` adds weak fairness of `Cleanup`. The code justifies it: the ticker
  fires every five minutes for the cache's lifetime, and a waiting writer on a
  `sync.RWMutex` blocks new readers, so it is not starved. Symmetry is off here
  because the property is temporal.
- Three violation runs. Each checks one property the spec states, and TLC finds a
  counterexample:

| Run | Property | Trace TLC finds |
|---|---|---|
| `sweep_drift` | `SizeAccounting` | Set k1, Set k1 again with ttl 1, two ticks, sweep: `items` is empty and `currentSize` is still 20 |
| `replace_overrun` | `MemoryBound` | Set k1 to a 120-byte value twice: the second Set subtracts 120 and then evicts k1 and subtracts 120 again, so `currentSize` becomes 0. Set k2 to 40 bytes is then admitted, giving 160 bytes under a 100-byte bound |
| `cache_expiry_deadline` | `ExpiredNeverReturned` | Set k1 with ttl 1, one tick: now = expiresAt = 1 and `Get(k1)` still hits, where the spec says Get misses once now >= expiresAt |

The last run is a disagreement at the expiry instant: `After` is strict
(`part_000:132`), so an item is live while the clock equals its expiry, and
`Stats`, `evictExpired` and the sweep agree with `Get` on that. One more
difference from the spec is reached by two calls and is left to unit tests
rather than runs: overwriting a live key of a full cache evicts another item
(`part_000:91`).

Every property of a passing run has a mutant in `Cache.tla` that TLC catches:

| Property | Mutant |
|---|---|
| `TypeOK` | `ExpiresAtSignError` (`Add(-ttl)`) |
| `ItemBound` | `AfterCountLimitOffByOne` (evicts `len - maxItems`) |
| `ImplementsAbstract` | `NewestFirst` (inverted sort), in both runs |
| `ExpiredEventuallySwept` | `CleanupStaleNow` (`now` read once before the loop) |

## 5. The abstract cache and the refinement

`CacheAbstract.tla` says what callers may rely on, without sizes, bounds or the
sweep's schedule. `store` maps keys to (value, expiry). `Put(k, v, l)` stores a
value that expires `l` from now and may at the same moment forget a set `R` of
other entries, but only entries that have expired or expire no later than every
entry kept (`MayEvict`). `Remove`, `Clear` and `Forget` (any set of expired
entries) complete it. `Cache.tla` maps onto it with `AbsStore` (each item without
its size) and `Lifetimes` = the TTLs with 0 read as the default:
`Abs == INSTANCE CacheAbstract WITH store <- AbsStore, ...`. The property
`ImplementsAbstract == Abs!Spec` is checked by the two store runs and proved
below. It replaces an earlier action property on the eviction order, which it
implies.

## 6. Proofs (`CacheProofs.tla`, `CacheRefinementProofs.tla`, `ClientRoleProofs.tla`, `OptionsProofs.tla`)

The cache theorems hold for every value of the constants allowed by `CacheAssumption`:
`Keys` finite, `Values` shapes, TTLs and bounds natural numbers.

- `TypeCorrect == Spec => []TypeOK`. `TypeOK` is inductive (`TypeOKStep`).
  - `SetTypeOK` follows `Set` through its two eviction stages. Both stages only
    delete keys (`CountLimitSubMap`, `MemoryLimitSubMap`), so each result is a
    sub-map of a well-typed map.
  - `currentSize` stays an integer because `SumSize` is a natural number
    (`SumSizeNat`). The bytes of finitely many items are a finite union of finite
    products, by `FS_Surjection`, `FS_UNION` and `FS_Product`.
- `ItemBoundHolds == Spec => []ItemBound`. The inductive invariant is
  `IInv == TypeOK /\ ItemBound`. `ItemBound` alone is not inductive, because the
  cardinality argument needs the type of `items` and the finiteness of its domain.
  - The key lemma is `CountLimitRoom`: after the count stage, the map has fewer
    than `maxItems` items. If the cache was full, `evictOldest(n - maxItems + 1)`
    leaves exactly `maxItems - 1`. Otherwise nothing was deleted.
  - The memory stage only deletes, and inserting one key adds at most one
    (`AddKeyCardinality`).
- `Refinement == Spec => ImplementsAbstract` (`CacheRefinementProofs.tla`). The
  initial empty map is the abstract empty store. `StepRefines` shows that under
  `TypeOK` each step is an abstract step or a stutter: `Delete`, `Clear` and
  `Tick` map one to one; `Cleanup` is `Forget` of the expired keys, or a stutter
  when there are none; `Set` is `Put` with `R` = the keys it deleted
  (`SetRefines`). The lemma the argument rests on is `EvictionOrder`: a pass of
  `evictExpired` followed by `evictOldest` or `evictOldestBySize` deletes expired
  items and then a prefix in expiry order, so every live item it deletes expires
  no later than every item it keeps (`CountLimitOrder`, `MemoryLimitOrder` for
  the two stages; `MayEvict` across both follows because the memory stage works
  on what the count stage kept). The temporal step combines `TypeCorrect` and
  `StepRefines` by PTL.

- `RoleInjectionSafeHolds == Spec => []RoleInjectionSafe` (`ClientRoleProofs.tla`),
  for any sets of requests, connections and headers. `RoleInjectionSafe` alone
  is not inductive. It speaks of sessions only, but the role that `SET ROLE`
  writes travels `SetRole` -> `defaultRole` -> `query`/`exec` -> `arg` ->
  session. The inductive invariant `RoleInv` follows that path:
  - `defaultRole` is "" or a role some request sent and `isValidRoleName`
    accepted;
  - a request about to run `SET ROLE` has such a role in `arg`;
  - every session carries such a role or the login role.
  It also types `pc` and `arg`, which the `EXCEPT` steps need. `StepRoleInv` has
  one case per action. Only `SetRole`, `Query`, `Dispatch`, `SetRoleExec` and
  `Acquire` touch a conjunct other than `pc`.
- `SessionsRefinement == Spec => ImplementsSessions` (`ClientRoleProofs.tla`):
  the client implements `ClientSessions` (section 7). The invariant is
  `RoleInv /\ HoldInv`. `HoldInv` types `conn` and says that a connection a
  request holds has been opened. `StepRefinesSessions` maps each step:
  - an `Acquire` that opens a connection is `Open`; one that reuses a
    connection is a stutter;
  - a successful `SetRoleExec` is `SetRole(conn[r], arg[r])`, because
    `RoleInv` puts `arg[r]` among the granted roles and `HoldInv` puts
    `conn[r]` among the sessions;
  - a successful `ReadOnlySet` is `SetReadOnly`;
  - every other step, and every failed call, leaves the sessions as they were.
- `SessionModeSafe == Spec => []SessionModeHasNoDirectConnection`
  (`OptionsProofs.tla`), for every command line, environment and host.
  - `ParseOptionsSessionSafe` follows `ParseOptions` block by block.
    `ClearForSessions` blanks the connection fields exactly when its result is
    in sessions mode or has a backend (`ClearForSessionsClears`). That needs the
    fields to exist, and `EarlyBlocksKeepDomain` gives it: `WithDefaults`, the
    fallbacks, `FindPassfile`, `LocalhostUser` and `EnvModes` keep the domain,
    and `Defaults` has every field.
  - Every later block (`PrefixSlash`, `DisplayFromEnv`, `CacheFromEnv`,
    `HomeDirs`) `Agrees` with its input on the connection fields, `Sessions` and
    `ConnectBackend`.
  - The inductive invariant `ParseInv` says two things. `result` is nothing yet,
    or the parse of the unchanging inputs. `Opts` is the zero value, or a
    successful parse of the empty command line.

The following are only model-checked:

- `ExpiredEventuallySwept` and `AllRequestsAnswered`: liveness is out of TLAPS's
  reach.
- `OptionsTypeOK`. A TTL that passes `ParsesAsUint` is a `Nat` only through
  the recursive function in `DecimalValue`, and that is induction over data. The
  string fields are built with `\o` on strings, which the provers do not type.
- The violation runs.

## 7. Requests on a shared database client (`ClientRole.tla`)

Gin serves every HTTP request on its own goroutine, and with a single connection
all requests share one `Client`. `roleInjectionMiddleware` (`part_002` 221-240)
copies a valid `X-Database-Role` header into `client.defaultRole` (`SetRole`,
`part_001` 877-889). `Client.Query` then runs `query` (687-789), which issues
`SET ROLE`, `SetReadOnlyMode`'s `SHOW` and `SET` (613-626), and the statement as
separate calls on the `database/sql` pool (`exec`, 642-686, issues a second
`SET ROLE` for updates and deletes), and finally appends to `History` (603-610).
Nothing in `Client` is locked.

| TLA+ | Code |
|---|---|
| `defaultRole`, `history`, `readOnly` | `client.defaultRole`, `client.History`, `Opts.ReadOnly \|\| client.readonly` |
| `opened`, `connRole`, `connRO` | the pool's connections and their sessions' role and `default_transaction_read_only` |
| `pc`, `conn`, `arg`, `snap`, `ran` | per request: where it is, the connection its current call holds, the role it formatted into `SET ROLE`, the `History` slice its append read, and what its statement ran with |
| `SetRole` | the middleware with `SetRole` and `isValidRoleName` |
| `Query`, `Dispatch` | the two reads of `defaultRole` (in `query` and in `exec`) and the choice of `exec` |
| `Acquire`, `Release` | a `client.db` call taking a free connection, or opening one when none is free, and giving it back; which free one is left open |
| `SetRoleExec`, `ReadOnlyShow`, `ReadOnlySet`, `Statement` | the calls, each with its error path |
| `Keywords` | `containsRestrictedKeywords` (not in `src/`), a nondeterministic verdict |
| `HistoryCheck`, `AppendRead`, `AppendWrite` | `hasHistoryRecord`, then `append`'s read and write of the slice (a data race: the lost update is the outcome modelled) |

`ClientSessions.tla` is what the client promises about its pool's sessions,
whatever the requests do:
- sessions are only opened;
- a session starts under the login role and read-write;
- its role changes only to a granted role, that is a role some request sent
  and `isValidRoleName` accepted;
- read-only mode is only ever turned on.

`ClientRole` maps onto it through `Sessions == INSTANCE ClientSessions WITH
sessions <- opened, role <- connRole, ro <- connRO, granted <- SentRoles`.
`ImplementsSessions == Sessions!Spec` is checked in `client_serve` and proved in
section 6.

Runs (`MCClientRole.tla`, two requests, query texts `"select 1"`, `"select 2"`):

- `MCClientRoleServe.cfg` (pass): any header (none, a valid role, or an injection
  string), both statement kinds and both read-only modes, over a pool bounded to
  one connection, the bound at which requests wait for each other. It checks
  three properties:
  - `RoleInjectionSafe`: every session carries the login role or a role that
    some request sent and `isValidRoleName` accepted;
  - `ImplementsSessions`;
  - `AllRequestsAnswered`, under weak fairness of each request's steps. The Go
    scheduler runs every runnable goroutine, and each database call returns.

  The final state, all requests answered, has no step, so deadlock is not
  checked. Mutants: `SetRoleUnchecked` (validation dropped) breaks the first
  two, and `StatementKeepsConn` (no `rows.Close`) breaks `AllRequestsAnswered`.
- Four violation runs, each of one property: every statement runs under the role
  its own request asked for (`StatementRunsAsRequestRole`, two runs), in
  read-only mode on a read-only client (`ReadOnlyStatementsRunReadOnly`), and
  every successful query is in `History` (`HistoryRecordsSuccessfulQueries`):

| Run | Trace TLC finds |
|---|---|
| `client_role_race` (one connection) | r1 sends no header, r2 sends "alice"; r2's middleware runs before r1's `query`, and r1's statement runs as alice |
| `client_role_pool` (two connections, both requests "alice") | r1 runs `SET ROLE` on c1; r2 takes c1 for its own `SET ROLE`, so r1's statement opens c2, whose session never saw `SET ROLE` |
| `client_readonly_pool` (read-only, two connections) | r1 sets c1 read-only; r2 takes c1 for its `SHOW`, so r1's statement opens c2, still read-write |
| `client_history_race` (one connection) | both requests read the empty `History`; the second write drops the first record |

The pool violations do not depend on which free connection `database/sql` hands
out: they happen when the only opened connection is busy and a new one is opened.

## 8. Options (`Options.tla`)

`ParseOptions` (`options.go` 83-256) is a pure function of the command line, the
environment and the system (current user, home directory, readable files),
written as a composition of one operator per block of the code: the
environment fallbacks, passfile discovery, the localhost user, the environment
modes, the clearing of connection fields in sessions mode, the URL prefix, the
display and cache settings, the mode checks and the home directories. The state
machine has `Parse` (once) and `SetDefaultOptions`. `MCOptions.tla` enumerates
inputs: flags with go-flags defaults applied (`WithDefaults`), environment
variables as a partial function, with `Absent` for "not given". `ParseUint` is
checked against 2^16 - 1 instead of 2^32 - 1 because TLC's integers stop at
2^31 - 1; a six-digit numeral still exercises the rejection.

- `MCOptionsModes.cfg` (pass, 295,680 states): the connection modes crossed
  with `--query-cache-ttl` and `PGWEB_QUERY_CACHE_TTL` (a numeral and one past
  the `ParseUint` bound), so `CacheFromEnv` takes both of its paths.
  `OptionsTypeOK` and `SessionModeHasNoDirectConnection`. The second says that
  in sessions mode or with a connect backend, no direct-connection field
  survives. It is checked for the accepted start-up result and for the `Opts`
  that `SetDefaultOptions` installs. Mutants:
  `getCurrentUserNoNilCheck`, `ClearForSessionsKeepsURL`.

The cache TTL variables override the flags (`options.go` 202-212), as
`FONT_SIZE`, `LOCK_SESSION` and the `DISABLE_*` variables do; no document
states the opposite precedence, so no property is stated about it.

## 9. What is not modelled, and why

- The cleanup goroutine's teardown: the code has none (hazard `part_000:36`).
- `GenerateKey` and the query-cache caller are planned (section 2).
- The client's lifecycle (`New`, `Close`, `IsIdle`, the metadata queries): no
  property of this project tells their state apart beyond what `ClientRole` has.
- `containsRestrictedKeywords` is not in `src/`; its verdict is a
  nondeterministic choice in `ClientRole`.
- The shell scripts, the HTTP tests and the docs have no state machine of the
  system to check.
- `memory_used_mb` and `memory_limit_mb` in `Stats` are left out. They are
  `currentSize / 2^20`, and no property is about them.
