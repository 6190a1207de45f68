# Verification of the Node microservice boilerplate

TLA+ modules of the service in `src/`, TLC configurations that check them on
small instances, and TLAPS proofs of the main results for all instances.
Paths below are relative to `src/` of the repository's checkout, so that
`src/modules/...` is `src/src/modules/...` in the map.

- [The system](#the-system)
- [What is hard about it](#what-is-hard-about-it)
- [Modules](#modules)
- [Runs](#runs)
- [Where the code departs from what is written about it](#where-the-code-departs-from-what-is-written-about-it)
- [Proofs](#proofs)
- [What is not modelled](#what-is-not-modelled)
- [Plan](#plan)

## The system

A stateless HTTP and WebSocket service that runs in any number of processes
("horizontal scaling", README.md:713) over one MongoDB and one Redis. All state
that matters is in these two, so processes interact only through commands on
them, and every `await` is a point where other requests run.

```
 client -- HTTP --> routes -> authenticate() -> controller -> service -> repository -> MongoDB
   |                             |                              |
   |                             +-- blacklist, cutoff --+      +-- cache-aside --+
   |                                                     v                        v
   +-- WebSocket -> handshake -> rooms -> (adapter) --> Redis <-------------------+

 migrate CLI -> migration runner -> migrations -> MongoDB <- Mongoose autoIndex (at boot)
```

| Component | State | Operations | What makes it correct |
|---|---|---|---|
| User cache (`cache.service.ts`, `user.service.ts`) | keys `user:<id>`, `user:list:*`, `user:analytics:*` in Redis, each with a TTL | five getters (GET, query, SETEX), `updateUser` (DEL and a scan), `deactivateUser` (a scan) | no stale value after an invalidation, but for fills that raced with it; convergence when writes cease |
| Token revocation (`token-blacklist.service.ts`, `auth.middleware.ts`, `socket-auth.middleware.ts`) | `token:blacklist:<token>`, `token:revoked-before:<user>` in Redis, each with a TTL | `blacklistToken`, `revokeAllUserTokens`, `authenticate`, handshake | a revocation is remembered and enforced as long as the token could be used |
| Accounts (`auth.service.ts`, `user.repository.ts`, `user.model.ts`) | documents in `users` | register, login, deactivate | one active account per email; tokens only for whoever showed the password |
| Migrations (`migration.runner.ts`, `migrate.cli.ts`, `migrations/`) and autoIndex | `_migrations`, the indexes and collections of the database | `up`, `down`, `status`, boot | the records say which migrations are in effect; the indexes the code relies on exist |
| Repository and query store (`user.repository.ts`, `user.queries.ts`) | none | pages, aggregations | a page and its totals agree; the pipelines count what their names say |
| Server lifecycle (`server.ts`, `connection.ts`) | the listening server, the connections | bootstrap, shutdown on SIGTERM and SIGINT | requests in flight finish before connections close; one shutdown |
| Redis client (`redis.client.ts`) | the client and `isConnected` | connect, reconnect, quit | callers degrade, never block |
| Notifications (`socket.ts`, `notification.controller.ts`, `connection.handler.ts`) | rooms per process, what the adapter has under way | connect, subscribe, unsubscribe, broadcast, disconnect | a broadcast reaches all members of a room, in every process, once and in order |
| HTTP shell (`app.ts`, routes, validation, error handler, response helper) | none | - | errors map to the documented status |
| Configuration and logging | read once | - | - |

How they interact: deactivation writes a document that login, the cache and the
analytics read, and that no token lookup reads; registration relies on an index
that a migration or the boot of the application builds; logout is honoured by
the HTTP guard and not looked at by the handshake; all of Redis may fail at any
time, and the cache, the blacklist and the cutoffs then all answer "nothing
there".

## What is hard about it

- *Interleaving across awaits.* A getter stores what it read before an update;
  register inserts after a check of long ago (hashing takes tens of
  milliseconds); login signs tokens for a document it read before verifying.
- *Partial failure.* Redis commands may fail, executed or not, and every such
  error is swallowed; `down()` of a migration swallows errors, too.
- *Crashes.* A process may stop between any two commands: between a write and
  its invalidation, between a migration and its record.
- *Several processes without a lock.* Every container runs
  `migrate:up && npm start` (README.md:722), so runners and booting
  applications overlap.
- *Time.* TTLs are computed before the commands that carry them are executed,
  and have to outlast tokens whose lifetimes are configured elsewhere.
- *SCAN.* It guarantees little about keys that come and go during the scan.
- *Reports of a moving collection.* A page is two queries and a walk through the
  pages many, some of them cached; `createdAt` does not break ties.
- *Delivery.* A broadcast reaches other processes in two hops through Redis, and
  neither is acknowledged to its sender.

`PROJECT.json` lists these as hazards, each at its line and with the properties
that cover it; one without a property says why.

## Modules

| Module | Models | Contents |
|---|---|---|
| `UserCache` | the cache-aside reads and invalidating writes | specification, properties, refinement mapping |
| `CachePromise` | what `UserCache` promises of an invalidation | abstract specification |
| `TokenRevocation` | logout, cutoffs, guard, handshake | specification, properties, refinement mapping |
| `RevocationRegistry` | what `TokenRevocation` promises of a revocation | abstract specification |
| `Accounts` | register, login, deactivate on the users collection | specification, properties, refinement mapping |
| `EmailRegistry` | what `Accounts` promises about emails | abstract specification |
| `Migrations` | the runner, both migrations, autoIndex | specification, properties |
| `ServerLifecycle` | one process from boot to exit, and its Redis client | specification, properties |
| `UserCollection` | the users collection as lists and reports see it | state and writes shared by the next two |
| `Listing` | `GET /users`: two queries, the cached page, clients that walk | specification, properties |
| `Analytics` | the aggregation pipelines of trends and retention | operators, specification, properties |
| `Notifications` | sockets, rooms, broadcasts, the adapter | specification, properties, refinement mapping |
| `RoomMulticast` | what `Notifications` promises of a broadcast | abstract specification |
| `UserCacheProofs`, `TokenRevocationProofs`, `AccountsProofs`, `MigrationsProofs`, `ServerLifecycleProofs`, `ListingProofs`, `AnalyticsProofs`, `NotificationsProofs` | | inductive invariants, lemmas, theorems |
| `MCUserCache`, `MCTokenRevocation`, `MCAccounts`, `MCMigrations`, `MCServerLifecycle`, `MCListing`, `MCAnalytics`, `MCNotifications` | | instances for TLC: symmetry sets, a calendar, who shares a home room |

In every module one action is one command on MongoDB or Redis together with
the code that runs before the next `await`, and `Procs` (or `Runners`, `Apps`)
are requests or processes that may be in progress at once, in whatever process
of the service. `pc` is the position of a request between awaits. A variable or
field marked *history* is read by properties only. A definition whose comment
says "Mutant of X" is a plausible slip in the code of X; no specification uses
it, it shows that the property it is named for in `PROJECT.json` would notice.

### UserCache and CachePromise

`ver[u]` counts the writes to a document, so a cached value is the versions it
was computed from, and "stale" is a comparison of numbers. `Request`,
`CacheHit`, `CacheMiss`, `FindNothing`, `Find`, `Count`, `QueryFails`, `CacheSet`,
`CacheSetLost` are the getters of `user.service.ts`: 63-112 and 175-236;
`CacheMiss` is also a failed GET, as in the code. A page of the list is two
commands (`user.repository.ts:131-139`), `Find` the one executed first and `Count`
the other: its data are the versions the first one saw, and what the second one
saw is as new or newer, so the page may be of two moments and is as old as the
earlier one. One command is atomic. An id that looks like another key
(`GET /users/list:1:20:all`) is left out: it may be answered what is cached there
and stores nothing. `UpdateUser` and `DeactivateUser` write the
document and go on to `Invalidate` (DEL) and `ScanFirst`, `ScanNext`,
`DropPage` (`invalidatePattern`, `cache.service.ts:136-163`); the variants named
`Lost` are commands that failed, executed or not, and crashes. `ScanReply`
states what Redis promises of SCAN: keys present throughout are returned before
the cursor is 0, others may or may not be. `Register` and `Login` write without
invalidating, as the code does. `Expire` is the TTL. The history `floor[k][u]`
is the newest version of u whose write completed an invalidation of k, and
`raced` marks a fill that had begun to read the database (`HasRead`) when an
invalidation of its key reached Redis.

`CachePromise` is the promise: an entry is what one reader got from the database,
as old as the first command he sent, and never put together from two readers;
whoever writes a document owes an invalidation of some keys; for each of them it
begins, overtaking the readers that have asked the database before, and may at
last be promised to be done, and by then nothing older than the write is kept, or
may still be kept, but what such a reader brings. It knows no DEL, cursor or page,
lets any entry vanish at any time and any part of an invalidation be given up.
The mapping is held = the cache, promised = `floor`, reading = the fill of a
request that has begun to read and not yet stored it, and duty = the invalidation of a request, its keys
split into those whose DEL or scan is yet to begin (`ToBegin`) and those being
scanned for (`Begun`).

### TokenRevocation and RevocationRegistry

Time is a clock in seconds. `blacklist` and `cutoff` are the two kinds of Redis
keys with the second at which they disappear. `Login`/`Issue` sign a pair of
tokens; `Verify`, `IsTokenBlacklisted`, `IsTokenRevokedForUser`, `Accept`,
`Reject` are `authenticate()`, where either lookup may be lost (fail-open);
`Handshake` is the socket's. `Logout` computes the TTL, `BlacklistToken`
executes SETEX some time later; `RevokeAll`/`StoreCutoff` the same for the
cutoff, which nothing in `src/` calls. `Serve` is every other handler, the soft
deletion of `deleteUser` among them: none touches what this module is about.
`RevokeOutlastsTokens` is the assumption that the fixed seven days of
`revokeAllUserTokens` cover the configured lifetimes. Three histories are in a
request and two beside it: `loggedOut` says that the token was logged out when the
request arrived, `unsure` and `unsureCut` mark a lookup that was lost or made when
the token had expired, `stored` and `cut` are what SETEX has executed.
`TypeOK` includes that a TTL about to be stored is positive, as SETEX demands.

`RevocationRegistry` is the promise: a revoked token is a fact that lasts for
ever, each user has a cutoff, and the guard asks for the two facts one after the
other, each in one step. An answer without doubt, about a live token, is the truth;
a doubtful one may miss a revocation and none invents one. The mapping is
revoked = `stored`, the cutoff = `cut`, and of a request what its guard has been
told (`View`). Nothing of TTLs, expiry or keys is left, so the implementation says
that they never show.

### Accounts and EmailRegistry

`users`, `active` and `loggedIn` are the documents (email, password,
`isActive`, `lastLoginAt`), `indexed` whether the unique partial index exists.
`Register` is the check of `existsByEmail`, `Create` the insertion after
hashing, `CreateRefused` the E11000 error, which is no `AppError` and so a 500;
`Login`, `Verify`, `TouchLastLogin`, `GenerateTokenPair` are `login()`;
`SoftDelete` is `deleteUser` by the bearer of a token; `Finish` ends a request
anywhere. `BuildIndex` and `DropIndex` are what migrations may do meanwhile,
and the initial state has the index or not. The history `taken` marks a
registration whose email was inserted by another between its check and its
insertion, and `racy` the documents inserted all the same.

`EmailRegistry` is the promise: sets of owners per email; an account claims its
email once and releases it for good; while uniqueness is enforced only a free
email is claimed, and it can be enforced only when it holds. The mapping is
owners = active documents by email, spent = documents, enforced = the index.

### Migrations

An index is its collection, name, key and whether it is unique; `Conflict` is
MongoDB's refusal of a name or of key and options that another index has. `Up`
to `InsertRecord` are `up()` (126-160), `Down` to `EraseRecord` `down()`
(173-199), one command per step, `Quit` a crash or an error between any two.
`DropStep` swallows errors as the code does. `Boot`, `EnsureIndex`,
`EnsureIndexFails` are Mongoose building the indexes of the schema, one after
another until the first error; a unique index that is not there yet fails where
accounts share an email already (`Duplicates`), and a runner then stops (`Quit`).
`records` is ordered by `appliedAt`, taken to be
the order of the inserts. The histories are `overlapped`, `reverted`, and `torn`,
the files whose `up()` stopped midway, or one of whose drops failed unnoticed,
since their last `down()` began.

### ServerLifecycle

`stage` is the await of `bootstrap()` (`server.ts:44-64`) under way. `link` is
the Redis client, `connected` the flag `isConnected` that its event handlers
keep (`redis.client.ts:75-88`), and `retries` what node-redis passes to
`reconnectStrategy` (60-66). `ConnectRedis`, `RedisReady`, `RedisRetry`,
`RedisGivesUp`, `RedisBreaks` are the client's life: given up while booting,
`client` becomes null; given up later, it stays and the flag alone says so.
`Shutdown(s)` is the handler of one signal up to its first await,
`DisconnectDatabase` what follows it up to `quit()`, `DisconnectRedis` the rest.
A second signal runs through the same steps; `quit()` rejects on a client that
is quitting (node-redis throws `ClientClosedError`), and the handler of
`unhandledRejection` exits with 1. `SignalEarly` and `BootFails` are the exits
before the handlers are installed. A port that is taken is a `BootFails`, too:
its error event follows `listen()` before any other event. Requests are two
steps, a query and an answer; REDIS_URL is set or not. `QuitUnderWay` is the
part of `ShutdownEnds` that is safety: whenever a shutdown awaits `quit()`, QUIT is
on a connection that can answer it, and no second shutdown awaits it.

`adapter` is the pair of Redis connections that `createSocketServer` makes where
REDIS_URL is set (`socket.ts:46-61`): both, or none and the adapter in memory, or
one of them, which then stays open with no listener for its errors. With both,
`createAdapter` subscribes, every broadcast publishes (`Publish`), and `io.close()`
unsubscribes (`CloseAdapter`, part of `Shutdown`), and nobody awaits these
commands: "busy" is that one is unanswered. `AdapterFails` is a rejection of one,
or the error of the connection nobody listens to, and `EventThrows` an exception
out of the handler of a socket event (`notification.controller.ts:24-86` destructure
what the client sends); the handlers of `server.ts:88-96` make either an exit
with 1, and the history `uncaught` says that one of them did.

### UserCollection and Listing

A document is its `createdAt` (`created[u]`, 0 while there is none), its role
and whether it is active. `createdAt` is the clock of the process that inserts,
so two may be equal and a later document may have the earlier one. `Insert` and
`SoftDelete` are all the writes that lists and reports can tell apart.

`CacheHit`, `CacheMiss`, `Find`, `Count`, `CacheSet`, `CacheSetLost` are one
`GET /users` (`user.service.ts:91-112`, `user.repository.ts:124-155`): `Find` and
`Count` are the two commands of `findPaginated`'s `Promise.all`, in either
order. `IsPage` states which rows `sort`, `skip` and `limit` may return: the sort
has no tie-breaker, so among equals any, and others with the next query.
`TotalPages` and `HasNextPage` are the code's arithmetic. A client `Begin`s at
page 1, follows `hasNextPage` (`Answer`) and may `End` anywhere. A filter is the value of `?role=`, which nothing validates
(`user.controller.ts:53`), or `"none"`: a value that is no role finds nobody, and
`KeyRole` gives `?role=all` the key of the list without a filter
(`user.service.ts:96`), so a cached page may be of another filter than the one asked
for. `Register` and
`Deactivate` fall between any two of these; `Evict` is a page that expires or is
deleted. The histories in `walk` record whether accounts came or went during the
walk, whether one of its pages was outdated when answered, whether a write fell
between the two commands of one (`torn`), and whether one was of another filter
(`anyForeign`).

### Analytics

`Trends` and `Retention` are pipelines of
`user.queries.ts` as functions of the collection: a `$match` is a set of
documents, a `$group` a function from `_id` to row, `$lookup` and `$unwind` a set of
pairs of a user and a month or `Absent`. What MongoDB does with a missing field
is in `IsNew` (`$eq` is false) and `Sized` (`$size` of what `$unwind` has made an
object fails the aggregation). The order of rows and the names of months are
left out. `Calendar` maps an instant to its day, week and month. The actions are
the writes, and `OpenSession` stands for what writes sessions outside `src/`;
`ExpireSessions` is the TTL index.

### Notifications and RoomMulticast

`adapter[p]` is what `createSocketServer` decided when process p booted
(`socket.ts:26-65`): Redis, or memory for good. `Connect` is the connection
handler, which joins the user's own room; `Disconnect` and `Stop` end
connections, and the server takes a closed socket out of its rooms.
`Subscribe`, `Unsubscribe`, `Broadcast` are the events of
`notification.controller.ts:45-86`; nothing restricts which room a socket names.
A broadcast is delivered to the sockets of its own process at once and queued
(`out`); `Relay` is Redis passing it to the processes subscribed then (`wire`),
`Receive` their delivery. `LosePublish`, `LoseCopy` and `Stop` lose what is on one
of the hops. The adapter and its rooms are libraries, modelled from how the code
uses them. `log[s]` is what was sent on the connection of s; histories are `owed`,
the broadcasts made while s was in their room, and `lost`, those that will not
reach a process.

`RoomMulticast` is the promise of `io.to(room).emit()`: a broadcast goes to the
members at its own process at once, is then in the air to all other processes or
to none, may vanish there, and goes to all who are members where and when it
arrives, in one step. Of one sender's broadcasts in the air only the earliest
can arrive. The mapping has in the air to a process what is on its wire or queued
by another process (`Air`), so `Relay` is a stutter, or a loss at processes that
are not subscribed.

## Runs

`tlc -config <cfg> <module>`; deadlock is checked in all of them but the two of
`MCServerLifecycle`, whose process exits.

| Run | Configuration | Instance | Checks |
|---|---|---|---|
| `user_cache` | `MCUserCache.cfg` | 1 user, 1 list key, 1 analytics key, 2 requests, 2 versions | `TypeOK`, `StaleOnlyByRace`, `EventuallyCoherent`, `ImplementsContract` |
| `token_revocation` | `MCTokenRevocation.cfg` | 1 user, 2 requests, clock 0..2, lifetimes 1 and 3 | `TypeOK`, `RevocationOutlivesToken`, `LoggedOutRejected`, `CutoffOutlivesTokens`, `ImplementsRegistry` |
| `accounts` | `MCAccounts.cfg` | 1 email, 3 documents, 2 passwords, 2 requests | `TypeOK`, `ActiveEmailUnique`, `SharedOnlyByRace`, `RefusedOnlyByRace`, `TokensEarned`, `ImplementsRegistry` |
| `migrations` | `MCMigrations.cfg` | 2 runners, 2 applications, with down, over duplicate emails | `TypeOK`, `RecordedIsApplied`, `NoGaps`, `InOrderUnlessOverlapped`, `OncePerRunner`, `LeftoverHasCause` |
| `migrations_torn_down` | `MCMigrationsTorn.cfg` | 1 runner, 1 application, with down | `TracksApplied` is violated |
| `migrations_boot_first` | `MCMigrationsBoot.cfg` | 1 runner, 1 application, no down | `BootMakesEmailUnique` is violated |
| `server_lifecycle` | `MCServerLifecycle.cfg` | 2 requests, 2 signals, 10 retries | `TypeOK`, `ListensOnlyWithDatabase`, `FlagTruthful`, `AbruptExitHasCause`, `QuitUnderWay`, `BootEnds`, `ShutdownEnds` |
| `server_shutdown` | `MCServerShutdown.cfg` | 1 request, 1 signal, 1 retry | `InFlightFinished` is violated |
| `listing` | `MCListing.cfg` | 3 accounts, 1 client, with and without `?role=all`, 2 a page, 3 instants | `TypeOK`, `CountMatchesRows`, `MissedHasCause`, `RepeatedHasCause` |
| `analytics` | `MCAnalytics.cfg` | 3 accounts, 1 session, 4 instants | `TrendsAddUp`, `RetentionAgreesWithTrends`, `TrendsOnlyGrow` |
| `retention` | `MCRetention.cfg` | the same | `NewRegistrationsCounted` is violated |
| `notifications` | `MCNotifications.cfg` | 2 processes, 2 sockets of one user, 1 channel and their home room, 2 broadcasts | `TypeOK`, `InOrderOnce`, `DeliveredOrCause`, `Delivered`, `ImplementsMulticast` |

*What the passing runs show.*
`user_cache`: two requests overlap in every order, with any command lost; a
value older than a completed invalidation is in the cache only if its fill raced
with it, what only a TTL repairs (lost invalidations, racing fills, register
and login) is repaired, and `UserCache` implements `CachePromise`.
`token_revocation`: a logout that reached Redis keeps the token on the
blacklist until it expires, however late SETEX is executed and whichever logout
of the token overwrites the key; the guard lets a logged-out token pass only
when a lookup was lost or the token expired in between; a cutoff is enforced as
long as it matters; and `TokenRevocation` implements `RevocationRegistry`: nobody
can tell the keys from permanent facts, and no token is refused that was neither
revoked nor issued before a cutoff.
`accounts`: with the index, at most one active account per email, whatever
passed the check before; without it, sharing takes a race; a registration fails
with 500 only when it lost a race; tokens go to the account whose password was
shown even if it is deactivated and its email registered anew during the login;
and `Accounts` implements `EmailRegistry`.
`migrations`: overlapping, crashing runners never leave a record whose indexes
are missing unless the file was being reverted, leave no gap, and record a file
at most once per runner; commands that do not overlap keep the records in
order, whatever crashed, and leave an index of a migration that is not recorded
only where `up()` stopped midway or a drop failed unnoticed.
`server_lifecycle`: requests are accepted only while the database is connected;
`isConnected` is true exactly while the client can be used, through failed
attempts, breaks and quits; a process that has come up exits with 1 only for a
second signal, a connection that fails to close, or what nobody handles, a failed
command or connection of the adapter or an exception out of an event's handler; the
process boots without Redis and shuts
down whatever state Redis is in, for it awaits QUIT only where that was sent.
`listing`: a page has exactly the rows its own totals announce unless a write
fell between its two queries; a walk through the pages misses a user who was
there throughout only if an account was deactivated meanwhile, a page was torn,
came outdated from the cache or was that of another filter, or `createdAt` was
tied, and shows one twice only if an account was registered meanwhile, a page was
outdated or `createdAt` was tied.
`analytics`: adjacent windows of a trend add up; a trend never takes back a
registration; and the retention report, when it is answered, counts what the trends
call active.
`notifications`: on one connection broadcasts of one process arrive in order and
none twice, and a member of the room misses one only without the adapter or by a
failure of Redis or of the sender's process on the way; nothing is pending for
ever (`Delivered`: of each broadcast it is true again and again that whoever is
owed it and not excused has it); and `Notifications` implements `RoomMulticast`.

*Bounds.* `MaxVer = 2` is the registration of a document and one more write, the
fewest for a value to be stale and an invalidation to be owed; that one
invalidation is overtaken by a later one takes three, and is left to the proofs,
which hold for any `MaxVer`;
`MaxTime = 2` with lifetimes 1 and 3 lets one token expire during a request and
another outlive the clock, and `FallbackTtl = 1` stands for the day that the
code uses for tokens already expired; `MaxTokens` stops logins after the first
issued pairs; the number of `Ids` bounds registrations, and three let an email
pass from its owner to a racing pair; `AllowDown` admits `migrate:down`. One
user suffices in `UserCache` since no action relates two users' profile keys
and a list sees the one user change; the proofs cover any number. Two requests
are the fewest that race; that a fill may race with one of two overlapping
scans, which takes three, is covered by the proof of `StaleOnlyByRace` for any
number of requests. Symmetry is used for requests, runners, documents, users and
passwords, never with a liveness property.

In `listing`, three accounts at two a page make a full page, a partial one and a
boundary an account can cross either way, three instants order them or tie them;
one client suffices, since another changes nothing but the cache, whose pages a
second walk of the same client finds (`End`, `Begin`); a filter by a role is a walk
through a smaller collection, so the filters are none and `all`, which share a key. In `analytics` four instants are two months with weeks that straddle
them, and the windows are all pairs of instants; one session is enough to fail
the retention report. In `notifications`, two processes are the fewest with a hop
between them and two broadcasts the fewest with an order; a socket may move from
one process to the other with a broadcast under way.

`MaxRetries` is 10 in the code and in `server_lifecycle`; two signals are the
fewest that race.

*Fairness.* `UserCache` assumes weak fairness of `Expire(k)`, which Redis grants
to every key with a TTL, and every key the code stores has one; its requests are
under no fairness, a process may stop at any await. `ServerLifecycle` assumes
weak fairness of what ends by itself: an attempt to connect to Redis
(`connectTimeout` of 10 s, `redis.client.ts:67`) and the search for a MongoDB
server (`serverSelectionTimeoutMS` of 5 s, `connection.ts:30`), each by success
or failure, closing the pool, and QUIT, which Redis answers or the connection
fails. QUIT itself has no timeout: if Redis closes the connection in good order
without answering, the shutdown waits until the container is killed. Nothing is
assumed of requests, of signals, or of Redis becoming reachable. `Notifications`
assumes weak fairness of each hop, `Relay` or `LosePublish` and `Receive` or
`LoseCopy`: the two Redis clients of a process go on with what they have queued or
received, by an answer or by an error. Nothing is assumed of clients or of
processes booting.

## Where the code departs from what is written about it

Each of these is a run whose property states what a comment or document says
and which TLC refutes; `PROJECT.json` quotes the lines.

1. `TracksApplied`: `_migrations` is said to track what is applied. `down()`
   drops indexes and deletes the record in two steps; if the process stops in
   between, the record stays, and `up()` never restores the indexes.
2. `BootMakesEmailUnique`: the schema declares two indexes on `{ email: 1 }`,
   which get the same default name `email_1`, so an application booted on a
   fresh database lacks the unique one. `email_1` also makes `createIndex` of
   `idx_user_email` fail, so `migrate:up` cannot repair it.
3. `InFlightFinished`: the shutdown is said to finish requests in flight. It
   calls `httpServer.close()` without awaiting it, closes the connections and
   exits with 0, whatever is in flight.
4. `NewRegistrationsCounted`: the retention pipeline is said to count new
   registrations and to handle users without sessions. For these the month it
   compares with is missing and the comparison false, so they are never new; one
   with sessions fails the aggregation at `$size`. Nothing in `src/` writes
   sessions, so the report always says 0.

Met on the way and visible in a module without a run of its own:

- `register()` is documented to throw `ConflictError` if an active user has the
  email (`auth.service.ts:54`); a registration that loses the race is answered 500
  (`CreateRefused` of `Accounts`). `RefusedOnlyByRace` is what holds.
- `updateUser` invalidates "to prevent stale reads" (`user.service.ts:124`). A
  getter that read the document before the update stores it after the
  invalidation, and stale reads follow until the TTL ends. `StaleOnlyByRace` says
  exactly when.
- "Account deactivation — all tokens are blacklisted"
  (`token-blacklist.service.ts:21`). No step of the deactivation does it; they stay
  valid until they expire (`Serve` of `TokenRevocation`).
- "Token-based auth works identically to HTTP" (`socket-auth.middleware.ts:26`).
  The handshake looks up neither the blacklist nor the cutoff (`Handshake` of
  `TokenRevocation`).
- "The cache key encodes the pagination params for uniqueness"
  (`user.service.ts:89`). `?role=all` and no `?role=` have one key and different
  filters (`KeyRole` of `Listing`); `MissedHasCause` names the cause, and without it
  TLC finds the walk that is answered the empty page.

## Proofs

`tlapm <module>` checks them. Each module proves `Spec => []IndInv` for an
inductive invariant and derives the properties of the runs from it; all are for
arbitrary constants under the named assumptions of the module.

| Module | Theorems | Assumptions | Why the invariant is stronger |
|---|---|---|---|
| `UserCacheProofs` | `TypeCorrect`, `StaleOnlyByRaceHolds`, `Implements` | `KeysApart`, `MaxVerNat`, `NoneIsNoEntry`, `NoneIsNoKey` | during a scan one must know which older entries it has still to delete (`ScanOwes`) and which fills under way may still store an older value (`ScanSeesFills`, `StaleFillRaced`); for the refinement, that a fill is marked only once it has read and that a DEL comes before a scan (`Beginnings`) |
| `TokenRevocationProofs` | `TypeCorrect`, `LogoutRemembered`, `GuardSound`, `CutoffRemembered`, `Implements` | `Positive`, `RevokeOutlastsTokens`, `NoneIsNoToken` | the properties speak of what Redis holds now; the invariant says until when (`KeptUntilExpiry`, `CutoffKept`) and that a TTL about to be stored suffices (`TtlSuffices`); for the refinement, the converse: Redis holds nothing that was not revoked, and of a cutoff the last one (`NothingElse`) |
| `AccountsProofs` | `TypeCorrect`, `Unique`, `OnlyByRace`, `RefusedByRace`, `Earned`, `Implements` | `NoneApart` | a request carries the document it found from command to command (`Serving`); of a check only this is left at the insertion: the email is free, or a rival was seen taking it (`CheckHolds`) |
| `MigrationsProofs` | `TypeCorrect`, `RecordsSound`, `RecordsComplete`, `RecordsInOrder`, `RecordsBounded`, `LeftoversExplained` | `AllowDownBool`, `RunnersFinite` | a runner about to record a file has created its indexes unless a revert was begun, and has seen the older files recorded (`AtWork`, `Created`, `OthersRecorded`); while commands have not overlapped there is one runner, and what it has read is still so (`Single`); the records of a file and the runners that will still record it are together no more than the runners (`Bounded`) |
| `ServerLifecycleProofs` | `TypeCorrect`, `ListensSafely`, `FlagHolds`, `AbruptExitExplained`, `QuitAwaited` | `MaxRetriesNat` | the order of boot and shutdown (`BootOrder`); the flag follows the connection whatever the client is (`FlagIsLink`); a client that is quitting has a shutdown waiting for it, so another that finds it so is a second (`QuitAsked`, `QuitUnderWay`) |
| `ListingProofs` | `TypeCorrect`, `PagesFit`, `MissedExplained`, `RepeatedExplained` | `UsersFinite`, `MaxTimePositive`, `LimitPositive` | between the two queries, the one that is there agrees with what the other would answer now, or a write has torn them (`WalkOK`); no total exceeds the number of users, so `hasNextPage` leads nowhere beyond (`CacheOK`). For walks, a user's position is how many stand before him: whom a client was shown stands before the page it asks for (`Seen`), whom it still has to be shown does not (`Left`); positions are those in the list of the widest filter of a key (`Widest`), as a page of the other one is empty; registrations only move users back and deactivations only forward |
| `AnalyticsProofs` | `TrendsOfWindows`, `TrendsMonotonic`, `RetentionIsOfTrends` | `UsersFinite`, `MaxTimePositive` | it is not: the types of the collection suffice. What a pipeline counts in a row is the cardinality of a set of users, and the theorems relate these sets |
| `NotificationsProofs` | `TypeCorrect`, `InOrder`, `Explained`, `Implements` | `HomeIsFunction`, `MaxMsgsNat`, `NoneIsNoProcess` | broadcasts are in order in each place, in the queue, on the wire, in the log (`Ordered`), and from each place to the next (`Following`); what its own process broadcast a socket has got (`Owing`) |

The steps of each invariance proof follow `Next`, one action at a time, and
under it the conjuncts the action disturbs.

*Refinements.* Four modules prove `Implements`: the initial states map to initial
states, and every step from a state of the inductive invariant to a step of the
abstract module or to a stutter. None has a hypothesis beyond the named
assumptions.

- `Accounts`: `Create` is `Claim`, `SoftDelete` is `Release`, or a stutter when
  the account was inactive already, `BuildIndex` and `DropIndex` are `Enforce` and
  `Relax`, all else a stutter.
- `TokenRevocation`: `Verify` is `Ask`, the two lookups are `AnswerToken` and
  `AnswerCut`, `Accept` is `Admit`, `Logout` is `Leave`, `BlacklistToken` is
  `Revoke`, `StoreCutoff` is `CutOff`, `Tick` is `Tick` although keys expire in it;
  the end of a request is `End`, a handshake and what never executes a stutter. An
  answered lookup about a live token is true in both directions: yes, by
  `KeptUntilExpiry` and `CutoffKept`; only if, by `NothingElse`.
- `UserCache`: `Find` is `Fetch`, `CacheSet` is `Return`, the writes are `Write`,
  those of `updateUser` and `deactivateUser` with `Owe`. `Invalidate`, `ScanFirst`,
  `ScanNext`, `DropPage` and their lost variants are all `Invalidate`, with the
  keys that begin, go and are promised chosen by the state. `ScanOwes` and
  `ScanSeesFills` are what a promise at the end of a scan rests on
  (`PromiseKept`): all older entries are in the page in hand, and all older fills
  are marked. Both sides of the step need the invariant, so the lemma has
  `IndInv'` as a hypothesis.
- `Notifications`: `Broadcast` is `Publish`, `Receive` is `Arrive`, since what is
  first on a wire is the sender's earliest in the air (`Following`), `Relay`,
  `LosePublish` and `LoseCopy` are `Vanish` or stutters, since nothing is in the
  air that was not (`AirShrinks`), and connections and rooms map one to one.

Only model-checked: `EventuallyCoherent`, `BootEnds`, `ShutdownEnds` and
`Delivered`; liveness under fairness is beyond the prover. `QuitUnderWay` is proved
of the third: a shutdown that waits, waits for something.

## What is not modelled

- Formats and names of documents (roles and `createdAt` are in `UserCollection`
  only, `lastLoginAt` in `Accounts`); validation of requests;
  the mapping of errors other than those named above; rate limiting (a library
  with memory per process); logging; configuration.
- Signatures and hashes: a token is what was signed, and a password verifies
  against its own hash only.
- `CacheService.exists`, `setIfNotExists` and the model's static `findByEmail`,
  which nothing calls; `status()` of the runner, which changes no state.
- The HTTP shell: stateless, but for the rate limiter. A pagination that does not
  parse is answered with page 1 of 20 (`user.controller.ts:49`); `Listing` has
  clients whose pagination parses.
- Clocks that differ between processes: `iat`, `exp` and Redis share one.
- Duplicate emails that arise between two commands of a runner: `Duplicates` is
  fixed for a run of `Migrations`. In `Accounts` they do arise, and `BuildIndex`
  waits until they are gone.
- The role distribution, one `$group` over the active users: nothing about it could
  be checked that does not restate it.
- A loss of MongoDB while a process is up: Mongoose reconnects and queues, and no
  exit follows from it.
- Updates of names in `Listing` and `Analytics`: no list is sorted or filtered by
  them, and no report counts them.

## Plan

In order of importance; the first eight are done.

1. `UserCache`: checked and proved.
2. `TokenRevocation`: checked and proved.
3. `Migrations`: checked and proved.
4. `Accounts` and `EmailRegistry`: checked and proved, refinement included.
5. `ServerLifecycle`: checked, its safety proved.
6. `Notifications`: checked, its safety proved.
7. `Listing` and `Analytics`: checked and proved.
8. `CachePromise`, `RevocationRegistry` and `RoomMulticast`, the abstract
   specifications of the first, second and sixth: checked and proved.
9. Composition of `Migrations` and `Accounts`: an application that boots first,
   duplicates that then arise, and the migration that cannot build its index. The
   last step is in `Migrations` for a collection that has duplicates.
10. An abstract list of applied migrations, which `Migrations` implements as long as
   commands do not overlap: so far `RecordedIsApplied`, `NoGaps` and
   `InOrderUnlessOverlapped` say it in parts.
