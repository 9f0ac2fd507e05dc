# Formal models of enterprise-platform-services

TLA+ specifications of the platform's own logic, model-checked with TLC on small
instances and proved with TLAPS for every value of their constants. Paths below
are relative to the repository.

## 1. The system

A micro-frontend platform. A host shell loads remote front ends (login,
analytics, reports) at run time; they share a login session kept in the browser;
a NestJS backend for frontends (BFF) authenticates users with a PKCE-like flow
and fronts other services. An archived Express BFF is kept beside it.

| Component | State it keeps | Operations | Hard behaviour | What makes it correct | Modules |
|---|---|---|---|---|---|
| BFF auth endpoints (`services/bff/src/modules/auth`) | `pkce:<id>` and `refresh:<token>` entries in a cache shared by all replicas | initiate, exchange, refresh, logout, me, metrics | each handler awaits the cache two or three times; other requests and replicas run in between; the cache may reject, entries expire, replicas restart | a session is used up by the first answer and never claimable afterwards; revoked tokens stay dead, live ones usable; every request is answered | `AuthService`, `PkceLedger` |
| Auth metrics (`observability/src/monitoring/auth-metrics.ts`) | counters per process | three record functions | several requests, several record calls each, restarts | counters say what was answered | `AuthService` |
| BFF cache and configuration (`services/bff/src/config`) | Redis or in-process cache, ttl, allow-list | read at start | redeploys change the allow-list under requests in flight | as above | `AuthService` |
| BFF request pipeline, JWT guard, health service, microservice client | probe results, retries left; the cookie is the browser's | `GET /health`, `GET /api/auth/me`, `requestWithRetry` | tabs share one cookie, probes run one after the other, an error passes two catches before it is judged | answers are about the asker, health is what was seen, failures that may pass are retried | `BffHttp`, `Microservices`, `Bff` |
| Websocket gateway (`modules/websocket`) | connection map, rooms | connect, subscribe, broadcast | refused handshakes, disconnects, replicas | the map forgets who left, a subscriber hears its rooms | `RealtimeGateway`, `Bff` |
| Circuit breaker (`runtime/src/circuitbreaker`) | state, two counters, time of last failure | `execute` | concurrent calls settle in any order and in another state than they started in | opens, refuses and closes only on the evidence it should; recovers | `CircuitBreaker` |
| Platform auth client, login MFE's hook, retry policy (`packages/platform-auth`, `apps/login-mfe`, `runtime/src/retry`) | session in browser storage, PKCE draft, attempt counter | login, refresh, logout, `usePkceLogin`, `withRetry` | lost answers, overlapping refresh and logout, retries | stored session is one the BFF accepts; bounded attempts | `AuthClient` |
| Login MFE's form (`LoginScreen.tsx`) | fields, loading, error | type, submit, leave | a timer that outlives the form | submits what is shown, spins for its own timer | `LoginForm` |
| Shared pub/sub (`packages/shared-pubsub`), the shell's message handler | handler sets, localStorage | publish, subscribe, storage and message bridges | three delivery routes, several tabs, bridges that publish again | windows that listen agree once things are quiet; every bridged window hears | `EventBridge` |
| Host shell MFE loading (`Shell`, `MFELoader`, `MFEBoundary`, `ErrorBoundary`) | promise and container caches, route | navigate, load, mount, unmount | pending loads across unmounts and route changes, cached failures, render errors | a container is initialised before it is used, a remote that fails takes nothing down with it; what is shown belongs to the route | `MfeLoader` |
| Host shell library code (`remoteLoader`, `RemoteComponent`, `EventBus`, `ApiClient`, `useRetry`) | promise caches, handler set, attempt counter | load, subscribe, publish, request, retry | handlers that change the set during a publish, timeouts, retries | one fetch per module, later handlers are still called, bounded attempts | `HostLibrary` |
| Legacy BFF (`services/bff/legacy`) | in-memory Maps of sessions and tokens, report streams | REST and GraphQL sign-in, refresh, logout; a stream | two clocks, lazy expiry, an interval that outlives its handler | a session yields tokens once, tokens stay refreshable, intervals end | `LegacyBff`, `LegacyStream`, `OneTimeLedger` |
| Security package's RBAC, JWT pair and middleware | none | pure functions nobody imports | | | |
| Contracts, shared types, shared UI, analytics and reports MFEs, infra, tools, scripts | none, or none of the program's own | | | | |

Interactions: the login MFE calls `initiate` and `exchange` through a retrying
client, stores the answer with the platform auth client and publishes it with
the pub/sub; the host shell and the other MFEs listen and call `refresh` and
`logout`. Processes of the BFF share only the cache; nothing in the repository
fixes their number (`infra/k8s/base/deployment.yaml` is the host shell's), so the
models take one or two. `PROJECT.json` lists every component with its status,
and the hazards of each at the line where they bite.

## 2. Modules

| Module | What it is |
|---|---|
| `PkceLedger` | abstract: what a PKCE session promises when its store has an await between get and del |
| `OneTimeLedger` | abstract: the stronger, one-time session |
| `AuthService`, `MCAuthService`, `AuthService_proofs` | the four endpoints over the cache, with replicas, time and restarts; implements `PkceLedger`; instances; theorems |
| `AuthClient`, `MCAuthClient`, `AuthClient_proofs` | one browser tab as a client of the BFF over a network that loses messages; instances; theorems |
| `CircuitBreaker` | the runtime's circuit breaker |
| `MfeLoader`, `MCMfeLoader`, `MfeLoader_proofs` | the host shell's routes and loader; instance; theorems |
| `LegacyBff` | the archived BFF's sign-in; implements `OneTimeLedger` |
| `LegacyStream`, `MCLegacyBff`, `LegacyBff_proofs` | `LegacyBff` and its report stream; instance of both; theorems about both |
| `EventBridge` | events between windows |
| `Libraries_proofs` | theorems about `CircuitBreaker` and about `EventBridge` |
| `Microservices` | the BFF as a client of the services behind it |
| `BffHttp`, `BffHttp_proofs` | the BFF's HTTP edge over `Microservices`; theorems about both |
| `RealtimeGateway` | the websocket gateway |
| `Bff`, `MCBff`, `RealtimeGateway_proofs` | both edges of one process, a behaviour being about one; instance; theorems about the gateway and about the composition |
| `HostLibrary`, `LoginForm` | the shell's library code; the login form |
| `Frontend`, `MCFrontend`, `Frontend_proofs` | these two, `CircuitBreaker` and `EventBridge` in one module, a behaviour being about one part of them; instance; theorems |

### AuthService

A request is a process with a program counter `pc[r]`, the await it is at. The
code between two awaits is one action, and the effect of each awaited cache
operation is another, so that requests of one event loop and of several replicas
interleave exactly at the awaits.

| Code | Actions |
|---|---|
| `initiatePkce`, `createSession` | `initiatePkce` -> `createSession` (`cache.set`) -> `respondInitiate` |
| `exchangePkce`, `consumeSession` | `exchangePkce` -> `consumeSessionGet` (`cache.get`) -> `consumeSessionDel` (`cache.del`) -> `checkExchange` (the checks in their order, then signing) -> `storeRefreshToken` (`cache.set`) -> `respondExchange` |
| `refreshAccessToken` | `refreshAccessToken` (verify) -> `validateRefreshToken` (`cache.get`) -> `revokeRefreshToken` (`cache.del`) -> `createAuthResponse` -> `storeRefreshToken` -> `respondPlain` |
| `logout` | `logout` -> `revokeRefreshToken` -> `respondPlain` |
| a rejected cache promise | `...Rejects`: carried out or not, the request ends with a 500; a rejected read of a refresh token is caught by `validateRefreshToken` and is a miss |
| cache ttl, clock | `expireSession`, `expireToken`, `Tick` |
| process restart (`main.ts`, `redis.config.ts`, `configuration.ts`) | `restart`: requests in flight get no answer, counters start at 0, the allow-list is read again, an in-process cache is empty |

Data. A session id is the id of the initiate request that created it
(`randomUUID`). The state, the verifier and the code of an exchange are booleans
(matches / present); PKCE hashing itself is not modelled. A refresh token is the
pair of e-mail and second of signing, because its text is a function of those: the
payload is `{sub, email, roles, type}`, all derived from the e-mail, and `iat`
has whole seconds. A cache entry is its expiry time, 0 when absent. The counters
are natural numbers (they never reach 2^53). Clients present session ids and
refresh tokens they were answered with, or unknown ones; guessing is not
modelled. Requests that fail DTO validation never reach the service and are left
out, so is the access token (never stored, never revoked).

Properties:

* `ImplementsLedger` (and `NoLateClaim`, which follows and is proved): the ledger says that a session is opened
  once, closed once and never again, that a claim can only be taken while it is
  open, and that tokens are handed out only for a claim and only after the
  session is closed. It deliberately allows several claims: that is what
  `get` followed by `del` gives.
* `AttemptConsumesSession`: an exchange that got any answer but a crash has used
  the session up, so a wrong state cannot be tried again.
* `RevokedTokenStaysDead`: after the second it was signed in, and with no
  request about to store that same text, a token absent from the cache stays
  absent, whatever races and retries follow.
* `UnrevokedTokenUsable`: an answered token that nobody tried to revoke is in
  the cache as long as its JWT is valid (the ttl and `exp` agree).
* `MetricsAgree`: the counters of each replica against the answers it gave since it
  started, as bounds: initiates and successes are in exactly once, no refusal is left
  out of the reasons and none is in more than twice (`exchangePkce` records some
  before it throws and again in its `catch`), and `failure` lies between the exchanges
  whose session was missing or did not match and all that were refused. That it is all of
  them, as the documentation says, is `FailedExchangesCounted`, which
  `failed_exchanges` refutes (section 6).
* `RequestsAnswered`: every started request is answered or dies with its process.

### CircuitBreaker

`execution`, the code's `execute`, is before its await `admit`, `probe` or `refuse`; after it, `succeed` or
`fail`, which call `onSuccess` and `onFailure`. Any number of calls may be in flight
and settle in any state. The code compares `Date.now() - (lastFailureTime || 0)`
with `timeout` and uses neither otherwise, so the state keeps that difference,
counted up to `timeout + 1`; `failureCount` is only compared with the threshold
and is counted up to it. Both cut-offs preserve every comparison. `quiet` and
`probes` are history variables for the properties: `quiet` is the time since any
call failed, kept apart from `lastFailureTime`, and `probes` the successes since
the breaker last half-opened.

* `CountersBelowThreshold`, `ClosesAfterProbes`, `RefusesExactlyWhileHurt`: what the
  state says about the calls that settled, late ones included.
* `Recovers`: once the service works, the breaker ends up closed for good.

### AuthClient

One browser tab: the sign-in of the login MFE and the refresh and logout of
`platform-auth`. Every call of `signIn`, `refreshTokens` and `logout` is a process;
nothing in the code keeps two of them apart (a second click, a second component
that gets a 401), so the model does not either.

| Code | Actions |
|---|---|
| `usePkceLogin.signIn` | `signIn` -> `savePkceSession` (the draft is saved, then the early return for an external provider or the exchange) -> `signedIn` (draft cleared, session stored, events published); `signInFails` is the `catch`, and every end goes through the `finally` in `signInEnds` |
| `withRetry` | `backoff` and `retry` after a fetch that rejected, `giveUp` after the last |
| `bff-client.ts` `refreshTokens`, `logout`, `request` | `refreshTokens` -> `refreshed`, `logout` -> `loggedOut`, `requestFails` |
| the page | `reload`: calls are gone, `sessionStorage` stays |
| the network | `lost` drops a request before it is served, `answer` reaches the tab only if it still waits for that attempt: an attempt the tab gave up may be served later |
| the BFF | `serveInitiate`, `serveRead` then `serveExchange` / `serveRefresh`, `serveLogout`, `storeToken`, `expire`, `secondPasses` |

The BFF is the one of `AuthService` seen from outside and coarser: the read of the
cache is one step, everything after it another, so two requests still race, and
any request may end with a 5xx after any part of its effect. A refresh token is
its text, which depends on user and second only (`auth.service.ts:164-184`): `storeToken`
gives a call a text of its own, named by the call and attempt, or any that was stored in the
same second (`recent`, emptied by `secondPasses`), so that overlapping refreshes, or a
refresh and a sign-in, may get one shared token. Texts given twice, and expired ones,
are collected in `excused`, a history variable. A `fetch` may reject at any time
before its answer is in, and may never end: no timer bounds it. The three
storage keys are written and removed together without an await and are one
variable. Delays of the backoff are not modelled, only that a timer fires.

Properties:

* `SessionUsable`: the refresh token the tab keeps is in the BFF's cache, unless
  some refresh or logout that presented it is still under way or ended in a way
  that does not tell (network failure, 5xx, reload), or its text is `excused`. Breaking it
  takes a particular order of two calls and two answers. The exception for a text given
  twice is needed: two refreshes of one second may be answered with the same string, a
  logout with the first answer revokes it, and the second answer stores it in the tab.
* `RefusalLeavesNothing`: no attempt of a sign-in from the refused one on left a token
  behind. An attempt before it may have: the retry of an exchange whose answer was lost
  is refused while that attempt's token lives on until it expires.
* `SpinnerStops`: `loading` is only on while a sign-in is in flight. The converse
  does not hold, two sign-ins share the flag and the first to end clears it; with
  one at a time it does (`SpinnerIsExact`, proved).
* `CallsEndOrWait`: in the end every call has ended or waits for an answer, or the body of
  one, that does not come; no call goes on retrying. That calls end is not true:
  neither `authClient.ts` nor `bff-client.ts` has a time-out or an abort, so a stalled
  body leaves `signIn` awaiting for ever, and the form disabled.

### MfeLoader

One page's life in the host shell. A load is one call of `loadRemoteComponent`; each
stretch of it between two awaits is an action, and the import promise of a
remote is shared through `remoteEntryCache`, whose rejected promises stay.

| Code | Actions |
|---|---|
| `Shell` (routes), the effect of `MFELoader` and its cleanup | `navigateTo`, which unmounts, mounts and starts a load (two under StrictMode) |
| `loadRemoteComponent` | `loadRemoteComponent` (cache look-up, `importEntry`) -> `awaitLoader` -> `initSharing` -> `initContainer` -> `getModule`; any of them may end in `loadFails` |
| the dynamic import | `importSucceeds` / `importFails`, `expose` when the remote's script sets `window[scope]` by itself |
| `MFEBoundary`, `ErrorBoundary` | a remote that throws while it renders: caught by the container's boundary where it has one (`boundaryOf`), by the one around the shell otherwise |

`ShownIsCurrent` relates the screen to the load the mounted container started
last, through abandoned loads; `GetAfterInit` is what the two caches
together must give although the check of `initializedContainers` and its add have an
await between; `LoadSettles` is about the promise cache, which keeps what was rejected.
`FailuresAreIsolated`, that no remote takes the shell down, is refuted (section 6).

### LegacyBff, LegacyStream

No handler of the archived BFF awaits, so a request is one action, the REST and
the GraphQL one each: `initiate`/`initiatePkceFlow`, `exchange`/
`exchangeAuthorizationCode`, `refresh`/`refreshAccessToken`, `logout`. The Maps
compare `Date.now()` in milliseconds, JWTs in whole seconds; `now` counts ticks,
`Second` of them to a second, so the two roundings meet in every way.
`LegacyStream` adds `GET /api/reports/stream`, the one handler that goes on after it
returned: `stream` (JWT checked when it is opened, then a first row), `interval`,
`drop`, `close`. Any access or refresh token opens a stream.

* `ImplementsOneTimeLedger`: the Map entry is there or not in one step, so a session
  is redeemed at most once: what `one_time` refutes for the NestJS BFF holds here.
* `UnrevokedRefreshable`: where `JWT_REFRESH_EXPIRES_IN` has a unit the hand-written
  `parseDuration` reads (hours, days, digits alone for milliseconds), a token is never
  forgotten before its JWT ends. With any other, such as `30m`, it returns 0 and a token can
  be refreshed in the millisecond it was stored and never again; the property says that
  too. The unit is a variable that `Init` chooses.
  `TokensHaveSignIn`: a stored token goes back to a redeemed session.
* `RowsAreCounted`, `IntervalsEnd`: rows are numbered without gap, the interval
  lives exactly as long as the connection and the close event after it (`StreamInv`
  is the first with the types).

### EventBridge

Windows of one origin, each with a queue of storage events and one of messages.
`publishEvent` is what a user causes; `publishFrom` (handlers, message to the framing window,
`localStorage`) is also what a bridge does with what it hears (`handleStorage`), so
an event is stored again by every bridged window; the shell answers messages of the
analytics channel with a publish (`handleMfeMessage`). That the shell also forwards the message to its
other `data-mfe-frame` frames is left out: no page in a frame listens for messages. The two channels differ in who
checks what and are told apart by `setting`.

* `QuietWindowsAgree` (with the types, `BridgeInv`): with empty queues, a bridged window has last heard what
  `localStorage` holds, through any crossing of events.
* `EveryWindowHears`: what is in `localStorage` reaches every window that stays bridged.

That two concurrent events come to rest is not true (two bridged windows can
re-publish each other's event for ever) and nothing in the repository
promises it; no application connects a storage bridge yet.

### Microservices, BffHttp

`requestWithRetry` is `request`, then `answered` or `fails`, whose `isRetryableError` reads
what `handleError` throws; errors are classes (a status that may pass, another, none in time,
an unknown service). `getHealth` probes service by service (`healthCheck`) while
services come and go (`flip`), and `overallStatus` folds the answers. `BffHttp` puts
both behind the request pipeline: `exchange` sets session and cookie, `refresh` the
session only, `clearAuthSession` (logout) clears the session only; `getCurrentUser` sends the
tab's header and the browser's cookie, `me` is middleware, guard
(`extractToken`, `getUserFromAccessToken`) and handler.

* `PassingFailuresRetried`: a call whose failure may pass gives up only with its retries used
  up. This is what the documentation says and `service_retries` refutes (section 6).
* `HealthIsWitnessed`: a status is justified by what each service was at some moment
  of the check (the history variables `wasUp` and `wasDown`).
* `OwnUser` (with the types, `HttpInv`), `ServedWhileLive`: with tabs that share a cookie
  of somebody else, or a stale one, a tab is answered about its own user, is
  refused only when its token has expired, and no expired token is served.

### RealtimeGateway

A socket is one connection of one replica. `handleConnection` adds to the map, then
validates and may disconnect; `drop` is the network, `handleDisconnect` the report of it,
`restart` the replica's. The three subscriptions join rooms, the three broadcasts append to
`log` and to the packets of the sockets in the room, `deliver` hands them over.
`wanted` and `heard` are history variables: who subscribed when, who got what.

* `MapIsLive` (with the types, `GatewayInv`): the map holds what is connected or dropped and not yet reported, and
  what it refused: those entries stay until the process ends.
* `HeardIsWanted`, `OwnReplicaDelivers`: a socket hears exactly the broadcasts its
  own replica sent to rooms it had joined; the ones of other replicas it misses.

`Bff` puts this edge beside the HTTP one. The two share no state, so a behaviour is
about one `edge`: the sum, not the product, of their state spaces.

### HostLibrary, LoginForm, Frontend

Library code no screen uses yet, and the login form. `Frontend` composes them with
`CircuitBreaker` and `EventBridge`, with `part` as the choice of one, for the same reason.

* `loadRemoteModule` and `RemoteComponent` (`FetchedOnce`): promises kept
  for the page's life, with `Suspense`'s fallback and an error boundary around.
* `EventBus.publish` (`NoneSkipped`): `Set.forEach` over a set that handlers change; a
  deleted entry is skipped, one added is visited, a handler may publish inside.
  `Gone` marks a deleted entry, so positions stay as `forEach` sees them.
* `ApiClient.request` under `useRetry` (`FailsAfterAll`, `EndsOrReads`): the abort timer
  covers the headers, not the body, so a call ends or waits for a body. `onRetry` is called
  in the `catch`: one that throws ends `execute` early, without `onError` (`brokenOff`).
* `LoginForm`: `StepOne`, `StepTwo` and its submit's 1.5 s timer, which keeps values and
  setters of the visit it was started in. `SpinsForItsOwn` and `SubmitsWhatIsShown`
  are about a timer that outlives its form.
* The runs check `HostInv`, which is the types, `FetchedOnce` and `FailsAfterAll`, and
  `FormInv`, the types of the form and its two properties.

## 3. Runs

| Run | Question | Bounds |
|---|---|---|
| `exchange` | two exchanges race on one session; counters, restarts, allow-list; every request ends | `FairSpec`, 1 initiate, 2 exchanges, 1 refresh on one replica with an in-process cache, an allowed and a malformed e-mail, allow-lists that change, ttls 1, clock 0..1 |
| `tokens` | refreshes and a logout race on tokens | 1 initiate, 1 exchange, 2 refreshes (symmetric), 1 logout on 2 replicas, clock 0..3, `PkceTtl` < `RefreshLife` so a mixed-up ttl shows |
| `one_time` | a statement of the documentation the code does not keep (section 6) | 1 initiate, 2 exchanges |
| `failed_exchanges` | the same, of the failure counter | 1 initiate, 1 exchange, an allowed and a malformed e-mail |
| `client_session` | overlapping sign-in, refreshes and logout | 1 sign-in, 2 refreshes (symmetric), 1 logout, `maxRetries` 1 |
| `client_sign_in` | retries, the spinner, what a refusal leaves, calls end or wait | `FairSpec`, 2 sign-ins, one external, 1 logout, `maxRetries` 1 |
| `loader` | overlapping, abandoned and failed loads | `FairSpec`, 2 remotes (one with `init`, one with a boundary), 4 loads, StrictMode |
| `loader_isolation` | a statement of the shell's README (section 6) | as `loader` |
| `legacy` | two APIs, two clocks, a stream | `FairStreamSpec`, 2 sessions, refresh tokens 2 s, access tokens 1 s, 2 ticks to a second, clock to 5, the setting in hours, days, digits and minutes, 1 stream of 2 rows |
| `bff` | tabs, a cookie, health; connections, rooms, broadcasts | 2 tabs and users, 1 of the tabs asks, token life 1, cookie life 2, clock to 2, 3 requests received, 2 services, 1 check, 1 caller with 1 retry; 2 replicas, 2 sockets, one user, dashboard and metric, 1 broadcast |
| `service_retries` | a statement of the documentation (section 6) | 2 services, 1 caller with 3 retries |
| `frontend` | library code, form, breaker, events between windows | `FairFrontSpec`, 1 container with 2 modules, 3 handlers with 5 subscriptions and 2 events, 1 call with 2 retries, 2 visits of the form; 3 callers, thresholds 3 and 2, timeout 2; 2 windows, either channel, framed or not, 2 events caused, queues of 2 |

One retry is enough to have an earlier and a later attempt of one request in the
network at once; a third attempt meets the answers of two earlier ones, which the
model treats alike, and the proofs cover any number.

Two requests of a kind are enough for the pairwise races the properties are
about: the cache has single-key operations, so a third exchange of a session
meets the same two situations (the record is there or not) as the second. Two
replicas are enough to separate what is shared (the cache) from what is not
(counters, allow-list, rooms); the clock runs past every ttl. Four loads are two
mounts under StrictMode, so a load of the mounted screen meets two
abandoned ones of its own remote or of the other. Two windows have a writer
and a reader in both directions at once. Three handlers let one handler be
removed and another added while a third runs, two events let a handler publish
inside a publish. One broadcast is followed or preceded by every step of both
sockets; broadcasts do not touch each other. Two visits are the fewest with a timer
of a form that was left. `CHECK_DEADLOCK FALSE` appears only where a finite set of
requests may all be done, or a clock or another bound may have been reached.

Fairness. `FairSpec` of `AuthService` has weak fairness on the steps of each
request that has started: Node's event loop runs every continuation that is
due, and the cache client settles every promise. Nothing is assumed about
clients, time or restarts. That rests on Redis coming back: commands queued in the client while it is away
(its offline queue) stay pending until it does. `FairSpec` of `AuthClient` has weak
fairness on the timer of a backoff only. It assumes nothing of the network or the BFF, not
that a `fetch` or the body of its answer ends, and nothing about who clicks.
`FairSpec` of `MfeLoader`: imports, inits and gets settle and microtasks run,
with either outcome. `FairStreamSpec`: Node emits `close` for a connection that is gone.
`FairFrontSpec`: timers fire, but that the body of an answer arrives
is not assumed; browsers run the tasks they queue; for the breaker, time passes, promises settle
and callers go on calling, since with nobody calling an open breaker stays open. Recovery of the
service is not assumed, it is the premise of `Recovers`. `BffHttp` and
`RealtimeGateway` have safety properties only.

## 4. Proofs

All theorems hold for every value of the constants that satisfies the named
assumptions (`KindsAreDisjoint`, `Deployment`, `Durations`, `Lifetimes`, `Nulls`; `Config`;
`CallsAreDisjoint`, `Retries`, `NullValues`; `LoaderAssumption`; `LegacyAssumption`,
`StreamAssumption`; `BridgeAssumption`;
`HostAssumption`, `FormAssumption`; `RegistryAssumption`, `HttpAssumption`,
`TokensAssumption`; `GatewayAssumption`). They use no bound on the number of requests, replicas,
e-mails, callers, retries, loads, sessions, windows, streams or handlers. `Lifetimes` says that
the ttl of a refresh token's entry is not shorter than the token's own life: both come from
`jwt.refreshExpiresIn`, which `parseDurationMs` and `jsonwebtoken` read alike in the units
the configuration's type admits (`h`, `d`, `m`). `LegacyAssumption` says nothing of the unit.

* `TypeCorrect` (`AuthService`): `TypeOK` is not inductive, because the shape of a
  request body depends on where its request is. `IInv` adds that a request past
  its arrival has a body of its kind, that only requests of the right kind are at
  each await, and that a token about to be stored was signed. `InitIInv` and
  `StepIInv` show it inductive, one step per action.
* `AnsweredMeansConsumed`: needs `SessionInv`: an exchange past its delete knows a
  session that is gone, and a session that is gone has left the states from which
  `createSession` could write it (each id is written once).
* `RevocationIsFinal`: an action property; the only writer of a token is a request
  whose `minted` is that token, and a fresh `minted` has `iat = now`, later than
  any dead token's.
* `LedgerImplemented`, `LateClaimsFail`: the refinement. `LedgerStatus` is `open` while
  the entry is in the cache, `unused` before it was written, `closed` after;
  claims are exchanges between their read and their answer. `SetSessionOpens`
  maps the write to `Open`, a successful read is `Claim`, the answer `Redeem`, and
  every other step that matters is `Lose` or a stutter.
* `TokensUsable`: `UnrevokedTokenUsable` speaks of answered tokens that still verify, and is
  not inductive. `TokenInv` adds that no token is newer than the clock, and that a token
  that was stored and whose revocation nobody `Tried` has an entry that `Lasts` as long as
  one written in the second of signing, even after its JWT ended; `Lifetimes` gives the rest.
  `RequestMoves` says once for all handlers what a step can do to the body, the token,
  the cache and the answer (`Alone`, `Tells`, `Handles`); this proof and the next ones need
  little else of the code.
* `CountersCount`: `MetricsInv` has equations where `MetricsAgree` has bounds, with finiteness of
  what was answered. A step that answers `r` with code `c` adds `r` to exactly the sets whose
  cardinality the equations compare with the counters `Counted(r, c, m)` increments; a restart
  empties both.
* `OneTimeUnlessOverlap`: when the statement refuted by `one_time` does hold. `OneHolds`
  (at most one exchange holds a session or was answered for it) and `RedeemedIsClosed` are
  inductive over the steps of `PkceLedger`, given `NoOverlap`; the proof goes through the
  refinement and not through the code. `NoOverlap` says nothing of answers: exchanges may
  come in any order, fail, die with their replica, as long as they do not overlap.
* `OneRefreshUnlessOverlap`: the same for a refresh token and the two ways in which it buys
  two: two refreshes that overlap (`NoRefreshOverlap`), and a text signed twice
  (`NoRemint`). TLC finds `OneRefresh` violated under either condition alone. `RotationInv`:
  at most one refresh has taken a token (`OneTakes`), and once one has replaced it, its
  entry is gone for good (`GoneWhenReplaced`).
* `TokensGoBackToSignIns`: `Provenance` follows e-mails along rotations. It needs all three
  of its parts, since tokens go from the cache to clients, back to a refresh and from there
  into the cache; what an exchange knows of its session stays (`ExchangeStays`), so
  `SignedIn` never becomes false (`SignedInStays`).
* `CountersStayBelow`, `ClosingIsEarned`, `RefusalMeansHurt` (`CircuitBreaker`): from an
  invariant that ties the history variables to the counters
  (`probes = successCount` while half-open, `quiet <= sinceFailure` and so on).
* `SessionIsUsable` (`AuthClient`): `SessionUsable` says nothing of answers still in
  the network, so it is not inductive. `IInv` is `Shape` and `Flow`. `Shape`: a request
  belongs to a call of its kind and to no later attempt than its call is at
  (`TimeOK`), there is one request per attempt, and an answer in the inbox is to
  the awaited attempt, whose request is gone. `Flow`: the text named after a request that is
  not carried out has been seen by nobody (`Fresh`, `NotYet`), a token on its way that
  was not given twice is nowhere else (`OneHolder`), and a token the tab has or is about to get is live
  or was revoked by a call that has not heard so (`Kept`). `ClientFlow` carries `Flow`
  over every step of the tab, `AnswerFlow` over every step of the BFF; `SendShape`,
  `SettleShape` and `AnswerShape` do the same for `Shape`, so that each action's
  lemma only has to show which of the cases it is.
* `SpinnerIsHonest` (`AuthClient`): `SpinnerStops` is inductive given `TypeOK`.
  `SpinnerIsExact`: given `OneSignIn` (no two sign-ins under way), `SpinnerTurns` (whoever is
  under way has the flag on) is inductive too, so the flag is on exactly then.
* `RefusalIsFinal` (`AuthClient`): `RefusalInv` says that attempt `n` of a sign-in is `Clean` (no
  token of it in the BFF, on its way or in the tab) as long as it is `Untouched`: not sent, not
  carried out, or refused; and that nothing of a refused one is left in the network.

* `MfeLoader_proofs`: `TypeCorrect`, `ScreenIsCurrent`, `GetsFollowInit` from one
  invariant: `IInv` adds to the three properties which loads may be at an await of
  which remote (a load past the look-up has a cached promise, one past the import a
  container, one past the init an initialised one), so that a cleanup or a late
  settle cannot take from a load what it has already checked.
* `LegacyBff_proofs`: `TypeCorrect`, `Provenance`, `TokensRefreshable` from an invariant on
  where ids and tokens come from (an id not generated has no record, a stored or
  signed token has a sign-in), and arithmetic on the two clocks: a token of second
  `iat` whose JWT verifies, `now \div Second < iat + life`, was stored no earlier than
  tick `iat * Second`, and `parseDuration` gives it `life * Second` ticks from there if it
  reads the unit (`Outlives`) and none if it does not (`Spent`).
  `OneTimeLedgerImplemented`: an entry in the Map is `open`; every handler is one step
  of the ledger or a stutter, expiry and consumption being `Close`.
  `StreamsAreCounted`: `StreamIInv` says of each stream that its client's rows are a `Prefix`
  1, 2, 3 ... of those counted, that one not opened has none (`Quiet`), and that an open one
  has all of them and a running interval (`Live`). `TokensBesideStreams` transfers
  the theorems about tokens to `StreamSpec`, which implements `Spec`.
* `WindowsAgree` (`EventBridge`, in `Libraries_proofs`): `QuietWindowsAgree` speaks of empty
  queues. `Settling` speaks of a window with no storage event queued: it has heard what
  `localStorage` holds, or a shell's last queued message is what it heard and will
  store again. `Silent` says who gets messages at all.

* `Frontend_proofs`: `FormIsShown` adds to `FormInv` that a form which is shown was mounted
  and that later visits have no timer, so that mounting one again starts clean.
  `LibraryIsSafe` follows from counts (`promise` says how often the module was fetched,
  `call` how many requests were made). `BusSkipsNobody` needs `AheadOf`: a handler a publish
  still owes the event has an entry ahead of where that publish is. Deleting leaves
  `Gone` and moves no entry, which is what keeps it true for every publish on the stack. `LibrariesImplemented`: a behaviour of
  `Frontend` is one of `CircuitBreaker` and one of `EventBridge`, so their theorems hold in it.

* `BffHttp_proofs`: `HealthSpeaksOfItsCheck` from
  `CheckOK`: while services are left to probe, each one probed is either counted healthy
  and was up, or was down. `AnswersAreOwn` and `LiveTokensAreServed` from `TabInv`, in
  which every token held or sent was signed by now, and `PipelineAnswers`, which says of
  all headers at once what the middleware and the guard make of them.
* `RealtimeGateway_proofs`: `MapFollowsLinks`, `OnlyWantedIsHeard`, `ReplicaDelivers` from
  `SocketOK`, which relates one socket's link, rooms and subscriptions to what it got: an
  open socket is in every room it ever subscribed to, so a broadcast that passes it by
  was to none of them. `ToSetAppend` and `ToSetHeadTail` say what a queue's steps do to
  the set of what is in it. `EdgesImplemented`: a behaviour of `Bff` is one of `BffHttp` and one of
  `RealtimeGateway`.

Every safety invariant, action property and refinement the passing runs check is proved.
Model-checked only: the liveness properties (`RequestsAnswered`, `Recovers`, `CallsEndOrWait`,
`LoadSettles`, `IntervalsEnd`, `EveryWindowHears`, `EndsOrReads`), which rest on fairness and
are beyond TLAPS, and the four that are refuted (`OneTimeSession`, `FailedExchangesCounted`,
`FailuresAreIsolated`, `PassingFailuresRetried`).

## 5. Plan

What is left, the most important first:

1. `AuthClient` mapped to the cache of `AuthService`, of which it keeps a coarser one
   of its own.
2. `GET metrics` and the exception filters as part of `BffHttp`, if routes are added whose
   answers depend on them.
3. The security package's middleware, once a route uses it.

## 6. Where code and documentation disagree

* `one_time`: `docs/auth/login-mfe-pkce-implementation.md:232` promises a one-time
  session; two exchanges that both read the record before either deletes it are
  both answered with tokens. Such an overlap is the only way (`OneTimeUnlessOverlap`).

* `failed_exchanges`: `docs/observability/OBSERVABILITY_SETUP.md:65` says a failed exchange
  increments `pkceExchangeFailure`; exchanges failing with `INVALID_INPUT`, `USER_NOT_FOUND` or
  `INVALID_EMAIL` do not (`auth.service.ts:89`).
* `service_retries`: `docs/backend/svc-mash/design-documentation.md:11` and `:71` describe retries
  of requests to microservices; `request` throws an `HttpException`, and `isRetryableError`
  looks for an `AxiosError`, so no request is repeated (`microservice.service.ts:107`, `:126`).
* `loader_isolation`: `apps/host-shell/README.md:59` promises that error boundaries isolate
  failures; only the login route has an `MFEBoundary`, so another remote that throws takes the
  whole shell to its fallback (`ErrorBoundary.tsx:17`).

The following are read from the code and have no run of their own:

* `docs/security/SECURITY_SETUP.md:79` says refresh tokens are revoked on refresh; a
  refresh in the second its token was signed in mints the identical string and
  stores it again (`auth.service.ts:172`). `RevokedTokenStaysDead` is therefore about
  tokens of earlier seconds. Two refreshes of one token that overlap are both answered too;
  `OneRefreshUnlessOverlap` says that there is no third way.
* `docs/auth/auth-token-sharing-across-mfes.md:78` keeps the user "Until logout", and line
  259 says that `logout` clears the session; a refresh whose answer the tab receives
  after the logout's stores a session again (`bff-client.ts:90`).
* `docs/auth/login-mfe-pkce-implementation.md:328` wants the retry policy "for transient
  5xx only"; `fetch` resolves on a 5xx, so `withRetry` never sees one and repeats only
  what the network failed.
* `apps/host-shell/README.md:9` and `:60` promise retries, for remotes too as it reads; a
  rejected import stays in `remoteEntryCache` and is never repeated (`MFELoader.tsx:69`). No
  property claims it as a guarantee.
* The gateway adds a connection to its map before it validates it, and Nest reports no
  disconnect for a socket that `handleConnection` itself disconnected: refused
  connections stay in the map.
* `getDashboard` of the legacy GraphQL API reads `context.user.id`, which no JWT carries.
* `useMfeEventBus` listens for `analytics.filters.changed.v1`; `Shell` dispatches
  `analytics.filters.changed`.
* `StepOne`'s login button only sets `loading`; nothing calls `onLogin`, so the form is
  reached by no user yet. `Analytics.tsx` opens the menus of all its cards at one anchor,
  and its dialog drops what was typed.

## 7. Not modelled

Cryptography, hashing and JWT encoding (their verdicts are inputs), headers other
than `Authorization` and the cookie, DTO validation, layout and styling, type-only
packages, deployment files, generators and scripts, GraphQL read queries, CORS and
the legacy rate limiter. The security package's RBAC tables, JWT pair, limiter and
middleware, `runtime/src/auth/post-message-bridge.ts`, `PKCEClient`, `auth.guard.ts`,
`exception.filter.ts` and `useMfeEventBus` are imported or registered nowhere.
The analytics and reports MFEs show static data. `Microservices` and the tabs of `BffHttp` share no state; they are
one module because one process serves them behind one pipeline.

The store of `AuthService` honours its ttl and loses nothing else: eviction is not modelled.
`infra/docker/redis/redis.conf:19-20` sets `allkeys-lru` and `appendonly no`, so a full or
restarted Redis may forget sessions and tokens, which then are refused as expired ones are;
`UnrevokedTokenUsable` says nothing of such a store. Nor is the Redis client's offline queue
modelled, on which the fairness of `RequestsAnswered` depends (section 3).
