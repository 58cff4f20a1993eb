# A TLA+ model of gotway

gotway is an HTTP API gateway. Services register themselves and their routes with
it, keep the registration alive with heartbeats, and the gateway proxies requests
to a healthy instance of the service that owns the route. This directory holds
TLA+ modules for the parts of it that carry state, TLC configurations that check
them on small instances, and TLAPS proofs of what matters most for all instances.

Run a configuration with `tlc -config <cfg> <MC module>` and check proofs with
`tlapm <module>.tla`.

## The system

| Component | State | Operations | Hard behaviour |
|---|---|---|---|
| Service registry (`internal/application`) | maps `instances`, `services`, `routes` behind one RWMutex; the cleanup goroutine's ticker and stop channel | `Register`, `Deregister`, `Heartbeat`, `cleanup`, `Stop`, queries | `Register` validates and inserts in two critical sections; two indexes kept by hand; time |
| Route patterns (`collision.go`, `proxy/matcher.go`) | none | `pathsOverlap`, `matchPathWithParams`, `MatchRoute` | the two files read the same patterns with different code; random map order |
| Registry client SDK (`pkg/client`) | `registered`, `instanceID`, `stopped`, stop channel, cancel function, heartbeat goroutine | `Register`, `Deregister`, `Shutdown`, heartbeat and re-registration | goroutines racing each other and the network; lost answers, retries, timeouts |
| Registry HTTP handlers (`handler/registry.go`) | none | register, heartbeat, deregister, list | status codes are the protocol with the client; a service registers under its own name only |
| Span exporter (`tracing/otlp.go`) | buffered channel, batch, done channel | `Export`, `batchLoop`, `flush`, `Shutdown` | full buffer, drain, spans that come too late |
| Process (`cmd/api/main.go`, `http/server.go`) | HTTP server, order of shutdown | `Run`, `Shutdown` | requests in flight while parts are already stopped; one deadline for all |
| Proxy and load balancer (`proxy/proxy.go`, `loadbalancer.go`) | a global counter | `Handle`, `Select` | separate snapshots of the registry; shared pointers |
| Rate limiter (`ratelimit`) | Redis sorted sets, or a map without lock | `Allow` | commands of concurrent requests interleave; fails open |
| Tokens and authentication (`jwt`, `pkg/auth`, `auth.go`, `service_auth.go`) | keys; the tokens in circulation | validate, turn external into internal tokens and these into the next service's | claims used after they were checked, lifetimes cut to seconds, tokens presented to anybody and again |
| Other middlewares, health, configuration, metrics | none | headers, logging | none |

The client talks to the handlers over HTTP; the handlers call the registry; the
proxy reads the registry through its queries; every request passes the trace
middleware, which exports a span when the request is done; `main` starts and stops
registry, exporter, Redis and the HTTP server.

What makes each part correct: the registry's maps agree, routes lead to live
services, nobody takes a live service's route, stale instances go away in time; the
collision check excludes what the matcher cannot decide; a client is registered
once while it runs and not at all after `Shutdown`; spans are exported once and in
order; the process stops without cutting off what it accepted; a request goes to an
instance that was heard of lately, and is refused only if there is none; the rate
limiter lets no more through than the limit and the requests in flight allow, and
refuses nobody without reason; a token tells the true path of its request, and the
authority it carries ends.

## Modules

| Module | Models |
|---|---|
| `ServiceDirectory` | what the registry promises: members join and leave, a key belongs to one service and goes with its last member |
| `Registry` | `internal/application`: registry, collision check, cleanup |
| `RegistryProofs` | theorems about `Registry` |
| `Routing` | patterns: `normalizePath`, `pathsOverlap`, `matchPathWithParams` as operators |
| `RoutedRegistry` | `Registry` with keys that are patterns, and `MatchRoute` over its route table |
| `RoutedRegistryProofs` | theorems about patterns and routing |
| `RegistryClient` | `pkg/client`: the four threads of a client |
| `ClientGateway` | a client, the HTTP handlers, and a gateway that is a `ServiceDirectory` |
| `ClientGatewayProofs` | theorems about `ClientGateway` |
| `OTLPExporter` | `tracing/otlp.go` |
| `OTLPExporterProofs` | theorems about `OTLPExporter` |
| `GatewayShutdown` | `main`, `Server.Run`, `Server.Shutdown`, requests in flight, on top of `OTLPExporter` |
| `GatewayShutdownProofs` | theorems about `GatewayShutdown` |
| `Proxy` | `ProxyHandler.Handle`, `GetHealthyInstances` and `RoundRobinBalancer`, on top of `RoutedRegistry` |
| `ProxyBalance` | the load balancer over many requests, on top of `Proxy` |
| `ProxyProofs` | theorems about `Proxy` |
| `RateLimiter` | `ratelimit/limiter.go` and the fail-open middleware |
| `RateLimiterProofs` | theorems about `RateLimiter` |
| `Tokens` | `jwt/jwt.go`, `pkg/auth`, the auth and service-auth middlewares, the identity check of `Register` |
| `TokensProofs` | theorems about `Tokens` |
| `MC*` | instances for TLC |

Definitions marked "variant that must fail" are copies of an operator with a
plausible bug; they are used by no specification and serve to see that the
properties notice.

### Registry

`instances`, `services` and `routes` are the three maps as functions on a changing
domain. A critical section is one action, except cleanup: `CleanupScan` takes the
lock and collects what expired, then `CleanupRemove` removes one instance after
the other in any order, and `toRemove # {}` is the lock being held (`Unlocked` in
all other actions). `Register` is `RegisterValidate` (up to `RUnlock`; a handler's
call then waits in `pending`) and `RegisterCommit` (from `Lock`). A refused call
changes nothing and is not a step. UUIDs are modelled by choosing an id nobody
uses; ids of removed instances may come back, which over-approximates.

Time is relative. `elapsed` is the age of the last heartbeat, `timer` the time
since the cleanup ticker fired; `Tick` advances all of them. The cleanup goroutine
runs at most `Lag` late, a handler takes at most `MaxDelay` from validation to
insertion (with the timestamp taken anywhere in between); ages saturate at
`AgeCap`, above every comparison in the code. `Overlap` is the relation the
strict collision check uses; it is a parameter here and computed in
`RoutedRegistry`. `Restart` is the loss of the process: nothing is persisted.
`HeartbeatInterval` is what `Register` announces and `ClientInterval` what the
client makes of it; `KeepsPunctual` compares it with what cleanup allows.

### Routing and RoutedRegistry

A path is its sequence of segments and whether it ends in a slash; a segment is
a literal, `:name`, `{name}` or `*`. Parameters in the middle of a segment
(`a:b`), which the collision check's regular expression also replaces, are left
out. `MatchRoute` returns the set of services a map iteration may yield.

### RegistryClient and ClientGateway

Threads are the callers of `Register`, `Deregister` and `Shutdown` and the
heartbeat goroutine; `pc` says where each is, `rpc` is its open HTTP call. A call
that fails (`CallFails`) may have reached the gateway before, may reach it later
(`stray`) or never. `Cancelled` is the heartbeat's context after `Shutdown`. With
`CallsInOrder` the service makes one call after another and `Shutdown` last, else
they overlap. Retries are `MaxRetries` (5 in the code), failures in the network
`MaxLoss`, restarts and untimely expiries (`ExpireLate`) `MaxFaults`. An instance
without heartbeats, because no client knows of it or the heartbeat goroutine is
gone, expires without a fault (`ExpireSilent`).

### OTLPExporter and GatewayShutdown

The channel, the batch and the label of `batchLoop` are the state; `accepted`,
`flushed`, `dropped` and `closedAt` are history. A failed post loses its batch
exactly as a successful one removes it, so `FlushReturns` has one outcome.
`GatewayShutdown` walks `main` through `Server.Shutdown` while requests arrive
(until the HTTP server is told to stop), finish and export their span, or panic and
export none. `ListenAndServe` may return an error at once (`server = "failed"`),
which is only logged: the process waits for the signal and stops as usual.

### Proxy

`req` holds the request of each goroutine. `Match` is the arrival and the snapshot
of the routes, `Denied` or `Pick`/`Unavailable` the end of authentication and the
snapshot of the healthy instances, `Select` the atomic increment, `Forward` the
rest of `Handle`. In between, the registry does anything it can do (`RegistryStep`,
`ProxyTick`, `ProxyRestart`). `waited`, `silent` and `steady` are history.
`ProxyBalance` has the same requests over a registry in which instances register and
stay, and asks whom the balancer (`Chosen`) leaves out.
The counter is kept modulo `Cycle`, a multiple of all list lengths; that the
`uint64` wraps around after 2^64 requests is left out. The queries' pointers are
ids here: what is read through them after the lock is gone, the address, never
changes. What authentication decides is in `Tokens`.

### RateLimiter

One key. A request reads the clock (`Start`) and then takes one step per Redis
command, or one for the read and one for the write of the map. Commands of other
requests come in between. `Resend` is go-redis repeating a pipeline, or the
`ZPOPMIN`, that was executed but not answered, up to `MaxRetries` times (3 by
default, and `redis/client.go` leaves it); `resends` counts the repetitions.
`PipelineFails` may leave any prefix of the commands executed, for up to
`MaxFailures` requests. A repeated command is
executed before the call returns: what a broken connection still delivers after the
client gave up is left out. The sorted set is the set of its scores; requests
that read the same nanosecond, whose members would coincide, are left out, and so
is the rounding of scores to 53 bits. `MapFault` is the runtime ending the process
because of concurrent map accesses; without it a race loses updates. `MaxDelay`
is the longest a call takes. The Redis client's timeouts bound it (by default 5
seconds to dial and 3 for each command, four attempts), and it is assumed to be less
than the window, a minute in the code, which holds unless every dial and command of
both round trips runs into its timeout. When the key
reaches its deadline, `Tick` drops all entries; `forgotten` (history) are the calls
that were between their `ZADD` and their `EXPIRE` at that moment.

### Tokens

A token is its claims, the key pair that signed it and the time. `tokens` are all
tokens ever made; anybody may present any of them to anybody, at any time. A
handler uses claims up to `Hold` after it checked them (`CheckTimes`).
`AuthenticateRequest` and `CallService` make the next token of a request; `Register`
is the handler behind the service-auth middleware. `keys` says what is configured: two
key pairs, one for all tokens (`NewService` derives the public key from the private
one if it is given no other) or none. Without, the gateway has no `jwtService`: it
makes no tokens, and its registry takes every name from everybody (`RegisterOpen`).
With a public key only, it refuses what `AuthenticateRequest` would let pass, which
adds no behaviour. Claims are in seconds and the clock is finer, so `Expiry` cuts off a fraction and `Parse` does not. External
tokens come from the auth service (external), with or without `exp` and `nbf` and with
any audience of `ExternalAudience`; a service asks for tokens for any audience of
`Target`, a parameter of `GenerateServiceToken` that nothing checks.
`MaxTTL` is the longer of the gateway's and the services' lifetimes; `GenerateServiceTokenWithTTL` with another lifetime
is the same with another `ServiceTTL`.

## What the runs check

| Run | Instance | Result |
|---|---|---|
| `registry` | 2 services, 3 keys of which two overlap, 2 ids, 1 handler, TTL 2, lag 1, strict, fair | maps agree, routes backed and kept, staleness bounded, punctual instances kept, routing unambiguous, refines `ServiceDirectory`, silent instances removed |
| `registry_steal` | 2 handlers | **violated**: two registrations pass the check, the later takes the route |
| `client_session` | 5 ids, 2 lost calls, 1 fault, a competing service | duplicates explained, `Shutdown` quiet |
| `client_live` | 3 ids, 2 lost calls, 1 fault, `Register` and `Shutdown` concurrent, fair | client recovers, `Shutdown` returns, and after it, even after a timeout, nothing of the client is left for good |
| `client_leaves` | 1 fault | **violated**: `Shutdown` during re-registration leaves an instance |
| `client_deregister` | no faults | **violated**: heartbeat goroutine registers again |
| `shutdown` | 4 requests, buffer 2, batch 2, fair | spans in order, none lost, drain complete; spans flushed, goroutine returns; the process ends by the deadline, and without it if nothing hangs |
| `shutdown_stranded` | 4 requests | **violated**: spans exported after the drain are never flushed |
| `proxy` | 1 key, 2 services, 2 ids, 2 goroutines, TTL 1, not strict | no stale target, no false 503, no empty list in `Select` |
| `balance_shared` | 2 services, 3 ids, 1 goroutine, fair | **violated**: requests of two services alternate and one instance gets none |
| `limiter` | limit 1, window 5, 4 requests, 2 in flight, 2 repetitions of one command or of two, 1 failure, both backends, fair | excess bounded by the requests in flight, the repetitions and the forgotten calls, refusals have a reason, keys go away |
| `tokens` | two key pairs, one or none, 1 user, 2 services, 1 root, 3 internal tokens, half seconds | traces are paths, authority ends, good tokens accepted, names registered by their owners |

The violated runs state what the client's README, an error message or a test
says; `PROJECT.json` quotes the lines under `findings`.

Bounds. The registry's run has one handler, because half of its properties need
it; the invariants that hold for any number are proved for any number, and run
`registry_steal` has two. TTL 2 with a cleanup period of 2 and lag 1 has ages below,
at and above TTL and 2 TTL and tickers that are late; the proofs cover all other
values. The keys have a literal, a parameter and both; again a proof covers all
patterns of any length. With one retry, two lost
calls exhaust the retries; five ids (in `client_session`) leave a free one with
two orphans, a stray call's id and the client's own. A buffer and a batch of two have all the cases
empty, partly filled and full. Two ids give the proxy lists of length 0, 1 and 2,
and one key that changes its owner between two steps of a request; two goroutines
are enough for any race on the counter, and three instances for lists of different
lengths on it. The registry of `balance_shared` only registers, since an
instance that expires is not offered for ever. Four requests fill the limiter's window of
one, are refused, pop each other's entries and outlive the window, and with one
repetition the bound is less than they are; for two, where it takes five requests and a
window of six, it was checked separately. Theorems cover all limits, windows and
numbers of requests and repetitions. Three internal tokens are
a request's path over two services and one token beside it. Theorems cover any
number. In the client's, the process's, the limiter's and the
tokens' runs deadlock is not checked: they really end, after `Shutdown`, when
everything has been exported, or when the bounded requests, tokens and time are
used up.

Symmetry of ids, services and spans is used only where the property is an
invariant or, in `registry_steal` and `proxy`, a property of single steps; the runs
under fairness use none.

## Fairness

- Registry: time passes, the cleanup goroutine runs after its tick, a handler
  gets the lock. Nothing is assumed of heartbeats, deregistrations and clients.
- Client: each goroutine runs, the gateway answers requests that reach it, a
  cancelled call returns. Strong fairness for the two cases of the heartbeat's
  `select`, because Go picks among ready cases at random. Nothing is assumed of
  the service, the caller's contexts, the network or the faults. The gateway
  removes an instance without heartbeats, which `SilentRemoved` shows of `Registry`.
- Process: the specification assumes only that `main` takes its steps. What else a
  property needs is a hypothesis of it. `DeadlineComes`: the five seconds pass; for
  `Exits`, where neither requests nor posts need to end. `ExporterRuns`: `batchLoop`
  runs, every post ends (the HTTP client has a timeout of ten seconds), and strong
  fairness for the ticker and the done case of `select`; for `SpansFlushed` and
  `LoopReturns`. `DrainsByItself` has it and `HandlersReturn` as hypotheses, and not
  the deadline. `LoopReturns` also needs that spans stop coming, which a finite
  set of spans gives: with endless traffic the drain loop may never find the channel
  empty.
- Balancer: a goroutine that handles a request goes on. Requests need not come, and
  those that come may be of any service.
- Limiter: time passes (Redis expires keys by it) and a call that was made goes
  on: its timeouts end it. Requests need not come.

## What is proved

All theorems hold for every value of the constants under the named assumptions of
the modules:

- `TimeAssumption`: positive TTL and second, the cleanup's lag less than its
  period, handlers not slower than the TTL;
- `OverlapAssumption`, `SegmentAssumption`, `SizeAssumption`, `SelfAssumption`,
  `FaultsAssumption`, `ClientAssumption`, `WaitAssumption`: the shape of the
  parameters; `NoIDAssumption`, `NoneAssumption`: a placeholder is no id, no service;
- `CycleAssumption`: finitely many ids, and the proxy's counter is kept modulo a
  multiple of every list length;
- `LimiterAssumption`: a positive limit and window, and calls that end within less
  than the window, a minute in the code (see RateLimiter above); any number of
  repetitions;
- `NameAssumption`: services, gateway, auth service and the registry's audience have
  different names, and the two keys are different; `AudienceAssumption`: audiences are names or empty;
  `TokenTimeAssumption`: lifetimes are natural numbers.

`RegistryProofs`. The inductive invariant `IInv` is `TypeOK`, `IndexConsistent`,
`RoutesBacked`, freshness of pending ids, `HealthyFresh` and `ExpiredRemoved`.
`RoutesBacked` alone is not inductive: removing the last listed id drops the
service, so it needs that lists hold exactly the live ids, each once; and
`IndexConsistent` needs that an id waiting in `pending` is in no map. The two
staleness bounds rest on `timer` and on `toRemove` being exactly what expired.
From it: `TypeCorrect`, `IndexesAgree`, `NoDanglingRoute`, `StalenessBounded`,
`SilenceBounded`. `PunctualAreKept` needs that nobody on cleanup's list is heard of
while the lock is held (`StillExpired`), and that the announced interval, cut to
seconds, is no longer than the TTL.
With at most one handler (`OneHandler`) the check made in `RegisterValidate` is
still true in `RegisterCommit` (`PendingClear`, because removals only shrink the
route table): from it `RoutesAreKept`, `PatternsStayDisjoint` (symmetric
`Overlap`) and `RegistryImplementsDirectory`. Run `registry_steal` shows that the
assumption is needed.

`RoutedRegistryProofs`. For patterns made of literals and `:name`s,
`OverlapIsSharedRequest`: two patterns overlap if and only if some request path
matches both; the witness takes the literal of either at each position. With the
theorems above, `RoutingIsUnambiguous`. With a `*` or without strict matching (next section)
it fails.

`OTLPExporterProofs`. `BuffersBounded`, `SpansInOrder` and `ShutdownFlushes`. The strengthening `Owed` says, for each label of the drain,
how much of what was accepted before `Shutdown` has been flushed.

`TokensProofs`. The inductive invariant `TInv` is `TokenTypeOK`, `TraceIsPath`,
`LifetimeBounded` and `RegisteredByOwner` with `ShortLived` (an internal token lives
at most `MaxTTL`, so a hop adds no more than that and `Hold`) and `ClaimsOK`
(what internal tokens and roots are for, and that a root is its owner's or the auth
service's: without it, a deployment with a single key pair would let a service take
a root for an internal token, or the gateway an internal token for a root). With a
single key pair, `TraceIsPath` assumes `ExternalApart` and `RegisteredByOwner`
`InternalApart`, conditions on the audiences that are in use. A token is well made (`WellMade`) if it has a
parent and a root; `SignInternal` shows that adding such a token keeps `TInv`, and
`GatewayStep` and `ServiceStep` that the two makers make no other. From it
`TokensTyped`, `TracesArePaths`, `LifetimesBounded`, `RegistrationsOwned` and, with
the arithmetic of `Unix`, `GoodTokensAccepted`.

`GatewayShutdownProofs`. `ProcessRunsExporter` shows step by step that the process
implements `ExporterSpec`, so the exporter's theorems hold in it, with requests that
finish and export while it is being shut down.

`ClientGatewayProofs`. `SessionOK` adds to the
types which thread may have which call open at which label (`Control`). For
`NoUnexplainedDuplicate` the instances alone are not enough: a late request is a
duplicate to come. `Accounted` therefore counts orphans (instances of the service
other than the one the client holds or is being told of) and late registrations
together, and never finds more than registrations given up. That a re-registration
makes no orphan needs `Replaced`: the heartbeat goroutine only re-registers when the
id it holds is gone. Neither needs the calls to be in order. `ShutdownIsQuiet` does:
it assumes `CallsInOrder`, and `Stopping` says that from `wg.Wait` on there is no
heartbeat goroutine, so the id `Shutdown` deregisters stays the last one. Without
the order the property fails: a `Register` that overlaps `Shutdown` registers after
`Shutdown` has found nothing to deregister and returned nil.

`ProxyProofs`. `ProxyKeepsRegistry`: the proxy implements the registry's `Spec`, so
`IInv` holds under it. `RequestsOK` says of each request between two steps that its
list is not empty, that its target's silence is at most what the registry bounds it
by plus the request's own waiting, and that a service that stayed available is
available now; the last two hold only while the lock is free and the cleanup loop
runs, which is why both are in the invariant as premises. From them `ProxyTyped`,
`TargetsFresh` and `NoFalseUnavailable`. What the loop of `GetHealthyInstances`
returns is shown for lists of any length: there is a least turn at which it would
be wrong, and that turn is right.

`RateLimiterProofs`. `Typed` and `Ordered` (requests start one after the other, and
a call lasts at most `MaxDelay`) carry the rest. `RefusalsJustified` follows from
`Justified`, which bounds what a call has counted by the requests that may be
blamed for it; `Fresh` says that nothing older than the window and not the call
itself is counted, `MapTimes` that the map holds times of allowed requests only,
whatever updates get lost. `AdmissionsBounded` rests on `Balanced`: for every time
that no trim has reached, there are as many younger entries as younger live
requests, but for one per repetition and per forgotten call. One bound for the whole window
would not be inductive, because a refused call pops the oldest entry and not its
own: a pop takes an entry the call is not entitled to only if its own is gone, and
then the bound for its own time has one to spare. `Renewed` (the key outlives the
window of every call that has done its `EXPIRE`) keeps expiry from breaking it, and
`Counted` turns it into a bound at the moment of `ZCARD` that stays true afterwards.

Every invariant and action property of the passing runs is a theorem. Only
model-checked is liveness, because fairness and ENABLED are out of the prover's
reach: `SilentRemoved`, `Recovers`, `ShutdownReturns`, `LeavesForGood`,
`SpansFlushed`, `LoopReturns`, `Exits`, `DrainsByItself` and `KeyReclaimed`.

## Observed while modelling

Behaviour of the code the models follow and no run is about:

- A `Shutdown` called again after one that timed out returns nil without having
  deregistered (`client.go:253`).
- `registered` is never reset, so `Register` is refused after `Shutdown`
  (`client.go:77-79`).
- `NewServer` never sets `StrictPatternMatching` (`server.go:40`). Overlapping
  patterns of two services are then both accepted, and `MatchRoute` answers with
  whichever a map iteration yields first: `UnambiguousRouting` fails with the
  constant set to FALSE.
- `pathsOverlap` calls patterns of different length disjoint (`collision.go:75`), but
  the matcher lets a final `*` take any number of segments
  (`matcher_test.go:176-180`). Even with strict matching `/static/*` and
  `/static/:dir/:file` of two services are both accepted, and `UnambiguousRouting`
  fails.
- The matcher knows only `:` as the sign of a parameter (`matcher.go:78`); for the
  collision check `{id}` is one too (`collision_test.go:78-102`). A service that
  registers `/users/{id}` keeps others out of `/users/:id` and gets no request of
  that shape: they are answered 404.
- The limiter counts refused requests too, until they leave the window or are
  popped by later refusals, and a pipeline that is sent again counts itself. Of
  two overlapping requests, the younger may trim what the slower one should have
  counted. All of this is in `AdmittedBounded` and `RefusalJustified`.
- `EXPIRE` comes after `ZADD` (`limiter.go:50`). If the deadline an earlier call set
  passes between the two, the key goes with the entries of all calls in flight.
  With a limit of 2, a window of 6, a delay of 2 and two calls in flight, four
  requests in a window are allowed where three would otherwise be the most. The
  attempt to prove a bound without `forgotten` brought this up.
- The in-memory limiter's map has no lock (`limiter.go:98`): lost updates, or the
  end of the process.
- Nothing sets `user_id`, so `determineKeyAndLimit` never takes the limit per user,
  and nothing uses `RouteRateLimitMiddleware`.
- With one key pair for all tokens (`jwt.go:48-50`) the gateway accepts internal
  tokens as external ones, and the trace begins anew; `LifetimeBounded` is stated
  for two key pairs.
- With one key pair, a service that asked `GenerateServiceToken` for the audience
  `api-gateway` would hold a token that registers the name of the request's subject,
  and a service would take an external token with its name as audience for an
  internal one, with an empty trace. `RegisteredByOwner` and `TraceIsPath` name these
  as exceptions; nothing in the repository makes such tokens.
- Without JWT keys anybody may register any name (`server.go:126`,
  `handler/registry.go:30`); `NewServer` logs "authentication disabled".
- A handler that panics leaves no span (`trace.go:53-55`); an error of
  `ListenAndServe` leaves a process that listens to nothing and waits for a signal
  (`main.go:44-46`).
- A service makes the next token from claims whatever their expiry
  (`generator.go:84`); the bound on a user's authority grows with each hop.
- A lifetime below a second may be over when the token is made.
- A TTL below a second is announced as interval 0 and read as ten seconds
  (`registration.go:63`, `heartbeat.go:19`); `KeepsPunctual` excludes it.
- A heartbeat renews the time stamp and leaves the status alone: an instance
  marked unhealthy stays so until it is removed.

## Not modelled, and the plan

1. A client composed with the timed registry instead of the directory; concurrent
   `Register` calls of one client.
2. The order of the middlewares: limiter, trace and proxy in one request, and Redis
   closed before the HTTP server at shutdown.

Not in the models: `GetAllServices` and the listing that marshals instances without
the lock, the W3C trace headers, the `Director`'s headers, the nil check after
`Select` (`ProxyTypeOK` shows it is never met), `Remaining` and `ResetAt`
of the limiter's answer, and the functions nothing calls (`jwt.Service`'s own
`ValidateInternalToken` and `GenerateServiceToken`, `AuthMiddleware.Authenticate`,
`RouteRateLimitMiddleware`).

Left out for good: stateless middlewares and health handlers, configuration, PEM
and protobuf conversions, wording and logging.
