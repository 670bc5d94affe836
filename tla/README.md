# UAP protocol: formal model

TLA+ modules of the UAP gateway, the TLC runs that check them on small instances, and
proofs, checked by TLAPS, that hold for every instance. Paths below are relative to
the repository's root; "src/packages/gateway/src" is abbreviated to `gateway/`.

## 1. The system

An agent calls tools and other agents through a gateway. The SDKs (TypeScript, Python)
fetch a token from Keycloak, wrap a call in an envelope and send it over HTTPS. The
gateway (Fastify, one Node process per instance, several instances may share a Redis)
checks the token and the envelope, then runs a tool in a Docker container, forwards a
task to a registered agent, or changes the registry of agents. It publishes audit
events on the way.

| component | state | operations | what makes it correct |
|---|---|---|---|
| Redis registry adapter (`gateway/infrastructure/registry/redis-registry-adapter.ts`) | Redis keys with a time to live, shared; a 5 s cache per instance | register, resolve (refreshes the heartbeat), deregister, list | one map from agent to entry: what was registered is found until it is deregistered or lapses; nothing else is found |
| In-memory registry adapter (`.../in-memory-registry-adapter.ts`) | a Map | the same | the same, without expiry |
| Container pool and sandbox (`gateway/infrastructure/sandbox/docker-sandbox-adapter.ts`) | idle containers; containers in use; the Docker daemon | execute (acquire, exec, stream, release), drain, teardown | a container serves one call at a time, none is lost, the pool keeps its bound, calls end |
| Request pipeline (`gateway/transport/`) | per request: token, claims, body, reply | auth hook, card check, scope check, handlers, error handler | nothing happens without authorisation; reply, effect and audit event agree; every request is answered unless it waits for ever for what has no time limit |
| Use cases (`gateway/application/use-cases/`) | none | invoke a tool, delegate a task, route a tool call | one event per outcome, errors mapped |
| Audit event bus and handlers | subscribers; pino's buffer | publish | every effect is recorded once |
| Card signer (`gateway/infrastructure/signing/`) | lazily loaded library and public key | verify, sign | only cards signed with the gateway's key pass |
| Keycloak auth adapter | key set of jose | verifyToken | scope of the route is required |
| RPC transport (`gateway/transport/uap-rpc.ts`) | compiled schemas | validate, executeBatch (called by nothing) | a verdict on each envelope |
| Composition root, main | the registry chosen at start | buildRegistry, start | requests stay sound when the process ends and starts again |
| Token provider and client of the SDKs | cached token and expiry | getToken, clearCache; invokeTool, delegateTask with one retry after 401 | no effect twice; a call reports what is so; a retry has a new token of its own scopes. (A cached token of other scopes may be sent first, and a 403 for it is final) |
| MCP bridge | connection to a child process | connect, listTools, callTool, disconnect | a server that hangs does not hang its caller |
| Migration CLI, A2A bridge | a card file | migrate mcp, migrate a2a | a second run changes nothing, but for `a2a` with an `--issuer` that is not the name in the card; a write that fails is not reported as success |
| Keycloak bootstrap script | the realm, client, roles and user in Keycloak | one run | idempotent: it can be repeated until it succeeds |
| other scripts, envelope builders, FastAPI middleware | none | construction of records | out of scope |

**Interactions.** A request to `/tools/invoke` calls `sandbox.execute`, which borrows from
the pool; `/agents/delegate` resolves the agent and posts to its endpoint; the registry
routes verify a card and call register or deregister. All requests of an instance share
the pool, the registry adapter, the signer and the bus, and interleave at every `await`.
Instances share Redis and nothing else. SDK calls share a token provider: each reads its
cache, may fetch and store a token, sends a request, and clears the cache and sends once more
after a 401. The migration CLI and the bootstrap script are processes that may run at the
same time, be killed and be run again; they share files or Keycloak.

**Hard behaviour.** resolve writes back what it read two awaits earlier; register reads and
writes in separate commands; caches of other instances are stale; SET and DEL can be
carried out although their answer is lost; an instance can end between a command and its
reply; the pool is drained while calls give containers back; containers stop between a
check and their use; the signer is initialised by overlapping requests and can stop
half-way; audit events and replies are produced on every error path; the process may end with
requests open; a client gives up on a request that the gateway goes on with; overlapping calls
overwrite and clear each other's cached token; scripts look first and create later, and stop
half-way. `PROJECT.json` lists
each at its line under "hazards", with the property that covers it or the reason none does.

## 2. The modules

| module | models | state and actions in the code |
|---|---|---|
| `RegistryPort` | abstract: what callers may assume of an `IRegistryPort` | `registry` is a map from agents to entries; one action per method; an entry may lapse `Slack` before its card expires, and earlier by `Loss` for every `Period` that its heartbeats span |
| `InMemoryRegistry` | `InMemoryRegistryAdapter` | each method runs in one turn, so it is one action |
| `RedisRegistry` | `RedisRegistryAdapter`, its `TtlCache`, Redis, several instances | a call is a program counter (`call[c].pc`) that names the command it waits to send or the reply it waits for: `get`, `ttl`, `set`/`setReply` (resolve), `register`/`registerReply`, `del`/`delReply`. `store` is Redis, `cache` the caches. `RedisError` loses a command or a reply, `Crash` an instance |
| `RedisRegistryPort` | the refinement of `RegistryPort` by `RedisRegistry` | `View(a)`: the entry in the call's hand (`Held`), else what a resolve would find (`Found`): the cached copy, or the key; `Rounding` is what `TTL` can take off |
| `SandboxPool` | `ContainerPool`, `DockerSandboxAdapter`, the Docker daemon | `pc[c]` is the daemon request a call waits for; `held[c]` its container; `drained` the container `drain()` is removing; a release is part of the step that ends the call; faults of the daemon, stops and removals of containers are actions of their own |
| `Gateway` | hooks, routes, use cases, error handler, audit events, signer, restarts of the process | `pc[r]` is the await a request is at; `input[r]` what the client sent, `effect[r]`, `audit[r]`, `status[r]` what it did, recorded and answered; `Elsewhere` is what other gateways do to the registry; `Restart` ends the process, cuts open requests and starts signer and registry afresh |
| `GatewayPort` | abstract: what a client may assume of the gateway | a request is idle, open, answered or cut; its status code tells whether it took effect |
| `SdkClient` | `UapClient`, `ClientCredentialsTokenProvider`; Keycloak; the gateway as an instance of `GatewayPort` | `pc[c]`: a call waits for Keycloak (`fetch`; `issued` once a token is on its way) or for the gateway (`sent`); `cachedToken`, `expiry` are the provider's fields; `carried[<<c, n>>]` the token of the call's n-th request |
| `Migrate` | `uap-migrate mcp` and `a2a`, the MCP bridge as far as it takes part | `place[r]` is what a run waits for; `file` the card files; opening a file empties it, writing is a step of its own; a run may be killed at every step |
| `KeycloakBootstrap` | `scripts/keycloak-bootstrap.ts` against Keycloak | what must exist is numbered in the script's order (realm, client, roles, user); `thing[r]` is the one a run looks for (`check`), creates (`create`) or looks for again (`look`); then `list` and `assign` |
| `MC*` | values for the constants | |
| `*_proofs` | theorems | |

Operators whose comment begins with "Mutant:" are not part of the model. Each is a
plausible bug in the definition that follows it; `PROJECT.json` pairs it with the
property that finds it.

### Abstractions

- *Registry data.* An endpoint is a number that no other registration has; it stands for
  all an agent announces, and lets a property tell which registration an entry comes from.
- *Time* in the registry counts ticks, `Second` to a second. Redis's TTL is rounded to the
  nearest second and `EX` takes whole seconds, so a refresh moves the expiry by up to half a
  second either way, and refreshes add up: an agent that is looked up every 5 s while the
  time left is just under half a second past a whole one loses up to half a second each time.
  With `Second = 4` the model has this drift; with 2 rounding is only ever upwards.
- *Redis connection.* ioredis sends the commands of an instance on one connection and
  replies keep their order. `Sends` therefore lets no command of an instance pass a SET or
  DEL whose reply is outstanding. A GET or TTL and its reply are one step, because only
  their own call uses the reply. A command that fails was refused, or carried out with its reply
  lost; that ioredis sends it again after a reconnect, when other calls have sent theirs, is
  left out. A refresh that sends no SET ends in a step of its own (`RefreshReply`), where the code
  ends it in the turn of TTL's reply: the model has all of the code's orders, and a few more.
- *Tools* are processes that end or do not. Input, output and exit codes are left out: the
  code does the same for each. The processes that a tool leaves behind count as the tool.
- *Tokens, envelopes, cards* are classes of what the checks tell apart, for instance a
  token that does not decode, one that only verification refuses, one without the scope.
- *SDK time* counts units of which the margin, the timeouts and the lives of tokens are multiples; timers fire when they are due. The
  clocks of client, Keycloak and gateway agree, as the code, which compares `exp` with its own
  clock, takes for granted. 403 stands for every refusal but 401. A request may reach the
  gateway, and do its work there, after its call has given up. A reply of any status may
  have a body that is not JSON; the call then reports an error with that status. Keycloak's
  answers with 200 are taken to contain a token (its payload may lack `exp`, or be unreadable).
  The gateway's limit of 15 minutes on a token's age is left out.
- *Gateway.* 400, 413 and 415 are the codes of a body that cannot be read; the rate limit (429,
  in onRequest: nothing has happened yet) is left out. An audit event is published without fail:
  both handlers pass it to pino or to a counter in the same turn. What `uap-card` compares is
  collapsed to one verdict (`CardPasses`), since the code never gets there.
- *Registry in `Gateway`*: an entry per agent that any other gateway may change at any time; a
  card that other gateways put there is genuine, since they verify with the same key.
- *Card files* hold the run that wrote them, nothing, or "torn" rubbish: a card that was cut
  short, or two that overlap. *Keycloak* keeps what was created, refuses to create a thing twice,
  and may answer a creation with or without a body.
- *Counters* are bounded: `MaxRegistrations`, `MaxTime`, `MaxContainers`, `MaxFaults`.
  Docker never reuses an id; the model reuses an id to which nothing refers any more.
- `past`, `written`, `dropped` in `RedisRegistry`, `made`, `want` in `SandboxPool`, `effect` in
  `Gateway`, `broken`, `shared` in `Migrate` and `excused` in `KeycloakBootstrap` record what
  happened for the properties. No guard reads `written`, `dropped`, `effect`, `broken`,
  `shared` or `excused`.

## 3. The runs

| run | instance | shows |
|---|---|---|
| `redis_sequential` | 1 instance, 1 call at a time, 1 agent, 2 registrations, a card that is too short-lived and one of almost 4 s, 4 ticks to a second, 3 s | `ImplementsPort`: every behaviour is one of `RegistryPort`, where an entry lapses less than a second early, and less than half a second earlier for each time it was written back |
| `redis_concurrent` | 2 instances, 2 overlapping calls, 1 agent, 2 registrations, failures and crashes | `TypeOK`, `OnlyWritten` (no phantom registration), `NeverRevived` (a registration that is over never returns to Redis, and no cached copy of it is renewed or spread) |
| `redis_reregister` | 1 instance, 2 overlapping calls, no failures | **violated**: `RegisteredAtKept` |
| `redis_drop` | the same | **violated**: `NotFoundOnceDropped` |
| `inmemory_registry` | 2 agents, 3 registrations | `ImplementsPort` with no slack |
| `sandbox_pool` | 2 calls, pool of 1, 5 containers, 1 failed request, a drain | `Exclusive`, `PoolBounded`, `OrphansFromFaults`, `CrowdedFromFaults` (a tool has its container to itself but where the daemon failed a request: one container each), `CallProgress` |
| `sandbox_scope` | 1 call at a time, 2 configurations | **violated**: `ConfiguredForCall` |
| `gateway_requests` | 2 overlapping requests, 1 agent, with and without a usable key, restarts | `OneVerdict`, `EffectsRecorded`, `AuthorizedEffects`, `RefusalsRepeatable`, `CardVerdicts`, `Answered` (a request is answered or cut off, unless it waits for ever where the code sets no limit), and `ImplementsPort`: every behaviour is one of `GatewayPort` |
| `gateway_card` | 1 request | **violated**: `CardChecked` |
| `sdk_client` | 2 overlapping calls, 2 lists of scopes, tokens of 3 units, timeouts and margin of 1, 3 units | `AtMostOnce` (no call acts twice), `Truthful` (data, or a success that cannot be parsed, comes of an effect; after a refusal there is none, ever), `FreshRetry` (a second request has a later token, of its own scopes), `NeverExpired` (no request that is waited for has an expired token) |
| `migrate_cli` | 3 runs of either command, 2 names, kills and full disks | `ExitZero` (exit code 0 leaves a file; one without a card has an unfinished writer, or two at once, to answer for it), `NoOpWhenMigrated` (a file that is there, whatever is in it, stays, unless an `a2a` run with another `--issuer` writes it), `RunsEnd` |
| `keycloak_bootstrap` | 3 runs, each repeated without bound, 2 roles, 2 faults | `CompleteOnSuccess`, `FailsForAReason` (a run fails only for a fault or a creation since it began), `Converges` (repeated runs succeed, even if Keycloak never answers a creation with a body) |

**Why the bounds are enough.** The races of the registry are between two calls on one agent,
on one instance or two: a third call, another agent or instance adds no new pair, since
calls touch only their own agent's key and their own instance's cache. Two registrations
tell the old one from the new; the clock passes the expiry of key and cache. Rounding takes
something off from three ticks to a second on, and the longer card is written back several times. Five
containers let two calls each use one, while one is idle, one is drained and one was
lost: fresh ones never run out, which would block a call. A pool of one is empty, full and
contended. Two requests meet in the signer and the registry, the only state they share.
Two SDK calls meet in the cache: one fills it while the other fetches, clears or has just
read it; three units let a token be fetched, reused, refused and expire. Of three migrations
one can have finished while two race, which is what it takes to write into a settled file;
two names tell a file that is looked for from one that is written. Three bootstrap runs let
one create what another has found missing while a third lists; two roles make the loop
over roles go round, and two faults hit a run and its repetition.

**The violations.**

- `redis_reregister`: two registers of one agent overlap, both find no entry, the second
  SET replaces the first with its own `registeredAt`.
- `redis_drop`: a resolve, or the one inside a register, has read the entry; a deregister of
  the same instance deletes the key and clears the cache; the resolve then asks for the time to
  live, is told that there is none, sends no SET, but puts what it read into the cache. The
  instance finds the agent for the life of the cache. If the deregister falls between TTL and
  SET instead, which takes one step more, the agent is back in Redis, for every instance, until
  its card's time is over.
- `sandbox_scope`: a container of the pool keeps the network and file system settings of the
  call it was created for. The tests expect those of the call, `docs/README.md:106` a fresh
  container per call, destroyed after the response.
- `gateway_card`: `uap-card` is a preHandler of the instance, `requireScope` of the route; the
  first returns because the second has not set the claims yet.

**Fairness.** `SandboxPool!FairSpec` assumes that the daemon answers each call's requests
(weak fairness of `Step(c)`): nothing of tools, of drains, or of when containers stop.
Weak fairness is enough because a call's next step, once possible, is only replaced by
another step of the same call. `Gateway!FairSpec` assumes that the awaits end to which the code
sets a limit: jose gives Keycloak 5 s, `AbortSignal.timeout` an agent 30 s; the signing library
comes from the disk. It assumes nothing of the others (`Unlimited`, `EndsWait`): the rest of a
body (Fastify's `requestTimeout` is off), a tool, and a command to Redis, whose client is made
without a `commandTimeout`, so that it waits for ever for a Redis that is connected but silent.
`Answered` therefore lets a request wait for ever there, and nowhere else. `Migrate!FairSpec` lets steps end that
wait for the disk, for `close()` of the MCP client, or for one of the two timeouts of
`withTimeout` (`BuildFails`, which is possible as long as a run waits for the server: the
timers fire whatever the server does). `KeycloakBootstrap!FairSpec` assumes that Keycloak
answers and that whoever runs the script runs it again while it fails; faults are finitely
many, and creations that are answered without a body, which also make a run fail, are not
counted as faults. Safety runs use no fairness.

## 4. The proofs

The `*_proofs` modules are checked by TLAPS for all constants that satisfy the assumptions
in the modules (bounds are naturals, sets that must have a member have one, `None` is not an
entry or a token). `SdkClient` assumes more: the request timeout is at most the margin, and
tokens live longer than both timeouts together. The code's 30 s, 60 s and 10 s, with tokens of
a minute or more, are such.

- `SandboxPool_proofs`: `Exclusive`, `PoolBounded` and `OrphansFromFaults` are not inductive
  alone. The invariant adds `TypeOK` and `InHand`: a call has a container exactly between
  acquiring and releasing it. Without it a release could push `null`, or a create could
  overwrite, and lose, a container. `OrphansFromFaults` needs a count: a step without a fault
  adds no orphan because the container it lets go of goes to the pool, to `drain()` or away;
  a step with a fault adds at most one, and one to `faults`. `CrowdedFromFaults` needs the same
  count of the containers with a tool that its call has given up on, which are more than the
  crowded ones (`OneForEachFault`).
- `RedisRegistry_proofs`: `TypeCorrect` needs `InHand`: where a call has an entry in hand, and
  that a register has a registration. `OnlyWrittenAlways` is carried by `Sourced`: the entry in
  a call's hand was written if it was read from Redis, or set in it. SET is the only step that
  brings a new entry, and it records it in the same step. `NeverRevivedHolds` needs `Numbered`:
  registrations are told apart by numbers given out in order, so what a pending register is
  going to set is in neither Redis nor any cache yet, and no two pending registers set the
  same. Every other step gives a call only what Redis holds or what the call already carries,
  which is never a registration that is over. `StaleBriefly` adds the time: by `Timely` a
  cached copy has at most its life before it, and since it is not renewed once the registration
  is over, it is gone `CacheTtl` later.
- `RedisRegistryPort_proofs`: `RedisImplementsPort`, under the hypothesis `Sequential` (one
  call, one instance, no failures; the runs above show that it is needed) and the assumption
  `CacheOutlastsRounding` (5 s against less than half a second in the code). The invariant
  `OneMap` says why cache, key and call are one map. `Kept`: a cached copy is backed by the
  key, which holds the same entry or expires no later; so when a cached copy goes, the key
  takes over without a change of the map, or the entry was allowed to lapse. A key that is
  not cached was not written for a `Period`, so its next write-back, which may take off
  `Rounding`, is paid for by the `Period` that its heartbeat moves on. `Handled` says the same of the entry
  in the call's hand, `Registers` that a register's card outlives its time to live by less than
  a second. The arithmetic of rounding is in lemmas of its own (`TtlLoses`, `DivAtLeast`).
  The attempt to prove a bound of one second, whatever the refreshes, failed for the reason
  above, and TLC has the counterexample as soon as `Loss` is 0.
- `InMemoryRegistry_proofs`: type correctness, and that every step is one of `RegistryPort`.
  The port lets entries lapse; the adapter's clock ticks with none lapsing.
- `Gateway_proofs`: the invariant `Sound` says what is known of a request by the place it has
  come to: past the scope check it has claims from a good token, past the handler's checks a
  sound envelope, at the signer the library is loaded, at the store the signer is ready and
  the card not forged. The signer's own state tells whether the gateway has a usable key
  ("ready") or not ("halfway"). With it `AuthorizedEffects` and `CardVerdicts` are inductive.
  A second invariant, `Told`, relates effect, audit events and status of a request at each
  place; `OneVerdict`, `EffectsRecorded` and `RefusalsRepeatable` follow from it, and so does
  `GatewayImplementsPort`: before its reply a request changes the effect of the abstract
  gateway not at all, since `GatewayPort` reveals the effect with the reply.
- `SdkClient_proofs`: the invariant says for each call that its second request follows a 401
  (`Sequence`), what its result tells of its requests (`Reported`: data or an error below 300 follows
  an effect, a refusal that there was none), where its tokens come from
  and that they outlive the wait (`Tokened`); of the cache that its expiry is that of its
  token, or 0, with which it is not used (`Cached`); of the gateway what `GatewayPort` promises (`Told`). `AtMostOnce` is then
  short: the first request was refused, so it did nothing, ever. `FreshRetry` rests on
  serial numbers: the refused token was issued before the retry asked for one. `EndsInTime`
  is a bound in place of liveness: `Deadline` is the latest end of a call from where it is,
  and no step puts it off, since a call asks for a token at most twice per request and sends at most two.
  It rests on timers that fire when they are due.
- `Migrate_proofs`: a file that no two runs have had open at once has one writer, and is empty
  while it writes (`Unshared`); so what a run leaves is its card or, if it is cut off, rubbish
  that has that run for a cause (`Unfinished`). `ExitZeroAlways` does not say that exit code 0 means
  a whole card: a later run ends with 0 over a partial one. `MigratedStays` (`NoOpWhenMigrated`)
  follows from the steps: a run that begins sees the file, but for a run of `a2a` that looks for
  another than it writes; such a run, the usual one where `--issuer` keeps its default, writes its
  file anew each time, and is the exception the property names.
- `KeycloakBootstrap_proofs`: what a run has passed is there, and if what it is about to
  create is there already, the run is excused (`Fine`). This is the race that the script has:
  between the look and the creation only another run can create, and that excuses all.

Three theorems say how far the violations of section 3 reach, by proving the violated property
where its cause is absent:

- `RegisteredAtKeptApart`, `NotFoundOnceDroppedApart`: both hold, under failures and crashes,
  for one gateway in which calls about the same agent do not overlap (`OneInstance`, `[]Apart`).
  The invariant `AllAgree` says that key, cached copies and the entry in a call's hand have one
  `registeredAt`, and that none of them has been deregistered. A lock per agent in the
  adapter would make them true; two gateways need more, since the cache of one does not
  hear of a deregister at the other.
- `ConfiguredWithoutPool`: with `poolSize` 0 every tool runs under the settings of its own
  call (`MadeForCall`), so nothing but reuse breaks `ConfiguredForCall`. Other pool sizes would
  need containers to be told apart by their settings.

`CardChecked` has no such theorem: the check is never reached.

Together `GatewayImplementsPort` and `AtMostOnceAlways` say of the composed system: an
SDK call runs its tool at most once, with any number of calls and requests.

Only model-checked: everything under fairness (`CallProgress`, `Answered`, `RunsEnd`, `Converges`), which is out of the
prover's reach. The violated properties need no proof.

## 5. Not modelled, and the plan

Left out for good: cryptography, schemas and canonical JSON (verdicts only), TLS, rate
limits, `list()`, health, logging, `generate-keypair` and `validate-env`, envelope construction
and the FastAPI middleware; `route-tool-call` and `executeBatch`, which no route calls
(the first repeats delegate-task, the second only validates); the MCP bridge's `invokeTool`,
which passes a call on; the Python SDK, which takes the same steps as the TypeScript one with
other codes for timeouts. The race of `buildRegistry` (ready, error, 3 s) is modelled by its
outcomes, either of which a restart may have.

Liveness of SDK calls is not checked: with clock and tokens the state space is too large for
TLC's liveness check at bounds where calls overlap. `EndsInTime` bounds the time of a call instead; that
time goes on is not in question.

What would come next:

1. two gateways with registries of different kinds, after a start-up race;
2. the Python SDK's per-read timeouts, under which a request may be waited for longer than
   the margin.
