# TLA+ models of the Free Ollama API gateway

The gateway (`src/foa`) puts nodes run by other people behind one API. A node
serves traffic only while its owner consents and it is healthy, and every
request is given one of the nodes that qualify. These modules model that: the
registry with its in-memory pool, the handlers and loops that change them, how
requests choose nodes, hold slots and feed circuit breakers, and how users are
admitted; and the components around this core: how candidates are found, how an
owner proves a node is theirs, what the health checks conclude, how a call is
retried and a reply streamed, which keys are accepted and which settings are in
force.

## The system

| Component | State | Operations | Talks to |
|---|---|---|---|
| Registry (`services/nodes.py`, `storage/`) | rows of nodes, consents and blacklist entries | register, verify, revoke, blacklist, lift, drain, delete, sync_pool, observe | pool, consent, health |
| Consent (`services/consent.py`) | consent row, challenge, history | enroll, verify, revalidate, revoke | the node (HTTP, DNS), registry |
| Owner's tool (`cli/owner.py`) | files, DNS records and tokens outside the gateway | consent-document, publish, serve-consent, token, verify, revoke | admin API |
| Health (`services/health.py`) | failure counters in the rows, timers in memory | check_node in a loop or forced | the node, consent, state hook |
| Pool, balancer (`services/balancer.py`, `state.py`) | runtimes: state, routable flag, slots, hourly budgets, samples | sync, pick, acquire, release, observe | registry |
| Circuit breaker (`state.py`) | state, window of results, probes | allow, record, force_open | pool |
| Proxy (`services/proxy.py`) | one request's exclusions and attempts | `_acquire`, request_json, stream_ndjson, fanout | pool, registry, transport |
| Loops (`core/appstate.py`, `app.py`) | tasks of a process | check loop, consent expiry, registry sync, discovery, start | all of the above |
| Admission (`ratelimit.py`, `api/user.py`, `api/deps.py`) | token buckets, daily windows, user slots | check_*, add_tokens, user_slot | user handlers |
| API keys (`services/auth.py`) | key rows | issue, rotate, revoke, authenticate | admission |
| Transport (`net/client.py`) | clients per address, active counts | request, stream, classes of errors | nodes |
| Discovery (`services/discovery/`) | candidate rows, caches and call counts per source | collect, ingest, enroll, purge | public catalogues |
| OpenAI API (`api/openai.py`, `domain/openai.py`) | state of one stream | NDJSON to SSE | proxy |
| Configuration (`config/`, `api/admin.py`) | settings of a process | load, validate, reload | all of the above |

Everything runs in one asyncio loop per process; several processes may share the
database. What makes it hard:

- a handler awaits the database and the node between reading a row and writing
  it, and other handlers run there (lost updates, stale decisions);
- a session does not see others' uncommitted writes, nor, for objects it holds,
  their committed ones (`expire_on_commit=False`);
- the pool is a cache, rebuilt from whatever a session sees, and changed in
  place by some handlers before their commit;
- several handlers fail half-way or return early, past the step that would have
  brought the pool up to date;
- a request picks from the pool, awaits two queries, and only then takes a slot;
  its result may arrive after the breaker has changed;
- processes restart; clients go away; consents and bans end by the clock;
- the nodes, their name servers and the catalogues fail in ways that look alike: a
  silent node and a withdrawn consent, a call that never arrived and one whose
  answer was lost, a stream that ended and one that broke;
- timers, caches and counters outlive the transaction that moved them, or do not.

What makes each component correct: no traffic before consent and none after it
ends (registry, consent, proxy); a consent goes back to a proof of that very
registration (consent, owner's tool); the pool agrees with the registry once
handlers are done (pool); a ban lasts until someone ends it (registry, health); a
dead node and a withdrawn one leave the pool (health); probes are bounded and a
breaker is not shut for good (breaker); slots and budgets balance (pool, proxy,
admission); load is spread as the algorithm says (balancer); a generation is not
begun twice (proxy, transport); a streamed reply is the node's, in order, and says
how it ended (OpenAI API); a revoked key stays revoked (keys); a risky candidate is
reviewed and a catalogue is not asked too often (discovery); no process runs
outside the rules (configuration).

## The modules

| Module | Models |
|---|---|
| `NodeRegistry` | rows, sessions, handlers, loops, the pool of each process, and requests up to the send |
| `NodeRegistryMC` | who runs where and performs which operations, for TLC |
| `NodeRegistryProofs` | theorems about `NodeRegistry` under every interleaving |
| `RegistryPoolProofs` | theorems about its pool and its bans when handlers come one at a time, and about deletions under every interleaving |
| `CircuitBreaker` | one breaker as a record and operators on it |
| `Dispatch` | pick, slot, send, result and release, on top of `CircuitBreaker` |
| `DispatchMC` | instances for TLC |
| `DispatchProofs` | theorems about `Dispatch` |
| `Admission` | slots of a key, the gate with its buckets, the daily quota |
| `AdmissionMC` | an instance for TLC |
| `AdmissionProofs` | theorems about `Admission` |
| `CheckVerdicts` | the states of a node and where a verdict may take it; used by `NodeRegistry`, `CheckedNodes` and `HealthCheck` |
| `CheckedNodes` | abstract: what the health checks promise |
| `HealthCheck` | rounds, timers, counters, thresholds and signals; implements `CheckedNodes` |
| `HealthCheckProofs` | proof of that |
| `Ownership` | proofs of ownership, the places they are kept, their verification and withdrawal |
| `OwnershipProofs` | theorems about `Ownership` |
| `Discovery` | cycles over the catalogues and the life of a candidate |
| `DiscoveryProofs` | theorems about `Discovery` |
| `ApiKeys`, `Settings` | keys of users; settings in force |
| `Balancer` | the balancing algorithms and what they remember |
| `Upstream` | one call, its attempts and its retries |
| `StreamReply` | abstract: what a user may rely on in a streamed reply |
| `Streaming` | one streamed generation, from NDJSON to events; implements `StreamReply` |
| `ComponentsMC` | an instance of the eight components above for TLC |
| `ComponentsProofs` | theorems about keys, settings, calls, balancing and streams, and about the instance |

`NodeRegistry`, `Dispatch` and `Admission` each compose several components of the
program: they hold what is hard about their interaction. The other modules each
look inside one component, and stand for it at the seams: `HealthCheck` and
`NodeRegistry` share `CheckTargets`, so that what the registry may suffer from a
check is what `HealthCheck` is shown to do; `Ownership` gives one answer to a proof
where `NodeRegistry` has `ProofPassed`, `ProofFailed` and `ProofInconclusive`;
`Balancer` fills in the choice `Dispatch` leaves open; `Upstream` and `Streaming`
are what happens between `Acquire` and `Done` there.

### NodeRegistry

`status`, `consent` and `ban` are the committed rows. A lapsed consent is a row
still reading `verified` whose `expires_at` has passed; an elapsed ban is a
temporary one past its end. `pool[p][n]` is the runtime's `state` and `routable`.
`ses[w]` is one coroutine with its database session: where it is (`pc`), the row
and consent it loaded (`row`, `cons`), its uncommitted writes (`out`) and what it
read for a sync pass (`snap`). `req[r]` is a request in `_acquire` or `fanout`.
`proved` and `seen` are history variables.

| Code | Action |
|---|---|
| `NodeService.register` | `Enroll`, `ApplySync`, `Commit` |
| `verify_ownership` | `Begin`, then `ProofInconclusive`, `ProofFailed`, or `ProofPassed`, `ApplySync`, `CheckNode`, ... |
| `revoke_consent`, `blacklist`, `lift_blacklist`, `set_draining`, `delete` | `Begin`, the action of that name, `ApplySync`, `Commit` |
| `observe` on a 401/403, `blacklist_auto` | `Refused`, `AutoBlacklist`, `ApplySync`, `Commit` |
| `check_all` and `_publish` | `Begin`, `ReadConsent`, `CheckNode`, the hook's `ApplySync`, `Commit`, `ReadRegistry`, `ApplySync` |
| `force_check` | the same, then `Resync` on the runtime the caller holds |
| `_consent_expiry_loop` | `Begin`, `Expire`, `ApplySync`, `Commit` |
| `_registry_sync_loop` | `ReadRegistry`, `ApplySync` |
| `session_scope` | `Commit`, or `Fail` (roll back; what was done to the pool stays) |
| startup | `Restart` |
| `_acquire`, `request_json` | `PickNode`, `Decide`, `Retry`, `EndRequest` |
| `fanout` | `Fanout` |

A row with uncommitted writes is locked (`Lockable`). A session goes on using the
objects it loaded; the ORM writes only columns that changed, so a verification
that loaded a verified consent writes its new end and not its status (`"renew"`).

Abstractions. A write and the registry read that follows it are one step, and a
sync pass reads all rows at one point. A check's signals are reduced to the state
the strongest of them leads to, any that the code's thresholds can produce
(`CheckTargets`). `check_all` holds all nodes in one transaction; the model has
one transaction per node, so a failure that rolls back the others is not
covered. Node ids are never given out twice. An address is compared, never
parsed.

### CircuitBreaker and Dispatch

The breaker's window is a count of good and bad results per age in ticks, and
`opened` counts the ticks it has been open; `Older` is a tick. `allow` is
`Cooled`, `Admits` and `Allow`: the answer and its cost are separate because
`eligible` pays for every node it asks. `Dispatch` keeps, per node, the breaker,
the routable flag, `active` slots, `spent` (requests this hour) and whether a
401/403 is in the passive window; per request, where it is. `probing` is history:
which requests the breaker let through as probes.

`Pick` asks the breakers of all routable nodes and chooses one of the fittest:
the algorithms choose within that set, so the choice is left open. `Acquire` and
`Refuse` are the two outcomes of the reads that follow. `Done` covers answers,
errors and the ends of streams: `observe` on the pool's runtime, then the
release. `Cancel` is a client that leaves while its stream is being opened.
`Sync` flips a routable flag: NodeRegistry says when that may happen. `Ban` is
what `NodeService.blacklist` does to a runtime.

Left out: `consecutive_failures` and `reset()`, which nothing uses; latencies,
weights and scores; `tokens_this_hour`, which has the shape of
`requests_this_hour`.

### Admission

`active` and `streams` are the counts of `ConcurrencyLimiter` per key, `tokens`
the whole tokens in each bucket, `used` the sum of a key's daily window, `policy`
the slot limits in force. A request goes from `idle` to `held` (`Enter`, the
acquisition by `generation_slot`), through `_gate` to `running` (`Gate`), and when
it ends (`Finish`, or `Reject` before the gate) to `over`, until its slot is
returned (`Release`). `Gate` is one step: with the limits in process nothing in
`_gate` suspends. It charges every bucket of the request whatever the others
answered. `Finish` charges the generation's tokens, before the slot goes back.
Routes without a slot (`Readers`) come to the gate at once.

The model relies on the framework ending a dependency after the last byte of a
stream, as the docstring of `generation_slot` says; a framework version that ends
it before the stream begins would return the slot at once, and neither
`UserSlotsBalance` nor `QuotaOvershoot` would speak of streams. Which tokens leave
the window, and how fast buckets refill, is left open, and `Cost` bounds what a
node reports for one generation. The Redis backend is not modelled: no client is
ever created for it.

### CheckVerdicts, CheckedNodes and HealthCheck

`row` holds the columns `status`, `liveness_failures` and `readiness_failures`,
`draft` the same in the transaction of the round, `since` the `_last_*` dictionaries
of `HealthChecker` as rounds since a check last ran, `world` what a node answers and
whether its consent stands. `run_forever` and `check_all` are `StartRound`,
`CheckInRound` per node, and `CommitRound` or `FailRound`; `force_check` is
`ForceCheck`; `Handle` and `Change` are the registry's handlers and the world.
`AfterRun` is `check_node`: which checks are due, the counters, the signals and
their priority, the recovery. `CheckedNodes` keeps of all this who moved a state and
that it went where `CheckTargets` allows, from a state that may be checked.

The consent's proof is the file on the node itself; the other methods are
`Ownership`'s. A counter stops at its threshold (the code compares with `>=`). The
latency thresholds and the scores are not modelled: the passive window gives any of
its signals to a forced check and none to a round, because `check_all` passes no
runtime.

### Ownership

`reg` and `grant` are rows of nodes and consents of a registration, `site`, `net`
and `zone` what is at an address (the consent file, how HTTP answers, TXT records),
`tokens` the signed tokens that are out, `pubkey` the registered public keys. The
handlers of the admin API are `RegisterNode`, `SetKey`, `Verify`, `RevokeConsent`,
`DeleteNode`, with the checks on the caller (`require_node_write`,
`resolve_owner_identity`); the checker's are `Recheck` and `ForceRecheck`;
`PublishFile`, `ServeConsent`, `StopServing`, `PublishRecord` and `SignToken` are
commands of `foa-owner`. `HttpProof`, `DnsProof` and `TokenProof` are `_proof_http`,
`_proof_dns` and `_proof_signed_token`, each with the outcomes it may have.

An id stands for one registration with its challenge, a document for what names an
id and whether it is still fresh; signatures are what they certify. A file at an
address is replaced by the next one published there, records add up.

### Discovery

`cand` is the row of an address, `cache` and `calls` the `ResponseCache` and
`MinuteRateLimiter`, `cycle` how far each running cycle is. `StartCycle`, `UseCache`,
`Limited`, `Ask` and `Answer` are `collect`; `LoadCandidate` and `StoreCandidate` or
`FailCycle` are `ingest` with its `upsert` (the ORM writes changed columns, the
status goes in a statement of its own), `Purge` the rest of a cycle.
`EnrollCandidate` and `DeleteCandidate` are the admin API's. A report is reduced to
its risk; sources differ in their scopes only.

### ApiKeys and Settings

A key is its row: scopes, end, revoked, and which key it was rotated from. `Issue`,
`Rotate` and `Revoke` are the methods of `AuthService`, `Accepts` is `authenticate`.

`force` is the settings object of a process, reduced to the parameters that rules
of `validate` relate to each other, split into the sections a reload may change
(`HOT_RELOAD_SECTIONS`) and the others. `StartGateway` is `load_settings` in
`create_app`, `ReloadGateway` is `reload_config`.

### Balancer, Upstream

`cursor` and `currents` are the pool's `_rr_cursor` and `_wrr_state`; `Selected` is
`_select`, each algorithm a set of nodes it may choose. `turns` is history: the
choices since the eligible nodes or their weights last changed. The points of the
ring are given as a constant: the hash is not modelled, only that a node has as many
points as weight and that the ring is computed afresh.

`Upstream` has one call: `Submit`, `Send` (with `_acquire` and its exclusions),
`Respond`, `Fault`, `Unavailable`. Whether the node has begun to work is a step of
the node's (`Begin`) the gateway does not see; `MapError` is `_map_error` and
`_is_connect_error` together. `tried` and `began` are history.

### StreamReply and Streaming

A line of NDJSON is three pieces, two halves and the newline, and a chunk is any run
of pieces, so chunks and lines are not aligned. `wire` is what the node has written,
`rest` the buffer of `_ndjson_lines`, `bytes` how many pieces have been passed on,
`got` the events sent to the user. The node's last line (`ending`) and the end of the
connection (`link`) are two things: `Disconnect` may close or break it before the last
line, in the middle of it and behind it, and take away any part of what is on its way.
`Read`, `EndOfStream`, `TellBreak` and `RaiseBreak` are `stream_ndjson` under
`to_chat_sse` or `to_completion_sse`; `ClientLeaves` is the cancellation. A converter
that meets an error returns and leaves `stream_ndjson` where it yields, behind a line of
the node's or behind the one it made itself: the slot is held until the event loop closes
the generator (`CloseLeftStream`).

`StreamReply` speaks of `made`, `ending`, `link` and `got` alone: order of the contract,
no text lost or doubled, and an end that is true of the node and of the connection. An
error may follow a finish there, since a connection that breaks behind the node's last
line makes the code tell a finish, an error and `[DONE]`; usage is then left out.

## What TLC checks

All bounds are in the `.cfg` files. One node is enough where a property speaks of
one node's row, pool entry and session; two ids are needed for one address
registered again. Two coroutines are enough for every race between a handler that
read and one that wrote, since the row lock admits one writer at a time; requests
and a second process add further parties.

| Run | Instance | Shows |
|---|---|---|
| `registry_sequential` | 2 ids of one address, one of them with method signed_token; 1 coroutine with all operations and check rounds | between handlers the pool offers what the registry offers, up to three named exceptions (`SettledPoolAgrees`); a banned address does not return under another id (`BannedEndpointClosed`) |
| `registry_race` | 1 node; an owner and an administrator against the check and expiry loops; failures and restarts at any point | `NoTrafficBeforeProof`; only a proof restores a consent (`ConsentRestoredByProof`); no handler brings a deleted row or its consent back (`DeletedStaysDeleted`) |
| `registry_dispatch` | 1 node, 2 coroutines, 1 request, slots that may be taken | `DispatchCleared`: row and consent served at some time since the request began |
| `registry_live` | a replica with admin API and registry loop, and a gateway with the expiry loop | `ReplicaConverges`, `LapsedConsentEnds` |
| `dispatch_breaker` | 2 nodes, one degraded; 2 requests, one for a model only one node has; cancellations | `ProbeBudget` |
| `dispatch_recovers` | 1 node, 2 slots, hourly limit 1; 2 requests and a fan-out branch; bans | `SlotsReturned`, `BudgetSlack`, `OpenEnds` |
| `admission_key` | 3 generations (2 streams) and a reader of one key with quota 1, a generation of another key; reloads between 2 slots and a limit of zero | `UserSlotsBalance`, `QuotaOvershoot`, `KeyServedAgain` |
| `components` | the eight remaining components, see below | types, and 21 properties listed there |

The registry runs do not check deadlock: once every id has been registered and
deleted nothing is left to do. Neither does `components`, where a call, a stream
and the clock of the keys come to an end. The other runs check it.

`Window`, `OpenFor` and `MinRequests` of one or two ticks or events are the
smallest values for which a result can leave the window before, at and after the
end of the open time. `MaxEvents` bounds the results in a window: a result is
not delivered while the window is full, and the clock empties it. One more
generation than the key has slots, and a quota of one token, are enough for
`QuotaOvershoot` to be met with equality up to one.

### The run `components`

These components share no state, so their product would show nothing their parts do
not: `part` picks one of them in the initial state, and the others stay where they
began. The run is the union of eight small state spaces, 248,192 distinct states.

| Part | States | Instance | Shows |
|---|---|---|---|
| keys | 27,660 | 3 keys, grace 1, four ticks of the clock | `RotatedKeyEnds`, `RightsAsGranted`, `RefusalStands` |
| settings | 182 | 1 process, 7 contents of the file, 4 environments | `SafeInForce`, `EnvironmentPrevails` |
| discovery | 64,144 | 1 address, 1 source, 2 cycles at once, risk up to the threshold of 2, 1 call a minute, an answer cached for 2 | `AskedOncePerCycler`, `HighRiskReviewed`, `EnrollmentStands` |
| ownership | 53,784 | 2 registrations of 1 address, 2 owners, 1 proof out at a time | `ProvenByOwner`, `FileOutageKeepsNode` |
| health | 51,876 | 1 node; checks due every 1, 2, 2 and 3 rounds; thresholds of 2; one fault | `KeepsPromise`, `DeadNodeLeaves`, `WithdrawalLeaves` |
| balancer | 44,928 | 3 nodes of 1 slot, the middle one of weight 2; 4 choices between changes | `SpreadEvenly`, `SharesKept`, `HashSticks` |
| upstream | 3,240 | 2 nodes, up to 2 retries, all retry flags | `StartedOnce`, `TriedOnce` |
| stream | 2,378 | 2 texts and an end, any cut into chunks, a connection that ends anywhere | `KeepsReplyPromise`, `ToldByBytes`, `StreamSettles` |

Three keys make a chain of two rotations, and a key rotated twice. Two cycles are
the loop and one administrator; the row they race for is one. Two registrations of
one address are an address that changes hands, where the file of the first is found
by the second. In health one node suffices, since a round fails for all of them and
otherwise treats each alone (the proof has any number); intervals of 1, 2 and 3 make
rounds in which every combination of checks is due, and one fault lets a round fail,
or the process restart, at every point. Four choices between three nodes are one
more than a round of round robin, and a full round of weights 1, 2, 1; between two
nodes of one weight they are two rounds, all that `SharesKept` allows for. Two retries
are more than there are nodes. Two texts are enough for a gap, a double or a swap.

### Refinement

`HealthCheck` implements `CheckedNodes` (`KeepsPromise`): the states map to the
committed rows, a round in progress to nothing, its commit to one step `Round`. The
mapping is where a round that writes early, touches a node that may not be checked,
or recovers a draining node would show. `Streaming` implements `StreamReply`
(`KeepsReplyPromise`): chunks, buffers and slots map to nothing, and one chunk may
send several events.

### Fairness

`FairSpec` of NodeRegistry asks that a coroutine that can run is run (asyncio runs
ready tasks in order), that a waiter for a row lock gets it in the end (strong
fairness of `Answers` and `Expire`, for the coroutines that perform them: the
lock is enabled again and again, and the database queues its waiters), and that
the loops go on (`while not stop`). It asks nothing of administrators: `Begin` of
any operation but the expiry loop's is not fair, nor is failure.

`FairSpec` of Dispatch asks that time passes, that a request that has picked goes
on, that calls to nodes end (every one has a timeout), and that some user keeps
asking for a node. The last is an assumption about users, needed because a
breaker is looked at only when a request is. `Done` and `Pick` need strong
fairness: the first because a full window (`MaxEvents`) disables it for a while,
the second because a node may leave the pool and come back.

`FairSpec` of Admission asks that a handler goes on and that a generation ends,
and nothing of users.

`HealthFair` asks that the loop goes on (`run_forever` catches what a round raises)
and that a round in progress checks its nodes and commits; failing rounds and
restarts are bounded by `MaxFaults`, without which nothing could be promised. It asks
nothing of handlers, administrators and the world. `StreamingFair` asks that a silent
node is ended by the read timeout (`Disconnect`), that chunks are read and ends
handled, and that the event loop closes a generator left behind. That chunks are read
is an assumption about users: one that neither takes what is sent nor goes away holds
the stream as long as the server lets the connection stand. Both are in
`ComponentsFair`, for the part that is running.

### Where the code and its documents disagree

Each of these is a run of its own whose property TLC finds violated; the finding
in `PROJECT.json` quotes the document.

| Run | What happens |
|---|---|
| `v_banned` | a verification of a blacklisted node opens it while the ban stands |
| `v_half_open` | a probe paid for and never sent leaves the breaker half open for ever |
| `v_slot_leak` | a client that leaves while its stream opens keeps the slot |
| `v_swallowed_error` | a node breaks off in the middle of a line: the error line is appended to the half line, the two do not parse and are dropped, and the user sees a clean end |

The models contain further sequences of this kind, with no run of their own:

- a verification's pass that read before a revocation re-opens the node in the pool
  after it, until the next pass (`RevokedClosed`);
- a failing readiness check turns a draining node into a degraded one, which is
  offered (`DrainedStaysOut`);
- a failed verification quarantines the row and leaves the pool open, and so does
  a 401/403 met by the check loop with the blacklisting (the exceptions of
  `SettledPoolAgrees`);
- a check that loaded its row before a ban, a revocation or a draining overwrites the
  state that one committed (`CheckNode` decides on `row`), and so does a verification;
  only a row that was deleted stays as it is (`DeletedStaysDeleted`);
- after a lift the consent a manual ban left verified is still there, and a
  forced check can open the node with no new confirmation; a forced check also
  probes nodes that never agreed (`MayBegin` has no gate for it);
- a signed_token node fails the consent re-check nested in its own verification
  (`Verdicts`);
- a request that waited for a slot is sent on the row and consent it read before
  (`PickNode`), and one picked before a breaker opened is sent after;
- the success that closes a half-open breaker can trip it on failures still in
  the window (`Record`);
- the hourly limit is overshot (`BudgetSlack` says by how much), and so is the
  daily quota (`QuotaOvershoot`);
- the docstring of `_gate` has the checks stop at the first refusal; the code
  charges the key's, the global and the model's bucket before it looks at any
  answer, so a request refused by one has paid the others (`Gate`);
- every exception of the resolver reads as a zone without records, so an outage of
  the gateway's own name server quarantines the nodes with consent by DNS at their
  next re-check, where the same outage of a file server keeps them
  (`OutageKeepsConsent`);
- a round calls a node verified when all checks that were due passed, although its
  readiness counter is at the threshold and readiness was not due
  (`RecoveryReflectsChecks`);
- a reload checks the file as a whole and then applies its hot sections alone, so
  hot and cold sections in force may break a rule that relates them (`ValidInForce`);
  it applies them before the audit row is committed;
- rotating a key that was revoked or has expired issues a successor, and gives an
  expired one, that was not revoked, the grace period (`Rotate`);
- a last line split over two chunks is not counted, and the quota is charged too
  little (`FinishedIsCounted`);
- a stream that cannot be opened, or breaks before its first byte, ends a reply that
  has begun (the role event and the status 200 are out) without an error event or
  `[DONE]` (`FailToOpen`, `RaiseBreak`);
- at an error line the converter returns and leaves the inner generator where it is:
  the slot is returned when the event loop closes it, and if the line was the node's the
  node is told it did well (`CloseLeftStream`);
- a connection that breaks behind the node's last line adds an error to a reply whose
  finish has been told, and takes the usage from it (`TellBreak`);
- the cursor of round robin and the currents of the weighted one are shared by all
  models: `SpreadEvenly` and `SharesKept` hold while the eligible nodes stay the same,
  and calls that alternate between sets of nodes may pass over a node every time
  (`NextCursor`);
- the docstring of `request_json` has errors of reading tried again for calls without
  side effects; the code tries only errors of connecting and answers of 5xx again
  (`Fault`);
- a candidate an administrator deletes comes back from the cached answer of the
  source at the next cycle (`UseCache`);
- the consent document of `foa-owner` ends after seven days by default while the
  consent it proves may last ninety: the re-check then quarantines the node (`Lapse`,
  `HttpProof`).

## What is proved

Every safety and action property of a passing run is proved; the bounds of the runs
matter for the liveness properties, and for finding mistakes before a proof is tried.
The theorems hold for all values of the constants under the assumption the module
names: `RegistryAssumption`, `BreakerAssumption`, `DispatchAssumption`,
`AdmissionAssumption`, `KeysAssumption`, `SettingsAssumption`, `UpstreamAssumption`,
`HealthAssumption`, `DiscoveryAssumption`, `OwnershipAssumption`, `BalancerAssumption`,
`StreamingAssumption`. They ask for types, for markers that are no ids, and that
thresholds and intervals are not zero; `BalancerAssumption` also that a node is listed
once, and that a ring has each point of each node once. Three theorems have a
hypothesis besides, given with them: `SlotsBalance`, `BannedAddressesClosed`,
`SettledPoolsAgree`.

`NodeRegistryProofs`: `TypeCorrect`, `ProofBeforeTraffic`, `GatesBeforeDispatch`,
`ConsentsRestoredByProofs`.
`NoTrafficBeforeProof` speaks of the pool and of requests, but the pool is
rebuilt from snapshots, a snapshot from the rows and the session's own view, and
that view from columns a handler has read or is about to write. The inductive
invariant `IInv` says of each of these places that it claims a verified consent
only for a proved node, and that a handler under way has a node. Each action has
a lemma; what they share (a session that finishes, that writes, that reads for a
pass; a pool whose entries only close) is stated once. `GatesBeforeDispatch`
needs one more conjunct: what a request has read was open at some time since it
began. The last rests on what a session carries to its commit (`AllCarry`): a
verified status only if it loaded another one.

`RegistryPoolProofs`: `BannedAddressesClosed`, `SettledPoolsAgree`, `DeletionsLast`. The
first two properties do not hold under every interleaving, and the theorems say what each
needs; the third does.

- A blacklisting that has loaded a row bans its address even after the row was deleted
  and the address registered again. `BannedAddressesClosed` therefore assumes that there
  is one coroutine (`SoleHandler`) or that no coroutine deletes (`NothingDeleted`). The
  bans are looked at when an address is registered and written much later; `AddressInv`
  follows them through the handlers: who is about to ban an address has its row in the
  table, and so has every runtime that is routable.
- Two handlers publish snapshots in the order of their passes and not of their commits,
  and a crash loses a pass. `SettledPoolsAgree` therefore assumes `SoleServer`: one
  coroutine, in one process, and no faults. `SettledInv` has a clause for each point at
  which that coroutine may be: with a snapshot, that this is what the tables will say
  once it has committed; at its commit, that the pool says so already; when it is done,
  that pool and tables agree up to the exceptions named in the property. The exceptions
  are handlers that end without a pass (a failed proof, a refusal met by the check loop)
  and consents that end by the clock.
- A handler loads a row, waits, and writes it when the row may be gone. `DeletionsLast`
  says that none brings it back. `RowsInv` follows what each session is about to commit:
  nothing of the row, its deletion together with its consent, or columns of a row that is
  still there; and beside a session that is to commit a deletion no other has written the
  row, because each looked for the lock when it wrote. The check nested in a verification
  is the one handler that does not look for the row again: the verification has written it
  and holds it.

`DispatchProofs`: `DispatchTypeCorrect`, `ProbesBounded`, `OvershootBounded`,
`SlotsBalance`. Types need the breaker's soundness, that probes are counted only
half open. `ProbesBounded` needs that a probing request is attached to its node;
`OvershootBounded` counts the requests picked for a node against those that go
through `pick`; `SlotsBalance` holds without cancellations (`~Cancels`), and
`v_slot_leak` is why.

`AdmissionProofs`: `AdmissionTypeCorrect`, `UserSlotsReturned`,
`QuotaOvershootBounded`. `UserSlotsBalance` is inductive with the types.
`QuotaOvershoot` is not: `Bounded` adds to what a key has used what its running
generations may still cost, and bounds them by the slots. The gate is the one
step that may add a running generation, and it has just seen the quota unspent;
a generation that ends trades its place for its cost.

`HealthCheckProofs`: `RoundsAreSound`, `HealthImplementsPromise`. The refinement
compares two commits, and a round may have checked many nodes in between: `DraftKept`
says that what the draft has changed was allowed from the committed row, and that the
nodes still to do are as they were. Rows do not move while a round is under way (that
race is `NodeRegistry`'s), so the commit is one step of `CheckedNodes`.

`OwnershipProofs`: `ConsentsAreProven`, `SilenceKeepsFileNodes`. A verification looks
at what lies at an address, which others may have put there: `FilesPublished`,
`RecordsPublished` and `TokensPublished` say of each place that what names a
registration was put out by somebody who knew its challenge. The second is a property
of steps and needs the types only.

`DiscoveryProofs`: `SourcesAskedOnce`, `RisksReviewed`, `EnrollmentsStand`.
`AskedOncePerCycler` counts calls: `CallsOut` bounds the calls to a source by the
cycles that are waiting for it until an answer is cached. `HighRiskReviewed` needs
`LoadedRows`: if a cycle loaded the row with another status than candidate, and so
will not write the status, the table's row is no candidate either.

`ComponentsProofs`, one part per component:

- Keys and settings: `RotatedKeysEnd`, `RightsCarriedOn`, `RefusalsStand`,
  `RulesInForce`, `EnvironmentInForce`; the invariants are inductive with the types.
- A call: `GenerationStartsOnce`, `NodesTriedOnce`; a call that is still choosing has
  begun nowhere, and what was tried is excluded and counted against what is left.
- The balancer: `CallsSpreadEvenly`, `SharesAreKept`, `KeysStickToNodes`.
  For round robin, `Even` adds to the property the distance of each node from the
  cursor: who is nearer has not been called more often; so the node at the cursor may be
  called once more, and it is then the farthest of all. For the weighted one, `Balanced`
  says that the currents of the eligible nodes add up to nothing and that none is a
  round in debt, which a choice keeps because the node with the largest current has
  something to pay with; `Accounted` says that what a node has had over its share is
  what its current has lost. Currents may have been begun with other weights, which is
  why the slack is counted in rounds of the rows' weights. For hashing, the home of a key
  is the least of a set of points, and the least of a set changes only with the set.
- A stream: `StreamImplementsReply`, `EndIsToldByBytes`. `StreamInv` counts the
  pieces of the node's text that have been read, p: the buffer is what lies behind the
  last newline before p, and the events are those of the lines that are complete at p
  (`Flow`, `Heard`, `Buffer`), however the pieces came in chunks. A chunk is then an
  induction over its pieces, and each way to end a case on what the buffer holds. The
  first covers connections that end behind the node's last line and in the middle of it.
  The second says that what is told at the end follows from the number of bytes passed on
  and from how the connection ended; it holds the extent of the finding in
  `v_swallowed_error`: a break is told exactly if it comes between two lines.
- The instance: `ComponentsTypeCorrect`, since a behavior of `ComponentsMC` is one of
  each component (`OfEachComponent`).

Induction is needed over the pieces of a chunk and the terms of a sum. The library's
induction theorems take the predicate as a parameter, which the provers cannot
instantiate; here the predicate is a set. `Least`, `Induct` and `SubsetInduct` say that a
set of numbers has a least member, that one closed under successor has all, and that a
family closed under adding a member has every subset; the first comes from the library's
theorem that inclusion is well-founded on finite sets. `SumUnfolds` and what follows from
it (sums add up, and are bounded by their terms) are about the community modules' fold of
a set.

Only model-checked: the liveness properties (`ReplicaConverges`, `LapsedConsentEnds`,
`OpenEnds`, `KeyServedAgain`, `DeadNodeLeaves`, `WithdrawalLeaves`, `StreamSettles`),
which are out of the prover's reach.

## What is left

- `NodeRegistry` against an abstract gate of consent (unproved, serving, withdrawn),
  with the replica's delay;
- the passive window of a runtime together with ban rows: a node whose ban is lifted
  may be banned again for a refusal that is still in the window;
- pool entries with an identity: two sync passes may build two runtimes for one node.

## Not modelled

- Conversion of requests and of whole replies between the two APIs, routing,
  validation, error bodies: functions of one message, without state.
- `NodeService.patch`: it may raise `max_concurrency` above what the consent grants,
  and runtimes that exist keep their breaker settings; no property here depends on it.
- The transport's cache of clients and its gauge of active streams, which is taken
  back twice when a stream is closed early and which nothing reads.
- What SQLAlchemy does when branches of a fan-out use one session at a time.
- Latencies and scores, metrics, logs and audit rows; predicates on addresses;
  cryptography; migrations and deployment; the Redis backend, for which no client is
  ever created.
- `NodeRepository.list_all` stops at 500 nodes, so a pool and a round see no more.
