# AIM node: TLA+ verification

This directory holds TLA+ specifications of the AIM node (`aim_node/` and the Python
part of `gateway_v2`), TLC configurations that check them on small instances, and
TLAPS proofs of the properties that hold for every size. Each definition that models
code is listed with its source lines in `PROJECT.json` ("map"), the hazards that
matter most with their lines and the properties about them ("hazards"). Parse, check or
prove from this directory:

    tlasany FrameChannel.tla
    tlc -workers 2 -config MCSessions.cfg MCSessions
    tlapm FrameChannelProofs.tla

## 1. The system

An AIM node sells (provider) or buys (consumer) calls of AI tools. Two nodes are
brought together by the market over HTTP and a websocket (the trust channel), and
talk through a relay they do not trust, with end-to-end encrypted frames. A local
management API sets up, starts, stops, locks and configures the node.

| Component | State it keeps | Operations | Talks to | What is hard |
|---|---|---|---|---|
| Relay frame layer (`relay/transport.py`, `core/relay_crypto.py`, `relay/protocol.py`) | a sequence tracker per direction, keys, socket | `send_frame`, `recv_frame` | relay | the number is read before and advanced after an await; the relay may do anything |
| Relay session (`relay/transport.py`) | state, request slots, pending requests, heartbeat counters | `send_request`, heartbeat loop, `close` | both nodes | several tasks use one socket; close runs from four places; lost frames |
| Handshake (`core/handshake.py`, `RelayTransport.connect`) | ephemeral keys, state | two messages each way | relay | repeated, misdirected and late messages; no time limit in `connect` |
| Trust channel (`core/trust_channel.py`) | socket, backoff, waiters, handlers, queue | `run`, `stop`, `send`, `wait_for_action` | market | reconnection against `stop()`, two waiters with one key |
| Provider session handler (`provider/session_handler.py`) | tables of transports and tasks, health task | `on_session_negotiate`, `_process_session`, `stop` | trust channel, adapter, transports | offers keep coming while sessions end and `stop()` runs |
| Provider adapter (`provider/adapter.py`) | HTTP client, health counters | `forward_request`, `health_check` | local tool | counting to the limit |
| Consumer session manager (`consumer/session_manager.py`) | tables of sessions and keepalive tasks | `connect`, `invoke`, `close_session` | market, transports | overlapping closes, failing market |
| Consumer proxy (`consumer/proxy.py`) | HTTP server | start, stop, routes | session manager | - |
| Process manager, state store, lock (`management/process.py`, `state.py`, `routes.py`) | tasks, running flags, lock flags, passphrase, environment | start, stop, restart, reload, lock, unlock, shutdown | all of the above | requests overlap at every await |
| Setup, configuration, keystore (`routes.py`, `config_writer.py`, `config_loader.py`, `core/crypto.py`) | `config.toml`, keystores, setup state | setup steps, finalize, update, rotate | disk, market | overlapping requests, writes of `config.toml` that raise or are cut, keys the market must know |
| Facade, market client, credentials (`facade.py`, `marketplace.py`, `market_client.py`, `auth.py`) | response cache, tokens | reads, changes, refresh | market | a read overtaken by a change, a refresh by two requests, lost answers |
| Offline usage queue (`core/offline_queue.py`) | a JSONL file | `append`, `read_all`, `dequeue_all`, `flush` | metering service | appends during flush, file operations that raise, crashes between and inside them |
| Tool catalogue (`tools.py`) | `discovered_tools` | discover, validate | upstream | the file changes between the call and the write |
| allAI assistant (`allai.py`) | pending actions | chat, confirm | market's assistant | rounds, a changing list of allowed tools, repeated confirmations |
| Metrics (`metrics.py`, lifespan in `app.py`) | totals, time series, two files | `record_call`, `flush` | disk | a torn flush, restarts, a clock set back, the order of the end |
| Log stream (`logs.py`) | ring buffer, subscribers' queues | `emit`, websocket | browsers | slow and vanished clients |
| Session token (`middleware.py`) | session token, CSRF token | `dispatch` | browsers | the first request makes the token, and others overlap it |
| Gateway v2 (`gateway_v2/`) | meter buffer, counts per grant, drafts | enqueue, drain, invoke, calls | backend, connectors | threads on an unlocked buffer, failing sends, state restored after a call, repeated calls |
| Frontend, command line, scripts | - | - | API | - |

What makes each of them correct is stated by the properties of section 3.

All Python parts run on one asyncio event loop per node. Code between two awaits is
atomic; that is the grain of every action. Exceptions: where a file operation may fail
or the process may die inside it, an action is one operation on the file. The meter
buffer and the connector runtime of the gateway are plain synchronous code without a
lock, which threads or callbacks of their own may interleave: in the buffer an action is
one access to what its threads share (a test, an append, a pop, a write of the state or
of the deadline), in the runtime one read or write of a count. The state store is guarded by a thread lock, but all its writers run on the loop.

## 2. Modules

| Module | Models | State and actions |
|---|---|---|
| `FifoStream` | what the frame layer promises: each node accepts a prefix of what its peer sent | abstract |
| `FrameChannel` | `send_frame`, `recv_frame`, `SequenceTracker`, an arbitrary relay | `sendSeq`/`recvSeq` are the trackers, `draining` the tasks suspended in `ws.send`; `RelayDrops` and `RelayInserts` are the relay |
| `RelaySession` | extends it with `send_request`, heartbeats, `close`, the provider's loop | `pc[k]` is the await that task k is at |
| `RemoteCalls` | what a session promises those who call `send_request`: a call is sent, taken on and answered at most once, in that order, and ends once, with its answer or an exception | abstract |
| `KeyAgreement` | what the handshake promises: connects of one session and buyer are paired off for good | abstract |
| `Handshake` | `connect` and `HandshakeManager` of any number of connects over one relay | `dial[a]` where `connect` is, `mgr[a]` the manager's state, `stamp` and `took` when a message was signed and taken; a message is the connect that signed it, and any one signed so far may arrive anywhere |
| `TrustChannel` | `TrustChannelClient` | `runner`, `stopper`, `sender` are where `run`, `stop` and the sends are; `waiters`, `future` the table and its futures |
| `ProviderSessions` | `ProviderSessionHandler` and the health part of the adapter | `active`/`tasks` are `_active_sessions`/`_session_tasks`; `StopBegins` to `StopEnds` is `stop()` |
| `ConsumerSessions` | `SessionManager` | `table`/`keepers` are `_sessions`/`_keepalive_tasks`; `pc[k]` a call of `close_session` |
| `NodeLifecycle` | `ProcessManager`, `ProcessStateStore`, the routes that start, stop, lock | `todo[r]` is what request r has left; `turn` who has the loop |
| `NodeSetup` | the setup routes, configuration, keystores, rotation, a restart | `config` and `keystores` are the files, `market` the key it knows, `asks[r]` what a request awaits; `BreaksOff` is a write of `config.toml` that raises, and `RegisteredUnwritten` a finalize in which one of its three writes does |
| `MarketAccess` | facade, `_request`, `AuthService` | `at[r]` where a request is; the market's list of tools is a version, a token a number |
| `ToolSchema` | `_minimal_value`, `_matches_schema` | pure functions, written as recursive functions of a schema; each behaviour looks at one |
| `ToolCatalog` | discover and validate | `catalog` is the file; `scan`, `valid` the requests |
| `Assistant` | `allai_chat`, `allai_confirm` | `chat[c]` its locals, `held` the cache of actions |
| `OfflineQueue` | `OfflineQueue` | `lines`, `junk`, `ragged` are the file: its entries, its lines that do not parse, and what its last line lacks; `rest[f]` what a flush has to send; `AppendFails`, `RewriteFails` are an `append` that raises, by itself or in a flush |
| `Metrics` | `MetricsCollector`, the flush task, the lifespan's end | `totals`, `series` in memory and in `disk`; `SlotPasses` is the wall clock, which may be set back |
| `LogStream` | `RingBufferHandler`, `logs_stream_ws` | `feed[s]` a subscriber's queue, `stream[s]` where its websocket is |
| `SessionToken` | `CSRFMiddleware` | `request[c]`, who has the tokens |
| `MeterBuffer` | `LocalMeterBuffer` of the gateway | `buffered`, `state`, `since` its fields; `thread[t]` the access that a caller of `enqueue` or `drain` makes next |
| `GrantRuntime` | `ConnectorRuntime`: its counts and chunks | `counted` is `active_per_grant`; `invoke[c].active` what call c read of it, `GrantLimit[c]` the limit its request brings |
| `GatewayCalls` | the gateway's clients, payload checks, draft cache | `ask[r]`, `client[r]`; the backend's effects |
| `MCSessions`, `MCRequests`, `MCRecords` | instances for TLC | see section 3 |
| `FrameChannelProofs`, `RelaySessionProofs`, `OfflineQueueProofs` | theorems about the module of that name | |
| `SessionsProofs` | theorems about `ProviderSessions`, `ConsumerSessions`, `Handshake` and `TrustChannel` | |
| `RequestsProofs` | theorems about `NodeLifecycle`, `MarketAccess` and `Assistant` | |
| `RecordsProofs` | theorems about `NodeSetup`, `ToolCatalog`, `Metrics`, `LogStream` and `SessionToken` | |
| `GatewayProofs` | theorems about `MeterBuffer`, `GrantRuntime` and `GatewayCalls` | |
| `InductionFacts` | induction over the natural numbers, stated of sets | |

Refinements: `FrameChannel` (and `RelaySession` on top of it) implements `FifoStream`.
`RelaySession` implements `RemoteCalls` under the mapping that counts the REQUEST frames
the consumer sent and the provider accepted, and the answers the provider sent, for each
call. `Handshake` implements `KeyAgreement` under the mapping that pairs an initiator
that is up with the responder whose key it holds. All are checked by TLC and proved.

Abstractions. In `NodeSetup` a write of `config.toml` that breaks off leaves the old file,
no lines, some lines that parse, or a file that does not; a process that dies in a write
is such a write and then a `SetupCrash`. Which lines come first depends on the old file
and on what is written, so any of them may stay, which is more than the code can leave.
A frame is the record that the AEAD seals: nobody without the key makes
one, which is the standard assumption on AES-GCM; likewise a signature is valid for
what was signed only. Payloads are trace ids. A transport seen from the two session
modules is a state that goes from "up" over "closing" to "down"; what happens inside
is `RelaySession`. HTTP calls return, fail or raise, by choice. Names of offers, calls
and requests also name the transport or task they create.

Definitions called "Mutant of X" are plausible mistakes in X; no specification uses
them. Each property is checked to be violated when X is replaced by one of them
(`PROJECT.json`, "mutants"), so that a property that cannot fail is noticed.

## 3. Runs

`MCSessions`, `MCRequests` and `MCRecords` put components side by side that share no
state: a variable `part` says which of them moves in a behaviour, and the others rest
in their initial state. That checks each of them completely by itself. It says nothing
of interactions; those that matter are inside a module (a session and both its nodes,
a node's requests and its tasks, the wizard with the keystores and the market).

### Passing runs

| Run | Shows | Bounds |
|---|---|---|
| frame_suspended | with suspended and cancelled sends accepted frames are still genuine and accepted once (`AcceptedAreSent`) | 2 tasks, 2 frames, 1 fault |
| relay_session | a whole session implements `FifoStream` (`ImplementsStream`) and `RemoteCalls` (`ImplementsCalls`); CLOSING is owned and one CLOSE sent (`ClosesOnce`), CLOSED is final | 1 request, 1 heartbeat, 1 fault of any kind, miss limit 1 |
| relay_concurrent | results belong to their requests (`ResultsGenuine`), no slot leaks (`SlotsAccounted`) | 3 requests, 2 slots, a broken link |
| relay_live | requests, closes and the provider's end come, with a lost frame | 2 requests, 1 slot, 1 drop, 1 heartbeat after it |
| sessions | provider handler (`LinksSafe`, `StopReachesAll`, `ClosedSessionsLeave`), consumer manager (`CloseSafe`), trust channel (`TrustSafe`, `WaitersCurrent`), handshake (`KeysPaired`, `HandshakeSafe`, `ImplementsAgreement`); their tasks end (`TasksEnd`) | 2 offers, 2 sessions, failure limit 3; 3 overlapping closes of 2 sessions; 2 waiters of one key, 2 senders, backoff up to twice its start, 1 message of the market in the queue; 2 initiators, 1 responder, 2 sessions, 3 clock values |
| requests | the lock forgets and its flags agree (`LockInv`); manager, store and tasks agree (`TasksKnown`); the market's cache (`CacheFresh`) and credentials (`MarketSafe`); the assistant's actions (`AssistantSafe`); every request ends (`RequestsAllEnd`) | 3 requests of 9 kinds; 1 read and 1 change of the market with 2 grants of tokens and a cache life of 1; 1 chat of 2 rounds, 2 actions each of 2 tools, 2 confirmations |
| records | setup and keystores (`SetupSafe`, `MarketHasOurKey`, `SealKept`); samples (`SampleMatches`); tool file (`CatalogSafe`); metrics (`MetricsSafe`); log streams (`StreamsSafe`); session token (`AccessSafe`); offline queue (`NothingLost`, `QueueOrdered`); meter buffer (`BufferSafe`, `BufferRefuses`); connector runtime (`RuntimeSafe`); gateway calls (`CallsSafe`) | 2 overlapping setup requests, 2 keys, 1 crash, 1 write of `config.toml` that breaks off (then `PlainSetup`: one request has begun, the market has not failed, one key without a passphrase, the provider stopped); schemas nested twice over 2 fields, some described by no schema; 2 scans and 2 validations of 1 tool with 2 revisions; 3 requests over 3 slots, the clock going either way, with 2 buckets and 3 lives; 2 streams with queues of 2 and 4 entries; 3 clients, 2 of them local; 2 entries, limit 2, up to 3 lines where `count` and not also `clear` fails (`PlainQueue`), 2 flushes; 2 events, limit and threshold 1, 2 threads, 2 times, deadline 0; 3 invokes of one grant, one with the limit 1 and two with 2; a request called twice |

The properties named `...Safe`, `ClosesOnce`, `TasksKnown`, `QueueOrdered`, `LockInv`,
`TasksEnd` and `RequestsAllEnd` are conjunctions of parts that the modules define and
comment one by one; the type invariant of a component is one of its parts.

Why the bounds are enough to be interesting: one fault anywhere in a session with a
request, a heartbeat and closes from every side reaches each receiving task with a
loss, a repetition, a reflection and a forgery. Two offers may be for one session, so
that a session is offered again while it connects, runs or ends. Three closes of two
sessions allow two of the same. Two initiators for one responder, for one session or
two, allow each message to reach the wrong connect, and the clock lets it be too old.
Three requests allow a stop and a start to run into a lock. A read and a change of the
market overlap at every step of each other, with a token that ends between any two.
Two flushes of up to two entries allow one to write back what the other sent, and an
append to fail with one entry written and one left; two scans likewise. Two threads may
both enqueue, both drain, or do one each, at every access of the other; with a limit of
one event both find room for the last one. A write of `config.toml` may break off in
every route, while one request is in its await, and a crash and a restart come after it.
Three invokes can nest two deep or cross. Limits (slots, queues, misses, failures,
backoff, buckets) are small enough to be reached and passed. The proofs of section 4 have no bounds.

`MaxFrames`, `MaxFaults`, `MaxBeats`, `FaultBeats`, `MaxQueued`, `MaxClock`, `MaxTime`,
`MaxTokens`, `MaxProposed`, `MaxConfirms`, `MaxKeys`, `MaxCrashes`, `MaxBroken`,
`MaxRevision`, `MaxCounted`, `MaxSlot`, `MaxLives`, `MaxLogged`, `MaxLines`, `MaxNow`,
`MaxChunks` and `MaxTries` bound the behaviours and appear in guards; `PlainSetup` and
`PlainQueue`, above, are bounds of `MCRecords` alone (behind `PlainQueue` the queue's
properties claim no more than types); the sets bound the rest, since each request,
offer, call, event or entry happens once. `MaxFrames` never stops the relay runs. Run
records, which checks no liveness, uses symmetry: of the queue's entries and the buffer's
events, and of the flushes, threads and setup requests, which share model values.
Deadlock is not checked: all systems come to rest when the bounded supply of offers,
requests or entries is used up.

### What the passing runs condition on

Some hazards do break a property. So that the rest can be checked and proved, each is
behind a constant, or a history variable notes that it happened and the property ends
there:

| Where | What it notes or excludes | What the code does then |
|---|---|---|
| `Backpressure` (`relay/transport.py:121`) | sends that suspend | two frames get one sequence number (run frame_backpressure) |
| `Overlap` (`provider/session_handler.py:105`) | an offer repeated while its first copy connects | both pass the check, a second transport opens and the first drops out of the tables |
| `HealthMayRaise` (`provider/session_handler.py:62`) | a health loop ended by an error | `stop()` raises it at its first await and closes nothing; so `StopCompletes` starts after that await |
| `StopCollects` (`provider/session_handler.py:71`) | an offer whose connect returns after `stop()` took the table | it stays open; `StopReachesAll` speaks of what was live before |
| `KeepaliveMayFail` (`consumer/session_manager.py:128`) | a keepalive that failed | `close_session` raises its error, the transport stays open and no close finds it again |
| `blind` (`core/trust_channel.py:119`) | a `stop()` that finds `run()` inside `websockets.connect` | the connection is made and listened to after `stop()` has returned |
| `shared` (`core/trust_channel.py:92`) | two waiters for one key | the second takes the first's place, the first's `finally` removes the second |
| `overlapped` (`management/process.py:78`, `:108`) | requests that overlapped | two starts create two tasks; a second stop skips the rest of the first one's `finally` (trust task and running flag stay); a start runs into a lock (run node_lock) |
| `harms`: "overlap", "market_failed", "untold" (`management/routes.py:577`) | setup requests that overlapped, a market that failed, a rotation without a facade | the market keeps another key than the keystore's |
| `harms`: "switched" (`management/routes.py`, `config_update`) | a consumer made a provider after setup | it has no node id and no facade |
| `harms`: "unwritten" (`management/config_writer.py:46`, after `routes.py:196`, `:225`) | a write of `config.toml` that raised | the store was told of a step that the file does not have, until the setup is finished or the file is loaded again |
| `harms`: "cut" (`management/config_writer.py:40`) | a write that left other than the old file | a file that was emptied or cut at a line end is loaded as it is: the setup starts again, or is complete without its endpoint; one that does not parse stops the start |
| `SamePath` (`config_loader.py:57`) | a runtime keystore that is not the wizard's | run runtime_keys |
| `faults`: "raced" (`management/facade.py:66`) | a read overtaken by a change | its stale answer is cached until its time is up |
| `faults`: "lost", "revoked" (`core/auth.py`) | a refresh whose answer was lost, a revocation | the refresh token in hand is refused until the file is replaced |
| `crossing` (`management/tools.py:180`) | scans or validations that overlap | a verdict on an old schema stands beside the new one, or an older scan's list replaces a newer one's |
| `torn` (`management/metrics.py:101`) | a flush that came to its first file only | totals and time series differ from then on |
| `back` (`management/metrics.py:162`) | the wall clock was set back | the next bucket stands behind later ones |
| `missing` (`management/middleware.py:57`) | the response with the token was never made | nobody has the token until a restart |
| `missed` (`management/logs.py:56`) | entries that met a full queue | the client never sees them |
| `raised`, `fallen` (`gateway_v2/meter.py:215`) | a send that raised | its event is gone from the buffer, may have been recorded, and is sent again if its caller enqueues it again; a drain that ended so may leave a deadline over an empty buffer |
| `met`: "enqueues" (`gateway_v2/meter.py:196`) | two enqueues that overlapped | both find room for the last event: the limit is exceeded, by less than the number of threads; and either may set a deadline the other's tests have not seen |
| `met`: "drain" (`gateway_v2/meter.py:217`) | an enqueue that met a drain outside of its send | the drain's resets take the deadline it set, or it starts one over a buffer that was emptied meanwhile |
| `NoneInside` (`gateway_v2/meter.py:217`) | calls that are past their first test when the buffer shuts | a drain at its end opens it again |
| `crossed` (`gateway_v2/invoke.py:197`) | invokes that cross instead of nest | the count of the grant is wrong for good |
| `exposed` (`core/offline_queue.py:103`) | an entry appended during a flush | the `clear` at the end of flush deletes it |
| `exposed` (`core/offline_queue.py:109`, `:33`) | entries that a flush had left to write back when one of its appends raised, or the process died | they are nowhere: `clear` has deleted the file |
| `exposed` (`core/offline_queue.py:35`) | an entry on a line that a failed or interrupted write has begun, or one whose newline is missing when the next comes | the line does not parse, and both are skipped |
| `mishaps`: "count" (`core/offline_queue.py:45`) | an error of `count`, which returns 0, at a full file | the limit is exceeded, and a later write-back may not fit; `WithinLimit` |
| `mishaps`: "clear" (`core/offline_queue.py:68`) | a `clear` that failed | only the file's order ends: entries are written back behind themselves |

A property that stands on such a condition says nothing of the case it excludes: the code
does then what the third column says. The hazards in `PROJECT.json` name it in their
notes.

### Violation runs

Each shows a statement of the repository that the code does not keep; `PROJECT.json`
("findings") quotes the statement.

| Run | Shows |
|---|---|
| frame_backpressure | two suspended sends use one sequence number |
| relay_idle | an idle consumer does not read, so acknowledgements that came are counted as missed |
| relay_overlap | the second of two overlapping requests raises at once |
| node_lock | a locked node can run a provider or consumer |
| runtime_keys | the provider's keystore is not derived from the data directory as the wizard's is, so it may sign with keys the wizard did not register |

### Fairness

Weak fairness only. Of the event loop: a task that can go on does. Of timers: sleeps
and `wait_for` end, so the waits in `close()` and the backoff do. Of sockets: `recv` on
a closed socket raises, and the relay hangs up a leg whose other leg is gone; the trust
channel's `websockets.connect` returns or raises by its own time limit, and a close
that `stop()` asked for is answered or times out. The adapter's HTTP calls, the
market's and the assistant's have time limits in the code. Nothing is assumed of
offers, requests, the connects of a relay session (which have no time limit), closes
asked by a user, or faults: they may never come.

## 4. Proofs

TLAPS checks these for all values of the constants. With them every invariant and
action property of a passing run, and every refinement, is proved, some of them under
the hypotheses that are named here and that the runs share.

- `FrameChannelProofs`: types; `AcceptedWereSent` (with backpressure too): what is
  accepted was sealed by the peer. Without backpressure `ChannelInvariant`,
  `InOrderDelivery`, `FreshSequences` and `Refinement` of `FifoStream`. The invariant
  `ChannelInv` adds to the properties that trackers count the frames (`SendCounts`,
  `RecvCounts`) and that all that is on a wire was sealed by a node or is noise
  (`WireSeen`); without these a frame accepted could not be traced to its index in
  `sent`.
- `RelaySessionProofs`: for any number of requests, slots, heartbeats and faults
  `SlotsAreAccounted`, `SessionClosesOnce`, `ResultsAreGenuine`, `ClosedStaysFinal`,
  `SessionRefinement` and `CallsRefinement`. None of these is
  inductive. `SessInv` takes `ChannelInv` from the frame layer (each step of a session
  is one turn of a node, a step of the relay, or leaves the frames alone: `StepShape`)
  and adds where each kind of task can be (`Places`); that of the two tasks of a node
  that call `close()` one is past its first await, and then the other is out of it or
  cancelled (`OneCloser`); that after a CLOSE the socket is closed or its sender waits
  for the answer, which is why a second CLOSE cannot leave (`CloseWaits`); and, for the
  results, that a REQUEST is sent once and each answer or result goes back to a request
  the provider accepted (`AskInv`). `CallsRefinement`, the refinement of `RemoteCalls`,
  needs two things more. `AnswerInv`: a request has one answer at most, none while the
  adapter works on it, and a call that has a result has ended; it is inductive because
  a REQUEST that the provider takes is one it has not heard before (`TakenIsNew`).
  `CallShape`: to the calls every step of a session is one of five, namely it starts a
  call, ends one, lets the provider take a request on or answer it, or says nothing of
  requests, when the provider may still take one off the wire that nobody will answer
  because it is closing.
- `SessionsProofs`, of `Handshake`: for any connects and any relay `PairsShareKeys`,
  `HandshakeIsSafe` and `HandshakeAgrees`, the refinement of `KeyAgreement`. `HsInv`
  says of each side what its state implies: an initiator that is up holds the key of a
  responder that holds its own, which was signed at most one window of skew after the INIT
  and taken at most one after that (`stamp`, `took`), so that the two checks of the time
  bound the whole exchange; a responder's key is of an INIT of its own session.
- `SessionsProofs`, of `TrustChannel`: `TrustIsSafe` and `WaitersAreCurrent`. `SocketHeard` is
  inductive with the types; waiters need that a caller outside `shared` was the only
  one to write its key's entry; `OneSender` follows from the stronger `OneInSend`, which
  needs no cardinality.
- `SessionsProofs`, of `ProviderSessions`: types, `HealthIsCount`, and, if an offer is not repeated
  while the first one connects (`Overlap = FALSE`), `HandlerInvariant` and
  `LinksAreSafe`. `HandlerInv` adds that no two offers of a session connect and none
  does while one is active (`ConnectsAlone`), without which the write after the await
  could overwrite an entry, and that the table is keyed by session (`ActiveKeyed`).
  Of `ConsumerSessions`: types, and, if keepalives do not fail, `ManagerInvariant`
  and `ClosesAreSafe`. `ManagerInv` adds that the two tables agree and that a call that
  has popped a session acts on one that is out of the table.
- `RequestsProofs`, of `NodeLifecycle`: `LockHolds` and `TasksStayKnown` for any overlap
  of requests. The two parts of `LockInv` are inductive together: the flags say that an
  unset passphrase goes with LOCKED. `TasksKnown` is far from inductive. `LifecycleInv`
  adds what a request has left of its program (`Remainders`, whose suffixes are
  finitely many) and who has the loop (`LoopInv`); for the consumer, which server is
  whose while starts and stops overlap (`ServersInv`); and, as long as no two requests
  overlapped, that at most one is under way, so that where it stands in its program
  says which tasks exist and what the lock still has to do (`AloneInv`).
- `RequestsProofs`, of `MarketAccess`: `CacheStaysFresh` and `MarketStaysSafe` for any
  calls. `MarketInv` adds that a call's credential is one the market issued
  (`TokensIssued`), that a change is placed once and where the call has got to says
  whether it was (`WritesPlaced`), and that an answer on its way is no older than what
  the user was told of, unless it was raced (`ListsFresh`); and, until an answer is lost
  or the tokens are revoked, that the market takes the refresh token in memory or a
  successor is on its way, which nobody can have used before it arrives
  (`RefreshTokens`).
- `RequestsProofs`, of `Assistant`: `AssistantStaysSafe` for any chats, tools, rounds and
  changes of the configuration. `AssistantInv` adds that what a chat is about to run
  by itself needs no consent and that what is held does, and that an action which is
  held was shown once more than it was approved. That an answer holds the last action of
  an id needs a greatest index, hence `InductionFacts`.
- `OfflineQueueProofs`: `QueueInvariant` and `NoUsageLost` for any number of
  overlapping flushes, any limit and whatever fails. `QueueInv` has two parts. `Shape`
  survives everything: the types, that a flush that meters has an entry to send, and that
  a last line without newline is there (`ShapeStep`). `Covered` holds until `count` lets
  an entry into a full file (`WithinLimit`): each flush under way still has before it all
  that is owed, and what is written back fits or is still in the file (`CoveredStep`).
  What is owed leaves out the entries in `exposed`, which have met one of the three ways
  in which the file loses an entry; the theorem says that there are no others.
  `OrderInvariant` and `UsageStaysOrdered`: `QueueOrdered` speaks of the file and of what
  was metered, while each flush goes by what it has read earlier. `OrderInv` therefore
  says of what a flush has read, too, that it is in the order of acceptance, and that
  what the flush in the loop has still to write goes after what it has written
  (`QueuesInOrder`, until clear fails); and that every entry of the file, and of what a
  flush has to send, has before it all that was accepted earlier and is neither accounted
  for nor exposed (`NoneOvertaken`, within the limit). The latter takes `Covered` from
  `QueueInv`: a new entry may go to the end of the file because all that is owed is in it.
- `RecordsProofs`, of `SessionToken`: `AccessStaysSafe` for any clients. A client operates
  from the moment a response with the token is on its way to it (`Operates`). There is
  at most one such client, it is on this machine, and once the token is made there is
  none only if that response was lost.
- `RecordsProofs`, of `ToolCatalog`: `CatalogStaysSafe`. `VerdictsCurrent` speaks of the
  moments without a request only; `CatalogInv` adds what holds of the one request in
  flight while none has overlapped (`OneInFlight`), and what the file says meanwhile.
- `RecordsProofs`, of `LogStream`: `StreamsStaySafe` for any streams, ring and queues.
  `StreamInv` adds when a stream holds an entry that it has taken from its queue and
  not yet sent, and that one that has not begun has nothing. What is received, held
  and queued is one list: taking and sending leave it as it is, an entry goes to its
  end or to `missed`.
- `RecordsProofs`, of `Metrics`: `MetricsStaySafe` for any limits. `MetricsInv` adds that
  both copies of the series are in the order of time and not of a later one, until the
  wall clock is set back (`back`), that no bucket and no total has
  more errors than calls or more calls than there were, and that the aged calls are a
  number. The calls of a series are counted as pairs of a bucket and a number, so that
  the lemmas on cardinalities give what a new bucket, one more call, or the loss of the
  oldest bucket does to them.
- `RecordsProofs`, of `NodeSetup`: `SetupStaysSafe`, `MarketKeepsOurKey` and
  `SealStaysKept` for any requests, keys, crashes and writes of `config.toml` that break
  off. `SetupInv` adds what a request that awaits the market is about to write: a
  provider that is to be registered has its endpoint (`RegistersUsable`), and the key
  that is being told is the wizard's (`TellingOurs`); and what the file says of itself
  (`SetupFiles`: a complete setup has a serial, a file that does not parse comes of a
  write that broke off, a dead process awaits nothing). `BrokenFacts` and
  `UnwrittenFacts` say once, for all the routes, what a write that breaks off keeps.
  `SealKept` is about each step by itself.
- `RecordsProofs`, of `ToolSchema`: `SamplesMatch`, for schemas over any fields, nested to
  any depth. That the three recursive functions exist is a matter of proof
  (`MinimalDefined`, `MatchesDefined`, `FitsDefined`), by induction over the depth of
  nesting (`Levels`): each function at a schema uses its values at the schemas below
  only (`MinimalLocal`, `MatchesLocal`, `FitsLocal`). Their equations are `SampleFacts`. The same induction shows that a sample matches if and only if it fits
  (`SamplesFit`). `_matches_schema` descends into the sample's own fields, hence
  `MetClosed`: the fields of a value it meets are values it meets.
- `GatewayProofs`: for any limits and events, and enqueues and drains in any threads that
  interleave at every access, `BufferIsSafe` and `BufferKeepsOut` of the meter buffer.
  `BufferInv` adds to the account of the events that an event in an enqueue is not
  admitted yet, or has fallen, and is in no other enqueue (`CallsHaveTheirs`); to the
  limit, the room that calls have found and not taken (`RoomFound`); and to the deadline,
  which calls are on their way to set or to clear it (`DeadlineSet`). Of the calls
  `CallsAreSafe`: by `CallsInv` the backend has seen the key of a keyed call that took
  effect, so that a repetition does nothing. Of the connector runtime `RuntimeIsSafe`,
  for any calls, grants and limits. A number n is read or written only after n calls have
  read 0 to n - 1 (`Earned`), which bounds the counts whatever the threads do; what a
  call has read was under its own limit (`LetIn`); and while calls nest each has read the
  number of calls of its grant that were counted before it (`ReadsRight`), so that what
  the last of them puts back is right.

Assumptions are the named `ASSUME`s of the modules and the hypotheses above
(`Backpressure`, `Overlap` and `KeepaliveMayFail` FALSE). The `ASSUME`s say of what type
the constants are, that names of tasks and `None` are outside the sets they are not to
be confused with, that `Operations` are among the programs of `NodeLifecycle`, that
bounds which the first step needs are not 0 (`MaxTokens`, `MaxRevision`), and that
`ToolNames` of the assistant and `Tools` of the catalogue are not empty: the names of
the tools are fixed in `allai.py`, and `ToolCatalog` speaks of a tool to be validated,
where a set of ids without an element would leave nothing to speak of. `SamePath` may
be either. `SchemaAssumption` says that defaults and schemas come from a JSON document:
they are trees of some finite depth, and a field of a default is itself a value.

The library's induction theorems take an operator as a parameter, which the provers
here cannot instantiate. `InductionFacts` gets around it for the natural numbers, from
the theorem on well-founded relations, which takes sets: a least and a greatest element
exist, and a set closed under successor has all numbers. The proofs about `ToolSchema` use
the last of these, with the set of depths up to which a statement holds.

What stays with TLC: liveness and `ENABLED`, which the prover does not handle, so
`StopReachesAll`, `ClosedSessionsLeave`, `TasksEnd`, `RequestsAllEnd`, `RequestEnds`,
`CloseCompletes` and `ProviderFollows`; and the statements of the violation runs.

## 5. Not modelled

Hazards that no property covers:

| Where | What can happen |
|---|---|
| `relay/transport.py:92`, `:94` | `connect` waits for the ACCEPT without a time limit; a handshake that fails leaves the socket open |
| `consumer/session_manager.py:82` | `connect` fails after the market opened the session, which nobody closes then |
| `consumer/session_manager.py:152` | one failed keepalive ends the keepalives of a session that goes on |
| `management/process.py:162` | `stop_consumer` leaves the session manager and its sessions behind |
| `core/offline_queue.py:99` | an entry that is always refused blocks those behind it |
| `core/trust_channel.py:186` | `_negotiations` grows by an entry per offer |
| `management/allai.py:443` | an action id that comes again replaces the action behind the user's button |
| `management/app.py:346` | a flush loop that died of an error raises it here, and `process_mgr.shutdown` is skipped |
| `management/routes.py:192` | `setup_keypair` seals with a passphrase that the state store does not learn of |

They are plain from the code once seen: a property would restate the line. Further:

- The frontend, the command line and the release scripts: they keep no state that the
  API does not have. The TypeScript gateway: a second implementation of the same
  surfaces; only the Python one is modelled.
- `core/connectivity_token.py` (checks a token and keeps no state), request and answer
  formats, redaction of contexts, error codes, latencies, and routes that only read.
- The 64-bit sequence number's end, CANCEL frames (no code sends them) and ERROR frames
  without a trace id. In `RelaySession` sends do not suspend; what happens if they do
  is `FrameChannel`.
- `Cancelled` in `NodeLifecycle` lets a cancellation that meets `handler.stop()` take
  effect or be suppressed, by choice, for any of its awaits.
- Session kill: only tests add sessions to the store. What `stop_consumer` leaves of
  the session manager is not composed with `ConsumerSessions`.
- In `NodeSetup`, errors of the keystore's writes, and a crash between its rename to its
  backup and the new one. In `OfflineQueue`, an error of `read_all`, which leaves its
  caller with nothing done. In `MarketAccess`, reads of other paths: they have cache keys of their own, which
  nothing invalidates.
- The market's own expiry of sessions is not in the repository.
- No code but tests uses `OfflineQueue`; who appends and flushes when is open, and
  nothing is assumed of it. The same holds of the gateway's meter buffer.

## 6. Order of work and what is left

The modules came in this order: the frame layer and the relay session, the session
managers, the node's life, the offline queue; then the trust channel and the handshake,
the gateway, setup, market access, and the smaller records of the management API. What
is left:

1. Compositions: `NodeLifecycle` with the consumer's sessions it starts and leaves,
   `TrustChannel` with `ProviderSessions` as the source of its offers.
2. The TypeScript meter buffer and connector runtime against the Python ones.
