# Verification of the realtime gateway

TLA+ models of the gateway in `src/` (a Rust/tokio process that bridges
WebSocket and WebTransport clients to Redis streams), TLC runs on small
instances, and TLAPS proofs for instances of any size. Paths below are
relative to the repository; `state.rs` stands for `src/src/state.rs` and so on.

## 1. The system

### 1.1 Parts, their state and operations

| Part | State | Operations | Code |
|---|---|---|---|
| connection registry | DashMaps `connections`, `subjects`, `ready_connections` | `register_connection`, `unregister_connection`, `mark_session_ready`, `mark_connection_alive`, `prune_stale_connections`, lookups of the sends | `state.rs:728-1013` |
| message delivery | `pending_by_subject`, one unbounded channel per connection | `send_to_subjects`, `requeue_for_subjects`, `take_pending_for_subjects`, `prune_pending_queue`, the write loops of the transports | `state.rs:228-240, 366-402, 910-961`, `websocket.rs:157-213`, `webtransport.rs:157-227` |
| relay authorization | `relay_contexts_by_subject`, replay cache, rate counters, a lock | `apply_relay_context_snapshot`, `authorize_relay_hotpath`, then the dispatch | `state.rs:296-364, 473-705`, `gateway_core.rs:182-273` |
| request routes | `request_routes` | bind, prune, resolve, clear, removal by `unregister_connection` | `state.rs:242-260, 404-471, 807-816`, `broker.rs:336-375` |
| outbox consumer | `last_id`, the batch in hand | XREAD loop, handling, XDEL | `broker.rs:240-499` |
| handshake | the payload, token and identity a session task has in hand | `authenticate_socket`, `authenticate_connection`, `resolve_initial_auth`, `authenticate_via_http`, `verify_jwt` | `websocket.rs:216-360`, `webtransport.rs:343-449`, `preauth.rs`, `auth.rs`, `project/preauth_config.rs` |
| session lifecycle | the phase of each session task | registration, greeting, `connected`, loop, end, `disconnected`; the pruner | `websocket.rs`, `webtransport.rs`, `main.rs:52-81` |
| client command routing | the command registry, fixed at build time | validation at startup; `handle_client_message`: binds a route, marks ready, relays, publishes to the inbox | `gateway_core.rs:13-317`, `routes.rs`, `project/command_registry.rs`, `main.rs` |
| HTTP API | none | `publish` (one `send_to_subjects`), read-only endpoints | `http_api.rs` |
| configuration, startup | constants | environment, static tables | `config.rs`, `main.rs`, `transport/factory.rs`, `project/` |

### 1.2 How they interact

Every client has a session task. It calls the methods of `GatewayState`
directly and reads a channel of its own that other tasks write. The outbox
consumer, the HTTP API and relaying sessions all call `send_to_subjects`. The
pruner, registering sessions, `session_ready` and sends to a dead receiver all
call `unregister_connection` on connections of others. The backend is only
reached through three Redis streams: `ws.inbox`, `ws.events` (written), and
`ws.outbox` (read).

`#[tokio::main]` starts a multi-threaded runtime. Methods of `GatewayState`
contain no `await`, so at most as many of them run at a time as there are
worker threads, but each map access takes and
releases a lock of its own, so that methods on different threads interleave
between any two accesses. On one worker every method is atomic. The number of
threads is the constant `Workers` in the models of the registry, the routes and
the sessions; in those of delivery and relay, where one run explores both
settings, it is the variable `workers`, which `Init` picks and no step changes,
and a property that needs one thread says `workers = 1 => ...`.

### 1.3 What is hard

Check-then-act over several maps (registration, replay cache, emptied subject
keys); iterators that are no snapshots; connections that are unregistered by
somebody else than their session; messages that go back to a queue after the
client has returned; ids whose route dies between lookup and send; events of
one connection published by two tasks; a stream position kept in memory;
clocks in whole seconds. `PROJECT.json` lists each hazard at its line with the
properties that watch it.

### 1.4 What makes each part correct

- registry: index and connections agree; one connection per browser tab; the
  limit on ready connections holds and evicts the oldest; a dispatch takes away
  nobody who can be reached; nothing is leaked; methods return.
- delivery: no duplicates, in order, nothing lost before its time or kept after it.
- relay: a command is checked against a stored context; no replay; rate bounded;
  policies never go back.
- routes: a response goes to the session that asked, never to another user,
  and is not lost on the way to its fallback; routes of dead connections go.
- consumer: at most once, in order, no gap; deletes only what was dispatched.
- sessions: one `connected` and one `disconnected`; nothing left registered.
- handshake: a client is served only as somebody a payload of its own and a
  verified token, or a guest payload, make it.
- commands: in order, at most once on each way, peers before the backend; an
  error means nobody got it; what the backend reads it can answer.

## 2. Modules

| Module | Models | One step is |
|---|---|---|
| `ConnectionRegistry` | the registry | one access to a shared map |
| `MessageDelivery` | queues, channels, write loops, one or more workers | one access, or one await |
| `RelayAuthorization` | snapshots, checks, replay cache, rates | one access |
| `RequestRoutes` | routes with the sessions and the consumer that use them | one access to the route map |
| `OutboxFeed` | abstract: what the consumer promises | |
| `OutboxConsumer` | the consumer and the stream; implements `OutboxFeed` | one await |
| `PreAuth` | what payloads and tokens are worth | (operators) |
| `ClientSession` | handshake, sessions, pruner and lifecycle events; extends `PreAuth` | one await; a registry call |
| `CommandRegistry` | specs, their lookup, what startup accepts | (operators) |
| `CommandTable` | the 123 rows and the relay metadata of the release | (operators) |
| `CommandContract` | abstract: what a client's commands are promised | |
| `CommandRouting` | startup and the command handler; implements `CommandContract` | one map access or await |
| `MC*` | model values and instances for TLC | |
| `*_proofs` | theorems | |

Variables and actions carry the names of the code's fields and functions where
they can; `PROJECT.json` maps each definition to its lines.

`ConnectionRegistry`: `connections`, `subjects`/`subjectKeys` (a key can exist
with an empty set) and `ready` are the maps. A task has a frame (`op`, `step`,
`scan`, ...): the method it is in, the next access and what an iterator has yet
to visit. `unregister_connection` is the subroutine `drop_ready`, `drop_index`,
`drop_key`, entered from six places. `connectedAt` is a rank (ties
included), `idle` replaces the clock comparison of the pruner.

`MessageDelivery`: `pending[s]` holds a text and its second; `channel[c]` is
the receiver's queue with `Close` in it; `writing[c]` is what the session is
sending (a WebTransport write may fail after 3 s and put a push back, a
WebSocket one drops it). Each `Message` is dispatched once, to an audience
that can be one or both of the user's subjects (`user:Alice`, `user:alice`). A
`Dispatcher` is whoever calls `send_to_subjects`: the outbox consumer, the HTTP
`publish`, a relaying session. A task in a method has a frame (`step`,
`message`, `todo`, `ids`, `enqueued`, `snapshot`, `now_ts`), so that a dispatch
(`Send`, `Deliver`, `Delivered`, `Requeue`), a registration (`Register`,
`Drain`, `Drained`) and a put-back can overlap at each queue and channel. The
properties are stated over the copies a client has or will get (`Copies`).

`RelayAuthorization`: the context map is under an RwLock-like shard lock that a
check holds from its lookup to its end; `ApplyRead`/`ApplyInsert` are the two
accesses of a snapshot. `Check` decides by the context's fields, `CheckReplay`,
`RecordReplay` and `CountRate` are the accesses after it. Refused commands
change nothing before the replay cache and are no steps.

`RequestRoutes`: `routes[id]` with connection and second; `target`/`todo` hold
what a task in `unregister_connection` or `prune_request_routes` has collected;
`answer` and `found` are the consumer's. The backend (external) answers
under the sender's subjects whenever it likes, or not at all.

`OutboxConsumer`: the stream is a sequence of kinds; an id is a position;
`Latest` is `$`. The phases are the awaits of the loop. Redis (external)
evaluates `$` when an XREAD arrives and answers a blocked one with the first
entry added. Restart loses `lastId` and `batch`.

`PreAuth`: a payload is its type, the set of its fields that are not blank, the
token or name in it, and its client instance id; `Accepts` is which payload
`resolve_initial_auth` lets through, `VerifyJwt` and `Admits` which token.

`ClientSession`: `phase[c]` is the await a session is in. `Open` takes the token
of the query, `ResolveAuth` decides on a payload, `BackendAnswers` brings a
token of the auth backend, `Verify` checks it and admits the client, `Refuse`
goes back to the read without end. `registered` has the keys of `connections`; a
call of the registry is one step. `log[c]` has the events of one connection in
stream order. `pruned`, `dropped` and `unpublished` say where an info went.
Whom `session_ready` evicts is left open.

`CommandRegistry` and `CommandTable`: the registry is a value, so the released
one is compared with others that startup must refuse (a name twice, a relay
command without metadata, a mirror flag on a command that is not relayed).

`CommandRouting`: `at[c]` is the step of `handle_client_message` a session is
in: `Take` (lookup and refusal), `Bind`, `MarkReady`, `Relay`, `Publish`,
`Return`. `routes` and `ready` are here what the handler and the removal of
connections do to them. `relayed` and `inbox` are the two ways out.
`CommandContract` knows only the number of the command a session is at, the two
ways and whether the last command got an error; its refinement mapping forgets
everything of an inbox entry but whose command it is.

## 3. Runs

| Run | Question | Instance | Result |
|---|---|---|---|
| `registry_methods` | do whole methods keep index, tabs and limit right? | 3 out of 4 connections of one user (2 of the 4 are of one tab), 2 subjects, limit 2, pruner, dispatcher, 1 worker | holds |
| `registry_threads` | what survives interleaving at every access: limit, keys, judgements about others, return? | 2 connections, limit 1, pruner, dispatcher, 2 workers, fairness | holds |
| `registry_handover` | is a registered connection always reachable? | 2 connections, 2 workers | violated |
| `relay_threads` | rate, stored contexts, uniqueness, policy order; without overlap also replay | 2 sessions, 2 nonces, rate limit 2, TTL 1, clock to 3, 1 or 2 workers | holds |
| `relay_replay` | replay with overlap | 2 sessions, 2 workers | violated |
| `delivery` | loss and duplicates on any workers; order, expiry, stranded messages on one | 3 messages, 2 connections (one of each transport), 2 subjects, queues of 2, TTL 1, clock to 2, 1 or 2 workers | holds |
| `routing` | does a response reach who asked, and only them? | 3 connections of 2 users, 2 ids, 2 requests, TTL 0, map pruned above 1, 2 workers | holds |
| `outbox` | does the consumer implement `OutboxFeed`? | 4 entries, batches of 2, 1 failure, 1 restart, fairness | holds |
| `outbox_gap` | is every event handled when nothing fails? | 2 entries, no failure, no restart | violated |
| `session` | who is admitted, and is each end reported once? | 3 sessions (2 of one tab; the third of the same user, or a guest), good and bad payloads and tokens, 2 workers, fairness | holds |
| `session_events` | is each end reported at all? | 2 sessions of one tab, 1 worker | violated |
| `commands` | does the handler keep its contract, and is what the backend reads answerable? | 2 sessions, 2 and 1 commands of 11 kinds, 4 builds, 1 request id, Redis configured or not | holds |

Why the bounds are enough: two connections of one tab, or three for the limit
(one to stay, one to go, one to ask; the constraint `ThreeOpened` lets TLC
open any three of the four), are the least in which evictions choose;
a third concurrent method adds no new pair of accesses, and the invariants that
hold on two workers are proved for any number (section 5). Queues of 2 with 3
messages overflow; TTLs of 0 or 1 second with a clock beyond them expire; a
route map with maximum 1 is pruned at its second entry; 4 entries in batches of
2 give a batch cut by a crash, a repeated read and a rest. One session with two
commands and one with one give every order on either way and every sharing of a
request id. `relay_threads` and `delivery` have a CONSTRAINT `Bounded` that
gives each setting the part that is its question: on two workers two sessions
or two messages within one or two seconds (every overlap of two
methods), on one the times and numbers that make caches expire and queues
overflow. Where the model has
a bound on a counter (`MaxTime`, `MaxRequests`, `MaxEntries`, `MaxFailures`,
`MaxRestarts`) the system may go on and the model stops, so those runs do not
check for deadlock; `registry_threads` does. Symmetry is used for
alike connections and request ids in runs without liveness.

Fairness. `ConnectionRegistry!FairSpec`: weak on each access of a method (threads
are scheduled, locks are short). `OutboxConsumer!FairSpec`: weak on the consumer's
own steps and on the XREAD timeout (BLOCK 5000); failures and restarts are never
required and are finitely many. `ClientSession!FairSpec`: weak on the two steps a
task owes once it is there: a session that is past its loop unregisters itself,
and the pruner reports the infos it holds, one publication after the other, each
of which is answered or fails. No client and no backend is assumed to do anything,
and no write to a socket to end (`websocket.rs:163` has no timeout), so that an
evicted session is not assumed to notice it. `MessageDelivery`,
`RelayAuthorization`, `RequestRoutes` and `CommandRouting` state only safety and
need no fairness.

## 4. Findings

1. `registry_handover`: `unregister_connection` releases the lock of an emptied
   subject set and then removes the key, with whatever was indexed in between
   (`state.rs:801-802`). The new connection stays registered and gets nothing.
2. `relay_replay`: `ensure_relay_replay_fresh` looks up and inserts in two
   accesses (`state.rs:319-328`); one nonce sent by two sessions at once passes
   twice.
3. `outbox_gap`: until the first entry, each XREAD reads from `$` anew
   (`broker.rs:251-268`), so an event added between two of them is lost although
   nothing failed.
4. `session_events`: infos of connections that are replaced or evicted are
   dropped (`websocket.rs:128`, `webtransport.rs:129-140`,
   `gateway_core.rs:109`), so `ws.events` never says they ended. In
   `RequestRoutes` and `ClientSession` one sees the same for a dispatch that
   meets a dead receiver between the end of a loop and `unregister_connection`
   (two workers only).

Met while modelling, without a run of their own:

- Delivery on two workers. `InOrder` and `NoneStranded` have the premise
  `workers = 1`, because without it TLC finds: a connection that
  registers between the lookup of a dispatch and its buffering leaves the
  message waiting until the next registration (`state.rs:924-955`); a message
  dispatched to a connection that is inserted but has not drained its queues
  overtakes the buffered ones. When another session fails to write that
  message and puts it back before the drain, the connection gets it twice
  (`state.rs:783-789`): `NoDuplicates` exempts, with more than one worker, what
  was put back, and nothing else. `TakenInTime` has the premise because items may
  then join a queue out of the order of the times they were stamped with.
- Two dropbox guests of one slug within one microsecond get one user id
  (`preauth_config.rs:31-37`).
- What more than one worker thread, the default of `#[tokio::main]`, makes
  possible beside the above. The properties of the runs do not forbid it: those of
  `registry_methods` are about methods that do not overlap, and the rest are
  stated so that they hold.
  - The pruner removes a client that has spoken between its scan and the removal
    (`state.rs:993-1011`): what it collected is not looked at again.
  - A revocation comes between the check, which releases its lock at
    `state.rs:702`, and the dispatch at `gateway_core.rs:263`: the command is
    relayed although its context is revoked by then. `CheckedContextStored` is
    about the check only.
  - Two `session_ready` calls of one user with a limit of 1 evict each other's
    connection, and none is left (`state.rs:840-870`; TLC finds it when
    `ReplacedNotLost` is checked with two workers, and likewise that
    `EvictsOldest` fails there).
  - A connection evicted between its insertion and its indexing
    (`state.rs:776-784`) leaves an id in the index without a handle.
  - A session that sends `session_ready` after it was evicted leaves an entry in
    `ready_connections` for good (`state.rs:829`); it does not count against the
    limit.
  - A text sent to a connection that is being evicted, after the Close was put on
    its channel and before the handle goes (`state.rs:879-885`), lies behind the
    Close and is lost. `MessageDelivery` takes these two as one step.
- A WebSocket session in a write to a client that does not read does not poll its
  channel (`websocket.rs:163`, no timeout) and so does not notice that it was
  evicted, for as long as the write takes. A WebTransport write ends after 3 s.
- `src/README.md:33-36` speaks of bidirectional streams and datagrams;
  `webtransport.rs:183` and `484` accept only unidirectional streams.
- A connection that is pruned before its session has published `connected`
  can have `disconnected` first in the stream (`main.rs:76`).
- Two registrations of one tab that overlap on two threads both stay
  (`state.rs:744-776`, against the comment at 740).
- A push put back after its client has reconnected waits for a further
  registration (`webtransport.rs:171-173`).
- The handshake repeats without a timeout (`websocket.rs:229-246`) where
  `src/README.md:46` says 5 seconds and line 53 that a failure closes the
  session.

## 5. Proofs

All theorems hold for all values of the constants under the ASSUME of the
module (finite task sets, disjoint task kinds, naturals where naturals are
meant).

`ConnectionRegistry_proofs`, any `Workers`:
- `TypeCorrect` from `TypeOK /\ FrameOK` (a frame holds ids of its kind).
- `LimitHolds`: `ReadyLimit` is not inductive, since a scan is no snapshot and
  may be outdated when it decides. `LimitInv` says that for each user either at
  most the limit is ready, or one `session_ready` in flight *covers* the user's
  ready connections (`LimitCovered`): while it scans, each is collected or
  still to be visited; while it evicts, each is on its list or its own, and no
  more exceed the limit than it has still to evict. Around it: `PhaseOK` (what
  a frame holds at each step), `NeverBack` (a removed connection never
  returns), `CollectedReady` (what is on a list and registered is ready). Steps
  that only shrink the ready set keep a cover (`StillCovered`); a new ready
  connection comes with its own call (`CoverStep`).
- `KeysDropped` from `KeysOK` (no members without a key) and the fact that a
  task at `drop_key` stays there until it removes its key.
- For `Workers = 1`, `IndexMatches` and `OneActive` from `Alone`: one task is at
  work (`OneAtWork`); the index holds what is registered, less what the
  registration at work has still to add, plus what the removal at work has
  still to leave (`IndexOK`); a key about to be dropped is empty (`KeyEmpty`);
  connections of the tab that registers are collected or still to be visited
  (`TabCollected`), so that the insertion keeps `OneTab`. `IndexExact` and
  `OneActivePerInstance` speak of moments without a method at work and say
  nothing of the steps in between, so neither is inductive.
- `JudgedRight`: a dispatch and a `session_ready` act on what they read some
  accesses ago. `JudgementsHold` speaks of the moment they act, so the invariant
  has to say that the reason is for good (`JudgedGone`): a dispatch finds ids only
  of sessions past `connections.insert`, each session gets there once
  (`InsertedOnce`), and so who had no handle, or no receiver, will not have one
  again (`Gone`). Who was found ready is ready while registered
  (`CollectedReady`). Only the task that takes a connection away has it as its
  target (`RemovedByOne`). The mutant that puts the id into the index before the
  handle into the map breaks it: a dispatch between the two then tears down a
  connection that is being set up.
- For `Workers = 1`, `OldestEvicted` and `OneStays` from `ListsExact`: while
  `session_ready` scans, its list and what it has still to visit are the user's
  ready connections; while it evicts, all but its own are on the list, and at
  least as many exceed the limit as it has still to evict (`ListOfUser`).
- For any `Workers`, `MethodsEnd`, the safety half of `MethodsReturn`: `Left(t)`
  bounds the accesses left of the method `t` is in, by the ids it has still to
  visit, those it has collected, and how far unregistering the id in hand is. Each
  access of the method lowers it and nothing another task does to the maps raises
  it (`ReturnsNearer`), and it never exceeds `PerVisit * (3 * Connections + 2)`
  (`LeftBounded`). TLC checked both on the instances of `registry_methods` and
  `registry_threads` before they were proved. It rests on `SubjectAssumption`:
  finitely many subjects are named. That a method that has not returned can take a
  step is left to `MethodsReturn`.

`MessageDelivery_proofs`:
- `TypeCorrect` and, for any number of workers, `MessagesAccounted`: each step
  that takes a message from where `Accounted` finds it puts it in the next place,
  or into the history of what a queue dropped.
- `NobodyStranded`, on one worker, from `Untaken`: with one task at work
  (`OneBusy`), the queues a registration has drained are empty of all but failed
  messages (`DrainEmpties`), a dispatch reaches every connection that
  could take its message or buffers it for nobody (`DeliverReaches`,
  `BufferedForNobody`), and hence nothing waits for a connected user
  (`WaitsForNobody`). `NoneStranded` alone does not survive a step of a dispatch.
- `NothingTwice`. For a message that no failed write put back, on any number of
  workers, from `OnceInPlace`: one task dispatches it (`OneDispatch`), to a
  connection of its list that does not have it (`LiveForRest`), and buffers it
  only if none took it, so that whoever registers has nothing of what is buffered
  (`BufferedForNew`). On one worker, for every message, from `Once`: what a
  connection has been sent, is writing and has in its channel is apart
  (`CopiesApart`); it has nothing until it has drained its queues (`NewHasNone`),
  of which a registration takes each text once (`TakenOnce`); those a dispatch
  still has to serve do not have its message (`StillToGet`), and what was not
  dispatched is nowhere (`FromDispatch`).
- `NothingDropped`: on any number of workers from `WithinLimit` (an append makes
  room for at most one); on one worker the items of a queue are in the order of
  their time, which a task that puts one in has read last (`InTime`), so that
  behind the first fresh item all are fresh (`KeptAreFresh`).
- `ArriveInOrder` (`InOrder`), on one worker, from `OneByOne`: what is at work is
  the newest message (`NewestAtWork`), so a live copy goes behind all the client
  has. A queue is in order (`QueuesInRow`), but a registration empties the
  queues of its subjects one after the other, in the order of `SubjectsOf`, and
  `InOrder` says nothing of messages that wait in several. The strengthening is
  `WaitsAsAddressed`: a message that was neither put back nor lost waits under
  every earlier subject it was addressed to, unless a registration has just taken
  it there or it is still being buffered. So the first queue that holds a message
  holds all that are addressed alike (`TakesAll`), and what a client has, is
  being written, queued and taken stays in order (`CopiesInRow`). TLC checked
  the parts on the instance of `delivery`, and on one whose connections have
  different subjects, before they were proved. Besides `DeliveryAssumption` this
  proof rests on `SubjectsAssumption`: who has a subject of another
  connection has what that one lists behind it. The transports build the
  list as `user:{id}`, then `user:{id.trim().to_lowercase()}` where that
  differs (`websocket.rs:123-127`, `webtransport.rs:119-123`), and
  normalizing twice changes nothing more.
- What a registration takes (`Taken`) and the orders of a lookup (`Orders`) are
  written as sets of sequences, not as folds, so that the provers can use them.

`OutboxConsumer_proofs`, any batch size and numbers of entries, failures and
restarts: `TypeCorrect`; `DeletesDispatched`; `ImplementsFeed`, the refinement
of `OutboxFeed`, step by step, from where the position is: nothing handled is
behind it (`HandledSeen`), the batch goes on from it without a gap
(`BatchFollows`), and who waits with a position waits at the end.

`CommandRouting_proofs`, any registries, messages and sessions: `TypeCorrect`;
`KeepsContract`, the refinement of `CommandContract` (a session between `Take`
and its publication has its current command in neither way, or in `relayed`
only); `EffectsSeen` (an unanswered request of a connected session is bound to
it, or its id was used twice).

`RelayAuthorization_proofs`, any number of workers: `TypeCorrect` (with
`NonceOK`); `RateHolds` from `RateInv` (the counter is the number of passes);
`CheckedStored` (a check holds the lock); `OneContext` from `OutboxOK` (a snapshot
in hand is already merged); `PolicyMonotone`. With the premise `workers = 1`,
`ReplayRefused` from `Exclusive` (one task is inside a method) and `ReplayInv`
(the last pass of a nonce is in the cache or too old to matter; pruning uses the
age the check uses).

`ClientSession_proofs`, any `Workers`: `TypeCorrect`, `LifecycleOnce`,
`EndsAccounted`, `AdmittedOnly` from one invariant: the right to publish
`disconnected` is in one place (`RightOnce`), unused where it is
(`RightUnused`), and from the greeting on exists until used or given up
(`RightKept`); and what a session has in hand, payload,
token and identity, is of one attempt of its client (`OneAttempt`).

`RequestRoutes_proofs`, any `Workers`: `TypeCorrect` (with `Control`, the steps
each kind of task goes through); `AnswersConfined` from `AnswerParts` (the
route the consumer is about to use has been compared with the user of the
response); `NoRouteLeft`, whose property is inductive: every step that takes a
connection away puts it in the `target` of its task, and collecting moves the
routes of a target to `todo` before the target is given up; `NoAnswerLost` from
`AnswerPlaced` (past its last send, the response in hand has been accepted or
buffered); `ResponseToSender` from `RouteInPlace` (a request that is not `Gone`
has its route, and the consumer that handles its response has read it). What
makes a request `Gone` is for good (`GoneStays`), only routes of requests that
are `Gone` are about to be removed (`RoutesBound`), and nobody has a response
before it is sent (`OneAnswer`).

Only model-checked: liveness (`MethodsReturn` beyond the bound of `MethodsEnd`,
`PositionFollowed`, `PrunedReported`). Liveness under fairness is out of the
prover's reach (as is `ENABLED`), and so is induction over data: of a recursive
or folded operator only what its definition says at once can be proved.

## 6. Not modelled

- Parsing of snapshots (`broker.rs:76-222`) beyond the fields decisions read;
  wording of errors and replies; request ids of handshake payloads.
- `buffer_latest_for_subjects` (no caller passes a sticky key), the read-only
  endpoints, reading the environment, the choice of a transport, TLS and HTTP/3.
- Time in the handshake: its reads have no timeout.
- Several gateways on one outbox stream; a crash in `ClientSession` (all its
  state is volatile: the ends of all connections go unreported).
- Growth over wall-clock time (rate counters are never removed,
  `state.rs:348`): a bounded clock cannot show it.
- All parts in one model: the product of registry, queues and routes is too
  large to check. A module takes of the others what section 2 says, and what it
  takes is checked, and mostly proved, there.

## 7. Plan

1. Done: registry, relay, delivery on one or two workers, routes, consumer,
   handshake and sessions, command routing, with the proofs of section 5.
2. An abstract presence specification (who is reachable under which subject)
   that `ConnectionRegistry` implements for `Workers = 1`, on top of
   `IndexMatches`.
