# ZeroKey: TLA+ specifications

ZeroKey is a SPIFFE/SPIRE demonstrator: a SPIRE server and agent, two Go
workloads that talk mutual TLS with SVIDs instead of keys, and a control plane
(a FastAPI backend and a Next.js console) that registers workloads, mints join
tokens, streams audit events and publishes metrics. This directory holds
specifications of that system, checked with TLC and, where noted, proved with
TLAPS. Paths below are relative to the repository.

## Inventory

| Component | State | Operations | What is hard |
|---|---|---|---|
| Event service: `dashboard/backend/app/services/event_service.py`, `api/ws.py` | set of WebSocket connections, bounded log, counter | `connect`, `disconnect`, `record_event`, `broadcast`, `get_logs` | `broadcast` awaits inside a loop over the live set |
| SPIRE service: `services/spire_service.py`, `api/entries.py`, `api/agents.py` | none of its own; SPIRE's datastore behind a CLI subprocess | create, delete, list entries; list agents; mint token; bundle; health | a 3 s limit that does not kill the command; replies invented on failure; the reply waits for `record_event`, which may raise |
| Telemetry: `app/main.py`, `core/metrics.py` | gauges, simulated SVID lifetimes | background poll every 10 s; gauges set by listings; HTTP middleware | stale answers overwrite fresh ones; demo values during outages |
| Flow service: `services/flow_service.py`, `api/simulator.py` | tasks in progress and their client processes | test flow, policy evaluation | a failed real run becomes a simulated success; a denied run is counted only after a broadcast that may raise |
| OIDC service: `services/oidc_service.py`, `api/oidc.py` | none | discovery document, JWKS, health | fallbacks; a counter incremented twice |
| Overview, telemetry and bundle routes: `api/overview.py`, `api/telemetry.py`, `api/bundles.py` | none | aggregate reads | values read at different moments |
| Go workloads: `app/cmd`, `app/pkg` | X.509 source, ticker, listener | fetch SVID with retry, serve, request, shut down | signals during start-up, rotation, a tick during a slow request |
| Bootstrap: `scripts/bootstrap.sh`, `scripts/agent-entrypoint.sh` | containers, token file, entries | wait, mint token, start agent, register, restart | bounded waits that run out, re-runs, `set -e` exits half way |
| Console shell: `dashboard/frontend/src/components/Header.tsx`, `Navbar.tsx`, `app/layout.tsx`, `lib/api.ts` | a socket, the path | fetch, navigate | calls without timeout that settle in any order |
| Overview page: `app/page.tsx`, `components/TopologyGraph.tsx` | overview, recent events, selected node, interval | poll every 10 s, refresh, select | overlapping loads, built-in values on failure, an interval per visit |
| Entries page: `app/entries/page.tsx` | entries, filter, dialog, form | load, create, delete, filter, edit | one flag for overlapping loads, a handler that spans two calls, an error that is not shown |
| Agents page: `app/agents/page.tsx` | agents, dialog, token | load, mint, copy | a token that arrives in another dialog than the one that asked |
| Observability page: `app/observability/page.tsx` | events, socket | load, stream | two unordered sources of one list, a socket that is never reopened |
| OIDC page: `app/oidc/page.tsx` | three documents, copy tick | load, copy | three calls under one `Promise.all`, overlapping timers |
| Playground: `app/playground/page.tsx` | result, policy form, verdict | run, evaluate, edit | a run that outlives its call, a form edited during a call |

How they interact. The console calls the backend over HTTP and listens on
`/ws/events`. Every mutating handler runs a `docker exec spire-server` command
and then awaits `event_service.record_event`, whose broadcast reaches the
console's sockets; so an exception in the fan-out becomes a 500 of an HTTP
request that has already had its effect. The telemetry loop and the listing
handlers share the listing code and the gauges. The backend runs on a single
asyncio event loop: code between two awaits that suspend is atomic, and every
action of the backend modules is one such stretch.

## Modules

* **AuditTrail** is the abstract audit log: events are recorded once each, and a
  reader sees a window of the most recent ones.
* **AuditStream** is what the fan-out promises one WebSocket: frames carry
  logged events, while their broadcast goes on and the socket is an active
  connection. It promises neither a frame of every event nor only one.
* **EventService** is the event service with the WebSocket endpoint. A call of
  `record_event` is an element of `Call` and is its own event; a WebSocket is an
  element of `Conn`. `active`, `logs`, `counter` are the service's fields;
  `audience`, `at`, `rest`, `dead` are the locals of a suspended `broadcast`: the
  set its iterator was made for, the connection whose send it waits for, the
  members in slots the iterator has not reached, and `dead_connections`.
  CPython's set iterator is modelled by what it does: it raises when the size
  differs from the size at the start (`broadcast_raise`), a removal leaves the
  other members in place, an insertion may rehash the table, so afterwards any
  subset of the members may be ahead (`Add`). A send to a closed socket may
  raise or still be written; a send whose peer leaves while it is suspended may
  raise late (`Caught`). `recorded`, `before` and `churned` are history
  variables that no guard reads. The service implements AuditTrail, and
  `Stream(c)` maps it to AuditStream for every connection `c`.
  **MCEventService** gives it values for TLC, **EventServiceProofs** holds its
  theorems and that of Telemetry.
* **SpireService** is the mutating half of the SPIRE service, from the route to
  the reply. `cli[r]` is the subprocess of request `r`, which goes on after the
  handler has given up on it; `datastore` and `minted` are the SPIRE server's
  and change only when a subprocess takes effect. Its exit code and its output
  (`printed`) are independent: the outcome of a create is read from the first and
  its id from the second, so a success may carry a made up id, and a token is
  genuine or a mock whatever the exit code. `record_event` appears through
  the interface EventService establishes: the event is in the log at once, and
  later the call returns or raises. `counted` is the HTTP middleware's counter.
  **MCSpireService** gives it values; **SpireServiceProofs** holds its theorems
  and that of Bootstrap.
* **Telemetry** is the background loop, the listing handlers and the gauges. A
  listing is answered from the server's state at one step and used at a later
  one. The lifetimes 3600, 10 and 60 are constants, so that TLC can use small
  ones.
* **ApiClient** is `lib/api.ts`: a call is sent, then answered or thrown, and is
  idle again when its continuation has run. A slot of `Request` is one call in
  flight; the number of slots bounds how many overlap. Every page is built on it,
  and their proofs on **ApiClientProofs**.
* **EntriesPage** is the entries page over the entries API. `store`, `ever` and
  `version` are the datastore's; all other variables but `shown` have the names
  of the page's React state. A call carries who awaits it, so that a reload knows
  that `handleCreate` is waiting for it. **MCEntriesPage** gives it values;
  **EntriesPageProofs** holds its theorems.
* **OverviewPage** is the start page, its topology graph and `get_overview`.
  `route[l]` holds what the route has read so far for load `l`: between two of
  its four awaits the world may change. A load whose page has been left (`mine`)
  settles without effect, as a state setter of an unmounted component does.
* **ObservabilityPage** is the live feed in the shell around it. Events are
  numbered in the order of the log. The server takes the steps of AuditStream
  for the feed's socket: it may miss it, or send it an event again, `MaxRepeats`
  times at most. It adds the socket as soon as it has accepted it, before or
  after the browser reports it open. `wire` holds the feed's frames on their way;
  the header handles none, and its frames and its place in the server's set are
  left out. `missed` and `repeats` are history, `repeats`
  read by its bound only. **ObservabilityPageProofs** holds its theorems.
* **OidcPage** is the OIDC page with its routes. A document carries the run of
  `loadOIDC` that fetched it. **OidcPageProofs** holds its theorems and that of
  OverviewPage.
* **AgentsPage** is the agents page over the agents API; tokens are numbered.
  **AgentsPageProofs** holds its theorems.
* **FlowService** is the test flow and the policy evaluator. Every run is a task
  (`flow[n]`) that goes on when its caller is gone, and `process` holds the
  `docker exec` clients, which nobody kills. **PlaygroundPage** extends it with
  the page, **MCPlaygroundPage** gives both values, and
  **PlaygroundPageProofs** holds the theorems about both.
* **Bootstrap** is `scripts/bootstrap.sh` as a program counter over the
  containers it brings together: server, agent, datastore, and the retry loops
  and the daemon of the Go workloads. `svids` are the workloads the agent holds a
  valid SVID for: it learns of entries and has SVIDs renewed while the server is
  there (`Sync`), and loses them in an outage (`Expire`; `server.conf` gives them
  an hour). A failing `docker compose up` or `restart` may have done its work, or
  part of it, before it failed.

Console modules have one action per event handler and one per continuation after
an await: JavaScript runs each of these without interruption, and anything may
happen between two of them. The control plane's side of a call is one action at
which the call takes effect, followed at some later step by its continuation in
the page.

Definitions named after another with a suffix (`Evict_Never`,
`disconnect_Forgets`) are faulty variants. PROJECT.json names, for each
property, the variant that it must reject.

## Runs

| Run | Instance | Shows |
|---|---|---|
| event | 2 calls, 2 connections, log of 2, 1 seed, fair | `TypeOK`, `QuietEventsCounted`, `QuietDelivery`, `InOrder`, `CallsTerminate`, `GoneClientsLeave`; EventService implements AuditTrail and, for each connection, AuditStream |
| event_fanout | 1 call, 2 connections | `BroadcastReachesSubscribers` fails |
| spire | 2 requests, 2 registrations, 1 of them present, fair | `SpireInv` (`TypeOK`, `RepliesAreReal`), `SuccessIsReal`, `OneAuditPerCommand`, and `EveryRequestAnswered` although docker may hang |
| telemetry | 1 handler, 3 changes, fair | `TelemetryInv` (`TypeOK`, `GaugesAgree`), `GaugesConverge`, `LoopKeepsPolling` |
| entries | 2 calls, 1 entry and 1 demo entry, fair | `EntriesInv` (`TypeOK`, `BusyFlagsHaveOwners`, `FormAgreesWithSchema`), `LoadsMoveForward`, `ReloadShowsCreated`, `BusyEnds` |
| overview | 2 loads, 2 changes, fair | `OverviewInv` (`TypeOK`, `OneInterval`, `CardsAddUp`), `OverviewConverges` |
| feed | 2 loads, 2 feed sockets, 2 events, 1 repetition of each, snapshots of 1, fair | `FeedInv` (`TypeOK`, `SocketsFollowPages`), `AtMostTwice`, `LeftSocketsDetach`, `RefreshRepairs` |
| feed_live | 1 load, 2 events, fair | `LiveFeedIsComplete` fails |
| oidc | 2 loads, 2 timers, fair | `OidcInv` (`TypeOK`, `FlagsHaveOwners`), `DocumentsFromOneRun`, `DocumentsStay`, `FlagsClear` |
| agents | 2 calls, 2 tokens, 2 timers, fair | `AgentsInv` (`TypeOK`, `FlagsHaveOwners`, `FormAgreesWithSchema`), `ShownTokenStays`, `FlagsClear` |
| flow | 2 runs, 2 calls, fair | `PlaygroundInv` (`TypeOK`, `FlagsHaveOwners`, `LogAndCounterAgree`), `ShownIsOnRecord`, `VerdictNamesItsIds`, `ResultsMoveForward`, `BusyEnds` |
| bootstrap | 3 runs of the script, 5 flaps of the server, 2 + 2 attempts, fair | `BootstrapInv` (`TypeOK`, `CompleteMeansWorking`), `ScriptEnds`, `WorkloadsConnect` |

Why the bounds are enough. The invariants and action properties of all passing
runs are proved for every value of the constants; the bounds matter to the
liveness properties and to the two runs that fail. Two calls and two connections
are the least in which two broadcasts overlap, one of them finds a dead socket
and prunes it under the other, and the set shrinks under a suspended iterator. A
log of two with one seed overflows at the second event. Two requests allow a
create and a delete of the entry it made, and two that compete for one
registration. One handler and the loop suffice for a stale answer to overwrite a
fresh one, and three changes for an outage that begins and ends with a change of
the datastore in between. No run uses symmetry, because each checks liveness or
a single small instance.

For the console two calls in flight are the least that overlap, and an
overlapping third only repeats what the second can do to the shared flags and
lists. Two feed sockets let a page be left and entered again before the server
has noticed the first socket's end; snapshots of one event and two events let a
snapshot leave an event out; one repetition is enough for a stream that repeats
itself. Two changes of the overview's world let the control plane go away and
come back. The counts 60, 86400 and 3600 of the forms are the code's own; typed
values are chosen beside the bounds. What no property of the entries page tells
apart, the SPIFFE ID typed and the text searched for, ranges over as little as
keeps the actions possible. The script's 30 and 25 attempts are 2 and 2: one
check that fails before one that may succeed, and the last check apart from the
others. Three runs of it suffice to exit twice half way, at different steps,
before the third completes.

CHECK_DEADLOCK is off for EventService and SpireService: with finitely many
calls and requests these systems come to rest. Telemetry and the console never
do: the operator can always click. Bootstrap's workloads go on for ever. Those
runs check for deadlock.

### Fairness

The event loop runs every coroutine that is ready, so a suspended broadcast
whose send has ended goes on (`resume`), a handler whose command has ended or
timed out goes on, and a sleep ends. A send always ends because uvicorn's
WebSocket keepalive (on by default, and `dashboard/backend/Dockerfile` leaves it
on) closes a peer that stops reading. A receive on a closed socket raises, so
`disconnect` is fair once the peer is gone. Nothing is assumed of peers,
callers, docker or the SPIRE server, except in Telemetry, where `up` means that
the server answers within the limit and is then fair.

In the console a call settles, by an answer, an error or the browser giving up
on the connection, and the browser runs continuations, timers and intervals. The
feed's server ends its broadcasts, as `CallsTerminate` shows of EventService.
Nothing is assumed of the operator; `RefreshRepairs` states as its premise that
one goes on refreshing. In FlowService a client process need not end: the
three-second limit of `wait_for` is what `BusyEnds` rests on. In Bootstrap
processes run and an attested agent that reaches the server syncs with it. The
server need not come up or stay, the script need not be started, and an agent
need not attest: its join token may run out first. `WorkloadsConnect` therefore
has two premises, that agent and registrations are there at some time and that
from some time on the server stays. Without the second no request need succeed:
the agent learns of new entries, and has its SVIDs renewed, by the server only.

### What the failing runs show

* event_fanout: `broadcast` (event_service.py:84) loops over the live set with an
  await inside. A socket that connects, leaves or is pruned by another broadcast
  during that await makes the loop raise `RuntimeError`: the remaining
  subscribers never get the event, although line 79 says it goes to all active
  clients. The caller fails after its event is logged and its command has run.
* feed_live: a load of the live feed (observability/page.tsx:40) that is answered
  before an event and settles after the event's frame removes the event, although
  the page is headed "Real-Time Workload Audit Stream". A manual refresh repairs
  it, as `RefreshRepairs` shows; nothing else does.

### Where code and wording disagree

The models follow the code. Seen while modelling, without a run of their own:

* `DELETE /api/entries/{id}` (api/entries.py:31) says "deleted successfully"
  whatever the command did, and `generate_join_token` (spire_service.py:287) logs
  SUCCESS for a mock token SPIRE knows nothing of.
* The HTTP middleware (main.py:96) records nothing for a request whose handler
  raises.
* `spiffe_audit_events_total` is described as "Total audit log events emitted"
  (core/metrics.py:69). It is incremented after the broadcast
  (event_service.py:119-126), so an event whose broadcast raised stays in the log
  and is never counted. `QuietEventsCounted` says that this happens only to
  broadcasts disturbed by others.
* A create that exits with 0 without an "Entry ID" in its output is answered as
  "success" with an id SPIRE has never given out (spire_service.py:169-183).
* During an outage the loop publishes the length of the demo list as the number
  of entries in the datastore (core/metrics.py:20).
* Entries page (entries/page.tsx:45): the error is set and never rendered; a
  failed first load reads "No workload entries match your search criteria." The
  agents page says "No active node agents found." then.
* Topology graph (TopologyGraph.tsx:323): every node is labelled "ONLINE"; the
  computed status is not used.
* Overview (app/page.tsx:31): the inner catches make the outer one (line 46)
  unreachable; an outage shows a healthy built-in overview.
* Live feed (observability/page.tsx:58, 97): "Polling Stream" polls nothing; so
  with the header's label (Header.tsx:62).
* OIDC page (oidc/page.tsx:41, 122): a failed first run leaves "Loading discovery
  document..." on display. The request counter (api/oidc.py:12) is incremented
  in the route and again in the service.
* Test flow (flow_service.py:148): success is answered, logged and counted
  whatever the client did. The marker looked for at line 136 is moreover printed
  by Go's `log`, that is on stderr, while the code searches stdout. A denial
  whose broadcast raises (line 75) is logged and not counted.
* Bootstrap (bootstrap.sh:27): a server that is healthy at the last check is
  reported as failed; a wait for the agent that ran out (line 57) is reported as
  a success. `CompleteMeansWorking` shows that the final message is nevertheless
  true, because the backend only listens once it has its identity.

## Proofs

Every invariant, every action property and both refinements of the passing runs
are also theorems, for all values of the constants that satisfy the assumption
named with each component. Each assumption sits in the component's module and
TLC evaluates it on the run. Each proof has the same shape: an inductive
invariant `Inv` that adds to the stated one what its preservation rests on, a
lemma for the initial states, lemmas for the steps with one case per action, and
the theorem, which combines them.

**EventServiceProofs** (`FiniteAssumption`, `LogAssumption`: finite `Call` and
`Conn`, a seed that fits in the log).

* `TypeCorrect`, and `LogCorrect`, that the log is the newest `max_logs` of what
  has been recorded (`LogIsRecentHistory`, which the runs check as the window of
  AuditTrail). The bound on the log's length is not inductive
  alone; it follows from `LogInv`, the types together with the log being a prefix
  of the recorded history. `EvictKeepsPrefix` shows that trimming one element
  after an insertion is the same as taking the prefix.
* `Refinement`: EventService implements AuditTrail. That no event is recorded
  twice needs `CallInv`: only calls that have begun are in the history.
* `OrderCorrect`. `CallInv` also says that a call noted in `before` stays
  finished and that a frame is written only by an unfinished call.
* `DeliveryCorrect`, from `QuietInv`: while nobody disturbs a broadcast, each
  member of its audience is either ahead of the iterator and without the event,
  or behind it and served. That such a broadcast sends its event twice to nobody
  needs `FreshInv`: what is ahead of an undisturbed iterator has no frame of it
  on any connection.
* `CounterCorrect`: failing sends alone cost no event its count. `CounterInv`
  says that the metric is the number of calls that have returned, all of them in
  the log, and that a call that has raised was disturbed. The latter rests on
  `QuietInv`: the set an undisturbed broadcast iterates over keeps its size, so
  its loop does not raise.
* `StreamPromise`: for every connection EventService keeps the promise of
  AuditStream, that is, every step is a step of `Stream(c)` or leaves it alone.
  `RestInv` says that what the iterator still holds are members of the set as it
  is, so that a frame is only ever written to an active connection; `CallInv`
  that a call which is not sending has nothing more to write.

**SpireServiceProofs** (`InitialAssumption`: the entries present at the start
have ids that no request will be given).

* `RepliesTellTheTruth`: a success means that the create was carried out, and an
  id or a token that is not made up is one SPIRE gave out. The reply is composed
  from exit code and output of a command that took effect some time earlier, or
  will yet, and other commands may have run since; `PrintedInv` keeps the effect
  with the output, `EffectInv` (below) with the exit code, and `ReplyInv` the
  reply with both.
* `NoCommandUnaudited`, from `HandlerInv` (a handler past its start owns a
  subprocess) and `TrailInv` (a handler past its command owns exactly one
  position of the trail, any other none). `OneAuditPerCommand` speaks of replied
  requests only and is not inductive.
* `AuditTellsTheTruth`. A SUCCESS is written when the handler reads exit code 0,
  while the effect happened earlier, in the subprocess, and other commands may
  have run since. `ExitInv` keeps the exit code with the event; `EffectInv`
  keeps the effect with the exit code: what was created is there unless some
  request deletes it, and what was deleted is gone for good, because SPIRE never
  uses an id again (`Used`).
* `TrailIsAnAuditTrail`: SpireService uses the event service as AuditTrail
  allows, for any seeds that fit in the log (`SeedsFit`). Each request is one
  event, recorded at most once, which is `TrailInv` again: a handler that is
  still waiting has none. So what EventService implements is what SpireService
  relies on.

**ApiClientProofs** says once what every page needs of its calls: which fields a
call has in each state, what each of the four steps does to it, and that it
leaves the other calls alone.

**EntriesPageProofs** (`EntriesAssumption`).

* `PageInvariant`. `submitting` outlives the create call: `handleCreate` awaits a
  reload before it lowers the flag. `Owned` therefore follows it through both
  calls, says that there is at most one such pair, and that `loading` has at
  least one list call to lower it; with only the create call named the invariant
  is not inductive.
* `NoLoadGoesBack` and `CreatedEntryIsShown`, from `CallsInv`: an answer on its
  way to a list call is no older than what was on display when the call was
  sent, and lists what its handler has registered unless it has been removed.

**AgentsPageProofs** (`AgentsAssumption`). `PageInvariant`, and
`DisplayedTokenStays`: a token on display is not replaced by another one. The
button is hidden once a token has arrived, but the dialog can be closed and
reopened while a mint is in flight; `OneMint` says that at most one mint is in
flight and none while a token is kept, and it needs `BodiesMatch`, that a mint
is answered with a token and a load with a listing.

**OidcPageProofs** (`OidcAssumption`).

* `PageInvariant` bounds the counter, which goes up by two for each answered
  call of two of the three: not inductive before the calls that are still to be
  answered are counted in (`Counted`).
* `RunsNeverMix`: the documents on display are all of one run of `loadOIDC`.
  `CallsBelong` says that an answer in flight belongs to the run its load is by
  now, since `Promise.all` may have settled with an error while calls of that
  run were still out.
* `DocumentsRemain`: once shown, documents are not taken away.

**PlaygroundPageProofs** (`FlowAssumption`, `PlaygroundAssumption`), over the
page and FlowService together.

* `ResultOnRecord`: what the page shows as granted or denied is logged and
  counted as that. `TasksOnRecord` follows a task of the service, which logs
  before it counts and counts before it answers, and `AnswersInv` the answer on
  its way to the page.
* `VerdictOfItsIds`: the verdict shown is the one for the identities shown with
  it, although the form may be edited during the call.
* `PageInvariant`, with the types, the owners of the two flags and
  `LogAndCounterAgree`.
* `NoEarlierResult`: results move forward. `running` admits one run call at a
  time and `Owned` says so, hence a call in flight is always the latest run.

**ObservabilityPageProofs** (`ObservabilityAssumption`).

* `SocketsClose`: a page that is left takes its socket with it. `Unmounted` is
  the strengthening.
* `NoThirdRow`: an event has at most two rows, and one more for each time the
  server sent it again. `TwoSources` splits the list where the stream's rows end
  and the snapshot's begin. The snapshot has no event twice. Of the stream it
  counts: the rows of an event, its frames under way, and the frame that is
  still due while its broadcast has not reached the feed, are at most one more
  than its repetitions. `AtMostTwice` itself says nothing of the wire and is not
  inductive. The lemmas on `Copies` are about counting in a sequence, for
  appending, for taking the head and for putting two together.

Three components share no state with the one whose proof module they are proved
in, and are brought in as named instances. Their assumptions on the constants
become hypotheses of the theorem (`Bounds`, `WorldBounds`, `Lifetimes`).

* `BootstrapTellsTheTruth` (in SpireServiceProofs; Bootstrap is the SPIRE
  server's other client): when the script reports that it is complete, what it
  says is true. `Labels` says what holds at each label of the script, above all
  which entries are registered by then, and `Identities` what each state of a
  workload, and an SVID the agent holds, imply about the registrations and the
  agent: SVIDs come and go with the server, what they imply does not.
* `ScriptGoesForward` is what `ScriptEnds` rests on, for any bounds: `Remaining`,
  the lines and attempts the script has left, never exceeds what the bounds
  allow, every step of the script lowers it, and nothing but a new start changes
  it otherwise. What is left to fairness is that the script takes its steps.
  That the subtraction never goes below zero needs `Counts`, the bounds on
  `RETRY_COUNT` in each wait.
* `OverviewInvariant` (in OidcPageProofs, with the other page that shows what
  the control plane's routes combine): the cards add up. The answers in flight
  must add up too (`LoadTypes`), and what the route has read so far must be of
  its type at each of its four awaits (`RouteTypes`).
* `GaugesCorrect` (in EventServiceProofs, beside the other component that runs on
  the backend's event loop): the types of the loop and the gauges, and that the
  two gauges set from one listing always agree. The loop's
  local `entries_list` is unset before the first listing, which the model writes
  as zero; `ListedBefore` says that it is a listing's whenever the loop asks for
  the agents, so that the gauges are only ever set from listings.

What is checked with TLC only is liveness, which the provers here do not cover
under fairness: `CallsTerminate`, `GoneClientsLeave`, `EveryRequestAnswered`,
`GaugesConverge`, `LoopKeepsPolling`, `BusyEnds` of both pages,
`OverviewConverges`, `LeftSocketsDetach`, `RefreshRepairs`, `FlagsClear` of both
pages, `ScriptEnds` and `WorkloadsConnect`; of `ScriptEnds` the measure is
proved. The two properties that fail need no proof.

Three proofs changed a model. SpireService used to leave open whether an id
present at the start could be given out again; SPIRE draws fresh ids, and
`InitialAssumption` now says so. ObservabilityPage used to admit a bound of no
events although the service records one when it starts. And the fan-out it
assumed sent each event to the feed once at most, which EventService does not
promise: a socket that joins makes the set's table grow, another one leaves, and
the broadcast, which finds the size it began with, comes past a connection it has
served. `StreamPromise` could not be stated of the old fan-out; the page now
stands on AuditStream, and `AtMostTwice` counts the repetitions.

## Abstractions and limits

* Events, entries and tokens are identities; texts, timestamps and payloads are
  left out. The greeting and pong frames of `/ws/events` touch no service state
  and are not recorded. The audit counter is summed over its labels.
* Each WebSocket object connects once; a client that reconnects is another one.
* A request cancelled half way because its client hung up is not modelled, nor
  is the shutdown of the backend process, which keeps nothing.
* The seeds are appended oldest first and every later event is inserted at the
  front, so when the log overflows the newest seed goes first. AuditTrail says
  exactly that and no more.
* The audit trail's order is not the datastore's: a delete can be logged before
  the create whose entry it removed. `SuccessIsReal` therefore relates the trail
  to the datastore as a set.
* A page's values that no property tells apart are left out: the parent id, the
  admin flag and DNS names of an entry, the metric tiles (constants of the
  route), wording and layout.
* `handleDelete` asks for confirmation with a blocking dialog, so click and call
  are one step.
* FlowService keeps the request counter; the duration histogram and the policy
  decision counter, written next to it, are left out, and so is the parsing of
  the client's output, whose result only fills a payload.
* An agent that has attested stays attested, and a registration is not removed
  while the script runs. The agent's own SVID is not modelled: one that runs out
  in a long outage would have the agent attest again, with a join token that is
  used up. SVID rotation in the workloads is inside go-spiffe; a connection or an
  SVID they still hold may serve a request when the agent's copy has run out.
* The script's `grep -q` (bootstrap.sh:72, 86) finds a SPIFFE id anywhere in the
  listing, also as a part of a longer one. It is membership as long as no other
  entry's id begins with `spiffe://demo.local/backend-api` or
  `spiffe://demo.local/client-worker`. Each docker command of the script returns,
  and a failing `compose up` never leaves the agent removed.
* A feed socket that the browser closes before the server has accepted it is not
  added, where the endpoint would add it and then discard it.
* What the pages allow and no property forbids: the live feed shows an event in
  two rows when the stream and a snapshot both bring it, and again for each
  repetition; rows are not matched by id (observability/page.tsx:64). A token
  minted in a dialog that was closed and reopened appears in the new one, and is
  gone for good if the dialog is opened again after its arrival; a create that
  settles closes whichever dialog is open; a delete button can be pressed twice.

Not modelled: shutdown, handlers and configuration of the Go workloads;
`scripts/agent-entrypoint.sh`, which nothing runs; the observability stack and
its configuration, Dockerfiles, compose and CI files, and the purely visual
parts of the console (they hold no state), the smoke and unit tests, and SPIRE
itself beyond what the code relies on.

## Plan

Done: EventService with AuditTrail, SpireService (mutations), Telemetry, every
page of the console, FlowService, Bootstrap, theorems for all invariants and
action properties of their runs, and the three that join components
(`Refinement`, `TrailIsAnAuditTrail`, `StreamPromise`). Next, in this order:

1. **Workload**: signals and graceful shutdown of the Go programs.
2. The SPIFFE id helpers as pure operators with reference definitions.
