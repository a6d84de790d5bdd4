# SurgeGuard in TLA+

SurgeGuard watches crowds through cameras. One Python backend process
(`backend/app`, asyncio) supervises a perception pipeline per camera
(`ai/surgeguard_ai`), turns frames into a crowd status, queues, forecasts and
advice, keeps an operator workflow per camera, stores history, pushes state to
browsers over WebSockets (`frontend/src/realtime`) and drives an Arduino alert
light over a serial line (`hardware/arduino/surgeguard_alert`).
`scripts/surgeguard_supervisor.py` keeps the processes alive.

This directory holds TLA+ modules translated from that source, the TLC
configurations that check them on small instances, and proofs of their main
theorems for every value of the constants. Paths are relative to the
repository, and `PROJECT.json` says which lines each definition models.

## 1. The system and its models

| part | source | modules | what is hard |
| --- | --- | --- | --- |
| Perception worker | `workers/perception_worker.py`, `pipeline/perception_pipeline.py`, `cameras/runtime.py` | `PerceptionWorker` | stop, swap, retry, failure and the loop's own end meet in any order between awaits |
| Frame thread and sessions, live stream | `pipeline/*`, `perception/*_source.py`, `streaming/live_stream.py` | `FrameSessions`, `LiveStream` | a cancelled loop's thread runs on; a restart is recognised by falling frame numbers at several places |
| Cameras: manager, registry, documents | `cameras/*`, `cameras/topology_store.py`, `services/zone_store.py` | `CameraManager`, `DocumentStore`, `DurableDocument` | edits suspended half-way, saves that fail, crashes between write and replace, files that cannot be read |
| Camera health checks | `cameras/health.py`, `cameras/probe.py` | `CameraHealth` | answers that arrive after the address or the state they are about has changed |
| Zones, queues, forecasts | `zones/transitions.py`, `queue/*`, `forecast/*`, `pipeline/analysis_pipeline.py` | `ZoneTransitions`, `QueueFlow`, `CameraAnalysis`, `QueueForecast` | windows of frame time, tracks that drop out, sessions whose time starts again |
| Advice | `stability/*`, `evidence/*`, `intelligence/*`, `services/crowd_intelligence.py` | `CrowdGuidance`, `DecisionReports` | engine and service are reset by different events; a stage that raises takes a report with it |
| Operator workflow | `stability/smoothing.py`, `services/operational_state.py`, `services/decision_service.py` | `OperatorWorkflow` | windows lost after the assessment, restarts seen late, operators at any moment |
| Resource allocation | `resources/allocator.py`, `services/simulation_service.py` | `StaffingPlan` | plan and simulated queue in a closed loop |
| Site | `site/*`, `services/site_service.py` | `SiteReport`, `SiteCongestion`, `SiteFlow` | which cameras count, and what an absent measurement does to a sum, a mean or an alert |
| Zone and counter API, platform health | `services/queue_service.py`, `services/zone_store.py`, `services/perception_health.py`, `cameras/status.py` | `ZoneService`, `PlatformHealth` | two APIs that save and apply differently; a worker that claims to run while its camera is silent |
| History | `services/history_recorder.py`, `services/history_query.py` | `HistoryRecorder`, `HistoryLedger`, `HistoryQuery` | overlapping writes of one row, rollover, late windows, a clock set back |
| Realtime link | `realtime/*`, `core/event_bus.py`, `reducers.ts`, `useFallbackPolling.ts` | `CommandCenterLink`, `CameraBoard` | a snapshot is built across awaits while updates are published |
| Socket client | `socketClient.ts` | `SocketClient` | timers and callbacks of several connections in any order |
| Alert service and board | `backend/app/hardware`, the `.ino` sketch | `HardwareAlert`, `AlertFirmware` | lost replies, timeouts against keepalives, serial calls that outlive a cancelled pass |
| Accounts and sessions | `backend/app/auth/*`, `api/v1/auth.py`, `api/v1/users.py` | `Accounts` | transactions of several requests between which anything happens; a cache of sessions that is cleared after the commit |
| Lifespan and event bus | `main.py`, `core/event_bus.py` | `BackendLifespan` | shutdown while frames, events and writes are on their way |
| Process supervisor | `scripts/surgeguard_supervisor.py` | `ProcessSupervisor` | children and adopted processes, restarts with patience |

Not modelled: object detection and tracking (neural networks and an external
library: what the rest sees of them is nondeterministic input), REST schemas,
configuration and database models, the rendering of the screens. Parts marked
"partly" in `PROJECT.json` say there what is left out. The definitions stand for
31 % of the implementation's lines; most of the rest is the parts just named,
and wording.

### How the parts interact

A camera's frame loop hands each result to `CrowdIntelligenceService`, which runs
the analysis pipeline and publishes the analysis on the event bus; the decision
service, the publisher, the history recorder and the alert service take it from
there. The calls inside one window are synchronous, so a window is one step of
`OperatorWorkflow`, `DecisionReports` and `CameraAnalysis`; publications are
tasks, so they are separate steps of `CommandCenterLink`, `CameraBoard` and
`BackendLifespan`. `CameraRuntime.apply` serialises an operator's edits, which is
why `PerceptionWorker` has one operator call at a time; `CameraManager` sees that
worker as started, stopped or swapping. `FrameSessions` extends `LiveStream`
because the pipeline's thread offers frames to the stream itself.
`HardwareAlert` extends `AlertFirmware`: service, line and board in one state.
`CameraAnalysis` extends `ZoneTransitions` and instantiates `QueueFlow`, which
get the same frames; `DecisionReports` extends `CrowdGuidance`. The socket client
and the reducers are separate: every connection begins with a snapshot and
nothing of the client's connection state reaches the reducers.

## 2. Modules

A variable marked "history" records what happened, for properties to compare with
what the code remembers. An operator whose comment begins with "Mutant" is a
plausible bug, named by `PROJECT.json`; no specification uses one. MC modules
are there where an instance needs definitions, or where several components that
share nothing are checked in one run: each behaviour then has a `subject`, which
alone moves. The other runs check the component's module itself.

- **PerceptionWorker**: the operator's call (`opPc`), the supervisor (`supPc`)
  and the frame loop (`loop`) interleave; a step is the code between two awaits
  that can really suspend. `lock` is `_lifecycle`; `swapped` is the comparison of
  `_swap_generation` with the value the supervisor read.
- **FrameSessions, LiveStream**: a thread job is a step of `process_frame`
  (`read`, `detect`, `offer`, ...), `owned` by the loop or left over. Each memory
  of frames (`lastSeq`, `analysisSeq`, `trailSeq`) is a number, as in the code;
  the history beside it says which sessions it is made of.
- **CameraManager**: a `book` is the registry's content, in memory and in the file; edits suspend where a worker is stopped or swapped.
- **DocumentStore** refines **DurableDocument** for the three kinds of document,
  which differ in what they remember of an unreadable file and in when memory
  follows the disk.
- **CameraHealth**: a check is a request in a thread; the answer is applied later.
- **OperatorWorkflow**: `Window` is one result, hysteresis first, then
  `handle_analysis`; `WindowLost` has a later stage raise. `seen`, `streak`,
  `calm` and `by` are counted from the windows themselves.
- **CrowdGuidance, DecisionReports**: indicators, observations, rules, validation
  and ranking as operators over small figures; the engine's issue, suppression
  and agreement counters, and the service's panel.
- **ZoneTransitions, QueueFlow, CameraAnalysis**: deques of moves, arrivals and
  departures over a rolling window, trusted tracks, grace, sessions, redrawn zones.
- **QueueForecast, StaffingPlan, SiteReport**: resampling, baseline and consensus;
  plan and queue; the site's counts, forecasts and alerts.
- **Accounts**: a transaction is a step, and what its handler does after the commit
  another; `reading`, `trying` and `pending` hold what requests have read and not yet
  acted on. An account stands for its email and a session for its token.
- **SiteCongestion, SiteFlow, ZoneService, PlatformHealth, HistoryQuery**: the
  scores, flow map, stored and applied zones, health and charts.
- **HistoryRecorder** refines **HistoryLedger**: each accepted window stands in one
  row or is dropped for good. A write is a select and a commit with the others'
  between them; `failed`, `cut`, `crashed`, `expired` and `overwritten` name every
  way a window may be dropped.
- **CommandCenterLink**: `dispatched`, `sending` and `outbox` are the three queues
  an update passes. A snapshot reads the services in one step because the code has
  no await between those reads and the send. `told` remembers whether a phase came with
  the last snapshot or since: when its camera section failed the client holds no
  decision, and a report that follows makes one with the resting phase for a default
  (`PhaseWith`). **CameraBoard** has the throttled publisher, edits of the camera
  and polling in addition, for a card and its analysis.
- **SocketClient**: one action per public method, browser event, socket handler
  and timer.
- **AlertFirmware, HardwareAlert**: time is explicit; `Tick` is a second and is
  enabled only when neither side has anything due.
- **BackendLifespan**: `ready` is the loop's FIFO of callbacks: a dispatched event,
  the handlers it finds when it starts, and the lifespan itself. There is at least one
  camera, and a stop awaits at least three turns of the loop (`ConstantsAssumption`).
- **ProcessSupervisor**: one round of checks per tick, over processes that hang,
  exit and boot. `silence` and `raced` are history: how long no backend answered or was
  started, and whether one was started beside a living one.
- **MCOperatorWorkflow** has `OperatorWorkflow`, `DecisionReports` with `CrowdGuidance`,
  and `StaffingPlan`; **MCSocketClient** the socket and `CameraBoard`; **MCCameras** the
  manager, documents, health checks, `PlatformHealth`, `ZoneService`, `SiteFlow` and
  `Accounts`; **MCPerceptionWorker** the worker and `BackendLifespan`;
  **MCCommandCenterLink** the link and `SiteReport`; **MCAnalysis** `CameraAnalysis`,
  `QueueForecast`, `SiteCongestion` and `HistoryQuery`; **MCPlatform** what outlives a
  backend, `HistoryRecorder` and `ProcessSupervisor`.

## 3. Runs

| run | what it checks |
| --- | --- |
| `worker` | `LoopIsOwned` (no loop without a supervisor, a stop releases everything), `EditIsHeeded` (a failed swap is reported, the loop watches the current address), `StateIsTrue` (what is reported is what supervision does; only an ended source is "completed"), `FaultsHeal`; `LifespanIsOrderly` (what was measured is stored when the database closes, a stopped camera shows nothing, nobody is told of cameras mid-stop); `StopsEnd` (an operator's call returns, a shutdown closes the database) |
| `worker_replace_lost` | finding 1: expected violation of `NewAddressIsTried` |
| `alert` | `ClaimIsFresh` (a claim is at most a link timeout, a write and a tick old), `BoardIsKept` (the board is in step after a calm spell, keepalives hold the link) |
| `workflow` | `PhaseIsSound`, `ChangesAreEarned` (status, operator's phase, recovery), `WorkflowCatchesUp`; `PanelAgrees` and `ReportsAreEarned` (panel and priority are what the last assessments called for, a lost report is issued again); `GuidanceStands` (the rules over 540 views at five confidences); `PlansHold` (a plan leaves the queue it promised, and the queue passes its target when it was foretold) |
| `socket` | `ConnectionIsSound`, `DisplayIsHonest`, `KeepsTrying`; `BoardIsTrue` and `BoardCatchesUp` for one camera on a board |
| `link` | `ClientAgrees` (with nothing on its way, the recent timeline is the server's and so is the phase, unless the last snapshot could not tell it and it has not changed since: then none or a report's default is shown and nothing else), `ShowsWhatLasts`; `FiguresAreWhole` (nobody counted twice, no camera silently missing, a forecast's samples of one set of cameras), `TimelineIsEarned` (alerts are raised and resolved in turn, neither early nor late, and no flicker is recorded) |
| `sessions` | `SessionsStayApart` (no stage mixes two sessions unnoticed), `ShowsWhatItHolds` (nothing of a stopped or replaced source), `OperatorReturns` |
| `cameras` | `BookIsKept` (a restart brings the same cameras), `StreamsFollow` (workers follow the book, a test steals no stream), `DocumentIsKept` (refinement), `HealthIsOfNow` (what is known becomes that of the present address, a device that is back is acted on); `CamerasAreReported` (health is earned, zones said to be applied are, the flow map shows what was measured); `AccountsAreKept` (one setup, recent trust, revoked sessions forgotten, a lockout earned) |
| `analysis` | `ZonesAreCounted`, `QueueIsMeasured` (the queue adds up and its forecast rests on what was measured), `FiguresAreExplained` (congestion and charts follow from what was measured) |
| `analysis_queue_scene` | finding 2: expected violation of `QueueIsOfThisScene` |
| `platform` | `RowsAreRight` (no window vanishes, no row counts one twice), `KeepsTheLedger` (refinement); `ProcessesAreKept` (the supervisor is patient, and a stop leaves nothing running); `WorkIsResumed` (a silent camera's last bucket is written, a backend comes back, and every offline camera is retried while there are no more cameras than rounds between two retries of one) |
| `supervisor_starves` | finding 3: expected violation of `EveryCameraIsRetried`, with the script's own times and five cameras |

### Bounds, and why they are enough

Where a theorem covers a property (section 5) the bounds only serve TLC. For all:

- *Worker*: two addresses, so that an edit can name another and come back; two
  failures, one tolerated and one not; one restart, so that both branches occur.
  *Lifespan*: two windows in all and a site report, so that events of both overlap with
  the shutdown of two cameras.
- *Alert*: the code's durations, scaled (timeout 6, keepalive 2; the code has 10 s
  and 3 s); how they add up is `KeepaliveAssumption`, which the code's values
  satisfy. One claiming level is enough: a level differs by name only. The two
  scenarios are what can go wrong without tests and with them.
- *Workflow*: 2 windows to escalate, 3 to de-escalate and to recover: they differ
  by direction as in the code; all pairs of the five statuses occur. Reports: three
  kinds of window (nothing to say, something, more urgent). Plans: three counters, rates
  on both sides of what they serve, five minutes of each plan.
- *Socket*: three attempts reach the cap and the limit; thresholds 2 and 4 leave a
  tick between and on each side. *Board*: two bands and two figures in one of them,
  the changes the publisher tells apart.
- *Link*: two entries make a phase move and a session restart; a snapshot limit of
  one makes entries fall out. Three entries gave the same result. Any window may carry a
  report. The health of the components turns at most once (`HealthTurnsOnce`).
- *Sessions*: two sources (one to swap to), three sessions, two frames each: a
  number can fall, stay or rise across a seam.
- *History*: a camera and the site, three windows, an instant is half a bucket; two
  writes of one bucket and a late window already need all three.
- *Cameras*: one camera fixed by the environment, one that may be, one only added.
  *Documents*: four edits, three crashes. *Status*: one tick short of every limit and
  one past it. *Accounts*: two accounts, browsers and sessions; each behaviour spends one
  of five budgets, which give failures, setups, administrators, sign-ins and sessions
  room in turn (all at once is out of reach, and the theorem has no budget).
- *Analysis*: windows, graces and gaps of 2 to 6 frames, shorter and longer than
  each other as the code's are; two sessions; two edits. *Site*: two cameras of one or
  two areas, two people, delays of 2 and 3 with updates at most 2 apart.
- *Supervisor*: two backend processes (a living one and its replacement; which of the two
  lives first is no matter, they are alike), two things that go wrong, and two cameras with
  two rounds between two retries of one: the most for which each is retried.

### Fairness, and why the code justifies it

- `PerceptionWorker`, `FrameSessions`: the event loop runs ready coroutines; opens,
  closes, reads and timeouts return. Requests, frames and failures are not fair.
- `OperatorWorkflow`: windows keep being assessed and delivered. Nothing is assumed
  of operators, restarts or losses.
- `SocketClient`: timers fire. Nothing is assumed of the server.
- `CommandCenterLink`, `CameraBoard`: tasks that can run do, snapshots are built,
  what is written to a connection that stays arrives; frames and polls keep coming
  (strong fairness, since the camera and the connection may come and go).
- `HistoryRecorder`: the clock and the sweeper go on, writes end.
- `CameraHealth`: waits end, and a check answers again and again (strong fairness, since
  an answer may be overtaken by an edit).
- `ProcessSupervisor`: checks, the rest between rounds and the boots end.
  `BackendLifespan`: the loop runs, frame loops that were cancelled and writes end.
- `HardwareAlert`, `CameraManager`, `DocumentStore`, `Accounts`, `StaffingPlan` and the
  analysis have no liveness.

`CHECK_DEADLOCK FALSE` is set where the system may stop: a bound is reached, a
supervisor has stopped, a backend has closed.

## 4. Findings

Three disagreements between code and documentation are runs:

1. **A new address given as a clip ends is lost** (`perception_worker.py:338`
   against its docstring at 326). `replace_source` finds the loop ended and the
   supervisor not yet back, sets an event nobody will read, and the supervisor
   then reports "completed".
2. **A queue mixes two sessions** (`analysis_pipeline.py:227` against 228, "Discard
   every accumulated baseline, trend, counter and history"): `reset` leaves the
   queue analyser's trackers alone.
3. **The fifth camera is never retried** (`surgeguard_supervisor.py:175` against the
   docstring at 7, "any enabled camera that has not been ONLINE for 45 s gets a retry").
   A retry that raises ends the round. Rounds are 15 s apart and retries of one camera
   60 s, so the first four cameras take turns and the round never gets past them. When
   a retry raises after its timeout of 8 s a round takes 23 s, and the fourth starves
   too. `WorkIsResumed` says what does hold.

The models show the following as well. They are behaviours of the code, some of
them deliberate, that a reader of the properties should know:

- *Worker, cameras.* A save that fails leaves the edit in memory
  (`registry.py:197`). `_next_camera_id` reuses numbers. Removing a declared camera
  that shadows an added one brings the added one back. A test that meets a disable
  or swap can open a second client. A late health answer is recorded for the new
  address; a wake-up during a check is lost. `zone_store.save` overwrites a file it
  could not read, where `cameras/topology_store.py:5` says never; a damaged zone file raises
  at its first use only.
- *Sessions.* A seam is unnoticed if the new session's first analysed number
  exceeds the last. Trails join sessions of a clip that loops unwatched
  (`live_stream.py:137`).
- *Decisions.* A transition whose window is lost never reaches the timeline
  (`decision_service.py:199`). With several exits an action names the first and the
  evidence the worst (`rules.py:117`).
- *Queues.* Departures are back-dated and only the deques' fronts are pruned, so a
  move may outlive its window by the gap. Fewer than three settled tracks make every
  departure "served". Entries and arrivals differ on a first frame
  (`perception_factory.py:456`). Forecast buckets restart at the sealing reading,
  against `observations.py:12`; `had_gap` is not read.
- *Site.* A connected camera that is never analysed raises no alert. Closing the
  last counter makes its capacity unmeasured and can lower a score
  (`hotspot.py:186`). A hotspot's alert changes identity with its leading zone.
  When all zones are removed through the older API the flow map shows those
  last measured.
- *History.* `stop` loses the bucket being swept (`history_recorder.py:333`). Means
  are weighted by samples (`:249`). A merge of a stale row may drop what another
  write stored, or bring back what it had dropped; `resolve_resolution` can give 721
  groups.
- *Link, board.* A new socket inherits the silence of the old one
  (`socketClient.ts:381`); one that is opened and never heard stays "syncing"
  (`:379`). Health is compared with the last check and not with what a client was
  told (`publisher.py:304`). Disabling a camera clears the server's analysis and not
  the boards'. After a snapshot whose camera section failed, the next report makes the
  client show MONITORING whatever the phase is (`reducers.ts:147`), and the screens show
  an unknown phase as MONITORING too (`CommandCenterPage.tsx:38`). It lasts until the phase
  next changes: the polling that would fill the gap (`snapshot.py:83`) is suspended while
  the socket is live.
- *Alert.* Tests are exempt from the link timeout (`.ino:401`). A test that expired
  while the port opened is still sent, and corrected by the next pass.
- *Accounts.* The rule that an active administrator remains is checked in one
  transaction and written in another: each of two changes under way at once may
  count on the administrator the other removes. `AdministratorRemains` says so (`overlapped`). A session that a
  request had read before it was revoked may stay trusted for the cache's seconds.
- *Platform.* A child that died while another process listens leaves a hung listener
  alive; a supervisor opened during a boot starts a second backend; a backend that
  boots for ever is never restarted. After a recovery the old result's age makes the camera OFFLINE until
  its first frame.
- *Lifespan.* `main.py:262` credits the detached handlers with keeping a stopped
  camera from showing a late result. What does it is the number of turns the stop
  awaits: with two, TLC finds a late result shown; three are enough for every fleet
  (`LifespanOrderly`), and the code gives four.

## 5. Proofs

Every theorem is proved for all values of the constants that satisfy the modules'
ASSUMEs. These say that bounds are naturals, that markers such as `None` are not
values, that a topology or a fleet names a camera once, that a camera's stop awaits
three turns of the loop, and, for the board, that a boot ends within the banner's timeout
(`BannerAssumption`, 2 s of 4), that keepalives fit the link timeout and a lost
banner is repaired before a reconnection would be (`KeepaliveAssumption`,
`ReconnectAssumption`); the constants of the code satisfy all of them, and TLC
evaluates them on every run. A theorem about a component that an MC module instantiates
is about that component's specification alone; the theorems named `...Throughout` carry
it over to the run's own specification, `MCSpec`, in which the components take turns.

No property below is inductive by itself. What each proof adds:

- **PerceptionWorkerProofs** (`LoopOwned`, `EditHeeded`, `StateTrue`). `IInv` says who
  may hold the lock at each program point and that nobody waits for a free one, how
  far a stop has got, that a swap in progress has a supervisor waiting and a
  generation that moved, that a clean end was an ended source, and for which address
  a source in the making is. `LifespanOrderly`, for every fleet: a window in flight has
  a rank, dispatched, handled, its analysis dispatched, handled, and the loop being a FIFO
  each of its turns raises the rank of everything of a camera that has ended. When three
  turns have passed before the runtime is cleared, what is left to handle draws nothing
  any more (`FlightInv`, which compares ranks with the turns used up on either side of the
  lifespan's own callback, and `GoneInv`). Each window and report is carried by some
  callback, kept in a bucket or a write, or stored (`SafeInv`), and when the drain sees
  nothing outstanding the first case is gone. The other parts say where a stop is
  (`CamerasInv`), that the lifespan is in the loop once (`LoopInv`), who is subscribed
  (`SubscribedInv`), and that the publisher is told nothing more (`QuietInv`).
  `SupervisedThroughout` is about the composed model.
- **FrameSessionsProofs** (`SessionsApart`, `ShownIsHeld`). A source is never used
  again, so what a left-over thread does is about an earlier one (`ControlInv`). The
  next frame of the loop's source continues the session remembered or is frame 0
  (`TrackInv`, `AnalysisInv`): this is why comparing numbers suffices.
- **CameraProofs** (`BookKept`, `StreamsFollowed`, `DocumentKept`). Unless a save
  failed, what runs is what memory and file say, the camera being removed excepted
  (`BookInv`); a save under way holds the edit tried last (`Saving`), and memory holds
  more than the disk only through refused edits (`Remembered`). `DocumentKept` is the
  refinement of `DurableDocument`. `HealthEarned`, `ZonesApplied` and `MapHonest`, of
  every behaviour of their components, give `CamerasReported`: a status's age is that of
  the silence (`HealthInv`), and what is drawn, saved, built and measured differ only
  where it is said to be due (`ZonesInv`). `AccountsKept`: no two setups are past the lock
  and one that is finds no account (`SetupInv`); unless changes overlapped, the one pending
  was checked against the accounts as they are (`AdminInv`); what was read or cached of a
  session was good then, since the date of its last validity only grows, and a revoked one
  is cached only while a clear is still to come (`TrustInv`, `ForgottenInv`); and the
  failures kept are the latest of all, those under way included in the limit (`LimitInv`).
  `CamerasReported`, `AccountsKeptThroughout` and `ManagedThroughout` are about the run's
  own specification, in which the components take turns by `subject`.
- **OperatorWorkflowProofs** (`PhaseSound`, `ChangesEarned`, `PanelTrue`,
  `ReportsEarned`). A candidate's count never exceeds the windows in a row that showed
  it (`BandInv`), the stable run never exceeds the stable assessments (`CountInv`).
  For reports: the engine's candidate and count are a suffix of what the last windows
  called for (`CountsAgree`), and engine and service agree on the report in force
  unless it was lost (`ReportKept`). `PlansAreKept`, `PlansKeptThroughout`: at each minute
  the queue is what the plan's net rate makes of the one it was made for, give or take the
  jitter of the minutes since (`Promised`), and until the minute foretold it is within its
  target (`Foretold`); that no fewer counters would do is a least-number argument.
- **HistoryRecorderProofs** (`HistoryAddsUp`, `KeepsLedger`). No window is in two
  places, whatever overlaps (`MemoryApart`, `RowsApart`, `ReadsApart`). For the ledger,
  while the clock has not been set back: a bucket that may still be written has at most
  one write under way and then no row (`FirstOnly`), at most two writes share a place
  (`Pairs`), and a write that is not refused has read the row as it is (`ReadsLast`).
  `KeepsLedger` is the refinement of `HistoryLedger`. `ProcessesKept`, of the supervisor:
  a backend is never suspected for longer than it was silent (`SuspectedInTime`), one
  listens at most (`OneListens`), and unless one was started beside a living one, at most
  one is alive and it is the child if there ever was one (`OneLives`), so that ending the
  child, or else the listener, ends all. `PlatformThroughout` is about the composed model.
- **CommandCenterLinkProofs** (`AgreesClient`). The last message on its way that tells
  of the phase tells the truth, in each of the three queues in turn, and when none is left
  the client shows it, or what a snapshot that could not tell leaves it with (`ToldInv`,
  `ShowsPhase`); a
  recent entry is on its way, or arrives and is not dropped again (`EntryInv`). For the
  site: `FiguresWhole` rests on each area being counted by one of its cameras, so that what
  is summed are disjoint sets of people (the sum is the cardinality of a disjoint union,
  `Total`). It needs that whoever contributed and was let alone has lost its stream or
  grown old (`OnceInv`), and that a forecaster's samples are of the set it says
  (`BasisInv`). `TimelineEarned`: what is remembered of an alert says what its timeline
  ends with and when it was first and last seen (`AlertInv`, `TrackedOK`), for any delays
  and any times of updates. `ToldThroughout` is about the composed model.
- **SocketClientProofs** (`SoundConnection`, `HonestDisplay`, `BoardTrue`). A retry
  waits only without a socket; waiting for a snapshot, being behind and having asked
  are one thing; silence and the stale mark move together. For the board, the link's
  argument with a throttled publisher and a camera that may be gone (`BandInv`,
  `CardInv`, `GoneInv`).
- **HardwareAlertProofs** (`FreshClaim`, `KeptBoard`). How long a pass may have been at
  each await (`PassInv`), how old a claim may be in the thread, on the line and on the
  LED (`FreshInv`), how long a board that shows a level may have heard nothing
  (`LinkInv`), and how much calm is used up before board and service agree (`BootInv`,
  `ReachInv`, `WishInv`).

### Only model-checked

- Everything under fairness, which the prover does not treat: `OperatorReturns`,
  `StopsEnd`, `FaultsHeal`, `WorkflowCatchesUp`, `KeepsTrying`, `BoardCatchesUp`, `ShowsWhatLasts`,
  `HealthIsOfNow` and `WorkIsResumed`.
- `GuidanceStands` surveys the rules over enumerated views: it compares numbers that are
  interpolated between knots and divided, in hundreds of combinations, where the survey
  says more than a proof about a few of them would.
- `ZonesAreCounted` is about a step that folds pairing over the zones of each track
  (`FoldLeft`), and `QueueIsMeasured` about sequences flattened out of one per track and
  resampled. A fold is a recursive function; that it exists for every argument, and what it
  yields, is induction with an operator as parameter, which the provers cannot instantiate.
  (A least-number argument replaces induction where the claim is about a set of naturals,
  as in `PlansAreKept`; it does not define a function.)
- `FiguresAreExplained` compares sums and maxima folded over sets of factors and of rows,
  the same difficulty, with products of two variables besides.

### Assumptions of the models worth repeating

- `LifespanOrderly` is about a fleet with a camera in it: with none there is nothing to
  stop. Failed writes are `HistoryRecorder`'s, where a window may be dropped and is counted.
- `AccountsKept` has an administrator remain only while no two changes overlapped (see
  section 4).
- In the composed runs the components share nothing but the process they run in; where
  they do interact in the code (section 1) they are in one module.

## 6. What could follow

Every invariant a run checks is proved, but for `GuidanceStands` and `ZonesAreCounted`. An
alternative to the folds of `ZoneTransitions`, pairing as a relation between events instead
of a walk over zones, would put `ZonesAreCounted` within reach, at the price of showing that
the relation is what the walk computes. `PerceptionWorker` could implement an abstract
supervised service (stopped, working, retrying, finished). The three expected violations
stay as long as the code has them.
