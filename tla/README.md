# Almighty: TLA+ models

Almighty is a turn-based war-game platform. White-cell operators advance a
scenario turn by turn; between turns, agents play the blue and red officers;
their events are kept per tenant and scenario, drawn on a map, and held against
override policies. This directory models the parts of it where steps of several
actors interleave, and the calculations two parts must agree on. Paths below are
relative to the repository's root.

## The system

| Part | State | Operations | What makes it hard | What makes it correct |
|---|---|---|---|---|
| Turn controller and between-turn runner (`services/control-plane/src/turn-controller.ts`, `stubs/agent-runtime.ts`) | `scenarios.current_turn`, `turn_state`, `events`, `turn_snapshots`, pool connections | `POST .../turns/advance` | minutes pass between the committed lock and the snapshot; overlapping requests, failures anywhere, process crashes, two connections per request | one snapshot per closed turn, turns move by one, the lock has an owner, connections come back, every request is answered |
| Override gateway (`override-gateway.ts`) | `override_policies`, `override_decisions` | author, revoke, evaluate, rule by hand | each handler is two autocommitted statements; turns advance in between; int4 arithmetic | verdicts cite a policy that applied, narrowest scope wins, one winner per revoke, every evaluation audited |
| Other control-plane routes, authentication (`routes/`, `auth.ts`) | `tenants`, `scenarios` | create, rename, archive, list | little: one statement each | tenant and role checks |
| WebSocket hub (`services/websocket/src`) | connections, their buckets and subscriptions, send buffers | connect, subscribe, unsubscribe, ping, `POST /publish`, close | sockets that are closing, slow subscribers, several tenants | isolation by tenant and role, bookkeeping that matches the sockets |
| CZML validator and officer tools (`services/czml-validator`, `agents/tools`) | none of their own | one tool call per verb: gate, validate, commit | two packages derive family and parameters of one event separately | tool and adapter agree |
| CZML adapter (`services/czml-adapter`) | its socket, the event in hand | read, translate, POST | reconnects, lost POSTs, exceptions in the loop | packets in order, at most once; no event stops the others |
| Kernel DAG (`kernel/almighty_kernel/dag.py`) | posets and index per namespace | commit, read | duplicate ids, predecessors of another namespace | causal order, isolation |
| Blue and red crews, LLM step, shim (`agents/blue`, `agents/red`, `agents/runtime`) | a DAG per run, the tool context | doctrine steps, an LLM-driven step, fallback | parallel threads, a tool call failing after another committed | reported events are the committed ones |
| Celery runtime (`agents/runtime`) | one queue per tenant | chain blue, red, white | `acks_late` redelivery, soft-failing callbacks | order of the chain, tenant isolation |
| White-cell adjudicator (`agents/white-cell`) | decisions | adjudicate | contested events | one decision per event, high stakes reviewed |
| Demo console (`web/renderer/src/routes/Demo.tsx`, `api/`) | the list on the screen, the POST under way, the polling effect | press the button, poll, draw | answers that overtake each other, effects cleaned up while GETs are out, answers that get lost | the log shows what the table holds, and keeps an answered run |
| Other renderer routes, LLM clients, templates, profiles, infrastructure | | | display code, remote calls, data | not modelled, see below |

A turn: the control plane locks the scenario, calls the worker (shim, crews, LLM,
tools, DAG), inserts the returned events, archives the closing turn and opens the
next one. Committed events are meant to be published on the hub's `events`
channel, where the adapter turns those that draw something into packets on
`czml_packets`, which renderers subscribe to. `PROJECT.json` lists the hazards of
all this at their lines, with the properties that cover them.

## Modules

| Module | Models |
|---|---|
| `TurnLedger` | the abstract promise: a counter per scenario that moves by one together with one snapshot, and an append-only event log at most one turn ahead |
| `TurnController` | `advanceTurn` and `runBetweenTurnAgents`, statement by statement where others can tell, with pool, failures and crash |
| `NamespacedDag` | the kernel's causal DAG as a value: commit with its errors, read |
| `CrewScripts` | what blue and red do in a cycle, with which role's tools, and red's uncertainty caps |
| `CrewTurn` | the composition behind `POST /run-turn`: both crews in threads, their DAGs, the LLM step and its fallback, the answer |
| `AgentRuntime` | the Celery chain: queues, tenant check, callback, acknowledgement, failures and deaths |
| `SpatialEffects` | the capability gate, the family tables, tool parameters, payloads, token defaults and the validator, as operators |
| `OfficerVerbs` | the argument schemas, the commander's authority, and what a committed event tells the white cell |
| `Adjudication` | the adjudicator over a batch that grows, and `run_white_crew` |
| `OverrideGateway` | the gateway, one action per query |
| `VerdictHistory` | the gateway with a history variable, what each lookup could see |
| `WsHub` | the hub and the `/ws` route, one action per handler |
| `CzmlAdapter` | the composition: commits published on the hub, the adapter as one of its clients, viewers as the others |
| `DemoConsole` | the composition of the demo console with the turn controller it drives |
| `ShippedProfiles` | ranges, verbs and weapons of the four profiles in `kernel/capability-profiles`, and the ranges of the templates in `czml/templates` |
| `..._proofs` | the theorems about `TurnController`, `OverrideGateway`, `SpatialEffects`, `WsHub` with `CzmlAdapter`, `CrewTurn`, `AgentRuntime`, `Adjudication` and `DemoConsole` |
| `MC...` | constants and symmetry for TLC |

**TurnController.** `pc[r]` is where the handler of request `r` awaits. Step 1 is
one action because the row lock of `SELECT ... FOR UPDATE` keeps others out until
COMMIT; so are the INSERT, UPDATE and COMMIT of steps 4 and 5. The two SELECTs
before them are an action of their own (READ COMMITTED sees what stale runs
inserted until then). Each event is inserted by its own autocommitted statement.
`Throw` is any rejected await inside the `try`, `Revert` the catch block,
`Answer` the `finally`. The worker is a choice of 0 to `MaxEvents` events or a
failure. `Rejected` is any statement the server refuses (for one, the foreign key
of `source_entity_id`), the worker's error or its 180 s timeout. A connection that
breaks while checked out emits an unhandled `error` in node-pg and ends the
process, so `Crash` stands for it, and `RevertFails` only for a refused UPDATE.
A COMMIT or an autocommitted INSERT may have taken effect although its confirmation
never came: `Lock`, `InsertEvent` and `OpenNextTurn` change the tables and then either
go on or throw.
Step 6 is a no-op stub. Archived scenarios advance like others, so `status` is
left out.

**NamespacedDag, CrewScripts, CrewTurn.** A DAG is a sequence of nodes per
namespace and an index from ids to places; a node's causes are places, because
PyRapide links event objects, not ids. A *run* is one crew's cycle within a *slot*,
which has one request in hand at a time. Events are named by run and number, for
the fresh `uuid4` each gets. A script is a sequence of officer calls and at most one
`Decide` step; `Permits` is the role's tool set and the tool's own gate and
validator. `Ask` reads the situation report into `stash`, which is what S3's tool
context has as `causal_predecessors`; `Call` is one tool call in the LLM's answer;
`FailCall` every way in which `llm_step` gives up: no endpoint, an error, the
timeout, an answer without a tool call, a tool that raises after others committed.
`FallBack` makes one of the two deterministic orders, `Decided` hands the results
over. `Raise` is a `ToolError` that leaves the crew; `Answer` and `Fail` are what
`asyncio.gather` makes of the two threads, of which the other goes on. Prompts and
wire formats are left out: which tools the LLM calls is its choice. `RedSetting` is
what ALMIGHTY_RED_DOCTRINE may hold, `SelectDoctrine` what the red crew makes of it,
and `LoadedProfile` the profile that goes with it; `Offered` are the tools an LLM step
may name.

**AgentRuntime.** A message is a job and the number of a crew. A slot of a tenant's
worker process takes it (`Deliver`), runs the body (`RunCrew`, or `Mismatch` and
`CrewRaises`, which end the chain), posts the callback, hands on and acknowledges,
in this order: Celery publishes the successor when the task returns, and
`task_acks_late` acknowledges after that. `ChildLost` is a pool child that is
killed, `WorkerDies` the whole process: what it had not acknowledged is delivered
again, in any order. `EnqueueTurn` may put the first message on another tenant's
queue, which is the misconfiguration `_assert_tenant_match` is there for. How long
the broker waits before it delivers again is not modelled: the LLM's and the
callback's timeouts keep a task far below Redis' visibility timeout of an hour.
What a crew does is one step here and `CrewTurn`'s subject.

**OfficerVerbs, Adjudication.** A call names the *kinds* of argument it gives
(`gives`), because the schemas' rules are about combinations: exactly one of entity
and coordinate, a polygon of three vertices. Ranges of a single argument are left
out. `TargetOf` and `Stamps` are what a commit puts into the payload for the white
cell. The batch given to `adjudicate_events` is the caller's business and no caller
in the repository passes it real commits: `RunWhiteCrew` adjudicates six made-up
events. So `Commit` adds an event, `Annotate` is the call site adding a marker the
default predicates look for, and `Adjudicate` runs over the whole batch at any
moment, each time from scratch. The markers are kept apart as the predicates do:
`contested`, and `sensitive` for neutral, civilian and population-center targets.
Rationales are text; custom predicates are the embedder's.

**SpatialEffects.** A call is a verb, a mode and the numbers it names. `ToolFamily`,
`ToolParams` and `Commits` are the officer tool, `Handler`, `Tokens` and
`Translate` the adapter, `Validate` what both ask. Verbs that draw nothing are one
case. Floats are integers, which the templates' limits are.

**OverrideGateway.** A `Call` is one request or evaluation; its first query is one
action, its second another, and `job` is what it read in between. Policies are
numbered in `created_at` order. A statement that committed may still be answered
500 (`Committed`), and a second statement may never run (`Fail`). Nothing in the repository calls `evaluateEvent`
yet (`applyOverrides` is a stub), so evaluations run on any event at any time.
The range test of the lookup is int4 arithmetic: `LookUpOverflows` is the error.
Whether a row of the audit log is right depends on the policies at its lookup, and
the tables do not keep them: a policy is revoked, a narrower or a newer one authored,
before the row is written. `VerdictHistory` adds `asOf`, which the lookup of a call
sets to the policies there are and those revoked, and which no action reads: it
neither adds nor forbids a step of the gateway (`HistorySteps` shows the first, the
second is plain: its actions are the gateway's, each with a value for `asOf'`).

**WsHub.** Frames count 1 in `bufferedAmount`. A socket is open, closing (until its
`close` event the hub still has it) or closed. A connection that is opened again is
a new `Connection` object without subscriptions; a half-open old socket beside the
new one is not modelled, nothing reads from it. Refused tokens and the counters
`drops`, `publishes`, `rejected` change nothing else and are left out.

**CzmlAdapter.** The adapter's loop is asleep (between connections), greeting,
reading, posting or down. `Take` is `translate_event` and the start of
`_dispatch`, `Posted` the answer, `PostLost` a transport error of httpx, which
leaves `run()` and may or may not have published. Backoff is not timed. Who
publishes on `events`, `override_pending` and `turn_state` is not in the
repository yet: `Commit` and `Notify` follow the hub's README.

**DemoConsole.** Each request of `TurnController` is a press of the button. A
change of `advancing` or `pollUntil` runs the effect's cleanup and then the effect, so
`poll` numbers the generations of polls; `asked` and `answers` are the GETs and the
lists in flight, which may overtake each other or get lost, and `Drawn` is the
`cancelled` flag of the generation that asked. `Click` is the handler up to its
`await`, `Settle` its `finally`, which also runs when the POST's answer gets lost
while the control plane is still at work. `Serve` is the events route: one query on a
connection of the pool, so polls wait behind a pool that is exhausted. The interval is
ended by a new generation only; that `Date.now()` passes `pollUntil` renders nothing.
`Asks` is `new URL(...)`, which throws for a base that is only a path. StrictMode's
double effects and the unmounting of the page are left out.

## Runs

| Run | Shows | Bounds |
|---|---|---|
| `turn_advance` | the turn workflow's safety invariants, `LedgerSpec` (refinement) and `EveryRequestSettles` | three requests of one scenario, so that one holds the lock, one is refused and reverts, and one runs beside or after; two events, a snapshot limit that they reach and pass; a pool with a connection to spare, see `turn_pool`. Scenarios meet in the pool only |
| `turn_overlap` | **violated**: concurrent advances do not serialize | as above |
| `turn_pool` | **violated**: a pool full of advances waits for itself | `PoolSize` equal to the number of advances, as 10 and 10 |
| `crew_turn` | causal order, closed and complete answers, the shipped scripts, every call answered | one slot, used again and again (runs share nothing, a slot's DAGs are new); two namespaces; two tool calls per answer; every doctrine; blue's shipped profile and one that lacks two verbs of its script |
| `agent_runtime` | order of the chain, isolation, single runs, the end of every job | two jobs of a tenant whose worker has two slots; a second tenant a job can be misrouted to; one death per worker process |
| `adjudication` | agreement on contested sets, holds that stand | three events (two cannot disagree on a set), two annotations, two turns, two entities, calls that each schema and authority rule accepts or refuses |
| `override_audit` | the gateway's invariants, and that every verdict heeds the policies of its lookup | three calls (author, revoke or author, evaluate), two scenarios, `Ttl` 0 and 2, one turn advanced |
| `override_overflow` | **violated**: not every evaluation is audited | `MaxInt` 2 |
| `adapter_pipeline` | isolation, bookkeeping, order and progress of the whole path; tool and adapter agree on what an event draws (`DrawnAsGated` and `GatedNeverRejected` compare their verdict functions over all calls and profiles, no step is involved) | adapter and one viewer, two tenants, a white and a blue role, two events, one frame of buffer, which makes drops, reconnects and lost events happen; for the agreement the four shipped profiles and calls at and on both sides of the limits of templates and profiles |
| `adapter_raises` | **violated**: a `disable` event ends the adapter | every shipped profile and call, one event |
| `demo_console` | an answered run stays on the screen, the log ends up showing the table's oldest events | one press of the button (a second one waits for the first, and polls are numbered anew), three events and a list of two, so that the limit cuts; three GETs in flight, so that two generations overtake each other |
| `demo_default` | **violated**: with the base URL the build has by default, the log stays empty | as above, two events |

The bounds suffice because the hazards need two or three actors: a lock taken away
needs the running request, the refused one and the next; an isolation breach needs
two connections; a verdict on the wrong policy two policies and an evaluation; a
crew ahead of its predecessor a chain and one redelivery. The theorems remove the
bound for what they cover. `CHECK_DEADLOCK` is off because requests, calls, jobs
and commits are one-shot: the modelled system stops when they are used up. Symmetry
is used only in runs without liveness properties.

**Fairness.**

- `TurnController!FairSpec`: weak fairness of each request's handler. The event loop
  and the database serve a handler that can go on, and the worker's answer is bounded
  by `AbortSignal.timeout(180_000)`. Arrivals, scenario creation and crashes are
  never owed.
- `CrewTurn!FairSpec`: weak fairness of what each run does by itself, and of gather.
  Threads run, and the endpoint answers or `LLMStepError` comes at the timeout. That
  the LLM calls a tool is never owed.
- `AgentRuntime!FairSpec`: weak fairness of each slot. Its tasks are bounded
  by the timeouts. That a worker process that died is started again is the
  operator's part: the repository starts workers by hand, and without it
  `JobSettles` says nothing. Deaths and lost children are never owed.
- `DemoConsole!ConsoleFairSpec`: weak fairness of the handlers as above, of the interval
  (`Tick`) and of a GET's end, good or bad (`Deliver \/ FetchLost`). Strong fairness of
  `Serve`, because connections come free again and again and the pool's queue is
  first in, first out, and of `Refresh`: a browser that asks every 750 ms does not
  lose every answer of the current generation. The POST's answer is never owed.
- `CzmlAdapter!FairSpec`: weak fairness of `Take` and `Posted`: the adapter's own
  loop, and a POST that is answered unless it is lost, which httpx reports after
  10 s. Nothing is assumed of the network or the viewers.

## What the code does differently from what it says

- **Overlapping advances** (`turn-controller.ts:185-196`): a request that is refused
  with 409 enters the same catch block as one that fails in step 2, and its UPDATE
  sets any `advancing` scenario open. A third request then runs the agents of the
  same turn. The unique constraint on snapshots still lets only one of them close
  the turn, which is why `SnapshotsMatchTurn` holds.
- **The pool** (`agent-runtime.ts:79`): ten concurrent advances take all ten
  connections and ask for one more each, without a timeout.
- **Evaluations without a row** (`override-gateway.ts:218`): `ttl_turns` is unbounded
  up to int4, and its sum with `created_in_turn` overflows inside the query, so each
  event the policy is aimed at fails to be evaluated.
- **`disable` events** (`families.py:191`): their payload lacks the keys the builders
  index; the `KeyError` ends `AdapterRunner.run`, while `/healthz` stays ok.
- **The demo's event log** (`web/renderer/src/api/aar.ts:55`): without
  VITE_CONTROL_PLANE_URL the base is `/api`, of which `new URL` makes no URL; both
  callers swallow the TypeError, so the log never fills although the turn advances.

Seen and not a run, each being visible in one place without interleaving:

- `stubs/agent-runtime.ts:82` counts on `ON CONFLICT (event_id)` against double
  inserts of a turn that is run again; the ids are new in every run, so both runs'
  events are kept.
- `docs/glossary.md` says the controller advances anyway when agents time out, the
  code reverts and throws; the same page has the crews run one after the other, the
  shim runs them in parallel.
- `families.py:107` takes `advertise_corridor` as enforced; `relay.py` only skips the
  validator without it, so an airborne relay of a profile without corridors is
  committed unvalidated and is drawn if the adapter's profile has them. This is why
  `DrawnAsGated` and `GatedNeverRejected` speak of officer and adapter with one
  profile.
- `red crew.py:172` speaks of prior-turn events still in the namespace; the crew's
  DAG is new in every cycle.
- `blue crew.py:391` reports `events_committed` as the number of steps reported;
  events of an LLM decision that was given up stay in the DAG and are not counted.
- `docs/schema/artifacts.md:150-156` and `destroy.py:4-7` have the gateway floor
  `destroy` at `always-contested`; `findMatchingPolicy` never looks at the verb.
- `assume_posture.py:4-7` has the adjudicator reject postures outside the profile; it
  never rejects anything.
- `runner.py:131-133` posts rejections on `czml_rejected`, which is not a channel of
  the hub (`websocket/src/types.ts:6`): answered 400 and logged.
- `dag.py:172`: a second commit of one `event_id` adds a second event and leads the id
  to it; no caller commits an id twice.
- `override-gateway.ts:347`: `applyOverrides` evaluates nothing, so agents' events are
  committed unevaluated, against the module's header; and a policy's
  `created_in_turn` is read in an earlier statement than the INSERT, so a turn may
  have advanced in between (`ReadStamp`, `InsertPolicy`).
- `red crew.py:19-21` counts 11 and 10 steps where the code takes 10 and 9, and
  blue's docstring 11 where it takes 10; `validator_rejections` is a constant 0.
- `llm_clients.py`: the Bedrock client ignores its timeout, and the tool names it is
  given contain dots.
- `wiring.py` reports any ImportError as "package not installed" and runs a stub
  crew; an empty ALMIGHTY_RED_DOCTRINE is a ValueError, not the default.
- `Demo.tsx:7-14` has the polling end about 10 s after an answer; nothing ends it.
  Within one generation an older answer may overwrite a newer list until the next
  poll. A POST whose answer gets lost releases the button while its handler runs, and
  a worker goes on after the control plane's 180 s are over.
- `adjudicator.py:71` and `white-cell/README.md:52` have overlapping targets catch
  whether an EW cone degraded comms; the payloads of `jam` and `send` have no
  `target_entity_id`, so such a pair never contests. Nor does any tool stamp the
  markers `stakes.py` looks for, `destroy`'s own apart.

## Proofs

Every safety invariant and action property a passing run checks is also a theorem.
The theorems hold for all values of the constants that satisfy the modules'
assumptions (naturals and non-empty sets; a pool of at least one connection; calls
whose targets are entities). A hypothesis of a theorem's own is stated in it:

| Hypothesis | Theorems | Why |
|---|---|---|
| `TemplateRange = TemplateRanges` | `GatedStaysAccepted`, `ShippedScriptsAreRun`, `ShippedScriptsAreDrawn` | the files in `czml/templates`; `AdapterPipeline.cfg` and `CrewTurn.cfg` give this value |
| red has the profile of its doctrine, blue never one of red's | `ShippedScriptsAreRun` | `crew.py` loads the profile with the doctrine; `CrewTurn.cfg` gives blue `UsBct` and one without two of its verbs |
| a call names range or power where its schema obliges it to (`NamesArguments`) | `OnlyDisableRaises`, `GatedIsDrawn`, `OnlyDisableEndsAdapter`, `ResultsWithoutDisable` | required fields of the pydantic models; `model_validate` runs before the commit |
| nobody calls `disable`; `ttl_turns` is capped; the pool has a connection to spare | `ResultsWithoutDisable`; `CappedTtlsAreAudited`; `SpareConnectionSuffices` | what the code would have to add for its own claim to hold, see below |

Four of the runs that find a claim of the repository violated have theorems that say
what it takes at least, and what would repair it: `OverlapsNeedAnError` (`turn_overlap`),
`DeadlockNeedsFullPool`, `OnlyCrashEndsDeadlock` and `SpareConnectionSuffices`
(`turn_pool`),
`OnlyLongTtlsOverflow` and `CappedTtlsAreAudited` (`override_overflow`),
`OnlyDisableEndsAdapter` and `ResultsWithoutDisable` (`adapter_raises`).

`TurnController_proofs`:

- `TypeCorrect`: type correctness, inductive as it stands because it includes that a
  handler past step 1 has read its turn.
- `OneSnapshotPerClosedTurn`: `SnapshotsMatchTurn` is not inductive: nothing in it
  says that a handler about to open a turn from a stale `closedTurn` cannot skip one.
  `TurnInv` adds that no handler's `closedTurn` is ahead of the scenario; then a
  handler whose turn has no snapshot yet holds the current turn
  (`ClosesCurrentTurn`), and all others are refused.
- `ImplementsLedger`: under the mapping turn, log, archive to the three tables,
  every step is a step of `TurnLedger` or stutters; it needs `SeenIsLogged` (what a
  handler read for its snapshot is in the log).
- `LockHasOwner`: only `Lock` sets `advancing`, and an owner stops owning only by
  reopening, failing to, or dying.
- `ConnectionsReleased`: the invariant itself, step by step, plus the bound from the
  guard of the two check-outs.
- `ArchiveKeepsOpeningRun`: a run answered 200 inserted all its events before the
  turn they belong to was opened, so the read of that turn's snapshot, which
  happens later, contains them, unless the limit cuts it.
- `AnswersNameDifferentTurns`: a 200 answer was sent by the action that inserted its
  turn's snapshot, and the unique snapshot excludes a second such action.
- `OverlapsNeedAnError`: `OverlapInv` says of every scenario that an error was answered
  for it, or else at most one handler of it runs and the row says `advancing`. A
  handler in the catch block has not answered yet, but it will answer an error, and it
  is its `Revert` that ends both parts at once; hence the second conjunct.
- `DeadlockNeedsFullPool`, `OnlyCrashEndsDeadlock`, `SpareConnectionSuffices`: the
  deadlock (`PoolDeadlocked`) is an empty pool of which every holder waits for its
  second connection. Waiting handlers and the connections they hold correspond one to
  one (`WaitersHoldOneEach`), so with the invariant of `ConnectionsReleased` there is
  a deadlock exactly when `PoolSize` handlers wait: no connection is then left for
  anybody who could return it. Once there, every action of a handler is disabled, and
  of the others an arrival changes nothing of it. With fewer requests than connections
  an empty pool has a handler with two, which is not waiting.

`OverrideGateway_proofs`:

- `GatewayTyped`: `Typed` adds what a call may have read in each place, so that the row
  it appends cites an event and a policy that exist.
- `VerdictsCiteRightly`: `Verdicts` says that the policies of verdicts, under way and in
  the log, apply to their events. Neither part holds by itself between the two
  statements of an evaluation; they hold because the tables only grow (`NextGrows`) and
  a policy's window is about the event's turn.
- `VerdictsAreHeedful`, of `HistorySpec`: the lookup returns a policy of the narrowest
  scope, and of that the newest, or none where none applies (`Found`, from the existence
  of least and greatest ids, `MinExists` and `MaxExists`). `Heeding` says so of every
  evaluation under way and every row with respect to what its lookup saw, which neither
  a later policy nor a later revocation changes (`HeededStays`); a call looks up once,
  and its row is written when it is done (`DecidersAreDone`).
- `AnswersAreAudited`, `OneRevokerEach`: every step is one call that waits, is refused,
  revokes or records (`OneCallMoves`); `Books` says that a row's call is done and has no
  other, and that a revoked policy has one call that revoked it.
- `OnlyLongTtlsOverflow`, `CappedTtlsAreAudited`: policies are never deleted, so the one
  whose last turn did not fit explains the error for good (`ErrorsExplained`).

`CrewTurn_proofs`:

- `DagsStayCausal`, `ReportsResolve`: the invariant `DagInv` calls a DAG *sound* for a
  namespace when it is typed, all indexed events are of that namespace, every event
  that can be read is in the index, the index leads to events and causes are earlier.
  `CommitSound` shows that `Committed` keeps a DAG sound when its predecessors are
  indexed. A report's ids are indexed because a sound DAG knows what it can read, and
  stay so because the index only grows. Without the first two parts a report could
  name an id that later raises, which is what `ReportsResolve` excludes.
- `CrewTyped`, `ReportIsCited`, `AnswersCausallyClosed`: `CitesReport` speaks of outcomes,
  but what is cited is read from the DAG, which also holds the events of decisions that
  were given up. `RunOK` relates the two: until the LLM has been asked (`Unasked`) the
  events in the DAG are exactly those the crew has reported, and afterwards it is not
  asked again, because no script asks twice (`AsksOnce`, from the scripts themselves).
  It also says so of the results of a decision under way, which become outcomes only
  later, and that reported events are numbered in the order of their commits, so that
  none comes twice. Each action has a lemma on one run (`ActOK`, `CallOK`, ...) and one
  on the state (`ActKeeps`, `CallKeeps`, ...).
- `DecisionsAreWhole`: `DecisionIsWhole` is about a run that got through. `WholeInv` counts
  at every place: before the decision there are as many outcomes as steps done, after
  it as many as the steps without it and what was decided in its place, and the
  results of a fallback are never the LLM's.
- `ShippedScriptsAreRun`: that a step is permitted is arithmetic on templates and profiles,
  verb by verb and doctrine by doctrine. `ScriptsInv` adds that profiles do not change
  and red's fits its doctrine, and that only a blue crew with another profile has
  raised; with it the fallback's steps cannot raise either.
- `ShippedScriptsAreDrawn` goes on to the map: of these steps an adapter with the same
  profile draws exactly those the tools take for drawing, and none ends it.

`AgentRuntime_proofs`:

- `CrewsInOrder`, `TenantsIsolated`: the order is not inductive: a redelivered message
  might be of a crew whose predecessor never ran. `ChainInv` adds that every queued and
  every unacknowledged message is *ready*, its predecessor having run, and that a task
  past its body has run; counts never go back, so redelivery in any order keeps it.
- `RuntimeTyped`, `CrewsRunOnce`, `FailureEndsChain`: `OnceInv` says that until a worker
  process dies a job is in one place at most, one queued message or one slot that has
  not handed on, and that the crews from there on have not run. A job that was halted
  or not enqueued is nowhere, so nothing of it can run again.

`Adjudication_proofs`: `AdjudicationTyped`, `ContestedSetsAreOne`, `HoldsAreNeverTakenBack`.
Decisions can be older than the batch when it is adjudicated again. `AdjInv` adds
that events are numbered and that each decision *stands*: the batch, which only
grows (`Grown`), still supports its hold, its flag and its conflicts, so that a
fresh decision includes them. The contested sets agree because two events are rivals
exactly when both are aimed at the same entity in the same turn
(`RivalsAreAimedAlike`).

`SpatialEffects_proofs`, about the operators, for calls with whatever numbers:

- `AcceptedAsGated`: tool and adapter choose different families only for an airborne relay
  of a profile without corridors (`HandlersDiffer`); that such an event is not drawn
  needs `CorridorsAdvertised`, a profile that gives no ranges for corridors it lacks.
- `GatedIsNotRejected`: what the adapter hands to the validator is, parameter by parameter,
  what the tool had handed to it, or a number of the adapter's own (`ParamsAgree`,
  `OwnNumbers`); a profile that refused those would have the adapter reject a
  committed event (`AllowsOwnNumbers`). Every shipped profile satisfies both conditions.
- `OnlyDisableRaises`, `GatedIsDrawn`: the keys that the builders index are in the payload
  of every verb but `disable`, so what was validated is drawn.

`CzmlAdapter_proofs`, about the hub and the adapter's path together:

- `HubIsolates`, `BucketsCountSockets`: `HubInv` adds to isolation that every
  subscription was granted (a role never changes under it) and that a closed socket
  has no frames left; isolation alone would not survive a publication.
- `PacketsKeepOrder`: `PacketsInOrder` speaks of what was POSTed, and the next POST comes
  from the queue. `QueueInv` says that the events on their way to the adapter, in the
  hub's buffer or in the client's, are of its tenant and in the order of the log;
  `PostsInv` that all of them are newer than every POST. Drops, closing and
  reconnecting only remove frames; a commit adds the newest (`QueueGrows`), reading
  moves the oldest (`QueueIsRead`).
- `PathTyped`: the types of both, and that only the last POST may be unanswered. It
  shares the invariant: an event in the queue must have its row in the log.
- `DrawsAsGated`, `GatedStaysAccepted`: the theorems of `SpatialEffects_proofs` for the
  shipped profiles and every call the runs make.
- `OnlyDisableEndsAdapter`, `ResultsWithoutDisable`: `EndExplained` says that the loop is
  down only with its last POST unanswered or a `disable` in the log, which never shrinks.

`DemoConsole_proofs`:

- `ConsoleRunsController`: each step of the console is a step of `TurnController` or leaves
  it alone, so that all theorems of `TurnController_proofs` hold under the console.
- `ConsoleTyped`, `AnsweredRunsStay`: an answer drawn now may have been read long ago.
  `ConsoleInv` says that the handler whose 200 released the button is done, so that its
  run inserts nothing more (`RowsGrow`), and that every answer to a poll of the present
  generation was read after that and therefore has all of the run, or as many rows as a
  list can have; older generations are not drawn.

Only model-checked: the liveness properties (`EveryRequestSettles`, `RunTurnAnswered`,
`JobSettles`, `EveryArrivalHandled`, `EventLogPopulates`), which are out of the prover's reach.

Some hazards the code does not guard against at all; the models contain them, and what
is checked only bounds them. A scenario whose handler died or whose revert failed stays
`advancing` (`AdvancingHasOwner` shows that nothing else leaves it so). The hub drops
frames of a slow subscriber, and the adapter misses what is published while it
reconnects (`PacketsInOrder` shows that what gets through is in order and comes once).
A task whose worker dies after the crew ran is run again (`CrewAfterPredecessor` and
`JobSettles` hold all the same, `RunsOnceUndisturbed` is about the rest). A caller of
`evaluateEvent` that tries again after an error leaves a second row.

## Plan

1. Done: `TurnController` with its ledger and proofs.
2. Done: `NamespacedDag`, `CrewTurn`, `AgentRuntime`, with proofs of all their safety
   invariants.
3. Done: `OfficerVerbs`, `Adjudication`, with proofs.
4. Done: `OverrideGateway`, with proofs of all its invariants.
5. Done: `SpatialEffects`, `WsHub`, `CzmlAdapter`, with proofs.
6. Done: `DemoConsole`, with proofs. To prove next: an abstract specification of each
   component that has none (the gateway's audit log as an append-only relation between
   calls and verdicts, the adapter as a filter of the log) and that it is implemented.
7. Then, if the repository comes to wire them: committed events published on the
   hub, the adjudicator's decisions posted to the gateway, `applyOverrides` calling
   `evaluateEvent`. Today these seams are stubs, and the models keep them open.

## Not modelled

The renderer beyond the demo console (display code, mock APIs, Cesium, routes that
fetch once), the LLM clients and model routing (one call each to a remote endpoint,
whose failures are `FailCall`), the worker's startup wiring and its no-op stub crews
(imports, no state that changes afterwards), packet text and colours, Terraform,
container and seed files, the JSON of templates and profiles beyond the numbers in
`ShippedProfiles`, and the listing and renaming routes: remote services, data, or
single statements without interaction.
