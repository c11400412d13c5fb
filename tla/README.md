# ShipGlows runner: verification project

This directory holds TLA+ models of the ShipGlows runner (`runner/src/`), the
TLC configurations that check them and the proofs that TLAPS checks. It is kept
beside the code: a change to a mapped function is a change to the definition of
the same name, and `PROJECT.json` (`map`) names the lines each definition stands
for. Paths below are relative to the repository (`src/` in `PROJECT.json`).

## 1. The system and its parts

ShipGlows is a cockpit for coding agents: a Flutter application (`app/`), a
marketing site (`site/`), specifications (`shipglows_data/`) and a Node.js
runner (`runner/`) that owns everything with state and concurrency. The runner
has two cores:

- **Managed runs.** A user audits a project, asks for a fix or talks to an
  agent. A run takes a slot of the tenant's quota, opens an agent session,
  starts a turn, persists the events of the turn and ends on its events, its
  timer or a restart.
- **Linux compilation.** Untrusted projects are compiled in remote sandboxes
  that cost money. A coordinator drives one operation through reservation,
  sandbox, ingress, build, verification, cleanup, payment and release, under a
  spend ledger shared by all operations.

| Component | State it keeps | Operations | Works with | Correct when |
|---|---|---|---|---|
| Spend ledger, `studio/compilation/budgetLedger.ts` | reservations, receipts, slots, quarantines, revision | reserve, retryBeforeCreate, observeCreate, retain, settle, release, reconcileCleanup, snapshot, restore | called by the coordinator through `CompilationLedgerPort`; compare-and-set on the revision | slots and money are neither leaked nor double-booked; final states stay; what is stored can be restored |
| Compilation coordinator, `coordinator.ts`, `ports.ts` | one stored operation, written by compare-and-set; local variables of each running call | compile, recovery, the phases of `#run`, the catch clause, convergence, reconcileCleanup | ledger, admission, cleanup, ingress, sandbox, verification and broker ports | the artifact leaves only after certain deletion and payment; one sandbox; outcomes are final and true |
| Run services, `runs/*.ts` | quota counter, a lifecycle record, a timer and an event loop per run | start (audit, fix), message, create, resume, interrupt, approval decisions | store, agent runtime, delivery | each run ends once, gives its slot back once, and its turn is never left without a supervisor |
| Operational store, `db/index.ts` | SQLite rows of runs, executions, approvals, conversations, sessions, events, idempotency keys | checkpointRun, markExecution, approvals, close, recoverInFlightRuns, executeIdempotent | every service | rows that belong together end together, also over a restart |
| ACP agent runtime, `agent-runtime/acp/index.ts` | sessions, descriptors, bounded event queue, pending permissions, turn generation | createSession, resumeSession, startTurn, interruptTurn, resolveApproval, stop, overflow, eviction | the agent process over stdio; run services through events | one turn per session, one terminal event per turn, expiries before it |
| Studio sessions, `studio/session.ts`, `capability.ts` | sessions with two deadlines, a journal, variants, a compile intent; one lock per session | create, command, undo, redo, variants, compile, get, events | worker admission, target detection | one compile of one frozen variant, whatever expires or moves while it is admitted |
| Compilation routing, `compilationRouter.ts`, `compilationRoutingRoutes.ts`, `projectTargetDetector.ts` | none between requests; reads at different instants | detect, resolve, list routes | the repository, worker evidence | what is detected can be routed while it is current |
| Sandbox provider, `studio/providers/vercelSandboxProvider.ts`, `workerProvider.ts` | leases, quarantine, reservations of calls, a window | admit, release, reconcile, expiry | admissions; the Vercel API | no sandbox that may exist is forgotten; what deletes it stays paid for |
| Sandbox facade, `studio/providers/vercelSandboxSdkFacade.ts` | authorized sessions, replay leases, `createAttempted` | authorize, create, execute, cleanup | coordinator; the Vercel SDK | a session acts on its own sandbox only; clean means gone |
| Event stream, `events/index.ts`, the event route of `app.ts`, the reader of the application | subscribers with bounded queues; cursor, phase, reconnections | publish, subscribe, replay, heartbeat, reconnect, reload | store and run services; HTTP | no gap the reader cannot see; it settles or says that it failed |
| Replayed commands, `app.ts`, `requestPolicy.ts`, `db/index.ts` | a table of answers by key | executeIdempotent(Async), the retrying client | every command route | one effect, the stored answer |
| Delivery, `workspaces/projectDelivery.ts` | none; the checkout and the origin | admit, push | fix runs, git | a push lands on what was admitted |
| Project catalog, `projects/localStudioProjectCatalog.ts` | the list, its file | connect, clone, archive, restore, disconnect, load | Cockpit, GitHub source | what is saved can be loaded |
| GitHub source, `projects/githubProjectSource.ts` | binding, setup states, candidates | setup, status, list, select, disconnect | GitHub, catalog | only the bound installation is readable |
| Operator workspace, `operator-workspace/index.ts` | sessions, tokens, pseudo-terminals | create, attach, output, heartbeat, close, sweep | browser sockets | every living terminal can be reached |
| AI readiness, `ai-readiness/index.ts` | shared scans, permits | evaluate, the validator | projects route | a complete scan is shown as it is |
| Project context, `projectContextGenerator.ts` and its route | bundles, a shared refresh | refresh, read, staleness | members, repository | a refresh answers with what its asker could see |
| Everything else: capability store, Studio HTTP routes, the Codex runtime, workspaces and their cleanup, process entry, authentication, GitHub client, previews, health, the Flutter screens, the site | request handling, files, caches, user interface | | | not modelled, see section 7 |

What is hard here: several runner processes on one operation, calls whose reply
is lost or comes after their time limit, crashes between an effect and its
record, an anchor that any other job makes stale; in the managed runs, five
independent endings of one run (events, timer, user, failed event stream,
restart) over one bounded queue of events, and two resumes of one session at
once; and, in the smaller services, a value read before an `await` and used
after it. `PROJECT.json` lists each hazard at its line with the properties that
watch it, or why none does.

## 2. The modules

| Module | Models | Composed with |
|---|---|---|
| `JobReservation` | abstract: what the ledger promises to one job | implemented by `BudgetLedger`, used by `Coordinator` |
| `BudgetLedger` | `CompilationBudgetLedger`, every method | refines `JobReservation` for every job |
| `CompilationOutcome` | abstract: what the coordinator promises to its client | implemented by `Coordinator` |
| `Coordinator` | `CompilationCoordinator`, any number of runner processes | its ledger port takes the actions of `JobReservation` |
| `RunLifecycle` | `runs/*.ts`, the rows of `db/index.ts` and the sessions of the ACP runtime they share | |
| `TurnStream` | abstract: what the loop of a run service may hear of a session | implemented by `AcpRuntime` |
| `AcpRuntime` | the ACP runtime: objects, ids, queues, turns, permissions | |
| `SandboxProvider`, `SdkFacade` | the two layers over the Vercel API | |
| `EventStream` | table, hub, route and reader of a conversation's events | |
| `StudioSession`, `CompilationRouting`, `ProjectCatalog`, `GitHubSource`, `CommandReplay`, `Delivery`, `OperatorSessions`, `AiReadiness`, `ProjectContext` | one service each | `MCServices` |
| `MC...` | instances for TLC | |
| `CoordinatorPromise`, `...Proofs` | theorems about the module they are named after | |
| `ServicesProofs` | theorems about the nine services and `EventStream`, a section each |  |

### BudgetLedger

Each method is a compare-and-set that throws and changes nothing or applies one
whole transition, so it is one action: `Reserve`, `RetryBeforeCreate`,
`ObserveCreate`, `Retain`, `SettleCertain` and `SettleUncertain` (the two ends of
`settle`), `Release`, `ReconcileCleanup`, and `Restart`, which is `restore` of
the ledger's own snapshot. The code refuses to reuse an id with other contents,
so what a reservation or a receipt carries is a constant function of its id
(`Request`, `Usage`). `live`, `created` and `quarantined` are the code's indexes
and are kept apart from `state`, because whether they agree with the records is
the question. Money is in whole units; digests, formats and the FX arithmetic are
abstracted to the outcome of their checks.

### Coordinator

`op` is the stored record; `local[p]` is what a process holds between two awaits:
the call it is in (`pc`), how it got there (`mode`: the straight run, the catch
clause, a recovery) and its local variables. A port call is two steps, the effect
(`Effect`) and the reply, with `Fail`, `Timeout` and `Crash` between them; a call
that timed out stays in `late` and may still take effect, be dropped, or be
undone by the code's `onLate` callback (`LateEffect`, `LateUndo`, `LateAnswer`).
`OtherJob` moves the revision of the ledger, which is the anchor every ledger
call must name. Digests, capabilities and evidence are whether their check
passes.

### RunLifecycle

One tenant of one runner process. The store's rows (`run`, `execution`,
`approval`, `conversation`, `bound`, `latest`) survive `Restart`; the quota
counter, the services, loops, timers and sessions do not. JavaScript runs to
completion, so whatever a promise job can do (`Consume`, `TimerDone`,
`StreamStopped`) happens before the next request, timer or reply of the agent is
looked at: the guard `Quiet`. `Finalize` is the `#finalize` of the three
services with its `finalized` flag. Left out of it: the pre-flight of an
execution (the only provider accepts everything), failures of store writes
outside the event loop, and what `AcpRuntime` models.

### AcpRuntime

An object is one `AcpSession`: a child process, a queue, a turn with its pending
permissions, the stop of a turn. The maps of the runtime go by the agent's
session id, which two objects can be on their way to: `Opened` registers, closes
or replaces as the code does after its awaits. The limits (queue, events of a
turn, permissions, sessions, descriptors) are constants small enough to be met,
each with the overflow it causes. A listener's loop takes an event whole
(`Persist`) or fails to store it and stops; what it heard is `heard`, which
`HeardInOrder` shows to be a `TurnStream`.

### SandboxProvider and SdkFacade

The provider's `admit` is a job with a program counter: preflight, probe,
creation, verification and lease, each call paid from the window it reserved
before creating. Releases, expired leases, late creations and `reconcile` run
beside it on the same names. The facade's session has one execution and one
cleanup; the provider side is what lies under a name and which create call made
it (`by`), which the code knows by the tags of its binding.

### EventStream

The server's half is the table (`ends`), the hub's bounded subscriber and the
route, which lists a page, then hands on live frames, beats every half minute of
silence and closes; the client's half is the provider's phase, its reconnections
and what it has seen. `Strict` says whether the reader refuses a frame without a
cursor: the application does, and the module keeps both so that the properties
are not about the heartbeat alone.

### The nine services of MCServices

They share no state, so `MCServices` starts with a `focus` and lets that service
move: the reachable states are the sum of theirs and no interleaving is lost.

- `StudioSession`: operations take the session's lock; creation and compile hold
  it over awaits, during which deadlines pass and readers without a lock go on.
- `CompilationRouting`: each read of a manifest is a step and may find other
  contents; worker evidence has an interval of validity.
- `ProjectCatalog`: each request changes the list and saves it, or fails to save.
- `GitHubSource`: a call captures its installation, waits, and tells the catalog
  afterwards; `raced` names the installations such a late answer can speak for.
- `CommandReplay`: attempts of one command, the callback between the look-up of
  its key and the storing of its answer, errors and crashes in between.
- `Delivery`: every git command is a step, and others push and rewind in between.
- `OperatorSessions`, `AiReadiness`, `ProjectContext`: see their headers.

## 3. What the runs check

| Run | Question | Bounds |
|---|---|---|
| `ledger` | Can any order of calls leak or double-book a slot, revive a final reservation, or (once creations are observed) make a ledger that cannot be restored? Does each job see a `JobReservation`? | 5 reservations of 4 jobs, 2 slots, ceiling 6, 9 transitions |
| `coordinator` | Egress only after certain deletion and payment, one sandbox, slot held while a sandbox lives, final outcomes, `CompilationOutcome` | 2 processes, 2 faults anywhere, generation 2 |
| `coordinator_decided` | Does an operation end, and does a stored release stand? | 2 processes, 1 fault, generation 3 |
| `lifecycle` | Are slots, turns, executions, approvals, pushes and conversations kept in step, whatever ends a run? | 3 runs, 3 conversations, quota 2, 1 mishap |
| `lifecycle_ends` | Does every running run end? | a fix and a message in one conversation, 2 mishaps |
| `runtime` | Is every permission answered or expired, is a stop heard, is what is heard a stream of whole turns? | 2 objects, 2 ids, queue 2, 3 events a turn, 1 pending permission, 2 turns, 1 mishap |
| `sandbox` | Is a sandbox that may exist always leased, quarantined or under way, and its deletion paid for? | one name asked for by 2 admissions, one stray sandbox, 11 calls |
| `facade` | Does a session touch its own sandbox only, and is clean final? | 2 sessions with one name, 3 replay leases, 2 commands, 5 calls, one create call of a session at a time |
| `events` | Is a gap always visible, and does the reader settle or fail? | page 2, 2 reconnections, 4 events, 2 faults |
| `services` | The properties of the nine services | header of `MCServices.cfg` |
| `lifecycle_slot`, `events_heartbeat` | a statement of the documents that the code does not keep | as above |

Why the bounds are enough. In the ledger the jobs are chosen so that each pair
collides on exactly one resource (tenant, ceiling, slots), one job has both
attempts, and 9 transitions are two whole lives of a reservation interleaved; the
proofs remove the bounds. In the coordinator two faults are enough for a failure
inside the handling of a failure, and two processes for one overtaking another;
the third generation is a recovery of a recovery. In the run lifecycle two runs
of one conversation and a third beside them reach the quota, a message while a
fix is pushed, and a busy project; one mishap is a restart or a lost event at any
point. In the runtime two objects are two resumes of one session or two sessions
beside the limit of one; every limit is met. In the sandbox provider the second
admission of a name is the retry whose predecessor may still be at work, and 11
calls close the window in the middle of either. In the facade five calls are too
few for one whole life, so that a lack of calls meets every phase, and two
sessions of one name are what the ownership checks are for; the proofs remove
these bounds. In the event stream four events overflow a page and a subscriber.
Each of the services has the two actors its hazard needs.

Every property has a mutant in `PROJECT.json`: a plausible slip in one mapped
definition (`Bad...`, written before the definition it varies) under which TLC
finds the property violated.

## 4. Statements the code does not keep

Two are runs, because a document of the repository says otherwise:

1. `lifecycle_slot` (`SlotReturned`): an audit refused because its project is busy
   keeps its slot; as many refusals as the quota stop the tenant until a restart.
2. `events_heartbeat` (`FailedByAFault`): the application reads a heartbeat as an
   event, throws, and after its reconnections shows a quiet conversation as failed.

The others are stated in their modules and not run; TLC refutes each when it is
added as an INVARIANT to the configuration of the module:

| Statement | What happens |
|---|---|
| `SurvivesRestart` (`BudgetLedger`) | a reservation retained before its creation was observed makes `restore` reject the ledger's own snapshot |
| `CommitmentWithinCeiling` (`BudgetLedger`) | `reserve` leaves charges of settled jobs out of the ceiling |
| `ExpiresOnceSettled` (`BudgetLedger`) | a reservation retained and then settled leaves the ledger uncertain for good |
| `StoredReadable` (`Coordinator`) | the catch clause can store a record the coordinator refuses at every later load |
| `OrphanReconcilable` (`Coordinator`) | a sandbox whose admission receipt is refused runs on, named by nobody |
| `QueuedIsServed` (`RunLifecycle`) | a restart leaves a queued run queued, and its conversation can never be closed |
| `TurnReachable` (`AcpRuntime`) | the second of two resumes replaces the object on which a turn is already on: nothing can interrupt that turn |
| `ReconcileReturned` (`SandboxProvider`) | the deletion that is tried again keeps the reservation of the reconciliation that failed, and the next one cannot be reserved |
| `DisconnectHolds` (`GitHubSource`) | an answer that was waited for during a disconnection makes the projects readable again; a label that changed even binds the installation again |
| `ExactlyOnce` (`CommandReplay`) | an error or a crash between the effect and its answer lets the retry have it again |
| `EvaluationsShown` (`AiReadiness`) | a truncated scan that passed all six checks is refused by its own validator |

Two more appear when an instance is not that of its run. `CleanIsGone` fails
with two create calls of one session at once (`Creation = {k1, k2}`): both pass
`createAttempted`, which is set only after the payment and the loading of the SDK,
and the second sandbox outlives a cleanup reported clean; the coordinator makes one
call at a time. `Reloads` fails with a second clone of one GitHub repository
(`localStudioProjectCatalog.ts:256`), where the two entries get one id, and with a
folder without a GitHub origin whose path makes no `owner/name` (`:266`), say one
with a space: `#load` asks for a full name, `connect` does not, and the next start
refuses the file that was saved.

Reachable, and against no statement of the repository: a message refused beside an
active turn becomes the newest run, which `interrupt` then looks at
(`conversation.ts:258`); `message` accepts a closed conversation
(`conversation.ts:115`); a push whose answer is lost is recorded as rejected
(`projectDelivery.ts:70`).

Left out of the list of hazards and not modelled: a late reserve undone by a
`ledger.release` the ledger refuses is modelled and harmless to the properties
(`coordinator.ts:380`); an error of `broker.revoke` ignored by a recovery (`:229`);
checkpoints that throw in `finalize` (`conversation.ts:159`) or right after
`startTurn` (`audit.ts:216`), since store writes outside the event loop succeed in
`RunLifecycle`.

## 5. Fairness

Safety is checked without fairness. Liveness assumes only what the code's own
scheduling gives:

- `coordinator_decided` (`FairSpec`): a process that is not dead goes on (`Step`),
  every port answers or times out (`Port`: `withTimeout` bounds each call), and a
  client asks again while the operation is running (`Compile`; nothing in the
  runner recovers an operation that nobody asks for). Crashes, faults and late
  effects are not fair: they may never happen.
- `lifecycle_ends`: promise jobs run (`Consume`, `StreamStopped`, `TimerDone`), an
  armed timer fires, and `#stopTurn` ends, since its cancellation, its grace
  period and the kill of the process are all timed. The agent, a push, the user
  and session creation have no fairness: they may stay silent for ever.
- `runtime` (`FairSpec`): promise jobs run (`Persist`, `StreamEnds`) and a stop
  ends (`StopEnds`), for the same reasons. The agent's answers are not fair.
- `events` (`StreamSpec`): the runner answers a request and writes what it has
  (`Open`, `SendListed`, `SendLive`), half a minute passes (`Heartbeat`, `Quiet`),
  and the reader's timer fires (`Reconnect`). The user and the faults are not fair.

The exception in `Decided` is real: after the artifact was released, another job's
ledger transition makes the stored anchor stale, and the operation can neither
release nor reconcile.

## 6. What is proved

`BudgetLedgerProofs` proves, for every set of ids, every ceiling and every limit
that satisfies `LedgerAssumption`, the type invariant and the safety and action
properties of the run `ledger` listed under `theorems`, and that the ledger
implements `JobReservation` for every job (`RefinesJobReservation`).

The properties are not inductive as they stand. `IInv` adds to them:

- `KnownFinite`: only finitely many ids are in use, needed to count slots;
- `AttemptsDistinct`, `RetryHasFirst`: what makes a new reservation of a job meet
  retired ones only (`ReserveMeetsRetired`, `RetryReplacesTheOnly`): an active
  one would hold the tenant's slot, a settled one would be in `created`;
- `CreatedSound`, `ReceiptsSound`: the `created` index and the receipts agree with
  the records, which is what `restore` compares.

One lemma per action shows `IInv /\ Action => IInv'`; `SameKnown` and `NoNewSlot`
carry the parts that an action moving one known reservation cannot disturb.
`Inductive` combines them, and each theorem follows from it.

`RunLifecycleProofs` proves five invariants of the run `lifecycle` for every set
of runs, conversations and projects, every quota and any number of mishaps that
satisfy `LifecycleAssumption` (an audit or a fix has a conversation of its own,
and only finitely many runs exist). Three inductive invariants carry them:

- `IInv` relates the command that serves a run to its rows: `ServiceMatches` says
  in which states the run and its execution are while the command opens its
  session, while the turn runs and after the end. It is what makes
  `ExecutionFollowsRun` inductive: `checkpointRun` refuses illegal transitions,
  and `ServiceMatches` shows that no `#finalize` meets one.
- `KInv` adds the slots and the conversations. `SlotsKept` needs that a run gives
  its slot back only when it leaves the set of served runs (`GiveSlot`, with the
  cardinality lemmas of the library); `ServedIsOpen` needs `ServiceMatches`,
  because `closeConversation` looks for queued and running rows, not for services.
- `TInv` adds, as long as every event could be persisted, who reads the events of a
  session and what is left of them (`Watched`): while a turn is on, its own run and
  nobody else, with its timer armed and no end of a turn in the queue; between turns
  nobody, or one run that still has one end to read. It is what `TurnSupervised`
  needs: a message that takes over the conversation finds nothing of the turn before.
  `Newest` and `Awaited` are what the resumed turns and the sessions under way add.

`CoordinatorProofs` and `CoordinatorPromise` prove every safety property of the
coordinator, and that it implements `CompilationOutcome` (`KeepsItsPromiseHolds`), for
any set of processes, any bound on mishaps and any number of late calls. Four
invariants carry them:

- `OnceInv` (one sandbox): the one acquisition of an operation is in one place, still
  to be made or answered by the process that started it (`Early`), under way as its
  late call (`Awaits`), or over.
- `EndInv` (the outcome is final, the release stands): a process whose revision is
  the stored one works on an operation that has not ended; once `artifactReleased`
  is stored, whoever still works on the operation ends it as released.
- `PromiseInv`: what a process, a late call or a stored record knows of the ports
  (the sandbox was created, is gone, is paid for; the ledger let the job go) was true
  when it learnt it and is never undone, so acting on it late does no harm
  (`KnownInv`). A process that may save has no late call beside it (`RunAlone`), so
  no `onLate` callback withdraws what is being stored as released. With these each
  step of a port or of the record is a step of `CompilationOutcome` or stutters.
- `ReadInv`: what `#run` has taken over when it saves a phase is what
  `storedResult` asks of that phase when the record is loaded.

`RunningReadable` (a recovery can read what it has to recover) is proved only; its
counterpart for ended operations is refuted by the run of `StoredReadable`.

`SdkFacadeProofs` proves, for any sessions, names, leases and limits, that a lease
is accepted once, that a cleanup touches its own sandbox (`MadeByEnded`: what lies
under a name was made by a call that has ended; `ActsOnOwn`: what a cleanup holds
is its session's), and that clean is final. The last assumes `OneCreateCall`: its
invariant `CleanIsOver` says that all create calls of a cleaned session have ended.

`AcpRuntimeProofs` proves, for any objects, ids, limits and number of turns:

- `NoAskForgotten`, from what each session object is by itself (`Coherent`): the map
  of pending permissions is empty unless a turn is on that is neither stopping nor
  overflowed, and what a stop has taken out of the map it holds until it answers.
- `HeardInOrder`, that what the loop of a run service hears of each object implements
  `TurnStream`. The invariant compares the object with its loop: the queue can be
  heard one event after the other (`Hearable`), and once it is heard the loop knows
  the turn that is on and its requests (`Linked`). The delicate steps are the ends
  of a turn: an expiry that does not fit in the queue becomes an overflow, whose stop
  empties the queue and leaves the expiries it still holds, and the end, in it.

The helpers that emit one event for each permission are written in closed form in
`AcpRuntime` (the events that fit, then those that do not), so no fold and no
induction stands between them and the proof.

`SandboxProviderProofs` proves `NoSandboxForgotten`, `NameIsFree` and `CleanupIsPaid`
for any admissions, names, and limits of calls and time. The invariant adds that one
caller at a time spends the reservation of a name (`Alone`), and what is left of it at
each stage of a lifecycle (`Paid`): the two calls that stop and delete always are.

`ServicesProofs` has a section for each of the small modules:

| Theorem | States | What its invariant adds |
|---|---|---|
| `CommandsHaveOneEffect` | `EffectOnce` | every effect is stored, was cut short, or waits in the one callback under way (`OneCallback`, `Accounted`) |
| `ReadableIsBound`, `StateUsedOnce` | `ReadyIsBound`, `SetupOnce` | of which installations an answer can still come (`WaitsOnBound`); a setup state is unused, used by one call, or over (`StateAccounted`) |
| `PushesOntoAdmitted` | `DeliversOntoAdmitted` | after the fetch of a push the origin is a beginning of what was fetched, followed by commits the checkout does not have (`Fetched`) |
| `SavedCanBeLoaded` | `Reloads` | the list shown and the list saved are both good (`Good`): ids and identities occur once, one project is the default and is not archived |
| `EvidenceIsTaken` | `DetectedIsRoutable` | the window of time and the marks a reading still in progress has collected (`ReadingOK`) |
| `FullScansAreShown` | `CompleteScansShown` | nothing: scanner and validator agree on every snapshot (`ReadinessNextHolds`) |
| `NoTerminalIsLost` | `TerminalsReachable` | one stored session per operator, and a living terminal is stored (`OneOwned`, `AliveIsStored`) |
| `EditsAreSeen` | `RefreshSeesEdits` | what types say of the collection under way (`ContextTypeOK`) |
| `AttemptsAreKept` | `OneAttempt` | what was attempted is frozen or closed, and its maker is known (`AttemptHeld`, `AttemptFrozen`) |
| `NothingIsMissed` | `GapFree` | the page and the queue of a stream are, in order, what the reader still misses (`Contiguous`) |

`SavedCanBeLoaded` has two hypotheses about the disk, which the code does not
enforce, and without either of which `Reloads` fails (section 4): `OneCloneEach`, no
repository is cloned twice, and `EveryPathNamed`, the path of a folder without a
GitHub origin makes a full name. The instance of the run `services` satisfies both.

Only model-checked: the liveness properties `Decided`, `RunEnds`, `StopIsHeard` and
`ShownOrFailed`, whose proofs need fairness and `ENABLED`, outside the prover. Every
other property of a passing run is stated by a theorem listed under `theorems`.
`SnapshotAccepted` of `BudgetLedger`, which no run checks, compares sums over sets:
folds, and so induction over data.

## 7. Not modelled

- The capability store and the Studio routes: single-use capabilities are failures
  of the phase calls in `Coordinator`; the routes parse and answer.
- `agent-runtime/codex`: a second runtime of the same interface; `main.ts` starts the
  Codex agent through the ACP runtime.
- `workspaces/index.ts`, `workspaces/cleanup.ts`: git worktrees on disk and their
  records. A crash between the two would be a module of its own.
- Process entry, authentication, the GitHub client, skills, health, observability,
  activity review, previews: without state of their own, or input and output.
- The Flutter application, but for its reader of events, and the site.

Within modelled parts: failures to save the GitHub binding; the editor proxy of the
operator workspace; memberships, cleanup records and audit tables of the store.

## 8. Plan

Done: the ledger, the coordinator, the run lifecycle, the ACP runtime, both layers of
the sandbox, the event stream and the nine services, with the proofs of section 6.
Next, in this order:

1. `RunLifecycle` on top of `TurnStream` instead of its own queue.
2. A module of the workspace cleanup, with crashes between git and its records.
3. The capability store as a port of the coordinator.

## 9. Running

In this directory: `tlc -workers 2 -config MCRunLifecycle.cfg MCRunLifecycle`
checks a configuration (the pairs are in `PROJECT.json`; `services` is the longest,
under a minute), and `tlapm SdkFacadeProofs.tla` the proofs of a module.
