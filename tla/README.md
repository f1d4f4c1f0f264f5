# Verification of the Native LLM Platform gateway

TLA+ models, TLC runs and TLAPS proofs for the gateway: a Go program that puts
an OpenAI-compatible API, multi-step *flows* over LLM runtimes, conversation
memory, and signed remote configuration in front of runtimes that run on the
customer's own machines. Everything persistent is a file; there is no database.

Paths are those of the repository. Every definition that stands for code is
listed with its lines in `PROJECT.json` under `map`.

## 1. The system

| part | source | state | operations | what is hard | what makes it correct |
|---|---|---|---|---|---|
| Workflow run execution | `platform/workflow/service.go`, `run.go` | runs with status, steps, attempts, usage; idempotency table; semaphore of `max_concurrent_runs`; done channels | StartRun, execute, runStep, attempt, failRun, finishInterrupted, CancelRun | one goroutine per run, callers and cancels beside it, a deadline, failing writes | a settled run is final and closed; slots are neither lost nor returned twice; a step that was answered or timed out is not sent again; every opened run ends |
| Flow store | `platform/workflow/store.go` | metas in memory; `draft.json`, `meta.json`, `v<N>.json` per flow | Create, UpdateDraft, Publish, SetStatus, ResolveAlias, GetVersion, open | crash between two writes; validation and freezing in two critical sections; a second store over the same files after a hot reload | versions are immutable, only validated definitions run, nothing answered is lost (while one store writes) |
| Run events and SSE | `platform/workflow/run.go`, `gwcore/workflow_api.go` | event log, subscribers, channels; a handler per connection | Emit, Subscribe, streamWorkflowRun | sends outside the lock that drop; reconnects | each event once, in order; streams end |
| Run store recovery, hot reload, retention | `run.go`, `cmd/private-gateway/main.go` | `runs/<day>/<id>.json` | OpenRunStore, Sweep, applyPlatform | two stores over one directory | a run shown as open is being executed |
| Orchestrator | `platform/orchestrator` | queue and semaphore, cancel table | Execute, stream, Cancel, failover, commitTurn | timeouts against late answers, failover | bounded queue, no second inference after a timeout |
| Pool, connector, model manager | `platform/pool`, `platform/connector`, `platform/modelmanager` | inflight counters, health, breaker, drain flags | Acquire/Release, Order, probe, Drain/Resume | racing probes and releases | counters return to zero, drained means unused |
| Conversation memory | `platform/memory` | conversations with version, messages, seen requests | AppendTurn, GetOrCreate, ReplaceWithSummary, Delete, Sweep | retries, concurrent turns, background summary, a second Store with locks of its own after a hot reload | no turn lost or doubled (while no two Stores tear a file) |
| Gateway server, proxy, platform route | `gwcore/server.go`, `proxy.go`, `platform_adapter.go`, `auth.go`, `audit.go` | current configuration, authenticator with rate windows, audit lines | withAuth, routeInference, proxy failover, SetConfig | the configuration is replaced between any two checks; failover after timeouts | what must stay on site stays, nothing is sent after a timeout, one line and at most one count per request, with the status the client was told (platform streams excepted) |
| Workflow HTTP API | `gwcore/workflow_api.go` | a watcher per started run | start, get, stream, bill | retries, lost answers, a Service replaced meanwhile | every run is billed once |
| Agent, import, administration | `gwcore/agent.go`, `import.go`, `admin.go` | credential, generation files, marker | register, fetch, verify, store, acknowledge, import, edit | crashes between files, lost answers, two writers | never an older or unverified configuration |
| Usage accounting | `gwcore/usage.go`, `agent.go` | counters | add, Drain, Restore, upload | refused reports, lost answers | no row lost while the process lives |
| Upgrade | `cmd/private-gateway/upgrade.go` | compose file, state file | upgrade, rollback | crash before the state is saved | rollback goes to a version that ran |
| Flow definitions, templates | `flowdef.go`, `template.go` | none | Validate, ValidateInputs, RenderTemplate | checked at publishing, rendered at run time | what was accepted renders |
| Signatures, licences, tokens, static configuration, discovery, metrics | `sign`, `token`, `platformcfg`, ... | none | verify, parse | none of a protocol | not modelled |

How they interact: an HTTP handler (or the OpenAI-compatible chat with
`model: "flow:<alias>"`) calls `Service.StartRun`, which resolves the alias in
the flow store, records the run in the run store and starts `execute` in a
goroutine. That goroutine calls the orchestrator (`Exec`) for every attempt of a
step; the orchestrator picks deployments from the pool and calls them through a
connector. The goroutine reports through `RunStore.Update` and `Emit`; SSE
handlers subscribe to the latter, the sync handler waits on the done channel.
`CancelRun` reaches the goroutine through the run's `cancelFn` and the runtime
through the orchestrator's cancel table. A new configuration, by the agent, an
import or the administration API, replaces the platform as a whole: a new one is
built, with stores, locks, limits and tables of its own over the same directory, while
the one before still answers until it is replaced (`main.go:190-202`), and its goroutines
and calls go on until they end. The run stores of two platforms are the subject of
GatewayRuns, the flow stores of FlowReload, the locks of conversations of MemoryReload.
WorkflowRun and Orchestrator are about one platform: two have two semaphores and two
queues, so for as long as calls of the one before are left, twice the limits may be in use.

The hazards this leads to are listed line by line in `PROJECT.json`.

## 2. The modules

### WorkflowRun (`service.go`, `run.go`)

One `run` per StartRun call. A call goes through lookup of its key (`IdemCheck`),
`AcquireSlot`, `Create` or `CreateFails`, `IdemRecord` and `Spawn`; after that its
`execute` goroutine goes through `ExecuteBegin`, per step `OverBudget` /
`BudgetExceeded`, `RenderTooLarge`, `BeginStep`, then per target (the step's pool
and its fallbacks) and attempt `FirstAttempt`, `ExecReturns` (every outcome of
`attempt`, chosen freely), `Retry`, `ToNextTarget`, to `CompleteStep` or
`FailStep`, and out by `CompleteRun`, `FailRun` or `FinishInterrupted`;
`EmitTerminal`, `CloseDone` and `ReleaseSlot` follow. `CancelRun` and `Deadline`
may come between any two of them. A critical section of `RunStore.mu` is one
action; what the code does between two sections is a step of its own, since
others run there. The status read of `finishInterrupted` outside the lock is
such a step (`Interrupt`).

Abstracted: texts (a payload is a model value compared for equality), times (the
deadline and the key's expiry may strike at any moment), step inputs.

`RunContract` is what a caller may rely on, in four variables: a run is opened,
settles once, is announced, and its slot comes back. `WorkflowRun` implements it
(`ImplementsContract`, and with fairness `ContractLiveness`); the refinement
mapping at the end of `WorkflowRun.tla` reads the slots off the program counters
(`SlotHolders`), the outcome off status and goroutine (`RunOutcomes`) and the
announcement off the done channel (`AnnouncedRuns`).

### FlowStore, FlowReload (`store.go`, `main.go`)

A flow is a meta in memory and three kinds of files. The lock is held for a whole
operation, writes included, so an operation is one action; each action has, beside
success, a disjunct for every write that fails (`Fails`: the error is returned
with what was written and assigned so far) and for every point at which the process
dies (`Dies`: the files written so far stay, the memory is gone). `PublishFlow`
and `StartRun` take the lock twice and are two actions with a `client` record for
what they carry over. `Reopen` is `OpenFlowStore`. `Damage` alters a published
file from outside; the checksum stays.

FlowStore is one store. FlowReload sets the store before beside it (`Old`, an instance of
FlowStore with the same files and another memory, `old`, and other calls, `late`): `Reload`
is what `applyPlatform` does, the new store reads the directory and the store before keeps
its memory; `NewestStep` and `LateStep` are steps on the one and the other. As long as the
store before only reads, or ends calls that are past their use of its memory, nothing is
lost. When it writes or answers, or binds a run by a meta that the newest has differently
(`BoundByOld`), `crossed` is set, and the model ends: two locks over one directory no longer
make an operation one step. All properties are about what comes before (section 4 says what
comes after).

`FlowContract` is what the store promises to those it answers, in five variables: the
answered drafts, versions and retirements, what was executed, and the version each
StartRun call is bound to. Revisions and versions are answered once and in ascending
order, nothing is answered or bound of a flow whose retirement was answered, and a version
has one content, whether it was published or executed; all this until the store before
crosses the newest, when the contract lapses. FlowReload implements it
(`ImplementsFlowContract`); memory and files are invisible in it, a crash ends calls.
A version that was never answered may be bound and executed: a crash can leave one
(section 4).

### RunEvents (`run.go`, `workflow_api.go`)

The log of one run. `AppendEvent` is the locked half of `Emit`; each send to a
subscriber is an action (`Offer`) after it, so two emitters may overtake one
another, and a full channel loses the event (`Send`; `lost` remembers which, until a
`Subscribe` replays it: `After` is what comes after Last-Event-ID). A handler is
`Subscribe`, `WriteReplay`, `GoLive`, `WriteLive`, and ends with a terminal event or
`Disconnect`. A client keeps the id it received last and comes back with it.

### Orchestrator (`orchestrator.go`, `pool.go`, `connector.go`, part of `manager.go`)

Calls of `Execute` and `ExecuteStream` with what they share: the channels `queue` and `sem`,
the pool's nodes and one breaker per connector. A call is `Enqueue`, `TakeSem`, `LeaveQueue`
(or `GiveUp`), `Prepare`, then per candidate `NextCandidate`, `Acquire`, `BreakerGate`,
`Send`, an outcome (`TransportError`: not reached, reset after the runtime took the request,
or timed out; `Respond`, or `Headers` and `Body` for a stream), `Release`, and at the end
`Leave`. Each channel operation and each critical section of the pool or a connector is one
action. Beside the calls run health probes (`Probe`), an administrator (`Drain`, `Resume`),
the clock (`CooldownPasses`) and the ends of contexts. `last` is the local `lastErr`, kept
for an attempt that succeeded too.

Abstracted: bodies and latencies (`Order` allows every ranking of live nodes, the
sticky one included), policies (`Prepare` allows any non-empty set of deployments), and
the several errors that the loop treats alike (`Outcomes`).

WorkflowRun sees all of this as the outcome of one attempt (`ExecReturns`).
`Deadlined` are the calls whose caller gave a context with a deadline, as the Service
does for its steps: they may end by it at any moment, the others only while a runtime is at work.

### WorkflowInference (`service.go`, `orchestrator.go`, `platform.go`)

WorkflowRun with Orchestrator in the place of its runtime (`Orch == INSTANCE Orchestrator`).
An attempt of a step, known by run, step, target and number, is one of the calls of
Orchestrator, made while the goroutine of the run is inside `attempt`: `AttemptStep` is a
step of that call, `AttemptContextEnds` the end of its context (by the run's CancelRun or
deadline, or by the deadline of the step), `AttemptReturns` the return to `runStep` with
one of the codes that `CodeOf` allows for what became of the call. `ContextFollows` says
that the context of an attempt is derived from the run's. The calls in `Direct` are those
of other clients, through `Platform.Execute`; everything else the Service does
(`ServiceStep`) leaves the orchestrator alone. WorkflowRun lets an attempt answer anything
at any time; here the answer comes from the call, and both components retry.

### ConversationMemory, MemoryReload (`memory.go`, `context.go`, `summary.go`, part of `orchestrator.go`)

One managed conversation. A call is `Open` (`GetOrCreate` in `prepare`) and, after an
inference, `Commit` (`commitTurn` with `AppendTurn` and `scheduleSummary`) or
`CommitFails`; a summary job is `JobRead` and `JobReplace`. Each holds the
conversation's lock once, so each is one action, and anything may come between two of
them: the other call, the other job, `Expire`, `SweepExpired`, a `Restart`. A new
conversation of the same id starts at version 1 and sequence number 1 again; `births`
tells the creations apart.

The lock belongs to a Store, and a hot reload opens another Store over the same files.
MemoryReload adds that: a section of another Store may have read the file before a write
(`inside`, with `base` and `lapsed` as what it has read) and ends with a write made of what
it has read (`SectionWrites`, by `Late`, an instance of ConversationMemory that sees `base`
for the file). Then the file is `torn`: the write in between is lost, and the model ends.
The properties are about files that are not torn.

Abstracted: texts (a message is its request, a summary the messages its text was made from),
the order of the lists (messages and summaries are sets, a message carries its sequence
number, by which the file lists them) and token counts (`Ranges` lets any number of the
oldest messages be over budget). `Delete` has no caller in the repository and is left out.

### FlowDefinition (`flowdef.go`, `template.go`, part of `service.go`)

One definition from `Publish` (`Validate`: unique identifiers, `depends_on` that names
earlier steps only, templates that refer to declared inputs and to steps they depend on;
`PublishDefinition`) over `StartRun` (`ValidateInputs`, or `SingleInputName` for a chat) to
the rendering of every step and of the output. A template is the set of its variables;
checks that look at one field alone are one flag.

### GatewayRuns (`workflow_api.go`, `run.go`, `main.go`, `usage.go`, `agent.go`)

The runs as clients and the control plane see them. A handler is `Post`, `Reuse` or
`StartRun`, then `Answer` (it waits for the end) or a later `Get`; `Settle` ends a run
(WorkflowRun looks inside it); `Watch` is the watcher that bills it. `Boot` and
`ReloadOpen`/`ReloadSwitch`/`ReloadOff` build platforms, each with a Service and a RunStore
of its own over the same files; goroutines of an earlier one go on until a `Crash`. `Drain`,
`Upload`, `UploadFails` and `UploadUnanswered` are the agent's usage report. A run is
named by the call that started it.

### GatewayRequest (`server.go`, `proxy.go`, `platform_adapter.go`, `auth.go`, `config.go`)

A request goes through `Authenticate`, `CheckRate`, `CheckClass`, `CheckMode` and `Route`
to the proxy (`Resolve` makes the list of attempts; then per attempt `Unreachable`, `Breaks`,
`TimesOut`, `Declines` or `Responds`; at the end `Relay` or `NoAnswer`) or to the platform
(`PlatformServes`, `PlatformStreams`, `PlatformDenies`, `PlatformFails`). Each reads the
configuration or the authenticator anew where the code does, and `SetConfig` may come in
between; so may `NewWindow` (the minute of the rate limit) and `ClientLeaves`.
A configuration is a record of the fields the request path reads; there is one key and
one logical model.

### ConfigSync (`agent.go`, `import.go`, `admin.go`, `server.go`, `main.go`)

The data directory (generation files, `config-current.json`, its version marker,
credential, token), `gateway.yaml` and what the process has in memory. The agent is
`Register`, `StoreCredential`, `RenameToken`, then `Wake`, `FetchNewer` or `FetchNothing`,
the five steps of `storeConfigGeneration` (`WriteGeneration`, `WriteCurrent`,
`TruncateMarker`, `WriteMarker`, `Prune`; `StoreFails` at each of them), `AgentSet` and
`AgentHook`. `Import` runs the same five steps, on a gateway without control plane; it is
a process of its own and can be killed. An administration call is `AdminClone`,
`AdminWrite`, `AdminSet`, `AdminHook`. SetConfig is two steps (`...Set`, `...Hook`)
since its hook runs outside the lock. `Boot` is `serve` up to the start of the agent.
What is signed in the other direction is an input: a generation in `Bad` does not verify.

### How the modules fit together

The Service and the orchestrator are composed, in WorkflowInference: the two together are
proved to run each of them (`SystemRunsService`, `SystemRunsOrchestrator`), so what is shown
of one holds of the whole. The other modules overlap at named steps: `StartRun` and `Settle`
of GatewayRuns are one life of WorkflowRun; the definition a run executes (`GetVersion`)
comes from FlowStore and was accepted by FlowDefinition; `SetConfig` of GatewayRequest is
what `AgentSet` and `AdminSet` of ConfigSync do, and `ReloadOpen` of GatewayRuns is its
hook. There are two formal abstractions, of what a caller sees: RunContract, which
WorkflowRun implements, and FlowContract, which the stores of FlowReload implement. Both
refinements are checked and proved.

## 3. The runs

| run | instance | shows |
|---|---|---|
| `run_deep` | 1 run, 2 steps, 2 targets, 2 attempts, budget, deadline, 2 cancels; fairness | the safety of one run's life; that a cancel which was heard stays; that it settles, is announced and gives its slot back |
| `run_start` | 2 calls, 1 slot, 1 key, 2 payloads, failing writes, expiring key | slots, answers, refinement of `RunContract` |
| `flow_crash` | 2 flows, 1 alias, 2 callers; failures, crashes, damage, reloads | until the store before crosses the newest: durability, one owner per alias, what is frozen is what was validated, refinement of `FlowContract` (immutability of versions is part of it) |
| `flow_definitions` | every definition of up to two steps, and chains of three, with every set of inputs | an accepted definition never meets a reference without a value |
| `events_streams` | 1 client that comes and goes and comes back after the end, a run of 4 plain events and its end, 2 CancelRun calls beside it, a channel of 2; fairness | once, in order, nothing missing but what the full channel lost, no leak, streams end |
| `orch_pool` | a call and a stream, 1 place to wait and 2 to work, 2 deployments, both at work at once, breakers that open at 1 failure, drain | places come back, inflight counters, nothing after a timeout, reopening of breakers |
| `wf_inference` | 1 run of 1 step with 2 attempts, 1 cancel, and a call of another client; 1 place to wait, 1 to work, 1 deployment, a breaker that opens at 1 failure; fairness | nothing is sent for a step that was answered or timed out, nor after a CancelRun has fired, and the run ends, so every Execute returns |
| `orch_failover` | 2 calls one at a time | **violated**: `FailoverOnlyIfUnanswered` |
| `memory_turns` | 2 calls at once with a summary job each, 2 requests sent any number of times, a conversation that remembers 1 request and is created twice; reloads | until the file is torn: turns follow what they answered (or a conversation created anew, at the same version), are stored once, and stay |
| `config_generations` | connected and air-gapped; 4 generations, the second does not verify; 1 administration call at a time; 1 fault anywhere; fairness | no silent downgrade, the current file is kept, a restart knows its generation, what the file says is served, the platform follows the configuration, the newest valid generation is reached |
| `runs_usage` | 1 request sent twice under one key, 1 slot, 2 platforms, 1 crash, 1 lost answer; fairness | usage is conserved, an open run is executed, runs are billed |
| `gateway_requests` | 2 requests of one key, 2 local runtimes and the cloud, 8 configurations, 1 SetConfig | nothing confidential leaves; one audit line (none for a malformed request) with the status the client was told, platform streams excepted, and a count exactly if an answer was passed on; nothing after a timeout |

Every property of a passing run has a mutant in `PROJECT.json`: a change of the
modelled code, of the kind a slip would make, under which TLC finds it violated.

### Bounds

Two steps are the fewest with a "before" and an "after"; two targets and two attempts the
fewest at which retry and fallback meet; two calls suffice for an interleaving of two
critical sections. Two revisions let one be overwritten, and two flows contend for an alias.
`flow_crash` has one version per flow (`MaxVersion` is 1; a second one left by a crash is a
matter of the proofs, which are for any number), and one store before the newest: the calls
on the store before the last have ended. In MemoryReload a section that is inside writes
next or harms nothing. In `events_streams` the channel holds 2 events (the code's hold 64),
fewer than the run emits, so that one is dropped for a client that falls behind; seven
events are enough to be received, lost, replayed and overtaken by two CancelRun calls within
one run. Clients do not meet: what happens to one depends on the others in nothing, so one
is enough for TLC, and the proofs are for any number.

In the orchestrator two deployments are the fewest to fail over between. `orch_pool`
lets two calls in at once and takes a threshold of 1, so that within two calls a
breaker opens, cools, is tried and opens again (the code's is 3). `wf_inference` has one
deployment and two calls, so that one waits for the place of the other and may be refused;
two attempts are enough to retry. Failover inside an attempt followed by a retry of the
Service needs a second deployment; that, two steps and any number of other calls are
covered by the theorems, which are for all values. `MaxRevision`,
`MaxVersion` and `NPlain` are bounds of the models without a counterpart in the code.

In `memory_turns` the first conversation gets to version 2 (one write), the second to 4
(three turns, or turns and summaries), which is enough for a call and a job that began in
the first to end in the second, for two jobs with overlapping ranges, and for a request
to be forgotten (`SeenLimit` is 1, the code's is 256) and stored again. The second
conversation does not expire: there would be none after it.

In `config_generations` four generations are the fewest at which pruning removes a
file (the current one and `LkgKeep` = 1 more stay; the code's `lkgKeep` is 2), with one that does
not verify among them; the one fault falls on any step. With two faults
`RestartKnowsItsGeneration` fails (section 4). In `runs_usage` the two sends are enough
for each to be the first, for the key to be known and for a reload or a crash to come
between them; two platforms suffice since a third one stands to the second as the second
to the first. `gateway_requests` takes configurations that are strict, hybrid, without the
model, with a disabled or restricted key, with the platform, and two that `Validate` must
refuse; one replacement separates the checks before from those after. The two requests are
interchangeable, as are the flows, callers and bodies of `flow_crash`; symmetry is used
in runs without liveness only. `MaxServices`, `MaxCrashes`, `MaxLost`, `MaxVersion`,
`MaxFaults` and `MaxApplies` are bounds of the models.

### Fairness

Weak fairness on the steps of goroutines that are runnable: the Go scheduler runs
them. A runtime call returns because its context ends at the deadline
(`ExecReturns`, `Deadline`). None on clients, cancels or key expiry. In RunEvents the
handler of a connected client is fair and the client is not. In
WorkflowInference the steps of a call are fair, the other client's too (`overallTimeout` of
the HTTP client ends every wait for a runtime, and a call that leaves frees its place), and so is
the end of an attempt's context once the run's has ended; cancels, deadlines that nobody
set off, probes, drains and clocks are not. There the return of Execute is not assumed as it is
in WorkflowRun (`ExecReturns` under the fairness of `RunnerStep`): it follows.

In ConfigSync a process that is down is started again (the service manager), the agent's
loop and an administration call that has begun go on, and of the fetches a newer
generation allows infinitely often one arrives (strong fairness: the poll is repeated by
a ticker, and each try may fail); faults, administrators and imports are not fair. In
GatewayRuns runs settle (WorkflowRun shows it), watchers look, the agent's ticker
drains and sends, and of the reports sent infinitely often one is answered. Nothing is
assumed of clients, reloads and crashes, and what a crash took is not promised.

## 4. What the models found

* **A broken answer is inferred twice** (run `orch_failover`): a body that breaks off while
  it is read ends the attempt with ErrInternalContract, and the loop over the
  candidates stops for timeouts only. If the next candidate cannot be reached, Execute answers
  "unavailable", and the Service retries the step as well (`service.go:541`).
  A connection that is reset after the runtime took the request is treated like one that
  was never made (`connector.go:146-150`): the loop goes on, the answer is "unavailable",
  and the Service retries. `NothingAfterAnswerOrTimeout` therefore says that nothing is sent
  for a step after an answer or a timeout; it does not say that no runtime has worked on
  the step before, and after a reset or a broken body one may have.

Seen in the models and left without a run of their own:

* Runs. A cancel of a QUEUED run is lost: `CancelRun` sets CANCELLING, finds neither a
  `cancelFn` nor a request, and answers; `execute` then writes RUNNING over it
  (`service.go:366`). No later cancel is: that Update publishes the `cancelFn`, and
  `HeardCancelStays` says that a cancel which found one stays. Two overlapping calls with
  one Idempotency-Key make two runs, since the key is looked up and recorded in two critical
  sections (`service.go:242`, `272`), and so does a repetition after a reload or a restart,
  since the table starts empty. A client can be told FAILED(interrupted) by the store of a
  new platform and COMPLETED later, when the old goroutine has overwritten the file. Two
  watchers start for two runs under one X-Request-ID, and each bills what it finds under
  that id (`workflow_api.go:137`): `UsageConserved` is stated and proved for `SameId =
  FALSE`.
* Flows. A crash between `draft.json` and `meta.json` makes one revision number name two
  drafts, and the revision is all `Publish` compares: a draft nobody validated can be
  frozen (`store.go:291`); `FrozenAsValidated` is therefore about calls that saw draft
  and meta agree. A crash between `v<N>.json` and `meta.json` leaves a version nobody
  published that can be started by its number (`store.go:324`) and that makes later publishes
  of that flow fail with "already exists".
* Flows after a hot reload. The metas and the lock of a FlowStore are its own ("単一プロセス前提で
  mutex 排他", `store.go:67`: one process is assumed, a mutex excludes; a reload
  makes two in one process). What the store before writes after the newest has read the
  directory is unknown to the newest: its next draft or publication overwrites the answered
  one or answers the same revision again, a flow that was retired there is still bound and
  published here, and an alias created on both has two owners on disk, so that no later
  `OpenFlowStore` succeeds (`store.go:101`) until somebody removes one. FlowReload ends at
  the first such step (`crossed`), and every flow property is about what comes before it. A
  `PublishFlow` that validates on one store ends on the same one; if that is the store
  before, what it freezes is beyond `FrozenAsValidated`.
* Flows half written. A crash or a failed write inside `CreateFlow` leaves a directory
  without meta, and the store does not open any more (`store.go:93`), at a start or a
  reload: `AliasHasOneOwner` says that this, and not a second owner, is what keeps it
  closed.
* Streams. A stream reopened after the last event never ends (`workflow_api.go:320`): the
  replay is empty and no event follows; so does one whose full channel lost the last event,
  until the client gives up. A client slower than its channel misses an event
  for good if a later one reached it, since it resumes after the last event it received
  (`run.go:305` says "再接続で追い付く", it catches up by reconnecting: it does only if
  nothing after the lost event was received). The events of a CancelRun can overtake those
  of the execute goroutine.
* Runtimes. A half-open breaker, meant to let one request try, lets every request through
  until a result is recorded (`connector.go:90`). An event stream that breaks off counts as
  a success of the runtime. The proxy moves on to the next runtime after a connection that
  broke once the runtime had taken the request (`proxy.go:182-187`), where its comment
  names only runtimes that cannot be reached; a timeout of the dial, on the other hand,
  counts as a timeout and ends the attempts. `NoRetryAfterTimeout` is about timeouts.
* Records. A stream of the platform whose runtime answers with an error is audited with
  status 200 as "success" and not counted as an error (`platform_adapter.go:140-142` against
  `162-168`), and one that the backend ends after its client was told 200 is audited with
  the status of the failure: for streams of the platform `RecordMatchesOutcome` demands no
  more than `Tells` says; a stream that was cut is audited as a success; a request to the
  cloud that fails or times out is audited as "local". A request may be checked against one
  configuration and routed by the next; SetConfig starts every rate window anew.
* Memory. A summary job that ends while a call infers changes the version, so the turn of a
  client that sent one request at a time is answered and not saved (`orchestrator.go:241`);
  two jobs with overlapping ranges leave two summaries of the same messages; a job that
  outlives its conversation removes messages of the next one of that id which it never read
  (`memory.go:274`). `AppendTurn` compares versions only (`memory.go:233`): a call that read
  version 1 of a conversation that then expires, and is created anew by another call,
  appends its turn to the new one at version 1, an answer made from a history that is not
  there any more. `TurnsBuiltOnHistory` names this case (`CreatedAnew`) and excludes every
  other.
* Memory after a hot reload. Calls and summary jobs of the platform before hold the locks of
  its Store, those of the new platform others (`memory.go:82-83`, `platform.go:82-89`). If
  two of their sections overlap, both have read the file before either writes, and the
  second write removes the first: a turn that was acknowledged with a version, a summary, or
  a conversation just created in the place of an expired one. They share the temporary
  file's name as well (`memory.go:183`). MemoryReload ends at such a write (`torn`).
* Configuration. The hooks of the agent's and of an administrator's SetConfig may run in
  the opposite order of their assignments, so that the platform stays built from the other
  configuration (`server.go:68-78`), until the next SetConfig that is alone
  (`PlatformFollowsConfig`). A generation the agent applies between an
  administrator's clone and SetConfig is overwritten in memory (`admin.go:436`). A restart
  puts the stored generation over `gateway.yaml` and so over acknowledged edits
  (`main.go:223`). A crash between the answer to a registration and the write of the
  credential leaves a spent one-time token (`agent.go:145-155`). A marker write that failed,
  followed by a crash between the next generation file and the rename of the current one,
  makes a restart take the old configuration for the new generation.

## 5. The proofs

Every safety property of the passing runs is stated by a theorem that holds for every
value of the constants; the constants' assumptions are named next to them, in the
module that declares them.

### WorkflowRunProofs

For any sets of calls, keys, payloads and cancellers and any numbers of steps, targets,
attempts and slots:

| theorem | states |
|---|---|
| `TypeCorrect` | `Spec => []TypeOK` |
| `SlotsAreAccounted` | `Spec => []SlotAccounting` |
| `SettledForGood` | `Spec => TerminalIsFinal` |
| `SettledIsClosed` | `Spec => []SettledRunIsClosed` |
| `InOrder` | `Spec => []StepsInOrder` |
| `SentOnce` | `Spec => []NoSecondInference` |
| `JustVerdict` | `Spec => []VerdictIsJustified` |
| `IdempotentAnswers` | `Spec => []AnswerMatchesRequest` |
| `HeardForGood` | `Spec => []HeardCancelStays` |
| `RefinesContract` | `Spec => ImplementsContract` |

The invariants are not inductive alone. `TypeInv` adds `WellPlaced` to `TypeOK`: the payload
of a caller that has begun is a payload, its key is one where the key is looked up or
recorded, the step number of a run is in range wherever a step is at work, and a canceller
that is past its lookup holds a run. `Lifecycle` ties the two program counters of a run to
its status: a run that was not answered has no runner, and a run with a terminal status has
a runner that is past settling. `Shape` ties the position in the loop to the statuses of the
steps: those before the current one are COMPLETED, none after it was tried, they are PENDING
until the run is finished, the current one has the status of the program point, and no step
is open once the run is finished. `Attempts` says at each point of the two loops what the
attempts of the current step can have ended in: all "unavailable" while the goroutine goes
on trying, at most one "ok" after that, and only such steps lie behind the current one.
`Justified` carries the reason of a verdict along: whoever is CANCELLING, or has a canceled
context, was addressed by a CancelRun call, and the verdict that `finishInterrupted` has
computed but not written yet has its reason too. `IdemInv` says that a remembered key names
a run that was made with it. `HeardInv` says that a published `cancelFn` belongs to a run
whose `ExecuteBegin` is over, and that a canceller which holds one addressed such a run.
Each is proved with one lemma per action or group of actions.

For the refinement `Announcing` says that the done channel is closed exactly when the
goroutine is past `CloseDone`, with a final status. Then a caller's step is `Admit`,
`Abandon`, `Open` or invisible (`ContractCaller`), a goroutine's is `Settle`, `Announce`,
`Release` or invisible (`ContractRunner`), a canceller's is invisible, since it never
writes over a final status. The assumption is `ConstantsAssumption` of `WorkflowRun.tla`:
the set of calls is finite, the sizes are naturals, and `NoKey`, `None` and the two error
answers are not among the values they stand beside.

The same module holds the theorems about the Service on top of the orchestrator, for any
numbers of runs, steps, targets, attempts, deployments, places and calls of others:

| theorem | states |
|---|---|
| `SystemRunsService` | `SystemSpec => Spec`: every theorem above holds of the whole |
| `SystemRunsOrchestrator` | `SystemSpec => Orch!Spec`, with attempts and other calls as its calls |
| `SystemKeepsContract` | `SystemSpec => ImplementsContract` |
| `SystemTypes` | `SystemSpec => []SystemTypeOK` |
| `NothingMoreIsSent` | `SystemSpec => []NothingAfterAnswerOrTimeout` |
| `CancelStops` | `SystemSpec => CancelStopsInference` |

The invariant (`SystemInv`) is that of the Service (`TypeInv`, `Lifecycle`, `StepShape`,
`AttemptsRecorded`), that of the orchestrator (`OrchInv`), and `Linked`: a call is out only
for the attempt its goroutine is in; a call has been answered exactly when it is done; and
where the goroutine still tries the step, all earlier answers are "unavailable", where it is
past the step the last one is "ok". So nothing that still asks stands beside an answer or a
timeout. "unavailable" is what `CodeOf` gives to calls whose candidates were all refused,
not reached, reset or broken off: a runtime may have worked on a reset one or a broken one,
and the step is sent again (section 4). Each side is the argument for the other: without the
orchestrator's rule a timeout could come back as "unavailable", without the Service's it
would be retried. `CancelStops` needs `CancelHeard`: a canceller that has called the
`cancelFn` has ended the context of the run; the context of an attempt follows it, and
`Send` needs a live one.

`OrchestratorProofs` is used as an instance, `OrchProofs`, whose definitions are equal to
those of `Orch` but not the same symbols to the prover; the lemmas `Same...` (`SameInit`,
`SameNext`, `SameTypes`, ...) bridge the two, operator by operator.

### OrchestratorProofs

For any sets of calls and deployments, any limits and any threshold:

| theorem | states |
|---|---|
| `OrchestratorTypes` | `Spec => []TypeOK` |
| `AdmissionIsAccounted` | `Spec => []AdmissionAccounting` |
| `InflightIsAccounted` | `Spec => []InflightAccounting` |
| `NothingAfterTimeout` | `Spec => []NoFailoverAfterTimeout` |
| `OpensAfresh` | `Spec => BreakerOpensAfresh` |

Here `TypeOK` is inductive: it contains that a call at a candidate has one left, which
the loop's condition keeps. The counting rests on one lemma: every step changes one call,
and the places in the queue, in the semaphore and on the nodes by what that call takes or
gives back (`CallKeepsCount`); a set that differs in one element differs by one
(`CountChanges`). For the failover `LoopInv` adds that a call that has not
tried yet has no outcome. The assumption is `OrchestratorConstants`: calls and
deployments are finite, limits and threshold positive.

### FlowProofs (FlowStore and FlowDefinition)

For any flows, aliases, bodies and callers, any limits, and whatever fails, dies, is
damaged or is reloaded, until the store before is used where only the newest may be
(`crossed`; each property carries the condition, in the contract it is `lapsed`):

| theorem | states |
|---|---|
| `TypeCorrect` | `ReloadSpec => [](~crossed => ReloadTypeOK)` |
| `OneContent` | `ReloadSpec => []OneContentPerVersion` |
| `AnswersSurvive` | `ReloadSpec => []AnsweredSurvives` |
| `OneOwner` | `ReloadSpec => []AliasHasOneOwner` |
| `Frozen` | `ReloadSpec => FrozenAsValidated` |
| `RefinesFlowContract` | `ReloadSpec => ImplementsFlowContract` |
| `AcceptedRenders` | `DefinitionSpec => []AcceptedFlowsRender` |

The invariant of the store has five parts. `Store`: an open store has every meta of the disk
in memory and none of them is behind its file, a flow with a meta has a draft, an alias has
one owner, and a store that cannot be opened has a flow without meta. `Callers`: a draft
that a `PublishFlow` call has validated is the draft as long as the revision is the one it
saw; this is why the revision, and not the content, may be compared. `Answered`: what was
answered is in the meta *on disk*, which is what a crash leaves; the theorem follows since
memory is never behind. `Executions`: what was executed is what the checksum of its file was
taken of, and no step changes that checksum. `TypeOK` is the fifth. Under a reload `LateInv`
says of the store before what remains true of its memory and calls while it has not crossed.
`Releases` says of answered versions what `Executions` says of executed ones.

For the refinement two facts carry the load. `MemoryKnows`: what is in memory is at least
what was answered, so the optimistic lock hands out revisions above all answered ones, and
a flow that is not retired in memory was never answered as retired. And a version file
that is absent was neither published nor executed (`Executions`, `Releases`), so a
publication cannot give a second content to a version that a crash left behind and a run
has read. Beside `FlowConstants` the proof uses `NoneIsNoContent`: a value stands for "no
file" and for no content.

`AcceptedRenders` is for definitions of any length. At step i of an accepted definition the
variables with a value include `run.id`, every declared input and the output of every
earlier step; `Validate` admits references to those only.

### RunEventsProofs

For any clients, CancelRun calls, numbers of events and capacities of the channels:

| theorem | states |
|---|---|
| `TypeCorrect` | `Spec => []TypeOK`: with the bound on the log, and no leaked subscription |
| `OnceInOrder` | `Spec => []RunEventsOnceInOrder` |
| `CompletionBringsOutput` | whoever was told of the completion was sent the output |
| `EndIsComing` | the end of the run is on its way to every open stream |

An event of the run is, for one client, in one of four places: received, queued (replay or
channel), in flight from `Emit` (`Fly`), or lost. `Fresh` says in no two of them. `Caught`
says that what a client received are the run's events up to the last id it got, but for
those lost or in flight; `Coming` that what is queued are the later ones, ascending, the replay
before the channel. These two, `Sound`, hold only as long as the events of CancelRun
calls came in place (`Placed`): a CancelRun event that overtakes one of the run, and is the
last a client received, makes it resume behind that one. So the invariant is
`Fresh /\ (Placed => Sound)`, and the work is to show that `Placed` after a step gives
`Placed` before it: what the client received up to an event stays what it was, and an event
in flight that is offered late can lie behind no CancelRun event that was in place
(`NotOvertaken`). `Counted` bounds the log and makes the end unique; `Emitting` makes the
event in flight the newest of the run.

`EndIsComing` is the safety half of `StreamEnds`: while a stream is open, the event that
ends the run, unless the client came with its id or a later one, is queued for it, in
flight, or lost by a full channel. With the fairness of emitters and handlers, which TLC
checks, the stream ends.

### ConversationMemoryProofs

For any calls, requests, numbers of conversations and any `SeenLimit`, until sections of two
Stores have torn the file (`torn`; each property carries the condition):

| theorem | states |
|---|---|
| `TurnsAreBuiltOnHistory` | `ReloadSpec => TurnsBuiltOnHistory` |
| `TypeCorrect` | `ReloadSpec => []ReloadTypeOK` |
| `NotStoredAgain` | `ReloadSpec => []StoredOnce` |
| `AckedStays` | `ReloadSpec => []AckedIsKept` |
| `RangeIsGone` | `ReloadSpec => []SummarisedIsGone` |

`Knows` ties what a call holds to the file: if the conversation it read is still the one
that is there, the version it read is at most the present one, and if it is the present one
nothing has changed. Since a version is used once per conversation, `AppendTurn`'s
comparison excludes all but a conversation created anew (`CreatedAnew`), whose versions are
used again. A step that does not tear the file is one of ConversationMemory (`UntornStep`),
so the invariants are shown for its actions. For the rest, `History` supposes a log of the
request of every turn ever appended (it exists; no variable holds it): those remembered are
the last of it, equal ones are more than `SeenLimit` apart, and every message, in the file,
in a summary or in the hands of a job, is of its turn. `RangesInv` says that ranges end
below the next sequence number, so that nothing is numbered into them later, and that a job
that has read its range has read all that it will remove of it. `KeptInv` says that what was
answered or is remembered is told, by a message or by the text of a summary.

### GatewayRunsProofs, GatewayRequestProofs

`GatewayRunsProofs`, for any numbers of calls, platforms and crashes:
`OpenRunsAreExecuted` rests on `RunInv`: a run that is open in a store is open in the store
of the Service its own call was sent to, and a run whose call has not been served yet is in
no store, file or table (`Fresh`). `UsageIsConserved` is under the assumption that a
repeated request comes with a request id of its own (`~SameId`); without it the property
is false (section 4). `Billed`: a run is watched by its own call alone, is counted in no
place before that watcher recorded it, at most once in counter and batch together, and
once more in the ledger for each report whose answer was lost.

`GatewayRequestProofs`, for any requests, runtimes, classes and configurations:
`NothingLeaves`, `RecordsMatch` and `NoRetry`; `RecordsMatch` includes `Tells`, which lets
the audit line of a platform stream differ from the status the client was told (section 4).
`Fine` is a statement about one request only: where it may be sent depends on its class and
mode, never on the configuration, because every configuration that is in force was accepted
by `Validate`; so SetConfig cannot break it, and each action is shown to lead from a fine
request to a fine one.

### ConfigSyncProofs

For any number of generations, administrators and kept files:

| theorem | states | faults |
|---|---|---|
| `CurrentKept` | `Spec => []CurrentIsKept` | any number |
| `NoDowngrade` | `Spec => NoSilentDowngrade` | any number |
| `FileServed` | `Spec => []FileIsServed` | any number |
| `PlatformFollows` | `Spec => []PlatformFollowsConfig` | any number |
| `MarkerIsTrusted` | a restart that finds a version marker, or had one fault, never believes in a newer generation than it serves | any number |
| `RestartKnows` | `Spec => RestartKnowsItsGeneration` | at most one |

`StoreInv` says that at most one of agent and import command is there to write (the mode
decides which), that a writer finds what it has written so far, that one without `-force`
carries nothing older than what is current, and that an agent holds nothing newer than the
control plane published. `AdminInv` says that one administration call at a time is past its
clone, and that `gateway.yaml` is what it wrote. `HookInv` says that as long as no two SetConfig
overlapped at most one hook is pending, and that it carries the configuration that is served;
`overlapped` is a history variable for this purpose.

`RestartKnows` needs `Marks`: the marker is never above the current generation nor above
anything the agent is about to write (`Marked`), and where the marker is missing and no
second fault came, no generation file is above the current one (`Unmarked`), so that the
fallback of `currentAppliedVersion`, the highest file, finds the current one. Its
hypothesis `MaxFaults <= 1` is needed: with two faults TLC finds a marker write that fails and
a crash between the next generation file and its rename (section 4). `MarkerIsTrusted`
says how much is left then: only a missing marker can mislead.

### What is only model-checked

* Liveness under fairness (`ContractLiveness`, of the Service and of the Service with the
  orchestrator, `StreamEnds`, `Converges`, `RunsAreBilled`), which is outside the prover's
  reach as `ENABLED` is. Of `StreamEnds` the safety half is proved (`EndIsComing`).
* `FailoverOnlyIfUnanswered`, which the code violates (section 4).

No proof uses induction over data, since the library's induction theorems cannot be
instantiated by these provers: where the code folds or filters over a list, the models have a
set (ConversationMemory) or name the elements by their index (`After` in RunEvents),
which leaves out only how the list is walked.

## 6. Not modelled

* `upgrade` and `rollback` (`cmd/private-gateway/upgrade.go`): one sequential command that
  rewrites a compose file and calls docker; what a crash leaves depends on docker. The
  hazard, the state saved after the switch, is listed in `PROJECT.json`.
* Signatures, licences and tokens: the verdict of a verification is an input of ConfigSync.
* The runtime engine contract and its mock: no build connects a native engine.
* Parsing and static checks of configuration, discovery at setup, metrics, the text of
  audit lines, the administration page, lists and other reads: they keep no state that
  another part relies on.
* Panics. `done()` follows the connector's return as a plain call, not deferred
  (`orchestrator.go:275-283`, `350-364`), so a panic that net/http recovers would leave the
  node's inflight count up; `InflightAccounting` is about the ways out that return.
* What follows after the store before has crossed the newest flow store, or two memory
  Stores have torn a conversation: the models end there (section 4). Nor is a new flow
  store whose scan falls into a `CreateFlow` of the store before: it finds a directory
  without meta, `platform.New` fails, and the platform route is off until the next reload.
* Of modelled parts: the construction of a platform that fails in the middle, the agent when
  `NewAgent` fails, files that cannot be decrypted or read (an unreadable
  `config-current.json` acts like an absent one), the token counts of `BuildContext`, the
  ranking by latency and stickiness (any order is allowed), the days of the retention
  (`Sweep` may take any settled run whose watcher is done), and `Delete` of a conversation,
  which nothing calls.
* Imports are modelled on gateways without control plane, the case `config import` is for;
  an import beside a running agent is not.
