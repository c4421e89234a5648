# A TLA+ development of Labrastro

Labrastro runs agents for its users: a Python server keeps *AgentRuns*, workers
(server processes, sandboxes and a Go agent on the user's machine) claim and
execute them, and a chat front end shows one SessionRun made of such runs. This
directory holds TLA+ modules that model the concurrent core of the server and of
its workers, the TLC configurations that check them on small instances, and proofs
that TLAPS checks for every instance.

Line numbers are those of the repository this directory belongs to. `CP` stands
for `labrastro_server/services/agent_runtime/control_plane.py`.

## Inventory

| Component | State | Operations | Hard behaviour | What makes it correct | Module |
|---|---|---|---|---|---|
| AgentRun control plane (`CP`, `runtime_store.py`, `runtime_policy.py`) | run rows, activation records, claims and leases, cancel requests, feedback, relations, thread and session bindings, steers | submit, claim, heartbeat, pin, executor event, complete, feedback, continue, retry, cancel, stop, recover, agent calls | workers that die or come back after their lease, cancellation against completion, callers and called runs in any order | one worker per run, nothing stranded, what ended stays ended, callers are answered, cancellations take effect | `AgentRunControlPlane`, `AgentRunLiveness`, `ActivationSteers` |
| Postgres AgentRun store (`postgres_store.py`) | the same as rows | the same as transactions, host restart recovery | unlocked reads that are stale at the write, restarted hosts | the same, as far as its transactions allow | `PostgresAgentRunStore` |
| Agent call tool (`reuleauxcoder/extensions/tools/builtin/agent.py`) | none of its own | submit or continue, bind, mark as waiting | three critical sections, parallel tool calls | the caller waits exactly as long as the called run | in `AgentRunControlPlane` |
| SessionRun and chat service (`service.py`, `session_run_control.py`, `routes/chat.py`, `session_projection.py`) | session runs, event logs, projections, questions to the user | start, project, cancel, finish, reply | overlapping polls, retried requests, cancellation against projection, bounded buffers | one run per request, events once and in order, losses announced, the answer given is the answer shown | `SessionRunStart`, `SessionRunTerminal`, `SessionEvents`, `UserInputs` |
| Session branches (`session_branch_tree.py`, `session_branch_runtime.py`) | branch bindings and selection | branch, select, continue, retry | copies of bindings written back late | one selected branch, failed branches closed | `SessionBranches` |
| AgentRun HTTP routes (`routes/agent_runs.py`) | none of their own | events, steers, completion | requests given up by their sender | no event lost | `RuntimeEvents`, `ActivationSteers` |
| Model bridge, stream supervisor (`routes/agent_runs.py`, `services/llm/client.py`) | model requests, bounded queues | request, stream, interrupt, continue | full queue, disconnects, broken streams | one end per request, the response is what was shown | `ModelStream` |
| Local actions (`local_actions.py`) | action rows | enqueue, claim, progress, complete | late answers after a timeout, retries | an action is done at most once, and ends | `LocalActions` |
| Executors and server workers (`executor_backend.py`, `remote_relay.py`) | threads, claims | claim, chat, heartbeat, complete | cancellation against start, failing control plane | events stored once, no busy run without a lease | `SessionRunWorker` |
| Agent loop, drafts (`reuleauxcoder/domain/agent`) | conversation, tool calls, drafts | run a turn, execute tools in parallel, stop | interruption at any point of a turn | every tool call gets one answer | `AgentTurn` |
| Files of a workspace (`file_mutation_service.py`, `tool_execution.py`, `internal/tools/execute.go`) | files, previews, save candidates | preview, approve, save, restore | calls that overlap, writes that fail half way | a patch is applied as a whole or not at all | `FileMutations` |
| Relay, peer registry, tokens (`labrastro_server/relay`) | peers, tokens | register, heartbeat, prune, disconnect | late heartbeat after a disconnect | sessions end with their peer | `PeerRelay` |
| Capability packages (`capability_packages.py`) | ingest workflow thread, approvals, revisions | follow, ask, revise, repair, install, cancel | answers to overtaken candidates | only what was allowed is installed | `CapabilityIngest` |
| Taskflow (`labrastro_server/taskflow`) | documents saved whole | draft, confirm, compile, decide, dispatch, override | copies that overwrite each other, restart | only confirmed plans are dispatched | `TaskflowDispatch` |
| Collaboration (`services/collaboration`) | assignments, mentions | create, dispatch, cancel, reassign | stale copies | a cancelled assignment is not dispatched | `IssueAssignments` |
| GitHub pull requests (`services/github`) | records, webhook deliveries | ensure, webhook, reconcile, follow up | lost, repeated and reordered webhooks | merges are seen, comments followed up | `PullRequests` |
| Go agent (`reuleauxcoder-agent`) | active requests | claim loop, heartbeat loop, event loop, local action loop | claim lost while executing, requests that time out | stops when its claim is gone, loses nothing | in `AgentRunControlPlane`, `ActivationSteers`, `RuntimeEvents`, `LocalActions` |
| Worktrees, sandbox provider, auth, admin, environment runs, hooks, approvals of tools, context and memory, extensions, CLI and TUI, configuration, migrations | - | - | see below | see below | not modelled |

Interaction: HTTP handlers, the recovery thread of the HTTP service, the worker
threads inside the server and the agent call tool call the control plane from
different threads. Workers elsewhere poll it over HTTP and know it only through
claim identifiers. A control plane method in memory mode holds one lock from
beginning to end, so a method is atomic and any order of methods can occur; in
Postgres mode it is a transaction whose first reads take no lock. The services
(chat, taskflow, collaboration, packages, GitHub) order AgentRuns, keep records of
their own and call the control plane between two steps on these records.

`PROJECT.json` lists every component with its status, and under `hazards` what is
hard to test in this code, at the line where it bites.

## Modules

The core:

| Module | Content |
|---|---|
| `AgentRunControlPlane` | The control plane in memory mode, one action per method, and its safety and action properties. |
| `AgentRunLiveness` | The answers of heartbeats and what a worker that is told to cancel does, the fairness of the recovery thread and the workers, and the liveness properties. |
| `AgentRunOutcome` | Abstract: what the control plane promises about a run, without workers and leases. |
| `AgentRunRefinement` | The refinement mapping from the control plane to `AgentRunOutcome`. |
| `MCAgentRunControlPlane`, `MCAgentRunLiveness` | Constant values for TLC. |
| `AgentRunControlPlaneProofs` | The inductive invariant and the proofs of the safety invariants. |
| `AgentRunHistoryProofs` | Proofs about ended activations and closed runs. |
| `AgentRunThreadProofs` | Proofs that a thread binding ends with its target, that a report is not missed, and that a waiting caller is told. |
| `AgentRunOutcomeProofs` | Proof of the refinement. |

Around it, one module for each part that has a concurrency of its own. Its actions
are the critical sections of the code, its handlers hold what they read between two
of them, and it meets the core through the calls it makes:

| Module | A behaviour is |
|---|---|
| `PostgresAgentRunStore` | one AgentRun under overlapping READ COMMITTED transactions: each reads without a lock, may lock a claim, and writes at its commit |
| `ActivationSteers` | user input for a running activation, from its queue over heartbeats into the executor's buffer |
| `RuntimeEvents` | executor, bounded channel, Go event loop, requests that fail, are lost or are executed after they were given up, completion with replay |
| `ModelStream` | bridge thread, bounded queue, writer thread, the client that decodes and shows tokens, continues or retries a broken stream, falls back |
| `LocalActions` | the action store with its leases, the synchronisation of install plans, a peer that gives up requests |
| `SessionRunWorker` | the two worker threads inside the server with the heartbeat thread of one of them, and an agent that emits events and may be stopped |
| `AgentTurn` | the chats of one agent: rounds, tool calls, stop, exceptions, document drafts and their checkpoint |
| `FileMutations` | calls of apply_patch on one workspace: preview, permission, snapshots, writes that may fail, restoration |
| `PeerRelay` | registration, heartbeats, disconnection and pruning of peers, and the end of their session runs |
| `SessionRunStart` | start requests and their repetitions, collection and recovery of projections, restarts |
| `SessionRunTerminal` | the log of an AgentRun, clients whose polls project it, cancel, stop and continue |
| `SessionEvents` | the two bounded event buffers of a SessionRun, pending deltas, branches, cursors |
| `UserInputs` | a question to the user, its timeout, its cancellation, replies that are sent again |
| `SessionBranches` | bindings, their copies in requests, the projection of the selection |
| `CapabilityIngest` | the workflow thread of a package against approvals, revisions and a cancel |
| `TaskflowDispatch` | requests that load, change and save whole documents of a taskflow and its project |
| `IssueAssignments` | assignments of an issue that are loaded, dispatched, cancelled and saved whole |
| `PullRequests` | ensuring a pull request, webhooks in any order, the reconciler, follow-ups |

These modules are put side by side in four compositions. Each INSTANCEs several of
them, and a variable `part`, chosen by `Init`, says which one moves. A behaviour is
then a behaviour of one part, the variables of the others stay as they begin, and
the states of a run are the sum of those of its parts, not the product. The parts do
not share state there: what one does to another is an input of the other's model. A
module's assumption about its constants is a definition, and the composition assumes
it of every instance.

| Composition | Parts | For TLC | Proofs |
|---|---|---|---|
| `Stores` | Postgres store, taskflows (two parts: overlapping requests, requests one after another), assignments | `MCStores` | `StoresProofs` |
| `Workers` | steers, events, streams, chat workers, turns, files | `MCWorkers` | `WorkersProofs` |
| `Sessions` | starts, terminals, event buffers, questions, branches | `MCSessions` | `SessionsProofs` |
| `Services` | local actions, peers, packages, pull requests | `MCServices` | `ServicesProofs` |

The compositions have the constants of their parts as their own, so that what is proved
about them holds for all values. `MCStores`, `MCWorkers`, `MCServices` and `MCSessions`
extend them by a variable `scope`, chosen at the start: it keeps a part to behaviours in
one direction (two claims and no lapse, or a lapse and no call; all patches on the server,
or two of them on a peer), where all directions at once would be too many states. The
last three also have the fairness and the liveness of the parts.

### State of the core

| Variable | In the code |
|---|---|
| `status`, `waiting` | `AgentRun.status`, `waiting_reason`; `absent` before submission |
| `current`, `activation` | sequence number of `current_activation_id`; status of the record `run:activation:n` |
| `relation` | `AgentRunRelation.owner_agent_run_id` and `payload["wait"]` |
| `callFeedback`, `reviewFeedback` | unconsumed feedback with `requires_activation`, by kind |
| `violating` | `metadata["environment_policy_violation"]` is set |
| `sandboxed` | `sandbox_session_id` is set |
| `thread` | status of the `AgentThreadBinding` whose target is the run; CLOSED, UNAVAILABLE and deleted are all `ended` |
| `cancelRequests` | `_cancel_requests` |
| `issued`, `claim`, `leased` | claims handed out, what each is for, and those present in `_claims` and `_claim_leases` |
| `lapsed` | leases whose deadline has passed |
| `working` | executors that have neither returned nor died; a worker outlives its lease |
| `calling` | agent tool calls between two of their critical sections |
| `overtaken` | history variable: runs that got a new activation under a live lease |
| `told` (`AgentRunLiveness`) | workers whose executor was cancelled by the answer of a heartbeat |

### Actions of the core

Every action is a whole method, with the calls it makes: `Complete` includes the
parking of a run with pending feedback, the report to the caller, the caller's
resumption, the end of thread bindings and the clearing of claims and cancel
requests; `Cancel` includes the cascade over called runs. The tail that reports
and resumes is one operator, `Settle`, used by `Complete` and by everything that
cancels. An agent call is `SubmitAgentCall`, `BindThread` and
`MarkAgentCallWaiting`, or `FindThread`, `ContinueThread` and
`MarkAgentCallWaiting`, each a critical section of its own, because
`AgentTool._execute_local` and `call_persistent_agent` release the lock between
them. Several tool calls of one turn run in parallel.

Refused calls change nothing and are left out: a worker's call without a live
claim, a continuation of a run that is not continuable, a second end of a run.

Faithful details that are easy to miss and that the properties depend on:

- `complete_claimed_agent_run_activation` makes the lease's activation the current
  one before it validates (`CP:3657-3664`).
- recovery processes leases in the order they were handed out; the first expired
  lease of a run requeues it, the others only go (`CP:3147-3195`);
- a claim first recovers expired leases (`ClaimActivation` requires `lapsed = {}`);
- BLOCKED is terminal for `is_terminal`, yet the worker keeps its claim after a
  blocked event and can move the run on (`CP:3562-3596`);
- a called run that could not start its sandbox is FAILED without a report
  (`CP:1405-1410`), and stopping an activation tells the caller nothing.

Abstractions: a worker is its claim; `WorkerKind`, `KindOf` stand for worker kind,
features and workspace matching; prompts, outputs, events, artifacts, metadata and
time stamps are dropped; the clock is `LeaseLapses`; feedback is counted by kind;
every persistent call creates a thread of its own key.

### Correspondence of the other modules

The comment on every variable names the attribute or table it stands for, the
comment above an action its function, and `PROJECT.json` gives the lines of each
definition. Points on which properties depend:

- **Postgres store.** A transaction reads the run without a lock and decides; a claim
  row is locked by those that need one (`FOR UPDATE`); from its first write to the
  run's row on it is one step, because that row stays locked. Heartbeats, events,
  completion, continuation, cancel, stop, recovery and the restart of the host are
  transactions. Memory mode and Postgres mode differ: `PostgresAgentRunStore` shows
  overlaps that the one lock of memory mode excludes.
- **Steers.** A heartbeat's response offers QUEUED steers and makes them DELIVERING
  for that claim; a later heartbeat that names them makes them DELIVERED;
  `requeue_stale_steers` returns those of a lapsed lease.
- **Events.** A request that timed out in the Go runner may still be executed later
  (`LateWrite`); the completion brings again what the runner kept.
- **Model streams.** A full queue sets the stop event, after which no terminal event
  can be queued; continuation requests are built from what the first request showed.
- **Workers in the server.** The agent is registered before its chat starts and the
  chat clears a stop (`agent.py:1184`); the worker for peers sends no heartbeat.
- **Turns.** The model is asked for answers, for the summary after the last round, and,
  when the loop begins and after the tools of a round, to compress the history
  (`maybe_compress`, `loop.py:634` and `860`; `context/manager.py:681`). Only the last two
  do not look at the stop. What the compression does to the history is left out.
- **Files.** A preview reads file by file; the candidate has whole new contents, and
  saving it compares nothing with what was read. Two sections of one patch that name
  the same file are both planned on the file as it is on disk, so the later one's
  content stands. When a restoration fails Python stops and the Go peer goes on. The
  files of a patch are snapshot and restored in any order, of which the code takes one;
  `saved` holds those with a snapshot that was not put back yet.
- **Local actions.** Recording an install's result and completing its action are two
  steps, and every claim request runs the synchronisation first, outside the lock.
- **SessionRuns.** Listing the log of the AgentRun and projecting it are two steps
  of a poll, and polls overlap. Both buffers drop their oldest events, at a number of
  events and at a number of bytes: a single event above the bound of bytes empties its
  buffer, and an empty buffer announces nothing (`service.py:442`, `549-558`; live-only
  events are never moved to an artifact file). Which events are that big is open in
  `SessionEvents`, and so is how many others fit. Whether an end was already shown is
  looked up in what the buffer still holds (`service.py:976-986`): `gone` in
  `SessionRunTerminal` says how much it has dropped.
- **Questions.** `mark_done` answers the open questions of a branch and shows the answers
  under one lock. A cancel request and the disconnect of a peer answer first and show later
  (`owed`), and a cancel that is not the first of its branch shows none
  (`routes/chat.py:1206-1215`).
- **Taskflow, assignments.** Every operation loads a copy, and saves all of it.
- **Pull requests.** A delivery is recorded before it is handled, marked afterwards,
  and GitHub may lose, repeat and reorder deliveries; the reconciler reads GitHub. It asks
  for review comments once (`client.py:79-83`), so it sees those of the first page, the
  oldest (`OnTask`). The delivery of a review reads the record and writes all of it back, with
  a status that may have changed meanwhile (`ReviewRead`, `ReviewSave`). A merged pull
  request that is found in the list of the branch's pull requests is saved as closed,
  because the list does not say merged.

## Runs

| Run | Shows |
|---|---|
| `calls` | Two runs, one calling the other. `ActiveRunIsLeased`, `ClosedRunReleased`, `ExclusiveClaim`, `ReportMissedOnlyByLateMark`, `DesertedOnlyUnreported`, `ThreadEndsWithTarget`, `TypeOK` hold. |
| `history` | One sandboxed environment run, three activations, three claims. `EndedActivationsBehind`, `ActivationEndsOnce`, `ClosedRunReopensOnlyByContinue` hold, and the control plane implements `AgentRunOutcome` (`KeepsPromise`). |
| `liveness` | Under `LiveSpec`, `LostRunIsRecovered`, `AgentCallAnswered`, `CancelReachesWorker` hold. |
| `stores` | Postgres store, taskflow, assignments. `ClosedRunReleased`, `LeaseLostOnlyToOverlap`, `ReportMissedOnlyByLateMark`, `OnlyConfirmedRuns`, `CancelHolds`. |
| `workers` | Steers, runtime events, model streams, server workers, agent turns, patches of files. `SteersAreKept`, `EventsAreKept`, `ContentWasShown`, `BusyIsHeld`, `CallsAnswered`, `PatchIsWhole`, and `NothingHangs` (`SteerIsPassedOn`, `RequestEnds`). |
| `sessions` | Starts, projections, event buffers, questions, branches. `RepeatedStartsOnce`, `ShownOnceInOrder`, `ReportedEndIsShown`, `LossIsAnnounced`, `ToldIsTrue`, `FailedIsClosed`. |
| `services` | Local actions, peers, packages, pull requests. `DoneOnce` (`InstalledWasAllowed`, `OneInstallAtATime`, `FollowupsBounded`), `InstalledOnce`, `DisconnectEndsSessions`, and `ActionEnds`, `MergedIsSeen`. |
| `stale_completion` | A superseded worker completes the activation it was superseded on. The test at `tests/labrastro_server/services/agent_runtime/test_control_plane.py:520` expects `activation_mismatch` of the unclaimed entry point; the entry point the workers use never raises it. |
| `forgotten_cancel` | Recovery drops a pending cancel request (`CP:3181`) and the run executes again. |
| `parked_cancel` | Cancelling a parked run records a request that nobody reads (`CP:4467`). |
| `rewaited_thread` | A thread created with `wait=false` and called again with `wait=true` leaves its caller parked for ever (`CP:1473`). |
| `one_slot` | With one slot a waiting caller starves the run it waits for (`runtime_store.py:31`). |

The last five expect a violation; the corresponding findings, with the sentence of
the repository they contradict, are in `PROJECT.json`.

What the properties of the core say:

- `ExclusiveClaim` excludes overtaken runs: `continue_agent_run` may continue a
  WAITING or BLOCKED run whose worker still holds its claim, and then two claims
  exist. `EndedActivationsBehind`, `ActivationEndsOnce` and
  `ActiveRunIsLeased` hold for these runs as well.
- `ReportMissedOnlyByLateMark` is the precise form of "no lost wake-up": a caller
  that is parked with its report already there can only come from a
  `mark_agent_call_waiting` made after its worker lost the lease.
- `DesertedOnlyUnreported` says who waits in vain. A parked caller to which nobody will
  report waits for a run that was stopped, whose sandbox did not start or which an
  executor event set BLOCKED, the three ends the code does not report; or its mark
  came too late, after such an end or after its own worker had lost the lease; or it
  joined a thread whose creator does not wait (`CP:1473`). In every other
  interleaving of the steps of caller and called run the end of the called run is fed back, and
  the feedback is still there when the caller is marked.
- `KeepsPromise` is the refinement: in whatever order overtaken workers, recoveries
  and cancellations act, activations of a run end in order, each once and only
  while the run is open, and a run with an outcome is left alone until continued.

Several properties of the compositions name the exception the code leaves, so that
they say exactly how far it can be relied on:

- `LeaseLostOnlyToOverlap`: in Postgres mode a run in execution loses its lease only
  to three overlaps (an event whose claim was released since it was looked up, a
  recovery that read a status an event then changed, a heartbeat that renews a
  claim already released).
- `EventsAreKept`: nothing is lost; an event is stored twice only if its live
  request was given up, and by a server worker never.
- `SteerIsPassedOn`: unless the response of a heartbeat is lost.
- `RequestEnds`: unless the queue of the bridge overflowed.
- `ContentWasShown`: what a response holds was shown; the text of a failed attempt was shown
  too and is not in it.
- `StopIsSeen`: after a stop no round is begun. The model may still be asked once to compress
  the history, and once for the summary that follows the last round.
- `PatchIsWhole`: unless another call wrote to one of the files between the beginning
  of this one and now, and where no restoration failed itself. Overlapping calls may
  overwrite each other's edits, and a failed one puts back what it found.
- `RepeatedStartsOnce`: for requests whose repetitions do not overlap and whose
  projection was neither collected nor lost.
- `LossIsAnnounced`: a client was given each event of its branch up to its cursor, or told of
  a loss that covers it, unless an event above the bound of bytes by itself emptied the
  buffer of that event, or that of the base through which a child branch sees it.
- `OneEndPerActivation` (in `ShownOnceInOrder`): an activation does not end again by itself
  while its end is in the buffer. When the end was dropped, the fallback may make another.
- `DisconnectEndsSessions`: of the sessions that were open when the disconnect began; those
  that start during it go on.
- `CommentIsFollowed` (in `MergedIsSeen`): a comment on the first page of its pull request,
  while the record is open. For a comment behind it there is only its webhook.
- `ReportMissedOnlyByLateMark`, in Postgres mode: of a caller whose current activation has ended.
  A late heartbeat may set that activation back to running while the caller stays parked with
  its report; of that state the property says nothing.
- `CancelHolds`: unless another request held a copy while it was cancelled.
- `InstalledOnce`, `OneInstallAtATime`: for a peer that gives no request up. One that does
  may have two requests at the server, whose looks at the actions overlap.
- `FollowupsBounded`: a comment has one follow-up per thread that was at it together, and
  as many again for each failure and each restart.
- `OnlyConfirmedRuns`: in all interleavings; that nothing stale is dispatched only
  for requests one after another.

An exception names a race that the property does not exclude. Those races are entries of
`hazards` without a property, or with one that covers the rest of the hazard and a note that says
what it leaves out: two claim requests of one peer (`InstalledOnce`), a lapsed action lease, the
lost response of an interrupt (`SteerIsPassedOn`), the overflowed stream queue, the text of a failed
attempt, sessions started during a disconnect, overlapping starts (`RepeatedStartsOnce`), a dispatch that
overlaps a cancellation (`CancelHolds`). Where a sentence of the repository says that they do not
happen, see "Where the repository says otherwise".

### Bounds

`MaxSeq` bounds activations of a run, `MaxClaims` the claims of a behaviour,
`MaxReviews` pending review feedback, `MaxCalls` agent calls in progress at the
same time. An action that would exceed a bound is disabled.

- `calls` has two runs, two activations, two claims and two calls at a time: the
  caller and the called run can each be executed once, or one of them twice
  (recovered, continued under its lease or continued as a thread). Both orders of
  every pair of steps of a call and of its target occur. The caller has a sandbox,
  which is ended at once on cancel, the called run has not and is asked to stop.
- `history` has one run, so that three activations and three claims fit: a lease
  overtaken twice, a stale completion that moves the current activation back with
  another one queued after it.
- `liveness` has three activations per run and four claims, so that a thread is
  called twice and a worker of either run may die. `AgentCallAnswered` and `CancelReachesWorker` allow a behaviour
  to end when a bound was reached (`Exhausted`): the model then has no claim or
  activation left, which says nothing about the code.

`Stores.cfg`, `Workers.cfg`, `Services.cfg` and `Sessions.cfg` give each part one set of
bounds, which the scopes of the `MC` modules narrow:

| Part | Instances and why they are enough |
|---|---|
| `PostgresAgentRunStore` | Two transactions at once (a stale write needs no third), two activations, two claims, in three scopes: the two claims; a called run that reports, with one claim; a lease that lapses, a server that restarts, and workers that give up requests |
| `TaskflowDispatch` | Two handlers on one taskflow with one draft to confirm; two taskflows of one project, or one and a restart, with one request at a time, a draft to confirm and one to replace it. One decision in each |
| `IssueAssignments` | Two assignments of one issue, two handlers, one restart |
| `ActivationSteers` | Two steers over two claims; one of the heartbeats' responses lost; one steer over three claims, in which every response is received and the steer must be passed on |
| `RuntimeEvents` | Four events and a channel of two, so that the executor fills it while one is being sent |
| `ModelStream` | A queue of one, two tokens per attempt, one break, a continuation and a fallback: the shortest that overflow, and that mix texts of several attempts |
| `SessionRunWorker` | A long chat on the server, one on a peer, two short ones on the server with a cancellation, or one of each without; the control plane may fail in all |
| `AgentTurn` | Two rounds, each followed by a compression or not, two drafts: three chats with three calls that are approved one after another, or two chats with two calls in parallel |
| `FileMutations` | Two calls on two files, one of which may be missing; patches of one and two sections (two of them on one file), a move, a deletion with an update; two failures, on the peer three, so that a restoration fails and goes on |
| `SessionRunStart` | Two requests with two handlers, two session runs, one restart |
| `SessionRunTerminal` | Two activations, two clients that poll, one that cancels, stops or continues; the buffer keeps all in one scope, and drops events at any time where nothing is cancelled |
| `SessionEvents` | Buffers of two; four events and one piece of the parent's reply, three events and two pieces in each branch, or four events and no piece, one of them above the bound of bytes; a client of the parent and one of the child |
| `UserInputs` | Two questions, two windows, each sends a reply twice |
| `SessionBranches` | Two branches; two requests, or one and a retry by an administrator |
| `LocalActions` | One peer, two server threads, two install keys: a peer that waits, with four actions; one that gives up a claim request, with four; one that does so while an install fails, with two. A lease lapses once in each |
| `PeerRelay` | Two peers and a chat; one peer with a chat and a package |
| `CapabilityIngest` | Two revisions, one cancel, one repair |
| `PullRequests` | One pull request, one webhook handler beside the reconciler, one failing call, in four scopes: one comment and two changes; one comment, one change and a restart; reviews and two changes; two comments and pages of one |

Deadlock is not checked: the server stops when nothing is left to do, and the
models when their bounds are reached.

### Fairness

`LiveSpec` of the core assumes weak fairness of

- `RecoverStale`: the recovery thread calls it every few seconds
  (`interfaces/http/remote/service.py:3526-3546`);
- `ClaimActivation` for each kind of worker: workers poll;
- the lapse of a lease without a worker: nobody renews it;
- the steps of an agent call in progress: the tool returns;
- `HeartbeatAnswered`: of the heartbeats that a worker sends from a goroutine of its own, some
  is answered. `HeartbeatUnanswered` is a heartbeat whose answer is lost;
- `ToldWorkerEnds`: a worker that was told has cancelled its executor, which ends, and
  completes or is refused. That happens within the lease it renewed last.

It does not assume that an executor ends by itself: `CancelReachesWorker` is about one that would
go on for ever, and would fail if a heartbeat were answered without the request (that is
its mutant, `NothingRequested`). It says of a worker with a claim and a request that it ends,
also when recovery or a second claim took its lease, for then the answer refuses the
claim. `AgentCallAnswered` adds `ExecutorsEnd`, the fairness of `Complete`, as an assumption of its own.

A worker that lives renews its lease in time; a lease lapses in these runs only if its worker
stopped. Nothing forces a worker to stop, an operator to cancel or a caller to call. In
`LiveNext` executors report no `waiting_approval` or `blocked` status of their
own: none of this repository does. Activations are not stopped by the user and
sandboxes do not fail there: both leave a waiting caller without an answer, see
the list of hazards.

The compositions assume weak fairness of what threads of the code do over and over, and
of nothing that a user, GitHub or the network decides:

- `SteersFairness`: a worker heartbeats every few seconds in a goroutine of its own
  (`runner.go`, `runtimeHeartbeatLoop`), the executor drains its buffer between two
  turns, stale leases are recovered and queued activations claimed by loops that
  never end. Nothing forces a worker to live.
  (`MCWorkers` says this of the actions as its scope bounds them.)
- `StreamFairness`: the bridge thread, the writer thread and the client run; a
  provider's stream ends, because the stream supervisor interrupts a stalled one.
- `TerminalFairness`: the clients keep polling, and a cancel, stop or continue
  handler that began goes on. Nothing forces a worker to complete.
- `LocalFairness` (for the peer that gives up a request): server threads run, a peer keeps asking and finishes what it
  executes, and the lease of an action that nobody executes passes its expiry.
- `PullFairness`: only the reconcile thread. No webhook need arrive, and no handler
  need go on, which is the point of `MergedIsSeen`.


## Proofs

TLAPS proves about the core, for every set of runs and every value of the bounds, from
`RunAssumption`, `BoundAssumption` and `SlotAssumption`:

| Theorem | States |
|---|---|
| `TypeCorrect` | `Spec => []TypeOK` |
| `NoStrandedRun` | `Spec => []ActiveRunIsLeased` |
| `EndReleasesRun` | `Spec => []ClosedRunReleased` |
| `OneWorkerPerRun` | `Spec => []ExclusiveClaim` |
| `PastIsBehind` | `Spec => []EndedActivationsBehind` |
| `EndedOnce` | `Spec => ActivationEndsOnce` |
| `ClosedStaysClosed` | `Spec => ClosedRunReopensOnlyByContinue` |
| `ThreadEnds` | `Spec => ThreadEndsWithTarget` |
| `ReportWakesCaller` | `Spec => ReportMissedOnlyByLateMark` |
| `WaitingCallerIsTold` | `Spec => DesertedOnlyUnreported` |
| `ImplementsPromise` | `Spec => KeepsPromise`, the refinement of `AgentRunOutcome` |

about `Stores`, for every set of transactions, handlers, taskflows and assignments and
every bound, from `StoresAssumption`:

| Theorem | States |
|---|---|
| `StoresAreTyped` | `Spec => []TypeOK` |
| `EndReleasesRows` | `Spec => []ClosedRunReleased` |
| `LeaseIsLostByOverlap` | `Spec => LeaseLostOnlyToOverlap` |
| `ReportIsSeen` | `Spec => ReportMissedOnlyByLateMark` |
| `DispatchIsConfirmed` | `Spec => []OnlyConfirmedRuns` |
| `CancelIsKept` | `Spec => []CancelHolds` |

about `Workers`, for every number of steers, claims, events, tokens, runs, drafts,
calls, files and every set of patches, from `WorkersAssumption`:

| Theorem | States |
|---|---|
| `WorkersAreTyped` | `Spec => []TypeOK` |
| `SteersKept` | `Spec => []SteersAreKept` |
| `EventsKept` | `Spec => []EventsAreKept` |
| `ShownIsContent` | `Spec => []ContentWasShown` |
| `BusyRunIsHeld` | `Spec => []BusyIsHeld` |
| `CallsGetAnswers` | `Spec => []CallsAnswered` |
| `PatchAllOrNothing` | `Spec => []PatchIsWhole` |
| `DecisionIsKept` | `Spec => Chats!DecisionHolds` |

about `Services`, for every number of peers, keys, server threads, sessions, revisions,
comments and webhooks, from `ServicesAssumption`:

| Theorem | States |
|---|---|
| `ServicesAreTyped` | `Spec => []TypeOK` |
| `RepeatedWorkIsDoneOnce` | `Spec => []DoneOnce` |
| `InstallsAreNotRepeated` | `Spec => InstalledOnce` |
| `OfflineAfterSessions` | `Spec => DisconnectEndsSessions` |

and about `Sessions`, for every number of requests, handlers, restarts, activations, clients
that poll or read, events, questions (finitely many), windows and branches and for buffers
of every bound, from `SessionsAssumption`:

| Theorem | States |
|---|---|
| `SessionsAreTyped` | `Spec => []TypeOK` |
| `StartsAreNotRepeated` | `Spec => []RepeatedStartsOnce` |
| `EndsAreShownOnce` | `Spec => []ShownOnceInOrder` |
| `NoSilentLoss` | `Spec => []LossIsAnnounced` |
| `ToldAnswerIsTaken` | `Spec => []ToldIsTrue` |
| `FailedBranchIsClosed` | `Spec => []FailedIsClosed` |

### The core

`Inv` is the conjunction of `TypeOK`, the three safety invariants and
`AbsentRunUntouched`; none is inductive alone. Recovery removes all expired leases
of a run at once, so a run keeps a lease only because of `ExclusiveClaim`: an
executing run that is not overtaken has exactly one. A submitted identifier must
come without a claim, which is `AbsentRunUntouched`. Actions are grouped by what
they touch: steps of a worker (`WorkerReportInv`), the next activation
(`QueueNextInv`), the shared tail `Settle` (`SettleInv`, which `Complete` and
`CancelRuns` are instances of), recovery, and steps that move no run (`QuietInv`,
`CallMovesInv`). `RecoverInv` needs that the set of expired leases of a run has a
least element, from well-founded induction on the natural numbers.

The history theorems add `Behind(p)` to `Inv`, per run, and show that each group of
actions preserves it and keeps ended activations ended.

The thread theorem adds `BoundSubmitted`: threads and agent calls are about runs
that were submitted. Without it a submission that stores its run as FAILED, which
looks at no binding, could be the end of a bound run. Each action is shown to
respect a thread (`Respects`): the two tails that end runs, `Complete` and
`CancelRuns`, through what they pass to `Settle`, the others because they neither
fail nor cancel anything.

The refinement is a step simulation: `OutcomeOf` and `EndedOf` map each action, one
run at a time, to `Order`, `Work`, `Reopen` or `Stay`. That the end of an activation
is beyond all that ended, and that nothing ends on a closed run, is what the history
invariant gives: an executing worker is never behind an ended activation.

`ReportWakesCaller` needs `ReportInv`: a run whose current activation has ended, or was
given back by a recovery or a stop, holds no lease. So a worker that completes under its
lease completes the current activation of an executing run, and parks it only when
no report is there; every other step either leaves the run's report and its waiting
alone or resumes it (`Sees`).

`WaitingCallerIsTold` follows a called run from its submission to the mark of its
caller. `CallInv` says of every agent call that still expects a mark: as long as the
worker that calls has its lease, a report is there or the called run's is owed (`Owed`: it
is open, or it ended unreported). Each group of actions is shown to tell every pair of
a caller and a called run (`Tells(p, d)`): reports of `p` stay until `p` gets a new activation without a lease
(`Carries`), a run whose report is owed stays so, or its caller has a report or is woken
(`Follows`), and `p` is parked only by a mark (`Parks`). So between a report and the mark nothing consumes it while the
calling worker has its lease, and a step that deserts a caller that was parked
before ended the run it waits for unreported.

### The stores

A step of one part leaves the variables of the others unchanged, so `StoresInv` is the
conjunction of one invariant per part, each preserved by the steps of its own part.

- *Rows.* `RunInv` says, for every transaction between its reads and its write, what
  of that which it read still holds, whatever others committed: a claim that it
  locked is as it was; an end that it decided on is one only if the run was open. From
  it `RunStepOK` follows for each write: the invariant, `LeaseStep` (a lease is lost in
  one of the three overlaps) and `ReportStep` (a report is missed by a mark). The
  invariant must speak about transactions that read an old status, because those are
  what the overlaps are made of: with only committed rows it is not inductive.
- *Taskflows.* `TaskflowInv` says of every copy, saved or held by a handler, that what it
  shows as confirmed was confirmed and what it shows as agreed was agreed (`Truthful`).
  Copies overwrite each other, and each remains truthful, since confirmations are never
  taken back. `OneByOneInv` is about requests one after another: the one copy
  that a handler holds is the saved one, and where the plan was overtaken it is stale.
- *Assignments.* `CancelIsSafe`: a cancelled assignment is saved as cancelled, and no
  handler holds another copy, unless it overlapped the cancel.

### The workers

- *Steers.* A claim that is not the holder of the lease has nothing pending that is
  being delivered; a steer that a worker has received is being delivered or delivered.
- *Events.* Each event that was produced is counted in exactly one place: in the
  channel, in the request under way, with those kept for the completion, with those
  given up, dropped by a cancelled executor, or in the log (`Count`); and once in its
  place (`QueuedOnce`). The timed out request that is executed late is the only
  way for two copies.
- *Streams.* `InOrder`: the frames on the wire and in the queue continue the tokens
  that were shown without a gap, and a terminal frame comes last, where the provider
  has ended. What the reader shows is therefore the beginning of what its request was
  answered, and a response merges exactly what was shown.
- *Chat workers.* `Execution` relates the records of one execution (how far it is, what
  it emitted, what is stored, its lease); the run of a worker is busy exactly while
  the worker holds it, and a busy run is that of its worker. Hence a worker that has the lease of an ended run does
  not exist, and no late step of an execution moves such a run (`Keeps`, which
  `DecisionIsKept` lifts to behaviours).
- *Turns.* The calls without an answer are those still to do, and there are none at the
  top of a round, where the history is compressed, or between chats. After a stop at most one
  compression is begun: what follows one is the top of a round, where the stop is seen.
- *Files.* `Whole(c)`, for a call whose files nobody else wrote, says for every phase what
  the files, the plan and the snapshots have in common: until it writes, the files
  are as they were and each planned content is that of the beginning with its
  section's edit; while it writes, the snapshots hold the beginning and the
  sections before its step are done; while it restores, only files whose snapshot is
  still to be put back differ; where it goes on after a failure, fewer files differ than
  reads and writes failed. That needs that no content holds edits of a call before it
  made them (`Foreign`, `Outside`), and `Progress`, which says where `step`, `plan` and
  `saved` may be. A step of another call either leaves the files of `c` alone
  (`FilesLeft`) or has met `c` (`FilePut`).

### The services

- *Local actions.* `LocalInv`: a peer that never gave a request up has at most one at the
  server (`OneRequest`), also after it stopped, because it sends the next one only when the
  last was answered. So what a request found (`Found`: what it still means to install is not
  installed, and where it is about to create an install none is active) stays so
  until it creates it: only a request of the same peer could record a result or create
  another install, and every other step leaves no more installs active than there were
  (`Fewer`). `LocalMoves` sorts the steps into those that leave the actions alone, move an
  open one under its lease, create one or claim one; that a lease holds and that an
  ended action stays so is shown for each kind. `FirstAction`, that a set of numbers has a
  least one, is well-founded induction.
- *Peers.* `RelayInv`: between the start and the end of a disconnect, every open session of
  the peer is one that the handler has still to abort, one of a package, or one that
  started meanwhile.
- *Packages.* `IngestInv`: an approval that allows is of a candidate the user allowed, from
  the click to the installation, which is the last step of the thread; a revision is queued
  once; each activation after the first comes from a repair or a consumed revision, so
  their number is bounded (`ActsInv`), and so is how often an event is shown (`ShownInv`).
- *Pull requests.* `Counted(c)`: as long as a comment has no assignment, its follow-ups are
  at most what failures and restarts allow and one per thread that has created one and
  not yet linked it. Once it has one, they and the threads that still mean to create
  one are at most one allowance more: those threads looked before the assignment was
  linked, and a thread is at one step at a time (`AtBoth`). A failure that clears the
  assignment pays for going back to the first form.

### The sessions

- *Starts.* `RunFacts` and `HandlerFacts` tie what a handler works on to the request it was
  created for. `Undisturbed(q)`, for a request without overlapping repetitions and
  whose projection was not lost: one handler works on it, a handler that found no
  projection has none to find, and its one SessionRun keeps the projection that answers
  the repetitions.
- *Ends.* `LogFacts`: an activation says its end at most once, and not after it was
  completed. `BufFacts`: what is shown carries the position in the log it comes from,
  in order; an end that is shown after another one that the buffer still holds was said by
  the executor, since the fallback that makes an end of a completion looks at what is held. So two ends
  of one activation, the earlier one held, would be two said by it. A poll projects only positions after
  the cursor, whatever it listed.
- *Event buffers.* `Held`: what a buffer dropped of its kind is before all it holds, and it
  holds something unless all it ever had was emptied out by an event above the bound of
  bytes (`Emptied`). Hence a notice, which names the number before the first that is held,
  covers everything else that was dropped after the client's cursor (`NoticeCovers`). `ReadKeeps` is the
  step where this is needed: an event that is not given was dropped, or lies behind a base
  that was dropped, and then every event up to the base is covered by the notice of the
  replayable buffer, or the base was emptied out. `PieceFacts` adds to the order of the pieces that those pending come
  after those in the log.
- *Questions.* `Question(i)` ties the waiter, the record and what the MCP server got to
  the step of the question; `Settled` that no answer is recorded over another, which holds of
  what a cancel has still to show (`OwedFacts`);
  `ReplyFacts` that what a window heard fits the record. Actions are shown to move a
  question forward only (`Later`), from which everything that was shown or heard stays
  true.
- *Branches.* `FailedIsSeen`: an active binding of a failed run has a request on it that
  is past the write of its copy and before the look at the run, or has seen the failure
  (`WillClose`). `SelectionFacts`: what a request writes is selected, and deselects only
  others.

The invariants of the compositions were checked by TLC as invariants of small
instances before they were proved. Proving changed the models in a few places: bounds are
assumed to be as large as the code needs (one activation, two events), questions that a
proof asks of a value became typed (histories are natural numbers, the inputs of an
activation a set), what was bounded only by the size of an instance got a bound of its own
(webhook deliveries), and fairness and scopes moved to the modules for TLC. `SessionEvents`
appends a batch of events at once and prunes afterwards, where the code prunes after each:
of each buffer the newest that fit are left either way. `SessionRunTerminal` takes the positions of a
batch as a set, whose entries it lists in order.

### Not proved

- All liveness: `LostRunIsRecovered`, `AgentCallAnswered`, `CancelReachesWorker`,
  `NothingHangs`, `ReportedEndIsShown`, `ActionEnds`, `MergedIsSeen`. Liveness under
  fairness and `ENABLED` are beyond this prover.
- What a recursive definition computes for every input is beyond the prover;
  `CallTree` is a recursive function of which the proofs use only that its value is a
  set of runs.

## Where the repository says otherwise

Five disagreements of the core are standing runs (above). The following are stated at
the end of the component modules, under their own heading: each is a sentence of a
document, a comment or a test of the repository in the terms of the module, and TLC
finds a behaviour of the code that breaks it. To see it, give the module a
configuration with constants as in its composition and the definition as its property
(under `FairSpec`, `LiveSpec` or the module's `Spec` with its fairness for those that
say "eventually").

| Definition | What the code does | What it is measured by |
|---|---|---|
| `PostgresAgentRunStore!ContinuationGetsActivation` | continue_agent_run reads the run and MAX(seq)+1 without a lock and upserts the activation: two continuations at the same time both succeed and share one activation, whose input is that of the later one. (`services/agent_runtime/postgres_store.py:3011`) | docs/superpowers/plans/2026-06-17-sessionrun-agentrun-execution-convergence.md:33 says of a continuation that it creates the next activation on the mainline (在同一 mainline 上创建下一 activation) |
| `PostgresAgentRunStore!WaitingCallerIsAnswered` | mark_agent_call_waiting checks the status without a lock and then updates unconditionally: when the caller is completed, stopped or recovered in between, the late mark parks a caller whose report is already there and nothing looks for it again. (`services/agent_runtime/postgres_store.py:1513`) | src/reuleauxcoder/extensions/tools/builtin/agent.py:420 says of wait: "Whether the mainline should wait for the target result." |
| `PostgresAgentRunStore!WaitingCallerHasCall` | recover_host_restarted_agent_runs fails every run in flight with plain updates and makes no report to callers, so a caller that waits for such a run stays WAITING for ever. (`services/agent_runtime/postgres_store.py:2175`) | src/reuleauxcoder/extensions/tools/builtin/agent.py:420 says of wait: "Whether the mainline should wait for the target result." |
| `PostgresAgentRunStore!CancelHitsItsActivation` | cancel_agent_run decides by a status read in an earlier transaction; its request can be inserted after the activation it was meant for has ended and resolved the requests, and the next activation's heartbeat obeys it. (`services/agent_runtime/postgres_store.py:3166`) | docs/superpowers/plans/2026-06-17-sessionrun-agentrun-execution-convergence.md:98 says that a cancel maps to the current activation or a run cancel (映射到 selected branch binding 对应 `AgentRun` 的当前 activation 或 run cancel) |
| `ActivationSteers!SteerIsResent` | A heartbeat response offers only QUEUED steers and marks them DELIVERING; when the worker gives the response up, they stay DELIVERING for its claim and are offered to nobody until the lease lapses. (`CP:3968`) | docs/superpowers/plans/2026-06-17-sessionrun-agentrun-execution-convergence.md:234 says "未 delivered 的 steer 允许在 heartbeat 后续响应中重送" (a steer that is not delivered may be sent again with a later heartbeat) |
| `ActivationSteers!DeliveredIsConsumed` | The steer buffer goes on receiving after its last drain, and the heartbeat names what it received: a steer becomes DELIVERED although no turn used it. (`reuleauxcoder-agent/internal/agentruntime/subprocess.go:47`) | docs/superpowers/plans/2026-06-17-sessionrun-agentrun-execution-convergence.md:233 says "steer delivery 状态必须闭环：accepted -> delivered -> consumed 或 rejected/expired/cancelled。" |
| `RuntimeEvents!AppendedOnce` | sendLiveRuntimeEvent keeps an event for the completion whenever its request returned an error, also when it timed out after 10 seconds and the server appended it; events have no id by which the server could tell. (`reuleauxcoder-agent/internal/runner/runner.go:288`) | docs/agent-run-session-run-contract.md:79 says "AgentRun live event 成功写入后，complete 不能重放；live 发送失败的事件由 complete 补交。" (complete must not replay a live event that was written) |
| `ModelStream!EveryStreamEnds` | When the queue of a stream stays full for 0.1 s, enqueue_event sets stop_event, after which enqueue_terminal_event drops the terminal event; the writer loop (713) only ends on a terminal event or a failed write, so it writes heartbeats to its connected client for ever. (`interfaces/http/remote/routes/agent_runs.py:665`) | docs/agent-run-session-run-contract.md:55 says "每个流式请求必须以 `done/error/interrupted` 之一结束。" (every streaming request must end with one of them) |
| `ModelStream!ContinuesWhatWasShown` | Every recovery attempt is built from the partial response of the first request, and streams through the same on_token: what a failed attempt showed is neither in the next request nor in the response. (`reuleauxcoder/services/llm/client.py:462`) | The prompt at src/reuleauxcoder/services/llm/client.py:602 calls its text "Already delivered assistant text" |
| `PeerRelay!DisconnectIsFinal` | The disconnect handler never revokes the peer token, and update_heartbeat sets any known peer online again: a heartbeat handled after the disconnect (the Go agent's heartbeat loop is only stopped after its deferred disconnect request) revives the registration until the next timeout. (`relay/peer_registry.py:61`) | src/labrastro_server/relay/auth.py:93 says "Revoke a peer token explicitly (e.g. on disconnect)."; nothing calls it |
| `SessionRunTerminal!OneTerminalState` | The cancel handler writes session_run_cancelled whether or not the projection has already shown an end of the same activation, and a worker that was asked to cancel may still complete and have its session_run_end shown afterwards. (`interfaces/http/remote/routes/chat.py:1215`) | docs/agent-run-session-run-contract.md:75 says "SessionRun cancel 必须停止关联 AgentRun、sandbox/model-request 和投影循环，并只写一个用户可见终态。" (only one user-visible terminal state) |
| `SessionRunTerminal!CancelIsShown` | The requested flag of a branch is never reset, so a cancel after a continue is not a first request and the handler writes nothing; the projection skips the cancelled event as well, because the branch already has one (service.py:925). (`interfaces/http/remote/service.py:2331`) | docs/agent-run-session-run-contract.md:75 says a cancel writes one user-visible terminal state ("只写一个用户可见终态") |
| `SessionRunTerminal!ReopenedStreamStays` | has_branch_terminal_event_at_or_before counts terminal events of every activation of the branch: after a continue, the events handler answers done at once to a client that has seen the first end, although the run is active. (`interfaces/http/remote/service.py:805`) | docs/agent-run-session-run-contract.md:77 says "使窗口重开后继续观察同一个任务" (a reopened window goes on observing the same task) |
| `SessionEvents!EveryLossIsAnnounced` | _prune drops until the bytes fit, so an event above max_total_bytes empties its buffer, and events_after makes a notice only where the buffer holds something: a client that reads an event of the other buffer passes the loss and is never told. (`interfaces/http/remote/service.py:442`, `550`) | docs/superpowers/plans/2026-06-12-draft-live-stream-execution-matrix.zh-CN.md:343 says "`events_lost` / offset gap 有明确降级" (a gap of events has a definite fallback) |
| `CapabilityIngest!CancelEndsWorkflow` | The approval is registered without looking at cancel_requested again, and wait_approval has no timeout: when the whole cancel was handled since the check before _completed_draft_status, the thread waits for an approval that was not pending when the cancel denied the pending ones. (`services/capability_packages.py:2610`) | docs/agent-run-session-run-contract.md:75 says "SessionRun cancel 必须停止关联 AgentRun、sandbox/model-request 和投影循环" (a cancel must stop the projection loop) |
| `CapabilityIngest!CancelStopsRun` | cancel_agent_run leaves a completed run alone; _continue_revision_ingest then queues its next activation without looking at cancel_requested, and the loop returns at its next check without a cancel of that activation. (`services/capability_packages.py:2487`) | docs/agent-run-session-run-contract.md:75 says "SessionRun cancel 必须停止关联 AgentRun" (a cancel must stop the linked AgentRun) |
| `CapabilityIngest!ShownOnce` | _project_agent_run_events starts with cursor = 0 for every activation and appends what it lists to the SessionRun, beside the cursor the SessionRun keeps for the same AgentRun. (`services/capability_packages.py:2514`) | docs/agent-run-session-run-contract.md:87 says "没有 workflow 绕过 SessionRun projector。" (no workflow goes round the SessionRun projector) |
| `UserInputs!EndedIsShown` | The question is registered before user_input_request is appended. A cancel between the two appends user_input_resolved first, and the handler's own resolution is dropped as a duplicate (service.py:1310), so a window shows a question nobody waits for. (`reuleauxcoder/interfaces/entrypoint/runner.py:559`) | docs/superpowers/plans/2026-06-04-lifecycle-hooks-adr-conformance-matrix.md:45 says "ChatView receives `user_input_request`, renders a pending input path, posts `sessionRun.userInput.reply`, handles ok/error replies, clears `user_input_resolved`" |
| `SessionBranches!OneSelected` | Reactivating a binding for a continue keeps its selected flag and does not deselect the other active bindings, as upsert_session_run_binding does: with the in-memory control plane two active bindings of a SessionRun are selected (with Postgres the UPDATE violates the index and the continue fails). (`CP:2242`) | labrastro_server/infrastructure/persistence/migrations/versions/0001_postgres_control_plane.py:231 says "CREATE UNIQUE INDEX IF NOT EXISTS idx_labrastro_session_run_bindings_selected", over (session_run_id) "WHERE selected = true AND status = 'active'" |
| `SessionBranches!SelectIsShown` | upsert deselects only the active bindings, so the closed binding of a failed branch stays selected; sync_branch_bindings then lets the last selected entry of the list win, whatever its status: the projection points at the failed branch after another one was selected. (`interfaces/http/remote/service.py:1157`) | docs/superpowers/plans/2026-06-18-sessionrun-operation-model-execution.md:53 says "optional and branch select switches an existing SessionRun branch binding." and names as success result the "canonical selected branch binding id" |
| `SessionRunStart!OneRunPerRequest` | The lookup by client_request_id and the creation of the projection are two critical sections, and the id is kept only in the projection (not in the binding): an overlapping repetition, or one after the projection was collected or recovered, starts a second AgentRun. (`interfaces/http/remote/routes/chat.py:720`) | docs/superpowers/plans/2026-06-18-sessionrun-async-correlation-architecture-repair.md:68 says "`clientRequestId` remains backend idempotency or activation routing metadata." |
| `TaskflowDispatch!RecompiledFirst` | Every operation saves the whole copy it loaded, without comparing state versions: a request that overlaps an override overwrites its stale marks. (`taskflow/application/taskflow_service.py:237`) | tests/labrastro_server/services/taskflow/test_v1_control_plane.py:286 "test_compiler_decision_override_blocks_dispatch_until_recompiled" |
| `TaskflowDispatch!SnapshotIsImmutable` | The version is the loaded current version plus one: two overlapping turns make the same version with different content. (`taskflow/application/brief_service.py:27`) | tests/labrastro_server/services/taskflow/test_rich_taskflow_flow.py:244 "test_brief_snapshot_is_immutable_and_compile_requires_fresh_confirmation" |
| `TaskflowDispatch!AgentRunIsLinked` | The project snapshot loaded before the AgentRun is submitted is saved whole after it: two overlapping dispatches of a project lose one TaskRun, whose AgentRun runs. (`taskflow/application/taskflow_service.py:804`) | tests/labrastro_server/services/taskflow/test_v1_core_loop_hard_checks.py:117 "test_dispatch_result_links_task_run_to_agent_run" |
| `PullRequests!FollowupOnce` | Whether the comment has an assignment is looked at when it is saved, and the assignment is kept only after it was created: a webhook and the reconciler at the same comment, or two deliveries for it, create two. (`services/github/service.py:315`) | tests/labrastro_server/services/github/test_service.py:169 "test_webhook_review_comment_is_idempotent_and_creates_followup_assignment" |
| `IssueAssignments!WorkItemIsOwn` | The taskflow's candidates accumulate and the work item is that of the first candidate of the compiled plan: every later assignment of an issue, and every later dispatch of one, gets the work item of the first. (`services/collaboration/service.py:268`) | labrastro_server/services/collaboration/service.py:236 "The assignment creates a traceable WorkItem.", and tests/labrastro_server/services/collaboration/test_issue_assignment_service.py:86 "assert item.metadata[\"assignment_id\"] == assignment.id" |
| `IssueAssignments!CancelIsFinal` | The status is read when the request starts, and the assignment is saved whole after the dispatch: a dispatch that overlaps a cancellation starts its AgentRun and overwrites the cancelled status. (`services/collaboration/service.py:289`) | labrastro_server/services/collaboration/service.py:290 "cancelled assignments cannot be dispatched" |
| `SessionRunWorker!StopSurvives` | The executor registers the agent before its chat starts, and the chat clears the stop first: a cancellation in between is lost, and the heartbeats have ended, so that the agent works to its end and the lease lapses. (`reuleauxcoder/domain/agent/agent.py:1184`) | reuleauxcoder/domain/agent/agent.py:296 "Request cooperative stop for the current/next agent loop iteration." |
| `SessionRunWorker!EndedBeatStops` | stop_agent_run_activation drops the claim and the cancel request; the next heartbeat answers claim_not_found without cancel_requested, and the worker ends its heartbeats without stopping the agent (the Postgres store answers with cancel_requested). (`CP:3045`) | docs/agent-run-session-run-contract.md:75 "SessionRun cancel 必须停止关联 AgentRun、sandbox/model-request 和投影循环" |
| `SessionRunWorker!WorkKeepsLease` | The worker of peer runs claims with the default lease of 15 seconds and sends no heartbeat: a chat that takes longer is requeued while it runs, its completion is refused and its prompt executed again. (`reuleauxcoder/interfaces/entrypoint/remote_relay.py:1869`) | docs/agent-run-session-run-contract.md:81 "AgentRun 不允许存在隐藏业务 wall-clock deadline" |
| `AgentTurn!ActiveIsOpen` | No path that cancels the draft clears the checkpoint it was restored from, and neither does the commit after the summary: the next chat streams into a draft that was shown as cancelled or committed. (`reuleauxcoder/domain/agent/loop.py:672`) | docs/agent-tool-contract-correction-guide.md:280 ends a draft with "draft_commit_denied \| draft_committed \| draft_commit_failed" and has no way back to draft_streaming |
| `AgentTurn!RecoverableKept` | The checkpoint is an attribute of the agent, and the workers make a new agent for every activation: the draft that was announced as recoverable is gone when the user continues. (`reuleauxcoder/interfaces/entrypoint/remote_relay.py:1755`) | docs/agent-tool-contract-correction-guide.md:289 "`draft_interrupted_recoverable` 显示“文档草稿已保留，可继续生成”。" |
| `AgentTurn!StopAsksNoMore` | The stop is looked at before a round, and neither before the request that compresses the history nor before the summary that follows the last round. (`reuleauxcoder/domain/context/manager.py:681`, `reuleauxcoder/domain/agent/loop.py:896`) | reuleauxcoder/domain/agent/agent.py:296 "Request cooperative stop for the current/next agent loop iteration." |
| `AgentTurn!StopIsReported` | The usage event of a stopped chat says cancelled, session_run_end has no status and counts as done: the executor completes the cancelled run. (`reuleauxcoder/domain/agent/agent.py:1278`) | src/labrastro_server/services/agent_runtime/executor_backend.py:592 "if status == \"cancelled\":" waits for a status that the agent never sends |
| `FileMutations!StalePreviewFails` | The saved candidate holds whole new contents and no expected state; neither save_candidate nor the peer's applyPatch compares the files with the preview, so a change made in between is overwritten. (`reuleauxcoder/domain/files/file_mutation_service.py:325`, `reuleauxcoder-agent/internal/tools/execute.go:567`) | docs/agent-tool-contract-correction-guide.md:433 "preview 后文件被改 -> Go execute 返回 stale preview -> 文件不变" (a file changed after the preview makes execute fail and stays as it is) |

`TaskflowDispatch!RecompiledFirst` and `SnapshotIsImmutable` hold when requests come
one after another, and are broken by two that overlap.

Some true properties are kept in the modules though no standing run lists them
("checked with this module alone"): `AgentTurn!WrittenOnce` and `ChatEnds`,
`CapabilityIngest!RevisionFreesWait`,
`ModelStream!ThreadsEnd`, `PeerRelay!DeadPeerGoesOffline`,
`SessionRunWorker!DecisionHolds`, `Finishes` and
`Requeued`; `DecisionHolds` is also proved (`DecisionIsKept`). The types of `Services` are
proved (`ServicesAreTyped`) and not among the invariants of its run.

## Not modelled

Within the control plane: bindings with run lifetime, branch and fork runs (as runs
of the control plane; their bindings are in `SessionBranches`), agent call grants,
worktree cleanup, sessions of the sandbox provider, `create_or_update_pr`.
`fail_agent_run` and the unclaimed completion are public but nothing in the
repository calls them in memory mode. In the Postgres store: thread bindings,
cascaded cancels, artifacts and slots.

Components, with the reason:

- worktrees and sandbox provider: git commands, file systems and containers, whose
  behaviour is not in this repository; the core has whether a run has a sandbox;
- tool execution: the calls of a round are executed and answered in `AgentTurn`, those
  of apply_patch in `FileMutations`; hooks, the other tools and the rules that decide
  a permission are left out (a permission allows or denies);
- auth service: requests that read and write records of users, devices and tokens;
  what matters about them is for a review of their security;
- admin service, environment runs: edits of configuration, and submitters of
  AgentRuns that the core already has as an input;
- context and memory, capability extraction and drafts, compiler candidates, cards:
  transformations of text and documents, for which this development has no property;
- extensions, CLI and TUI, configuration, migrations, the Go tools: I/O and schema.

`map` covers about a tenth of the implementation's lines. Most of the others are the
parts above: parsing, validation and rendering of documents, configuration models,
user interfaces and I/O, in which nothing runs concurrently and no step depends on
the order of others.

## Plan

1. Branch and fork runs, bindings with run lifetime and worktree cleanup in the core.
2. Sandbox sessions and stops in the liveness model, where so far only
   `DesertedOnlyUnreported` says which callers go unanswered.
3. The rest of tool execution: approvals against timeouts and reloads, trust of hooks, between
   `AgentTurn` and the permission gateway.
4. The Postgres store as an implementation of `AgentRunOutcome`, for the overlaps
   that keep its promise.
5. Abstract specifications of single parts, in the way of `AgentRunOutcome`: the log that
   `RuntimeEvents` fills, the answer that `UserInputs` delivers.
