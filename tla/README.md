# Formal models of Agent Online

Agent Online runs coding agents for users: a *Project* owns a conversation and one
logical *sandbox lease*; each user message starts an *AgentRun*, executed by a Cloudflare
Workflow that creates or reuses an E2B sandbox, starts the `pi` agent in it, follows its
output and publishes the outcome in D1. Several isolates, started and lost at any time,
act on the same D1 rows and the same Provider sandbox. Beside Runs, a user may open a
Terminal in the sandbox, preview a web page from it, read and upload files and stop or
delete it all; agents call their model through a gateway of the system, and a browser
follows what happens. This directory models these parts in TLA+, checks them with TLC and
proves the main results with TLAPS.

All paths below are relative to the repository root.

## 1. Inventory

| Component | State it keeps | Operations | Interacts with | What makes it correct |
|---|---|---|---|---|
| Status machine (`src/domain/agent-run.ts`, triggers of `migrations/0001`, `0006`) | `agent_runs.status` | transitions | every writer of a Run | one active Run per Project, terminal is final, only legal transitions |
| Repositories of Run and Lease (`src/server/persistence/d1-agent-run-repository.ts`, `d1-sandbox-lease-repository.ts`) | rows of `agent_runs`, `messages`, `sandbox_leases` | one statement or batch each, most a compare-and-set | all services | a writer with a stale snapshot writes nothing |
| `CreateAgentRunService` | none of its own | insert queued Run, start the Workflow, fail the Run if that faults | D1, Workflow | no second active Run; a failed dispatch converges |
| `RunCoordinator` / `ManagedRun` | in memory: last read Run and Lease, Provider reference, process flags, completion promise, operation queue | `start`, `consumeEvents`, `cancel`, `complete`, `fail`, `terminateExecution` | D1, sandbox runtime, agent runtime | stop the agent before publishing the end; release the Lease before the Run ends |
| `RunExecutionService` | in memory: the Run and Lease an attempt or request read | `execute` (start or recover), `cancel` | coordinator, D1, sandbox runtime | one owner per Run; recovery never publishes an end without a confirmed stop |
| Workflow and dispatcher (`src/server/agent-run-workflow.ts`, `run-execution-dispatcher.ts`) | durable step state | execute step with one retry and a hard timeout, idle cleanup, expiry of Terminals and Previews | services | every dispatched Run ends |
| `SandboxReclaimer`, `ProjectSandboxService` | the Lease a cleanup read | cleanup after a Run, after an activity, manual stop: detach by one UPDATE, then stop | D1, sandbox runtime | never stops a sandbox in use |
| Sandbox runtime (`src/runtime/e2b-runtime.ts`, `e2b-sessions.ts`) | Provider sandboxes and processes; event queues in memory | `ensureLease`, `startProcess`, `terminateProcess`, `stop`, terminals, previews, files | E2B | a confirmed kill is a kill; events keep their order and bounds |
| Terminal (`project-terminal.ts`, `d1-terminal-session-repository.ts`, `terminal-api.ts`) | `terminal_sessions` row (a hard lock), the Lease, a PTY, timers | `open`, input, close, `expire`, isolation of the sandbox | Lease, Runs (excluded), Workflow expiry | excludes Runs; the lock ends only when the PTY is gone |
| Preview (`project-preview.ts`, `d1-preview-session-repository.ts`, `preview-api.ts`) | `preview_sessions` row, a dev server process | `start`, `inspect`, `stop`, `expire`, `fetch` | Lease; may coexist with a Run | blocks stop and cleanup while it runs; ends after its expiry |
| Project management (`project-management.ts`, `d1-project-repositories.ts`) | `projects`, archive of usage | create, rename, delete | all of the above | no usage is lost, nothing of the Project stays alive |
| Admission (`d1-model-admission.ts`, `migrations/0009`) | counters per user and Run | acquire, release, hourly and daily limits | model gateway, inserts | limits hold at their boundary; no permit is lost |
| Model gateway (`model-gateway*.ts`, `run-capability.ts`) | token of a Run, usage | one streamed model call | admission, provider of the model | usage recorded once, permit released on every path |
| Run context (`run-context.ts`), agent protocol (`json-lines.ts`, `pi-runtime.ts`) | none; a partial record | choose the history of a prompt; read Pi's records and its answer | execute, coordinator | the newest history that fits; the answer whole, whatever the chunks |
| Console (`project-console.tsx`, `project-queries.ts`, `api.ts`) and lifecycle stream (`run-lifecycle-stream.ts`, `agent-run-api.ts`) | caches of the browser: the followed Run, pages of Messages, requests in flight | poll, stream, page, create, cancel, synchronise at the end of a Run | HTTP API | the outcome and the reply of a followed Run are shown, without a gap |
| Terminal socket (`terminal-api.ts`, `terminal-client.ts`, `project-terminal.tsx`) | a chain of messages, timers, the socket; the phase of the view | attach, input, resize, close, pump | Terminal | no Terminal outlives its socket; the view never hangs |
| Preview content (`preview-api.ts`, `preview-capability.ts`) | none; signed URLs | issue, verify, forward, rewrite | Preview | a URL is good as long as its session; links stay below it |
| Files (`project-files.ts`, `e2b-files.ts`) | the workspace | list, read, upload | Lease, sandbox | uploads are whole and overwrite nothing |
| Changes (`project-changes.ts`, `e2b-changes.ts`, `git-changes.ts`) | none; several git commands | list, diff | Lease, sandbox | what is shown belongs together, or is an error |
| Usage and listings (`d1-user-usage-repository.ts`, `project-insights.ts`, `project-read.ts`, `migrations/0008`) | usage of Runs, archive | record, archive, summarise, page | D1 | nothing lost or counted twice; no row skipped |
| MCP, other routes, observability | none that others rely on | reads, rendering | | |

Behaviour that is hard to get right here, and to test: the interleaving of a Run's owner
with cancel requests, with a retried attempt that takes the owner for dead, and with
cleanups of earlier Runs; Provider calls whose effect is unknown after a fault; isolates
lost between any two awaits; compare-and-set losers that must notice what they lost;
timers that fire behind an operation that already ended. `PROJECT.json` lists each hazard
at its line.

## 2. Modules

| Module | Models | Role |
|---|---|---|
| `AgentRunStatus` | statuses and transitions | pure definitions |
| `AgentRunLifecycle` | what a reader of D1 sees of a Project's Runs | abstract specification |
| `ProjectStore` | the shared state and its indivisible operations | used by all below |
| `RunCoordinator` | `ManagedRun`, the in-memory owner of a Run | component |
| `RunExecutionService` | creation, Workflow attempts, recovery, cancel requests | component, extends the coordinator |
| `SandboxReclaimer` | idle cleanup and manual stop | component |
| `RunExecution` | all of them over one store, fairness, the properties | composition |
| `MCRunExecution` | constants for TLC | |
| `ProjectOccupancy` | who may occupy a Project, and until when | abstract specification |
| `WorkspaceStore` | the rows and processes that Terminals, Previews, Runs and cleanups of one Project share | used by the next four |
| `ProjectTerminal` | `ProjectTerminalService`, the managed Terminal, its expiry Workflow | component |
| `ProjectPreview` | `ProjectPreviewService` and its expiry Workflow | component |
| `ProjectSandbox` | idle cleanup after an activity, manual stop, deletion of the Project | component |
| `Workspace`, `MCWorkspace` | all of them over one store, fairness, the properties; the instance for TLC | composition |
| `OutputStream` | what the reader of a session's events is promised | abstract specification |
| `EventQueue` | process and terminal sessions over an `AsyncEventQueue` | component |
| `TerminalSocket` | both ends of a Terminal's WebSocket, and the view | component |
| `ModelGateway` | admission of Runs, Terminals and model requests; a request, await by await | component |
| `PreviewContent` | stages of a Preview's start, the port, content URLs and their capability | component |
| `RunConsole` | the browser's console with its queries, polls and stream | component |
| `ProjectFiles` | uploads of one name and a read beside a Run | component |
| `ProjectListing` | a listing read page by page while rows change | component |
| `UserUsage` | usage of Runs, its archive at deletion, the summaries | component |
| `RowOrder` | what `ORDER BY` makes of the rows of a query (external) | used by the two above |
| `ProjectChanges` | a listing and a diff from several git commands | component |
| `PiAnswer`, `RunContext`, `GitChanges`, `Conversation`, `ProjectPaths`, `ModelRequest`, `ModelAnswer`, `RunCapability`, `PreviewUrls` | algorithms without state, each with a reference that says what it computes | pure operators |
| `Selections` | what a filter and a sort make of their input | used by five of them |
| `Algorithms` | samples of the algorithms' inputs | one invariant over all of them |
| `MCComponents` | the machines that share no state, one at a time | composition for TLC |
| `RunCoordinator_proofs`, `RunExecution_proofs` | the Run path: types, one owner, the refinement of the lifecycle and what it entails | TLAPS |
| `RunSafety_proofs` | the safety of the Run path: statuses, agents, Lease, stops | TLAPS |
| `Workspace_proofs` | the workspace: types, the refinement of the occupancy | TLAPS |
| `WorkspaceSafety_proofs` | the workspace: what is detached is unused | TLAPS |
| `Components_proofs` | gateway, uploads, changes, content URLs, queues, listings, usage | TLAPS |
| `ListLemmas` | numbers, folds, parts of sequences, concatenations, orders | TLAPS, used by the two beside it |
| `Algorithms_proofs` | the eleven algorithms, for every input | TLAPS |

### State and actions

An action is one D1 statement (or batch) or one Provider call, with the synchronous code
up to the next `await`; everything between two awaits can be interleaved. `pc` names the
await a process is about to perform; the other fields are the locals and members that
later code reads, so that a stale snapshot is stale in the model too.

* `status, processRef, reply, newest` are the rows of `agent_runs` and `messages`;
  `lease` is the row of `sandbox_leases` with `updated_at` as `version`. A write picks the
  next version from `lease.version + t`, `t \in Ticks`; `Ticks = {0}` is a clock whose
  milliseconds never advance.
* `sandbox` and `agentIn` are the Provider's truth, which no program variable mirrors: a
  fault may leave a sandbox or a process behind that no isolate knows. A sandbox is named
  after the Run that created it, because `start()` calls `ensureLease` once.
* `mgr[r]` is the `ManagedRun` of a Run. `ctx` says who would catch a throw (the `catch` of
  `start`, of the event loop, of `failSafely`, or nobody but the deadline's promise);
  `Thrown` is that dispatch. `goal` is the argument of `complete`, or "fail" for `fail`.
  The mutex `serialized` needs no variable: its operations run one after the other, and
  `DeadlinePasses` may insert the deadline's cancel at each point where the queue is free.
* `caller[r][k]` is a Workflow attempt (k a number) or a cancel request of Run r. Both end
  in `releaseRunProcess` and a compare-and-set, so they share those actions.
* `dispatch`, `dispatched` follow the creating request; `reclaim` the cleanups in flight.

Reads that only save work (the early checks of `stopAfterRunIdle`, of
`ProjectSandboxService.stop`, and of `recordSandboxDuration`'s early returns) are merged
with the statement that repeats them; the statement alone decides. In `completionWithTimeout`
a rejected completion and a rejected deadline are the two ways its race can reject.

The modules around the workspace repeat the store in another grain. A Run is only what
others see of it (inserted, takes the sandbox, ends), but the Lease meets the rows of
Terminals and Previews, and the PTY and the Vite process in the sandbox are state.

* `terminal` and `preview` are the one row that `terminal_sessions` and `preview_sessions`
  can have for a Project; `shell[t]` and `vite[p]` say in which sandbox a process really
  lives. `term[a][t]` and `view[a][p]` are the locals of whoever works on a session: the
  request that opened it, its expiry Workflow, a later request.
* `updated_at` is compared for equality with a value read before, and never ordered, so
  `seen` keeps who has read the Lease since its last write. (Equal timestamps are the
  subject of `same_tick`.)
* `wakes` and `timers` are the expiry Workflows that exist, `idle[x]` the idle cleanup that
  a released session scheduled, `stop[u]` a request to stop the sandbox or delete the
  Project.

The machines of `MCComponents` model one await or callback per action, too. Their state is
the members and locals of the code: the queue's `pending` and waiting producers, the
socket's `operations`, the gateway's counters and lock, the console's caches and requests
in flight, and so on; each module's header says what its data stands for. Data is cut to what
the properties tell apart: a chunk is its number and size, a Message its sequence number, a
diff its size, a link its form and segments.

### Faults

`MaxMishaps` bounds the number of Provider faults, database faults, overtaking attempts and
lost isolates in one behaviour. A
fault of a Provider call leaves the caller with an error, with or without the effect of
the call where that matters (`ensureLease`, `startProcess`; for a kill or a stop the case
"done, but the answer was lost" is the fault after `AgentExits` or `SandboxExpires`).
`LoseAttempt` loses a Workflow isolate with the owner in it, `LoseCanceller` and
`LoseCreator` a Worker. After a cancel request returned a terminal Run the dispatcher
terminates the Workflow on purpose; that loss is free. `StepTimeout` admits the hard
timeout of the execute step, which starts the next attempt beside the timed-out one.
A D1 statement may fault too, with or without having been executed: `StatementFaults` for
the writes of an owner, `RefreshFaults` for its reads, `CallerFaults` for the statements of
an attempt or a request. (For a caller, which ends at once, "executed, but the answer was
lost" is the same as a fault of its next statement.) `DatabaseFaults` switches these off,
which only `two_runs` does, to stay small; with them it has 4.2 million states and holds as
well. Rows are assumed to be inserted in the order of their `created_at`, which is what
`newest` stands for.

In `Workspace` a fault of any Provider call or statement, with or without its effect, a
lost Worker or Workflow isolate and a lost sandbox count against `MaxMishaps`; in
`ModelGateway` `MaxFaults` does the same. `PreviewContent` lets each stage fail, `RunConsole`
each request and the stream, `ProjectFiles` and `ProjectChanges` each command, without a
bound.

## 3. Runs

| Run | Bounds | Distinct states | Shows |
|---|---|---|---|
| `one_run` | 1 Run, 2 attempts, 1 cancel request, 1 manual stop, 1 mishap | 2.5 million | all safety properties of a Run with crash, retry, cancel and deadline |
| `two_runs` | 2 Runs, 1 attempt each, 1 mishap that is no database fault | 1.6 million | Runs in succession: leftovers of the first never harm the second |
| `same_tick` | 2 Runs, 1 manual stop, `updated_at` never advances | 0.7 million | the ms resolution of `updated_at` is harmless here |
| `step_timeout` | 1 Run, 2 attempts overlapping, 2 mishaps | 0.8 million | recovery beside a live owner |
| `converge` | 1 Run, 2 attempts, 1 cancel request, no mishap, fairness | 47 thousand | a dispatched Run ends |
| `workspace` | 2 Terminals, 1 Preview, 1 Run, 1 user's stop or deletion, 2 of them begun, 1 mishap, fairness | 184 thousand | the occupancy of a Project, with crashes anywhere |
| `components` | see below | 482 thousand | ten machines, each by itself |
| `stuck` | 1 Run, 2 attempts, 1 cancel request, 1 mishap, fairness | violated | finding 1 |
| `two_sandboxes` | 2 Runs | violated | finding 2 |
| `whole_stop` | 1 Run, overlapping attempts, 1 mishap | violated | finding 3 |
| `lock_leak` | 1 Terminal, 1 mishap, fairness | violated | finding 4 |
| `late_isolation` | 1 Terminal, 1 Run, 1 mishap | violated | finding 5 |

Bounds. `MaxAttempts = 2` is the code's own limit (one retry). One Run suffices for what
happens within a Run, because Runs of a Project never overlap; two Runs are needed, and
enough, for what a Run leaves behind for its successor (`Runs` is symmetric in those runs).
One cancel request already races the owner, the recovery and the deadline; a second one
would find the Run cancelling and return. One mishap is enough for each crash or fault
scenario, and `step_timeout` spends a second one on top of the overtaking attempt. The
checks say `CHECK_DEADLOCK FALSE` because the system really stops: when every Run is
terminal and every cleanup has ended, nothing is left to do.

In `workspace` at most two activities are begun (`FewActivities`), in every combination
and order, because every conflict that the rows resolve is one between two. Instances with three at
once were explored too: {Terminal, Preview, Run} has 0.6 million states and {Terminal,
Preview, stop} 1.4 million; one of each kind has 11.3 million. The refinement holds in all of them.

`components` scales the limits of the code down so that each is met: a queue of 3 bytes, 1
Run or Terminal per hour, 1 model request per day and 2 per Run, a token budget of 1, a capability of 2 seconds,
pages of 1 row, a file of 1 piece. What a limit separates is on both sides of it: chunks of
1 to 3 bytes, an upload that grows past the limit, a page that is full and one that is not. There
are two actors where two can meet (uploads, requests, Runs of a user), a third row or Run where
the middle one matters. The sample inputs of the algorithms are all those up to a length (3
records of Pi, 5 Messages, 4 entries of git, paths of depth 3, 3 chunks or events,
2 parts of an answer), from alphabets with a member for each case the code distinguishes (of git's entries those that are
renamed from an unsupported path, to one, and both).
Larger instances of single machines were explored as well and found no violation: the gateway with a
budget of 2 and 2 requests per hour (0.2 million), the socket with 2 frames, uploads of 2
pieces and the changes with 2 edits (0.1 to 0.2 million each).

Properties.

* `NoAgentAfterTerminal`: an agent process lives only while its Run is active.
* `AgentInLeasedSandbox`: the agent lives in the sandbox the Lease names, and the Lease
  says so; recovery and cancellation look nowhere else.
* `LeaseInUseOnlyByActiveRun`: the Lease is never left "in use" by a finished Run.
* `PendingTransitionsAreLegal`: no status write in preparation can hit the trigger's abort.
* `NoOrphanWithoutMishap`: owner, recovery, cleanup and stop all write the sandbox id of the Lease,
  and as long as no call has failed no sandbox is forgotten by it. It says nothing of a stop that
  faults after the detach: that sandbox is left to the Provider's timeout.
* `SparesForeignSandbox`: nobody but the active Run's own owner or callers stops the
  sandbox its Lease names.
* `StopsSandboxOnlyWithoutProcessRef`: a known process is killed by its reference, never by
  stopping the shared sandbox. Holds without overlapping attempts.
* `ClaimedOnce`: no attempt builds a second owner.
* `ImplementsLifecycle`: refinement of `AgentRunLifecycle`. For `RunExecution` it entails
  `OneActiveRun`, `ReplyIffSucceeded` and `TerminalIsFinal` (`RunRowsCorrect`).
* `RunsConverge`: a Run whose Workflow exists reaches a terminal status.
* `ImplementsOccupancy`: refinement of `ProjectOccupancy`. The holder is the active Run or
  the Terminal with a row; a Project is taken only when no shell is left in it, a
  Terminal lets go only when its shell is dead, and a deletion never passes under a Run.
* `RunExcludesTerminal`: a Run and a Terminal's row never exist together (also proved).
* `DetachedIsUnused`: what a cleanup has detached and is about to stop is named by no row
  and by no shell.
* `ExpiryReleasesTerminal`, `ExpiryReleasesStartup`: once its Workflow exists, a Terminal, and
  a Preview that is still starting, gives the Project back, with any one mishap.
* `QueueBounded`, `ImplementsStream`, `EndReachesReader`: the output of a process is bounded
  in memory; the reader gets what was sent in order, hears of a normal end only after all of it
  (refinement of `OutputStream`), and is always told of the end.
* `NoTerminalOutlivesItsSocket`, `ViewSettles`: whatever was opening or queued when the browser
  went, the server ends without an open Terminal; the view leaves connecting and closing.
* `AdmissionHolds`, `UsageIsAccounted`: at most one request of a Run is upstream and the
  allowances hold at the turn of hour and day; what was delivered is on the account.
* `ContentUrlFollowsSession`: a content URL is good exactly as long as its session, and no
  earlier process answers under it while the session's own lives.
* `ConsoleShowsOutcome`: the console shows how a followed Run ended, and its reply, whichever
  stale reads land meanwhile.
* `UploadsAreWhole`, `ListingIsComplete`, `UsageSurvivesDeletion`, `ChangesAreCurrent`: as their
  comments say, under concurrent uploads, renamings, deletions and edits.
* `AlgorithmsAgree`: each algorithm equals its reference on every sample. (Section 4: on every
  input.)

Fairness (`Fairness` in `RunExecution`) is weak and only of program code: a started
request or owner goes on (`Create`, `OwnerStep`, `Execute`, `Cancel`), which includes that
Cloudflare runs and retries the step; the deadline's timer fires while the agent is silent
(`DeadlinePasses` at "consume"). Nothing is assumed of the agent, which may run for ever,
of the user or of the Provider's timeout. `RunsConverge` has no mishaps in its bounds: with
them it is false by design, because an unconfirmed stop keeps the Run as a hard lock
(`docs/operations/coordination-recovery.md`). It is limited to Runs whose Workflow exists:
a creator lost before the dispatch leaves a queued Run that no code ever touches.

`Workspace` assumes the same of its own: a request that has begun a startup or a cleanup goes
on unless its Worker is lost, and Cloudflare runs a Workflow that was created, and runs its
step again after a fault. Nobody has to open, use or close anything, and nothing
is assumed of the PTY. `QueueFairness` is the SDK's promise to go on delivering and to resolve
`wait()`, and a reader who goes on reading, but not that the process ends.
`SocketFairness` is the event loops of both ends and the timers they armed; it does not
contain that the clean-up on the server closes the socket, nor any action of the user. `ConsoleFairness` is the
browser's poll of a followed Run, the reads and effects that it starts, and that a request
which does not fail for ever is answered; nothing is assumed of the stream.

### Findings

1. `stuck`. Recovery fixes the terminal status it will write before it stops the agent.
   A cancel request that moves the Run from starting to cancelling after recovery has
   stopped the agent and released the Lease makes recovery's last compare-and-set lose;
   its retry was the last attempt, and the Run stays cancelling although nothing is left to
   stop. ADR-0003 (acceptance condition 5) says a confirmed stop converges.
2. `two_sandboxes`. Cleanup detaches first and stops afterwards, so the next Run creates
   a second sandbox while the first is alive, against `CONTEXT.md` rule 2 and
   `docs/reference/current-architecture.md`. The order is deliberate, and what makes
   `SparesForeignSandbox` true; the documents promise too much.
3. `whole_stop`. With overlapping attempts recovery stops the whole sandbox although the
   process reference has appeared since it read the Run; it rereads the Run but looks only
   at its status. ADR-0003 (acceptance condition 4) restricts the whole stop to Runs without
   a reference. With a second Run the same window also stops a sandbox the next Run has
   taken over, if recovery sleeps between its recheck and the stop.
4. `lock_leak`. A Worker lost between the claim of a Terminal session and the creation of its
   expiry Workflow leaves a row that nobody releases: the Project accepts no Run, no Terminal, no
   stop and no deletion any more. ADR-0005 relies on that Workflow for just this case.
5. `late_isolation`. `closeAndRelease` has the kill of the PTY and the release of the row in
   one `try`. When the release commits but its answer is lost, the catch stops the whole
   sandbox, which a Run may be using by then.

Met while modelling, and not in a run of their own: when `markRunning` throws, the
Preview's row is released and Vite goes on running, against ADR-0006, until the next start fails
because the port is taken (`PreviewContent` has this; `ContentUrlFollowsSession` shows that no page
is served wrongly meanwhile). A Preview whose start fails does not schedule the idle
cleanup, against `docs/reference/platform-limits.md`. Locations of redirects that are relative are resolved
against the root of the Preview instead of the page. In the console, the answer of a cancel
request that comes late can block the composer; a Run of another tab that is found after one's own
has ended is not polled; and a Run that ends while the very first page of Messages is in flight
has its reply shown only at the next refetch (`ConsoleShowsOutcome` excludes these by its conditions). The pages of
`get_usage_summary` are cut by offset and may shift between requests, which its
description admits.

## 4. Theorems

Proved with TLAPS for every value of the constants that satisfies the named assumptions of the
modules. Those say of what kind a constant is (`NoneAssumption`, `ClockAssumption`,
`MishapsAssumption`, `DatabaseFaultsAssumption`, `AttemptsAssumption`, `CancellersAssumption`,
`StepTimeoutAssumption`, `UserStopsAssumption`, `GatewayAssumption`, `FilesAssumption`,
`ChangesAssumption`, `ContentAssumption`, `QueueAssumption`, `ListingAssumption`,
`UsageAssumption`, `RecordAssumption`, `ContextAssumption`, `StatusAssumption`, `BodyAssumption`,
`CapabilityAssumption`, `AnswerAssumption`, `PathsAssumption`, `SamplesAssumption`) or that names
differ (`NamesAssumption`); none bounds a number from above. The token budget of a Run, the sizes
of pages and of a record of Pi have to be positive, and a history to have room for its two
brackets, as they do in the code; the rows of a listing, the Projects of a user and the names of
entries are finite sets, and rows and Projects are numbered in the order of their ids; a timestamp is above 0, which stands for a row that is not there.

| Theorem | States | Hypothesis |
|---|---|---|
| `RunExecution_proofs!TypeCorrect`, `Workspace_proofs!TypeCorrect` | `TypeOK` | |
| `ImplementsLifecycleCorrect` | `ImplementsLifecycle` | |
| `RunRowsCorrect` | `OneActiveRun`, `ReplyIffSucceeded` and `TerminalIsFinal` of `AgentRunLifecycle`, for `RunExecution` | |
| `ClaimedOnceCorrect` | `ClaimedOnce` | |
| `PendingTransitionsLegal` | `PendingTransitionsAreLegal` | |
| `NoAgentAfterTerminalCorrect` | `NoAgentAfterTerminal` | `OverlapShows` |
| `AgentInLeasedSandboxCorrect` | `AgentInLeasedSandbox` | `OverlapShows` |
| `LeaseInUseCorrect` | `LeaseInUseOnlyByActiveRun` | `OverlapShows` |
| `StopsSandboxCorrect` | `StopsSandboxOnlyWithoutProcessRef` | `~StepTimeout` |
| `SparesForeignCorrect` | `SparesForeignSandbox` | `~StepTimeout` |
| `NoOrphanCorrect` | `NoOrphanWithoutMishap` | |
| `RunAndTerminalExclude` | `RunExcludesTerminal` | |
| `ImplementsOccupancyCorrect` | `ImplementsOccupancy` | |
| `DetachedIsUnusedCorrect` | `DetachedIsUnused` | |
| `AdmissionCorrect`, `UsageCorrect` | `AdmissionHolds`, `UsageIsAccounted` | |
| `UploadsCorrect` | `UploadsAreWhole` | |
| `ChangesCorrect` | `ChangesAreCurrent` | |
| `ContentUrlCorrect` | `ContentUrlFollowsSession` | |
| `StreamCorrect` | `ImplementsStream` | |
| `QueueBoundedCorrect` | `QueueBounded` | |
| `ListingCorrect` | `ListingIsComplete` | |
| `UsageSurvives` | `UsageSurvivesDeletion` | |
| `AlgorithmsCorrect` | `AlgorithmsAgree` | |
| `PiAnswerCorrect`, `ContextCorrect`, `GitChangesCorrect`, `ConversationCorrect`, `AnswerCorrect`, `PathsCorrect`, `BodyCorrect`, `ResponseUsageCorrect`, `ToolsCorrect`, `CapabilityCorrect`, `PreviewUrlsCorrect` | the parts of `AlgorithmsAgree`, of every input | the input has its type |

The hypotheses cannot be dropped: TLC refutes each property without its own.
`OverlapShows` (`0 \notin Ticks \/ ~StepTimeout`) says that an attempt does not overlap the one
before it, or that two writes of the Lease always differ in `updated_at`. With overlapping
attempts and a clock that stands still, 1 Run and 1 mishap leave the Lease in use by a
finished Run (12 states): the owner has read the Lease and is about to mark it "starting",
recovery gives the Lease back in the same millisecond, the compare-and-set of the
owner does not notice, and recovery ends the Run. The owner goes on and starts the agent of a
Run that is over (17 states), and a manual stop may take the Lease from under it (19
states). `~StepTimeout` is needed for the stops because of finding 3, and because of what follows
it: when the attempt that is about to stop the whole sandbox is overtaken by the owner, which
completes the Run and gives the Lease back, the stop takes the sandbox from the Run that was
created next (2 Runs, 1 mishap, 25 states). That `StepTimeout` is false is not what the code
guarantees but what it relies on; the runs `step_timeout` and `same_tick` check the combinations
that a small instance can, and all other theorems hold with it.

### The Run path

The inductive invariant `IInv` is `StoreTypeOK /\ OwnersSound /\ ServiceTypeOK /\
ReclaimTyped /\ RowsAgree`. `OwnersSound` strengthens the types of the owners: `goal` is a
status at the pcs where it is written to the Run, and "fail" only inside `fail`; without it
a transition to "fail" would be typed. `RowsAgree` (a Run has its reply iff it succeeded)
makes the refinement go through: `Move` of the abstract specification sets both at once.
The proof is layered like the modules. `RunCoordinator_proofs` defines what a step of the
store is (`StoreStep`: at most one row operation, one Lease write, one Provider effect), shows
that such a step keeps the types; `RunExecution_proofs` shows that each component takes only such
steps, action by action, and keeps its own part, and then reasons about
`StoreStep` alone. A transition by compare-and-set maps to the abstract `Move`, an insert
to `Create`, everything else stutters. `ClaimedOnce` follows because a Run that has an owner
is never queued again.

`RunSafety_proofs` strengthens `IInv` in three layers to
`SafetyInv == IInv /\ Legal /\ Ground /\ (OverlapShows => Safe)`:

* `Legal` is what each actor knows of the status of its Run: that it was claimed, that the one it
  will ask to cancel was asked to, and that what it read before a guarded UPDATE allows it. It is
  kept by everybody else because the status only moves along `allowedTransitions`.
* `Ground`: nobody holds a reference to a sandbox that was never created (`RefsKnown`) or a
  version of the Lease that is yet to come (`VersionsPast`); an owner that starts up is awaited
  by the attempt that built it, attempts begin in turn, and a caller that releases a process is
  not beside a startup (`StartupAll`, `InTurn`, `NoStartup`); at most one Run is active.
* `Safe`: the owner gives the Lease back before the Run ends; its agent is started by `spawn`
  and by nothing else, lives in the sandbox of the Lease, and is gone when the owner or a
  caller comes to `complete`, `fail` or the release; a Lease in use has a started Run. The three
  properties are parts of it.

For the stops two more invariants stand on `SafetyInv`: `RefsAgree` (the process reference of
a Run follows its process: whoever stops a whole sandbox for a Run has read that there is no
reference, and none has been written since) and `Spares` with `DetachedUnknown` (no actor of
an ended Run, and no cleanup that has detached a sandbox, holds the one that an active
Run leases). Every step is first described field by field (`OwnerMoves`, `CallerMoves`); the
invariants are proved over these descriptions, so that no proof expands a record of the model.

`NoOrphanCorrect` needs no hypothesis, because overtaking is itself a mishap: `Orderly`
(`~StepTimeout`, or no mishap so far) is what the proofs use instead. Its strengthening is `Kept`. `AllNamed`: without
a mishap every live sandbox is `Named`, by the Lease, by an owner at "markReady", or by a cleanup
that is stopping it. `RunKept(r)` is what lets a step write the Lease without forgetting anyone. An owner that has
not yet told the Lease of its sandbox is the only one to write the Lease until it does (`OwnsOnStartup`);
afterwards it knows the sandbox of the Lease or that one is gone (`RefFromLease`). A caller that gives the Lease back without
its sandbox has stopped it (`NothingKept`); an attempt that claims a queued Run still knows the Lease as
it is (`LeaseStillFree`); and a cancel request that returned a terminal Run was right
(`ReturnsEnd`), so that the termination of the Workflow that follows loses no owner at work. TLC checked `Kept` on
`one_run` and on 2 Runs with overlapping attempts before it was proved.

### The workspace

For any number of Terminals, Previews, Runs, requests and mishaps. Neither the exclusion nor the
refinement is inductive, because the rows do not mention the
processes: that a Terminal lets go only without a PTY depends on what its two actors know.
`Workspace_proofs` therefore keeps `Tracked(t)` of every Terminal. `ShellInRow`: until
the Project is deleted, a live PTY is that of the session row and runs in the row's sandbox.
`StartupHasRow`: a startup that has claimed keeps its row, since nobody but its own expiry
could take it and that waits for the startup. `KnowsShell`: an actor's record names the sandbox
of the PTY, and at a step that releases the row the PTY is gone. `Undisturbed` shows once that
a step of another actor keeps this; the steps of Terminal t are then one lemma each. For the
refinement a step is `Calm` (no change of occupant, shells only end: `EndShells`), `Frees(t)`
(`Release`), or one of the few that take the Project or start a shell. The types are proved
first, in parts that are written together, so that the other lemmas need only the part
they are about.

`DetachedIsUnused` needs two more invariants. `RowsKept`: a startup keeps its row, which names
its sandbox once it is bound, until it is over, and the expiry of a session without a sandbox
begins only then. So when a cleanup finds no row, nobody is between a read and a write of a
name. `NamesClear`: nobody who may still write a name into a row knows a detached one. A
Terminal that has not claimed yet may know one, but then `seen` tells that its Lease is stale and
the claim is refused; a request to stop knows the sandbox of the Lease as long as it is
current; and the sandboxes that a Terminal or a Run has still to create are named nowhere. A step
of a Terminal is again first described field by field (`TerminalMoves`), and every other step by
what it does to rows and readers (`RowsOnly`, `Knows`). TLC checked `RowsKept`, `NamesClear` and
`TerminalMoves` on the instance of `workspace` before they were proved.

### The machines

`Components_proofs` proves about each machine by itself, from a specification of its own
(`GatewaySpec`, `FilesSpec`, `ChangesSpec`, `ContentSpec`, `QueueSpec`, `ListingSpec`,
`UsageSpec`). They share no state:
a step of `ComponentsSpec`, which TLC runs, is a step of one machine and leaves the variables of the
others unchanged, so what is proved of each holds there, too.

* `AccountInv` (gateway): at most one request of a Run holds its admission lock, from the
  admission to the release; active Runs and terminals together take no more than the places of the
  user; the row of counters stands for the current hour and day or for an earlier one, and
  within the limits; a request that may still spend tokens was admitted below the budget, and what
  it cost is on the account before its last part is delivered.
* `FilesInv`: the process of an upload that has found the name free is the one the file is of,
  and the file is as long as what it wrote, until a Run begins; it ends with 0 only after the
  whole body.
* `ChangesInv`: every repository that was current at a moment of the request is in `met`, and
  each part of the answer so far was read from one of them.
* `ContentInv`: sessions have names in order, each with the claims its process was started with; a
  row that is running, or a start whose probe has answered, has had the port; every URL that
  was issued is that of its session. The same clock arithmetic, for any skew, gives both
  directions of `ContentUrlFollowsSession`.
* `QueueInv`: what was sent is what was got followed by what is pending, with no gap before the
  exit. The refinement of `OutputStream` follows step by step.
* `QueuesWithin`: the buffer before the start, and what is pending after it, keep to the limits
  each by itself; that one of them is always empty (`QueueInv`) makes it a bound of both together.
* `ListingInv`: a row that nobody has touched since the listing began has been shown exactly
  once, unless it comes after the cursor; then it has not been shown. The next page shows just
  the rows up to its own cursor, because `InOrder` has each row of the query in a place of its
  own: timestamps may coincide, but not ids, so the order is total.
* `UsageInv`: live rows are those of Projects that exist, archived rows of deleted ones, and a
  Run has one row in the two tables together. `UsageKept`: the rows of a Project, wherever they
  are, add up to what was recorded of it, and that is all a deletion must preserve. That the
  pages show every Project follows by the smallest place that none of them shows.

Sums are folds in the community modules. Their laws (adding a member, splitting a set in
two, regrouping by Project) are proved by the smallest subset for which one would fail
(`SmallestSubset`), since the library's induction theorems cannot be used here.

### The algorithms

Each algorithm is a fold, or a recursive function, along a list of any length: chunks, records,
Messages, entries, events, segments. The theorems say of every such list that the result is
what the reference says, and suppose of it only its type and what its source guarantees: the
chunks of Pi's output make up that output; only an answer of the assistant has calls
(`ConversationCorrect`); the SDK gives each call an id of its own (`Supplied`); and a workspace
is finite and has one entry at a path (`Workspace`). `AlgorithmsCorrect` then shows that each
sample of the model is such a list, so that what `components` checks within its bounds holds
without them.

An induction cannot be cited from the library, whose theorems have an operator as a parameter,
and neither can a lemma about `FoldLeft`. `ListLemmas` instead shows by the least number that has
not been reached (`Reaches`) that a set which has 0, and i when it has i - 1, has all of
`0 .. n`, and that a fold is the last value of a function G with `G[0]` the base and `G[i]` made
from `G[i - 1]` and the i-th element (`FoldExists`, `FoldGives`). What holds after i elements is
then such a set. The invariants that this takes:

* `ModelRequest`: the bytes so far, and the newest usage so far that adds up.
* `RunContext`: what has been taken is the end of the conversation, it fits (`Fit`), and where
  the loop broke off the next Message did not; from there to the first question no history could
  begin, so what remains after `DropAnswers` is the longest.
* `GitChanges`: after k whole entries the parser has just those with supported paths, up to the
  limit (`AfterEntries`), and within the next one still some of them, whole (`WithinEntry`), for the cut
  may be anywhere.
* `Conversation`: the calls known so far are those of the messages so far, and no two have one
  id, so the call that an answer names is the only one.
* `ModelAnswer`: texts and calls so far are those of the parts so far, in order (`OfParts`); of
  the events written for an answer the usage is read back as it was measured, and the
  conversation that goes on from the answer is taken, by the two theorems about these.
* `ProjectPaths`: each step of the walk is a directory up to where it has come, and its outcome
  is what is found there (`Looked`).
  That the entries are sorted comes from the places of the members of an order
  (`InOrderSorts`), which the order of rows in a listing and in the usage rests on, too.
* `PiAnswer`: every character of the output has a record and a place in it (`At`); whatever the
  cuts, the framing has the beginning of that record as its remainder and has handed over all
  records before it, or has failed at the first that is too large (`Reading`).

For the provers a filter is written as a fold (`Selected`) and a sort as a choice (`Sorted`); the
names of entries are any finite set, in any order that tells them apart (`LocaleRank`): names that
`localeCompare` holds equal stay as the Provider listed them, which is one of these orders.

### Model-checked only

* Liveness (`RunsConverge`, `ExpiryReleasesTerminal`, `ExpiryReleasesStartup`, `EndReachesReader`,
  `NoTerminalOutlivesItsSocket`, `ViewSettles`, `ConsoleShowsOutcome`): out of the prover's reach,
  like everything about `ENABLED`.

## 5. Not modelled

* One Project only in `RunExecution` and `Workspace`; what a user's allowances refuse across
  Projects is in `ModelGateway`, and may refuse any insert of the other two.
* A Terminal's startup is assumed to end before its expiry reads the session: each Provider call
  times out within minutes, a session lasts much longer. `MaxMishaps` stays below the number of
  retries of an expiry step, which are not counted.
* The full Run machine and the full Terminal and Preview machines are not composed with each other: `Workspace` has
  of a Run what its rows show. Composing them all multiplies two models of millions of states.
* The text of prompts, replies, events and failure codes; tokens and durations of
  `RunExecution`; the fake runtime used by tests; diagnostics; shell quoting; the signing of
  capabilities; the detection of text in files; the diagnosis of upstream errors.
* `ProjectChanges` leaves out the answers runtime_mismatch and unsupported_path, and
  `ProjectListing` that the listing of Runs ends with not_found when the Project is deleted in
  between.
* In `ModelGateway` "running" stands for starting and running, which are authorised alike.
* What makes a workspace fit for a Preview (`inspectE2BPreview`) is a free choice, and so
  is every answer of Gemini, E2B and git.
* MCP and OAuth (libraries; the tools are reads that are modelled elsewhere), the composition
  in `services.ts`, layout and rendering of the web client, observability.

## 6. Plan

Done: the Run path, the workspace with Terminals, Previews, cleanups and deletion, the abstract
specifications of lifecycle, occupancy and output stream with their refinements, the
machines of `MCComponents`, and the theorems above. What would come next, in order:

1. Safety of `TerminalSocket` and `RunConsole` below their liveness: what a message in
   flight, a timer and a cached page know of each other, as inductive invariants.
2. A composition of `RunExecution` with one Terminal for the retained locks of both.
