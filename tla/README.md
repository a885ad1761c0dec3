# A TLA+ model of the Sparkle CLI agent core

This directory holds the formal model of the parts of the Sparkle CLI (a terminal
coding agent, a TypeScript monorepo) whose correctness depends on the order in which
asynchronous things happen. Each module translates code under `src/packages/`; the
correspondence, definition by definition and with line numbers, is the `map` of
`PROJECT.json`.

Contents: the inventory of the system, the modules and how they correspond to the code,
the runs and what they show, what is proved, what is left out, the plan.

---------------------------------------------------------------------------------------

## 1. The system

A turn of the agent goes round this loop:

    user / host --> client.sendMessageStream --> chat --> model API (retry, fallback)
         ^                                         |
         |                                         v  function calls
         +-- function responses <-- schedule(batch, signal) --> policy, hooks, user --> tools

Everything runs in one JavaScript process per agent: concurrency is the interleaving of
callbacks and of `async` functions at their `await`s, plus child processes, sockets and
timers which report back through callbacks.

| Component | Source (`packages/...`) | State it keeps | Operations | What is hard |
|---|---|---|---|---|
| Tool scheduler | `core/src/scheduler/{scheduler,state-manager}.ts` | `isProcessing`, `isCancelling`, `requestQueue`; queue, active calls, completed batch | `schedule`, `cancelAll`, the signal's handler, `_processQueue`, `_processToolCall`, `_execute` | waves of concurrent coroutines, cancellation in the middle of any await, tail calls, sandbox re-execution |
| Confirmation | `core/src/scheduler/{confirmation,hook-utils,policy,tool-executor}.ts` | none of its own (a correlation id per question) | `resolveConfirmation`, `waitForConfirmation`, `evaluateBeforeToolHook`, `checkPolicy`, `ToolExecutor.execute` | a race between bus, IDE and signal; state read again after the await |
| Message bus | `core/src/confirmation-bus/message-bus.ts` | subscriptions | `publish`, `subscribe`, `request` | an error of one publish reaches every waiter; derived buses |
| Policy engine | `core/src/policy/` | rules, checkers, approval mode | `check`, `addRule`, `removeRulesBySource` | rule priority, compound shell commands, "always allow" written while questions are open |
| Hooks | `core/src/hooks/` | registry, enabled set | plan, run, aggregate | parallel runs merged into one decision, timeouts |
| Model availability, fallback, retry | `core/src/{availability,fallback}/`, `core/src/utils/retry.ts` | health of each model, active model, attempt counter | `markTerminal`, `markRetryOncePerTurn`, `selectFirstAvailable`, `handleFallback`, `retryWithBackoff` | a question to the user between reading and switching the model; resets of the attempt counter |
| Execution lifecycle, shell | `core/src/services/{executionLifecycleService,shellExecutionService}.ts`, `core/src/tools/shell.ts` | active executions, pending resolvers, listeners, exit information with a time to live | `attach`/`create`, `append output`, `background`, `complete`, `kill`, `onExit` | ids used again, listeners that throw, output after backgrounding |
| MCP client manager | `core/src/tools/mcp-client-manager.ts` | clients, discovery promise and state, blocked servers | discover, disable, restart, stop | every operation has awaits; two of them on one server |
| Conversation | `core/src/core/{client,geminiChat,turn}.ts` | history, send lock, pending calls, turn counters | `sendMessageStream`, rollback, compression, loop recovery | history edited by several paths; calls and responses must stay paired |
| Context management, compression | `core/src/context/` | episodic graph, compression state | compress, mask, distil | split points must not cut a call from its response |
| Loop detection | `core/src/services/loopDetectionService.ts` | hashes and counters | one per stream event | resets at the right events |
| Sub-agents | `core/src/agents/` | one executor per run, with its own scheduler | run, recover, report progress | deadline against a late answer, grace turn |
| Agent sessions | `core/src/agent/` | event log, active stream, abort controller | `send`, `stream`, `abort` | late subscribers, stream boundaries |
| Chat recording | `core/src/services/chatRecordingService.ts` | session file, pending records | record, flush, resume, rewind | partial appends, crash between write and clear |
| A2A server | `packages/a2a-server/src/agent/` | task state, pending calls, completed responses | execute, cancel, send completed tools | a host that cancels without aborting |
| Terminal UI hooks | `packages/cli/src/ui/hooks/` | streaming state, tracked calls, message queue | submit, cancel, resubmit results | results that arrive after a cancellation |
| ACP, non-interactive CLI | `packages/cli/src/{acp,nonInteractiveCli.ts}` | one abort controller per prompt | prompt, cancel | hosts of the scheduler |
| Routing, safety, sandbox, IDE, tools, MCP OAuth, telemetry, configuration, SDK, devtools | see `PROJECT.json` | mostly none, or on disk | input and output | platform behaviour, little protocol |

How they interact: the conversation calls `schedule` with the function calls of a
response; the scheduler awaits hooks, policy, the bus (which the UI, the A2A server or
ACP answer) and the tools; tools report through `outputUpdateHandler`; a shell tool
runs inside the execution lifecycle, which keeps reporting after the tool has been sent
to the background; a sub-agent is a tool whose implementation owns another scheduler;
the host cancels through an `AbortSignal`, through `cancelAll`, or both.

What makes each correct:

* scheduler: one result per call; nothing runs that was not allowed; calls that must run
  alone do; a refusal or cancellation stops what has not begun and changes nothing that
  was decided; every promise settles;
* confirmation: one answer for the question it was asked for, nothing acted on after the
  signal; bus: a response reaches the requester whose id it carries;
* policy: the highest-priority matching rule decides, and a compound command is no more
  allowed than its parts; hooks: a block by any hook blocks;
* fallback: a request ends, the marks of failed models last as long as they are meant to,
  a fallback leads away from what has failed and never off a model the user chose;
* execution lifecycle: each execution settles once, its caller returns, its end in the
  background is announced once, and nothing of it is left to whoever has its id next;
* MCP manager: the model is told of the tools the servers have, whatever operations on
  them overlap, a notice of a change is honoured, and discovery comes to an end;
* conversation: the history pairs every call with one response, and the UI responds when
  and only when something is under way;
* sub-agents: a run ends, and after its limits there is one last turn;
* recording: what is read back after a crash is the session before or after the
  operation that was under way, and sessions without a prompt leave nothing.

---------------------------------------------------------------------------------------

## 2. The modules

| Module | Contents |
|---|---|
| `SchedulerState` | the state manager as a record `sm` (queue, active, status, completed) and its operations as operators from manager to manager |
| `Scheduler` | the scheduler: variables, the loop, the coroutine of a call, cancellation, `Spec`, `FairSpec` |
| `SchedulerProperties` | the safety, action and liveness properties, the refinement `Batches == INSTANCE BatchContract ...`, the inductive invariants |
| `BatchContract` | the abstract specification: what `schedule()` promises its callers |
| `MCScheduler` | the batches of the small instances; the `.cfg` files give the rest |
| `SchedulerProofs` | lemmas on the manager's operations, `TypeCorrect`, `OnlyApprovedCallsRun`, `BatchesEndClean`, `NoRequestIsStranded` |
| `SchedulerResultProofs` | `EveryCallHasOneResult`, the refinement `SchedulerKeepsBatchContract`, `DecidedCallsStand`, `NoToolStartsAfterReport`, `SerialCallsRunInOrder`, `ModificationsTouchOwnCall`, `DenialEmptiesQueue` |
| `ModelPolicy` | names of models, chains of policies, and the health map with its operations, as operators from map to map |
| `ModelFallback` | what `Config` remembers, and a coroutine for each request: selection, retry loop, fallback, handlers, `Spec`, `FairSpec` |
| `ModelFallbackProperties` | the safety, action and liveness properties |
| `MCModelFallback` | the small instances |
| `ModelFallbackProofs` | lemmas on chains and health, `TypeCorrect`, `TerminalMarksHold`, `RetriedOnceHolds`, `OverridesLeadOn`, `CustomModelStays` |
| `Executions`, `MCExecutions` | shell commands in the foreground and the background, their ids, logs, listeners and exit information, and the cards of the terminal UI |
| `ExecutionsProofs` | `ExecutionsTyped`, `OwnListenersOnly`, `AnnouncedExactlyOnce`, `RunningCardsListen`, `NothingIsLeftBehind` |
| `McpManager`, `MCMcpManager` | the clients of an MCP server, the tools they register and the context of the chat |
| `McpManagerProofs` | `ManagerTyped`, `ModelKnowsTools`, `NobodyWaitsForDiscovery`, `ToolsStayCurrent` |
| `Conversation`, `MCConversation` | submissions, turns, the chat's history, lock and stream, compression, and the way of tool results back into the history |
| `ConversationProofs` | `ConversationTyped`, `RestsWhenDone`, `ResultsReportedOnce`, `CallsStayPaired` |
| `ChatRecording`, `MCChatRecording` | the session file: held-back records, appends, faults, crashes and what a reader recovers |
| `ChatRecordingProofs` | what `Load` returns for every file, by induction over its lines; `RecordingTyped`, `SessionRecoverable`, `ResumesAsItWas`, `NoEmptyFile` |
| `AgentRun`, `MCAgentRun` | a run of a sub-agent: turns, deadline, last turn, its batches of calls |
| `AgentRunProofs` | `TypeCorrect`, `OneLastTurnHolds` |

These groups share no variables in the code either. They meet at narrow interfaces, and
each group has the other side as a choice: the scheduler meets the models only through
the calls it is given; `Conversation` has a batch of the scheduler as one step from
`tools` to its results; `AgentRun` has the scheduler as what each call of a batch may do;
the output of a command in the background is `LateOutput` to `Scheduler`; what makes a
stream fail for good in `Conversation` is what `ModelFallback` says of its end.

### Scheduler: state

`sm` is the `SchedulerStateManager`: `queue` the calls not yet active, `active` the keys
of `activeCalls`, `status` the status of each call (it outlives the call, as the call
objects do), `completed` how often a call is in `_completedBatch`. `isProcessing`,
`isCancelling`, `requestQueue` are the fields of `Scheduler`. `promise[r]` is what the
caller of the r-th `schedule()` holds and `aborted` the signals that have fired. `cur`
is the request whose batch is in progress, `loop` the await at which `_processQueue`
stands, with its locals `initial` (`initialStatuses`) and `madeProgress`; `phase[c]` is
the await at which the coroutine of call `c` stands. `par`, `tails`, `expansions`
describe the present request of a call. The rest are history variables: `approved`,
`userDenied`, `landed` (the tool ran to a normal end), `reported` (results in the
resolved batch).

### Scheduler: actions

An action is everything from one `await` to the next, however many methods that goes
through. So `Schedule` contains `_startBatch` with its sorting and building, the first
pass of `_processQueue` with the dequeuing of a wave, up to the `Promise.all` of step 1;
`Validated` is the continuation after step 1 (start what is scheduled, or finalize);
`Executed` the one after step 2; `LoopTop` another pass; `FinishBatch` the end of
`_startBatch`, its `finally` and the start of the next request. The pieces of a segment
(`ProcessQueue`, `ValidateWave`, `ExecuteWave`, `FinalizeWave`) take the manager as the
segment has left it so far.

| Phase of a call | stands for | left by |
|---|---|---|
| `hook` | `await evaluateBeforeToolHook` | `HookReturns` |
| `policy`, `policy_ask` | `await checkPolicy`, after a hook that did not, or did, ask | `PolicyReturns` |
| `details` | `await shouldConfirmExecute` | `DetailsReturn` |
| `await` | `await waitForConfirmation` | `Answer`, `WaitAborted` |
| `modify` | an edit in an editor, or inline | `ModifyDone` |
| `cancel`, `proceed` | an outcome on its way back from `resolveConfirmation` (with the policy update) | `UserRefuses`, `UserAllows` |
| `run` | `await executor.execute` | `ToolSucceeds`, `ToolFails`, `ToolTailCalls`, `ToolNeedsExpansion` |

`ValidationThrows` is an exception in any of the phases before `run`.
`resolveConfirmation` is used twice by the code, for a validating call and, by
`_execute`, for a sandbox expansion: the same actions serve both, and `loop` tells which
of the two results they lead to.

### Scheduler: choices worth knowing

* The signal and `cancelAll` are separate: `HostCancels` says which host is modelled.
  `"both"` is the terminal UI, whose `cancelOngoingRequest` does the two in one callback;
  `"signal"` the non-interactive CLI; `"cancelAll"` a host like the A2A server's, which
  calls it without aborting.
* A tool that returns while the signal fires may be recorded either way: the executor
  looks at `signal.aborted` after the tool, and then awaits the truncation of the result.
  `ToolSucceeds` folds the two awaits together and keeps both outcomes.
* Only edit tools, which are never parallelizable, can be modified, and not in a sandbox
  expansion: hence the guard of `Answer(c, "modify")`.
* An answer may arrive at any moment before the signal; the IDE and the bus race, and one
  answer is what is left of the race.
* `par` of a tail call is chosen afresh, since it is another request.
* `LateOutput` is a constant: with `FALSE`, a tool that has returned sends no more output.
  With `TRUE` it may, as a shell command does that the user has sent to the background
  while other calls of the wave are still running. A tool error has thrown by then and
  ignores it. The loop's `yield` (its 10 ms timer) is reached only with `TRUE`; that
  without late output the loop never waits and never gives up is part of `RestInv`, a
  theorem.
* Calls in a batch are distinct and there is at most one `update_topic`
  (`SchedulerAssumption`, `BatchAssumption`). Two calls with one id, which a model could
  send, are outside the model: the manager's map would keep one of them.

### Model fallback: state

`conf` is one record because the code changes these things together: `configured` and
`active` (`Config.model`, `_activeModel`), `sequence` (`client.currentSequenceModel`,
cleared by the event that `setModel` emits), `host` (which handler is installed),
`health` (the map of `ModelAvailabilityService`: a model that is not in it is
`"healthy"`; `"sticky"` and `"consumed"` are the status `sticky_retry` with the two
values of `consumed`),
`override` (the runtime overrides; several for one model come down to the last), and
`retried`, a history variable. `req[r]` is the coroutine of a request with its locals:
the name it was asked for (`key`), the model of the present attempt, `attempt` and
`limit` of the retry loop, `initial` (`initialActiveModel`), the number of broken streams,
whether its signal has fired, and what `handleFallback` keeps across its question.

There are three kinds of request. `Main` are the turns of the user, whose calls set the
active model; `Agents` the chats of sub-agents, which do not; `Utilities` the calls
through `BaseLlmClient`, which differ from chats in four ways the model keeps: they never
set the active model, they update `initialActiveModel`, they have no fallback when the
program is not interactive, and the retry loop does not get their signal.

### Model fallback: actions

| Action | From | To |
|---|---|---|
| `SendMessage`, `Route`, `Classify` | `sendMessageStream` | the selection of `processTurn`, over the router's classifier if there is no faster answer |
| `Start`, `Begin` | the selection of an API call, with the sticky attempt consumed | the first attempt |
| `Succeeds`, `ContentRejected`, `StreamEnds`, `StreamBreaks` | an answer | its mark, the stream, another attempt |
| `FailsForNow`, `TryAgain` | an error that is retried, then the delay | the next attempt, with the model the active one has become |
| `FailsForGood` | an error that is not retried, or the last attempt of one that is | the end |
| `FallsBack` | an error for which the fallback is asked | `handleFallback` up to its `await`: a silent switch, the question, or the end |
| `Refuses`, `RetriesOnce`, `RetriesAlways`, `SwitchesAndStops` | the handler's answer | what `handleFallback` and the retry loop make of it |
| `SwitchModel`, `RefreshAuth`, `Abort` | the user | `setModel`, a reset of everything remembered, the signal |

### Model fallback: choices worth knowing

* The chain of a name is a constant function of the configured name and that name
  (`PolicyChain`). Every name that is a tier's model or belongs to no tier is covered:
  a custom model gets a chain of its own. Plan mode makes each policy silent, which
  `HandleFallback` takes from its parameter.
* An override matches the name that is asked for, not what it resolves to, since the
  configuration of an alias such as `classifier` names `flash-lite` and an override is
  registered for the concrete model. It is applied once.
* `Hosts` says which handlers may be installed: the terminal UI's with either verbosity,
  the A2A server's, or none. The UI's never prompts, in spite of the names of the policies.
* `KindOf`: a 5xx error is classified as unknown, so it follows the policy for that.
* The router's first two strategies and the stickiness of a prompt are one step, though
  they are `async` functions: nothing they wait for is outside the process.
* `"fatal"` is any error that is not retried, the validation error included; its dialog
  is not modelled.

### Executions

Everything the two services keep is keyed by process id, so a variable is a function of
ids: `active`, `resolvers`, `listeners`, `exitInfo` of `ExecutionLifecycleService`,
`shells`, `logs`, `history` of `ShellExecutionService`, `cards` and `claimed`
(`backgroundedPids`) of the UI. `run[e]` is what is known of a command: its process
(`os`), its origin (a tool, a tool with `is_background`, the user's `!`), and what has
become of its caller.

| Action | Stands for |
|---|---|
| `Start` | the spawn and `attachExecution`, by pty or child process |
| `BackgroundCurrentExecution`, `BackgroundTimer` | Ctrl+B and the delay of `is_background`: the log, the history, `background` and the card |
| `ProcessExits`, `HandleExit` | the exit event, and, after the output has drained, `handleExit` with `settleExecution`: resolve, tell the listeners, announce, forget |
| `LogClosed`, `ExitInfoExpires` | the end of the log stream; the time-to-live of exit information |
| `Abort` | the signal and its handler |
| `ResultArrives`, `BatchEnds` | what `handleShellCommand` and `handleCompletedTools` do with the result, the registration of a card included |
| `Dismiss` | the user ends a task from its card |

The operating system gives an id again when the process that had it is over, and knows
nothing of cards or batches. `Free` assumes timing only: the exit handler (100 ms after
the exit), the closing of the log and the return of the result to its caller come before
the id does. What may be left of the first command by then is its card (a silent one stays
until it is dismissed), the batch of its tool call, which will register a card by that id,
exit information with its timer, and an unsubscribe that a second registration of the
card has replaced (`Superseded`). A registration keeps the card that is there, whosever it
is. At an exit the listeners are called in turn, and the first one's callback unsubscribes
the latest registration, which is then called only if it is the only one (`CalledAtExit`);
dismissing a card that has exited undoes the latest registration alone. `BatchEnds`
registers nothing if the call or the turn was cancelled. `expired` are commands whose exit
information a timer has dropped: a card registered after that cannot know of the exit.
`CardsLearnOfExits` excepts it, and the list of disagreements below tells how it comes
about.

### McpManager

One server, which the user's configuration and an extension both name, so that a client
stands for a configuration merged from one source or from both (`Keys`). Every operation
of the manager is a coroutine with a program counter, and each segment between two awaits
an action: `Begin` (the six kinds of operation), `Closed`, `Reloaded`,
`Disabled`, `DisabledClosed`, `Enabled` for `maybeDiscoverMcpServer`, `Connects`,
`Fetches`, `Registers` for `connect` and `discoverInto`, `Settle`, `Continue`, `End` for
what follows, `Refreshed` and `Coalesced` for `scheduleMcpContextRefresh`,
`ServerNotifies`, `ToolsAnswer`, `RefreshToolsEnds` for a client's `refreshTools`,
`OnError` for a connection that breaks. `Quiet` means that none of this is under way.
`maybeDiscoverMcpServer` runs to its first await with whoever calls it (`Discover`), and
does nothing for a configuration whose extension is not active (`Inactive`).
`restartServer` hands it the configuration the client had when the restart began.
Whether the server is disabled is answered anew at every question (`Disabled`, `Enabled`):
it is read from a file that `/mcp disable` and `mcp disable` in another process write at
any time. The server's tool list has versions, the registry holds the versions whose tools are
registered, and the chat those it has been told of.

Two history variables are in no guard. `failed` says that a connection or a question has
failed. `robbed` has the clients that stay connected while another one's `disconnect`
takes the server's tools out of the registry (`RemoveTools`): when discoveries overlap a
server has two clients, which register tools of the same names. A client leaves it when
it connects, when the current tools are registered, and when a notice has every client
ask again.

### Conversation

A query is one `submitQuery`: a prompt, or the continuation that answers the calls of an
earlier query. `query[q].pc` goes `prepare` (files are read), `turn` (limits and the
`BeforeAgent` hook), `compress`, `send` (the overflow check, with a second, forced
compression, context and the loop check), `lock` (somebody else's stream), `request`,
`stream`, `processed`, `tools`, `ended`. From `prepare` it may instead be a command that
has been handled, a shell command (`shell`, `ShellEnds`), or have a tool run for the user
(`skill`, `SkillEnds`: the activation of a skill puts a call and its response in the
history). A hook that stops the agent records the request (`HookStops`), one that blocks
it does not (`Limit`). The tool calls of a query are one entry of the history and one
batch. `chat` counts the chats, because compression makes a
new one and a stream writes to the one it was started on (`Attached`).

The stream of a cancelled query yields `UserCancelled` when its reader finds the signal
fired, which may be after the next prompt. `handleUserCancelledEvent` asks whether the
turn is cancelled, not whose event it is, and the next prompt has reset
`turnCancelledRef`: the event clears `isResponding` of its successor (`UserCancelled`,
`Clears`; `useGeminiStream.ts:1151`, `:1678`). `dimmed` notes that an event has cleared the
flag since the UI last took a query up.

Ghosts say what a property excepts. `excused` are queries whose calls the code gives up:
discarded with an attempt, lost with their stream, recorded late, stopped, or refused at a
limit. A batch that is cancelled in its tools is none of these. `retold` are those whose
results the user has had sent again after a loop. `overtaken` is set when a query goes on,
other than at a cancelled stream, beside a later one: a prompt can be submitted while
another is being prepared, or while the stream of a query that was not cancelled is read
with the flag cleared, and a cancelled query may end late. The properties `AtRest` and
`Paired` do not hold of such histories (see the disagreements below); behaviours are
followed up to that step (`Followed`).

### ChatRecording

`file` is the sequence of records on disk, `messages` the conversation in memory,
`pending` the records held back, and `todo` the writes that are left of the operation
under way: a crash may come between any two. An operation computes its writes at once, as
the code is synchronous between them, and `DoFlush`, `DoAppend`, `DoRewrite` do them;
`Partial`, `WriteThrows`, `DiskFull` are how a write fails, `Crash` and `Resume` the
death of the process and the next session. `Load` is `loadConversationRecord`: a recursive
function over the lines: messages, metadata, rewinds, checkpoints and those that do not
parse.
`kept` is the conversation before the operation under way. `unsaved` is set where the
code has changed memory and the write has failed.

### AgentRun

`phase` is where `runInternal` and `executeTurn` are; `deadline` and `period` are the two
timers, with the ticks they have left; `calls` the batch of the present turn as a wave of
calls. `Stop` is what follows a turn that stops: the end, or, for a reason that can be
recovered from, the last turn (`Recover`). `Ask` pauses the deadline, an answer resumes
it, and a wait that ends with an exception does not. A question may be asked before a call
runs (`asking`) or out of one that runs, for more of the sandbox (`expanding`). The answer
may be to modify the call (`UserModifies`): the clock runs again, the editor is awaited
without any signal, and when it is closed (`EditorCloses`) the call is checked and asked
about anew. `late` counts turns that begin when
the run has reached a limit.

---------------------------------------------------------------------------------------

## 3. The runs

Run `tlc -config X.cfg MCModule`; `PROJECT.json` has the pairs. Deadlock is not checked:
a program with nothing to do is idle, and what is started in a behaviour is finite.

| Run | Instance | Checks |
|---|---|---|
| `tui_safety` | `signal`, `both`; batches `<<shell, grep>>` and `<<edit>>`, 1 tail call, 1 sandbox expansion of the shell | `TypeOK`, `OneResultPerCall`, `RunsOnlyApproved`, `NothingOutlivesBatch`, `NoStartAfterReport` |
| `liveness` | `signal`, `cancelAll`, `both`; the same batches, 1 sandbox expansion; `FairSpec` | `KeepsBatchContract`, `CancelledSettles`, `EveryScheduleSettles` |
| `order` | `cancelAll`, `both`, late output; one batch `<<shell, grep, topic, edit>>`, 1 tail call | `SerialCallsRunAlone`, `ModifiesOwnCall`, `DenialStopsQueue`, `TerminalStable` |
| `model_health` | no handler and the terminal UI's with either verbosity; a turn on a custom model, which the user may take to `auto`, and a call on `pro`; transient, server and terminal errors; with and without plan mode | `TypeOK`, `RetriedOncePerTurn`, `CustomModelIsKept`, `TerminalHolds`, `OverridesMoveOn` |
| `model_liveness` | terminal UI, low verbosity, and A2A server; `auto`, a turn and a call on flash-lite, the user switches once; `FairSpec` | `AbortedRequestEnds`, `TurnEnds` |
| `executions` | two commands of any origin with one process id, given again as soon as the first process is over; every completion behaviour; `FairSpec` | `TypeOK`, `OwnListeners`, `AnnouncedOnce`, `CardsLearnOfExits`, `NothingLeftBehind`, `AbortedReturns` |
| `mcp` | two operations of any kind on one server, the first of them the program's start or after a start that found no server, two versions of its tools, connections that break; symmetry of the operations | `TypeOK`, `ContextFresh`, `CurrentTools`, `DiscoveryCompletes` |
| `conversation` | three queries, two attempts at a stream, shell commands, hooks that stop the agent, and a compression, a skill or a message of an editor's context | `TypeOK`, `AtRest`, `ReportedOnce`, `Paired` |
| `recording` | four messages, five operations, two faults, torn lines | `TypeOK`, `Recoverable`, `ResumedAsItWas`, `NoEmptySession` |
| `agents` | three calls, two turns, a deadline of two ticks and a grace period of one, one exception, edits and sandbox questions; `FairSpec` | `TypeOK`, `OneLastTurn`, `RunEnds` |
| `stop_execution` | two queries | `BatchAnswered` is violated |
| `agent_aborted` | as `agents` | `AbortedByUser` is violated |

Why these bounds are enough to be interesting.

* Scheduler: two calls make a wave in which one is refused, fails, is replaced or waits
  while the other runs; a third in another request is the batch that waits, is aborted
  while waiting, or inherits what the first leaves behind; one tail call and one
  expansion per call give each of these paths, and the second of either differs from the
  first in nothing the code looks at. The run `order` has four calls so that a wave, its
  boundary and two calls that run alone, one of which has to be moved to the front, are
  in one batch. The calls differ, so there is no symmetry.
* Model fallback: `MaxSends` bounds how often each request begins, `MaxBreaks` how often
  a stream breaks, `MaxSwitches` how often the user switches. There are as many models as
  tiers, and one custom one; two attempts, so that one is not the last, and one for a pro
  model in the chain of `auto`, since the code compares `attempt` with the limit and with
  nothing else. Two requests at a time, of which one is a turn, is what it takes for one
  to change what the other has read. `RetriedOncePerTurn` and `TerminalHolds` need the
  chain of `auto`, which alone has a sticky policy and which the turn has after the
  switch; `OverridesMoveOn` needs a second failure after a bypass.
* Executions: commands with different ids share nothing, so two with one id are the case
  in which anything of the first can reach the second: its card, its batch, its exit
  information and its timers may all be there when the second starts.
* MCP: two operations are enough for one to act on what the other has changed, beside the
  notices of the server and the refreshes that nobody awaits; a connection that breaks,
  a failure and a change of tools are tried one at a time (`OneAtATime`). Two versions
  are before and after a change. A third operation adds one thing: when the start of the
  configured servers and of an extension overlap there may be two clients in the map, and
  an operation that stops one takes the tools of both (`robbed`). What is proved of the
  manager, `CurrentTools` too, holds for any number of operations.
* Conversation: the third query is the continuation of a continuation, or a prompt beside
  one. Two attempts make a retry; a compression and a context, one at a time, are the
  program's own writes to the history. `Followed` tries a context, a compression and the
  activation of a skill (once) in behaviours of their own, without retries, the first two
  without a cancellation and the last without a loop; shell commands, hooks and late
  cancellations are tried with everything. What is proved has no such limits.
* Recording: a fault and the fault of what repairs it; four messages are a prompt, its
  answer and two that a rewind can take away on either side of a checkpoint.
* Sub-agent: three calls are a wave of two with one behind it, with `complete_task`
  anywhere; two turns make a limit that is reached and one that is not.

### Fairness

`FairSpec` has weak fairness of the loop's steps and of each coroutine's: the event loop
runs what is due, and hooks, policy checks and tools return. The last is an assumption
about tools; the code itself sets no limit to them except through the signal. Nothing is
assumed of the user or of the host: no fairness of `Answer`, `ModifyDone`, `Schedule`,
`Abort`, `CancelAll`. The signal ends every wait for an answer, and does not reach an
external editor: `modifiable-tool.ts:167` ignores its `_abortSignal`, and `editor.ts:421`
waits for the editor. A cancelled request with an open editor settles when the user
closes it, and `CancelledSettles` has that as its premise (`EditorsClose`, weak fairness of
`ModifyDone`): once its signal has fired a request settles, though every question is left
open. It would not be true of `cancelAll` alone: `awaitConfirmation` listens to the bus and
to the signal only, so a host that cancels without aborting leaves the coroutine of a
waiting call, and with it the batch, until somebody answers. `EveryScheduleSettles`
therefore has the premise `UserAnswers` beside `EditorsClose`, strong fairness of a yes or
a no to each question (strong, since an edit in an editor leaves the question and comes
back to it), under which every request settles, whoever the host is.

For model fallback `FairSpec` is weak fairness of `Proceed(r)` for each request: the
service answers or fails within the time its client allows, a delay elapses, and the
handler, which in both hosts answers without the user, returns. Which of the outcomes
happens is left open, so that a service that fails for ever is a fair behaviour.
`TurnEnds` is about the A2A server, whose handler stops the request, and about turns
during which the user does not switch: after a switch and a switch back the retry loop
compares with a model that is no longer the one it is asking (`geminiChat.ts:764`,
`:772`). It does not hold of the terminal UI with low verbosity: `retry_once` resets the
attempt counter, so that a service that stays overloaded is asked for ever, until the
user cancels. That is meant ("auto-retry ... without interrupting the user"), and
`AbortedRequestEnds` says that the cancellation works.

For `Executions` it is weak fairness of the exit handler, of the timers, of closing logs
and of the UI's dealing with a result, and of the exit of a process that was killed,
aborted or dismissed; a command that nobody ends may run for ever. For `AgentRun` it is
weak fairness of the program's steps, of the tick and of the timers. Nothing is assumed
of a model or a tool that is not cut, or of the user: `RunEnds` therefore excepts a run
that is held up for ever, or again and again (`HeldUp`): its clock stands still, as it does
while a question is open and after a wait that threw, or an editor is open, which no
deadline closes.

### What disagrees with its documentation

Two runs show a disagreement.

1. `stop_execution`. When a tool asks to stop the agent, `handleCompletedTools` marks the
   calls of the batch as submitted and returns; their responses never reach the history,
   which has the calls. `useGeminiStream.ts:2088` says of the quota error, the other
   reason not to go on, that the responses are recorded because "leaving it unpaired
   corrupts every subsequent request".
2. `agent_aborted`. `local-executor.ts:752`: a run that was aborted, "(user cancelled)",
   is not recovered. Every cancelled call without an outcome of its own counts as that: one
   cut by the deadline, which should have led to the recovery turn of a timeout, and one
   that was queued behind a call the user refused. The caller then says "Operation
   cancelled by user".

Seen while modelling, without a run of their own.

Scheduler:

* `updateStatus` checks that a call is active, not that it is not terminal. A call that
  has succeeded stays active until its wave is done; output that arrives then makes it
  `executing` again, and the success is lost: the loop polls until the batch is
  cancelled, or the next tail call. With late output `OneResultPerCall` and
  `NoStrandedRequest` can therefore be broken, by a call that is never finalized
  (`tui_safety` and `liveness` are without it). `state-manager.test.ts:399` promises that
  updates of terminal calls are ignored; it finalizes the call first. `TerminalStable`,
  checked in `order` with late output, says exactly how far the promise holds: a recorded
  result stands, and so does a decided call that is still active, but for late output
  that takes it from success or cancelled to executing (`LateOutputReopens`).
* The signal does not close an external editor (`modifiable-tool.ts:167`): a cancelled
  `schedule()`, or a sub-agent past its deadline, waits until the user closes it.
* `cancelAll` returns early while `isCancelling` is set, and that is only reset by the
  next batch: requests queued after a first `cancelAll` survive a second.
  `scheduler.test.ts:627` promises that it clears the queue and rejects what waits.
* `rewindUtils.ts:38` takes `Success` for the exact marker of a write that landed; a tool
  that ran to its end as the signal fired is recorded as cancelled.
* "Handle cancellation (cascades to entire batch)" at `scheduler.ts:674`: calls of the
  same wave are no longer queued, and go on. What holds is `DenialStopsQueue`.
* A host that calls `cancelAll` without aborting may see a call start that was reported
  cancelled, when its question is answered afterwards; hence `NoStartAfterReport` is
  checked for hosts that abort.

Model fallback:

* `docs/core/index.md:73`: a utility call whose quota is exhausted falls back from
  flash-lite to flash and pro. The fallback registers an override, which the running call
  does not read, and which no alias matches; the call is repeated with flash-lite and a
  fresh attempt counter, as often as the service says no.
* The comment at `fallback/handler.ts:100` says that the failed model is marked; `setModel`
  wipes all marks in the same step.
* `fallback/types.ts:19` has `retry_once` "retry with fallback model for this request
  only"; `handler.ts:134` retries with the model that failed.
* `docs/cli/model-routing.md:18` says that a silent fallback of a utility call leaves the
  configured model alone; `setModel` (`config.ts:1663`) changes it when the fallback model
  is not the active one.
* `geminiChat.ts:770` says that a changed active model takes over in a retry; a change
  back does not, since it is compared with the model the request began with.

Executions:

* A card is kept by its process id (`shellReducer.ts:69`). When the id is given again, the
  card of a silent task that has exited, or one that a late batch registers, may show the
  new process's output, go with its exit, or, when it is dismissed, kill it. This is in the
  model, and no property excludes it: `OwnListeners` is about what is subscribed, not about
  what a card shows.
* Of two registrations of one card the first exit callback unsubscribes the second while
  the listeners are being called, so that the second one's callback does not run
  (`executionLifecycleService.ts:346`).
* `useExecutionLifecycle.ts:263`: "Silent tasks stay in the UI until manually dismissed."
  `useGeminiStream.ts:1993` registers a card without a completion behaviour, and the card
  goes with the exit.
* "The subscription from registerBackgroundTask is the single writer" of a card
  (`useExecutionLifecycle.ts:447`): a user's command sent to the background has two.
* A command that the lifecycle alone sends to the background has no log, and its end is
  announced with "Output saved to".
* A batch that outlasts the time-to-live of exit information registers a card for a
  process that has exited, and the card says that it runs, for good.

MCP:

* "User-disabled servers: disconnect if running" (`mcp-client-manager.ts:428`): a server
  that is disabled while a restart is connecting it stays connected.
* "We should stop the old client before starting the new one" (`:402`): two discoveries of
  one server that overlap leave two clients connected, one of them not in the map.
  A disconnect of either removes the tools of both (`removeMcpToolsByServer`, `mcp-client.ts:283`),
  and the one that stays connected has none until the server announces a change.
* `stop()` during a discovery leaves the client which that discovery connects (`:629`).
* "Disconnects all MCP clients from their servers" (`:194`), says `stopExtension`. An
  extension that is uninstalled while `isDisabledByUser` is awaited has no client yet; the
  discovery then looks at `isActive`, which uninstalling leaves true, and connects one
  (`:429`). A restart brings back the configuration of an extension that was stopped
  meanwhile.
* A discovery that was overtaken by a refresh registers the older tools beside the newer,
  and tools can be registered after their client was disconnected; `CurrentTools`
  therefore asks that the current tools are there, not that no others are.
* A connection that reports an error is not closed.

Conversation:

* The `UserCancelled` event of a cancelled query may come when the next prompt is under way
  and then clears `isResponding` of that one: the UI takes a third prompt while it reads
  the second's stream (`useGeminiStream.ts:1181`). `AtRest` says that the flag is missing
  for no other reason (`dimmed`); a third prompt that is taken then sets `overtaken`.
* A prompt can be submitted while another is still reading its files
  (`AppContainer.tsx:1141`); when both go on `isResponding` may stay set until Esc.
* Two senders that wait for one stream both go on when it ends, each with its own lock
  (`geminiChat.ts:404`); a rollback of the first removes what the second has added.
* A query that is sent again after a loop repeats responses that are recorded.
* At the session's turn limit, at the context window's and at a hook that blocks, the
  tool responses a turn was given are dropped (`client.ts:601`).
* Calls of an attempt that is discarded, or of a stream that is left, have been collected
  and are scheduled; their responses are then without calls.
* Results recorded while the history is being compressed are lost with the old chat.
* An invalid answer is tried again though the signal has fired (`geminiChat.ts:622`).

Recording:

* A line that was cut off by a full disk takes the next record with it: a resumed session
  only looks at the header (`chatRecordingService.ts:452`, "so subsequent appends keep a
  loadable file"). If the header itself was cut, the retry leaves a file that cannot be
  read.
* Rewinds, amendments and checkpoints change memory before they are appended; when the
  append fails, a later checkpoint with the same messages is skipped as "identical to
  what is already persisted".
* A record that is appended while the session's file is being unlinked makes it anew
  (`:908`: "so no further record can recreate the deleted file").
* After a full disk recording is off until a restart, says the warning; a compression
  starts a new file.

Sub-agents:

* The pause of the deadline is a flag, not a count: of two open questions the first
  answer starts the clock, although the time is to be credited back
  (`local-executor.ts:583`). A wait that ends with an exception leaves it stopped.
* The grace period is not stopped by questions.
* When the user has cancelled and the deadline has passed a last turn is begun.
* In `LocalSubagentProtocol` whoever awaits the result may send again before the first
  stream has cleared the active stream's id, which then clears the second's.

---------------------------------------------------------------------------------------

## 4. The proofs

`tlapm` checks every step of the eight proof modules. Each theorem is of `Spec` and holds
for every value of the constants that the named assumptions allow; TLC evaluates these in
every run. The way is the same throughout: a run's property is seldom inductive, so an
invariant is stated beside it that is (in the component's module or its properties), TLC
checks it on the run's instance, and one lemma for each action shows that the action keeps
it. Type invariants come first, since `EXCEPT` says something of functions only.

### Scheduler (`SchedulerAssumption`, `BatchAssumption`)

Any set of calls and requests, any batches, hosts and bounds.

* `TypeCorrect`: `TypeOK` is inductive by itself, given lemmas that say what each
  operation of the manager returns; `ProcessQueueType` and its companions do the loop once,
  for the four actions that contain it.
* `OnlyApprovedCallsRun`, with or without late output. `RunsOnlyApproved` says only what
  runs, while the loop starts whatever is `scheduled`. `ApprovedInv` adds that a scheduled
  call is approved and that its coroutine is at rest (so nothing can withdraw the approval,
  as a tail call does, between approval and start).
* `BatchesEndClean`, `NoRequestIsStranded`. `NothingOutlivesBatch` needs that `loop` leaves
  a wave only when it is empty. That is `WaveInv`: after step 1 each call is scheduled or
  terminal, after step 2 each is terminal, so that step 3 empties the active calls, and the
  queue holds only calls that are to be validated or reported and are not active. `RestInv`
  adds `isProcessing <=> loop # "idle"` and that an idle scheduler has an empty request
  queue; also, that the loop's timer and its "stuck" exit (`scheduler.ts:532-541`) are
  unreachable. `NoStrandedRequest` has no run of its own: a contract in which nobody waits
  unless a batch runs, `KeepsBatchContract`, is what the run `liveness` checks.
* `EveryCallHasOneResult`, from `ResultInv`, an account (`AccountedIn`): each call of the
  batch in progress is queued, or active, or completed once, and no other call is any of
  these. A batch that ends has neither queue nor active calls, so it resolves with each
  call once.
* `SchedulerKeepsBatchContract`: the refinement of `BatchContract`, step by step. A step of
  the scheduler is one of the contract's (a request is taken, waits, is settled; the next
  one begins) or leaves its variables alone.
* `DecidedCallsStand`: `TerminalStable`, with or without late output, from `DecidedInv`: a
  recorded call is neither queued nor active, what is queued is at rest, and a coroutine at
  work on an active call finds it undecided. It does not rest on `WaveInv`, which late
  output breaks, so it has its own account of the requests that have not begun (`LineInv`).
* `NoToolStartsAfterReport`, under hosts that fire the signal whenever they call
  `cancelAll`, from `WorkedOnInv`: a call whose coroutine is at work is active, or the
  signal has fired.
* `SerialCallsRunInOrder`, `ModificationsTouchOwnCall`, `DenialEmptiesQueue`, from
  `OrderInv`: behind its tail calls the queue stands in the order of the batch, a call that
  is not parallelizable is alone in its wave and has all earlier calls completed and all
  later ones untouched, and after a refusal only tail calls are queued. `firstActiveCall`
  is then the call that is edited.

All but `TypeCorrect`, `OnlyApprovedCallsRun` and `DecidedCallsStand` assume
`LateOutput = FALSE`: with late output `NothingOutlivesBatch`, `NoStrandedRequest` and
`OneResultPerCall` can be broken (section 3); the three properties of the order of calls
the run `order` checks with it as well.

### Model fallback (`PolicyAssumption`, `FallbackAssumption`)

Any requests of the three kinds, whatever names they ask for and the user switches to, any
hosts, errors and bounds.

* `TypeCorrect`: the model of a request, of a selection and of a fallback is a model only
  because every chain, sliced anywhere, is not empty and ends with a policy of last resort
  (`Chain`, `SuffixType`, `PolicyChainType`), and what follows a failed model in it is empty
  or such a chain again (`CandidatesType`).
* `TerminalMarksHold`: each action's lemma (`...IsGood`) proves `TypeOK'` and that the step
  takes a terminal mark away only in the two ways allowed. All but `Succeeds` satisfy the
  stronger `Keeps`: every terminal mark stays, or all marks are reset.
* `RetriedOnceHolds`: `RetriedOncePerTurn` is inductive, once what a step can make of
  `Config` is known (`ConfChanges`): an attempt consumes the sticky mark it was begun on,
  and a mark that is consumed is made available again only where `retried` forgets the
  model too.
* `OverridesLeadOn`: the override that is registered for a failed model leads to another,
  and in the same step every override that led to the failed one does so too
  (`ActivateOverrides`).
* `CustomModelStays`: a custom model's chain is that model alone, so every fallback in it
  selects it again. `CustomInv` says that, until the user switches, the configured and the
  active model, the override of every name, the fallback of every open question and each
  turn's model are that one. It needs that a custom model is not a tier's, which the
  assumption now says, as the code tells them apart by that (`policyHelpers.ts:114`).

### Executions (`Pids # {}`)

Any number of commands and process ids.

`Inv` is the conjunction from which all five theorems follow (`ExecutionsTyped`,
`OwnListenersOnly`, `AnnouncedExactlyOnce`, `RunningCardsListen`, `NothingIsLeftBehind`).
Its parts: an id has at most one command under way (`OneCommandPerId`); a listener is
never registered on an id that stands for nothing (`ListenersHear`), and the id of every
listener still stands for the execution it was registered on (`OwnListeners`), though it
may be the listener of an earlier command's card or batch; what an id stands
for is live, and its end has not been announced nor its exit information stored
(`ActiveIsLive`); a caller without a result has a pending promise, for what is active
(`PendingIsActive`); only a dismissal forgets a command that is live, and a command that
was forgotten has left exit information, unless a timer has dropped it (`Forgotten`), which
is what a card registered later is told by; entries, open logs and histories that say
running are of live commands (`LogInv`).

### MCP manager

Any number of operations.

* `ManagerTyped`; `ModelKnowsTools`: `ContextFresh` follows from `ContextInv`, that as long
  as the chat and the registry differ, a refresh is running or asked for, or some operation
  is under way that will ask for one before it ends.
* `NobodyWaitsForDiscovery`: from `DiscoveryInv`, that a discovery in progress has a promise
  in the chain, or the operation that will complete it.
* `ToolsStayCurrent`: `CurrentTools` follows from `ToolsInv`, that as long as nothing has
  failed and the current tools are not registered, every connected client that was not
  robbed has somebody who owes them: the client itself, which asks or will ask once more
  when its refresh is over (`Asks`), or a discovery that has not fetched the list yet or
  has fetched the current one (`AskedFor`). It needs that a connected client listens to
  notices (`live`) and that a noted notice belongs to a refresh that runs. The debt ends
  when the tools are there, when the connection of whoever owes it ends (`failed`), or
  with a disconnect (`robbed`). `ToolsInv` was checked with three starts
  of an extension as well before it was proved.

### Conversation (`ConversationAssumption`)

Any number of queries, attempts, compressions and contexts.

* `ConversationTyped`. Beyond types it says that a query answers calls of an earlier one,
  which is not inductive without `OrderInv`: queries begin in their order, and `last` is one
  that has begun.
* `RestsWhenDone`: `AtRest` follows from `RestInv`. As long as nothing has overtaken, the
  UI responds only for the current query, and that is under way and past its preparation;
  every other query that is under way is aborted; and for the current one the UI responds
  unless an event has cleared the flag (`dimmed`), as a late one of an aborted query or of
  a hook does. So the end of an aborted query never finds itself current, and the end of
  the current one finds nobody else to respond for.
* `ResultsReportedOnce`: from `ReportInv`. Before a batch ends nobody has its results;
  afterwards they are with one query at most that has not sent them, and then they are not
  in the history. Each of the three ways to report takes them from that query, or from the
  batch as it ends.
* `CallsStayPaired`: `Paired` says nothing of who may write next, so it takes three more
  invariants, all but the first under `~overtaken`. `CallsInv`: only the query whose stream
  is read, or whose batch is under way, has calls that are not excused, a batch that was
  cancelled in its tools included. None of the four says that the UI responds: a flag that
  was cleared too early lets a prompt in, which is what `overtaken` notes. `LockInv`: a query that reads a stream of the present chat has the lock, its
  message is still where it was put, and what a rollback would cut off does not begin with a
  response (otherwise the cut would leave a call behind); a query that waits for a stream
  waits for the one with the lock. `PairInv`: the history ends with an open call exactly as
  long as the current query has the batch or the results of it (`Matches`), nobody has the
  lock then, and the snapshot a compression works on ends in the same way. From these, each
  edit is a lemma on sequences: an append keeps the pairs when what it appends answers the
  open call or there is none (`PairedAppend`), a prefix does when it does not end between a
  call and its response (`PairedPrefix`), and so does what a compression keeps when it is
  cut at a split point (`PairedCompressed`). TLC checked the invariants on the states of
  `conversation`, and on those of two queries with no restriction but `~overtaken`.

### Recording (`RecordingAssumption`)

Any number of messages, operations and faults, and files of any length.

What `Load` returns needs induction over the lines. The library's theorems of induction
take an operator, which the provers cannot instantiate; `Least` gets from
`NatLessThanWellFounded` and `WFMin`, which are about sets, that a set of naturals has a
least element, and `Induct` is induction as a fact about sets. From it: the function that
`Load` chooses exists (`ReadsExist`), a line that is appended is read last (`LoadAppend`),
what is read is messages of known ids (`LoadReadable`), a file that begins with a header
has one (`LoadHeader`), and one that was written anew reads as the messages it was written
from (`LoadAnew`, which needs that no two of them have one id).

* `RecordingTyped` and `SessionRecoverable`. `Recoverable` says nothing while records are
  held back, nor of what an operation has still to write, so four invariants stand beside
  it, of which none is inductive without the others. `IdsInv`: memory and the lines hold an
  id once and none that was not given out. `LazyInv`: nothing but the beginning of a torn
  line is on disk while the header is held back. `WritesInv`: of the writes that are left
  the last alone may be one that memory is ahead of, and then it says what memory has
  become; a rewrite is the first, of the conversation as it was; a flush has something
  worth resuming behind it. `ReadInv`: a file that has not been deleted has a header; what
  a reader makes of one that has a header, or would make of what is held back, is memory,
  or memory before the operation if that is ahead; what is held back is not worth resuming
  until the flush is the next write. Each write is then one line read more (`LineFollows`),
  or says nothing and is lost to a torn line, or is noted in `unsaved`; a checkpoint makes
  up for all before it.
* `ResumesAsItWas`: the same of the session that `--resume` brings back, however the last
  one ended. It has none of the excuses of a file that is being deleted: a file that was
  deleted and that later records made anew has no header, and cannot be resumed, until a
  compression writes all of it again, since nothing but a rewrite or the first flush writes
  a header (`WritesInv`). `OffInv` carries what `ReadInv` says of a running session over the
  time in which the recording is off (a full disk, a crash): memory still has what the file
  has, unless it was dropped with a deleted session. It holds when the recording ends
  (`LeftBehind`: what is held back then cannot be resumed, `LazyUnread`) and stays, as
  nothing but the unlinking touches the file of a recording that is off (`OffKept`).
* `NoEmptyFile`: a file comes to be by a flush or a rewrite only, as an append finds the
  header held back (`LazyInv`), and `WritesInv` says what these are for.

TLC checked the five invariants on the instance of `recording`.

### Sub-agents (`AgentAssumption`)

Any calls, number of turns and length of the timers.

* `TypeCorrect`, which is inductive. Its part beyond types is that a last turn has a reason
  that can be recovered from, or the goal.
* `OneLastTurnHolds`. `late <= 1` needs that the loop is never entered in the last turn
  (`phase = "loop" => ~grace`), so that a turn begun in the loop is within both limits, and
  that `late` is 0 until the last turn.

### Only model-checked

* Liveness (`EveryScheduleSettles`, `CancelledSettles`, `AbortedRequestEnds`, `TurnEnds`,
  `AbortedReturns`, `RunEnds`): out of the prover's reach, as is ENABLED.

---------------------------------------------------------------------------------------

## 5. What is not modelled

Responses, arguments, live output, progress and telemetry are data the properties do not
tell apart. Correlation ids and the subscriptions of the bus, the policy rules an
"always allow" adds, and the inside of hooks and tools are nondeterministic outcomes
here. File formats, rendering, networking, platform sandboxes and vendored code have no
protocol worth a model; they are by far the largest part of the repository. In detail:

* model fallback: chains a user configures (which may lack a last resort), provider
  profiles with tiers of their own, the validation dialog, a `BeforeModel` hook that
  changes the model, `client.generateContent`, and the length of delays;
* executions: those without a process, writing to a terminal and resizing it, the kill of
  everything when the program exits;
* MCP: a refresh of the context that fails, the administrator's lists, folder trust, the
  registries of sub-agents, prompts and resources, anything after the program's exit;
* conversation: the continuation and the clearing an `AfterAgent` hook may ask for, the
  context-management pipeline, masking and truncation of contents, parts injected for
  binary results;
* recording: merging of metadata, queued thoughts and token counts, the scratchpad, the
  recorder of a chat that compression has replaced;
* sub-agents: remote ones, compression within a run, injected hints, sessions.

`PROJECT.json` says so component by component.

---------------------------------------------------------------------------------------

## 6. The plan

In order; each is a module or a proof of its own.

1. `Confirmation`: bus, correlation ids, two questions and two answerers; refines the
   phases `await`/`cancel`/`proceed` of `Scheduler`.
2. `Policy` and `Hooks`: pure operators against a reference definition over all small
   rule sets (rule priority; the aggregation of hook outputs).
3. `AgentSession`: one stream at a time, event replay to late readers.
4. `A2ATask`: the task states over `BatchContract`, cancellation without abort.
5. `ModelFallback`, to be extended: the `BeforeModel` hook. `Conversation`: the `AfterAgent`
   hook, and `BatchContract` in place of its step from `tools`.
