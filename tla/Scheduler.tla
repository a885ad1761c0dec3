----------------------------- MODULE Scheduler ------------------------------
(***************************************************************************)
(* The tool scheduler of an agent turn                                     *)
(* (packages/core/src/scheduler/scheduler.ts, with the parts of            *)
(* confirmation.ts, hook-utils.ts, policy.ts and tool-executor.ts it       *)
(* awaits).  A host calls schedule(batch, signal); the scheduler runs one  *)
(* batch at a time, others wait in requestQueue, and each promise settles  *)
(* with the completed calls of its batch.                                  *)
(*                                                                         *)
(* JavaScript runs one callback to its next await without interruption, so *)
(* an action is one such segment: everything between two awaits, however   *)
(* many methods it goes through.  The processing loop is a program counter *)
(* (`loop'); each call being validated or executed is a coroutine with a   *)
(* counter of its own (`phase').                                           *)
(***************************************************************************)
EXTENDS SchedulerState

CONSTANTS
  Requests,        \* the schedule() calls of a behaviour, one signal each
  BatchOf,         \* the tool calls of each request, in the model's order
  TopicCalls,      \* the calls to update_topic
  SerialCalls,     \* the calls that are not parallelizable (edits included)
  SandboxCalls,    \* the calls whose tool may ask for a sandbox expansion
  MaxTails,        \* bound: tail calls of one call
  MaxExpansions,   \* bound: sandbox expansions of one call
  HostCancels,     \* how the host cancels: "signal", "cancelAll" or "both"
  LateOutput       \* may a tool report live output after it has returned?

ASSUME SchedulerAssumption ==
  /\ BatchOf \in [Requests -> Seq(Calls)]
  /\ \A r1, r2 \in Requests :
       \A i \in DOMAIN BatchOf[r1], j \in DOMAIN BatchOf[r2] :
         BatchOf[r1][i] = BatchOf[r2][j] => r1 = r2 /\ i = j
  /\ TopicCalls \subseteq SerialCalls
  /\ SerialCalls \subseteq Calls
  /\ SandboxCalls \subseteq Calls
  /\ MaxTails \in Nat /\ MaxExpansions \in Nat
  /\ HostCancels \subseteq {"signal", "cancelAll", "both"}
  /\ LateOutput \in BOOLEAN

VARIABLES
  sm,              \* the state manager (SchedulerState)
  isProcessing,
  isCancelling,
  requestQueue,
  promise,         \* what the caller of schedule() holds
  aborted,         \* the requests whose AbortSignal has fired
  cur,             \* the request of the batch in progress (or the last one)
  loop,            \* where _processQueue stands
  initial,         \* initialStatuses of the iteration in progress
  madeProgress,    \* some _execute of this iteration returned true
  phase,           \* where each call's coroutine stands
  par,             \* _isParallelizable of each call's present request
  tails,           \* tail calls made by each call
  expansions,      \* sandbox expansions asked by each call
  \* History variables: what the code's promises are about.
  approved,        \* calls whose present request was allowed to run
  userDenied,      \* the user refused a call of the present batch
  landed,          \* calls whose tool ran to a normal end: its effects exist
  reported         \* how often each call occurs in the result of its batch

loopVars    == <<cur, loop, initial, madeProgress>>
hostVars    == <<isProcessing, isCancelling, requestQueue, promise, aborted>>
callVars    == <<phase, par, tails, expansions>>
historyVars == <<approved, userDenied, landed, reported>>
vars == <<sm, loopVars, hostVars, callVars, historyVars>>

\* "idle": no batch.  "top": about to evaluate _processQueue's condition.
\* "validating", "executing": awaiting the Promise.all of step 1 or step 2.
\* "yield": awaiting the 10ms timer.  "stop": the loop has been left.
Loop == {"idle", "top", "validating", "executing", "yield", "stop"}

\* "done": no coroutine.  "policy_ask" is "policy" after a hook said ask.
Validation == {"hook", "policy", "policy_ask", "details", "await", "modify",
               "cancel", "proceed"}
Phase == Validation \cup {"run", "done"}

Promises == {"new", "queued", "running", "resolved", "rejected"}

Absent == [c \in Calls |-> "absent"]

TypeOK ==
  /\ sm \in Manager
  /\ isProcessing \in BOOLEAN
  /\ isCancelling \in BOOLEAN
  /\ requestQueue \in Seq(Requests)
  /\ promise \in [Requests -> Promises]
  /\ aborted \subseteq Requests
  /\ cur \in Requests
  /\ loop \in Loop
  /\ initial \in [Calls -> Status \cup {"absent"}]
  /\ madeProgress \in BOOLEAN
  /\ phase \in [Calls -> Phase]
  /\ par \in [Calls -> BOOLEAN]
  /\ tails \in [Calls -> 0..MaxTails]
  /\ expansions \in [Calls -> 0..MaxExpansions]
  /\ approved \subseteq Calls
  /\ userDenied \in BOOLEAN
  /\ landed \subseteq Calls
  /\ reported \in [Calls -> Nat]

Init ==
  /\ sm = EmptyManager
  /\ isProcessing = FALSE
  /\ isCancelling = FALSE
  /\ requestQueue = <<>>
  /\ promise = [r \in Requests |-> "new"]
  /\ aborted = {}
  /\ cur \in Requests
  /\ loop = "idle"
  /\ initial = Absent
  /\ madeProgress = FALSE
  /\ phase = [c \in Calls |-> "done"]
  /\ par = [c \in Calls |-> c \notin SerialCalls]
  /\ tails = [c \in Calls |-> 0]
  /\ expansions = [c \in Calls |-> 0]
  /\ approved = {}
  /\ userDenied = FALSE
  /\ landed = {}
  /\ reported = [c \in Calls |-> 0]

(***************************************************************************)
(* The processing loop.  The operators below are the pieces of one segment *)
(* of _processNextItem; each takes the manager as the segment has left it  *)
(* so far and fixes sm', loop', initial', madeProgress' and phase'.        *)
(***************************************************************************)
\* The batch with update_topic first (at most one, by BatchAssumption below).
SortedBatch(r) ==
  LET b == BatchOf[r]
      first == {i \in DOMAIN b : b[i] \in TopicCalls}
  IN  IF first = {} THEN b
      ELSE LET i == CHOOSE i \in first : TRUE IN <<b[i]>> \o RemoveAt(b, i)

ASSUME BatchAssumption ==
  \A r \in Requests : \A i, j \in DOMAIN BatchOf[r] :
    BatchOf[r][i] \in TopicCalls /\ BatchOf[r][j] \in TopicCalls => i = j

\* Mutant: the first call is taken for parallelizable without a look.
IsWaveUncheckedFirst(q, k) ==
  /\ \A i \in 2..k : par[q[i]]
  /\ k < Len(q) => ~par[q[k + 1]]

\* The number of calls dequeued together: one, or every leading
\* parallelizable one.
IsWave(q, k) ==
  \/ k = 1 /\ ~par[q[1]]
  \/ /\ \A i \in 1..k : par[q[i]]
     /\ k < Len(q) => ~par[q[k + 1]]

LoopGoes(where) == loop' = where /\ initial' = Absent /\ madeProgress' = FALSE

\* Step 3: report terminal calls, then go round, wait, or give up.
FinalizeWave(m, progress, before) ==
  LET done    == TerminalActive(m)
      left    == m.active \ done
      changed == \E c \in Calls : /\ before[c] # "absent"
                                  /\ \/ c \notin m.active
                                     \/ m.status[c] # before[c]
      waiting == \E c \in left : m.status[c] \in {"awaiting_approval", "executing"}
  IN  /\ sm' = FinalizeCalls(m, done)
      /\ UNCHANGED phase
      /\ LoopGoes(IF progress \/ changed \/ done # {} THEN "top"
                  ELSE IF waiting THEN "yield" ELSE "stop")

\* Step 2: when every active call is ready, start the scheduled ones.
ExecuteWave(m, r, before) ==
  LET scheduled == {c \in m.active : m.status[c] = "scheduled"}
      ready     == \A c \in m.active : c \in scheduled \/ IsTerminal(m, c)
      started   == IF r \in aborted THEN {} ELSE scheduled
  IN  \/ /\ ready /\ scheduled # {}
         /\ sm' = [m EXCEPT !.status =
                     [c \in Calls |-> IF c \in started THEN "executing"
                                      ELSE IF c \in scheduled THEN "cancelled"
                                      ELSE @[c]]]
         /\ phase' = [c \in Calls |-> IF c \in started THEN "run" ELSE phase[c]]
         /\ loop' = "executing" /\ initial' = before /\ madeProgress' = FALSE
      \/ /\ ~(ready /\ scheduled # {})
         /\ FinalizeWave(m, FALSE, before)

\* Step 1: start a coroutine for every validating call.
ValidateWave(m, r, before) ==
  LET validating == {c \in m.active : m.status[c] = "validating"}
  IN  \/ /\ validating # {}
         /\ sm' = m
         /\ phase' = [c \in Calls |-> IF c \in validating THEN "hook" ELSE phase[c]]
         /\ loop' = "validating" /\ initial' = before /\ madeProgress' = FALSE
      \/ /\ validating = {}
         /\ ExecuteWave(m, r, before)

InitialStatuses(m) ==
  [c \in Calls |-> IF c \in m.active THEN m.status[c] ELSE "absent"]

\* _processQueue's condition and _processNextItem up to its first await.
ProcessQueue(m, r, cancelling) ==
  \/ /\ m.queue = <<>> /\ m.active = {}
     /\ sm' = m
     /\ LoopGoes("stop") /\ UNCHANGED phase
  \/ /\ m.queue # <<>> \/ m.active # {}
     /\ r \in aborted \/ cancelling
     /\ sm' = CancelAllQueued(FinalizeCalls(m, m.active))
     /\ LoopGoes("stop") /\ UNCHANGED phase
  \/ /\ r \notin aborted /\ ~cancelling
     /\ m.active # {}
     /\ ValidateWave(m, r, InitialStatuses(m))
  \/ /\ r \notin aborted /\ ~cancelling
     /\ m.active = {} /\ m.queue # <<>>
     /\ \/ /\ m.status[Head(m.queue)] = "error"
           /\ sm' = FinalizeCalls(Dequeue(m, 1), {Head(m.queue)})
           /\ LoopGoes("top") /\ UNCHANGED phase
        \/ /\ m.status[Head(m.queue)] # "error"
           /\ \E k \in 1..Len(m.queue) :
                /\ IsWave(m.queue, k)
                /\ ValidateWave(Dequeue(m, k), r, InitialStatuses(m))
-----------------------------------------------------------------------------
(***************************************************************************)
(* schedule, the request queue and the end of a batch.                     *)
(***************************************************************************)
\* _startBatch: some calls fail to build; p is the promises as they stand.
StartBatch(m, p, r) ==
  \E failed \in SUBSET ToSet(BatchOf[r]) :
    /\ isProcessing' = TRUE
    /\ isCancelling' = FALSE
    /\ cur' = r
    /\ promise' = [p EXCEPT ![r] = "running"]
    /\ userDenied' = FALSE
    /\ ProcessQueue(Enqueue(ClearBatch(m), SortedBatch(r), failed), r, FALSE)

\* _enqueueRequest: q is the request queue as it stands.
EnqueueRequest(q, p, r) ==
  /\ requestQueue' = IF r \in aborted THEN q ELSE Append(q, r)
  /\ promise' = [p EXCEPT ![r] = IF r \in aborted THEN "rejected" ELSE "queued"]

Schedule(r) ==
  /\ promise[r] = "new"
  /\ \/ /\ ~isProcessing /\ sm.active = {}
        /\ StartBatch(sm, promise, r)
        /\ UNCHANGED requestQueue
     \/ /\ isProcessing \/ sm.active # {}
        /\ EnqueueRequest(requestQueue, promise, r)
        /\ UNCHANGED <<sm, loopVars, isProcessing, isCancelling, phase, userDenied>>
  /\ UNCHANGED <<aborted, par, tails, expansions, approved, landed, reported>>

LoopTop ==
  /\ loop = "top"
  /\ ProcessQueue(sm, cur, isCancelling)
  /\ UNCHANGED <<cur, hostVars, par, tails, expansions, historyVars>>

\* The Promise.all of step 1 settles once every coroutine has.
Validated ==
  /\ loop = "validating"
  /\ \A c \in Calls : phase[c] = "done"
  /\ ExecuteWave(sm, cur, initial)
  /\ UNCHANGED <<cur, hostVars, par, tails, expansions, historyVars>>

Executed ==
  /\ loop = "executing"
  /\ \A c \in Calls : phase[c] = "done"
  /\ FinalizeWave(sm, madeProgress, initial)
  /\ UNCHANGED <<cur, hostVars, par, tails, expansions, historyVars>>

TimerFires ==
  /\ loop = "yield"
  /\ loop' = "top"
  /\ UNCHANGED <<sm, cur, initial, madeProgress, hostVars, callVars, historyVars>>

\* Mutant: the next request is not looked for.
FinishBatchAlone ==
  /\ loop = "stop"
  /\ reported' = [c \in Calls |-> IF c \in ToSet(BatchOf[cur])
                                  THEN sm.completed[c] ELSE reported[c]]
  /\ promise' = [promise EXCEPT ![cur] = "resolved"]
  /\ isProcessing' = FALSE
  /\ sm' = ClearBatch(sm)
  /\ LoopGoes("idle")
  /\ UNCHANGED <<cur, isCancelling, phase, userDenied, requestQueue>>
  /\ UNCHANGED <<aborted, par, tails, expansions, approved, landed>>

\* The end of _startBatch, its finally block and _processNextInRequestQueue.
FinishBatch ==
  LET p    == [promise EXCEPT ![cur] = "resolved"]
      idle == /\ isProcessing' = FALSE
              /\ sm' = ClearBatch(sm)
              /\ LoopGoes("idle")
              /\ UNCHANGED <<cur, isCancelling, phase, userDenied>>
  IN  /\ loop = "stop"
      /\ reported' = [c \in Calls |-> IF c \in ToSet(BatchOf[cur])
                                      THEN sm.completed[c] ELSE reported[c]]
      /\ \/ /\ requestQueue = <<>>
            /\ promise' = p
            /\ UNCHANGED requestQueue
            /\ idle
         \/ /\ requestQueue # <<>> /\ sm.active = {}
            /\ requestQueue' = Tail(requestQueue)
            /\ StartBatch(ClearBatch(sm), p, Head(requestQueue))
         \/ /\ requestQueue # <<>> /\ sm.active # {}
            /\ EnqueueRequest(Tail(requestQueue), p, Head(requestQueue))
            /\ idle
      /\ UNCHANGED <<aborted, par, tails, expansions, approved, landed>>
-----------------------------------------------------------------------------
(***************************************************************************)
(* The coroutine of one call: _processToolCall and resolveConfirmation     *)
(* (loop = "validating"), _execute (loop = "executing", which goes through *)
(* resolveConfirmation again when the sandbox refuses the command).        *)
(***************************************************************************)
\* The coroutine ends and leaves its call in a status.
Ends(c, status) ==
  /\ sm' = UpdateStatus(sm, c, status)
  /\ phase' = [phase EXCEPT ![c] = "done"]

Continues(c, where) ==
  /\ phase' = [phase EXCEPT ![c] = where]
  /\ UNCHANGED sm

\* What an exception makes of the call: the catch of _processValidatingCall,
\* or the one of _execute, which falls back on the tool's error.
ThrownStatus ==
  IF loop = "executing" THEN {"error"}
  ELSE IF cur \in aborted THEN {"cancelled"} ELSE {"error", "cancelled"}

Throws(c) == \E status \in ThrownStatus : Ends(c, status)

\* The head of resolveConfirmation's loop.
ConfirmationLoop(c) ==
  IF cur \in aborted THEN Throws(c) ELSE Continues(c, "details")

callRest == <<loopVars, hostVars, par, tails>>

HookReturns(c) ==
  /\ phase[c] = "hook"
  /\ \/ Ends(c, "error")
     \/ \E where \in {"policy", "policy_ask"} : Continues(c, where)
  /\ UNCHANGED <<callRest, expansions, historyVars>>

\* A hook that says ask overrides every decision of the policy, DENY included.
PolicyReturns(c) ==
  /\ phase[c] \in {"policy", "policy_ask"}
  /\ \/ /\ phase[c] = "policy"
        /\ Ends(c, "error")
        /\ UNCHANGED approved
     \/ /\ phase[c] = "policy"
        /\ Ends(c, "scheduled")
        /\ approved' = approved \cup {c}
     \/ /\ ConfirmationLoop(c)
        /\ UNCHANGED approved
  /\ UNCHANGED <<callRest, expansions, userDenied, landed, reported>>

\* Mutant: the status is named after the wait.
DetailsReturnAwait(c) ==
  /\ phase[c] = "details"
  /\ \/ Continues(c, "proceed")
     \/ /\ sm' = UpdateStatus(sm, c, "await")
        /\ phase' = [phase EXCEPT ![c] = "await"]
  /\ UNCHANGED <<callRest, expansions, historyVars>>

\* shouldConfirmExecute: nothing to confirm, or a question for the user.
DetailsReturn(c) ==
  /\ phase[c] = "details"
  /\ \/ Continues(c, "proceed")
     \/ /\ sm' = UpdateStatus(sm, c, "awaiting_approval")
        /\ phase' = [phase EXCEPT ![c] = "await"]
  /\ UNCHANGED <<callRest, expansions, historyVars>>

\* The user answers, on the bus or in the IDE.  Only the edit tools, which
\* are never parallelizable, can be modified.
Answer(c, outcome) ==
  /\ phase[c] = "await" /\ cur \notin aborted
  /\ outcome = "modify" => ~par[c] /\ loop = "validating"
  /\ Continues(c, outcome)
  /\ UNCHANGED <<callRest, expansions, historyVars>>

WaitAborted(c) ==
  /\ phase[c] = "await" /\ cur \in aborted
  /\ Throws(c)
  /\ UNCHANGED <<callRest, expansions, historyVars>>

\* An external edit asks again; an inline one (new content) proceeds.
ModifyDone(c) ==
  /\ phase[c] = "modify"
  /\ ConfirmationLoop(c) \/ Continues(c, "proceed")
  /\ UNCHANGED <<callRest, expansions, historyVars>>

\* Mutant: a refusal does not reach the queue.
UserRefusesOne(c) ==
  /\ phase[c] = "cancel"
  /\ Ends(c, IF loop = "validating" THEN "cancelled" ELSE "error")
  /\ userDenied' = (userDenied \/ loop = "validating")
  /\ UNCHANGED <<callRest, expansions, approved, landed, reported>>

UserRefuses(c) ==
  /\ phase[c] = "cancel"
  /\ phase' = [phase EXCEPT ![c] = "done"]
  /\ \/ /\ loop = "validating"
        /\ sm' = CancelAllQueued(UpdateStatus(sm, c, "cancelled"))
        /\ userDenied' = TRUE
     \/ /\ loop = "executing"
        /\ sm' = UpdateStatus(sm, c, "error")
        /\ UNCHANGED userDenied
  /\ UNCHANGED <<callRest, expansions, approved, landed, reported>>

\* Mutant: the repeated execution does not look at the signal.
UserAllowsUnchecked(c) ==
  /\ phase[c] = "proceed"
  /\ \/ /\ loop = "validating"
        /\ Ends(c, "scheduled")
     \/ /\ loop = "executing"
        /\ sm' = UpdateStatus(sm, c, "executing")
        /\ phase' = [phase EXCEPT ![c] = "run"]
  /\ approved' = approved \cup {c}
  /\ UNCHANGED <<callRest, expansions, userDenied, landed, reported>>

\* Allowed: scheduled, or, after a sandbox expansion, run at once again.
UserAllows(c) ==
  /\ phase[c] = "proceed"
  /\ \/ /\ loop = "validating"
        /\ Ends(c, "scheduled")
     \/ /\ loop = "executing" /\ cur \in aborted
        /\ Ends(c, "cancelled")
     \/ /\ loop = "executing" /\ cur \notin aborted
        /\ sm' = UpdateStatus(sm, c, "executing")
        /\ phase' = [phase EXCEPT ![c] = "run"]
  /\ approved' = approved \cup {c}
  /\ UNCHANGED <<callRest, expansions, userDenied, landed, reported>>

\* The hook, the policy check, the tool, the bus or the editor throws.
ValidationThrows(c) ==
  /\ phase[c] \in Validation
  /\ Throws(c)
  /\ UNCHANGED <<callRest, expansions, historyVars>>

\* ToolExecutor.execute, the tool having run to its end.
ToolSucceeds(c) ==
  /\ phase[c] = "run"
  /\ \E status \in {"success"} \cup (IF cur \in aborted THEN {"cancelled"} ELSE {}) :
       Ends(c, status)
  /\ landed' = landed \cup {c}
  /\ UNCHANGED <<callRest, expansions, approved, userDenied, reported>>

\* It returned an error or threw (an AbortError counts as a cancellation).
ToolFails(c) ==
  /\ phase[c] = "run"
  /\ \E status \in {"error", "cancelled"} : Ends(c, status)
  /\ UNCHANGED <<callRest, expansions, historyVars>>

\* The result asks for another call to take this one's place; its tool may
\* be unknown or refuse its arguments.
ToolTailCalls(c) ==
  /\ phase[c] = "run" /\ tails[c] < MaxTails
  /\ \E status \in {"validating", "error"}, parallel \in BOOLEAN :
       /\ sm' = ReplaceActiveCallWithTailCall(sm, c, status)
       /\ par' = [par EXCEPT ![c] = parallel]
  /\ phase' = [phase EXCEPT ![c] = "done"]
  /\ tails' = [tails EXCEPT ![c] = @ + 1]
  /\ madeProgress' = TRUE
  /\ approved' = approved \ {c}
  /\ landed' = landed \ {c}
  /\ UNCHANGED <<cur, loop, initial, hostVars, expansions, userDenied, reported>>

\* The sandbox refused: ask for more permissions.
ToolNeedsExpansion(c) ==
  /\ phase[c] = "run" /\ c \in SandboxCalls
  /\ expansions[c] < MaxExpansions
  /\ IF cur \in aborted THEN Ends(c, "error")
     ELSE /\ sm' = UpdateStatus(sm, c, "awaiting_approval")
          /\ phase' = [phase EXCEPT ![c] = "details"]
  /\ expansions' = [expansions EXCEPT ![c] = @ + 1]
  /\ UNCHANGED <<callRest, historyVars>>

\* Output that a tool sends after it has returned (a command the user has
\* sent to the background): outputUpdateHandler goes to updateStatus, which
\* throws on a call in error and otherwise overwrites the status.
LateOutputArrives(c) ==
  /\ LateOutput
  /\ c \in landed \/ tails[c] > 0
  /\ phase[c] # "run"
  /\ c \in sm.active /\ sm.status[c] # "error"
  /\ sm' = UpdateStatus(sm, c, "executing")
  /\ UNCHANGED <<loopVars, hostVars, callVars, historyVars>>
-----------------------------------------------------------------------------
\* Mutant: the item is rejected and left in the queue.
AbortHandlerKeeps(r) == requestQueue

(***************************************************************************)
(* Cancellation by the host: the AbortSignal, cancelAll, or (the terminal  *)
(* UI) the one and then the other in the same callback.                    *)
(***************************************************************************)
\* The request queue after r's abort handler.
AbortHandler(r) ==
  IF r \in ToSet(requestQueue)
  THEN RemoveAt(requestQueue, CHOOSE i \in DOMAIN requestQueue : requestQueue[i] = r)
  ELSE requestQueue

CancelActive(m) ==
  LET live == {c \in m.active : ~IsTerminal(m, c)}
  IN  FinalizeCalls([m EXCEPT !.status = [c \in Calls |-> IF c \in live
                                          THEN "cancelled" ELSE @[c]]], live)

\* cancelAll, q being the request queue as it stands; it does nothing when a
\* cancellation is in progress.
CancelAllFrom(q, p) ==
  /\ UNCHANGED <<isProcessing, loopVars, callVars, approved, userDenied, landed, reported>>
  /\ IF isCancelling
     THEN requestQueue' = q /\ promise' = p /\ UNCHANGED <<isCancelling, sm>>
     ELSE /\ isCancelling' = TRUE
          /\ requestQueue' = <<>>
          /\ promise' = [r \in Requests |-> IF r \in ToSet(q) THEN "rejected" ELSE p[r]]
          /\ sm' = CancelAllQueued(CancelActive(sm))

\* Mutant: the item is taken out and never rejected.
AbortPromiseSilent(r) == promise

AbortPromise(r) == IF promise[r] = "queued" THEN [promise EXCEPT ![r] = "rejected"]
                                            ELSE promise

Abort(r) ==
  /\ "signal" \in HostCancels
  /\ promise[r] \in {"new", "queued", "running"} /\ r \notin aborted
  /\ aborted' = aborted \cup {r}
  /\ requestQueue' = AbortHandler(r)
  /\ promise' = AbortPromise(r)
  /\ UNCHANGED <<sm, isProcessing, isCancelling, loopVars, callVars, historyVars>>

CancelAll ==
  /\ "cancelAll" \in HostCancels
  /\ CancelAllFrom(requestQueue, promise)
  /\ UNCHANGED aborted

UserCancel(r) ==
  /\ "both" \in HostCancels
  /\ promise[r] = "running" /\ r \notin aborted
  /\ aborted' = aborted \cup {r}
  /\ CancelAllFrom(AbortHandler(r), AbortPromise(r))
-----------------------------------------------------------------------------
CallSteps(c) ==
  \/ HookReturns(c) \/ PolicyReturns(c) \/ DetailsReturn(c) \/ WaitAborted(c)
  \/ ModifyDone(c) \/ UserRefuses(c) \/ UserAllows(c)
  \/ ToolSucceeds(c) \/ ToolFails(c) \/ ToolTailCalls(c) \/ ToolNeedsExpansion(c)

LoopSteps == LoopTop \/ Validated \/ Executed \/ TimerFires \/ FinishBatch

HostSteps ==
  \/ CancelAll
  \/ \E r \in Requests : Schedule(r) \/ Abort(r) \/ UserCancel(r)

Next ==
  \/ LoopSteps
  \/ HostSteps
  \/ \E c \in Calls :
       \/ CallSteps(c)
       \/ \E outcome \in {"proceed", "cancel", "modify"} : Answer(c, outcome)
       \/ ValidationThrows(c)
       \/ LateOutputArrives(c)

Spec == Init /\ [][Next]_vars

\* The event loop runs every callback that is due, and hooks, policy checks
\* and tools return: nothing is said of the user, who may leave a question or
\* an editor open, or of the host.
Progress ==
  /\ WF_vars(LoopSteps)
  /\ \A c \in Calls : WF_vars(phase[c] # "modify" /\ CallSteps(c))

\* A user who is asked again and again ends with a yes or a no.
UserAnswers ==
  \A c \in Calls : SF_vars(Answer(c, "proceed") \/ Answer(c, "cancel"))

\* An editor the user has opened is closed in the end; no signal closes it.
EditorsClose == \A c \in Calls : WF_vars(ModifyDone(c))

FairSpec == Spec /\ Progress
=============================================================================
