------------------------- MODULE SchedulerProperties ------------------------
(***************************************************************************)
(* What the tool scheduler must guarantee to its caller, to the user and   *)
(* to the tools.                                                           *)
(***************************************************************************)
EXTENDS Scheduler

Settled(r) == promise[r] \in {"resolved", "rejected"}

\* c stands before d in the batch in progress.
Precedes(c, d) ==
  LET b == SortedBatch(cur)
  IN  \E i, j \in DOMAIN b : i < j /\ b[i] = c /\ b[j] = d

(***************************************************************************)
(* A resolved schedule() has exactly one result for each of its calls,     *)
(* whatever was cancelled, refused, thrown or replaced on the way: the     *)
(* model is owed one functionResponse per functionCall.                    *)
(***************************************************************************)
OneResultPerCall ==
  \A r \in Requests : promise[r] = "resolved" =>
    \A c \in ToSet(BatchOf[r]) : reported[c] = 1

(***************************************************************************)
(* While a call that is not parallelizable runs as the model asked for it, *)
(* every earlier call of the batch has its result and no later one has     *)
(* begun (_isParallelizable, the dequeuing of waves, update_topic first).  *)
(***************************************************************************)
SerialCallsRunAlone ==
  \A c \in Calls : phase[c] = "run" /\ ~par[c] /\ tails[c] = 0 =>
    \A d \in ToSet(BatchOf[cur]) :
      /\ Precedes(d, c) => sm.completed[d] = 1
      /\ Precedes(c, d) => phase[d] = "done" /\ tails[d] = 0 /\ d \notin landed

(***************************************************************************)
(* No tool runs unless the request it runs for was allowed by the policy   *)
(* or by the user: a tail call goes through both again.                    *)
(***************************************************************************)
RunsOnlyApproved == \A c \in Calls : phase[c] = "run" => c \in approved

(***************************************************************************)
(* A request is never left in requestQueue by a scheduler that will not    *)
(* look at it again: _processNextInRequestQueue only runs at a batch's end.*)
(***************************************************************************)
NoStrandedRequest == requestQueue # <<>> => isProcessing

(***************************************************************************)
(* Between batches nothing is left: no active or queued call, no coroutine *)
(* that could act on the next batch, no result that could leak into it.    *)
(***************************************************************************)
NothingOutlivesBatch ==
  ~isProcessing =>
    /\ sm.active = {} /\ sm.queue = <<>>
    /\ \A c \in Calls : phase[c] = "done" /\ sm.completed[c] = 0

(***************************************************************************)
(* handleExternalModification and handleInlineModification edit            *)
(* state.firstActiveCall: it is the call the user was asked about, unless  *)
(* that call has been cancelled meanwhile.                                 *)
(***************************************************************************)
ModifiesOwnCall ==
  \A c \in sm.active : phase[c] = "modify" => sm.active = {c}

(***************************************************************************)
(* A call that has reached success, error or cancelled keeps that status   *)
(* when its result is recorded, whatever its coroutine or its tool still   *)
(* does ("should ignore status updates for terminal calls").  While it is  *)
(* still active, its siblings not being done, only output that its tool    *)
(* sends after it has returned can change it: to executing, and not from   *)
(* error.                                                                  *)
(***************************************************************************)
LateOutputReopens(c) ==
  /\ LateOutput
  /\ c \in sm.active /\ sm.completed[c] = 0 /\ phase[c] = "done"
  /\ sm.status[c] # "error" /\ sm'.status[c] = "executing"

TerminalStable ==
  [][\A c \in Calls : IsTerminal(sm, c) /\ sm'.status[c] # sm.status[c]
                        => LateOutputReopens(c)]_vars

(***************************************************************************)
(* After the user has refused a call, no call that was still queued is     *)
(* taken up in this batch; only tail calls of its siblings may follow.     *)
(***************************************************************************)
DenialStopsQueue ==
  [][\A c \in Calls : userDenied /\ userDenied' /\ tails[c] = 0
                        => ~(phase[c] = "done" /\ phase'[c] = "hook")]_vars

(***************************************************************************)
(* A tool is never started for a call whose result is already recorded,    *)
(* in particular not after cancelAll has reported it cancelled.            *)
(***************************************************************************)
NoStartAfterReport ==
  [][\A c \in Calls : phase[c] # "run" /\ phase'[c] = "run"
                        => sm.completed[c] = 0]_vars

(***************************************************************************)
(* Once its signal has fired, a schedule() settles though the user leaves  *)
(* every question open: the signal ends each wait for an answer.  It does  *)
(* not reach an external editor, which has to be closed.                   *)
(***************************************************************************)
CancelledSettles ==
  EditorsClose => \A r \in Requests : (r \in aborted /\ promise[r] # "new") ~> Settled(r)

(***************************************************************************)
(* If users end by answering, and close their editors, every schedule()    *)
(* settles: also the requests in the queue, and under a host that calls    *)
(* cancelAll and fires no signal.                                          *)
(***************************************************************************)
EveryScheduleSettles ==
  UserAnswers /\ EditorsClose => \A r \in Requests : (promise[r] # "new") ~> Settled(r)

(***************************************************************************)
(* The scheduler implements BatchContract: its requestQueue is the waiting *)
(* line and what it reports for each call is the result.                   *)
(***************************************************************************)
Batches == INSTANCE BatchContract WITH waiting <- requestQueue, results <- reported

KeepsBatchContract == Batches!Contract

(***************************************************************************)
(* Why only approved calls run: a call becomes scheduled in the segment    *)
(* that approves it and its coroutine ends there, so a scheduled call is   *)
(* approved and nothing else is at work on it until the loop starts it.    *)
(***************************************************************************)
ApprovedWhen(m) ==
  \A c \in Calls :
    /\ phase[c] = "run" => c \in approved
    /\ m.status[c] = "scheduled" => c \in approved /\ phase[c] = "done"

ApprovedInv == ApprovedWhen(sm)

(***************************************************************************)
(* Why nothing outlives a batch, as long as no output comes late: a wave   *)
(* ends in the iteration that dequeued it.  Once every coroutine of step 1 *)
(* is done its call is scheduled or terminal, once every coroutine of      *)
(* step 2 is done it is terminal, so step 3 empties the active calls; and  *)
(* the queue holds only calls to validate or to report, none of them       *)
(* active.  The loop therefore never has to wait for the timer.            *)
(***************************************************************************)
QueueOK(m) ==
  \A i \in 1..Len(m.queue) :
    /\ m.queue[i] \notin m.active
    /\ m.status[m.queue[i]] \in {"validating", "error"}
    /\ \A j \in 1..Len(m.queue) : m.queue[i] = m.queue[j] => i = j

Between == {"idle", "top", "stop"}

WaveInv ==
  /\ QueueOK(sm)
  /\ loop \in Between \cup {"validating", "executing"}
  /\ loop \in Between => /\ sm.active = {}
                         /\ \A c \in Calls : phase[c] = "done"
  /\ loop \in {"idle", "stop"} => sm.queue = <<>>
  /\ loop = "validating" =>
       /\ \A c \in Calls : phase[c] # "run"
       /\ \A c \in sm.active : phase[c] = "done"
                                 => sm.status[c] \in Terminal \cup {"scheduled"}
       /\ sm.active = {} => sm.queue = <<>>
  /\ loop = "executing" =>
       /\ \A c \in Calls : phase[c] \notin {"hook", "policy", "policy_ask"}
       /\ \A c \in sm.active : phase[c] = "done" => IsTerminal(sm, c)
       /\ sm.active = {} /\ ~madeProgress => sm.queue = <<>>

RestInv ==
  /\ WaveInv
  /\ isProcessing <=> loop # "idle"
  /\ loop = "idle" => /\ requestQueue = <<>>
                      /\ \A c \in Calls : sm.completed[c] = 0

(***************************************************************************)
(* Why every call has one result: while a batch is in progress each of its *)
(* calls is either queued, or active, or reported once, no other call is   *)
(* any of these, and no coroutine is at work on another call.              *)
(***************************************************************************)
AccountedIn(m, B) ==
  \A c \in Calls :
    IF c \in B
    THEN \/ c \in Queued(m) /\ c \notin m.active /\ m.completed[c] = 0
         \/ c \notin Queued(m) /\ c \in m.active /\ m.completed[c] = 0
         \/ c \notin Queued(m) /\ c \notin m.active /\ m.completed[c] = 1
    ELSE c \notin Queued(m) /\ c \notin m.active /\ m.completed[c] = 0

\* The promises and the request queue tell the same story, and a batch that
\* has not begun has left no trace.
PromiseInv ==
  /\ \A r \in Requests : promise[r] = "running" <=> loop # "idle" /\ r = cur
  /\ \A r \in Requests : promise[r] = "queued" <=> r \in ToSet(requestQueue)
  /\ \A i, j \in 1..Len(requestQueue) : requestQueue[i] = requestQueue[j] => i = j
  /\ \A r \in Requests : promise[r] \in {"new", "queued"} =>
       \A c \in ToSet(BatchOf[r]) :
         sm.status[c] = "new" /\ tails[c] = 0 /\ c \notin landed

ResultInv ==
  /\ PromiseInv
  /\ loop # "idle" => AccountedIn(sm, ToSet(BatchOf[cur]))
  /\ \A c \in Calls : phase[c] # "done" => c \in ToSet(BatchOf[cur])
  /\ OneResultPerCall

(***************************************************************************)
(* Why what was decided stands, with late output or without: calls in the  *)
(* queue are at rest, a recorded call is neither queued nor active, a      *)
(* coroutine at work on an active call finds it undecided, and the calls   *)
(* of a request that has not begun have left no trace.                     *)
(***************************************************************************)
DecidedIn(m, at) ==
  /\ QueueOK(m)
  /\ \A c \in Calls : c \in Queued(m) => at[c] = "done"
  /\ \A c \in Calls : m.completed[c] # 0 => c \notin m.active /\ c \notin Queued(m)
  /\ \A c \in m.active : at[c] # "done" => ~IsTerminal(m, c)

NotBegun(r) ==
  \A c \in ToSet(BatchOf[r]) :
    sm.status[c] = "new" /\ c \notin sm.active /\ phase[c] = "done"

LineInv ==
  /\ loop # "idle" => promise[cur] = "running"
  /\ \A r \in Requests : promise[r] = "queued" <=> r \in ToSet(requestQueue)
  /\ \A i, j \in 1..Len(requestQueue) : requestQueue[i] = requestQueue[j] => i = j
  /\ \A r \in Requests : promise[r] \in {"new", "queued"} => NotBegun(r)

DecidedInv == DecidedIn(sm, phase) /\ LineInv

\* A call whose coroutine is at work is active unless the host has cancelled
\* and the signal has fired.
WorkedOnInv ==
  \A c \in Calls : phase[c] # "done" => c \in sm.active \/ cur \in aborted

(***************************************************************************)
(* Why calls run in order: what is queued and was not replaced by a tail   *)
(* call stands in the order of the batch, behind the tail calls; and a     *)
(* call that is not parallelizable is alone in its wave.                   *)
(***************************************************************************)
GoingOn(c) == c \in sm.active \/ phase[c] # "done"

Untouched(c) == phase[c] = "done" /\ tails[c] = 0 /\ c \notin landed

QueueInOrder ==
  \A i \in 1..Len(sm.queue) : tails[sm.queue[i]] = 0 =>
    /\ Untouched(sm.queue[i])
    /\ \A j \in 1..Len(sm.queue) : i < j => tails[sm.queue[j]] = 0
    /\ \A d \in Calls : Precedes(sm.queue[i], d) =>
         \E j \in 1..Len(sm.queue) : i < j /\ sm.queue[j] = d

AloneInWave ==
  \A c, d \in Calls : GoingOn(c) /\ GoingOn(d) /\ ~par[c] => c = d

ModifyingSerial == \A c \in Calls : phase[c] = "modify" => ~par[c]

SerialInOrder ==
  \A c \in Calls : GoingOn(c) /\ ~par[c] /\ tails[c] = 0 =>
    \A d \in Calls : /\ Precedes(d, c) => sm.completed[d] = 1
                     /\ Precedes(c, d) => Untouched(d)

DeniedQueue ==
  userDenied => \A i \in 1..Len(sm.queue) : tails[sm.queue[i]] > 0

OrderInv ==
  /\ \A c \in Calls : phase[c] # "done" => c \notin Queued(sm)
  /\ QueueInOrder /\ AloneInWave /\ ModifyingSerial /\ SerialInOrder /\ DeniedQueue
=============================================================================
