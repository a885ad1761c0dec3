--------------------------- MODULE SchedulerState ---------------------------
(***************************************************************************)
(* SchedulerStateManager (packages/core/src/scheduler/state-manager.ts):   *)
(* the record of every tool call of the batch in progress.  The manager is *)
(* purely synchronous, so its state is one value and each method is an     *)
(* operator from a value to the next one.                                  *)
(*                                                                         *)
(*   queue      calls not yet taken, in order            (this.queue)      *)
(*   active     calls taken and not yet reported         (activeCalls)     *)
(*   status     the status each call carries, wherever it is held          *)
(*   completed  how many times a call is in _completedBatch                *)
(*                                                                         *)
(* _completedBatch is a list that is only appended to, returned and        *)
(* cleared; its order is not read, so a count per call says what matters:  *)
(* whether a call was lost or reported twice.                              *)
(***************************************************************************)
EXTENDS Naturals, SequencesExt

CONSTANT Calls        \* tool call identities (callId), unique in a session

Terminal == {"success", "error", "cancelled"}
Status   == Terminal \cup {"new", "validating", "scheduled", "executing",
                           "awaiting_approval"}

Manager == [queue     : Seq(Calls),
            active    : SUBSET Calls,
            status    : [Calls -> Status],
            completed : [Calls -> Nat]]

EmptyManager == [queue     |-> <<>>,
                 active    |-> {},
                 status    |-> [c \in Calls |-> "new"],
                 completed |-> [c \in Calls |-> 0]]

Queued(m) == ToSet(m.queue)

IsTerminal(m, c) == m.status[c] \in Terminal

TerminalActive(m) == {c \in m.active : IsTerminal(m, c)}

(***************************************************************************)
(* Adding one entry per call of S to _completedBatch.                      *)
(***************************************************************************)
Report(m, S) == [c \in Calls |-> IF c \in S THEN m.completed[c] + 1
                                           ELSE m.completed[c]]

\* enqueue: `failed' are the calls created already in error (unknown tool,
\* arguments the tool refuses); the others start in validating.
Enqueue(m, calls, failed) ==
  [m EXCEPT !.queue  = @ \o calls,
            !.status = [c \in Calls |->
                          IF c \in failed THEN "error"
                          ELSE IF c \in ToSet(calls) THEN "validating"
                          ELSE @[c]]]

\* dequeue, k times: the first k queued calls become active.
Dequeue(m, k) ==
  [m EXCEPT !.queue  = SubSeq(@, k + 1, Len(@)),
            !.active = @ \cup {m.queue[i] : i \in 1..k}]

\* Mutant: the status is written even to a call no longer active.
UpdateStatusAnywhere(m, c, new) == [m EXCEPT !.status[c] = new]

\* updateStatus: a call that is not active is left alone; the present status
\* is not looked at.
UpdateStatus(m, c, new) ==
  IF c \in m.active THEN [m EXCEPT !.status[c] = new] ELSE m

\* finalizeCall on each call of S: only an active, terminal call is reported.
FinalizeCalls(m, S) ==
  LET done == S \cap TerminalActive(m)
  IN  [m EXCEPT !.active = @ \ done, !.completed = Report(m, done)]

\* Mutant: the tail call skips validation.
TailCallScheduled(m, c, new) ==
  IF c \in m.active
  THEN [m EXCEPT !.active = @ \ {c}, !.queue = <<c>> \o @, !.status[c] = "scheduled"]
  ELSE m

\* replaceActiveCallWithTailCall: same callId, back at the head of the queue.
ReplaceActiveCallWithTailCall(m, c, new) ==
  IF c \in m.active
  THEN [m EXCEPT !.active = @ \ {c}, !.queue = <<c>> \o @, !.status[c] = new]
  ELSE m

\* Mutant: a queued call in error is dropped instead of reported.
CancelAllQueuedLosesErrors(m) ==
  LET live == {c \in Queued(m) : m.status[c] # "error"}
  IN  [m EXCEPT !.queue     = <<>>,
                !.status    = [c \in Calls |-> IF c \in live THEN "cancelled" ELSE @[c]],
                !.completed = Report(m, live)]

\* cancelAllQueued: a queued call in error is reported as it is.
CancelAllQueued(m) ==
  [m EXCEPT !.queue     = <<>>,
            !.status    = [c \in Calls |->
                             IF c \in Queued(m) /\ @[c] # "error"
                             THEN "cancelled" ELSE @[c]],
            !.completed = Report(m, Queued(m))]

\* Mutant: the results stay.
ClearBatchForgotten(m) == m

\* clearBatch
ClearBatch(m) == [m EXCEPT !.completed = [c \in Calls |-> 0]]
=============================================================================
