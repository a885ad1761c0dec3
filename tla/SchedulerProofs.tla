-------------------------- MODULE SchedulerProofs ---------------------------
(***************************************************************************)
(* Theorems about the tool scheduler, for every set of calls and requests, *)
(* every batch, every host and every bound: its state is of its type and   *)
(* no tool runs without an approval, late output included; and nothing     *)
(* outlives a batch and no request is stranded, provided no tool reports   *)
(* output after it has returned.                                           *)
(***************************************************************************)
EXTENDS SchedulerProperties, SequenceTheorems, TLAPS

(***************************************************************************)
(* The state manager's operators keep the manager's type.                  *)
(***************************************************************************)
LEMMA ReportType ==
  ASSUME NEW m \in Manager, NEW S
  PROVE  Report(m, S) \in [Calls -> Nat]
BY DEF Report, Manager

LEMMA EnqueueType ==
  ASSUME NEW m \in Manager, NEW q \in Seq(Calls), NEW failed
  PROVE  Enqueue(m, q, failed) \in Manager
<1>1. m.queue \o q \in Seq(Calls)
  BY DEF Manager
<1>2. [c \in Calls |-> IF c \in failed THEN "error"
                       ELSE IF c \in ToSet(q) THEN "validating"
                       ELSE m.status[c]] \in [Calls -> Status]
  BY DEF Manager, Status, Terminal
<1>. QED BY <1>1, <1>2 DEF Enqueue, Manager

LEMMA DequeueType ==
  ASSUME NEW m \in Manager, NEW k \in 1..Len(m.queue)
  PROVE  Dequeue(m, k) \in Manager
<1>1. SubSeq(m.queue, k + 1, Len(m.queue)) \in Seq(Calls)
  BY SubSeqProperties DEF Manager
<1>2. {m.queue[i] : i \in 1..k} \subseteq Calls
  BY ElementOfSeq DEF Manager
<1>. QED BY <1>1, <1>2 DEF Dequeue, Manager

LEMMA UpdateStatusType ==
  ASSUME NEW m \in Manager, NEW c \in Calls, NEW new \in Status
  PROVE  UpdateStatus(m, c, new) \in Manager
BY DEF UpdateStatus, Manager

LEMMA FinalizeCallsType ==
  ASSUME NEW m \in Manager, NEW S
  PROVE  FinalizeCalls(m, S) \in Manager
BY ReportType DEF FinalizeCalls, Manager

LEMMA ReplaceActiveCallType ==
  ASSUME NEW m \in Manager, NEW c \in Calls, NEW new \in Status
  PROVE  ReplaceActiveCallWithTailCall(m, c, new) \in Manager
<1>1. <<c>> \o m.queue \in Seq(Calls)
  BY DEF Manager
<1>. QED BY <1>1 DEF ReplaceActiveCallWithTailCall, Manager

LEMMA CancelAllQueuedType ==
  ASSUME NEW m \in Manager
  PROVE  CancelAllQueued(m) \in Manager
<1>1. [c \in Calls |-> IF c \in Queued(m) /\ m.status[c] # "error"
                       THEN "cancelled" ELSE m.status[c]] \in [Calls -> Status]
  BY DEF Manager, Status, Terminal
<1>2. Report(m, Queued(m)) \in [Calls -> Nat]
  BY ReportType
<1>3. <<>> \in Seq(Calls)
  BY EmptySeq
<1>. QED BY <1>1, <1>2, <1>3 DEF CancelAllQueued, Manager

LEMMA ClearBatchType ==
  ASSUME NEW m \in Manager
  PROVE  ClearBatch(m) \in Manager
BY DEF ClearBatch, Manager

LEMMA CancelActiveType ==
  ASSUME NEW m \in Manager
  PROVE  CancelActive(m) \in Manager
<1>. DEFINE live == {c \in m.active : ~IsTerminal(m, c)}
            n == [m EXCEPT !.status = [c \in Calls |-> IF c \in live
                                       THEN "cancelled" ELSE @[c]]]
<1>1. n \in Manager
  BY DEF Manager, Status, Terminal
<1>. QED BY <1>1, FinalizeCallsType DEF CancelActive
-----------------------------------------------------------------------------
(***************************************************************************)
(* The pieces of the processing loop keep the part of the type they set.   *)
(***************************************************************************)
LoopTypeOK ==
  /\ sm \in Manager
  /\ loop \in Loop
  /\ initial \in [Calls -> Status \cup {"absent"}]
  /\ madeProgress \in BOOLEAN
  /\ phase \in [Calls -> Phase]

LEMMA RemoveAtType ==
  ASSUME NEW S, NEW s \in Seq(S), NEW i \in 1..Len(s)
  PROVE  RemoveAt(s, i) \in Seq(S)
<1>1. SubSeq(s, 1, i - 1) \in Seq(S)
  BY SubSeqProperties, ElementOfSeq
<1>2. SubSeq(s, i + 1, Len(s)) \in Seq(S)
  BY SubSeqProperties, ElementOfSeq
<1>. QED BY <1>1, <1>2 DEF RemoveAt

LEMMA SortedBatchType ==
  ASSUME NEW r \in Requests
  PROVE  SortedBatch(r) \in Seq(Calls)
<1>. DEFINE b == BatchOf[r]
            first == {i \in DOMAIN b : b[i] \in TopicCalls}
            k == CHOOSE i \in first : TRUE
<1>1. b \in Seq(Calls)
  BY SchedulerAssumption
<1>2. CASE first = {}
  BY <1>1, <1>2 DEF SortedBatch
<1>3. CASE first # {}
  <2>1. k \in 1..Len(b)
    BY <1>1, <1>3
  <2>2. b[k] \in Calls
    BY <1>1, <2>1, ElementOfSeq
  <2>3. <<b[k]>> \o RemoveAt(b, k) \in Seq(Calls)
    BY <1>1, <2>1, <2>2, RemoveAtType
  <2>. QED BY <1>3, <2>3 DEF SortedBatch
<1>. QED BY <1>2, <1>3

LEMMA LoopGoesType ==
  ASSUME NEW where \in Loop, LoopGoes(where)
  PROVE  /\ loop' \in Loop
         /\ initial' \in [Calls -> Status \cup {"absent"}]
         /\ madeProgress' \in BOOLEAN
BY DEF LoopGoes, Absent

LEMMA FinalizeWaveType ==
  ASSUME phase \in [Calls -> Phase], NEW m \in Manager, NEW progress, NEW before,
         FinalizeWave(m, progress, before)
  PROVE  LoopTypeOK'
<1>1. sm' \in Manager
  BY FinalizeCallsType DEF FinalizeWave
<1>2. \E where \in Loop : LoopGoes(where)
  BY DEF FinalizeWave, Loop
<1>3. phase' \in [Calls -> Phase]
  BY DEF FinalizeWave
<1>. QED BY <1>1, <1>2, <1>3, LoopGoesType DEF LoopTypeOK

LEMMA ExecuteWaveType ==
  ASSUME phase \in [Calls -> Phase], NEW m \in Manager, NEW r,
         NEW before \in [Calls -> Status \cup {"absent"}],
         ExecuteWave(m, r, before)
  PROVE  LoopTypeOK'
<1>. DEFINE scheduled == {c \in m.active : m.status[c] = "scheduled"}
            started == IF r \in aborted THEN {} ELSE scheduled
            ready == \A c \in m.active : c \in scheduled \/ IsTerminal(m, c)
            status == [c \in Calls |-> IF c \in started THEN "executing"
                                       ELSE IF c \in scheduled THEN "cancelled"
                                       ELSE m.status[c]]
<1>1. CASE ready /\ scheduled # {}
  <2>1. sm' = [m EXCEPT !.status = status]
    BY <1>1 DEF ExecuteWave
  <2>2. status \in [Calls -> Status]
    BY DEF Manager, Status, Terminal
  <2>3. sm' \in Manager
    BY <2>1, <2>2 DEF Manager
  <2>4. phase' \in [Calls -> Phase]
    BY <1>1 DEF ExecuteWave, Phase
  <2>5. loop' = "executing" /\ initial' = before /\ madeProgress' = FALSE
    BY <1>1 DEF ExecuteWave
  <2>. QED BY <2>3, <2>4, <2>5 DEF LoopTypeOK, Loop
<1>2. CASE ~(ready /\ scheduled # {})
  BY <1>2, FinalizeWaveType DEF ExecuteWave
<1>. QED BY <1>1, <1>2

LEMMA ValidateWaveType ==
  ASSUME phase \in [Calls -> Phase], NEW m \in Manager, NEW r,
         NEW before \in [Calls -> Status \cup {"absent"}],
         ValidateWave(m, r, before)
  PROVE  LoopTypeOK'
<1>. DEFINE validating == {c \in m.active : m.status[c] = "validating"}
<1>1. CASE validating # {}
  <2>1. phase' \in [Calls -> Phase]
    BY <1>1 DEF ValidateWave, Phase, Validation
  <2>. QED BY <1>1, <2>1 DEF ValidateWave, LoopTypeOK, Loop
<1>2. CASE validating = {}
  BY <1>2, ExecuteWaveType DEF ValidateWave
<1>. QED BY <1>1, <1>2

LEMMA ProcessQueueType ==
  ASSUME phase \in [Calls -> Phase], NEW m \in Manager, NEW r, NEW cancelling,
         ProcessQueue(m, r, cancelling)
  PROVE  LoopTypeOK'
<1>0. InitialStatuses(m) \in [Calls -> Status \cup {"absent"}]
  BY DEF InitialStatuses, Manager
<1>1. CASE sm' = m /\ LoopGoes("stop") /\ UNCHANGED phase
  BY <1>1, LoopGoesType DEF LoopTypeOK, Loop
<1>2. CASE /\ sm' = CancelAllQueued(FinalizeCalls(m, m.active))
           /\ LoopGoes("stop") /\ UNCHANGED phase
  BY <1>2, LoopGoesType, FinalizeCallsType, CancelAllQueuedType DEF LoopTypeOK, Loop
<1>3. CASE ValidateWave(m, r, InitialStatuses(m))
  BY <1>0, <1>3, ValidateWaveType
<1>4. CASE /\ m.queue # <<>>
           /\ sm' = FinalizeCalls(Dequeue(m, 1), {Head(m.queue)})
           /\ LoopGoes("top") /\ UNCHANGED phase
  <2>1. 1 \in 1..Len(m.queue)
    BY <1>4, EmptySeq DEF Manager
  <2>2. Dequeue(m, 1) \in Manager
    BY <2>1, DequeueType
  <2>. QED BY <1>4, <2>2, LoopGoesType, FinalizeCallsType DEF LoopTypeOK, Loop
<1>5. CASE \E k \in 1..Len(m.queue) :
             ValidateWave(Dequeue(m, k), r, InitialStatuses(m))
  BY <1>0, <1>5, DequeueType, ValidateWaveType
<1>. QED BY <1>1, <1>2, <1>3, <1>4, <1>5 DEF ProcessQueue
-----------------------------------------------------------------------------
LEMMA StartBatchType ==
  ASSUME phase \in [Calls -> Phase], NEW m \in Manager,
         NEW p \in [Requests -> Promises], NEW r \in Requests,
         StartBatch(m, p, r)
  PROVE  /\ LoopTypeOK'
         /\ isProcessing' \in BOOLEAN /\ isCancelling' \in BOOLEAN
         /\ cur' \in Requests /\ promise' \in [Requests -> Promises]
         /\ userDenied' \in BOOLEAN
<1>1. PICK failed \in SUBSET ToSet(BatchOf[r]) :
        ProcessQueue(Enqueue(ClearBatch(m), SortedBatch(r), failed), r, FALSE)
  BY DEF StartBatch
<1>2. Enqueue(ClearBatch(m), SortedBatch(r), failed) \in Manager
  BY ClearBatchType, SortedBatchType, EnqueueType
<1>3. LoopTypeOK'
  BY <1>1, <1>2, ProcessQueueType
<1>. QED BY <1>3 DEF StartBatch, Promises

LEMMA EnqueueRequestType ==
  ASSUME NEW q \in Seq(Requests), NEW p \in [Requests -> Promises],
         NEW r \in Requests, EnqueueRequest(q, p, r)
  PROVE  requestQueue' \in Seq(Requests) /\ promise' \in [Requests -> Promises]
<1>1. Append(q, r) \in Seq(Requests)
  BY AppendProperties
<1>. QED BY <1>1 DEF EnqueueRequest, Promises

LEMMA EndsType ==
  ASSUME TypeOK, NEW c \in Calls, NEW status \in Status, Ends(c, status)
  PROVE  sm' \in Manager /\ phase' \in [Calls -> Phase]
<1>1. sm' \in Manager
  BY UpdateStatusType DEF Ends, TypeOK
<1>. QED BY <1>1 DEF Ends, TypeOK, Phase

LEMMA ThrowsType ==
  ASSUME TypeOK, NEW c \in Calls, Throws(c)
  PROVE  sm' \in Manager /\ phase' \in [Calls -> Phase]
<1>1. PICK status \in ThrownStatus : Ends(c, status)
  BY DEF Throws
<1>2. status \in Status
  BY DEF ThrownStatus, Status, Terminal
<1>. QED BY <1>1, <1>2, EndsType

LEMMA ContinuesType ==
  ASSUME TypeOK, NEW c \in Calls, NEW where \in Phase, Continues(c, where)
  PROVE  sm' \in Manager /\ phase' \in [Calls -> Phase]
BY DEF Continues, TypeOK

LEMMA ConfirmationLoopType ==
  ASSUME TypeOK, NEW c \in Calls, ConfirmationLoop(c)
  PROVE  sm' \in Manager /\ phase' \in [Calls -> Phase]
<1>1. "details" \in Phase
  BY DEF Phase, Validation
<1>. QED BY <1>1, ThrowsType, ContinuesType DEF ConfirmationLoop

LEMMA CancelAllFromType ==
  ASSUME TypeOK, NEW q \in Seq(Requests), NEW p \in [Requests -> Promises],
         CancelAllFrom(q, p)
  PROVE  /\ sm' \in Manager /\ isCancelling' \in BOOLEAN
         /\ requestQueue' \in Seq(Requests) /\ promise' \in [Requests -> Promises]
<1>1. CASE isCancelling
  BY <1>1 DEF CancelAllFrom, TypeOK
<1>2. CASE ~isCancelling
  <2>1. CancelAllQueued(CancelActive(sm)) \in Manager
    BY CancelActiveType, CancelAllQueuedType DEF TypeOK
  <2>2. <<>> \in Seq(Requests)
    BY EmptySeq
  <2>. QED BY <1>2, <2>1, <2>2 DEF CancelAllFrom, TypeOK, Promises
<1>. QED BY <1>1, <1>2 DEF TypeOK

LEMMA AbortHandlerType ==
  ASSUME TypeOK, NEW r \in Requests
  PROVE  /\ AbortHandler(r) \in Seq(Requests)
         /\ AbortPromise(r) \in [Requests -> Promises]
<1>. DEFINE k == CHOOSE i \in DOMAIN requestQueue : requestQueue[i] = r
<1>1. CASE r \in ToSet(requestQueue)
  <2>1. k \in 1..Len(requestQueue)
    BY <1>1 DEF ToSet, TypeOK
  <2>2. RemoveAt(requestQueue, k) \in Seq(Requests)
    BY <2>1, RemoveAtType DEF TypeOK
  <2>. QED BY <1>1, <2>2 DEF AbortHandler, AbortPromise, TypeOK, Promises
<1>2. CASE r \notin ToSet(requestQueue)
  BY <1>2 DEF AbortHandler, AbortPromise, TypeOK, Promises
<1>. QED BY <1>1, <1>2
-----------------------------------------------------------------------------
(***************************************************************************)
(* Every step keeps the type; first those of a call's coroutine.           *)
(***************************************************************************)
LEMMA CallStepType ==
  ASSUME TypeOK, NEW c \in Calls,
         \/ CallSteps(c) \/ ValidationThrows(c)
         \/ \E outcome \in {"proceed", "cancel", "modify"} : Answer(c, outcome)
  PROVE  TypeOK'
<1>. USE DEF callRest, loopVars, hostVars, historyVars
<1>. DEFINE Moved == sm' \in Manager /\ phase' \in [Calls -> Phase]
<1>0. /\ {"error", "cancelled", "success", "scheduled", "executing",
           "validating", "awaiting_approval"} \subseteq Status
      /\ {"policy", "policy_ask", "details", "await", "modify", "cancel",
           "proceed", "run", "done"} \subseteq Phase
  BY DEF Status, Terminal, Phase, Validation
<1>1. CASE HookReturns(c)
  <2>1. Moved
    BY <1>0, <1>1, EndsType, ContinuesType DEF HookReturns
  <2>. QED BY <1>1, <2>1 DEF HookReturns, TypeOK
<1>2. CASE PolicyReturns(c)
  <2>1. Moved
    BY <1>0, <1>2, EndsType, ConfirmationLoopType DEF PolicyReturns
  <2>. QED BY <1>2, <2>1 DEF PolicyReturns, TypeOK
<1>3. CASE DetailsReturn(c)
  <2>1. UpdateStatus(sm, c, "awaiting_approval") \in Manager
    BY <1>0, UpdateStatusType DEF TypeOK
  <2>2. Moved
    BY <1>0, <1>3, <2>1, ContinuesType DEF DetailsReturn, TypeOK
  <2>. QED BY <1>3, <2>2 DEF DetailsReturn, TypeOK
<1>4. CASE WaitAborted(c)
  BY <1>4, ThrowsType DEF WaitAborted, TypeOK
<1>5. CASE ModifyDone(c)
  <2>1. Moved
    BY <1>0, <1>5, ConfirmationLoopType, ContinuesType DEF ModifyDone
  <2>. QED BY <1>5, <2>1 DEF ModifyDone, TypeOK
<1>6. CASE UserRefuses(c)
  <2>1. /\ UpdateStatus(sm, c, "error") \in Manager
        /\ CancelAllQueued(UpdateStatus(sm, c, "cancelled")) \in Manager
    BY <1>0, UpdateStatusType, CancelAllQueuedType DEF TypeOK
  <2>. QED BY <1>0, <1>6, <2>1 DEF UserRefuses, TypeOK
<1>7. CASE UserAllows(c)
  <2>1. UpdateStatus(sm, c, "executing") \in Manager
    BY <1>0, UpdateStatusType DEF TypeOK
  <2>2. Moved
    BY <1>0, <1>7, <2>1, EndsType DEF UserAllows, TypeOK
  <2>. QED BY <1>7, <2>2 DEF UserAllows, TypeOK
<1>8. CASE ToolSucceeds(c)
  <2>1. Moved
    BY <1>0, <1>8, EndsType DEF ToolSucceeds
  <2>. QED BY <1>8, <2>1 DEF ToolSucceeds, TypeOK
<1>9. CASE ToolFails(c)
  <2>1. Moved
    BY <1>0, <1>9, EndsType DEF ToolFails
  <2>. QED BY <1>9, <2>1 DEF ToolFails, TypeOK
<1>10. CASE ToolTailCalls(c)
  <2>1. sm' \in Manager /\ par' \in [Calls -> BOOLEAN]
    BY <1>0, <1>10, ReplaceActiveCallType DEF ToolTailCalls, TypeOK
  <2>2. phase' \in [Calls -> Phase]
    BY <1>0, <1>10 DEF ToolTailCalls, TypeOK
  <2>3. tails' \in [Calls -> 0..MaxTails]
    BY <1>10, SchedulerAssumption DEF ToolTailCalls, TypeOK
  <2>. QED BY <1>10, <2>1, <2>2, <2>3 DEF ToolTailCalls, TypeOK
<1>11. CASE ToolNeedsExpansion(c)
  <2>1. UpdateStatus(sm, c, "awaiting_approval") \in Manager
    BY <1>0, UpdateStatusType DEF TypeOK
  <2>2. Moved
    BY <1>0, <1>11, <2>1, EndsType DEF ToolNeedsExpansion, TypeOK
  <2>3. expansions' \in [Calls -> 0..MaxExpansions]
    BY <1>11, SchedulerAssumption DEF ToolNeedsExpansion, TypeOK
  <2>. QED BY <1>11, <2>2, <2>3 DEF ToolNeedsExpansion, TypeOK
<1>12. CASE ValidationThrows(c)
  BY <1>12, ThrowsType DEF ValidationThrows, TypeOK
<1>13. ASSUME NEW outcome \in {"proceed", "cancel", "modify"}, Answer(c, outcome)
       PROVE  TypeOK'
  <2>1. Moved
    BY <1>0, <1>13, ContinuesType DEF Answer
  <2>. QED BY <1>13, <2>1 DEF Answer, TypeOK
<1>. QED BY <1>1, <1>2, <1>3, <1>4, <1>5, <1>6, <1>7, <1>8, <1>9, <1>10, <1>11,
            <1>12, <1>13 DEF CallSteps

(***************************************************************************)
(* Type correctness: whatever the host, the user, the hooks and the tools  *)
(* do, the scheduler's state is of its type.                               *)
(***************************************************************************)
THEOREM TypeCorrect == Spec => []TypeOK
<1>. USE DEF loopVars, hostVars, callVars, historyVars
<1>1. Init => TypeOK
  <2>. SUFFICES ASSUME Init PROVE TypeOK
    OBVIOUS
  <2>1. sm \in Manager
    BY EmptySeq DEF Init, EmptyManager, Manager, Status, Terminal
  <2>2. requestQueue \in Seq(Requests) /\ promise \in [Requests -> Promises]
    BY EmptySeq DEF Init, Promises
  <2>3. [c \in Calls |-> c \notin SerialCalls] \in [Calls -> BOOLEAN]
    BY Zenon
  <2>4. par \in [Calls -> BOOLEAN]
    BY <2>3, Zenon DEF Init
  <2>5. tails \in [Calls -> 0..MaxTails] /\ expansions \in [Calls -> 0..MaxExpansions]
    BY SchedulerAssumption DEF Init
  <2>6. /\ phase \in [Calls -> Phase] /\ loop \in Loop
        /\ initial \in [Calls -> Status \cup {"absent"}]
        /\ reported \in [Calls -> Nat]
    BY DEF Init, Phase, Loop, Absent
  <2>7. /\ isProcessing \in BOOLEAN /\ isCancelling \in BOOLEAN
        /\ madeProgress \in BOOLEAN /\ userDenied \in BOOLEAN
        /\ cur \in Requests /\ aborted = {} /\ approved = {} /\ landed = {}
    BY DEF Init
  <2>. QED BY <2>1, <2>2, <2>4, <2>5, <2>6, <2>7 DEF TypeOK
<1>2. TypeOK /\ [Next]_vars => TypeOK'
  <2>. SUFFICES ASSUME TypeOK, [Next]_vars PROVE TypeOK'
    OBVIOUS
  <2>1. ASSUME NEW r \in Requests, Schedule(r) PROVE TypeOK'
    <3>1. CASE ~isProcessing /\ sm.active = {}
      <4>1. StartBatch(sm, promise, r) /\ UNCHANGED requestQueue
        BY <2>1, <3>1 DEF Schedule
      <4>. QED BY <2>1, <4>1, StartBatchType DEF Schedule, TypeOK, LoopTypeOK
    <3>2. CASE isProcessing \/ sm.active # {}
      <4>1. /\ EnqueueRequest(requestQueue, promise, r)
            /\ UNCHANGED <<sm, loopVars, isProcessing, isCancelling, phase, userDenied>>
        BY <2>1, <3>2 DEF Schedule
      <4>. QED BY <2>1, <4>1, EnqueueRequestType DEF Schedule, TypeOK
    <3>. QED BY <3>1, <3>2 DEF TypeOK
  <2>2. CASE LoopTop
    <3>1. LoopTypeOK'
      BY <2>2, ProcessQueueType DEF LoopTop, TypeOK
    <3>. QED BY <2>2, <3>1 DEF LoopTop, TypeOK, LoopTypeOK
  <2>3. CASE Validated
    <3>1. LoopTypeOK'
      BY <2>3, ExecuteWaveType DEF Validated, TypeOK
    <3>. QED BY <2>3, <3>1 DEF Validated, TypeOK, LoopTypeOK
  <2>4. CASE Executed
    <3>1. LoopTypeOK'
      BY <2>4, FinalizeWaveType DEF Executed, TypeOK
    <3>. QED BY <2>4, <3>1 DEF Executed, TypeOK, LoopTypeOK
  <2>5. CASE TimerFires
    BY <2>5 DEF TimerFires, TypeOK, Loop
  <2>6. CASE FinishBatch
    <3>. DEFINE p == [promise EXCEPT ![cur] = "resolved"]
    <3>1. /\ p \in [Requests -> Promises]
          /\ ClearBatch(sm) \in Manager
          /\ reported' \in [Calls -> Nat]
      BY <2>6, ClearBatchType DEF FinishBatch, TypeOK, Promises, Manager
    <3>2. CASE requestQueue # <<>> /\ sm.active = {}
      <4>1. /\ Head(requestQueue) \in Requests /\ Tail(requestQueue) \in Seq(Requests)
        BY <3>2, HeadTailProperties DEF TypeOK
      <4>2. /\ StartBatch(ClearBatch(sm), p, Head(requestQueue))
            /\ requestQueue' = Tail(requestQueue)
        BY <2>6, <3>2 DEF FinishBatch
      <4>. HIDE DEF p
      <4>3. /\ LoopTypeOK'
            /\ isProcessing' \in BOOLEAN /\ isCancelling' \in BOOLEAN
            /\ cur' \in Requests /\ promise' \in [Requests -> Promises]
            /\ userDenied' \in BOOLEAN
        BY <3>1, <4>1, <4>2, StartBatchType DEF TypeOK
      <4>. QED BY <2>6, <3>1, <4>1, <4>2, <4>3 DEF FinishBatch, TypeOK, LoopTypeOK
    <3>3. CASE requestQueue = <<>> \/ sm.active # {}
      <4>1. /\ requestQueue' \in Seq(Requests)
            /\ promise' \in [Requests -> Promises]
        <5>1. CASE requestQueue = <<>>
          BY <2>6, <3>1, <5>1 DEF FinishBatch, TypeOK
        <5>2. CASE requestQueue # <<>> /\ sm.active # {}
          <6>1. EnqueueRequest(Tail(requestQueue), p, Head(requestQueue))
            BY <2>6, <5>2 DEF FinishBatch
          <6>2. Head(requestQueue) \in Requests /\ Tail(requestQueue) \in Seq(Requests)
            BY <5>2, HeadTailProperties DEF TypeOK
          <6>. HIDE DEF p
          <6>. QED BY <3>1, <6>1, <6>2, EnqueueRequestType
        <5>. QED BY <3>3, <5>1, <5>2
      <4>2. /\ isProcessing' = FALSE /\ sm' = ClearBatch(sm) /\ LoopGoes("idle")
            /\ UNCHANGED <<cur, isCancelling, phase, userDenied>>
        BY <2>6, <3>3 DEF FinishBatch
      <4>3. "idle" \in Loop
        BY DEF Loop
      <4>. QED BY <2>6, <3>1, <4>1, <4>2, <4>3, LoopGoesType DEF FinishBatch, TypeOK
    <3>. QED BY <3>2, <3>3
  <2>7. CASE CancelAll
    BY <2>7, CancelAllFromType DEF CancelAll, CancelAllFrom, TypeOK
  <2>8. ASSUME NEW r \in Requests, Abort(r) PROVE TypeOK'
    BY <2>8, AbortHandlerType DEF Abort, TypeOK
  <2>9. ASSUME NEW r \in Requests, UserCancel(r) PROVE TypeOK'
    <3>1. CancelAllFrom(AbortHandler(r), AbortPromise(r)) /\ aborted' = aborted \cup {r}
      BY <2>9 DEF UserCancel
    <3>. QED BY <3>1, AbortHandlerType, CancelAllFromType DEF CancelAllFrom, TypeOK
  <2>10. ASSUME NEW c \in Calls, LateOutputArrives(c) PROVE TypeOK'
    <3>1. "executing" \in Status
      BY DEF Status
    <3>. QED BY <2>10, <3>1, UpdateStatusType DEF LateOutputArrives, TypeOK
  <2>11. CASE UNCHANGED vars
    BY <2>11 DEF vars, TypeOK
  <2>. QED BY <2>1, <2>2, <2>3, <2>4, <2>5, <2>6, <2>7, <2>8, <2>9, <2>10, <2>11,
              CallStepType DEF Next, LoopSteps, HostSteps
<1>. QED BY <1>1, <1>2, PTL DEF Spec
-----------------------------------------------------------------------------
(***************************************************************************)
(* The state manager schedules no call by itself.                          *)
(***************************************************************************)
SchedulesNone(m, n) ==
  \A c \in Calls : n.status[c] = "scheduled" => m.status[c] = "scheduled"

LEMMA ManagerSchedulesNone ==
  ASSUME NEW m \in Manager
  PROVE  /\ \A S : SchedulesNone(m, FinalizeCalls(m, S))
         /\ SchedulesNone(m, CancelAllQueued(m))
         /\ SchedulesNone(m, CancelActive(m))
         /\ SchedulesNone(m, ClearBatch(m))
         /\ \A k : SchedulesNone(m, Dequeue(m, k))
         /\ \A q, failed : SchedulesNone(m, Enqueue(m, q, failed))
<1>1. \A S : SchedulesNone(m, FinalizeCalls(m, S))
  BY DEF SchedulesNone, FinalizeCalls, Manager
<1>2. SchedulesNone(m, CancelAllQueued(m))
  BY DEF SchedulesNone, CancelAllQueued, Manager
<1>3. SchedulesNone(m, CancelActive(m))
  <2>. DEFINE live == {c \in m.active : ~IsTerminal(m, c)}
              n == [m EXCEPT !.status = [c \in Calls |-> IF c \in live
                                         THEN "cancelled" ELSE @[c]]]
  <2>1. FinalizeCalls(n, live).status = n.status
    BY DEF FinalizeCalls, Manager
  <2>2. \A c \in Calls : n.status[c] = "scheduled" => m.status[c] = "scheduled"
    BY DEF Manager
  <2>. QED BY <2>1, <2>2 DEF SchedulesNone, CancelActive
<1>4. SchedulesNone(m, ClearBatch(m))
  BY DEF SchedulesNone, ClearBatch, Manager
<1>5. \A k : SchedulesNone(m, Dequeue(m, k))
  BY DEF SchedulesNone, Dequeue, Manager
<1>6. \A q, failed : SchedulesNone(m, Enqueue(m, q, failed))
  BY DEF SchedulesNone, Enqueue, Manager
<1>. QED BY <1>1, <1>2, <1>3, <1>4, <1>5, <1>6

(***************************************************************************)
(* The pieces of the loop start nothing but scheduled calls.               *)
(***************************************************************************)
LEMMA FinalizeWaveApproved ==
  ASSUME NEW m \in Manager, ApprovedWhen(m), approved' = approved,
         NEW progress, NEW before, FinalizeWave(m, progress, before)
  PROVE  ApprovedInv'
<1>1. SchedulesNone(m, sm') /\ phase' = phase
  BY ManagerSchedulesNone DEF FinalizeWave
<1>. QED BY <1>1 DEF ApprovedInv, ApprovedWhen, SchedulesNone

LEMMA ExecuteWaveApproved ==
  ASSUME NEW m \in Manager, ApprovedWhen(m), approved' = approved,
         NEW r, NEW before, phase \in [Calls -> Phase], ExecuteWave(m, r, before)
  PROVE  ApprovedInv'
<1>. DEFINE scheduled == {c \in m.active : m.status[c] = "scheduled"}
            started == IF r \in aborted THEN {} ELSE scheduled
            ready == \A c \in m.active : c \in scheduled \/ IsTerminal(m, c)
            status == [c \in Calls |-> IF c \in started THEN "executing"
                                       ELSE IF c \in scheduled THEN "cancelled"
                                       ELSE m.status[c]]
<1>1. CASE ready /\ scheduled # {}
  <2>1. /\ sm' = [m EXCEPT !.status = status]
        /\ phase' = [c \in Calls |-> IF c \in started THEN "run" ELSE phase[c]]
    BY <1>1 DEF ExecuteWave
  <2>2. sm'.status = status
    BY <2>1 DEF Manager
  <2>3. started \subseteq scheduled
    OBVIOUS
  <2>4. \A c \in Calls : status[c] = "scheduled" =>
          m.status[c] = "scheduled" /\ c \notin started
    BY <2>3
  <2>. HIDE DEF started, status
  <2>5. \A c \in Calls : phase'[c] = "run" => c \in approved
    BY <2>1, <2>3 DEF ApprovedWhen, Manager
  <2>6. \A c \in Calls : sm'.status[c] = "scheduled" =>
          c \in approved /\ phase'[c] = "done"
    BY <2>1, <2>2, <2>4 DEF ApprovedWhen
  <2>. QED BY <2>5, <2>6 DEF ApprovedInv, ApprovedWhen
<1>2. CASE ~(ready /\ scheduled # {})
  BY <1>2, FinalizeWaveApproved DEF ExecuteWave
<1>. QED BY <1>1, <1>2

LEMMA ValidateWaveApproved ==
  ASSUME NEW m \in Manager, ApprovedWhen(m), approved' = approved,
         NEW r, NEW before, phase \in [Calls -> Phase], ValidateWave(m, r, before)
  PROVE  ApprovedInv'
<1>. DEFINE validating == {c \in m.active : m.status[c] = "validating"}
<1>1. CASE validating # {}
  BY <1>1 DEF ValidateWave, ApprovedInv, ApprovedWhen
<1>2. CASE validating = {}
  BY <1>2, ExecuteWaveApproved DEF ValidateWave
<1>. QED BY <1>1, <1>2

LEMMA ProcessQueueApproved ==
  ASSUME NEW m \in Manager, ApprovedWhen(m), approved' = approved,
         NEW r, NEW cancelling, phase \in [Calls -> Phase],
         ProcessQueue(m, r, cancelling)
  PROVE  ApprovedInv'
<1>1. CASE sm' = m /\ UNCHANGED phase
  BY <1>1 DEF ApprovedInv, ApprovedWhen
<1>2. CASE /\ sm' = CancelAllQueued(FinalizeCalls(m, m.active))
           /\ UNCHANGED phase
  <2>1. SchedulesNone(m, FinalizeCalls(m, m.active))
    BY ManagerSchedulesNone
  <2>2. SchedulesNone(FinalizeCalls(m, m.active), sm')
    BY <1>2, FinalizeCallsType, ManagerSchedulesNone
  <2>. QED BY <1>2, <2>1, <2>2 DEF ApprovedInv, ApprovedWhen, SchedulesNone
<1>3. CASE ValidateWave(m, r, InitialStatuses(m))
  BY <1>3, ValidateWaveApproved
<1>4. CASE /\ m.queue # <<>>
           /\ sm' = FinalizeCalls(Dequeue(m, 1), {Head(m.queue)})
           /\ UNCHANGED phase
  <2>1. SchedulesNone(m, Dequeue(m, 1))
    BY ManagerSchedulesNone
  <2>2. Dequeue(m, 1) \in Manager
    <3>1. 1 \in 1..Len(m.queue)
      BY <1>4, EmptySeq DEF Manager
    <3>. QED BY <3>1, DequeueType
  <2>3. SchedulesNone(Dequeue(m, 1), sm')
    BY <1>4, <2>2, ManagerSchedulesNone
  <2>. QED BY <1>4, <2>1, <2>3 DEF ApprovedInv, ApprovedWhen, SchedulesNone
<1>5. ASSUME NEW k \in 1..Len(m.queue),
             ValidateWave(Dequeue(m, k), r, InitialStatuses(m))
      PROVE  ApprovedInv'
  <2>1. Dequeue(m, k) \in Manager /\ SchedulesNone(m, Dequeue(m, k))
    BY DequeueType, ManagerSchedulesNone
  <2>2. ApprovedWhen(Dequeue(m, k))
    BY <2>1 DEF ApprovedWhen, SchedulesNone
  <2>. QED BY <1>5, <2>1, <2>2, ValidateWaveApproved
<1>. QED BY <1>1, <1>2, <1>3, <1>4, <1>5 DEF ProcessQueue

LEMMA StartBatchApproved ==
  ASSUME NEW m \in Manager, ApprovedWhen(m), approved' = approved,
         NEW p, NEW r \in Requests, phase \in [Calls -> Phase], StartBatch(m, p, r)
  PROVE  ApprovedInv'
<1>1. PICK failed \in SUBSET ToSet(BatchOf[r]) :
        ProcessQueue(Enqueue(ClearBatch(m), SortedBatch(r), failed), r, FALSE)
  BY DEF StartBatch
<1>. DEFINE n == Enqueue(ClearBatch(m), SortedBatch(r), failed)
<1>2. n \in Manager /\ ClearBatch(m) \in Manager
  BY ClearBatchType, SortedBatchType, EnqueueType
<1>3. SchedulesNone(m, ClearBatch(m)) /\ SchedulesNone(ClearBatch(m), n)
  BY <1>2, ManagerSchedulesNone
<1>. HIDE DEF n
<1>4. ApprovedWhen(n)
  BY <1>3 DEF ApprovedWhen, SchedulesNone
<1>. QED BY <1>1, <1>2, <1>4, ProcessQueueApproved DEF n
-----------------------------------------------------------------------------
(***************************************************************************)
(* A coroutine that goes on, or ends in a status other than scheduled,     *)
(* needs no approval; one that ends in scheduled needs its own.            *)
(***************************************************************************)
LEMMA ContinuesApproved ==
  ASSUME TypeOK, ApprovedInv, approved' = approved, NEW c \in Calls,
         phase[c] # "done", NEW where \in Validation, Continues(c, where)
  PROVE  ApprovedInv'
<1>1. where # "run"
  BY DEF Validation
<1>. QED BY <1>1 DEF Continues, ApprovedInv, ApprovedWhen, TypeOK

LEMMA EndsApproved ==
  ASSUME TypeOK, ApprovedInv, approved \subseteq approved', NEW c \in Calls,
         phase[c] # "done", NEW status, Ends(c, status),
         status = "scheduled" => c \in approved'
  PROVE  ApprovedInv'
<1>1. \A d \in Calls \ {c} : /\ sm'.status[d] = sm.status[d]
                             /\ phase'[d] = phase[d]
  BY DEF Ends, UpdateStatus, TypeOK, Manager
<1>2. phase'[c] = "done" /\ (sm'.status[c] = status \/ sm'.status[c] = sm.status[c])
  BY DEF Ends, UpdateStatus, TypeOK, Manager
<1>. QED BY <1>1, <1>2 DEF ApprovedInv, ApprovedWhen

LEMMA ThrowsApproved ==
  ASSUME TypeOK, ApprovedInv, approved' = approved, NEW c \in Calls,
         phase[c] # "done", Throws(c)
  PROVE  ApprovedInv'
<1>1. PICK status \in ThrownStatus : Ends(c, status)
  BY DEF Throws
<1>2. status # "scheduled"
  BY DEF ThrownStatus
<1>. QED BY <1>1, <1>2, EndsApproved

LEMMA ConfirmationLoopApproved ==
  ASSUME TypeOK, ApprovedInv, approved' = approved, NEW c \in Calls,
         phase[c] # "done", ConfirmationLoop(c)
  PROVE  ApprovedInv'
<1>1. "details" \in Validation
  BY DEF Validation
<1>. QED BY <1>1, ThrowsApproved, ContinuesApproved DEF ConfirmationLoop

\* The status changes and the coroutine does not end.
LEMMA MovesApproved ==
  ASSUME TypeOK, ApprovedInv, approved \subseteq approved', NEW c \in Calls,
         phase[c] # "done", NEW status, status # "scheduled", NEW where,
         sm' = UpdateStatus(sm, c, status), phase' = [phase EXCEPT ![c] = where],
         where = "run" => c \in approved'
  PROVE  ApprovedInv'
<1>1. \A d \in Calls \ {c} : /\ sm'.status[d] = sm.status[d]
                             /\ phase'[d] = phase[d]
  BY DEF UpdateStatus, TypeOK, Manager
<1>2. sm.status[c] # "scheduled"
  BY DEF ApprovedInv, ApprovedWhen
<1>3. phase'[c] = where /\ sm'.status[c] # "scheduled"
  BY <1>2 DEF UpdateStatus, TypeOK, Manager
<1>. QED BY <1>1, <1>3 DEF ApprovedInv, ApprovedWhen

(***************************************************************************)
(* Every step of a coroutine.                                              *)
(***************************************************************************)
LEMMA CallStepApproved ==
  ASSUME TypeOK, ApprovedInv, NEW c \in Calls,
         \/ CallSteps(c) \/ ValidationThrows(c)
         \/ \E outcome \in {"proceed", "cancel", "modify"} : Answer(c, outcome)
  PROVE  ApprovedInv'
<1>. USE DEF callRest, historyVars
<1>0. /\ {"policy", "policy_ask", "details", "await", "modify", "cancel",
           "proceed"} \subseteq Validation
      /\ "done" \notin Validation
  BY DEF Validation
<1>1. CASE HookReturns(c)
  BY <1>0, <1>1, EndsApproved, ContinuesApproved DEF HookReturns
<1>2. CASE PolicyReturns(c)
  <2>1. phase[c] # "done"
    BY <1>2 DEF PolicyReturns
  <2>2. CASE Ends(c, "error") /\ UNCHANGED approved
    BY <2>1, <2>2, EndsApproved
  <2>3. CASE Ends(c, "scheduled") /\ approved' = approved \cup {c}
    BY <2>1, <2>3, EndsApproved
  <2>4. CASE ConfirmationLoop(c) /\ UNCHANGED approved
    BY <2>1, <2>4, ConfirmationLoopApproved
  <2>. QED BY <1>2, <2>2, <2>3, <2>4 DEF PolicyReturns
<1>3. CASE DetailsReturn(c)
  BY <1>0, <1>3, ContinuesApproved, MovesApproved DEF DetailsReturn
<1>4. CASE WaitAborted(c)
  BY <1>4, ThrowsApproved DEF WaitAborted
<1>5. CASE ModifyDone(c)
  BY <1>0, <1>5, ConfirmationLoopApproved, ContinuesApproved DEF ModifyDone
<1>6. CASE UserRefuses(c)
  <2>. DEFINE n == UpdateStatus(sm, c, "cancelled")
  <2>0. UNCHANGED approved /\ phase[c] = "cancel"
        /\ phase' = [phase EXCEPT ![c] = "done"]
    BY <1>6 DEF UserRefuses
  <2>1. CASE sm' = CancelAllQueued(n)
    <3>1. n \in Manager
      BY UpdateStatusType DEF TypeOK, Status, Terminal
    <3>2. SchedulesNone(n, sm')
      BY <2>1, <3>1, ManagerSchedulesNone
    <3>3. \A d \in Calls : n.status[d] = "scheduled" => sm.status[d] = "scheduled"
      BY DEF UpdateStatus, TypeOK, Manager
    <3>. QED BY <2>0, <3>2, <3>3 DEF SchedulesNone, ApprovedInv, ApprovedWhen, TypeOK
  <2>2. CASE sm' = UpdateStatus(sm, c, "error")
    BY <2>0, <2>2, MovesApproved
  <2>. QED BY <1>6, <2>1, <2>2 DEF UserRefuses
<1>7. CASE UserAllows(c)
  <2>0. approved' = approved \cup {c} /\ phase[c] # "done"
    BY <1>7 DEF UserAllows
  <2>1. CASE Ends(c, "scheduled") \/ Ends(c, "cancelled")
    BY <2>0, <2>1, EndsApproved
  <2>2. CASE /\ sm' = UpdateStatus(sm, c, "executing")
             /\ phase' = [phase EXCEPT ![c] = "run"]
    BY <2>0, <2>2, MovesApproved
  <2>. QED BY <1>7, <2>1, <2>2 DEF UserAllows
<1>8. CASE ToolSucceeds(c)
  <2>1. PICK status \in {"success", "cancelled"} : Ends(c, status)
    BY <1>8 DEF ToolSucceeds
  <2>. QED BY <1>8, <2>1, EndsApproved DEF ToolSucceeds
<1>9. CASE ToolFails(c)
  <2>1. PICK status \in {"error", "cancelled"} : Ends(c, status)
    BY <1>9 DEF ToolFails
  <2>. QED BY <1>9, <2>1, EndsApproved DEF ToolFails
<1>10. CASE ToolTailCalls(c)
  <2>1. PICK status \in {"validating", "error"} :
          sm' = ReplaceActiveCallWithTailCall(sm, c, status)
    BY <1>10 DEF ToolTailCalls
  <2>2. \A d \in Calls : sm'.status[d] = "scheduled" => sm.status[d] = "scheduled"
    BY <2>1 DEF ReplaceActiveCallWithTailCall, TypeOK, Manager
  <2>3. /\ phase[c] = "run" /\ phase' = [phase EXCEPT ![c] = "done"]
        /\ approved' = approved \ {c}
    BY <1>10 DEF ToolTailCalls
  <2>. QED BY <2>2, <2>3 DEF ApprovedInv, ApprovedWhen, TypeOK
<1>11. CASE ToolNeedsExpansion(c)
  BY <1>11, EndsApproved, MovesApproved DEF ToolNeedsExpansion
<1>12. CASE ValidationThrows(c)
  BY <1>0, <1>12, ThrowsApproved DEF ValidationThrows
<1>13. ASSUME NEW outcome \in {"proceed", "cancel", "modify"}, Answer(c, outcome)
       PROVE  ApprovedInv'
  BY <1>0, <1>13, ContinuesApproved DEF Answer
<1>. QED BY <1>1, <1>2, <1>3, <1>4, <1>5, <1>6, <1>7, <1>8, <1>9, <1>10, <1>11,
            <1>12, <1>13 DEF CallSteps

(***************************************************************************)
(* Every tool that runs was allowed to run, by the policy, by the user or  *)
(* by a tool with nothing to confirm: for every batch and every schedule   *)
(* of hooks, answers, cancellations, tail calls and late output.           *)
(***************************************************************************)
THEOREM OnlyApprovedCallsRun == Spec => []RunsOnlyApproved
<1>. USE DEF loopVars, hostVars, callVars, historyVars
<1>1. Init => ApprovedInv
  BY DEF Init, EmptyManager, ApprovedInv, ApprovedWhen
<1>2. TypeOK /\ ApprovedInv /\ [Next]_vars => ApprovedInv'
  <2>. SUFFICES ASSUME TypeOK, ApprovedInv, [Next]_vars PROVE ApprovedInv'
    OBVIOUS
  <2>0. sm \in Manager /\ phase \in [Calls -> Phase] /\ ApprovedWhen(sm)
    BY DEF TypeOK, ApprovedInv
  <2>1. ASSUME NEW r \in Requests, Schedule(r) PROVE ApprovedInv'
    <3>1. CASE StartBatch(sm, promise, r)
      BY <2>0, <2>1, <3>1, StartBatchApproved DEF Schedule
    <3>2. CASE UNCHANGED <<sm, phase>>
      BY <2>1, <3>2 DEF Schedule, ApprovedInv, ApprovedWhen
    <3>. QED BY <2>1, <3>1, <3>2 DEF Schedule
  <2>2. CASE LoopTop
    BY <2>0, <2>2, ProcessQueueApproved DEF LoopTop
  <2>3. CASE Validated
    BY <2>0, <2>3, ExecuteWaveApproved DEF Validated
  <2>4. CASE Executed
    BY <2>0, <2>4, FinalizeWaveApproved DEF Executed
  <2>5. CASE TimerFires
    BY <2>5 DEF TimerFires, ApprovedInv, ApprovedWhen
  <2>6. CASE FinishBatch
    <3>0. ClearBatch(sm) \in Manager /\ ApprovedWhen(ClearBatch(sm))
          /\ approved' = approved
      BY <2>0, <2>6, ClearBatchType, ManagerSchedulesNone
         DEF FinishBatch, ApprovedWhen, SchedulesNone
    <3>. DEFINE p == [promise EXCEPT ![cur] = "resolved"]
    <3>1. CASE requestQueue # <<>> /\ sm.active = {}
      <4>1. StartBatch(ClearBatch(sm), p, Head(requestQueue))
        BY <2>6, <3>1 DEF FinishBatch
      <4>2. Head(requestQueue) \in Requests
        BY <3>1, HeadTailProperties DEF TypeOK
      <4>. HIDE DEF p
      <4>. QED BY <2>0, <3>0, <4>1, <4>2, StartBatchApproved
    <3>2. CASE requestQueue = <<>> \/ sm.active # {}
      <4>1. sm' = ClearBatch(sm) /\ UNCHANGED phase
        BY <2>6, <3>2 DEF FinishBatch
      <4>. QED BY <3>0, <4>1 DEF ApprovedInv, ApprovedWhen
    <3>. QED BY <3>1, <3>2
  <2>7. ASSUME NEW q, NEW p, CancelAllFrom(q, p) PROVE ApprovedInv'
    <3>1. CASE sm' = CancelAllQueued(CancelActive(sm))
      <4>1. SchedulesNone(sm, CancelActive(sm))
        BY <2>0, ManagerSchedulesNone
      <4>2. SchedulesNone(CancelActive(sm), sm')
        BY <2>0, <3>1, CancelActiveType, ManagerSchedulesNone
      <4>. QED BY <2>7, <4>1, <4>2
               DEF CancelAllFrom, ApprovedInv, ApprovedWhen, SchedulesNone
    <3>2. CASE UNCHANGED sm
      BY <2>7, <3>2 DEF CancelAllFrom, ApprovedInv, ApprovedWhen
    <3>. QED BY <2>7, <3>1, <3>2 DEF CancelAllFrom
  <2>8. ASSUME NEW r \in Requests, Abort(r) PROVE ApprovedInv'
    BY <2>8 DEF Abort, ApprovedInv, ApprovedWhen
  <2>9. ASSUME NEW c \in Calls, LateOutputArrives(c) PROVE ApprovedInv'
    <3>1. \A d \in Calls : sm'.status[d] = "scheduled" => sm.status[d] = "scheduled"
      BY <2>0, <2>9 DEF LateOutputArrives, UpdateStatus, Manager
    <3>. QED BY <2>9, <3>1 DEF LateOutputArrives, ApprovedInv, ApprovedWhen
  <2>10. CASE UNCHANGED vars
    BY <2>10 DEF vars, ApprovedInv, ApprovedWhen
  <2>. QED BY <2>1, <2>2, <2>3, <2>4, <2>5, <2>6, <2>7, <2>8, <2>9, <2>10,
              CallStepApproved DEF Next, LoopSteps, HostSteps, CancelAll, UserCancel
<1>3. ApprovedInv => RunsOnlyApproved
  BY DEF ApprovedInv, ApprovedWhen, RunsOnlyApproved
<1>. QED BY <1>1, <1>2, <1>3, TypeCorrect, PTL DEF Spec

(***************************************************************************)
(* Removing an element shifts the ones after it.                           *)
(***************************************************************************)
LEMMA RemoveAtElements ==
  ASSUME NEW S, NEW s \in Seq(S), NEW k \in 1..Len(s)
  PROVE  /\ Len(RemoveAt(s, k)) = Len(s) - 1
         /\ \A x \in 1..(Len(s) - 1) :
              RemoveAt(s, k)[x] = IF x < k THEN s[x] ELSE s[x + 1]
<1>. DEFINE left  == SubSeq(s, 1, k - 1)
            right == SubSeq(s, k + 1, Len(s))
<1>0. k \in Nat /\ Len(s) \in Nat /\ k >= 1 /\ k <= Len(s)
  OBVIOUS
<1>1. /\ left \in Seq(S) /\ Len(left) = k - 1
      /\ \A x \in 1..(k - 1) : left[x] = s[x]
  BY <1>0, SubSeqProperties, ElementOfSeq
<1>2. /\ right \in Seq(S) /\ Len(right) = Len(s) - k
      /\ \A y \in 1..(Len(s) - k) : right[y] = s[k + y]
  <2>1. right \in Seq(S) /\ Len(right) = Len(s) - k
    BY <1>0, SubSeqProperties, ElementOfSeq
  <2>2. ASSUME NEW y \in 1..(Len(s) - k) PROVE right[y] = s[k + y]
    BY <1>0, SubSeqProperties
  <2>. QED BY <2>1, <2>2
<1>. HIDE DEF left, right
<1>3. RemoveAt(s, k) = left \o right
  BY DEF RemoveAt, left, right
<1>4. Len(left \o right) = Len(s) - 1
  <2>1. Len(left \o right) = Len(left) + Len(right)
    BY <1>1, <1>2, ConcatProperties
  <2>2. Len(left) = k - 1 /\ Len(right) = Len(s) - k
    BY <1>1, <1>2
  <2>. QED BY <1>0, <2>1, <2>2
<1>5. ASSUME NEW x \in 1..(Len(s) - 1), x < k PROVE (left \o right)[x] = s[x]
  BY <1>0, <1>1, <1>2, <1>5, ConcatProperties
<1>6. ASSUME NEW x \in 1..(Len(s) - 1), ~(x < k) PROVE (left \o right)[x] = s[x + 1]
  <2>1. x - (k - 1) \in 1..(Len(s) - k)
    BY <1>0, <1>6
  <2>2. right[x - (k - 1)] = s[k + (x - (k - 1))]
    BY <1>2, <2>1
  <2>3. k + (x - (k - 1)) = x + 1
    BY <1>0
  <2>4. x \in 1..(Len(left) + Len(right)) /\ ~(x <= Len(left)) /\ x - Len(left) = x - (k - 1)
    BY <1>0, <1>1, <1>2, <1>6
  <2>5. (left \o right)[x] = right[x - Len(left)]
    BY <1>1, <1>2, <2>4, ConcatProperties
  <2>. QED BY <2>2, <2>3, <2>4, <2>5
<1>. QED BY <1>3, <1>4, <1>5, <1>6

LEMMA ToSetIs ==
  ASSUME NEW S, NEW s \in Seq(S)
  PROVE  \A c : c \in ToSet(s) <=> \E x \in 1..Len(s) : s[x] = c
BY DEF ToSet

(***************************************************************************)
(* _sortToolCalls moves update_topic: it loses no call and repeats none.   *)
(***************************************************************************)
LEMMA SortedBatchPermutes ==
  ASSUME NEW r \in Requests
  PROVE  \E at \in [1..Len(BatchOf[r]) -> 1..Len(BatchOf[r])] :
           /\ Len(SortedBatch(r)) = Len(BatchOf[r])
           /\ \A x \in 1..Len(BatchOf[r]) : SortedBatch(r)[x] = BatchOf[r][at[x]]
           /\ \A x, y \in 1..Len(BatchOf[r]) : at[x] = at[y] => x = y
           /\ \A y \in 1..Len(BatchOf[r]) : \E x \in 1..Len(BatchOf[r]) : at[x] = y
<1>. DEFINE b == BatchOf[r]
            first == {x \in DOMAIN b : b[x] \in TopicCalls}
            k == CHOOSE x \in first : TRUE
<1>1. b \in Seq(Calls) /\ Len(b) \in Nat
  BY SchedulerAssumption
<1>2. CASE first = {}
  <2>. DEFINE at == [x \in 1..Len(b) |-> x]
  <2>1. SortedBatch(r) = b
    BY <1>2 DEF SortedBatch
  <2>2. /\ at \in [1..Len(b) -> 1..Len(b)]
        /\ \A x \in 1..Len(b) : at[x] = x
    OBVIOUS
  <2>. HIDE DEF at
  <2>. QED BY <2>1, <2>2
<1>3. CASE first # {}
  <2>1. k \in 1..Len(b)
    BY <1>1, <1>3
  <2>2. SortedBatch(r) = <<b[k]>> \o RemoveAt(b, k)
    BY <1>3 DEF SortedBatch
  <2>. DEFINE rest == RemoveAt(b, k)
              at == [x \in 1..Len(b) |-> IF x = 1 THEN k ELSE IF x - 1 < k THEN x - 1 ELSE x]
  <2>. HIDE DEF k, first
  <2>3. /\ rest \in Seq(Calls) /\ Len(rest) = Len(b) - 1
        /\ \A x \in 1..(Len(b) - 1) : rest[x] = IF x < k THEN b[x] ELSE b[x + 1]
    BY <1>1, <2>1, RemoveAtType, RemoveAtElements
  <2>. HIDE DEF rest
  <2>4. <<b[k]>> \in Seq(Calls) /\ Len(<<b[k]>>) = 1 /\ <<b[k]>>[1] = b[k]
    BY <1>1, <2>1, ElementOfSeq
  <2>5. Len(SortedBatch(r)) = Len(b)
    BY <1>1, <2>2, <2>3, <2>4, ConcatProperties DEF rest
  <2>6. /\ at \in [1..Len(b) -> 1..Len(b)]
        /\ \A x \in 1..Len(b) :
             at[x] = IF x = 1 THEN k ELSE IF x - 1 < k THEN x - 1 ELSE x
    BY <1>1, <2>1
  <2>. HIDE DEF at
  <2>7. ASSUME NEW x \in 1..Len(b)
        PROVE  SortedBatch(r)[x] = b[at[x]]
    <3>1. SortedBatch(r)[x] = IF x <= 1 THEN b[k] ELSE rest[x - 1]
      BY <1>1, <2>2, <2>3, <2>4, ConcatProperties DEF rest
    <3>2. CASE x = 1
      BY <2>1, <2>6, <3>1, <3>2
    <3>3. CASE x # 1
      <4>1. x - 1 \in 1..(Len(b) - 1) /\ (x - 1) + 1 = x
        BY <1>1, <3>3
      <4>2. rest[x - 1] = IF x - 1 < k THEN b[x - 1] ELSE b[x]
        BY <2>3, <4>1
      <4>. QED BY <2>6, <3>1, <3>3, <4>1, <4>2
    <3>. QED BY <3>2, <3>3
  <2>8. \A x, y \in 1..Len(b) : at[x] = at[y] => x = y
    BY <1>1, <2>1, <2>6
  <2>9. ASSUME NEW y \in 1..Len(b)
        PROVE  \E x \in 1..Len(b) : at[x] = y
    <3>1. CASE y = k
      <4>1. 1 \in 1..Len(b) /\ at[1] = y
        BY <1>1, <2>6, <3>1
      <4>. QED BY <4>1
    <3>2. CASE y < k
      <4>1. y + 1 \in 1..Len(b) /\ at[y + 1] = y
        BY <1>1, <2>1, <2>6, <3>2
      <4>. QED BY <4>1
    <3>3. CASE y > k
      <4>1. at[y] = y
        BY <1>1, <2>1, <2>6, <3>3
      <4>. QED BY <4>1
    <3>. QED BY <1>1, <2>1, <3>1, <3>2, <3>3
  <2>. QED BY <2>5, <2>6, <2>7, <2>8, <2>9
<1>. QED BY <1>2, <1>3

LEMMA SortedBatchDistinct ==
  ASSUME NEW r \in Requests,
         NEW i \in 1..Len(SortedBatch(r)), NEW j \in 1..Len(SortedBatch(r)),
         SortedBatch(r)[i] = SortedBatch(r)[j]
  PROVE  i = j
<1>1. BatchOf[r] \in Seq(Calls) /\ \A x, y \in 1..Len(BatchOf[r]) :
        BatchOf[r][x] = BatchOf[r][y] => x = y
  BY SchedulerAssumption
<1>2. PICK at \in [1..Len(BatchOf[r]) -> 1..Len(BatchOf[r])] :
        /\ Len(SortedBatch(r)) = Len(BatchOf[r])
        /\ \A x \in 1..Len(BatchOf[r]) : SortedBatch(r)[x] = BatchOf[r][at[x]]
        /\ \A x, y \in 1..Len(BatchOf[r]) : at[x] = at[y] => x = y
        /\ \A y \in 1..Len(BatchOf[r]) : \E x \in 1..Len(BatchOf[r]) : at[x] = y
  BY SortedBatchPermutes
<1>3. BatchOf[r][at[i]] = BatchOf[r][at[j]] /\ at[i] \in 1..Len(BatchOf[r])
      /\ at[j] \in 1..Len(BatchOf[r])
  BY <1>2
<1>4. at[i] = at[j]
  BY <1>1, <1>3
<1>. QED BY <1>2, <1>4

LEMMA SortedBatchElements ==
  ASSUME NEW r \in Requests
  PROVE  ToSet(SortedBatch(r)) = ToSet(BatchOf[r])
<1>1. BatchOf[r] \in Seq(Calls) /\ SortedBatch(r) \in Seq(Calls)
  BY SortedBatchType, SchedulerAssumption
<1>2. PICK at \in [1..Len(BatchOf[r]) -> 1..Len(BatchOf[r])] :
        /\ Len(SortedBatch(r)) = Len(BatchOf[r])
        /\ \A x \in 1..Len(BatchOf[r]) : SortedBatch(r)[x] = BatchOf[r][at[x]]
        /\ \A x, y \in 1..Len(BatchOf[r]) : at[x] = at[y] => x = y
        /\ \A y \in 1..Len(BatchOf[r]) : \E x \in 1..Len(BatchOf[r]) : at[x] = y
  BY SortedBatchPermutes
<1>3. /\ \A c : c \in ToSet(SortedBatch(r))
                  <=> \E x \in 1..Len(BatchOf[r]) : SortedBatch(r)[x] = c
      /\ \A c : c \in ToSet(BatchOf[r])
                  <=> \E x \in 1..Len(BatchOf[r]) : BatchOf[r][x] = c
  <2>1. \A c : c \in ToSet(SortedBatch(r))
                  <=> \E x \in 1..Len(SortedBatch(r)) : SortedBatch(r)[x] = c
    BY <1>1, ToSetIs
  <2>2. \A c : c \in ToSet(BatchOf[r])
                  <=> \E x \in 1..Len(BatchOf[r]) : BatchOf[r][x] = c
    BY <1>1, ToSetIs
  <2>3. Len(SortedBatch(r)) = Len(BatchOf[r])
    BY <1>2
  <2>. QED BY <2>1, <2>2, <2>3, Zenon
<1>4. ASSUME NEW c, c \in ToSet(SortedBatch(r)) PROVE c \in ToSet(BatchOf[r])
  <2>1. PICK x \in 1..Len(BatchOf[r]) : SortedBatch(r)[x] = c
    BY <1>3, <1>4
  <2>2. at[x] \in 1..Len(BatchOf[r]) /\ BatchOf[r][at[x]] = c
    BY <1>2, <2>1
  <2>. QED BY <1>3, <2>2
<1>5. ASSUME NEW c, c \in ToSet(BatchOf[r]) PROVE c \in ToSet(SortedBatch(r))
  <2>1. PICK y \in 1..Len(BatchOf[r]) : BatchOf[r][y] = c
    BY <1>3, <1>5
  <2>2. PICK x \in 1..Len(BatchOf[r]) : at[x] = y
    BY <1>2
  <2>3. SortedBatch(r)[x] = c
    BY <1>2, <2>1, <2>2
  <2>. QED BY <1>3, <2>3
<1>6. \A c : c \in ToSet(SortedBatch(r)) <=> c \in ToSet(BatchOf[r])
  BY <1>4, <1>5
<1>. QED BY <1>6

(***************************************************************************)
(* The queue stays made of distinct, inactive calls to validate or report. *)
(***************************************************************************)
LEMMA EmptyQueueOK ==
  ASSUME NEW m, m.queue = <<>>
  PROVE  QueueOK(m)
BY DEF QueueOK

LEMMA EnqueueOK ==
  ASSUME NEW m \in Manager, m.queue = <<>>, m.active = {},
         NEW r \in Requests, NEW failed
  PROVE  /\ QueueOK(Enqueue(m, SortedBatch(r), failed))
         /\ Enqueue(m, SortedBatch(r), failed).active = {}
<1>. DEFINE q == SortedBatch(r)
            n == Enqueue(m, q, failed)
<1>1. q \in Seq(Calls)
  BY SortedBatchType
<1>2. n.queue = q /\ n.active = {}
  BY <1>1, ConcatEmptySeq DEF Enqueue, Manager
<1>3. \A i \in 1..Len(q) : q[i] \in Calls /\ q[i] \in ToSet(q)
  BY <1>1, ElementOfSeq DEF ToSet
<1>4. \A c \in Calls : c \in ToSet(q) => n.status[c] \in {"validating", "error"}
  BY DEF Enqueue, Manager
<1>. QED BY <1>1, <1>2, <1>3, <1>4, SortedBatchDistinct DEF QueueOK

\* What a method does to a call that is not queued does not disturb the queue.
LEMMA SameQueueOK ==
  ASSUME NEW m \in Manager, QueueOK(m), NEW n,
         n.queue = m.queue, n.active \subseteq m.active,
         \A c \in Calls : c \notin m.active => n.status[c] = m.status[c]
  PROVE  QueueOK(n)
<1>1. \A i \in 1..Len(m.queue) : m.queue[i] \in Calls
  BY ElementOfSeq DEF Manager
<1>. QED BY <1>1 DEF QueueOK

LEMMA DequeueOK ==
  ASSUME NEW m \in Manager, QueueOK(m), m.active = {}, NEW k \in 1..Len(m.queue)
  PROVE  /\ QueueOK(Dequeue(m, k))
         /\ Dequeue(m, k).status = m.status
         /\ Dequeue(m, k).active = {m.queue[i] : i \in 1..k}
         /\ Dequeue(m, k).active # {}
         /\ \A c \in Dequeue(m, k).active : m.status[c] \in {"validating", "error"}
<1>. DEFINE n == Dequeue(m, k)
            q == m.queue
            rest == SubSeq(q, k + 1, Len(q))
<1>0. q \in Seq(Calls) /\ Len(q) \in Nat /\ k \in Nat /\ 1 <= k /\ k <= Len(q)
  BY DEF Manager
<1>1. n.queue = rest /\ n.status = m.status /\ n.active = {q[i] : i \in 1..k}
  BY DEF Dequeue, Manager
<1>2. /\ Len(rest) = Len(q) - k
      /\ \A i \in 1..(Len(q) - k) : rest[i] = q[k + i]
  <2>1. \A i \in (k + 1)..Len(q) : q[i] \in Calls
    BY <1>0, ElementOfSeq
  <2>2. Len(rest) = Len(q) - k
    BY <1>0, <2>1, SubSeqProperties
  <2>3. ASSUME NEW i \in 1..(Len(q) - k) PROVE rest[i] = q[k + i]
    BY <1>0, <2>1, SubSeqProperties
  <2>. QED BY <2>2, <2>3
<1>3. /\ \A i \in 1..Len(q) : q[i] \notin m.active /\ m.status[q[i]] \in {"validating", "error"}
      /\ \A i, j \in 1..Len(q) : q[i] = q[j] => i = j
  BY DEF QueueOK
<1>. HIDE DEF n, q, rest
<1>4. \A i \in 1..(Len(q) - k) : rest[i] \notin n.active
  <2>1. \A i \in 1..(Len(q) - k) : k + i \in 1..Len(q) /\ k + i \notin 1..k
    BY <1>0
  <2>2. \A i \in 1..k : i \in 1..Len(q)
    BY <1>0
  <2>. QED BY <1>1, <1>2, <1>3, <2>1, <2>2
<1>5. \A i \in 1..(Len(q) - k) : n.status[rest[i]] \in {"validating", "error"}
  <2>1. \A i \in 1..(Len(q) - k) : k + i \in 1..Len(q)
    BY <1>0
  <2>. QED BY <1>1, <1>2, <1>3, <2>1
<1>6. ASSUME NEW i \in 1..(Len(q) - k), NEW j \in 1..(Len(q) - k), rest[i] = rest[j]
      PROVE  i = j
  <2>1. k + i \in 1..Len(q) /\ k + j \in 1..Len(q)
    BY <1>0
  <2>2. q[k + i] = q[k + j]
    BY <1>2, <1>6
  <2>3. k + i = k + j
    BY <1>3, <2>1, <2>2
  <2>. QED BY <1>0, <2>3
<1>7. QueueOK(n)
  BY <1>1, <1>2, <1>4, <1>5, <1>6 DEF QueueOK
<1>8. n.active # {} /\ \A c \in n.active : m.status[c] \in {"validating", "error"}
  BY <1>0, <1>1, <1>3
<1>. QED BY <1>1, <1>7, <1>8 DEF n, q

LEMMA TailCallOK ==
  ASSUME NEW m \in Manager, QueueOK(m), NEW c \in Calls,
         NEW status \in {"validating", "error"}
  PROVE  QueueOK(ReplaceActiveCallWithTailCall(m, c, status))
<1>. DEFINE n == ReplaceActiveCallWithTailCall(m, c, status)
            q == m.queue
<1>1. CASE c \notin m.active
  BY <1>1 DEF ReplaceActiveCallWithTailCall
<1>2. CASE c \in m.active
  <2>1. /\ n.queue = <<c>> \o q /\ n.active = m.active \ {c}
        /\ n.status = [m.status EXCEPT ![c] = status]
    BY <1>2 DEF ReplaceActiveCallWithTailCall, Manager
  <2>2. /\ q \in Seq(Calls) /\ Len(q) \in Nat
        /\ \A i \in 1..Len(q) : q[i] \in Calls /\ q[i] # c
        /\ \A i \in 1..Len(q) : q[i] \notin m.active /\ m.status[q[i]] \in {"validating", "error"}
        /\ \A i, j \in 1..Len(q) : q[i] = q[j] => i = j
    BY <1>2, ElementOfSeq DEF QueueOK, Manager
  <2>. DEFINE tail == <<c>> \o q
  <2>3. <<c>> \in Seq(Calls) /\ Len(<<c>>) = 1 /\ <<c>>[1] = c
    BY ElementOfSeq
  <2>4. Len(tail) = Len(q) + 1
    BY <2>2, <2>3, ConcatProperties
  <2>5. \A i \in 1..(Len(q) + 1) : tail[i] = IF i <= 1 THEN c ELSE q[i - 1]
    BY <2>2, <2>3, ConcatProperties
  <2>. HIDE DEF tail, q
  <2>6. \A i \in 1..(Len(q) + 1) : i = 1 \/ (i - 1 \in 1..Len(q) /\ ~(i <= 1))
    BY <2>2
  <2>7. tail[1] = c /\ \A i \in 1..(Len(q) + 1) : i # 1 => tail[i] = q[i - 1]
    BY <2>2, <2>5, <2>6
  <2>8. \A i \in 1..(Len(q) + 1) : tail[i] \notin m.active \ {c}
    BY <2>2, <2>6, <2>7
  <2>9. \A i \in 1..(Len(q) + 1) :
          [m.status EXCEPT ![c] = status][tail[i]] \in {"validating", "error"}
    BY <2>2, <2>6, <2>7 DEF Manager
  <2>10. \A i, j \in 1..(Len(q) + 1) : tail[i] = tail[j] => i = j
    <3>1. ASSUME NEW i \in 1..(Len(q) + 1), NEW j \in 1..(Len(q) + 1),
                 tail[i] = tail[j]
          PROVE  i = j
      <4>1. CASE i = 1 \/ j = 1
        BY <2>2, <2>6, <2>7, <3>1, <4>1
      <4>2. CASE i # 1 /\ j # 1
        <5>1. i - 1 = j - 1
          BY <2>2, <2>6, <2>7, <3>1, <4>2
        <5>. QED BY <2>2, <5>1
      <4>. QED BY <4>1, <4>2
    <3>. QED BY <3>1
  <2>. QED BY <2>1, <2>4, <2>8, <2>9, <2>10 DEF QueueOK, tail, q
<1>. QED BY <1>1, <1>2
-----------------------------------------------------------------------------
(***************************************************************************)
(* The pieces of the loop.  AllDone says that no coroutine is left.        *)
(***************************************************************************)
AllDone == \A c \in Calls : phase[c] = "done"

LEMMA FinalizeWaveRest ==
  ASSUME NEW m \in Manager, QueueOK(m), AllDone,
         \A c \in m.active : IsTerminal(m, c),
         NEW progress, NEW before,
         m.active = {} /\ ~progress => m.queue = <<>>,
         FinalizeWave(m, progress, before)
  PROVE  WaveInv' /\ loop' # "idle"
<1>1. TerminalActive(m) = m.active
  BY DEF TerminalActive, Manager
<1>2. /\ sm'.active = {} /\ sm'.queue = m.queue /\ sm'.status = m.status
  BY <1>1 DEF FinalizeWave, FinalizeCalls, Manager
<1>3. AllDone' /\ loop' \in {"top", "stop"}
  <2>1. phase' = phase
    BY DEF FinalizeWave
  <2>2. loop' \in {"top", "stop"}
    BY <1>1 DEF FinalizeWave, LoopGoes
  <2>. QED BY <2>1, <2>2 DEF AllDone
<1>4. loop' = "stop" => m.queue = <<>>
  BY <1>1 DEF FinalizeWave, LoopGoes
<1>5. QueueOK(sm)'
  BY <1>2, SameQueueOK
<1>. QED BY <1>2, <1>3, <1>4, <1>5 DEF WaveInv, Between, AllDone

LEMMA ExecuteWaveRest ==
  ASSUME NEW m \in Manager, QueueOK(m), AllDone, phase \in [Calls -> Phase],
         \A c \in m.active : m.status[c] \in Terminal \cup {"scheduled"},
         m.active = {} => m.queue = <<>>,
         NEW r, NEW before, ExecuteWave(m, r, before)
  PROVE  WaveInv' /\ loop' # "idle"
<1>. DEFINE scheduled == {c \in m.active : m.status[c] = "scheduled"}
            started == IF r \in aborted THEN {} ELSE scheduled
            ready == \A c \in m.active : c \in scheduled \/ IsTerminal(m, c)
            status == [c \in Calls |-> IF c \in started THEN "executing"
                                       ELSE IF c \in scheduled THEN "cancelled"
                                       ELSE m.status[c]]
<1>1. ready
  BY DEF IsTerminal
<1>2. CASE scheduled # {}
  <2>1. /\ sm' = [m EXCEPT !.status = status] /\ loop' = "executing"
        /\ phase' = [c \in Calls |-> IF c \in started THEN "run" ELSE phase[c]]
    BY <1>1, <1>2 DEF ExecuteWave
  <2>2. sm'.status = status /\ sm'.active = m.active /\ sm'.queue = m.queue
    BY <2>1 DEF Manager
  <2>3. started \subseteq scheduled /\ scheduled \subseteq m.active /\ m.active \subseteq Calls
    BY DEF Manager
  <2>4. \A c \in m.active : c \in started \/ status[c] \in Terminal
    BY <2>3 DEF Terminal
  <2>5. \A c \in Calls : c \notin m.active => status[c] = m.status[c]
    BY <2>3
  <2>. HIDE DEF started, status, ready
  <2>6. QueueOK(sm)'
    BY <2>2, <2>5, SameQueueOK
  <2>7. \A c \in Calls : phase'[c] \notin {"hook", "policy", "policy_ask"}
    BY <2>1 DEF AllDone
  <2>8. \A c \in sm'.active : phase'[c] = "done" => sm'.status[c] \in Terminal
    BY <2>1, <2>2, <2>3, <2>4
  <2>9. sm'.active # {}
    BY <1>2, <2>2
  <2>. QED BY <2>1, <2>6, <2>7, <2>8, <2>9 DEF WaveInv, Between, IsTerminal
<1>3. CASE scheduled = {}
  <2>1. FinalizeWave(m, FALSE, before)
    BY <1>3 DEF ExecuteWave
  <2>2. \A c \in m.active : IsTerminal(m, c)
    BY <1>1, <1>3
  <2>. QED BY <2>1, <2>2, FinalizeWaveRest
<1>. QED BY <1>2, <1>3

LEMMA ValidateWaveRest ==
  ASSUME NEW m \in Manager, QueueOK(m), AllDone, phase \in [Calls -> Phase],
         \A c \in m.active : m.status[c] \in {"validating", "error"},
         m.active # {},
         NEW r, NEW before, ValidateWave(m, r, before)
  PROVE  WaveInv' /\ loop' # "idle"
<1>. DEFINE validating == {c \in m.active : m.status[c] = "validating"}
<1>1. CASE validating # {}
  <2>1. /\ sm' = m /\ loop' = "validating"
        /\ phase' = [c \in Calls |-> IF c \in validating THEN "hook" ELSE phase[c]]
    BY <1>1 DEF ValidateWave
  <2>2. \A c \in Calls : phase'[c] # "run"
    BY <2>1 DEF AllDone
  <2>3. \A c \in m.active : phase'[c] = "done" => m.status[c] \in Terminal
    BY <2>1 DEF Terminal, Manager
  <2>. QED BY <2>1, <2>2, <2>3 DEF WaveInv, Between
<1>2. CASE validating = {}
  <2>1. ExecuteWave(m, r, before)
    BY <1>2 DEF ValidateWave
  <2>2. \A c \in m.active : m.status[c] \in Terminal \cup {"scheduled"}
    BY <1>2 DEF Terminal
  <2>. QED BY <2>1, <2>2, ExecuteWaveRest
<1>. QED BY <1>1, <1>2

LEMMA ProcessQueueRest ==
  ASSUME NEW m \in Manager, QueueOK(m), m.active = {}, AllDone,
         phase \in [Calls -> Phase],
         NEW r, NEW cancelling, ProcessQueue(m, r, cancelling)
  PROVE  WaveInv' /\ loop' # "idle"
<1>. DEFINE atRest == sm'.queue = <<>> /\ sm'.active = {} /\ loop' = "stop" /\ UNCHANGED phase
<1>1. CASE atRest
  BY <1>1, EmptyQueueOK DEF WaveInv, Between, AllDone
<1>2. CASE m.queue = <<>> /\ sm' = m /\ LoopGoes("stop") /\ UNCHANGED phase
  BY <1>1, <1>2 DEF LoopGoes
<1>3. CASE /\ sm' = CancelAllQueued(FinalizeCalls(m, m.active))
           /\ LoopGoes("stop") /\ UNCHANGED phase
  <2>1. sm'.queue = <<>> /\ sm'.active = {}
    BY <1>3 DEF CancelAllQueued, FinalizeCalls, Manager
  <2>. QED BY <1>1, <1>3, <2>1 DEF LoopGoes
<1>4. CASE /\ m.queue # <<>> /\ m.status[Head(m.queue)] = "error"
           /\ sm' = FinalizeCalls(Dequeue(m, 1), {Head(m.queue)})
           /\ LoopGoes("top") /\ UNCHANGED phase
  <2>. DEFINE n == Dequeue(m, 1)
  <2>1. 1 \in 1..Len(m.queue) /\ Head(m.queue) = m.queue[1]
    BY <1>4, EmptySeq DEF Manager
  <2>2. n \in Manager /\ QueueOK(n) /\ n.status = m.status
    BY <2>1, DequeueType, DequeueOK
  <2>3. n.active = {Head(m.queue)}
    BY <2>1, DequeueOK
  <2>. HIDE DEF n
  <2>4. TerminalActive(n) = n.active
    BY <1>4, <2>2, <2>3 DEF TerminalActive, IsTerminal, Terminal
  <2>5. sm'.queue = n.queue /\ sm'.active = {} /\ sm'.status = n.status
    BY <1>4, <2>2, <2>3, <2>4 DEF FinalizeCalls, Manager, n
  <2>6. QueueOK(sm)'
    BY <2>2, <2>5, SameQueueOK
  <2>. QED BY <1>4, <2>5, <2>6 DEF WaveInv, Between, AllDone, LoopGoes
<1>5. ASSUME NEW k \in 1..Len(m.queue),
             ValidateWave(Dequeue(m, k), r, InitialStatuses(m))
      PROVE  WaveInv' /\ loop' # "idle"
  <2>. DEFINE n == Dequeue(m, k)
  <2>1. n \in Manager /\ QueueOK(n) /\ n.active # {}
        /\ \A c \in n.active : n.status[c] \in {"validating", "error"}
    BY DequeueType, DequeueOK
  <2>. HIDE DEF n
  <2>. QED BY <1>5, <2>1, ValidateWaveRest DEF n
<1>. QED BY <1>2, <1>3, <1>4, <1>5 DEF ProcessQueue

LEMMA StartBatchRest ==
  ASSUME NEW m \in Manager, m.queue = <<>>, m.active = {}, AllDone,
         phase \in [Calls -> Phase],
         NEW p, NEW r \in Requests, StartBatch(m, p, r)
  PROVE  WaveInv' /\ loop' # "idle" /\ isProcessing'
<1>1. PICK failed \in SUBSET ToSet(BatchOf[r]) :
        ProcessQueue(Enqueue(ClearBatch(m), SortedBatch(r), failed), r, FALSE)
  BY DEF StartBatch
<1>. DEFINE n == Enqueue(ClearBatch(m), SortedBatch(r), failed)
<1>2. /\ ClearBatch(m) \in Manager
      /\ ClearBatch(m).queue = <<>> /\ ClearBatch(m).active = {}
  BY ClearBatchType DEF ClearBatch, Manager
<1>3. n \in Manager /\ QueueOK(n) /\ n.active = {}
  BY <1>2, EnqueueOK, EnqueueType, SortedBatchType
<1>. HIDE DEF n
<1>4. WaveInv' /\ loop' # "idle"
  BY <1>1, <1>3, ProcessQueueRest DEF n
<1>. QED BY <1>4 DEF StartBatch
-----------------------------------------------------------------------------
(***************************************************************************)
(* A coroutine that moves on.  Where it ends, it leaves its call scheduled *)
(* or terminal in step 1 and terminal in step 2.                           *)
(***************************************************************************)
LEMMA MovesRest ==
  ASSUME TypeOK, WaveInv, NEW c \in Calls, phase[c] # "done",
         loop' = loop, madeProgress' = madeProgress,
         NEW where, phase' = [phase EXCEPT ![c] = where],
         NEW status, sm' = UpdateStatus(sm, c, status) \/ (sm' = sm /\ where # "done"),
         loop = "validating" =>
           where # "run" /\ (where = "done" => status \in Terminal \cup {"scheduled"}),
         loop = "executing" =>
           /\ where \notin {"hook", "policy", "policy_ask"}
           /\ where = "done" => status \in Terminal
  PROVE  WaveInv'
<1>1. loop \in {"validating", "executing"}
  BY DEF WaveInv
<1>2. /\ sm'.queue = sm.queue /\ sm'.active = sm.active
      /\ \A d \in Calls \ {c} : sm'.status[d] = sm.status[d] /\ phase'[d] = phase[d]
      /\ phase'[c] = where
      /\ c \notin sm.active => sm'.status[c] = sm.status[c]
      /\ c \in sm.active /\ where = "done" => sm'.status[c] = status
  BY DEF UpdateStatus, TypeOK, Manager
<1>3. sm \in Manager /\ sm.active \subseteq Calls
  BY DEF TypeOK, Manager
<1>4. QueueOK(sm)'
  <2>1. \A d \in Calls : d \notin sm.active => sm'.status[d] = sm.status[d]
    BY <1>2
  <2>. QED BY <1>2, <1>3, <2>1, SameQueueOK DEF WaveInv
<1>5. CASE loop = "validating"
  <2>1. \A d \in Calls : phase'[d] # "run"
    BY <1>2, <1>5 DEF WaveInv
  <2>2. \A d \in sm'.active : phase'[d] = "done"
                               => sm'.status[d] \in Terminal \cup {"scheduled"}
    BY <1>2, <1>3, <1>5 DEF WaveInv
  <2>3. sm'.active = {} => sm'.queue = <<>>
    BY <1>2, <1>5 DEF WaveInv
  <2>. QED BY <1>4, <1>5, <2>1, <2>2, <2>3 DEF WaveInv, Between
<1>6. CASE loop = "executing"
  <2>1. \A d \in Calls : phase'[d] \notin {"hook", "policy", "policy_ask"}
    BY <1>2, <1>6 DEF WaveInv
  <2>2. \A d \in sm'.active : phase'[d] = "done" => sm'.status[d] \in Terminal
    BY <1>2, <1>3, <1>6 DEF WaveInv, IsTerminal
  <2>3. sm'.active = {} /\ ~madeProgress' => sm'.queue = <<>>
    BY <1>2, <1>6 DEF WaveInv
  <2>. QED BY <1>4, <1>6, <2>1, <2>2, <2>3 DEF WaveInv, Between, IsTerminal
<1>. QED BY <1>1, <1>5, <1>6

LEMMA EndsRest ==
  ASSUME TypeOK, WaveInv, NEW c \in Calls, phase[c] # "done",
         loop' = loop, madeProgress' = madeProgress,
         NEW status, Ends(c, status),
         status \in Terminal \/ (loop = "validating" /\ status = "scheduled")
  PROVE  WaveInv'
BY MovesRest DEF Ends

\* The status changes and the coroutine does not end.
LEMMA AsksRest ==
  ASSUME TypeOK, WaveInv, NEW c \in Calls, phase[c] # "done",
         loop' = loop, madeProgress' = madeProgress,
         NEW where \in {"await", "details", "run"},
         where = "run" => loop = "executing",
         NEW status \in Status, sm' = UpdateStatus(sm, c, status),
         phase' = [phase EXCEPT ![c] = where]
  PROVE  WaveInv'
BY MovesRest

LEMMA ThrowsRest ==
  ASSUME TypeOK, WaveInv, NEW c \in Calls, phase[c] # "done",
         loop' = loop, madeProgress' = madeProgress, Throws(c)
  PROVE  WaveInv'
<1>1. PICK status \in ThrownStatus : Ends(c, status)
  BY DEF Throws
<1>2. status \in Terminal
  BY DEF ThrownStatus, Terminal
<1>. QED BY <1>1, <1>2, EndsRest

LEMMA ContinuesRest ==
  ASSUME TypeOK, WaveInv, NEW c \in Calls, phase[c] # "done",
         loop' = loop, madeProgress' = madeProgress,
         NEW where \in Validation, Continues(c, where),
         where \in {"policy", "policy_ask", "hook"} => phase[c] = "hook"
  PROVE  WaveInv'
<1>1. where # "done" /\ where # "run"
  BY DEF Validation
<1>2. loop = "executing" => where \notin {"hook", "policy", "policy_ask"}
  BY DEF WaveInv
<1>3. sm' = sm /\ phase' = [phase EXCEPT ![c] = where]
  BY DEF Continues
<1>. QED BY <1>1, <1>2, <1>3, MovesRest

LEMMA ConfirmationLoopRest ==
  ASSUME TypeOK, WaveInv, NEW c \in Calls, phase[c] # "done",
         loop' = loop, madeProgress' = madeProgress, ConfirmationLoop(c)
  PROVE  WaveInv'
<1>1. "details" \in Validation
  BY DEF Validation
<1>. QED BY <1>1, ThrowsRest, ContinuesRest DEF ConfirmationLoop

(***************************************************************************)
(* Every step of a coroutine.                                              *)
(***************************************************************************)
LEMMA CallStepRest ==
  ASSUME TypeOK, WaveInv, NEW c \in Calls,
         \/ CallSteps(c) \/ ValidationThrows(c)
         \/ \E outcome \in {"proceed", "cancel", "modify"} : Answer(c, outcome)
  PROVE  WaveInv'
<1>. USE DEF callRest, historyVars, loopVars
<1>0. /\ {"policy", "policy_ask", "details", "await", "modify", "cancel",
           "proceed"} \subseteq Validation
      /\ "done" \notin Validation /\ "run" \notin Validation
      /\ {"error", "cancelled", "success"} = Terminal
      /\ "awaiting_approval" \in Status /\ "executing" \in Status
  BY DEF Validation, Terminal, Status
<1>1. CASE HookReturns(c)
  BY <1>0, <1>1, EndsRest, ContinuesRest DEF HookReturns
<1>2. CASE PolicyReturns(c)
  <2>1. /\ phase[c] \in {"policy", "policy_ask"}
        /\ loop' = loop /\ madeProgress' = madeProgress
    BY <1>2 DEF PolicyReturns
  <2>2. loop = "validating"
    BY <2>1 DEF WaveInv, Between
  <2>3. CASE Ends(c, "error") \/ Ends(c, "scheduled")
    BY <1>0, <2>1, <2>2, <2>3, EndsRest
  <2>4. CASE ConfirmationLoop(c)
    BY <2>1, <2>4, ConfirmationLoopRest
  <2>. QED BY <1>2, <2>3, <2>4 DEF PolicyReturns
<1>3. CASE DetailsReturn(c)
  <2>1. phase[c] = "details" /\ loop' = loop /\ madeProgress' = madeProgress
    BY <1>3 DEF DetailsReturn
  <2>2. CASE Continues(c, "proceed")
    BY <1>0, <2>1, <2>2, ContinuesRest
  <2>3. CASE /\ sm' = UpdateStatus(sm, c, "awaiting_approval")
             /\ phase' = [phase EXCEPT ![c] = "await"]
    BY <1>0, <2>1, <2>3, AsksRest
  <2>. QED BY <1>3, <2>2, <2>3 DEF DetailsReturn
<1>4. CASE WaitAborted(c)
  BY <1>4, ThrowsRest DEF WaitAborted
<1>5. CASE ModifyDone(c)
  <2>1. phase[c] = "modify" /\ loop' = loop /\ madeProgress' = madeProgress
    BY <1>5 DEF ModifyDone
  <2>. QED BY <1>0, <1>5, <2>1, ConfirmationLoopRest, ContinuesRest DEF ModifyDone
<1>6. CASE UserRefuses(c)
  <2>0. /\ loop' = loop /\ madeProgress' = madeProgress /\ phase[c] = "cancel"
        /\ phase' = [phase EXCEPT ![c] = "done"]
    BY <1>6 DEF UserRefuses
  <2>1. CASE loop = "validating" /\ sm' = CancelAllQueued(UpdateStatus(sm, c, "cancelled"))
    <3>. DEFINE n == UpdateStatus(sm, c, "cancelled")
    <3>1. /\ n \in Manager /\ n.queue = sm.queue /\ n.active = sm.active
          /\ \A d \in Calls \ {c} : n.status[d] = sm.status[d]
          /\ c \in sm.active => n.status[c] = "cancelled"
      BY UpdateStatusType DEF UpdateStatus, TypeOK, Manager, Status, Terminal
    <3>. HIDE DEF n
    <3>2. /\ sm'.queue = <<>> /\ sm'.active = n.active
          /\ \A d \in Calls : sm'.status[d] = n.status[d] \/ sm'.status[d] = "cancelled"
      BY <2>1, <3>1 DEF CancelAllQueued, Manager, n
    <3>3. sm'.active \subseteq Calls
      BY <3>1, <3>2 DEF Manager
    <3>4. QueueOK(sm)'
      BY <3>2, EmptyQueueOK
    <3>5. \A d \in Calls : phase'[d] # "run"
      BY <2>0, <2>1 DEF WaveInv, TypeOK
    <3>6. \A d \in sm'.active : phase'[d] = "done"
                                 => sm'.status[d] \in Terminal \cup {"scheduled"}
      <4>1. ASSUME NEW d \in sm'.active, phase'[d] = "done"
            PROVE  n.status[d] \in Terminal \cup {"scheduled"}
        <5>1. CASE d = c
          BY <1>0, <3>1, <3>2, <4>1, <5>1
        <5>2. CASE d # c
          <6>1. phase[d] = "done" /\ d \in sm.active /\ n.status[d] = sm.status[d]
            BY <2>0, <3>1, <3>2, <3>3, <4>1, <5>2 DEF TypeOK
          <6>. QED BY <2>1, <6>1 DEF WaveInv
        <5>. QED BY <5>1, <5>2
      <4>. QED BY <1>0, <3>2, <3>3, <4>1
    <3>. QED BY <2>0, <2>1, <3>2, <3>4, <3>5, <3>6 DEF WaveInv, Between
  <2>2. CASE loop = "executing" /\ sm' = UpdateStatus(sm, c, "error")
    BY <1>0, <2>0, <2>2, MovesRest
  <2>. QED BY <1>6, <2>1, <2>2 DEF UserRefuses
<1>7. CASE UserAllows(c)
  <2>0. loop' = loop /\ madeProgress' = madeProgress /\ phase[c] # "done"
    BY <1>7 DEF UserAllows
  <2>1. CASE loop = "validating" /\ Ends(c, "scheduled")
    BY <2>0, <2>1, EndsRest
  <2>2. CASE Ends(c, "cancelled")
    BY <1>0, <2>0, <2>2, EndsRest
  <2>3. CASE /\ loop = "executing"
             /\ sm' = UpdateStatus(sm, c, "executing")
             /\ phase' = [phase EXCEPT ![c] = "run"]
    BY <1>0, <2>0, <2>3, AsksRest
  <2>. QED BY <1>7, <2>1, <2>2, <2>3 DEF UserAllows
<1>8. CASE ToolSucceeds(c)
  <2>1. PICK status \in {"success", "cancelled"} : Ends(c, status)
    BY <1>8 DEF ToolSucceeds
  <2>. QED BY <1>0, <1>8, <2>1, EndsRest DEF ToolSucceeds
<1>9. CASE ToolFails(c)
  <2>1. PICK status \in {"error", "cancelled"} : Ends(c, status)
    BY <1>9 DEF ToolFails
  <2>. QED BY <1>0, <1>9, <2>1, EndsRest DEF ToolFails
<1>10. CASE ToolTailCalls(c)
  <2>1. PICK status \in {"validating", "error"} :
          sm' = ReplaceActiveCallWithTailCall(sm, c, status)
    BY <1>10 DEF ToolTailCalls
  <2>2. /\ phase[c] = "run" /\ phase' = [phase EXCEPT ![c] = "done"]
        /\ loop' = loop /\ madeProgress'
    BY <1>10 DEF ToolTailCalls
  <2>3. loop = "executing"
    BY <2>2 DEF WaveInv, Between
  <2>4. QueueOK(sm)'
    BY <2>1, TailCallOK DEF WaveInv, TypeOK
  <2>5. /\ sm'.active = sm.active \ {c}
        /\ \A d \in Calls \ {c} : sm'.status[d] = sm.status[d]
    BY <2>1 DEF ReplaceActiveCallWithTailCall, TypeOK, Manager
  <2>6. \A d \in sm'.active : phase'[d] = "done" => sm'.status[d] \in Terminal
    BY <2>2, <2>3, <2>5 DEF WaveInv, IsTerminal, TypeOK, Manager
  <2>7. \A d \in Calls : phase'[d] \notin {"hook", "policy", "policy_ask"}
    BY <2>2, <2>3 DEF WaveInv, TypeOK
  <2>. QED BY <2>2, <2>3, <2>4, <2>6, <2>7 DEF WaveInv, Between, IsTerminal
<1>11. CASE ToolNeedsExpansion(c)
  <2>1. /\ phase[c] = "run" /\ loop' = loop /\ madeProgress' = madeProgress
    BY <1>11 DEF ToolNeedsExpansion
  <2>2. loop = "executing"
    BY <2>1 DEF WaveInv, Between
  <2>3. CASE Ends(c, "error")
    BY <1>0, <2>1, <2>3, EndsRest
  <2>4. CASE /\ sm' = UpdateStatus(sm, c, "awaiting_approval")
             /\ phase' = [phase EXCEPT ![c] = "details"]
    BY <1>0, <2>1, <2>2, <2>4, AsksRest
  <2>. QED BY <1>11, <2>3, <2>4 DEF ToolNeedsExpansion
<1>12. CASE ValidationThrows(c)
  BY <1>0, <1>12, ThrowsRest DEF ValidationThrows
<1>13. ASSUME NEW outcome \in {"proceed", "cancel", "modify"}, Answer(c, outcome)
       PROVE  WaveInv'
  BY <1>0, <1>13, ContinuesRest DEF Answer
<1>. QED BY <1>1, <1>2, <1>3, <1>4, <1>5, <1>6, <1>7, <1>8, <1>9, <1>10, <1>11,
            <1>12, <1>13 DEF CallSteps

(***************************************************************************)
(* Cancellation by the host empties the queue and leaves only terminal     *)
(* calls active.                                                           *)
(***************************************************************************)
LEMMA CancelActiveRest ==
  ASSUME NEW m \in Manager
  PROVE  /\ CancelActive(m).active \subseteq m.active
         /\ \A c \in CancelActive(m).active : IsTerminal(CancelActive(m), c)
<1>. DEFINE live == {c \in m.active : ~IsTerminal(m, c)}
            n == [m EXCEPT !.status = [c \in Calls |-> IF c \in live
                                       THEN "cancelled" ELSE @[c]]]
<1>1. CancelActive(m) = FinalizeCalls(n, live)
  BY DEF CancelActive
<1>2. n.active = m.active /\ m.active \subseteq Calls
  BY DEF Manager
<1>3. \A c \in m.active : n.status[c] = IF c \in live THEN "cancelled" ELSE m.status[c]
  BY <1>2 DEF Manager
<1>4. \A c \in m.active : IsTerminal(n, c)
  BY <1>3 DEF IsTerminal, Terminal
<1>5. n \in Manager
  BY DEF Manager, Status, Terminal
<1>. HIDE DEF n, live
<1>6. /\ FinalizeCalls(n, live).active \subseteq n.active
      /\ FinalizeCalls(n, live).status = n.status
  BY <1>5 DEF FinalizeCalls, Manager
<1>. QED BY <1>1, <1>2, <1>4, <1>6 DEF IsTerminal

LEMMA CancelAllFromRest ==
  ASSUME TypeOK, RestInv, NEW q, NEW p, CancelAllFrom(q, p),
         loop = "idle" => q = <<>>
  PROVE  RestInv'
<1>0. /\ UNCHANGED <<isProcessing, loop, madeProgress, phase>>
  BY DEF CancelAllFrom, loopVars, callVars
<1>1. CASE isCancelling
  <2>1. sm' = sm /\ requestQueue' = q
    BY <1>1 DEF CancelAllFrom
  <2>. QED BY <1>0, <2>1 DEF RestInv, WaveInv, QueueOK, IsTerminal
<1>2. CASE ~isCancelling
  <2>. DEFINE n == CancelActive(sm)
  <2>1. sm' = CancelAllQueued(n) /\ requestQueue' = <<>>
    BY <1>2 DEF CancelAllFrom
  <2>2. n \in Manager /\ n.active \subseteq sm.active
        /\ \A c \in n.active : n.status[c] \in Terminal
    BY CancelActiveType, CancelActiveRest DEF TypeOK, IsTerminal
  <2>3. n.queue = sm.queue
    BY DEF CancelActive, FinalizeCalls, TypeOK, Manager
  <2>4. sm.active = {} => n.completed = sm.completed
    <3>1. ASSUME sm.active = {} PROVE n.completed = sm.completed
      <4>1. \A c \in Calls : n.completed[c] = sm.completed[c]
        BY <3>1 DEF CancelActive, FinalizeCalls, Report, TypeOK, Manager
      <4>2. n.completed \in [Calls -> Nat] /\ sm.completed \in [Calls -> Nat]
        BY <2>2 DEF TypeOK, Manager
      <4>. HIDE DEF n
      <4>. QED BY <4>1, <4>2
    <3>. QED BY <3>1
  <2>. HIDE DEF n
  <2>5. /\ sm'.queue = <<>> /\ sm'.active = n.active
        /\ sm'.completed = Report(n, Queued(n))
    BY <2>1, <2>2 DEF CancelAllQueued, Manager
  <2>6. \A c \in sm'.active : sm'.status[c] \in Terminal
    <3>1. \A c \in Calls : sm'.status[c] = n.status[c] \/ sm'.status[c] = "cancelled"
      BY <2>1, <2>2 DEF CancelAllQueued, Manager
    <3>2. n.active \subseteq Calls
      BY <2>2 DEF Manager
    <3>. QED BY <2>2, <2>5, <3>1, <3>2 DEF Terminal
  <2>7. QueueOK(sm)'
    BY <2>5, EmptyQueueOK
  <2>8. sm.active = {} => sm'.active = {}
    BY <2>2, <2>5
  <2>9. WaveInv'
    BY <1>0, <2>5, <2>6, <2>7, <2>8 DEF RestInv, WaveInv, IsTerminal, Between
  <2>10. loop = "idle" => \A c \in Calls : sm'.completed[c] = 0
    <3>1. ASSUME loop = "idle" PROVE \A c \in Calls : sm'.completed[c] = 0
      <4>1. sm.queue = <<>> /\ sm.active = {} /\ \A c \in Calls : sm.completed[c] = 0
        BY <3>1 DEF RestInv, WaveInv, Between
      <4>2. Queued(n) = {}
        BY <2>3, <4>1 DEF Queued, ToSet
      <4>. QED BY <2>4, <2>5, <4>1, <4>2 DEF Report
    <3>. QED BY <3>1
  <2>. QED BY <1>0, <2>1, <2>9, <2>10 DEF RestInv
<1>. QED BY <1>1, <1>2

(***************************************************************************)
(* Without late output a wave ends in the iteration that dequeued it, and  *)
(* a scheduler at rest holds nothing.                                      *)
(***************************************************************************)
THEOREM RestInvHolds ==
  ASSUME LateOutput = FALSE
  PROVE  Spec => []RestInv
<1>. USE DEF loopVars, hostVars, callVars, historyVars
<1>1. Init => RestInv
  <2>. SUFFICES ASSUME Init PROVE RestInv
    OBVIOUS
  <2>1. sm.queue = <<>> /\ sm.active = {} /\ \A c \in Calls : sm.completed[c] = 0
    BY DEF Init, EmptyManager
  <2>2. QueueOK(sm)
    BY <2>1, EmptyQueueOK
  <2>. QED BY <2>1, <2>2 DEF Init, RestInv, WaveInv, Between
<1>2. TypeOK /\ RestInv /\ [Next]_vars => RestInv'
  <2>. SUFFICES ASSUME TypeOK, RestInv, [Next]_vars PROVE RestInv'
    OBVIOUS
  <2>0. /\ sm \in Manager /\ phase \in [Calls -> Phase]
        /\ loop \in Between => QueueOK(sm) /\ sm.active = {} /\ AllDone
    BY DEF TypeOK, RestInv, WaveInv, AllDone
  <2>1. ASSUME NEW r \in Requests, Schedule(r) PROVE RestInv'
    <3>1. CASE ~isProcessing /\ sm.active = {}
      <4>1. loop = "idle" /\ sm.queue = <<>> /\ AllDone
        BY <2>0, <3>1 DEF RestInv, WaveInv, Between
      <4>2. StartBatch(sm, promise, r)
        BY <2>1, <3>1 DEF Schedule
      <4>3. WaveInv' /\ loop' # "idle" /\ isProcessing'
        BY <2>0, <3>1, <4>1, <4>2, StartBatchRest
      <4>. QED BY <4>3 DEF RestInv
    <3>2. CASE isProcessing \/ sm.active # {}
      <4>1. loop # "idle"
        BY <2>0, <3>2 DEF RestInv, Between
      <4>2. UNCHANGED <<sm, loop, madeProgress, isProcessing, phase>>
        BY <2>1, <3>2 DEF Schedule
      <4>. QED BY <4>1, <4>2 DEF RestInv, WaveInv, QueueOK, IsTerminal
    <3>. QED BY <3>1, <3>2
  <2>2. CASE LoopTop
    <3>1. loop = "top" /\ ProcessQueue(sm, cur, isCancelling) /\ isProcessing' = isProcessing
      BY <2>2 DEF LoopTop
    <3>2. WaveInv' /\ loop' # "idle"
      BY <2>0, <3>1, ProcessQueueRest DEF Between
    <3>. QED BY <3>1, <3>2 DEF RestInv
  <2>3. CASE Validated
    <3>1. /\ loop = "validating" /\ ExecuteWave(sm, cur, initial) /\ AllDone
          /\ isProcessing' = isProcessing
      BY <2>3 DEF Validated, AllDone
    <3>2. /\ QueueOK(sm)
          /\ \A c \in sm.active : sm.status[c] \in Terminal \cup {"scheduled"}
          /\ sm.active = {} => sm.queue = <<>>
      BY <2>0, <3>1 DEF RestInv, WaveInv, AllDone, Manager
    <3>3. WaveInv' /\ loop' # "idle"
      BY <2>0, <3>1, <3>2, ExecuteWaveRest
    <3>. QED BY <3>1, <3>3 DEF RestInv
  <2>4. CASE Executed
    <3>1. /\ loop = "executing" /\ FinalizeWave(sm, madeProgress, initial) /\ AllDone
          /\ isProcessing' = isProcessing
      BY <2>4 DEF Executed, AllDone
    <3>2. /\ QueueOK(sm)
          /\ \A c \in sm.active : IsTerminal(sm, c)
          /\ sm.active = {} /\ ~madeProgress => sm.queue = <<>>
      BY <2>0, <3>1 DEF RestInv, WaveInv, AllDone, Manager
    <3>3. WaveInv' /\ loop' # "idle"
      BY <2>0, <3>1, <3>2, FinalizeWaveRest
    <3>. QED BY <3>1, <3>3 DEF RestInv
  <2>5. CASE TimerFires
    BY <2>5 DEF TimerFires, RestInv, WaveInv, Between
  <2>6. CASE FinishBatch
    <3>. DEFINE m == ClearBatch(sm)
                p == [promise EXCEPT ![cur] = "resolved"]
    <3>1. loop = "stop" /\ sm.active = {} /\ sm.queue = <<>> /\ AllDone
      BY <2>0, <2>6 DEF FinishBatch, RestInv, WaveInv, Between
    <3>2. /\ m \in Manager /\ m.active = {} /\ m.queue = <<>>
          /\ \A c \in Calls : m.completed[c] = 0
      BY <2>0, <3>1, ClearBatchType DEF ClearBatch, Manager
    <3>3. CASE requestQueue = <<>>
      <4>1. /\ requestQueue' = <<>> /\ isProcessing' = FALSE
            /\ sm' = m /\ loop' = "idle" /\ phase' = phase
        BY <2>6, <3>3 DEF FinishBatch, LoopGoes
      <4>. HIDE DEF m
      <4>2. QueueOK(sm)'
        BY <3>2, <4>1, EmptyQueueOK
      <4>. QED BY <3>1, <3>2, <4>1, <4>2 DEF RestInv, WaveInv, Between, AllDone
    <3>4. CASE requestQueue # <<>>
      <4>1. StartBatch(m, p, Head(requestQueue))
        BY <2>6, <3>1, <3>4 DEF FinishBatch
      <4>2. Head(requestQueue) \in Requests
        BY <3>4, HeadTailProperties DEF TypeOK
      <4>. HIDE DEF m, p
      <4>3. WaveInv' /\ loop' # "idle" /\ isProcessing'
        BY <2>0, <3>1, <3>2, <4>1, <4>2, StartBatchRest
      <4>. QED BY <4>3 DEF RestInv
    <3>. QED BY <3>3, <3>4
  <2>7. CASE CancelAll
    BY <2>7, CancelAllFromRest DEF CancelAll, RestInv
  <2>8. ASSUME NEW r \in Requests PROVE loop = "idle" => AbortHandler(r) = <<>>
    BY DEF RestInv, AbortHandler, ToSet
  <2>9. ASSUME NEW r \in Requests, Abort(r) PROVE RestInv'
    BY <2>8, <2>9 DEF Abort, RestInv, WaveInv, QueueOK, IsTerminal
  <2>10. ASSUME NEW r \in Requests, UserCancel(r) PROVE RestInv'
    BY <2>8, <2>10, CancelAllFromRest DEF UserCancel
  <2>11. ASSUME NEW c \in Calls,
                \/ CallSteps(c) \/ ValidationThrows(c)
                \/ \E outcome \in {"proceed", "cancel", "modify"} : Answer(c, outcome)
         PROVE  RestInv'
    <3>1. WaveInv'
      BY <2>11, CallStepRest DEF RestInv
    <3>2. UNCHANGED <<loop, isProcessing, requestQueue>> /\ phase[c] # "done"
      BY <2>11 DEF CallSteps, HookReturns, PolicyReturns, DetailsReturn, WaitAborted,
         ModifyDone, UserRefuses, UserAllows, ToolSucceeds, ToolFails, ToolTailCalls,
         ToolNeedsExpansion, ValidationThrows, Answer, callRest, Validation
    <3>3. loop # "idle"
      BY <3>2 DEF RestInv, WaveInv, Between
    <3>. QED BY <3>1, <3>2, <3>3 DEF RestInv
  <2>12. CASE UNCHANGED vars
    BY <2>12 DEF vars, RestInv, WaveInv, QueueOK, IsTerminal
  <2>. QED BY <2>1, <2>2, <2>3, <2>4, <2>5, <2>6, <2>7, <2>9, <2>10, <2>11, <2>12
           DEF Next, LoopSteps, HostSteps, LateOutputArrives
<1>. QED BY <1>1, <1>2, TypeCorrect, PTL DEF Spec

(***************************************************************************)
(* Without late output, a batch that has ended leaves nothing behind (no   *)
(* call, no coroutine, no result) and no request waits for a scheduler     *)
(* that is at rest: whatever the batches, the answers, the failures, the   *)
(* cancellations and the tail calls.                                       *)
(***************************************************************************)
THEOREM BatchesEndClean ==
  ASSUME LateOutput = FALSE
  PROVE  Spec => [](NothingOutlivesBatch /\ NoStrandedRequest)
<1>1. RestInv => NothingOutlivesBatch /\ NoStrandedRequest
  BY DEF RestInv, WaveInv, Between, NothingOutlivesBatch, NoStrandedRequest
<1>. QED BY <1>1, RestInvHolds, PTL

(***************************************************************************)
(* A request waits in requestQueue only while a batch is being processed,  *)
(* so that the end of that batch will look at it (FinishBatch).            *)
(***************************************************************************)
THEOREM NoRequestIsStranded ==
  ASSUME LateOutput = FALSE
  PROVE  Spec => []NoStrandedRequest
BY BatchesEndClean, PTL
=============================================================================
