----------------------- MODULE SchedulerResultProofs ------------------------
(***************************************************************************)
(* One result per call, the contract of schedule(), what was decided       *)
(* stands, no start after a report, and calls in order: for every set of   *)
(* calls and requests, every batch and every bound.  What was decided      *)
(* stands with late output too; the rest is for tools that report no       *)
(* output after they have returned.                                        *)
(***************************************************************************)
EXTENDS SchedulerProofs

(***************************************************************************)
(* What a method of the state manager does to the accounts.                *)
(***************************************************************************)
LEMMA QueuedIs ==
  ASSUME NEW m \in Manager
  PROVE  \A c \in Calls : c \in Queued(m) <=> \E i \in 1..Len(m.queue) : m.queue[i] = c
BY ToSetIs DEF Queued, Manager

\* Nothing moves between the queue, the active calls and the results.
LEMMA SameAccounts ==
  ASSUME NEW m, NEW n, NEW B, AccountedIn(m, B),
         n.queue = m.queue, n.active = m.active,
         \A c \in Calls : n.completed[c] = m.completed[c]
  PROVE  AccountedIn(n, B)
BY DEF AccountedIn, Queued

LEMMA EnqueueAccounts ==
  ASSUME NEW m \in Manager, m.queue = <<>>, m.active = {},
         \A c \in Calls : m.completed[c] = 0,
         NEW r \in Requests, NEW failed
  PROVE  AccountedIn(Enqueue(m, SortedBatch(r), failed), ToSet(BatchOf[r]))
<1>. DEFINE n == Enqueue(m, SortedBatch(r), failed)
<1>1. SortedBatch(r) \in Seq(Calls)
  BY SortedBatchType
<1>2. /\ n.queue = SortedBatch(r) /\ n.active = {}
      /\ \A c \in Calls : n.completed[c] = 0
  BY <1>1, ConcatEmptySeq DEF Enqueue, Manager
<1>. HIDE DEF n
<1>3. Queued(n) = ToSet(BatchOf[r])
  BY <1>2, SortedBatchElements DEF Queued
<1>. QED BY <1>2, <1>3 DEF AccountedIn, n

LEMMA DequeueMoves ==
  ASSUME NEW m \in Manager, QueueOK(m), m.active = {}, NEW k \in 1..Len(m.queue)
  PROVE  \A c \in Calls :
           /\ c \in Queued(m) <=> c \in Queued(Dequeue(m, k)) \/ c \in Dequeue(m, k).active
           /\ c \in Queued(Dequeue(m, k)) => c \notin Dequeue(m, k).active
<1>. DEFINE n == Dequeue(m, k)
            q == m.queue
<1>0. q \in Seq(Calls) /\ Len(q) \in Nat /\ k \in Nat /\ 1 <= k /\ k <= Len(q)
  BY DEF Manager
<1>1. n \in Manager
  BY DequeueType
<1>2. /\ n.queue = SubSeq(q, k + 1, Len(q)) /\ n.completed = m.completed
      /\ n.active = {q[i] : i \in 1..k}
  BY DEF Dequeue, Manager
<1>3. QueueOK(n)
  BY DequeueOK
<1>. HIDE DEF n, q
<1>4. Len(n.queue) = Len(q) - k /\ \A i \in 1..(Len(q) - k) : n.queue[i] = q[k + i]
  <2>1. \A i \in (k + 1)..Len(q) : q[i] \in Calls
    BY <1>0, ElementOfSeq
  <2>2. Len(n.queue) = Len(q) - k
    BY <1>0, <1>2, <2>1, SubSeqProperties
  <2>3. ASSUME NEW i \in 1..(Len(q) - k) PROVE n.queue[i] = q[k + i]
    BY <1>0, <1>2, <2>1, SubSeqProperties
  <2>. QED BY <2>2, <2>3
<1>5. \A c \in Calls : c \in Queued(m) <=> \E i \in 1..Len(q) : q[i] = c
  BY QueuedIs DEF q
<1>6. \A c \in Calls : c \in Queued(n) <=> \E i \in 1..(Len(q) - k) : q[k + i] = c
  <2>1. \A c \in Calls : c \in Queued(n) <=> \E i \in 1..Len(n.queue) : n.queue[i] = c
    BY <1>1, QueuedIs
  <2>. QED BY <1>4, <2>1
<1>7. \A c \in Calls : c \in n.active <=> \E i \in 1..k : q[i] = c
  BY <1>2
<1>8. ASSUME NEW c \in Calls PROVE c \in Queued(m) <=> c \in Queued(n) \/ c \in n.active
  <2>1. ASSUME c \in Queued(n) \/ c \in n.active PROVE c \in Queued(m)
    <3>1. CASE c \in Queued(n)
      <4>1. PICK i \in 1..(Len(q) - k) : q[k + i] = c
        BY <1>6, <3>1
      <4>2. k + i \in 1..Len(q)
        BY <1>0
      <4>. QED BY <1>5, <4>1, <4>2
    <3>2. CASE c \in n.active
      <4>1. PICK i \in 1..k : q[i] = c
        BY <1>7, <3>2
      <4>2. i \in 1..Len(q)
        BY <1>0
      <4>. QED BY <1>5, <4>1, <4>2
    <3>. QED BY <2>1, <3>1, <3>2
  <2>2. ASSUME c \in Queued(m) PROVE c \in Queued(n) \/ c \in n.active
    <3>1. PICK i \in 1..Len(q) : q[i] = c
      BY <1>5, <2>2
    <3>2. CASE i <= k
      BY <1>7, <3>1, <3>2
    <3>3. CASE i > k
      <4>1. i - k \in 1..(Len(q) - k) /\ k + (i - k) = i
        BY <1>0, <3>3
      <4>. QED BY <1>6, <3>1, <4>1
    <3>. QED BY <1>0, <3>2, <3>3
  <2>. QED BY <2>1, <2>2
<1>9. ASSUME NEW c \in Calls, c \in Queued(n) PROVE c \notin n.active
  BY <1>1, <1>3, <1>9, QueuedIs DEF QueueOK
<1>. QED BY <1>8, <1>9 DEF n

LEMMA DequeueAccounts ==
  ASSUME NEW m \in Manager, QueueOK(m), m.active = {}, NEW k \in 1..Len(m.queue),
         NEW B, AccountedIn(m, B)
  PROVE  AccountedIn(Dequeue(m, k), B)
<1>1. Dequeue(m, k).completed = m.completed
  BY DEF Dequeue, Manager
<1>. QED BY <1>1, DequeueMoves DEF AccountedIn

LEMMA FinalizeAccounts ==
  ASSUME NEW m \in Manager, NEW S, NEW B, AccountedIn(m, B)
  PROVE  AccountedIn(FinalizeCalls(m, S), B)
<1>. DEFINE n == FinalizeCalls(m, S)
            done == S \cap TerminalActive(m)
<1>1. done \subseteq m.active
  BY DEF TerminalActive
<1>. HIDE DEF done
<1>2. /\ n.queue = m.queue /\ n.active = m.active \ done
      /\ \A c \in Calls : n.completed[c] = IF c \in done THEN m.completed[c] + 1
                                                         ELSE m.completed[c]
  BY DEF FinalizeCalls, Report, Manager, done
<1>. HIDE DEF n
<1>3. Queued(n) = Queued(m)
  BY <1>2 DEF Queued
<1>. QED BY <1>1, <1>2, <1>3 DEF AccountedIn, n

LEMMA CancelAllQueuedFacts ==
  ASSUME NEW m \in Manager
  PROVE  LET n == CancelAllQueued(m) IN
         /\ n.queue = <<>> /\ Queued(n) = {} /\ n.active = m.active
         /\ \A c \in Calls :
              /\ n.completed[c] = IF c \in Queued(m) THEN m.completed[c] + 1
                                                     ELSE m.completed[c]
              /\ n.status[c] = IF c \in Queued(m) /\ m.status[c] # "error"
                               THEN "cancelled" ELSE m.status[c]
BY DEF CancelAllQueued, Report, Manager, Queued, ToSet

LEMMA CancelQueueAccounts ==
  ASSUME NEW m \in Manager, NEW B, AccountedIn(m, B)
  PROVE  AccountedIn(CancelAllQueued(m), B)
BY CancelAllQueuedFacts DEF AccountedIn

LEMMA TailCallMoves ==
  ASSUME NEW m \in Manager, NEW c \in m.active, NEW status
  PROVE  \A d \in Calls :
           d \in Queued(ReplaceActiveCallWithTailCall(m, c, status)) <=> d = c \/ d \in Queued(m)
<1>. DEFINE n == ReplaceActiveCallWithTailCall(m, c, status)
<1>0. n.queue = <<c>> \o m.queue /\ c \in Calls
  BY DEF ReplaceActiveCallWithTailCall, Manager
<1>. HIDE DEF n
<1>1. <<c>> \in Seq(Calls) /\ Len(<<c>>) = 1 /\ <<c>>[1] = c /\ m.queue \in Seq(Calls)
  BY <1>0, ElementOfSeq DEF Manager
<1>2. /\ n.queue \in Seq(Calls) /\ Len(n.queue) = Len(m.queue) + 1
      /\ \A i \in 1..(Len(m.queue) + 1) :
           n.queue[i] = IF i <= 1 THEN c ELSE m.queue[i - 1]
  BY <1>0, <1>1, ConcatProperties
<1>3. \A d \in Calls : d \in Queued(n) <=> \E i \in 1..Len(n.queue) : n.queue[i] = d
  BY <1>2, ToSetIs DEF Queued
<1>4. ASSUME NEW d \in Calls, d \in Queued(n) PROVE d = c \/ d \in Queued(m)
  <2>1. PICK i \in 1..(Len(m.queue) + 1) : n.queue[i] = d
    BY <1>2, <1>3, <1>4
  <2>2. CASE i <= 1
    BY <1>2, <2>1, <2>2
  <2>3. CASE i > 1
    <3>1. i - 1 \in 1..Len(m.queue) /\ m.queue[i - 1] = d
      BY <1>1, <1>2, <2>1, <2>3
    <3>. QED BY <3>1, QueuedIs
  <2>. QED BY <2>2, <2>3
<1>5. ASSUME NEW d \in Calls, d = c \/ d \in Queued(m) PROVE d \in Queued(n)
  <2>1. CASE d = c
    <3>1. 1 \in 1..Len(n.queue) /\ n.queue[1] = c
      BY <1>1, <1>2
    <3>. QED BY <1>3, <2>1, <3>1
  <2>2. CASE d \in Queued(m)
    <3>1. PICK i \in 1..Len(m.queue) : m.queue[i] = d
      BY <2>2, QueuedIs
    <3>2. i + 1 \in 1..Len(n.queue) /\ n.queue[i + 1] = d
      BY <1>1, <1>2, <3>1
    <3>. QED BY <1>3, <3>2
  <2>. QED BY <1>5, <2>1, <2>2
<1>. QED BY <1>4, <1>5 DEF n

LEMMA TailCallAccounts ==
  ASSUME NEW m \in Manager, NEW B, AccountedIn(m, B), NEW c \in Calls, NEW status
  PROVE  AccountedIn(ReplaceActiveCallWithTailCall(m, c, status), B)
<1>1. CASE c \notin m.active
  BY <1>1 DEF ReplaceActiveCallWithTailCall
<1>2. CASE c \in m.active
  <2>. DEFINE n == ReplaceActiveCallWithTailCall(m, c, status)
  <2>1. /\ n.queue = <<c>> \o m.queue /\ n.active = m.active \ {c}
        /\ n.completed = m.completed
    BY <1>2 DEF ReplaceActiveCallWithTailCall, Manager
  <2>. HIDE DEF n
  <2>2. \A d \in Calls : d \in Queued(n) <=> d = c \/ d \in Queued(m)
    BY <1>2, TailCallMoves DEF n
  <2>. QED BY <1>2, <2>1, <2>2 DEF AccountedIn, n
<1>. QED BY <1>1, <1>2
-----------------------------------------------------------------------------
(***************************************************************************)
(* One round of _processQueue with no call active: it stops after emptying *)
(* the queue, reports a head in error, or dequeues a wave and starts its   *)
(* coroutines.                                                             *)
(***************************************************************************)
Stopped(m) ==
  /\ sm'.queue = <<>> /\ sm'.active = {}
  /\ \A c \in Calls :
       /\ sm'.completed[c] = IF c \in Queued(m) THEN m.completed[c] + 1
                                                ELSE m.completed[c]
       /\ sm'.status[c] = IF c \in Queued(m) /\ m.status[c] # "error"
                          THEN "cancelled" ELSE m.status[c]
  /\ phase' = phase /\ loop' = "stop"

HeadReported(m) ==
  /\ m.queue # <<>> /\ m.status[Head(m.queue)] = "error"
  /\ sm' = FinalizeCalls(Dequeue(m, 1), {Head(m.queue)})
  /\ phase' = phase /\ loop' = "top"

WaveStarted(m, k) ==
  /\ k \in 1..Len(m.queue) /\ IsWave(m.queue, k)
  /\ sm' = Dequeue(m, k)
  /\ phase' = [c \in Calls |-> IF c \in sm'.active /\ m.status[c] = "validating"
                               THEN "hook" ELSE phase[c]]
  /\ loop' = "validating"

LEMMA ProcessQueueOutcome ==
  ASSUME NEW m \in Manager, QueueOK(m), m.active = {},
         NEW r, NEW cancelling, ProcessQueue(m, r, cancelling)
  PROVE  \/ Stopped(m)
         \/ HeadReported(m)
         \/ /\ r \notin aborted /\ ~cancelling
            /\ \E k \in 1..Len(m.queue) : WaveStarted(m, k)
<1>1. CASE m.queue = <<>> /\ sm' = m /\ LoopGoes("stop") /\ UNCHANGED phase
  <2>1. Queued(m) = {}
    BY <1>1 DEF Queued, ToSet
  <2>. QED BY <1>1, <2>1 DEF Stopped, LoopGoes
<1>2. CASE /\ sm' = CancelAllQueued(FinalizeCalls(m, m.active))
           /\ LoopGoes("stop") /\ UNCHANGED phase
  <2>. DEFINE n == FinalizeCalls(m, m.active)
  <2>1. n \in Manager
    BY FinalizeCallsType
  <2>2. /\ n.queue = m.queue /\ n.active = {} /\ n.status = m.status
        /\ \A c \in Calls : n.completed[c] = m.completed[c]
    BY DEF FinalizeCalls, Report, Manager
  <2>3. Queued(n) = Queued(m)
    BY <2>2 DEF Queued
  <2>. HIDE DEF n
  <2>4. LET s == CancelAllQueued(n) IN
        /\ s.queue = <<>> /\ Queued(s) = {} /\ s.active = n.active
        /\ \A c \in Calls :
             /\ s.completed[c] = IF c \in Queued(n) THEN n.completed[c] + 1
                                                    ELSE n.completed[c]
             /\ s.status[c] = IF c \in Queued(n) /\ n.status[c] # "error"
                              THEN "cancelled" ELSE n.status[c]
    BY <2>1, CancelAllQueuedFacts
  <2>5. sm' = CancelAllQueued(n) /\ phase' = phase /\ loop' = "stop"
    BY <1>2 DEF n, LoopGoes
  <2>. QED BY <2>2, <2>3, <2>4, <2>5 DEF Stopped
<1>3. CASE /\ m.queue # <<>> /\ m.status[Head(m.queue)] = "error"
           /\ sm' = FinalizeCalls(Dequeue(m, 1), {Head(m.queue)})
           /\ LoopGoes("top") /\ UNCHANGED phase
  BY <1>3 DEF HeadReported, LoopGoes
<1>4. ASSUME m.queue # <<>>, m.status[Head(m.queue)] # "error",
             NEW k \in 1..Len(m.queue), IsWave(m.queue, k),
             ValidateWave(Dequeue(m, k), r, InitialStatuses(m))
      PROVE  WaveStarted(m, k)
  <2>. DEFINE n == Dequeue(m, k)
              validating == {c \in n.active : n.status[c] = "validating"}
  <2>1. n.status = m.status /\ n.active = {m.queue[i] : i \in 1..k}
    BY DequeueOK
  <2>2. Head(m.queue) = m.queue[1] /\ 1 \in 1..k /\ 1 \in 1..Len(m.queue)
    BY <1>4 DEF Manager
  <2>3. m.status[m.queue[1]] = "validating"
    BY <1>4, <2>2 DEF QueueOK
  <2>. HIDE DEF n
  <2>4. validating # {}
    BY <2>1, <2>2, <2>3
  <2>5. /\ sm' = n /\ loop' = "validating"
        /\ phase' = [c \in Calls |-> IF c \in validating THEN "hook" ELSE phase[c]]
    BY <1>4, <2>4 DEF ValidateWave, n
  <2>6. phase' = [c \in Calls |-> IF c \in sm'.active /\ m.status[c] = "validating"
                               THEN "hook" ELSE phase[c]]
    BY <2>1, <2>5
  <2>. QED BY <1>4, <2>5, <2>6 DEF WaveStarted, n
<1>5. CASE r \notin aborted /\ ~cancelling /\ m.active = {} /\ m.queue # <<>>
  BY <1>3, <1>4, <1>5 DEF ProcessQueue
<1>. QED BY <1>1, <1>2, <1>5 DEF ProcessQueue

\* A round keeps the accounts, leaves the status of a call that is neither
\* queued nor active alone, and starts coroutines on queued calls only.
LEMMA ProcessQueueAccounts ==
  ASSUME NEW m \in Manager, QueueOK(m), m.active = {}, AllDone,
         NEW r, NEW cancelling, ProcessQueue(m, r, cancelling),
         NEW B, AccountedIn(m, B)
  PROVE  /\ AccountedIn(sm', B)
         /\ \A c \in Calls : c \notin Queued(m) => sm'.status[c] = m.status[c]
         /\ \A c \in Calls : phase'[c] # "done" => c \in Queued(m)
<1>1. CASE Stopped(m)
  <2>1. Queued(sm') = {}
    BY <1>1 DEF Stopped, Queued, ToSet
  <2>. QED BY <1>1, <2>1 DEF Stopped, AccountedIn, AllDone
<1>2. CASE HeadReported(m)
  <2>. DEFINE n == Dequeue(m, 1)
  <2>1. 1 \in 1..Len(m.queue)
    BY <1>2, EmptySeq DEF HeadReported, Manager
  <2>2. n \in Manager /\ AccountedIn(n, B) /\ n.status = m.status
    BY <2>1, DequeueType, DequeueAccounts, DequeueOK
  <2>. HIDE DEF n
  <2>3. sm' = FinalizeCalls(n, {Head(m.queue)}) /\ phase' = phase
    BY <1>2 DEF HeadReported, n
  <2>4. AccountedIn(sm', B)
    BY <2>2, <2>3, FinalizeAccounts
  <2>5. sm'.status = n.status
    BY <2>2, <2>3 DEF FinalizeCalls, Manager
  <2>. QED BY <2>2, <2>3, <2>4, <2>5 DEF AllDone
<1>3. ASSUME NEW k \in 1..Len(m.queue), WaveStarted(m, k)
      PROVE  /\ AccountedIn(sm', B)
             /\ \A c \in Calls : c \notin Queued(m) => sm'.status[c] = m.status[c]
             /\ \A c \in Calls : phase'[c] # "done" => c \in Queued(m)
  <2>1. /\ AccountedIn(Dequeue(m, k), B) /\ Dequeue(m, k).status = m.status
        /\ Dequeue(m, k).active = {m.queue[i] : i \in 1..k}
    BY DequeueAccounts, DequeueOK
  <2>2. sm' = Dequeue(m, k)
    BY <1>3 DEF WaveStarted
  <2>3. ASSUME NEW c \in Calls, c \in sm'.active PROVE c \in Queued(m)
    <3>1. PICK i \in 1..k : m.queue[i] = c
      BY <2>1, <2>2, <2>3
    <3>2. i \in 1..Len(m.queue)
      BY DEF Manager
    <3>. QED BY <3>1, <3>2, QueuedIs
  <2>4. \A c \in Calls : phase'[c] # "done" => c \in sm'.active
    BY <1>3 DEF WaveStarted, AllDone
  <2>. QED BY <2>1, <2>2, <2>3, <2>4
<1>. QED BY <1>1, <1>2, <1>3, ProcessQueueOutcome

LEMMA FinalizeWaveAccounts ==
  ASSUME NEW m \in Manager, NEW progress, NEW before, FinalizeWave(m, progress, before),
         NEW B, AccountedIn(m, B)
  PROVE  /\ AccountedIn(sm', B) /\ sm'.queue = m.queue /\ sm'.status = m.status
         /\ sm'.active \subseteq m.active /\ phase' = phase /\ loop' # "idle"
<1>1. sm' = FinalizeCalls(m, TerminalActive(m)) /\ phase' = phase
  BY DEF FinalizeWave
<1>2. loop' # "idle"
  BY DEF FinalizeWave, LoopGoes
<1>3. AccountedIn(sm', B)
  BY <1>1, FinalizeAccounts
<1>4. sm'.queue = m.queue /\ sm'.status = m.status /\ sm'.active \subseteq m.active
  BY <1>1 DEF FinalizeCalls, Manager
<1>. QED BY <1>1, <1>2, <1>3, <1>4

LEMMA ExecuteWaveAccounts ==
  ASSUME NEW m \in Manager, phase \in [Calls -> Phase], AllDone,
         NEW r, NEW before, ExecuteWave(m, r, before),
         NEW B, AccountedIn(m, B)
  PROVE  /\ AccountedIn(sm', B) /\ sm'.queue = m.queue /\ sm'.active \subseteq m.active
         /\ \A c \in Calls : sm'.status[c] = m.status[c]
                             \/ (c \in m.active /\ m.status[c] = "scheduled")
         /\ \A c \in Calls : phase'[c] # "done" =>
              /\ r \notin aborted /\ phase'[c] = "run"
              /\ c \in m.active /\ c \in sm'.active /\ sm'.status[c] = "executing"
         /\ loop' # "idle"
<1>. DEFINE scheduled == {c \in m.active : m.status[c] = "scheduled"}
            started == IF r \in aborted THEN {} ELSE scheduled
            ready == \A c \in m.active : c \in scheduled \/ IsTerminal(m, c)
            status == [c \in Calls |-> IF c \in started THEN "executing"
                                       ELSE IF c \in scheduled THEN "cancelled"
                                       ELSE m.status[c]]
<1>1. CASE ready /\ scheduled # {}
  <2>1. /\ sm' = [m EXCEPT !.status = status] /\ loop' = "executing"
        /\ phase' = [c \in Calls |-> IF c \in started THEN "run" ELSE phase[c]]
    BY <1>1 DEF ExecuteWave
  <2>2. /\ sm'.status = status /\ sm'.active = m.active /\ sm'.queue = m.queue
        /\ sm'.completed = m.completed
    BY <2>1 DEF Manager
  <2>3. AccountedIn(sm', B)
    BY <2>2, SameAccounts
  <2>4. started \subseteq m.active /\ (started # {} => r \notin aborted)
    OBVIOUS
  <2>5. \A c \in Calls : sm'.status[c] = m.status[c]
                         \/ (c \in m.active /\ m.status[c] = "scheduled")
    BY <2>2
  <2>6. \A c \in Calls : c \in started => sm'.status[c] = "executing"
    BY <2>2
  <2>. HIDE DEF started, status, scheduled
  <2>7. \A c \in Calls : phase'[c] # "done" => c \in started /\ phase'[c] = "run"
    BY <2>1 DEF AllDone
  <2>8. \A c \in Calls : phase'[c] # "done" =>
          /\ r \notin aborted /\ phase'[c] = "run"
          /\ c \in m.active /\ c \in sm'.active /\ sm'.status[c] = "executing"
    <3>1. ASSUME NEW c \in Calls, phase'[c] # "done"
          PROVE  c \in started /\ phase'[c] = "run"
      BY <2>7, <3>1
    <3>. QED BY <2>2, <2>4, <2>6, <3>1
  <2>. QED BY <2>1, <2>2, <2>3, <2>5, <2>8
<1>2. CASE ~(ready /\ scheduled # {})
  <2>1. FinalizeWave(m, FALSE, before)
    BY <1>2 DEF ExecuteWave
  <2>2. /\ AccountedIn(sm', B) /\ sm'.queue = m.queue /\ sm'.status = m.status
        /\ sm'.active \subseteq m.active /\ phase' = phase /\ loop' # "idle"
    BY <2>1, FinalizeWaveAccounts
  <2>. QED BY <2>2 DEF AllDone
<1>. QED BY <1>1, <1>2
-----------------------------------------------------------------------------
(***************************************************************************)
(* What the coroutine of c may do: write its own status, refuse and cancel *)
(* what is queued, or be replaced by a tail call.  Another call is touched *)
(* by the refusal alone.                                                   *)
(***************************************************************************)
CallWrites(c) ==
  /\ sm' = sm \/ \E status \in Status :
                   /\ sm' = UpdateStatus(sm, c, status)
                   /\ phase'[c] # "done" => status \notin Terminal
  /\ UNCHANGED <<par, tails, userDenied>>

CallRefused(c) ==
  /\ sm' = CancelAllQueued(UpdateStatus(sm, c, "cancelled"))
  /\ phase'[c] = "done" /\ userDenied'
  /\ UNCHANGED <<par, tails>>

CallReplaced(c) ==
  /\ \E status \in {"validating", "error"} : sm' = ReplaceActiveCallWithTailCall(sm, c, status)
  /\ phase[c] = "run" /\ phase'[c] = "done"
  /\ tails'[c] = tails[c] + 1
  /\ \A d \in Calls \ {c} : par'[d] = par[d] /\ tails'[d] = tails[d]
  /\ UNCHANGED userDenied

CallMoves(c) ==
  /\ phase[c] # "done" /\ phase'[c] # "hook"
  /\ phase'[c] = "run" => cur \notin aborted
  /\ phase'[c] = "modify" => ~par[c]
  /\ \A d \in Calls \ {c} : /\ phase'[d] = phase[d]
                            /\ d \in landed' <=> d \in landed
  /\ UNCHANGED <<cur, loop, initial, hostVars, reported>>
  /\ CallWrites(c) \/ CallRefused(c) \/ CallReplaced(c)

LEMMA EndsMoves ==
  ASSUME TypeOK, NEW c \in Calls, phase[c] # "done", NEW status \in Status,
         Ends(c, status), UNCHANGED <<callRest, userDenied, reported>>,
         landed' = landed \/ landed' = landed \cup {c}
  PROVE  CallMoves(c)
<1>. USE DEF callRest, loopVars, hostVars
<1>1. /\ sm' = UpdateStatus(sm, c, status) /\ phase'[c] = "done"
      /\ \A d \in Calls \ {c} : phase'[d] = phase[d]
  BY DEF Ends, TypeOK
<1>2. CallWrites(c)
  BY <1>1 DEF CallWrites
<1>. QED BY <1>1, <1>2 DEF CallMoves

LEMMA ThrowsMoves ==
  ASSUME TypeOK, NEW c \in Calls, phase[c] # "done", Throws(c),
         UNCHANGED <<callRest, userDenied, landed, reported>>
  PROVE  CallMoves(c)
<1>1. PICK status \in ThrownStatus : Ends(c, status)
  BY DEF Throws
<1>2. status \in Status
  BY DEF ThrownStatus, Status, Terminal
<1>. QED BY <1>1, <1>2, EndsMoves

LEMMA ContinuesMoves ==
  ASSUME TypeOK, NEW c \in Calls, phase[c] # "done",
         NEW where, where \notin {"hook", "run"}, where = "modify" => ~par[c],
         Continues(c, where), UNCHANGED <<callRest, userDenied, landed, reported>>
  PROVE  CallMoves(c)
<1>. USE DEF callRest, loopVars, hostVars
<1>1. /\ sm' = sm /\ phase'[c] = where /\ \A d \in Calls \ {c} : phase'[d] = phase[d]
  BY DEF Continues, TypeOK
<1>2. CallWrites(c)
  BY <1>1 DEF CallWrites
<1>. QED BY <1>1, <1>2 DEF CallMoves

LEMMA AsksMoves ==
  ASSUME TypeOK, NEW c \in Calls, phase[c] # "done",
         NEW where, where \notin {"hook", "modify"}, where = "run" => cur \notin aborted,
         NEW status \in Status \ Terminal,
         sm' = UpdateStatus(sm, c, status), phase' = [phase EXCEPT ![c] = where],
         UNCHANGED <<callRest, userDenied, landed, reported>>
  PROVE  CallMoves(c)
<1>. USE DEF callRest, loopVars, hostVars
<1>1. phase'[c] = where /\ \A d \in Calls \ {c} : phase'[d] = phase[d]
  BY DEF TypeOK
<1>2. CallWrites(c)
  BY DEF CallWrites
<1>. QED BY <1>1, <1>2 DEF CallMoves

LEMMA CallStepMoves ==
  ASSUME TypeOK, NEW c \in Calls,
         \/ CallSteps(c) \/ ValidationThrows(c)
         \/ \E outcome \in {"proceed", "cancel", "modify"} : Answer(c, outcome)
  PROVE  CallMoves(c)
<1>. USE DEF historyVars
<1>0. /\ {"success", "error", "cancelled", "scheduled"} \subseteq Status
      /\ {"awaiting_approval", "executing"} \subseteq Status \ Terminal
      /\ "done" \notin Validation
  BY DEF Status, Terminal, Validation
<1>1. CASE HookReturns(c)
  BY <1>0, <1>1, EndsMoves, ContinuesMoves DEF HookReturns
<1>2. ASSUME ConfirmationLoop(c), phase[c] # "done",
             UNCHANGED <<callRest, userDenied, landed, reported>>
      PROVE  CallMoves(c)
  BY <1>2, ThrowsMoves, ContinuesMoves DEF ConfirmationLoop
<1>3. CASE PolicyReturns(c)
  BY <1>0, <1>2, <1>3, EndsMoves DEF PolicyReturns
<1>4. CASE DetailsReturn(c)
  BY <1>0, <1>4, ContinuesMoves, AsksMoves DEF DetailsReturn
<1>5. CASE WaitAborted(c)
  BY <1>5, ThrowsMoves DEF WaitAborted
<1>6. CASE ModifyDone(c)
  BY <1>2, <1>6, ContinuesMoves DEF ModifyDone
<1>7. CASE UserRefuses(c)
  <2>1. CASE loop = "validating" /\ userDenied' = TRUE
             /\ sm' = CancelAllQueued(UpdateStatus(sm, c, "cancelled"))
    <3>1. /\ phase'[c] = "done" /\ phase[c] # "done"
          /\ \A d \in Calls \ {c} : phase'[d] = phase[d]
          /\ UNCHANGED <<callRest, landed, reported>>
      BY <1>7 DEF UserRefuses, TypeOK
    <3>2. CallRefused(c)
      BY <2>1, <3>1 DEF CallRefused, callRest
    <3>. QED BY <3>1, <3>2 DEF CallMoves, callRest, loopVars, hostVars
  <2>2. CASE sm' = UpdateStatus(sm, c, "error") /\ UNCHANGED userDenied
    <3>1. /\ Ends(c, "error") /\ phase[c] # "done"
          /\ UNCHANGED <<callRest, landed, reported>>
      BY <1>7, <2>2 DEF UserRefuses, Ends
    <3>. QED BY <1>0, <2>2, <3>1, EndsMoves
  <2>. QED BY <1>7, <2>1, <2>2 DEF UserRefuses
<1>8. CASE UserAllows(c)
  BY <1>0, <1>8, EndsMoves, AsksMoves DEF UserAllows
<1>9. CASE ToolSucceeds(c)
  <2>1. PICK status \in {"success", "cancelled"} : Ends(c, status)
    BY <1>9 DEF ToolSucceeds
  <2>. QED BY <1>0, <1>9, <2>1, EndsMoves DEF ToolSucceeds
<1>10. CASE ToolFails(c)
  BY <1>0, <1>10, EndsMoves DEF ToolFails
<1>11. CASE ToolTailCalls(c)
  <2>1. PICK status \in {"validating", "error"}, parallel \in BOOLEAN :
          /\ sm' = ReplaceActiveCallWithTailCall(sm, c, status)
          /\ par' = [par EXCEPT ![c] = parallel]
    BY <1>11 DEF ToolTailCalls
  <2>2. /\ phase[c] = "run" /\ phase'[c] = "done" /\ tails'[c] = tails[c] + 1
        /\ \A d \in Calls \ {c} : /\ phase'[d] = phase[d] /\ par'[d] = par[d]
                                  /\ tails'[d] = tails[d]
                                  /\ d \in landed' <=> d \in landed
    BY <1>11, <2>1 DEF ToolTailCalls, TypeOK
  <2>3. UNCHANGED <<cur, loop, initial, hostVars, userDenied, reported>>
    BY <1>11 DEF ToolTailCalls
  <2>4. CallReplaced(c)
    BY <2>1, <2>2, <2>3 DEF CallReplaced
  <2>. QED BY <2>2, <2>3, <2>4 DEF CallMoves
<1>12. CASE ToolNeedsExpansion(c)
  BY <1>0, <1>12, EndsMoves, AsksMoves DEF ToolNeedsExpansion
<1>13. CASE ValidationThrows(c)
  BY <1>0, <1>13, ThrowsMoves DEF ValidationThrows
<1>14. ASSUME NEW outcome \in {"proceed", "cancel", "modify"}, Answer(c, outcome)
       PROVE  CallMoves(c)
  BY <1>14, ContinuesMoves DEF Answer
<1>. QED BY <1>1, <1>3, <1>4, <1>5, <1>6, <1>7, <1>8, <1>9, <1>10, <1>11, <1>12,
            <1>13, <1>14 DEF CallSteps
-----------------------------------------------------------------------------
(***************************************************************************)
(* The request queue, a line without repetitions.                          *)
(***************************************************************************)
Distinct(q) == \A i, j \in 1..Len(q) : q[i] = q[j] => i = j

LEMMA AppendLine ==
  ASSUME NEW q \in Seq(Requests), Distinct(q), NEW r \in Requests, r \notin ToSet(q)
  PROVE  /\ Distinct(Append(q, r))
         /\ \A x \in Requests : x \in ToSet(Append(q, r)) <=> x \in ToSet(q) \/ x = r
<1>. DEFINE n == Append(q, r)
<1>1. /\ n \in Seq(Requests) /\ Len(n) = Len(q) + 1 /\ n[Len(q) + 1] = r
      /\ \A i \in 1..Len(q) : n[i] = q[i]
  BY AppendProperties
<1>2. /\ \A x : x \in ToSet(n) <=> \E i \in 1..Len(n) : n[i] = x
      /\ \A x : x \in ToSet(q) <=> \E i \in 1..Len(q) : q[i] = x
  BY <1>1, ToSetIs
<1>3. Len(q) \in Nat /\ \A i \in 1..(Len(q) + 1) : i \in 1..Len(q) \/ i = Len(q) + 1
  OBVIOUS
<1>. HIDE DEF n
<1>4. Distinct(n)
  BY <1>1, <1>2, <1>3 DEF Distinct
<1>5. ASSUME NEW x \in Requests, x \in ToSet(q) PROVE x \in ToSet(n)
  <2>1. PICK i \in 1..Len(q) : q[i] = x
    BY <1>2, <1>5
  <2>2. i \in 1..Len(n) /\ n[i] = x
    BY <1>1, <2>1
  <2>. QED BY <1>2, <2>2
<1>6. r \in ToSet(n)
  <2>1. Len(q) + 1 \in 1..Len(n)
    BY <1>1
  <2>. QED BY <1>1, <1>2, <2>1
<1>7. ASSUME NEW x \in Requests, x \in ToSet(n) PROVE x \in ToSet(q) \/ x = r
  <2>1. PICK i \in 1..Len(n) : n[i] = x
    BY <1>2, <1>7
  <2>. QED BY <1>1, <1>2, <1>3, <2>1
<1>. QED BY <1>4, <1>5, <1>6, <1>7 DEF n

LEMMA TailLine ==
  ASSUME NEW q \in Seq(Requests), Distinct(q), q # <<>>
  PROVE  /\ Distinct(Tail(q)) /\ Head(q) \in Requests /\ Head(q) \in ToSet(q)
         /\ \A x \in Requests : x \in ToSet(Tail(q)) <=> x \in ToSet(q) /\ x # Head(q)
<1>. DEFINE n == Tail(q)
<1>1. /\ n \in Seq(Requests) /\ Len(n) = Len(q) - 1 /\ Len(q) \in Nat /\ Len(q) >= 1
      /\ Head(q) = q[1] /\ Head(q) \in Requests
      /\ \A i \in 1..Len(n) : n[i] = q[i + 1]
  BY HeadTailProperties
<1>2. /\ \A x : x \in ToSet(n) <=> \E i \in 1..Len(n) : n[i] = x
      /\ \A x : x \in ToSet(q) <=> \E i \in 1..Len(q) : q[i] = x
  BY <1>1, ToSetIs
<1>. HIDE DEF n
<1>3. ASSUME NEW i \in 1..Len(n), NEW j \in 1..Len(n), n[i] = n[j] PROVE i = j
  <2>1. i + 1 \in 1..Len(q) /\ j + 1 \in 1..Len(q) /\ q[i + 1] = q[j + 1]
    BY <1>1, <1>3
  <2>2. i + 1 = j + 1
    BY <2>1 DEF Distinct
  <2>. QED BY <1>1, <2>2
<1>4. ASSUME NEW x \in Requests, x \in ToSet(n) PROVE x \in ToSet(q) /\ x # Head(q)
  <2>1. PICK i \in 1..Len(n) : n[i] = x
    BY <1>2, <1>4
  <2>2. i + 1 \in 1..Len(q) /\ 1 \in 1..Len(q) /\ q[i + 1] = x /\ i + 1 # 1
    BY <1>1, <2>1
  <2>. QED BY <1>1, <1>2, <2>2 DEF Distinct
<1>5. ASSUME NEW x \in Requests, x \in ToSet(q), x # Head(q) PROVE x \in ToSet(n)
  <2>1. PICK i \in 1..Len(q) : q[i] = x
    BY <1>2, <1>5
  <2>2. i # 1
    BY <1>1, <1>5, <2>1
  <2>3. i - 1 \in 1..Len(n) /\ (i - 1) + 1 = i
    BY <1>1, <2>1, <2>2
  <2>4. n[i - 1] = x
    BY <1>1, <2>1, <2>3
  <2>. QED BY <1>2, <2>3, <2>4
<1>6. Head(q) \in ToSet(q)
  BY <1>1, <1>2
<1>. QED BY <1>1, <1>3, <1>4, <1>5, <1>6 DEF n, Distinct

\* The abort handler takes the request out of the line, and nothing else.
LEMMA AbortLine ==
  ASSUME TypeOK, Distinct(requestQueue), NEW r \in Requests
  PROVE  /\ Distinct(AbortHandler(r))
         /\ \A x \in Requests :
              x \in ToSet(AbortHandler(r)) <=> x \in ToSet(requestQueue) /\ x # r
<1>. DEFINE q == requestQueue
            k == CHOOSE i \in DOMAIN requestQueue : requestQueue[i] = r
            n == RemoveAt(q, k)
<1>1. q \in Seq(Requests) /\ Len(q) \in Nat
  BY DEF TypeOK
<1>2. \A x : x \in ToSet(q) <=> \E i \in 1..Len(q) : q[i] = x
  BY <1>1, ToSetIs
<1>3. CASE r \notin ToSet(q)
  BY <1>3 DEF AbortHandler
<1>4. CASE r \in ToSet(q)
  <2>1. k \in 1..Len(q) /\ q[k] = r
    BY <1>1, <1>2, <1>4
  <2>2. AbortHandler(r) = n
    BY <1>4 DEF AbortHandler
  <2>. HIDE DEF k
  <2>3. /\ n \in Seq(Requests) /\ Len(n) = Len(q) - 1
        /\ \A i \in 1..(Len(q) - 1) : n[i] = IF i < k THEN q[i] ELSE q[i + 1]
    BY <1>1, <2>1, RemoveAtElements, RemoveAtType
  <2>. HIDE DEF n, q
  <2>4. \A x : x \in ToSet(n) <=> \E i \in 1..Len(n) : n[i] = x
    BY <2>3, ToSetIs
  <2>5. \A i, j \in 1..Len(q) : q[i] = q[j] => i = j
    BY DEF Distinct, q
  <2>6. ASSUME NEW i \in 1..Len(n)
        PROVE  \E y \in 1..Len(q) : n[i] = q[y] /\ y # k /\ (i < k => y = i) /\ (i >= k => y = i + 1)
    <3>1. i \in 1..Len(q) /\ i + 1 \in 1..Len(q)
      BY <1>1, <2>3
    <3>. QED BY <1>1, <2>1, <2>3, <3>1
  <2>7. ASSUME NEW i \in 1..Len(n), NEW j \in 1..Len(n), n[i] = n[j] PROVE i = j
    <3>1. PICK y \in 1..Len(q) : n[i] = q[y] /\ (i < k => y = i) /\ (i >= k => y = i + 1)
      BY <2>6
    <3>2. PICK z \in 1..Len(q) : n[j] = q[z] /\ (j < k => z = j) /\ (j >= k => z = j + 1)
      BY <2>6
    <3>3. y = z
      BY <2>5, <2>7, <3>1, <3>2
    <3>. QED BY <1>1, <2>1, <2>3, <3>1, <3>2, <3>3
  <2>8. ASSUME NEW x \in Requests, x \in ToSet(n) PROVE x \in ToSet(q) /\ x # r
    <3>1. PICK i \in 1..Len(n) : n[i] = x
      BY <2>4, <2>8
    <3>2. PICK y \in 1..Len(q) : n[i] = q[y] /\ y # k
      BY <2>6
    <3>. QED BY <1>2, <2>1, <2>5, <3>1, <3>2
  <2>9. ASSUME NEW x \in Requests, x \in ToSet(q), x # r PROVE x \in ToSet(n)
    <3>1. PICK y \in 1..Len(q) : q[y] = x
      BY <1>2, <2>9
    <3>2. y # k
      BY <2>1, <2>9, <3>1
    <3>3. CASE y < k
      <4>1. y \in 1..Len(n) /\ n[y] = x
        BY <1>1, <2>1, <2>3, <3>1, <3>3
      <4>. QED BY <2>4, <4>1
    <3>4. CASE y > k
      <4>1. y - 1 \in 1..(Len(q) - 1) /\ ~(y - 1 < k) /\ (y - 1) + 1 = y
        BY <1>1, <2>1, <3>4
      <4>2. y - 1 \in 1..Len(n) /\ n[y - 1] = x
        BY <2>3, <3>1, <4>1
      <4>. QED BY <2>4, <4>2
    <3>. QED BY <1>1, <2>1, <3>2, <3>3, <3>4
  <2>. QED BY <2>2, <2>7, <2>8, <2>9 DEF Distinct, q
<1>. QED BY <1>3, <1>4
-----------------------------------------------------------------------------
(***************************************************************************)
(* One result per call: ResultInv is inductive, given the type and RestInv.*)
(***************************************************************************)
LEMMA BatchesDisjoint ==
  ASSUME NEW r \in Requests, NEW s \in Requests, r # s, NEW c, c \in ToSet(BatchOf[r])
  PROVE  c \notin ToSet(BatchOf[s])
<1>1. /\ BatchOf[r] \in Seq(Calls) /\ BatchOf[s] \in Seq(Calls)
      /\ \A i \in DOMAIN BatchOf[r], j \in DOMAIN BatchOf[s] :
           BatchOf[r][i] # BatchOf[s][j]
  BY SchedulerAssumption
<1>2. PICK i \in DOMAIN BatchOf[r] : BatchOf[r][i] = c
  BY <1>1, ToSetIs
<1>3. ASSUME c \in ToSet(BatchOf[s]) PROVE FALSE
  <2>1. PICK j \in DOMAIN BatchOf[s] : BatchOf[s][j] = c
    BY <1>1, <1>3, ToSetIs
  <2>. QED BY <1>1, <1>2, <2>1
<1>. QED BY <1>3

LEMMA BatchCalls ==
  ASSUME NEW r \in Requests, NEW c \in ToSet(BatchOf[r])
  PROVE  c \in Calls
<1>1. BatchOf[r] \in Seq(Calls)
  BY SchedulerAssumption
<1>2. PICK i \in 1..Len(BatchOf[r]) : BatchOf[r][i] = c
  BY <1>1, ToSetIs
<1>. QED BY <1>1, <1>2, ElementOfSeq

\* A batch that has left no trace, and why it still has not after a step that
\* touches the calls of the batch in progress only.
Fresh(r) == \A c \in ToSet(BatchOf[r]) :
              sm.status[c] = "new" /\ tails[c] = 0 /\ c \notin landed

LEMMA StaysFresh ==
  ASSUME NEW r \in Requests, NEW s \in Requests, r # s, Fresh(r),
         \A c \in Calls : c \notin ToSet(BatchOf[s]) =>
           /\ sm'.status[c] = sm.status[c] /\ tails'[c] = tails[c]
           /\ c \in landed' <=> c \in landed
  PROVE  Fresh(r)'
BY BatchesDisjoint, BatchCalls DEF Fresh

\* What a step on the batch in progress has to keep: the host sees nothing.
LEMMA SameHostResults ==
  ASSUME TypeOK, ResultInv, loop # "idle", loop' # "idle",
         UNCHANGED <<cur, requestQueue, promise, reported>>,
         AccountedIn(sm', ToSet(BatchOf[cur])),
         \A c \in Calls : phase'[c] # "done" => c \in ToSet(BatchOf[cur]),
         \A c \in Calls : c \notin ToSet(BatchOf[cur]) =>
           /\ sm'.status[c] = sm.status[c] /\ tails'[c] = tails[c]
           /\ c \in landed' <=> c \in landed
  PROVE  ResultInv'
<1>1. ASSUME NEW r \in Requests, promise[r] \in {"new", "queued"}
      PROVE  Fresh(r)'
  <2>1. Fresh(r) /\ r # cur /\ cur \in Requests
    BY <1>1 DEF ResultInv, PromiseInv, Fresh, TypeOK
  <2>. QED BY <2>1, StaysFresh
<1>2. PromiseInv'
  <2>1. \A r \in Requests : promise'[r] = "running" <=> loop' # "idle" /\ r = cur'
    BY DEF ResultInv, PromiseInv
  <2>2. /\ \A r \in Requests : promise'[r] = "queued" <=> r \in ToSet(requestQueue')
        /\ \A i, j \in 1..Len(requestQueue') : requestQueue'[i] = requestQueue'[j] => i = j
    BY DEF ResultInv, PromiseInv
  <2>3. \A r \in Requests : promise'[r] \in {"new", "queued"} => Fresh(r)'
    BY <1>1
  <2>. QED BY <2>1, <2>2, <2>3 DEF PromiseInv, Fresh
<1>3. OneResultPerCall'
  BY DEF ResultInv, OneResultPerCall
<1>. QED BY <1>2, <1>3 DEF ResultInv

LEMMA CallMoveAccounts ==
  ASSUME TypeOK, RestInv, ResultInv, NEW c \in Calls, CallMoves(c)
  PROVE  /\ loop # "idle" /\ c \in ToSet(BatchOf[cur])
         /\ AccountedIn(sm, ToSet(BatchOf[cur]))
         /\ AccountedIn(sm', ToSet(BatchOf[cur]))
         /\ \A d \in Calls : d \notin ToSet(BatchOf[cur]) => sm'.status[d] = sm.status[d]
<1>. DEFINE B == ToSet(BatchOf[cur])
<1>1. loop # "idle"
  BY DEF CallMoves, RestInv, WaveInv, Between
<1>2. c \in B /\ AccountedIn(sm, B) /\ sm \in Manager
  BY <1>1 DEF CallMoves, ResultInv, TypeOK
<1>. HIDE DEF B
<1>3. ASSUME NEW status, NEW n, n = UpdateStatus(sm, c, status)
      PROVE  /\ AccountedIn(n, B) /\ n.queue = sm.queue
             /\ \A d \in Calls : d \notin B => n.status[d] = sm.status[d]
  <2>1. /\ n.queue = sm.queue /\ n.active = sm.active /\ n.completed = sm.completed
        /\ \A d \in Calls \ {c} : n.status[d] = sm.status[d]
    BY <1>2, <1>3 DEF UpdateStatus, Manager
  <2>. QED BY <1>2, <2>1, SameAccounts
<1>4. CASE CallWrites(c)
  BY <1>1, <1>2, <1>3, <1>4 DEF CallWrites, B
<1>5. CASE CallRefused(c)
  <2>. DEFINE n == UpdateStatus(sm, c, "cancelled")
  <2>1. n \in Manager
    BY <1>2, UpdateStatusType DEF Status, Terminal
  <2>2. /\ AccountedIn(n, B) /\ n.queue = sm.queue
        /\ \A d \in Calls : d \notin B => n.status[d] = sm.status[d]
    BY <1>3
  <2>3. sm' = CancelAllQueued(n)
    BY <1>5 DEF CallRefused
  <2>. HIDE DEF n
  <2>4. AccountedIn(sm', B)
    BY <2>1, <2>2, <2>3, CancelQueueAccounts
  <2>5. \A d \in Calls : d \notin Queued(n) => sm'.status[d] = n.status[d]
    BY <2>1, <2>3, CancelAllQueuedFacts
  <2>6. \A d \in Calls : d \notin B => d \notin Queued(n)
    BY <2>2 DEF AccountedIn
  <2>. QED BY <1>1, <1>2, <2>2, <2>4, <2>5, <2>6 DEF B
<1>6. CASE CallReplaced(c)
  <2>1. PICK status \in {"validating", "error"} :
          sm' = ReplaceActiveCallWithTailCall(sm, c, status)
    BY <1>6 DEF CallReplaced
  <2>2. AccountedIn(sm', B)
    BY <1>2, <2>1, TailCallAccounts
  <2>3. \A d \in Calls \ {c} : sm'.status[d] = sm.status[d]
    BY <1>2, <2>1 DEF ReplaceActiveCallWithTailCall, Manager
  <2>. QED BY <1>1, <1>2, <2>2, <2>3 DEF B
<1>. QED BY <1>1, <1>2, <1>4, <1>5, <1>6 DEF CallMoves, B

LEMMA CallMoveResults ==
  ASSUME TypeOK, RestInv, ResultInv, NEW c \in Calls, CallMoves(c)
  PROVE  ResultInv'
<1>1. /\ loop # "idle" /\ c \in ToSet(BatchOf[cur])
      /\ AccountedIn(sm', ToSet(BatchOf[cur]))
      /\ \A d \in Calls : d \notin ToSet(BatchOf[cur]) => sm'.status[d] = sm.status[d]
  BY CallMoveAccounts
<1>2. /\ UNCHANGED <<cur, loop, requestQueue, promise, reported>>
      /\ \A d \in Calls \ {c} : phase'[d] = phase[d] /\ (d \in landed' <=> d \in landed)
  BY DEF CallMoves, hostVars
<1>3. \A d \in Calls \ {c} : tails'[d] = tails[d]
  BY DEF CallMoves, CallWrites, CallRefused, CallReplaced
<1>4. \A d \in Calls : phase'[d] # "done" => d \in ToSet(BatchOf[cur])
  BY <1>1, <1>2 DEF ResultInv
<1>5. \A d \in Calls : d \notin ToSet(BatchOf[cur]) =>
        /\ sm'.status[d] = sm.status[d] /\ tails'[d] = tails[d]
        /\ d \in landed' <=> d \in landed
  BY <1>1, <1>2, <1>3
<1>. QED BY <1>1, <1>2, <1>4, <1>5, SameHostResults

LEMMA StartBatchAccounts ==
  ASSUME NEW m \in Manager, m.queue = <<>>, m.active = {}, AllDone,
         NEW p, NEW r \in Requests, StartBatch(m, p, r)
  PROVE  /\ AccountedIn(sm', ToSet(BatchOf[r]))
         /\ \A c \in Calls : c \notin ToSet(BatchOf[r]) => sm'.status[c] = m.status[c]
         /\ \A c \in Calls : phase'[c] # "done" => c \in ToSet(BatchOf[r])
<1>1. PICK failed \in SUBSET ToSet(BatchOf[r]) :
        ProcessQueue(Enqueue(ClearBatch(m), SortedBatch(r), failed), r, FALSE)
  BY DEF StartBatch
<1>. DEFINE k == ClearBatch(m)
            n == Enqueue(k, SortedBatch(r), failed)
<1>2. /\ k \in Manager /\ k.queue = <<>> /\ k.active = {} /\ k.status = m.status
      /\ \A c \in Calls : k.completed[c] = 0
  BY ClearBatchType DEF ClearBatch, Manager
<1>. HIDE DEF k
<1>3. /\ n \in Manager /\ QueueOK(n) /\ n.active = {}
      /\ AccountedIn(n, ToSet(BatchOf[r]))
  BY <1>2, EnqueueOK, EnqueueType, SortedBatchType, EnqueueAccounts
<1>4. \A c \in Calls : c \notin ToSet(BatchOf[r]) => n.status[c] = k.status[c]
  BY <1>2, SortedBatchElements DEF Enqueue, Manager
<1>. HIDE DEF n
<1>5. \A c \in Calls : c \notin ToSet(BatchOf[r]) => c \notin Queued(n)
  BY <1>3 DEF AccountedIn
<1>6. ProcessQueue(n, r, FALSE)
  BY <1>1 DEF n, k
<1>7. /\ AccountedIn(sm', ToSet(BatchOf[r]))
      /\ \A c \in Calls : c \notin Queued(n) => sm'.status[c] = n.status[c]
      /\ \A c \in Calls : phase'[c] # "done" => c \in Queued(n)
  BY <1>3, <1>6, ProcessQueueAccounts
<1>. QED BY <1>2, <1>4, <1>5, <1>7

\* A batch begins: at once, or in the place of the one that has ended.
LEMMA StartBatchResults ==
  ASSUME TypeOK, RestInv, ResultInv, loop \in {"idle", "stop"},
         NEW m \in Manager, m.queue = <<>>, m.active = {}, m.status = sm.status,
         NEW p \in [Requests -> Promises], NEW r \in Requests,
         StartBatch(m, p, r), promise[r] \in {"new", "queued"},
         UNCHANGED <<tails, landed>>,
         requestQueue' \in Seq(Requests), Distinct(requestQueue'),
         \A x \in Requests :
           x \in ToSet(requestQueue') <=> x \in ToSet(requestQueue) /\ x # r,
         \A x \in Requests : x # r /\ p[x] # promise[x] => x = cur /\ loop = "stop",
         loop = "stop" => p[cur] = "resolved" /\ r # cur,
         OneResultPerCall'
  PROVE  ResultInv'
<1>1. /\ promise' = [p EXCEPT ![r] = "running"] /\ cur' = r /\ loop' # "idle"
      /\ AllDone
  <2>1. AllDone
    BY DEF RestInv, WaveInv, Between, AllDone
  <2>2. loop' # "idle"
    BY <2>1, StartBatchRest DEF TypeOK
  <2>. QED BY <2>1, <2>2 DEF StartBatch
<1>2. /\ AccountedIn(sm', ToSet(BatchOf[r]))
      /\ \A c \in Calls : c \notin ToSet(BatchOf[r]) => sm'.status[c] = sm.status[c]
      /\ \A c \in Calls : phase'[c] # "done" => c \in ToSet(BatchOf[r])
  BY <1>1, StartBatchAccounts
<1>3. ASSUME NEW x \in Requests, x # r
      PROVE  promise'[x] = IF x = cur /\ loop = "stop" THEN "resolved" ELSE promise[x]
  BY <1>1, <1>3
<1>4. promise'[r] = "running"
  BY <1>1
<1>5. \A x \in Requests : promise'[x] = "running" <=> loop' # "idle" /\ x = cur'
  BY <1>1, <1>3, <1>4 DEF ResultInv, PromiseInv
<1>6. \A x \in Requests : promise'[x] = "queued" <=> x \in ToSet(requestQueue')
  <2>1. ASSUME NEW x \in Requests PROVE promise'[x] = "queued" <=> x \in ToSet(requestQueue')
    <3>1. CASE x = r
      BY <1>4, <3>1
    <3>2. CASE x # r /\ x = cur /\ loop = "stop"
      <4>1. promise[x] = "running"
        BY <3>2 DEF ResultInv, PromiseInv
      <4>2. x \notin ToSet(requestQueue)
        BY <4>1 DEF ResultInv, PromiseInv
      <4>. QED BY <1>3, <3>2, <4>2
    <3>3. CASE x # r /\ ~(x = cur /\ loop = "stop")
      BY <1>3, <3>3 DEF ResultInv, PromiseInv
    <3>. QED BY <3>1, <3>2, <3>3
  <2>. QED BY <2>1
<1>7. \A x \in Requests : promise'[x] \in {"new", "queued"} => Fresh(x)'
  <2>1. ASSUME NEW x \in Requests, promise'[x] \in {"new", "queued"} PROVE Fresh(x)'
    <3>1. x # r
      BY <1>4, <2>1
    <3>2. promise[x] \in {"new", "queued"}
      BY <1>3, <2>1, <3>1
    <3>3. Fresh(x)
      BY <3>2 DEF ResultInv, PromiseInv, Fresh
    <3>. QED BY <1>2, <3>1, <3>3, StaysFresh
  <2>. QED BY <2>1
<1>8. PromiseInv'
  BY <1>5, <1>6, <1>7 DEF PromiseInv, Fresh, Distinct
<1>. QED BY <1>1, <1>2, <1>8 DEF ResultInv

LEMMA ScheduleResults ==
  ASSUME TypeOK, RestInv, ResultInv, NEW r \in Requests, Schedule(r)
  PROVE  ResultInv'
<1>0. /\ promise[r] = "new" /\ reported' = reported
      /\ UNCHANGED <<tails, landed>> /\ sm \in Manager
      /\ requestQueue \in Seq(Requests) /\ Distinct(requestQueue)
      /\ promise \in [Requests -> Promises]
  BY DEF Schedule, TypeOK, ResultInv, PromiseInv, Distinct
<1>1. r \notin ToSet(requestQueue)
  BY <1>0 DEF ResultInv, PromiseInv
<1>2. CASE ~isProcessing /\ sm.active = {}
  <2>1. loop = "idle" /\ sm.queue = <<>>
    BY <1>2 DEF RestInv, WaveInv
  <2>2. StartBatch(sm, promise, r) /\ requestQueue' = requestQueue
    BY <1>2 DEF Schedule
  <2>3. promise' = [promise EXCEPT ![r] = "running"]
    BY <2>2 DEF StartBatch
  <2>4. OneResultPerCall'
    BY <1>0, <2>3 DEF ResultInv, OneResultPerCall
  <2>5. \A x \in Requests :
           x \in ToSet(requestQueue') <=> x \in ToSet(requestQueue) /\ x # r
    BY <1>1, <2>2
  <2>. QED BY <1>0, <1>2, <2>1, <2>2, <2>4, <2>5, StartBatchResults
<1>3. CASE isProcessing \/ sm.active # {}
  <2>1. loop # "idle"
    BY <1>3 DEF RestInv, WaveInv, Between
  <2>2. /\ UNCHANGED <<sm, loop, cur, phase>>
        /\ requestQueue' = IF r \in aborted THEN requestQueue ELSE Append(requestQueue, r)
        /\ promise' = [promise EXCEPT ![r] = IF r \in aborted THEN "rejected" ELSE "queued"]
    BY <1>2, <1>3 DEF Schedule, EnqueueRequest, loopVars
  <2>3. /\ \A x \in Requests : x # r => promise'[x] = promise[x]
        /\ promise'[r] = IF r \in aborted THEN "rejected" ELSE "queued"
    BY <1>0, <2>2
  <2>4. Distinct(requestQueue') /\ \A x \in Requests :
          x \in ToSet(requestQueue') <=> x \in ToSet(requestQueue) \/ (x = r /\ r \notin aborted)
    <3>1. CASE r \in aborted
      BY <1>0, <2>2, <3>1
    <3>2. CASE r \notin aborted
      BY <1>0, <1>1, <2>2, <3>2, AppendLine
    <3>. QED BY <3>1, <3>2
  <2>5. \A x \in Requests : promise'[x] = "running" <=> loop' # "idle" /\ x = cur'
    BY <1>0, <2>2, <2>3 DEF ResultInv, PromiseInv
  <2>6. \A x \in Requests : promise'[x] = "queued" <=> x \in ToSet(requestQueue')
    BY <1>0, <1>1, <2>3, <2>4 DEF ResultInv, PromiseInv
  <2>7. \A x \in Requests : promise'[x] \in {"new", "queued"} => Fresh(x)'
    <3>1. ASSUME NEW x \in Requests, promise'[x] \in {"new", "queued"} PROVE Fresh(x)
      BY <1>0, <2>3, <3>1 DEF ResultInv, PromiseInv, Fresh
    <3>. QED BY <1>0, <2>2, <3>1 DEF Fresh
  <2>8. PromiseInv'
    BY <2>4, <2>5, <2>6, <2>7 DEF PromiseInv, Fresh, Distinct
  <2>9. OneResultPerCall'
    BY <1>0, <2>3 DEF ResultInv, OneResultPerCall
  <2>10. AccountedIn(sm', ToSet(BatchOf[cur']))
    BY <2>1, <2>2 DEF ResultInv
  <2>. QED BY <2>2, <2>8, <2>9, <2>10 DEF ResultInv
<1>. QED BY <1>2, <1>3

LEMMA FinishBatchResults ==
  ASSUME TypeOK, RestInv, ResultInv, FinishBatch
  PROVE  ResultInv'
<1>. DEFINE m == ClearBatch(sm)
            p == [promise EXCEPT ![cur] = "resolved"]
<1>1. /\ loop = "stop" /\ sm.active = {} /\ sm.queue = <<>> /\ AllDone
  BY DEF FinishBatch, RestInv, WaveInv, Between, AllDone
<1>2. /\ cur \in Requests /\ promise[cur] = "running"
      /\ requestQueue \in Seq(Requests) /\ Distinct(requestQueue)
      /\ promise \in [Requests -> Promises] /\ UNCHANGED <<tails, landed>>
  BY <1>1 DEF TypeOK, ResultInv, PromiseInv, FinishBatch, Distinct
<1>3. /\ m \in Manager /\ m.active = {} /\ m.queue = <<>> /\ m.status = sm.status
      /\ \A c \in Calls : m.completed[c] = 0
  BY <1>1, ClearBatchType DEF ClearBatch, Manager, TypeOK
<1>4. p \in [Requests -> Promises] /\ p[cur] = "resolved"
      /\ \A x \in Requests : x # cur => p[x] = promise[x]
  BY <1>2 DEF Promises
<1>. HIDE DEF m, p
<1>5. \A c \in ToSet(BatchOf[cur]) : reported'[c] = 1
  <2>1. ASSUME NEW c \in ToSet(BatchOf[cur]) PROVE reported'[c] = 1
    <3>1. c \in Calls
      BY <1>2, BatchCalls
    <3>2. c \notin Queued(sm)
      BY <1>1 DEF Queued, ToSet
    <3>3. sm.completed[c] = 1
      BY <1>1, <3>1, <3>2 DEF ResultInv, AccountedIn
    <3>. QED BY <3>1, <3>3 DEF FinishBatch
  <2>. QED BY <2>1
<1>6. ASSUME NEW x \in Requests, x # cur, NEW c \in ToSet(BatchOf[x])
      PROVE  reported'[c] = reported[c]
  <2>1. c \in Calls /\ c \notin ToSet(BatchOf[cur])
    BY <1>2, <1>6, BatchCalls, BatchesDisjoint
  <2>. QED BY <2>1 DEF FinishBatch
<1>7. ASSUME \A x \in Requests : promise'[x] = "resolved" => x = cur \/ promise[x] = "resolved"
      PROVE  OneResultPerCall'
  BY <1>5, <1>6, <1>7 DEF ResultInv, OneResultPerCall
<1>8. CASE requestQueue = <<>>
  <2>1. /\ requestQueue' = requestQueue /\ promise' = p /\ cur' = cur
        /\ sm' = m /\ loop' = "idle" /\ phase' = phase
    BY <1>8 DEF FinishBatch, LoopGoes, p, m
  <2>2. OneResultPerCall'
    BY <1>4, <1>7, <2>1
  <2>3. \A x \in Requests : promise'[x] = "running" <=> loop' # "idle" /\ x = cur'
    BY <1>1, <1>4, <2>1 DEF ResultInv, PromiseInv
  <2>4. \A x \in Requests : promise'[x] = "queued" <=> x \in ToSet(requestQueue')
    BY <1>2, <1>4, <2>1 DEF ResultInv, PromiseInv
  <2>5. \A x \in Requests : promise'[x] \in {"new", "queued"} => Fresh(x)'
    <3>1. ASSUME NEW x \in Requests, promise'[x] \in {"new", "queued"} PROVE Fresh(x)
      BY <1>2, <1>4, <2>1, <3>1 DEF ResultInv, PromiseInv, Fresh
    <3>. QED BY <1>2, <1>3, <2>1, <3>1 DEF Fresh
  <2>6. PromiseInv'
    BY <1>2, <2>1, <2>3, <2>4, <2>5 DEF PromiseInv, Fresh, Distinct
  <2>. QED BY <1>1, <2>1, <2>2, <2>6 DEF ResultInv, AllDone
<1>9. CASE requestQueue # <<>>
  <2>. DEFINE r == Head(requestQueue)
  <2>1. StartBatch(m, p, r) /\ requestQueue' = Tail(requestQueue)
    BY <1>1, <1>9 DEF FinishBatch, p, m
  <2>2. /\ Distinct(requestQueue') /\ r \in Requests /\ r \in ToSet(requestQueue)
        /\ requestQueue' \in Seq(Requests)
        /\ \A x \in Requests : x \in ToSet(requestQueue') <=> x \in ToSet(requestQueue) /\ x # r
    BY <1>2, <1>9, <2>1, TailLine, HeadTailProperties
  <2>. HIDE DEF r
  <2>3. promise[r] = "queued" /\ r # cur
    BY <1>2, <2>2 DEF ResultInv, PromiseInv
  <2>4. promise' = [p EXCEPT ![r] = "running"]
    BY <2>1 DEF StartBatch
  <2>5. OneResultPerCall'
    BY <1>4, <1>7, <2>4
  <2>. QED BY <1>1, <1>2, <1>3, <1>4, <2>1, <2>2, <2>3, <2>5, StartBatchResults
<1>. QED BY <1>8, <1>9

LEMMA CancelActiveAccounts ==
  ASSUME NEW m \in Manager
  PROVE  /\ CancelActive(m) \in Manager /\ CancelActive(m).queue = m.queue
         /\ \A c \in Calls : CancelActive(m).status[c] = m.status[c]
                             \/ (c \in m.active /\ ~IsTerminal(m, c))
         /\ \A B : AccountedIn(m, B) => AccountedIn(CancelActive(m), B)
<1>. DEFINE live == {c \in m.active : ~IsTerminal(m, c)}
            n == [m EXCEPT !.status = [c \in Calls |-> IF c \in live
                                       THEN "cancelled" ELSE @[c]]]
<1>1. CancelActive(m) = FinalizeCalls(n, live)
  BY DEF CancelActive
<1>2. n \in Manager
  BY DEF Manager, Status, Terminal
<1>3. /\ n.queue = m.queue /\ n.active = m.active /\ n.completed = m.completed
      /\ \A c \in Calls : c \notin live => n.status[c] = m.status[c]
  BY DEF Manager
<1>. HIDE DEF n
<1>4. FinalizeCalls(n, live).queue = n.queue /\ FinalizeCalls(n, live).status = n.status
  BY <1>2 DEF FinalizeCalls, Manager
<1>5. ASSUME NEW B, AccountedIn(m, B) PROVE AccountedIn(CancelActive(m), B)
  BY <1>1, <1>2, <1>3, <1>5, SameAccounts, FinalizeAccounts
<1>. QED BY <1>1, <1>3, <1>4, <1>5, CancelActiveType

LEMMA CancelAllResults ==
  ASSUME TypeOK, RestInv, ResultInv, CancelAllFrom(requestQueue, promise)
  PROVE  ResultInv'
<1>0. /\ UNCHANGED <<cur, loop, phase, tails, landed, reported>>
      /\ sm \in Manager /\ promise \in [Requests -> Promises] /\ cur \in Requests
  BY DEF CancelAllFrom, loopVars, callVars, TypeOK
<1>1. CASE isCancelling
  <2>1. sm' = sm /\ requestQueue' = requestQueue /\ promise' = promise
    BY <1>1 DEF CancelAllFrom
  <2>. QED BY <1>0, <2>1 DEF ResultInv, PromiseInv, OneResultPerCall
<1>2. CASE ~isCancelling
  <2>. DEFINE n == CancelActive(sm)
  <2>1. /\ requestQueue' = <<>> /\ sm' = CancelAllQueued(n)
        /\ promise' = [r \in Requests |-> IF r \in ToSet(requestQueue) THEN "rejected"
                                                                       ELSE promise[r]]
    BY <1>2 DEF CancelAllFrom
  <2>2. /\ n \in Manager /\ n.queue = sm.queue
        /\ \A c \in Calls : n.status[c] = sm.status[c] \/ c \in sm.active
        /\ \A B : AccountedIn(sm, B) => AccountedIn(n, B)
    BY <1>0, CancelActiveAccounts
  <2>. HIDE DEF n
  <2>3. /\ Queued(n) = Queued(sm)
        /\ \A c \in Calls : sm'.status[c] = n.status[c] \/ c \in Queued(n)
    BY <2>1, <2>2, CancelAllQueuedFacts DEF Queued
  <2>4. loop # "idle" => AccountedIn(sm', ToSet(BatchOf[cur]))
    BY <2>1, <2>2, CancelQueueAccounts DEF ResultInv
  <2>5. \A c \in Calls : c \in sm.active \/ c \in Queued(sm)
                           => loop # "idle" /\ c \in ToSet(BatchOf[cur])
    <3>1. loop = "idle" => sm.active = {} /\ Queued(sm) = {}
      BY DEF RestInv, WaveInv, Between, Queued, ToSet
    <3>2. loop # "idle" => AccountedIn(sm, ToSet(BatchOf[cur]))
      BY DEF ResultInv
    <3>. QED BY <3>1, <3>2 DEF AccountedIn
  <2>6. ASSUME NEW r \in Requests, promise'[r] \in {"new", "queued"} PROVE Fresh(r)'
    <3>1. promise[r] = "new"
      BY <2>1, <2>6 DEF ResultInv, PromiseInv
    <3>2. Fresh(r) /\ ~(loop # "idle" /\ r = cur)
      BY <3>1 DEF ResultInv, PromiseInv, Fresh
    <3>3. ASSUME NEW c \in ToSet(BatchOf[r]) PROVE sm'.status[c] = sm.status[c]
      <4>1. c \in Calls
        BY BatchCalls
      <4>2. ~(c \in sm.active \/ c \in Queued(sm))
        BY <1>0, <2>5, <3>2, <4>1, BatchesDisjoint
      <4>. QED BY <2>2, <2>3, <4>1, <4>2
    <3>. QED BY <1>0, <3>2, <3>3 DEF Fresh
  <2>7. PromiseInv'
    <3>1. \A r \in Requests : promise'[r] = IF r \in ToSet(requestQueue) THEN "rejected"
                                                                       ELSE promise[r]
      BY <2>1
    <3>2. \A r \in Requests : promise'[r] = "running" <=> loop' # "idle" /\ r = cur'
      BY <1>0, <3>1 DEF ResultInv, PromiseInv
    <3>3. \A r \in Requests : promise'[r] # "queued"
      BY <3>1 DEF ResultInv, PromiseInv
    <3>4. ToSet(requestQueue') = {} /\ Len(requestQueue') = 0
      BY <2>1 DEF ToSet
    <3>5. \A r \in Requests : promise'[r] \in {"new", "queued"} => Fresh(r)'
      BY <2>6
    <3>. QED BY <3>2, <3>3, <3>4, <3>5 DEF PromiseInv, Fresh
  <2>8. OneResultPerCall'
    BY <1>0, <2>1 DEF ResultInv, OneResultPerCall
  <2>. QED BY <1>0, <2>4, <2>7, <2>8 DEF ResultInv
<1>. QED BY <1>1, <1>2

\* The abort of a request that does not wait leaves the line as it is.
LEMMA RunningNotInLine ==
  ASSUME ResultInv, NEW r \in Requests, promise[r] = "running"
  PROVE  AbortHandler(r) = requestQueue /\ AbortPromise(r) = promise
BY DEF ResultInv, PromiseInv, AbortHandler, AbortPromise

LEMMA AbortResults ==
  ASSUME TypeOK, RestInv, ResultInv, NEW r \in Requests, Abort(r)
  PROVE  ResultInv'
<1>0. /\ UNCHANGED <<sm, cur, loop, phase, tails, landed, reported>>
      /\ requestQueue' = AbortHandler(r) /\ promise' = AbortPromise(r)
      /\ promise \in [Requests -> Promises] /\ Distinct(requestQueue)
  BY DEF Abort, loopVars, callVars, historyVars, TypeOK, ResultInv, PromiseInv, Distinct
<1>1. /\ Distinct(requestQueue')
      /\ \A x \in Requests : x \in ToSet(requestQueue') <=> x \in ToSet(requestQueue) /\ x # r
  BY <1>0, AbortLine
<1>2. \A x \in Requests : promise'[x] = IF x = r /\ promise[r] = "queued" THEN "rejected"
                                                                        ELSE promise[x]
  BY <1>0 DEF AbortPromise
<1>3. PromiseInv'
  <2>1. \A x \in Requests : promise'[x] = "running" <=> loop' # "idle" /\ x = cur'
    BY <1>0, <1>2 DEF ResultInv, PromiseInv
  <2>2. \A x \in Requests : promise'[x] = "queued" <=> x \in ToSet(requestQueue')
    BY <1>1, <1>2 DEF ResultInv, PromiseInv
  <2>3. \A x \in Requests : promise'[x] \in {"new", "queued"} => Fresh(x)'
    BY <1>0, <1>2 DEF ResultInv, PromiseInv, Fresh
  <2>. QED BY <1>1, <2>1, <2>2, <2>3 DEF PromiseInv, Fresh, Distinct
<1>4. OneResultPerCall'
  BY <1>0, <1>2 DEF ResultInv, OneResultPerCall
<1>. QED BY <1>0, <1>3, <1>4 DEF ResultInv

(***************************************************************************)
(* The rounds of the loop.                                                 *)
(***************************************************************************)
LEMMA LoopResults ==
  ASSUME TypeOK, RestInv, ResultInv, LoopTop \/ Validated \/ Executed \/ TimerFires
  PROVE  ResultInv'
<1>. USE DEF loopVars, hostVars, callVars, historyVars
<1>0. /\ UNCHANGED <<cur, hostVars, tails, landed, reported>> /\ loop # "idle"
      /\ sm \in Manager /\ phase \in [Calls -> Phase]
      /\ loop = "top" => QueueOK(sm) /\ sm.active = {} /\ AllDone
  BY DEF LoopTop, Validated, Executed, TimerFires, TypeOK, RestInv, WaveInv, Between,
         AllDone
<1>. DEFINE B == ToSet(BatchOf[cur])
<1>1. AccountedIn(sm, B)
  BY <1>0 DEF ResultInv
<1>2. ASSUME loop' # "idle", AccountedIn(sm', B),
             \A c \in Calls : phase'[c] # "done" => c \in B,
             \A c \in Calls : c \notin B => sm'.status[c] = sm.status[c]
      PROVE  ResultInv'
  BY <1>0, <1>2, SameHostResults
<1>. HIDE DEF B
<1>3. CASE LoopTop
  <2>1. ProcessQueue(sm, cur, isCancelling) /\ loop = "top"
    BY <1>3 DEF LoopTop
  <2>2. /\ AccountedIn(sm', B)
        /\ \A c \in Calls : c \notin Queued(sm) => sm'.status[c] = sm.status[c]
        /\ \A c \in Calls : phase'[c] # "done" => c \in Queued(sm)
    BY <1>0, <1>1, <2>1, ProcessQueueAccounts
  <2>3. \A c \in Calls : c \in Queued(sm) => c \in B
    BY <1>1 DEF AccountedIn
  <2>4. loop' # "idle"
    BY <1>0, <2>1, ProcessQueueRest
  <2>. QED BY <1>2, <2>2, <2>3, <2>4
<1>4. \A c \in Calls : c \in sm.active => c \in B
  BY <1>1 DEF AccountedIn
<1>5. CASE Validated
  <2>1. ExecuteWave(sm, cur, initial) /\ AllDone
    BY <1>5 DEF Validated, AllDone
  <2>2. /\ AccountedIn(sm', B) /\ loop' # "idle"
        /\ \A c \in Calls : sm'.status[c] = sm.status[c] \/ c \in sm.active
        /\ \A c \in Calls : phase'[c] # "done" => c \in sm.active
    BY <1>0, <1>1, <2>1, ExecuteWaveAccounts
  <2>. QED BY <1>2, <1>4, <2>2
<1>6. CASE Executed
  <2>1. FinalizeWave(sm, madeProgress, initial) /\ AllDone
    BY <1>6 DEF Executed, AllDone
  <2>2. /\ AccountedIn(sm', B) /\ sm'.status = sm.status
        /\ phase' = phase /\ loop' # "idle"
    BY <1>0, <1>1, <2>1, FinalizeWaveAccounts
  <2>. QED BY <1>2, <2>1, <2>2 DEF AllDone
<1>7. CASE TimerFires
  <2>1. sm' = sm /\ phase' = phase /\ loop' # "idle"
    BY <1>7 DEF TimerFires
  <2>2. \A c \in Calls : phase[c] # "done" => c \in B
    BY DEF ResultInv, B
  <2>. QED BY <1>1, <1>2, <2>1, <2>2
<1>. QED BY <1>3, <1>5, <1>6, <1>7

(***************************************************************************)
(* Each call of a batch in progress is queued, or active, or reported      *)
(* once, and the promises tell what the request queue and the loop tell.   *)
(***************************************************************************)
THEOREM ResultInvHolds ==
  ASSUME LateOutput = FALSE
  PROVE  Spec => []ResultInv
<1>1. Init => ResultInv
  <2>. SUFFICES ASSUME Init PROVE ResultInv
    OBVIOUS
  <2>1. /\ requestQueue = <<>> /\ ToSet(requestQueue) = {} /\ loop = "idle"
        /\ \A r \in Requests : promise[r] = "new"
        /\ \A c \in Calls : phase[c] = "done"
    BY DEF Init, ToSet
  <2>2. \A r \in Requests : Fresh(r)
    BY BatchCalls DEF Init, EmptyManager, Fresh
  <2>3. PromiseInv
    BY <2>1, <2>2 DEF PromiseInv, Fresh
  <2>. QED BY <2>1, <2>3 DEF ResultInv, OneResultPerCall
<1>2. TypeOK /\ RestInv /\ ResultInv /\ [Next]_vars => ResultInv'
  <2>. SUFFICES ASSUME TypeOK, RestInv, ResultInv, [Next]_vars PROVE ResultInv'
    OBVIOUS
  <2>1. ASSUME NEW r \in Requests, Schedule(r) PROVE ResultInv'
    BY <2>1, ScheduleResults
  <2>2. CASE LoopTop \/ Validated \/ Executed \/ TimerFires
    BY <2>2, LoopResults
  <2>3. CASE FinishBatch
    BY <2>3, FinishBatchResults
  <2>4. CASE CancelAll
    BY <2>4, CancelAllResults DEF CancelAll
  <2>5. ASSUME NEW r \in Requests, Abort(r) PROVE ResultInv'
    BY <2>5, AbortResults
  <2>6. ASSUME NEW r \in Requests, UserCancel(r) PROVE ResultInv'
    BY <2>6, RunningNotInLine, CancelAllResults DEF UserCancel
  <2>7. ASSUME NEW c \in Calls,
               \/ CallSteps(c) \/ ValidationThrows(c)
               \/ \E outcome \in {"proceed", "cancel", "modify"} : Answer(c, outcome)
        PROVE  ResultInv'
    BY <2>7, CallStepMoves, CallMoveResults
  <2>8. CASE UNCHANGED vars
    BY <2>8 DEF vars, loopVars, hostVars, callVars, historyVars, ResultInv, PromiseInv,
                OneResultPerCall
  <2>. QED BY <2>1, <2>2, <2>3, <2>4, <2>5, <2>6, <2>7, <2>8
           DEF Next, LoopSteps, HostSteps, LateOutputArrives
<1>. QED BY <1>1, <1>2, TypeCorrect, RestInvHolds, PTL DEF Spec

(***************************************************************************)
(* Without late output a resolved schedule() has exactly one result for    *)
(* each of its calls, whatever was cancelled, refused, thrown or replaced. *)
(***************************************************************************)
THEOREM EveryCallHasOneResult ==
  ASSUME LateOutput = FALSE
  PROVE  Spec => []OneResultPerCall
<1>1. ResultInv => OneResultPerCall
  BY DEF ResultInv
<1>. QED BY <1>1, ResultInvHolds, PTL
-----------------------------------------------------------------------------
(***************************************************************************)
(* The contract of schedule(): every step of the scheduler is a step of    *)
(* BatchContract or a stutter.                                             *)
(***************************************************************************)
LEMMA ContractElements == \A s : Batches!ToSet(s) = ToSet(s)
BY DEF Batches!ToSet, ToSet

LEMMA ScheduleKeepsContract ==
  ASSUME TypeOK, RestInv, ResultInv, NEW r \in Requests, Schedule(r)
  PROVE  Batches!ContractNext
<1>0. promise[r] = "new" /\ reported' = reported /\ promise \in [Requests -> Promises]
  BY DEF Schedule, TypeOK
<1>1. CASE ~isProcessing /\ sm.active = {}
  <2>1. loop = "idle" /\ requestQueue = <<>>
    BY <1>1 DEF RestInv
  <2>2. /\ promise' = [promise EXCEPT ![r] = "running"] /\ requestQueue' = requestQueue
    BY <1>1 DEF Schedule, StartBatch
  <2>3. Batches!Running = {}
    BY <2>1 DEF Batches!Running, ResultInv, PromiseInv
  <2>4. Batches!Begin(r)
    BY <1>0, <2>1, <2>2, <2>3 DEF Batches!Begin
  <2>. QED BY <2>4 DEF Batches!ContractNext
<1>2. CASE isProcessing \/ sm.active # {}
  <2>1. loop # "idle" /\ cur \in Requests
    BY <1>2 DEF RestInv, WaveInv, Between, TypeOK
  <2>2. EnqueueRequest(requestQueue, promise, r)
    BY <1>1, <1>2 DEF Schedule
  <2>3. Batches!Running # {}
    BY <2>1 DEF Batches!Running, ResultInv, PromiseInv
  <2>4. CASE r \in aborted
    <3>1. Batches!Refuse(r)
      BY <1>0, <2>2, <2>3, <2>4 DEF Batches!Refuse, EnqueueRequest
    <3>. QED BY <3>1 DEF Batches!ContractNext
  <2>5. CASE r \notin aborted
    <3>1. Batches!Wait(r)
      BY <1>0, <2>2, <2>3, <2>5 DEF Batches!Wait, EnqueueRequest
    <3>. QED BY <3>1 DEF Batches!ContractNext
  <2>. QED BY <2>4, <2>5
<1>. QED BY <1>1, <1>2

LEMMA FinishBatchKeepsContract ==
  ASSUME TypeOK, RestInv, ResultInv, FinishBatch
  PROVE  Batches!ContractNext
<1>. DEFINE p == [promise EXCEPT ![cur] = "resolved"]
<1>1. /\ loop = "stop" /\ sm.active = {} /\ sm.queue = <<>> /\ cur \in Requests
      /\ promise[cur] = "running" /\ reported \in [Calls -> Nat]
  BY DEF FinishBatch, RestInv, WaveInv, Between, TypeOK, ResultInv, PromiseInv
<1>2. cur \in Batches!Running
  BY <1>1 DEF Batches!Running
<1>3. reported' = [c \in Calls |-> IF c \in ToSet(BatchOf[cur]) THEN 1 ELSE reported[c]]
  <2>1. \A c \in ToSet(BatchOf[cur]) : c \in Calls /\ sm.completed[c] = 1
    <3>1. ASSUME NEW c \in ToSet(BatchOf[cur]) PROVE c \in Calls /\ sm.completed[c] = 1
      <4>1. c \in Calls
        BY <1>1, BatchCalls
      <4>2. c \notin Queued(sm)
        BY <1>1 DEF Queued, ToSet
      <4>. QED BY <1>1, <4>1, <4>2 DEF ResultInv, AccountedIn
    <3>. QED BY <3>1
  <2>2. reported' = [c \in Calls |-> IF c \in ToSet(BatchOf[cur])
                                      THEN sm.completed[c] ELSE reported[c]]
    BY DEF FinishBatch
  <2>. QED BY <2>1, <2>2
<1>4. \/ /\ requestQueue = <<>> /\ promise' = p /\ requestQueue' = requestQueue
      \/ /\ requestQueue # <<>> /\ requestQueue' = Tail(requestQueue)
         /\ promise' = [p EXCEPT ![Head(requestQueue)] = "running"]
  BY <1>1 DEF FinishBatch, StartBatch
<1>5. Batches!Resolve(cur)
  BY <1>2, <1>3, <1>4, ContractElements DEF Batches!Resolve
<1>. QED BY <1>1, <1>5 DEF Batches!ContractNext

LEMMA CancelAllKeepsContract ==
  ASSUME TypeOK, ResultInv, CancelAllFrom(requestQueue, promise)
  PROVE  Batches!ContractNext \/ UNCHANGED <<promise, requestQueue, reported>>
<1>0. /\ reported' = reported /\ promise \in [Requests -> Promises]
      /\ requestQueue \in Seq(Requests)
  BY DEF CancelAllFrom, TypeOK
<1>1. CASE isCancelling
  BY <1>0, <1>1 DEF CancelAllFrom
<1>2. CASE ~isCancelling
  <2>. DEFINE S == ToSet(requestQueue)
  <2>1. /\ requestQueue' = <<>>
        /\ promise' = [r \in Requests |-> IF r \in S THEN "rejected" ELSE promise[r]]
    BY <1>2 DEF CancelAllFrom
  <2>2. \A x : x \in S <=> \E i \in 1..Len(requestQueue) : requestQueue[i] = x
    BY <1>0, ToSetIs
  <2>3. S \subseteq Requests
    BY <1>0, <2>2, ElementOfSeq
  <2>. HIDE DEF S
  <2>4. CASE S = {}
    <3>1. promise' = promise
      BY <1>0, <2>1, <2>4
    <3>2. Len(requestQueue) = 0
      <4>1. ASSUME Len(requestQueue) # 0 PROVE FALSE
        <5>1. 1 \in 1..Len(requestQueue)
          BY <1>0, <4>1
        <5>2. requestQueue[1] \in S
          BY <2>2, <5>1
        <5>. QED BY <2>4, <5>2
      <4>. QED BY <4>1
    <3>3. requestQueue = <<>>
      BY <1>0, <3>2, EmptySeq
    <3>. QED BY <1>0, <2>1, <3>1, <3>3
  <2>5. CASE S # {}
    <3>1. Batches!Remains(<<>>, requestQueue, S)
      <4>. DEFINE at == [x \in {} |-> x]
      <4>1. DOMAIN <<>> = {} /\ DOMAIN requestQueue = 1..Len(requestQueue)
        BY <1>0
      <4>2. at \in [DOMAIN <<>> -> DOMAIN requestQueue]
        BY <4>1
      <4>3. \A k \in DOMAIN requestQueue : requestQueue[k] \in S
        BY <1>0, <2>2
      <4>. QED BY <4>1, <4>2, <4>3 DEF Batches!Remains
    <3>2. <<>> \in Seq(Requests)
      BY EmptySeq
    <3>3. Batches!Drop(S)
      BY <1>0, <2>1, <2>5, <3>1, <3>2, ContractElements DEF Batches!Drop, S
    <3>. QED BY <2>3, <3>3 DEF Batches!ContractNext
  <2>. QED BY <2>4, <2>5
<1>. QED BY <1>1, <1>2

LEMMA AbortKeepsContract ==
  ASSUME TypeOK, ResultInv, NEW r \in Requests, Abort(r)
  PROVE  Batches!ContractNext \/ UNCHANGED <<promise, requestQueue, reported>>
<1>. DEFINE q == requestQueue
            k == CHOOSE i \in DOMAIN requestQueue : requestQueue[i] = r
            n == RemoveAt(q, k)
<1>0. /\ reported' = reported /\ promise \in [Requests -> Promises]
      /\ q \in Seq(Requests) /\ Len(q) \in Nat
      /\ requestQueue' = AbortHandler(r) /\ promise' = AbortPromise(r)
      /\ promise[r] = "queued" <=> r \in ToSet(q)
      /\ \A i, j \in 1..Len(q) : q[i] = q[j] => i = j
  BY DEF Abort, historyVars, TypeOK, ResultInv, PromiseInv
<1>1. CASE r \notin ToSet(q)
  BY <1>0, <1>1 DEF AbortHandler, AbortPromise
<1>2. CASE r \in ToSet(q)
  <2>1. k \in 1..Len(q) /\ q[k] = r
    BY <1>0, <1>2, ToSetIs
  <2>2. /\ requestQueue' = n
        /\ promise' = [promise EXCEPT ![r] = "rejected"]
    BY <1>0, <1>2 DEF AbortHandler, AbortPromise
  <2>. HIDE DEF k
  <2>3. /\ n \in Seq(Requests) /\ Len(n) = Len(q) - 1
        /\ \A i \in 1..(Len(q) - 1) : n[i] = IF i < k THEN q[i] ELSE q[i + 1]
    BY <1>0, <2>1, RemoveAtElements, RemoveAtType
  <2>. HIDE DEF n, q
  <2>4. Batches!Remains(n, q, {r})
    <3>. DEFINE at == [i \in 1..Len(n) |-> IF i < k THEN i ELSE i + 1]
    <3>1. DOMAIN n = 1..Len(n) /\ DOMAIN q = 1..Len(q)
      BY <1>0, <2>3
    <3>2. at \in [1..Len(n) -> 1..Len(q)]
      BY <1>0, <2>1, <2>3
    <3>3. \A i \in 1..Len(n) : at[i] = IF i < k THEN i ELSE i + 1
      OBVIOUS
    <3>. HIDE DEF at
    <3>4. \A i, j \in 1..Len(n) : i < j => at[i] < at[j]
      BY <1>0, <2>1, <2>3, <3>3
    <3>5. \A i \in 1..Len(n) : n[i] = q[at[i]] /\ at[i] # k
      BY <1>0, <2>1, <2>3, <3>3
    <3>6. \A i \in 1..Len(n) : n[i] # r
      BY <1>0, <2>1, <3>2, <3>5
    <3>7. ASSUME NEW y \in 1..Len(q), q[y] # r PROVE \E i \in 1..Len(n) : at[i] = y
      <4>1. y # k
        BY <2>1, <3>7
      <4>2. CASE y < k
        <5>1. y \in 1..Len(n) /\ at[y] = y
          BY <1>0, <2>1, <2>3, <3>3, <4>2
        <5>. QED BY <5>1
      <4>3. CASE y > k
        <5>1. y - 1 \in 1..Len(n) /\ ~(y - 1 < k) /\ (y - 1) + 1 = y
          BY <1>0, <2>1, <2>3, <4>3
        <5>. QED BY <3>3, <5>1
      <4>. QED BY <1>0, <2>1, <4>1, <4>2, <4>3
    <3>. QED BY <3>1, <3>2, <3>4, <3>5, <3>6, <3>7 DEF Batches!Remains
  <2>5. promise' = [x \in Requests |-> IF x \in {r} THEN "rejected" ELSE promise[x]]
    BY <1>0, <2>2
  <2>6. Batches!Drop({r})
    BY <1>0, <1>2, <2>2, <2>3, <2>4, <2>5, ContractElements DEF Batches!Drop, q
  <2>. QED BY <2>6 DEF Batches!ContractNext
<1>. QED BY <1>1, <1>2

(***************************************************************************)
(* Without late output the scheduler keeps the contract of schedule(): one *)
(* batch at a time, waiting requests in order, rejection only before the   *)
(* start, and otherwise one resolution with one result per call.           *)
(***************************************************************************)
THEOREM SchedulerKeepsBatchContract ==
  ASSUME LateOutput = FALSE
  PROVE  Spec => KeepsBatchContract
<1>. USE DEF loopVars, hostVars, callVars, historyVars
<1>1. Init => Batches!ContractInit
  BY DEF Init, Batches!ContractInit
<1>2. TypeOK /\ RestInv /\ ResultInv /\ [Next]_vars
        => [Batches!ContractNext]_(Batches!contractVars)
  <2>. SUFFICES ASSUME TypeOK, RestInv, ResultInv, [Next]_vars
                PROVE  Batches!ContractNext \/ UNCHANGED <<promise, requestQueue, reported>>
    BY DEF Batches!contractVars
  <2>1. ASSUME NEW r \in Requests, Schedule(r) PROVE Batches!ContractNext
    BY <2>1, ScheduleKeepsContract
  <2>2. CASE LoopTop \/ Validated \/ Executed \/ TimerFires
    BY <2>2 DEF LoopTop, Validated, Executed, TimerFires
  <2>3. CASE FinishBatch
    BY <2>3, FinishBatchKeepsContract
  <2>4. CASE CancelAll
    BY <2>4, CancelAllKeepsContract DEF CancelAll
  <2>5. ASSUME NEW r \in Requests, Abort(r)
        PROVE  Batches!ContractNext \/ UNCHANGED <<promise, requestQueue, reported>>
    BY <2>5, AbortKeepsContract
  <2>6. ASSUME NEW r \in Requests, UserCancel(r)
        PROVE  Batches!ContractNext \/ UNCHANGED <<promise, requestQueue, reported>>
    BY <2>6, RunningNotInLine, CancelAllKeepsContract DEF UserCancel
  <2>7. ASSUME NEW c \in Calls,
               \/ CallSteps(c) \/ ValidationThrows(c)
               \/ \E outcome \in {"proceed", "cancel", "modify"} : Answer(c, outcome)
        PROVE  UNCHANGED <<promise, requestQueue, reported>>
    BY <2>7, CallStepMoves DEF CallMoves
  <2>8. CASE UNCHANGED vars
    BY <2>8 DEF vars
  <2>. QED BY <2>1, <2>2, <2>3, <2>4, <2>5, <2>6, <2>7, <2>8
           DEF Next, LoopSteps, HostSteps, LateOutputArrives
<1>. QED BY <1>1, <1>2, TypeCorrect, RestInvHolds, ResultInvHolds, PTL
         DEF Spec, KeepsBatchContract, Batches!Contract

(***************************************************************************)
(* What was decided stands, with late output or without.  An operation on  *)
(* the manager keeps the status of every decided call and does not touch a *)
(* call that is neither queued nor active.                                 *)
(***************************************************************************)
Keeps(m, n) ==
  \A c \in Calls :
    /\ IsTerminal(m, c) => n.status[c] = m.status[c]
    /\ c \notin m.active /\ c \notin Queued(m) =>
         c \notin n.active /\ c \notin Queued(n) /\ n.status[c] = m.status[c]

LEMMA QueuedCalls ==
  ASSUME NEW m \in Manager, QueueOK(m), NEW c \in Calls, c \in Queued(m)
  PROVE  c \notin m.active /\ m.status[c] \in {"validating", "error"}
<1>1. PICK i \in 1..Len(m.queue) : m.queue[i] = c
  BY QueuedIs
<1>. QED BY <1>1 DEF QueueOK

LEMMA CancelQueueStands ==
  ASSUME NEW m \in Manager, QueueOK(m)
  PROVE  \A c \in Calls : IsTerminal(m, c) \/ c \in m.active
                              => CancelAllQueued(m).status[c] = m.status[c]
<1>1. ASSUME NEW c \in Calls, IsTerminal(m, c) \/ c \in m.active
      PROVE  CancelAllQueued(m).status[c] = m.status[c]
  <2>1. c \in Queued(m) => m.status[c] = "error"
    BY <1>1, QueuedCalls DEF IsTerminal, Terminal
  <2>. QED BY <2>1, CancelAllQueuedFacts
<1>. QED BY <1>1

LEMMA FinalizeKeeps ==
  ASSUME NEW m \in Manager, NEW at, DecidedIn(m, at), NEW S
  PROVE  LET n == FinalizeCalls(m, S) IN
         /\ n \in Manager /\ DecidedIn(n, at) /\ Keeps(m, n)
         /\ n.queue = m.queue /\ n.active \subseteq m.active /\ n.status = m.status
<1>. DEFINE n == FinalizeCalls(m, S)
            done == S \cap TerminalActive(m)
<1>1. done \subseteq m.active /\ m.active \subseteq Calls
  BY DEF TerminalActive, Manager
<1>. HIDE DEF done
<1>2. /\ n \in Manager /\ n.queue = m.queue /\ n.active = m.active \ done
      /\ n.status = m.status
      /\ \A c \in Calls : n.completed[c] = IF c \in done THEN m.completed[c] + 1
                                                         ELSE m.completed[c]
  BY FinalizeCallsType DEF FinalizeCalls, Report, Manager, done
<1>. HIDE DEF n
<1>3. Queued(n) = Queued(m)
  BY <1>2 DEF Queued
<1>4. QueueOK(m) /\ QueueOK(n)
  BY <1>2, SameQueueOK DEF DecidedIn
<1>5. \A c \in Calls : c \in Queued(m) => c \notin m.active
  BY <1>4, QueuedCalls
<1>6. DecidedIn(n, at)
  BY <1>1, <1>2, <1>3, <1>4, <1>5 DEF DecidedIn, IsTerminal
<1>7. Keeps(m, n)
  BY <1>2, <1>3 DEF Keeps
<1>. QED BY <1>2, <1>6, <1>7 DEF n

LEMMA CancelQueueKeeps ==
  ASSUME NEW m \in Manager, NEW at, DecidedIn(m, at)
  PROVE  /\ CancelAllQueued(m) \in Manager /\ DecidedIn(CancelAllQueued(m), at)
         /\ Keeps(m, CancelAllQueued(m)) /\ CancelAllQueued(m).active = m.active
<1>. DEFINE n == CancelAllQueued(m)
<1>1. /\ n \in Manager /\ n.queue = <<>> /\ Queued(n) = {} /\ n.active = m.active
      /\ \A c \in Calls :
           /\ n.completed[c] = IF c \in Queued(m) THEN m.completed[c] + 1
                                                  ELSE m.completed[c]
           /\ n.status[c] = IF c \in Queued(m) /\ m.status[c] # "error"
                            THEN "cancelled" ELSE m.status[c]
  BY CancelAllQueuedFacts, CancelAllQueuedType
<1>2. /\ QueueOK(m) /\ m.active \subseteq Calls
      /\ \A c \in Calls : IsTerminal(m, c) \/ c \in m.active => n.status[c] = m.status[c]
  BY CancelQueueStands DEF DecidedIn, Manager
<1>. HIDE DEF n
<1>3. QueueOK(n)
  BY <1>1, EmptyQueueOK
<1>4. \A c \in Calls : c \in Queued(m) => c \notin m.active
  BY <1>2, QueuedCalls
<1>5. DecidedIn(n, at)
  BY <1>1, <1>2, <1>3, <1>4 DEF DecidedIn, IsTerminal
<1>6. Keeps(m, n)
  BY <1>1, <1>2 DEF Keeps
<1>. QED BY <1>1, <1>5, <1>6 DEF n

LEMMA DequeueKeeps ==
  ASSUME NEW m \in Manager, NEW at, DecidedIn(m, at), m.active = {},
         NEW k \in 1..Len(m.queue)
  PROVE  LET n == Dequeue(m, k) IN
         /\ n \in Manager /\ DecidedIn(n, at) /\ Keeps(m, n)
         /\ n.status = m.status /\ \A c \in Calls : c \in n.active => c \in Queued(m)
<1>. DEFINE n == Dequeue(m, k)
<1>1. /\ n \in Manager /\ QueueOK(n) /\ n.status = m.status /\ n.completed = m.completed
      /\ n.active \subseteq Calls
      /\ \A c \in n.active : m.status[c] \in {"validating", "error"}
  BY DequeueType, DequeueOK DEF DecidedIn, Dequeue, Manager
<1>2. \A c \in Calls : c \in Queued(m) <=> c \in Queued(n) \/ c \in n.active
  BY DequeueMoves DEF DecidedIn
<1>. HIDE DEF n
<1>3. DecidedIn(n, at)
  BY <1>1, <1>2 DEF DecidedIn
<1>4. Keeps(m, n)
  BY <1>1, <1>2 DEF Keeps
<1>. QED BY <1>1, <1>2, <1>3, <1>4 DEF n

LEMMA UpdateKeeps ==
  ASSUME NEW m \in Manager, NEW at, DecidedIn(m, at), NEW c \in Calls, at[c] # "done",
         NEW status \in Status, NEW then, \A d \in Calls \ {c} : then[d] = at[d],
         then[c] # "done" => status \notin Terminal
  PROVE  LET n == UpdateStatus(m, c, status) IN
         n \in Manager /\ DecidedIn(n, then) /\ Keeps(m, n)
<1>. DEFINE n == UpdateStatus(m, c, status)
<1>1. /\ n \in Manager /\ n.queue = m.queue /\ n.active = m.active
      /\ n.completed = m.completed
      /\ \A d \in Calls \ {c} : n.status[d] = m.status[d]
      /\ c \in m.active => n.status[c] = status
      /\ c \notin m.active => n.status[c] = m.status[c]
  BY UpdateStatusType DEF UpdateStatus, Manager
<1>2. m.active \subseteq Calls /\ c \notin Queued(m) /\ QueueOK(m)
  BY DEF DecidedIn, Manager
<1>. HIDE DEF n
<1>3. Queued(n) = Queued(m)
  BY <1>1 DEF Queued
<1>4. QueueOK(n)
  BY <1>1, <1>2, SameQueueOK
<1>5. c \in m.active => ~IsTerminal(m, c)
  BY DEF DecidedIn
<1>6. DecidedIn(n, then)
  BY <1>1, <1>2, <1>3, <1>4, <1>5 DEF DecidedIn, IsTerminal
<1>7. Keeps(m, n)
  BY <1>1, <1>3, <1>5 DEF Keeps
<1>. QED BY <1>1, <1>6, <1>7 DEF n

LEMMA TailCallKeeps ==
  ASSUME NEW m \in Manager, NEW at, DecidedIn(m, at), NEW c \in Calls, at[c] # "done",
         NEW status \in {"validating", "error"},
         NEW then, \A d \in Calls \ {c} : then[d] = at[d], then[c] = "done"
  PROVE  LET n == ReplaceActiveCallWithTailCall(m, c, status) IN
         n \in Manager /\ DecidedIn(n, then) /\ Keeps(m, n)
<1>. DEFINE n == ReplaceActiveCallWithTailCall(m, c, status)
<1>0. /\ QueueOK(m) /\ QueueOK(n) /\ n \in Manager /\ m.active \subseteq Calls
      /\ \A d \in Calls : d \in Queued(m) => d \notin m.active
      /\ c \in m.active => ~IsTerminal(m, c) /\ m.completed[c] = 0
  <2>1. QueueOK(m) /\ status \in Status
    <3>1. QueueOK(m)
      BY DEF DecidedIn
    <3>2. status \in Status
      BY DEF Status, Terminal
    <3>. QED BY <3>1, <3>2
  <2>2. QueueOK(n) /\ n \in Manager
    BY <2>1, TailCallOK, ReplaceActiveCallType
  <2>3. \A d \in Calls : d \in Queued(m) => d \notin m.active
    BY <2>1, QueuedCalls
  <2>4. /\ m.active \subseteq Calls
        /\ c \in m.active => ~IsTerminal(m, c) /\ m.completed[c] = 0
    BY DEF DecidedIn, Manager
  <2>. QED BY <2>1, <2>2, <2>3, <2>4
<1>1. CASE c \notin m.active
  <2>1. n = m
    BY <1>1 DEF ReplaceActiveCallWithTailCall
  <2>2. DecidedIn(m, then)
    BY <1>0, <1>1 DEF DecidedIn
  <2>. QED BY <1>0, <2>1, <2>2 DEF Keeps
<1>2. CASE c \in m.active
  <2>1. /\ n.active = m.active \ {c} /\ n.completed = m.completed
        /\ \A d \in Calls \ {c} : n.status[d] = m.status[d]
    BY <1>2 DEF ReplaceActiveCallWithTailCall, Manager
  <2>2. \A d \in Calls : d \in Queued(n) <=> d = c \/ d \in Queued(m)
    BY <1>2, TailCallMoves
  <2>. HIDE DEF n
  <2>3. DecidedIn(n, then)
    BY <1>0, <1>2, <2>1, <2>2 DEF DecidedIn, IsTerminal
  <2>4. Keeps(m, n)
    BY <1>0, <1>2, <2>1, <2>2 DEF Keeps
  <2>. QED BY <1>0, <2>3, <2>4 DEF n
<1>. QED BY <1>1, <1>2

\* A batch is queued behind what the queue may still hold.
LEMMA EnqueueDecided ==
  ASSUME NEW m \in Manager, NEW at, DecidedIn(m, at), NEW r \in Requests,
         NEW failed \in SUBSET ToSet(BatchOf[r]),
         \A c \in ToSet(BatchOf[r]) :
           /\ m.status[c] = "new" /\ c \notin m.active
           /\ at[c] = "done" /\ m.completed[c] = 0
  PROVE  LET n == Enqueue(m, SortedBatch(r), failed) IN
         /\ n \in Manager /\ DecidedIn(n, at) /\ n.active = m.active
         /\ \A c \in Calls : c \notin ToSet(BatchOf[r]) =>
              /\ n.status[c] = m.status[c]
              /\ c \in Queued(n) <=> c \in Queued(m)
<1>. DEFINE b == SortedBatch(r)
            q == m.queue
            B == ToSet(BatchOf[r])
            n == Enqueue(m, b, failed)
<1>1. /\ b \in Seq(Calls) /\ q \in Seq(Calls) /\ Len(b) \in Nat /\ Len(q) \in Nat
      /\ \A c : c \in B <=> \E i \in 1..Len(b) : b[i] = c
  <2>1. b \in Seq(Calls) /\ q \in Seq(Calls)
    BY SortedBatchType DEF Manager
  <2>. QED BY <2>1, ToSetIs, SortedBatchElements
<1>2. /\ n \in Manager /\ n.queue = q \o b /\ n.active = m.active
      /\ n.completed = m.completed
      /\ \A c \in Calls : n.status[c] = IF c \in failed THEN "error"
                                        ELSE IF c \in B THEN "validating" ELSE m.status[c]
  <2>1. n \in Manager
    BY <1>1, EnqueueType
  <2>2. ToSet(b) = B
    BY SortedBatchElements
  <2>. HIDE DEF b, B
  <2>3. /\ n.queue = q \o b /\ n.active = m.active /\ n.completed = m.completed
        /\ n.status = [c \in Calls |-> IF c \in failed THEN "error"
                                       ELSE IF c \in B THEN "validating" ELSE m.status[c]]
    BY <2>2 DEF Enqueue, Manager
  <2>. QED BY <2>1, <2>3
<1>3. /\ Len(n.queue) = Len(q) + Len(b)
      /\ \A i \in 1..Len(n.queue) : n.queue[i] = IF i <= Len(q) THEN q[i] ELSE b[i - Len(q)]
  BY <1>1, <1>2, ConcatProperties
<1>4. \A i \in 1..Len(q) : /\ q[i] \in Calls /\ q[i] \notin m.active /\ q[i] \notin B
                           /\ m.status[q[i]] \in {"validating", "error"}
                           /\ \A j \in 1..Len(q) : q[i] = q[j] => i = j
  BY <1>1, ElementOfSeq DEF DecidedIn, QueueOK
<1>5. \A i \in 1..Len(b) : /\ b[i] \in Calls /\ b[i] \in B /\ b[i] \notin m.active
                           /\ \A j \in 1..Len(b) : b[i] = b[j] => i = j
  BY <1>1, ElementOfSeq, SortedBatchDistinct
<1>6. \A c : c \in Queued(n) <=> \E i \in 1..Len(n.queue) : n.queue[i] = c
  <2>1. n.queue \in Seq(Calls)
    BY <1>2 DEF Manager
  <2>. QED BY <2>1, ToSetIs DEF Queued
<1>7. \A c : c \in Queued(m) <=> \E i \in 1..Len(q) : q[i] = c
  BY <1>1, ToSetIs DEF Queued
<1>0. failed \subseteq B /\ \A c \in Calls : c \in B => c \notin m.active
  OBVIOUS
<1>. HIDE DEF n, b, q, B
<1>8. \A i \in 1..Len(n.queue) :
        \/ i \in 1..Len(q) /\ n.queue[i] = q[i] /\ n.queue[i] \notin B
        \/ /\ ~(i <= Len(q)) /\ i - Len(q) \in 1..Len(b)
           /\ n.queue[i] = b[i - Len(q)] /\ n.queue[i] \in B
  <2>1. ASSUME NEW i \in 1..Len(n.queue), i <= Len(q)
        PROVE  i \in 1..Len(q) /\ n.queue[i] = q[i] /\ n.queue[i] \notin B
    BY <1>1, <1>3, <1>4, <2>1
  <2>2. ASSUME NEW i \in 1..Len(n.queue), ~(i <= Len(q))
        PROVE  /\ i - Len(q) \in 1..Len(b)
               /\ n.queue[i] = b[i - Len(q)] /\ n.queue[i] \in B
    <3>1. i - Len(q) \in 1..Len(b) /\ n.queue[i] = b[i - Len(q)]
      BY <1>1, <1>3, <2>2
    <3>. QED BY <1>5, <3>1
  <2>. QED BY <2>1, <2>2
<1>9. \A c \in Calls : c \in Queued(n) <=> c \in Queued(m) \/ c \in B
  <2>1. ASSUME NEW c \in Calls, c \in Queued(n) PROVE c \in Queued(m) \/ c \in B
    BY <1>5, <1>6, <1>7, <1>8, <2>1
  <2>2. ASSUME NEW c \in Calls, c \in Queued(m) PROVE c \in Queued(n)
    <3>1. PICK i \in 1..Len(q) : q[i] = c
      BY <1>7, <2>2
    <3>2. i \in 1..Len(n.queue) /\ n.queue[i] = c
      BY <1>1, <1>3, <3>1
    <3>. QED BY <1>6, <3>2
  <2>3. ASSUME NEW c \in Calls, c \in B PROVE c \in Queued(n)
    <3>1. PICK i \in 1..Len(b) : b[i] = c
      BY <1>1, <2>3
    <3>2. /\ i + Len(q) \in 1..Len(n.queue) /\ (i + Len(q)) - Len(q) = i
          /\ ~(i + Len(q) <= Len(q))
      BY <1>1, <1>3
    <3>3. n.queue[i + Len(q)] = c
      BY <1>3, <3>1, <3>2
    <3>. QED BY <1>6, <3>2, <3>3
  <2>. QED BY <2>1, <2>2, <2>3
<1>10. QueueOK(n)
  <2>1. ASSUME NEW i \in 1..Len(n.queue)
        PROVE  n.queue[i] \notin n.active /\ n.status[n.queue[i]] \in {"validating", "error"}
    <3>1. CASE i \in 1..Len(q) /\ n.queue[i] = q[i] /\ n.queue[i] \notin B
      BY <1>0, <1>2, <1>4, <3>1
    <3>2. CASE n.queue[i] \in B /\ \E j \in 1..Len(b) : n.queue[i] = b[j]
      BY <1>0, <1>2, <1>5, <3>2
    <3>. QED BY <1>8, <3>1, <3>2
  <2>2. ASSUME NEW i \in 1..Len(n.queue), NEW j \in 1..Len(n.queue),
               n.queue[i] = n.queue[j]
        PROVE  i = j
    <3>1. CASE i \in 1..Len(q) /\ n.queue[i] = q[i] /\ n.queue[i] \notin B
      <4>1. j \in 1..Len(q) /\ n.queue[j] = q[j]
        BY <1>8, <2>2, <3>1
      <4>2. q[i] = q[j] /\ \A x, y \in 1..Len(q) : q[x] = q[y] => x = y
        BY <1>4, <2>2, <3>1, <4>1
      <4>. QED BY <3>1, <4>1, <4>2
    <3>2. CASE /\ ~(i <= Len(q)) /\ i - Len(q) \in 1..Len(b)
               /\ n.queue[i] = b[i - Len(q)] /\ n.queue[i] \in B
      <4>1. ~(j <= Len(q)) /\ j - Len(q) \in 1..Len(b) /\ n.queue[j] = b[j - Len(q)]
        BY <1>8, <2>2, <3>2
      <4>2. i - Len(q) = j - Len(q)
        BY <1>5, <2>2, <3>2, <4>1
      <4>. QED BY <1>1, <1>3, <4>2
    <3>. QED BY <1>8, <3>1, <3>2
  <2>. QED BY <2>1, <2>2 DEF QueueOK
<1>11. \A c \in Calls : c \in B => m.status[c] = "new" /\ c \notin m.active
                                   /\ at[c] = "done" /\ m.completed[c] = 0
  BY DEF B
<1>12. DecidedIn(n, at)
  <2>1. \A c \in n.active : at[c] # "done" => ~IsTerminal(n, c)
    <3>1. m.active \subseteq Calls
      BY DEF Manager
    <3>. QED BY <1>0, <1>2, <1>11, <3>1 DEF DecidedIn, IsTerminal
  <2>. QED BY <1>2, <1>9, <1>10, <1>11, <2>1 DEF DecidedIn
<1>. QED BY <1>0, <1>2, <1>9, <1>12 DEF n, b, B

\* After cancelAll the calls that stay active are those decided before.
LEMMA CancelActiveLeaves ==
  ASSUME NEW m \in Manager
  PROVE  \A c \in Calls :
           /\ c \in CancelActive(m).active <=> c \in m.active /\ IsTerminal(m, c)
           /\ IsTerminal(m, c) => CancelActive(m).status[c] = m.status[c]
<1>. DEFINE live == {c \in m.active : ~IsTerminal(m, c)}
            n == [m EXCEPT !.status = [c \in Calls |-> IF c \in live
                                       THEN "cancelled" ELSE @[c]]]
<1>1. CancelActive(m) = FinalizeCalls(n, live)
  BY DEF CancelActive
<1>2. n \in Manager
  BY DEF Manager, Status, Terminal
<1>3. /\ n.active = m.active
      /\ \A c \in Calls : n.status[c] = IF c \in live THEN "cancelled" ELSE m.status[c]
  BY DEF Manager
<1>4. \A c \in Calls : c \in live <=> c \in m.active /\ ~IsTerminal(m, c)
  OBVIOUS
<1>. HIDE DEF n, live
<1>5. /\ FinalizeCalls(n, live).active = n.active \ (live \cap TerminalActive(n))
      /\ FinalizeCalls(n, live).status = n.status
  BY <1>2 DEF FinalizeCalls, Manager
<1>6. \A c \in Calls : c \in TerminalActive(n) <=> c \in n.active /\ n.status[c] \in Terminal
  BY DEF TerminalActive, IsTerminal
<1>. QED BY <1>1, <1>3, <1>4, <1>5, <1>6 DEF IsTerminal, Terminal

LEMMA CancelActiveKeeps ==
  ASSUME NEW m \in Manager, NEW at, DecidedIn(m, at)
  PROVE  LET n == CancelActive(m) IN
         n \in Manager /\ DecidedIn(n, at) /\ Keeps(m, n)
<1>. DEFINE n == CancelActive(m)
<1>1. /\ n \in Manager /\ n.queue = m.queue /\ n.active \subseteq m.active
      /\ \A c \in Calls : n.status[c] = m.status[c] \/ c \in m.active
  BY CancelActiveAccounts, CancelActiveRest
<1>2. \A c \in Calls :
        /\ c \in n.active <=> c \in m.active /\ IsTerminal(m, c)
        /\ IsTerminal(m, c) => n.status[c] = m.status[c]
  BY CancelActiveLeaves
<1>3. \A c \in Calls : n.completed[c] = m.completed[c]
                       \/ (c \in m.active /\ ~IsTerminal(m, c))
  <2>. DEFINE live == {c \in m.active : ~IsTerminal(m, c)}
              k == [m EXCEPT !.status = [c \in Calls |-> IF c \in live
                                         THEN "cancelled" ELSE @[c]]]
  <2>1. n = FinalizeCalls(k, live) /\ k.completed = m.completed /\ k \in Manager
    BY DEF CancelActive, Manager, Status, Terminal
  <2>. HIDE DEF k
  <2>2. \A c \in Calls : n.completed[c] = k.completed[c] \/ c \in live
    BY <2>1 DEF FinalizeCalls, Report, Manager
  <2>. QED BY <2>1, <2>2
<1>. HIDE DEF n
<1>4. Queued(n) = Queued(m) /\ QueueOK(m) /\ QueueOK(n)
  BY <1>1, SameQueueOK DEF Queued, DecidedIn
<1>5. \A c \in Calls : c \in Queued(m) => c \notin m.active
  BY <1>4, QueuedCalls
<1>6. n.active \subseteq Calls
  BY <1>1 DEF Manager
<1>7. DecidedIn(n, at)
  BY <1>1, <1>2, <1>3, <1>4, <1>5, <1>6 DEF DecidedIn, IsTerminal
<1>8. Keeps(m, n)
  BY <1>1, <1>2, <1>4 DEF Keeps
<1>. QED BY <1>1, <1>7, <1>8 DEF n

(***************************************************************************)
(* The pieces of the loop, from any manager: with late output a wave may   *)
(* be taken up again with calls still active.                              *)
(***************************************************************************)
RoundKeeps(m) ==
  /\ sm' \in Manager /\ DecidedIn(sm', phase') /\ Keeps(m, sm') /\ loop' # "idle"
  /\ \A c \in Calls : c \notin m.active /\ c \notin Queued(m) => phase'[c] = phase[c]

LEMMA KeepsTransitive ==
  ASSUME NEW m, NEW k, NEW n, Keeps(m, k), Keeps(k, n)
  PROVE  Keeps(m, n)
BY DEF Keeps, IsTerminal

LEMMA FinalizeWaveKeeps ==
  ASSUME NEW m \in Manager, DecidedIn(m, phase), NEW progress, NEW before,
         FinalizeWave(m, progress, before)
  PROVE  RoundKeeps(m)
<1>1. /\ sm' = FinalizeCalls(m, TerminalActive(m)) /\ phase' = phase /\ loop' # "idle"
  BY DEF FinalizeWave, LoopGoes
<1>. QED BY <1>1, FinalizeKeeps DEF RoundKeeps

LEMMA ExecuteWaveKeeps ==
  ASSUME NEW m \in Manager, phase \in [Calls -> Phase], DecidedIn(m, phase),
         NEW r, NEW before, ExecuteWave(m, r, before), r \in aborted => AllDone
  PROVE  RoundKeeps(m)
<1>. DEFINE scheduled == {c \in m.active : m.status[c] = "scheduled"}
            started == IF r \in aborted THEN {} ELSE scheduled
            ready == \A c \in m.active : c \in scheduled \/ IsTerminal(m, c)
            status == [c \in Calls |-> IF c \in started THEN "executing"
                                       ELSE IF c \in scheduled THEN "cancelled"
                                       ELSE m.status[c]]
<1>1. CASE ready /\ scheduled # {}
  <2>1. /\ sm' = [m EXCEPT !.status = status] /\ loop' = "executing"
        /\ phase' = [c \in Calls |-> IF c \in started THEN "run" ELSE phase[c]]
    BY <1>1 DEF ExecuteWave
  <2>2. /\ sm' \in Manager /\ sm'.status = status /\ sm'.active = m.active
        /\ sm'.queue = m.queue /\ sm'.completed = m.completed
    BY <2>1 DEF Manager, Status, Terminal
  <2>3. Queued(sm') = Queued(m) /\ QueueOK(m) /\ QueueOK(sm')
    BY <2>2, SameQueueOK DEF Queued, DecidedIn
  <2>4. \A c \in Calls : c \in Queued(m) => c \notin m.active
    BY <2>3, QueuedCalls
  <2>5. ASSUME NEW c \in m.active, phase'[c] # "done" PROVE ~IsTerminal(sm', c)
    <3>1. c \in Calls
      BY DEF Manager
    <3>2. CASE c \in started
      BY <2>2, <3>1, <3>2 DEF IsTerminal, Terminal
    <3>3. CASE c \notin started
      <4>1. phase[c] # "done" /\ r \notin aborted
        BY <2>1, <2>5, <3>1, <3>3 DEF AllDone
      <4>2. sm'.status[c] = m.status[c]
        BY <2>2, <3>1, <3>3, <4>1
      <4>. QED BY <4>1, <4>2 DEF DecidedIn, IsTerminal
    <3>. QED BY <3>2, <3>3
  <2>6. \A c \in Calls : c \notin m.active => phase'[c] = phase[c]
    BY <2>1
  <2>7. DecidedIn(sm', phase')
    BY <2>2, <2>3, <2>4, <2>5, <2>6 DEF DecidedIn
  <2>8. Keeps(m, sm')
    BY <2>2, <2>3 DEF Keeps, IsTerminal, Terminal
  <2>. QED BY <2>1, <2>2, <2>6, <2>7, <2>8 DEF RoundKeeps
<1>2. CASE ~(ready /\ scheduled # {})
  <2>1. FinalizeWave(m, FALSE, before)
    BY <1>2 DEF ExecuteWave
  <2>. QED BY <2>1, FinalizeWaveKeeps
<1>. QED BY <1>1, <1>2

LEMMA ValidateWaveKeeps ==
  ASSUME NEW m \in Manager, phase \in [Calls -> Phase], DecidedIn(m, phase),
         NEW r, NEW before, ValidateWave(m, r, before), r \notin aborted
  PROVE  RoundKeeps(m)
<1>. DEFINE validating == {c \in m.active : m.status[c] = "validating"}
<1>1. CASE validating # {}
  <2>1. /\ sm' = m /\ loop' = "validating"
        /\ phase' = [c \in Calls |-> IF c \in validating THEN "hook" ELSE phase[c]]
    BY <1>1 DEF ValidateWave
  <2>2. /\ \A c \in Calls : c \notin m.active => phase'[c] = phase[c]
        /\ \A c \in Calls : phase'[c] # "done" => c \in validating \/ phase[c] # "done"
    BY <2>1
  <2>3. \A c \in Calls : c \in Queued(m) => c \notin m.active
    BY QueuedCalls DEF DecidedIn
  <2>4. \A c \in m.active : c \in Calls /\ (c \in validating => ~IsTerminal(m, c))
    BY DEF Manager, IsTerminal, Terminal
  <2>5. DecidedIn(m, phase')
    BY <2>2, <2>3, <2>4 DEF DecidedIn
  <2>. QED BY <2>1, <2>2, <2>5 DEF RoundKeeps, Keeps
<1>2. CASE validating = {}
  <2>1. ExecuteWave(m, r, before)
    BY <1>2 DEF ValidateWave
  <2>. QED BY <2>1, ExecuteWaveKeeps
<1>. QED BY <1>1, <1>2

LEMMA ProcessQueueKeeps ==
  ASSUME NEW m \in Manager, phase \in [Calls -> Phase], DecidedIn(m, phase),
         NEW r, NEW cancelling, ProcessQueue(m, r, cancelling)
  PROVE  RoundKeeps(m)
<1>1. CASE sm' = m /\ LoopGoes("stop") /\ UNCHANGED phase
  BY <1>1 DEF RoundKeeps, Keeps, LoopGoes
<1>2. CASE /\ sm' = CancelAllQueued(FinalizeCalls(m, m.active))
           /\ LoopGoes("stop") /\ UNCHANGED phase
  <2>. DEFINE k == FinalizeCalls(m, m.active)
  <2>1. k \in Manager /\ DecidedIn(k, phase) /\ Keeps(m, k)
    BY FinalizeKeeps
  <2>2. sm' = CancelAllQueued(k)
    BY <1>2
  <2>. HIDE DEF k
  <2>3. sm' \in Manager /\ DecidedIn(sm', phase) /\ Keeps(m, sm')
    BY <2>1, <2>2, CancelQueueKeeps, KeepsTransitive
  <2>. QED BY <1>2, <2>3 DEF RoundKeeps, LoopGoes
<1>3. CASE r \notin aborted /\ ValidateWave(m, r, InitialStatuses(m))
  BY <1>3, ValidateWaveKeeps
<1>4. CASE /\ m.active = {} /\ m.queue # <<>>
           /\ sm' = FinalizeCalls(Dequeue(m, 1), {Head(m.queue)})
           /\ LoopGoes("top") /\ UNCHANGED phase
  <2>. DEFINE k == Dequeue(m, 1)
  <2>1. 1 \in 1..Len(m.queue)
    BY <1>4, EmptySeq DEF Manager
  <2>2. k \in Manager /\ DecidedIn(k, phase) /\ Keeps(m, k)
    BY <1>4, <2>1, DequeueKeeps
  <2>3. sm' = FinalizeCalls(k, {Head(m.queue)})
    BY <1>4
  <2>. HIDE DEF k
  <2>4. sm' \in Manager /\ DecidedIn(sm', phase) /\ Keeps(m, sm')
    BY <2>2, <2>3, FinalizeKeeps, KeepsTransitive
  <2>. QED BY <1>4, <2>4 DEF RoundKeeps, LoopGoes
<1>5. ASSUME r \notin aborted, m.active = {}, NEW k \in 1..Len(m.queue),
             ValidateWave(Dequeue(m, k), r, InitialStatuses(m))
      PROVE  RoundKeeps(m)
  <2>. DEFINE n == Dequeue(m, k)
  <2>1. /\ n \in Manager /\ DecidedIn(n, phase) /\ Keeps(m, n)
        /\ \A c \in Calls : c \in n.active => c \in Queued(m)
    BY <1>5, DequeueKeeps
  <2>2. \A c \in Calls : c \in Queued(n) => c \in Queued(m)
    BY <1>5, DequeueMoves DEF DecidedIn
  <2>. HIDE DEF n
  <2>3. RoundKeeps(n)
    BY <1>5, <2>1, ValidateWaveKeeps DEF n
  <2>. QED BY <2>1, <2>2, <2>3, KeepsTransitive DEF RoundKeeps
<1>. QED BY <1>1, <1>2, <1>3, <1>4, <1>5 DEF ProcessQueue

\* What a step on the batch in progress does to the calls out of play.
Untroubled ==
  /\ Keeps(sm, sm')
  /\ \A c \in Calls : c \notin sm.active /\ c \notin Queued(sm) /\ phase[c] = "done"
                        => phase'[c] = "done"

LEMMA CallMoveKeeps ==
  ASSUME TypeOK, DecidedIn(sm, phase), NEW c \in Calls, CallMoves(c)
  PROVE  sm' \in Manager /\ DecidedIn(sm', phase') /\ Untroubled
<1>0. /\ sm \in Manager /\ phase[c] # "done"
      /\ \A d \in Calls \ {c} : phase'[d] = phase[d]
  BY DEF TypeOK, CallMoves
<1>. DEFINE Good == sm' \in Manager /\ DecidedIn(sm', phase') /\ Keeps(sm, sm')
<1>1. ASSUME CallWrites(c) PROVE Good
  <2>1. ASSUME sm' = sm PROVE Good
    <3>1. /\ c \notin Queued(sm) /\ QueueOK(sm)
          /\ c \in sm.active => ~IsTerminal(sm, c)
      BY <1>0 DEF DecidedIn
    <3>2. sm.active \subseteq Calls
      BY <1>0 DEF Manager
    <3>3. DecidedIn(sm, phase')
      BY <1>0, <3>1, <3>2 DEF DecidedIn
    <3>. QED BY <1>0, <2>1, <3>3 DEF Keeps
  <2>2. ASSUME NEW status \in Status, sm' = UpdateStatus(sm, c, status),
               phase'[c] # "done" => status \notin Terminal
        PROVE  Good
    BY <1>0, <2>2, UpdateKeeps
  <2>. QED BY <1>1, <2>1, <2>2 DEF CallWrites
<1>2. ASSUME CallRefused(c) PROVE Good
  <2>. DEFINE n == UpdateStatus(sm, c, "cancelled")
  <2>1. sm' = CancelAllQueued(n) /\ phase'[c] = "done" /\ "cancelled" \in Status
    BY <1>2 DEF CallRefused, Status, Terminal
  <2>2. n \in Manager /\ DecidedIn(n, phase') /\ Keeps(sm, n)
    BY <1>0, <2>1, UpdateKeeps
  <2>. HIDE DEF n
  <2>. QED BY <2>1, <2>2, CancelQueueKeeps, KeepsTransitive
<1>3. ASSUME CallReplaced(c) PROVE Good
  <2>1. PICK status \in {"validating", "error"} :
          sm' = ReplaceActiveCallWithTailCall(sm, c, status)
    BY <1>3 DEF CallReplaced
  <2>2. phase'[c] = "done"
    BY <1>3 DEF CallReplaced
  <2>. QED BY <1>0, <2>1, <2>2, TailCallKeeps
<1>4. Good
  BY <1>1, <1>2, <1>3 DEF CallMoves
<1>. QED BY <1>0, <1>4 DEF Untroubled

LEMMA ClearBatchKeeps ==
  ASSUME NEW m \in Manager, NEW at, DecidedIn(m, at)
  PROVE  LET n == ClearBatch(m) IN
         /\ n \in Manager /\ DecidedIn(n, at) /\ Keeps(m, n)
         /\ n.queue = m.queue /\ n.active = m.active /\ n.status = m.status
         /\ \A c \in Calls : n.completed[c] = 0
<1>. DEFINE n == ClearBatch(m)
<1>1. /\ n \in Manager /\ n.queue = m.queue /\ n.active = m.active /\ n.status = m.status
      /\ \A c \in Calls : n.completed[c] = 0
  BY ClearBatchType DEF ClearBatch, Manager
<1>. HIDE DEF n
<1>2. Queued(n) = Queued(m) /\ QueueOK(n)
  BY <1>1, SameQueueOK DEF Queued, DecidedIn
<1>. QED BY <1>1, <1>2 DEF DecidedIn, Keeps, IsTerminal, n

\* A batch that begins leaves alone what was decided and every call out of
\* play that is not its own.
LEMMA StartBatchKeeps ==
  ASSUME TypeOK, NEW m \in Manager, DecidedIn(m, phase), m.status = sm.status,
         m.active = sm.active, m.queue = sm.queue,
         NEW p, NEW r \in Requests, NotBegun(r), StartBatch(m, p, r)
  PROVE  /\ sm' \in Manager /\ DecidedIn(sm', phase') /\ loop' # "idle"
         /\ \A c \in Calls : IsTerminal(sm, c) => sm'.status[c] = sm.status[c]
         /\ \A x \in Requests : x # r /\ NotBegun(x) => NotBegun(x)'
<1>1. PICK failed \in SUBSET ToSet(BatchOf[r]) :
        ProcessQueue(Enqueue(ClearBatch(m), SortedBatch(r), failed), r, FALSE)
  BY DEF StartBatch
<1>. DEFINE k == ClearBatch(m)
            n == Enqueue(k, SortedBatch(r), failed)
<1>2. /\ k \in Manager /\ DecidedIn(k, phase)
      /\ k.queue = sm.queue /\ k.active = sm.active /\ k.status = sm.status
      /\ \A c \in Calls : k.completed[c] = 0
  BY ClearBatchKeeps
<1>. HIDE DEF k
<1>3. \A c \in ToSet(BatchOf[r]) : /\ k.status[c] = "new" /\ c \notin k.active
                                   /\ phase[c] = "done" /\ k.completed[c] = 0
  BY <1>2, BatchCalls DEF NotBegun
<1>4. /\ n \in Manager /\ DecidedIn(n, phase) /\ n.active = sm.active
      /\ \A c \in Calls : c \notin ToSet(BatchOf[r]) =>
           /\ n.status[c] = sm.status[c]
           /\ c \in Queued(n) <=> c \in Queued(sm)
  <2>1. Queued(k) = Queued(sm)
    BY <1>2 DEF Queued
  <2>. QED BY <1>2, <1>3, <2>1, EnqueueDecided
<1>. HIDE DEF n
<1>5. RoundKeeps(n)
  BY <1>1, <1>4, ProcessQueueKeeps DEF n, k, TypeOK
<1>6. ASSUME NEW c \in Calls, IsTerminal(sm, c) PROVE sm'.status[c] = sm.status[c]
  <2>1. c \notin ToSet(BatchOf[r])
    BY <1>6 DEF NotBegun, IsTerminal, Terminal
  <2>. QED BY <1>4, <1>5, <1>6, <2>1 DEF RoundKeeps, Keeps, IsTerminal
<1>7. ASSUME NEW x \in Requests, x # r, NotBegun(x) PROVE NotBegun(x)'
  <2>1. ASSUME NEW c \in ToSet(BatchOf[x])
        PROVE  sm'.status[c] = "new" /\ c \notin sm'.active /\ phase'[c] = "done"
    <3>1. c \in Calls /\ c \notin ToSet(BatchOf[r])
      BY <1>7, BatchesDisjoint, BatchCalls
    <3>2. sm.status[c] = "new" /\ c \notin sm.active /\ phase[c] = "done"
      BY <1>7 DEF NotBegun
    <3>3. n.status[c] = "new" /\ c \notin n.active
      BY <1>4, <3>1, <3>2
    <3>4. c \notin Queued(n)
      BY <1>4, <3>1, <3>3, QueuedCalls DEF DecidedIn
    <3>. QED BY <1>5, <3>1, <3>2, <3>3, <3>4 DEF RoundKeeps, Keeps
  <2>. QED BY <2>1 DEF NotBegun
<1>. QED BY <1>4, <1>5, <1>6, <1>7 DEF RoundKeeps

LEMMA NotBegunStays ==
  ASSUME sm \in Manager, QueueOK(sm), Untroubled, NEW r \in Requests, NotBegun(r)
  PROVE  NotBegun(r)'
<1>1. ASSUME NEW c \in ToSet(BatchOf[r])
      PROVE  sm'.status[c] = "new" /\ c \notin sm'.active /\ phase'[c] = "done"
  <2>1. c \in Calls /\ sm.status[c] = "new" /\ c \notin sm.active /\ phase[c] = "done"
    BY BatchCalls DEF NotBegun
  <2>2. c \notin Queued(sm)
    BY <2>1, QueuedCalls
  <2>. QED BY <2>1, <2>2 DEF Untroubled, Keeps
<1>. QED BY <1>1 DEF NotBegun

(***************************************************************************)
(* The steps.                                                              *)
(***************************************************************************)
DecidedStands ==
  \A c \in Calls : IsTerminal(sm, c) /\ sm'.status[c] # sm.status[c]
                     => LateOutputReopens(c)

\* The host sees nothing of a step on the batch in progress.
LEMMA SameLine ==
  ASSUME TypeOK, DecidedInv, DecidedIn(sm', phase'), Untroubled,
         UNCHANGED <<cur, requestQueue, promise>>, loop' # "idle" => loop # "idle"
  PROVE  DecidedInv' /\ DecidedStands
<1>1. sm \in Manager /\ QueueOK(sm)
  BY DEF TypeOK, DecidedInv, DecidedIn
<1>2. \A r \in Requests : NotBegun(r) => NotBegun(r)'
  BY <1>1, NotBegunStays
<1>3. LineInv'
  BY <1>2 DEF DecidedInv, LineInv
<1>. QED BY <1>3 DEF DecidedInv, DecidedStands, Untroubled, Keeps

LEMMA LoopDecided ==
  ASSUME TypeOK, DecidedInv, LoopTop \/ Validated \/ Executed \/ TimerFires
  PROVE  DecidedInv' /\ DecidedStands
<1>0. sm \in Manager /\ phase \in [Calls -> Phase] /\ DecidedIn(sm, phase)
  BY DEF TypeOK, DecidedInv
<1>1. loop # "idle" /\ UNCHANGED <<cur, requestQueue, promise>>
  BY DEF LoopTop, Validated, Executed, TimerFires, hostVars
<1>2. ASSUME RoundKeeps(sm) PROVE DecidedInv' /\ DecidedStands
  BY <1>1, <1>2, SameLine DEF RoundKeeps, Untroubled
<1>3. CASE LoopTop
  BY <1>0, <1>2, <1>3, ProcessQueueKeeps DEF LoopTop
<1>4. CASE Validated
  <2>1. AllDone
    BY <1>4 DEF Validated, AllDone
  <2>. QED BY <1>0, <1>2, <1>4, <2>1, ExecuteWaveKeeps DEF Validated
<1>5. CASE Executed
  BY <1>0, <1>2, <1>5, FinalizeWaveKeeps DEF Executed
<1>6. CASE TimerFires
  <2>1. sm' = sm /\ phase' = phase
    BY <1>6 DEF TimerFires, callVars
  <2>. QED BY <1>0, <1>1, <2>1, SameLine DEF Untroubled, Keeps
<1>. QED BY <1>3, <1>4, <1>5, <1>6

LEMMA ScheduleDecided ==
  ASSUME TypeOK, DecidedInv, NEW r \in Requests, Schedule(r)
  PROVE  DecidedInv' /\ DecidedStands
<1>0. /\ sm \in Manager /\ DecidedIn(sm, phase) /\ LineInv /\ promise[r] = "new"
      /\ promise \in [Requests -> Promises] /\ requestQueue \in Seq(Requests)
      /\ cur \in Requests /\ NotBegun(r) /\ r \notin ToSet(requestQueue)
  BY DEF TypeOK, DecidedInv, LineInv, Schedule
<1>1. CASE StartBatch(sm, promise, r) /\ UNCHANGED requestQueue
  <2>1. /\ sm' \in Manager /\ DecidedIn(sm', phase') /\ loop' # "idle"
        /\ \A c \in Calls : IsTerminal(sm, c) => sm'.status[c] = sm.status[c]
        /\ \A x \in Requests : x # r /\ NotBegun(x) => NotBegun(x)'
    BY <1>0, <1>1, StartBatchKeeps
  <2>2. /\ cur' = r /\ promise'[r] = "running"
        /\ \A x \in Requests : x # r => promise'[x] = promise[x]
    BY <1>0, <1>1 DEF StartBatch
  <2>3. LineInv'
    BY <1>0, <1>1, <2>1, <2>2 DEF LineInv
  <2>. QED BY <2>1, <2>3 DEF DecidedInv, DecidedStands
<1>2. CASE /\ EnqueueRequest(requestQueue, promise, r)
           /\ UNCHANGED <<sm, loopVars, isProcessing, isCancelling, phase, userDenied>>
  <2>1. UNCHANGED <<sm, phase, loop, cur>>
    BY <1>2 DEF loopVars
  <2>2. \A x \in Requests : NotBegun(x) => NotBegun(x)'
    BY <2>1 DEF NotBegun
  <2>3. CASE r \in aborted
    <3>1. /\ requestQueue' = requestQueue /\ promise'[r] = "rejected"
          /\ \A x \in Requests : x # r => promise'[x] = promise[x]
      BY <1>0, <1>2, <2>3 DEF EnqueueRequest
    <3>2. LineInv'
      BY <1>0, <2>1, <2>2, <3>1 DEF LineInv
    <3>. QED BY <1>0, <2>1, <3>2 DEF DecidedInv, DecidedStands
  <2>4. CASE r \notin aborted
    <3>1. /\ requestQueue' = Append(requestQueue, r) /\ promise'[r] = "queued"
          /\ \A x \in Requests : x # r => promise'[x] = promise[x]
      BY <1>0, <1>2, <2>4 DEF EnqueueRequest
    <3>2. Distinct(requestQueue)
      BY <1>0 DEF LineInv, Distinct
    <3>3. /\ Distinct(requestQueue')
          /\ \A x \in Requests : x \in ToSet(requestQueue')
                                   <=> x \in ToSet(requestQueue) \/ x = r
      BY <1>0, <3>1, <3>2, AppendLine
    <3>4. LineInv'
      BY <1>0, <2>1, <2>2, <3>1, <3>3 DEF LineInv, Distinct
    <3>. QED BY <1>0, <2>1, <3>4 DEF DecidedInv, DecidedStands
  <2>. QED BY <2>3, <2>4
<1>. QED BY <1>1, <1>2 DEF Schedule

LEMMA FinishBatchDecided ==
  ASSUME TypeOK, DecidedInv, FinishBatch
  PROVE  DecidedInv' /\ DecidedStands
<1>. DEFINE p == [promise EXCEPT ![cur] = "resolved"]
            k == ClearBatch(sm)
            h == Head(requestQueue)
<1>0. /\ sm \in Manager /\ DecidedIn(sm, phase) /\ LineInv /\ promise[cur] = "running"
      /\ promise \in [Requests -> Promises] /\ requestQueue \in Seq(Requests)
      /\ cur \in Requests /\ cur \notin ToSet(requestQueue) /\ Distinct(requestQueue)
  BY DEF TypeOK, DecidedInv, LineInv, FinishBatch, Distinct
<1>1. p[cur] = "resolved" /\ \A x \in Requests : x # cur => p[x] = promise[x]
  BY <1>0
<1>2. p \in [Requests -> Promises]
  BY <1>0 DEF Promises
<1>3. /\ k \in Manager /\ DecidedIn(k, phase) /\ Keeps(sm, k)
      /\ k.queue = sm.queue /\ k.active = sm.active /\ k.status = sm.status
  BY <1>0, ClearBatchKeeps
<1>. HIDE DEF p, k
<1>4. ASSUME sm' = k, phase' = phase, loop' = "idle"
      PROVE  /\ DecidedIn(sm', phase') /\ DecidedStands
             /\ \A x \in Requests : NotBegun(x) => NotBegun(x)'
  BY <1>3, <1>4 DEF DecidedStands, NotBegun
<1>5. CASE requestQueue = <<>>
  <2>1. /\ promise' = p /\ requestQueue' = requestQueue
        /\ sm' = k /\ phase' = phase /\ loop' = "idle"
    BY <1>5 DEF FinishBatch, LoopGoes, p, k
  <2>2. LineInv'
    BY <1>0, <1>1, <1>4, <2>1 DEF LineInv
  <2>. QED BY <1>4, <2>1, <2>2 DEF DecidedInv
<1>6. CASE requestQueue # <<>>
  <2>1. /\ Distinct(Tail(requestQueue)) /\ h \in Requests /\ h \in ToSet(requestQueue)
        /\ \A x \in Requests : x \in ToSet(Tail(requestQueue))
                                 <=> x \in ToSet(requestQueue) /\ x # h
    BY <1>0, <1>6, TailLine
  <2>. HIDE DEF h
  <2>2. promise[h] = "queued" /\ h # cur /\ NotBegun(h)
    BY <1>0, <2>1 DEF LineInv
  <2>3. CASE sm.active = {}
    <3>1. requestQueue' = Tail(requestQueue) /\ StartBatch(k, p, h)
      BY <1>6, <2>3 DEF FinishBatch, p, k, h
    <3>2. /\ sm' \in Manager /\ DecidedIn(sm', phase') /\ loop' # "idle"
          /\ \A c \in Calls : IsTerminal(sm, c) => sm'.status[c] = sm.status[c]
          /\ \A x \in Requests : x # h /\ NotBegun(x) => NotBegun(x)'
      BY <1>3, <2>1, <2>2, <3>1, StartBatchKeeps
    <3>3. /\ cur' = h /\ promise'[h] = "running"
          /\ \A x \in Requests : x # h => promise'[x] = p[x]
      BY <1>2, <2>1, <3>1 DEF StartBatch
    <3>4. \A x \in Requests : promise'[x] \in {"new", "queued"} =>
            x # h /\ x # cur /\ promise'[x] = promise[x]
      BY <1>0, <1>1, <3>3
    <3>5. \A x \in Requests : promise[x] = "queued" /\ x # h => promise'[x] = "queued"
      BY <1>0, <1>1, <3>3
    <3>6. LineInv'
      BY <1>0, <2>1, <3>1, <3>2, <3>3, <3>4, <3>5 DEF LineInv, Distinct
    <3>. QED BY <3>2, <3>6 DEF DecidedInv, DecidedStands
  <2>4. CASE sm.active # {}
    <3>1. /\ EnqueueRequest(Tail(requestQueue), p, h)
          /\ sm' = k /\ phase' = phase /\ loop' = "idle"
      BY <1>6, <2>4 DEF FinishBatch, LoopGoes, p, k, h
    <3>2. Tail(requestQueue) \in Seq(Requests)
      BY <1>0, <1>6
    <3>3. CASE h \in aborted
      <4>1. /\ requestQueue' = Tail(requestQueue) /\ promise'[h] = "rejected"
            /\ \A x \in Requests : x # h => promise'[x] = p[x]
        BY <1>2, <2>1, <3>1, <3>3 DEF EnqueueRequest
      <4>2. LineInv'
        BY <1>0, <1>1, <1>4, <2>1, <3>1, <4>1 DEF LineInv, Distinct
      <4>. QED BY <1>4, <3>1, <4>2 DEF DecidedInv
    <3>4. CASE h \notin aborted
      <4>1. /\ requestQueue' = Append(Tail(requestQueue), h) /\ promise'[h] = "queued"
            /\ \A x \in Requests : x # h => promise'[x] = p[x]
        BY <1>2, <2>1, <3>1, <3>4 DEF EnqueueRequest
      <4>2. /\ Distinct(requestQueue')
            /\ \A x \in Requests : x \in ToSet(requestQueue')
                                     <=> x \in ToSet(Tail(requestQueue)) \/ x = h
        BY <2>1, <3>2, <4>1, AppendLine
      <4>3. LineInv'
        BY <1>0, <1>1, <1>4, <2>1, <2>2, <3>1, <4>1, <4>2 DEF LineInv, Distinct
      <4>. QED BY <1>4, <3>1, <4>3 DEF DecidedInv
    <3>. QED BY <3>3, <3>4
  <2>. QED BY <2>3, <2>4
<1>. QED BY <1>5, <1>6

LEMMA CancelAllDecided ==
  ASSUME TypeOK, DecidedInv, CancelAllFrom(requestQueue, promise)
  PROVE  DecidedInv' /\ DecidedStands
<1>0. /\ UNCHANGED <<cur, loop, phase>> /\ sm \in Manager /\ DecidedIn(sm, phase)
      /\ LineInv /\ cur \in Requests
  BY DEF CancelAllFrom, loopVars, callVars, TypeOK, DecidedInv
<1>1. CASE isCancelling
  <2>1. UNCHANGED <<sm, requestQueue, promise>>
    BY <1>1 DEF CancelAllFrom
  <2>. QED BY <1>0, <2>1, SameLine DEF Untroubled, Keeps
<1>2. CASE ~isCancelling
  <2>. DEFINE n == CancelActive(sm)
  <2>1. n \in Manager /\ DecidedIn(n, phase) /\ Keeps(sm, n)
    BY <1>0, CancelActiveKeeps
  <2>2. sm' = CancelAllQueued(n)
    BY <1>2 DEF CancelAllFrom
  <2>. HIDE DEF n
  <2>3. DecidedIn(sm', phase') /\ Untroubled
    BY <1>0, <2>1, <2>2, CancelQueueKeeps, KeepsTransitive DEF Untroubled
  <2>4. \A x \in Requests : NotBegun(x) => NotBegun(x)'
    BY <1>0, <2>3, NotBegunStays DEF DecidedIn
  <2>5. /\ requestQueue' = <<>>
        /\ \A x \in Requests : promise'[x] = IF x \in ToSet(requestQueue)
                                             THEN "rejected" ELSE promise[x]
    BY <1>2 DEF CancelAllFrom
  <2>6. \A x : x \notin ToSet(requestQueue')
    BY <2>5 DEF ToSet
  <2>7. LineInv'
    BY <1>0, <2>4, <2>5, <2>6 DEF LineInv
  <2>. QED BY <2>3, <2>7 DEF DecidedInv, DecidedStands, Untroubled, Keeps
<1>. QED BY <1>1, <1>2

LEMMA AbortDecided ==
  ASSUME TypeOK, DecidedInv, NEW r \in Requests, Abort(r)
  PROVE  DecidedInv' /\ DecidedStands
<1>0. /\ UNCHANGED <<sm, phase, loop, cur>> /\ LineInv /\ cur \in Requests
      /\ promise \in [Requests -> Promises] /\ Distinct(requestQueue)
      /\ requestQueue' = AbortHandler(r) /\ promise' = AbortPromise(r)
  BY DEF Abort, loopVars, callVars, TypeOK, DecidedInv, LineInv, Distinct
<1>1. /\ Distinct(requestQueue')
      /\ \A x \in Requests : x \in ToSet(requestQueue')
                               <=> x \in ToSet(requestQueue) /\ x # r
  BY <1>0, AbortLine
<1>2. /\ promise'[r] = IF promise[r] = "queued" THEN "rejected" ELSE promise[r]
      /\ \A x \in Requests : x # r => promise'[x] = promise[x]
  BY <1>0 DEF AbortPromise
<1>3. \A x \in Requests : NotBegun(x) => NotBegun(x)'
  BY <1>0 DEF NotBegun
<1>4. LineInv'
  BY <1>0, <1>1, <1>2, <1>3 DEF LineInv, Distinct
<1>. QED BY <1>0, <1>4 DEF DecidedInv, DecidedStands

\* Late output reopens an active call that is not in error, and nothing else.
LEMMA LateOutputDecided ==
  ASSUME TypeOK, DecidedInv, NEW c \in Calls, LateOutputArrives(c)
  PROVE  DecidedInv' /\ DecidedStands
<1>1. /\ sm \in Manager /\ DecidedIn(sm, phase) /\ LineInv
      /\ LateOutput /\ c \in sm.active /\ sm.status[c] # "error"
      /\ UNCHANGED <<phase, loop, cur, promise, requestQueue>>
      /\ sm' = UpdateStatus(sm, c, "executing")
  BY DEF LateOutputArrives, loopVars, hostVars, callVars, TypeOK, DecidedInv
<1>2. /\ sm'.queue = sm.queue /\ sm'.active = sm.active /\ sm'.completed = sm.completed
      /\ sm'.status[c] = "executing"
      /\ \A d \in Calls \ {c} : sm'.status[d] = sm.status[d]
  BY <1>1 DEF UpdateStatus, Manager
<1>3. Queued(sm') = Queued(sm) /\ QueueOK(sm')
  BY <1>1, <1>2, SameQueueOK DEF Queued, DecidedIn
<1>4. DecidedIn(sm', phase')
  BY <1>1, <1>2, <1>3 DEF DecidedIn, IsTerminal, Terminal, Manager
<1>5. \A x \in Requests : NotBegun(x) => NotBegun(x)'
  BY <1>1, <1>2, BatchCalls DEF NotBegun
<1>6. LineInv'
  BY <1>1, <1>5 DEF LineInv
<1>7. DecidedStands
  BY <1>1, <1>2 DEF DecidedStands, LateOutputReopens, DecidedIn
<1>. QED BY <1>4, <1>6, <1>7 DEF DecidedInv

LEMMA StepDecided ==
  ASSUME TypeOK, DecidedInv, [Next]_vars
  PROVE  DecidedInv' /\ DecidedStands
<1>0. sm \in Manager /\ DecidedIn(sm, phase) /\ LineInv
  BY DEF TypeOK, DecidedInv
<1>1. ASSUME NEW r \in Requests, Schedule(r) PROVE DecidedInv' /\ DecidedStands
  BY <1>1, ScheduleDecided
<1>2. CASE FinishBatch
  BY <1>2, FinishBatchDecided
<1>3. CASE LoopTop \/ Validated \/ Executed \/ TimerFires
  BY <1>3, LoopDecided
<1>4. CASE CancelAll
  BY <1>4, CancelAllDecided DEF CancelAll
<1>5. ASSUME NEW r \in Requests, Abort(r) PROVE DecidedInv' /\ DecidedStands
  BY <1>5, AbortDecided
<1>6. ASSUME NEW r \in Requests, UserCancel(r) PROVE DecidedInv' /\ DecidedStands
  <2>1. r \notin ToSet(requestQueue) /\ promise[r] = "running"
    BY <1>0, <1>6 DEF UserCancel, LineInv
  <2>2. CancelAllFrom(requestQueue, promise)
    BY <1>6, <2>1 DEF UserCancel, AbortHandler, AbortPromise
  <2>. QED BY <2>2, CancelAllDecided
<1>7. ASSUME NEW c \in Calls,
             \/ CallSteps(c) \/ ValidationThrows(c)
             \/ \E outcome \in {"proceed", "cancel", "modify"} : Answer(c, outcome)
      PROVE  DecidedInv' /\ DecidedStands
  <2>1. CallMoves(c)
    BY <1>7, CallStepMoves
  <2>2. DecidedIn(sm', phase') /\ Untroubled
    BY <1>0, <2>1, CallMoveKeeps
  <2>3. UNCHANGED <<cur, loop, requestQueue, promise>>
    BY <2>1 DEF CallMoves, hostVars
  <2>. QED BY <2>2, <2>3, SameLine
<1>8. ASSUME NEW c \in Calls, LateOutputArrives(c) PROVE DecidedInv' /\ DecidedStands
  BY <1>8, LateOutputDecided
<1>9. CASE UNCHANGED vars
  <2>1. UNCHANGED <<sm, phase, cur, loop, requestQueue, promise>>
    BY <1>9 DEF vars, loopVars, hostVars, callVars
  <2>. QED BY <1>0, <2>1, SameLine DEF Untroubled, Keeps
<1>. QED BY <1>1, <1>2, <1>3, <1>4, <1>5, <1>6, <1>7, <1>8, <1>9
         DEF Next, LoopSteps, HostSteps

(***************************************************************************)
(* With late output or without: calls in the queue are at rest, a recorded *)
(* call is neither queued nor active, and a coroutine at work on an active *)
(* call finds it undecided.                                                *)
(***************************************************************************)
THEOREM DecidedInvHolds == Spec => []DecidedInv
<1>1. ASSUME Init PROVE DecidedInv
  <2>1. /\ sm.queue = <<>> /\ sm.active = {} /\ loop = "idle" /\ requestQueue = <<>>
        /\ \A c \in Calls : sm.status[c] = "new" /\ sm.completed[c] = 0
                            /\ phase[c] = "done"
        /\ \A r \in Requests : promise[r] = "new"
    BY <1>1 DEF Init, EmptyManager
  <2>2. Queued(sm) = {} /\ ToSet(requestQueue) = {} /\ QueueOK(sm)
    BY <2>1, EmptyQueueOK DEF Queued, ToSet
  <2>3. DecidedIn(sm, phase)
    BY <2>1, <2>2 DEF DecidedIn
  <2>4. \A r \in Requests : NotBegun(r)
    BY <2>1, BatchCalls DEF NotBegun
  <2>5. LineInv
    BY <2>1, <2>2, <2>4 DEF LineInv
  <2>. QED BY <2>3, <2>5 DEF DecidedInv
<1>2. TypeOK /\ DecidedInv /\ [Next]_vars => DecidedInv'
  BY StepDecided
<1>. QED BY <1>1, <1>2, TypeCorrect, PTL DEF Spec

(***************************************************************************)
(* A recorded result keeps its status, whatever finishes, answers, cancels *)
(* or reports output afterwards; a decided call that is still active loses *)
(* it to late output alone, and never from error.                          *)
(***************************************************************************)
THEOREM DecidedCallsStand == Spec => TerminalStable
<1>1. TypeOK /\ DecidedInv /\ [Next]_vars
        => [\A c \in Calls : IsTerminal(sm, c) /\ sm'.status[c] # sm.status[c]
                               => LateOutputReopens(c)]_vars
  BY StepDecided DEF DecidedStands
<1>. QED BY <1>1, TypeCorrect, DecidedInvHolds, PTL DEF Spec, TerminalStable
-----------------------------------------------------------------------------
(***************************************************************************)
(* What the loop starts and which batch begins, as long as nothing comes   *)
(* late.                                                                   *)
(***************************************************************************)
LEMMA ProcessQueueStarts ==
  ASSUME NEW m \in Manager, QueueOK(m), m.active = {}, AllDone,
         NEW r, NEW cancelling, ProcessQueue(m, r, cancelling)
  PROVE  \A c \in Calls : phase'[c] # "done" =>
           /\ r \notin aborted /\ phase'[c] = "hook"
           /\ c \in sm'.active /\ ~IsTerminal(sm, c)'
<1>1. CASE Stopped(m) \/ HeadReported(m)
  BY <1>1 DEF Stopped, HeadReported, AllDone
<1>2. ASSUME r \notin aborted, NEW k \in 1..Len(m.queue), WaveStarted(m, k)
      PROVE  \A c \in Calls : phase'[c] # "done" =>
               /\ r \notin aborted /\ phase'[c] = "hook"
               /\ c \in sm'.active /\ ~IsTerminal(sm, c)'
  <2>1. sm' = Dequeue(m, k) /\ Dequeue(m, k).status = m.status
    BY <1>2, DequeueOK DEF WaveStarted
  <2>2. \A c \in Calls : phase'[c] # "done" =>
          c \in sm'.active /\ m.status[c] = "validating" /\ phase'[c] = "hook"
    BY <1>2 DEF WaveStarted, AllDone
  <2>. QED BY <1>2, <2>1, <2>2 DEF IsTerminal, Terminal
<1>. QED BY <1>1, <1>2, ProcessQueueOutcome

LEMMA StartBatchStarts ==
  ASSUME TypeOK, AllDone, NEW m \in Manager, m.queue = <<>>, m.active = {},
         NEW p, NEW r \in Requests, StartBatch(m, p, r)
  PROVE  \A c \in Calls : phase'[c] # "done" =>
           /\ r \notin aborted /\ phase'[c] = "hook"
           /\ c \in sm'.active /\ ~IsTerminal(sm, c)'
<1>1. PICK failed \in SUBSET ToSet(BatchOf[r]) :
        ProcessQueue(Enqueue(ClearBatch(m), SortedBatch(r), failed), r, FALSE)
  BY DEF StartBatch
<1>. DEFINE k == ClearBatch(m)
            n == Enqueue(k, SortedBatch(r), failed)
<1>2. k \in Manager /\ k.queue = <<>> /\ k.active = {}
  BY ClearBatchType DEF ClearBatch, Manager
<1>. HIDE DEF k
<1>3. n \in Manager /\ QueueOK(n) /\ n.active = {}
  BY <1>2, EnqueueOK, EnqueueType, SortedBatchType
<1>. HIDE DEF n
<1>4. ProcessQueue(n, r, FALSE)
  BY <1>1 DEF n, k
<1>. QED BY <1>3, <1>4, ProcessQueueStarts

\* A batch begins only where the loop was at rest or has just stopped.
LEMMA BatchBegins ==
  ASSUME TypeOK, RestInv, ResultInv, NEW r \in Requests, Schedule(r) \/ FinishBatch
  PROVE  \/ UNCHANGED <<sm, phase, cur, aborted, userDenied>>
         \/ /\ AllDone /\ AllDone' /\ sm'.status = sm.status /\ sm'.active = {}
            /\ sm'.queue = <<>>
         \/ \E x \in Requests, m \in Manager : \E p :
              /\ AllDone /\ m.queue = <<>> /\ m.active = {} /\ m.status = sm.status
              /\ StartBatch(m, p, x) /\ Fresh(x) /\ aborted' = aborted
<1>1. CASE Schedule(r)
  <2>1. CASE ~isProcessing /\ sm.active = {}
    <3>1. loop = "idle" /\ sm.queue = <<>> /\ AllDone /\ sm \in Manager
      BY <2>1 DEF RestInv, WaveInv, Between, AllDone, TypeOK
    <3>2. StartBatch(sm, promise, r) /\ promise[r] = "new" /\ aborted' = aborted
      BY <1>1, <2>1 DEF Schedule
    <3>3. Fresh(r)
      BY <3>2 DEF ResultInv, PromiseInv, Fresh
    <3>. QED BY <2>1, <3>1, <3>2, <3>3
  <2>2. CASE isProcessing \/ sm.active # {}
    BY <1>1, <2>2 DEF Schedule, loopVars
  <2>. QED BY <2>1, <2>2
<1>2. CASE FinishBatch
  <2>. DEFINE m == ClearBatch(sm)
              p == [promise EXCEPT ![cur] = "resolved"]
  <2>1. /\ loop = "stop" /\ sm.active = {} /\ sm.queue = <<>> /\ AllDone
        /\ aborted' = aborted
    BY <1>2 DEF FinishBatch, RestInv, WaveInv, Between, AllDone
  <2>2. m \in Manager /\ m.active = {} /\ m.queue = <<>> /\ m.status = sm.status
    BY <2>1, ClearBatchType DEF ClearBatch, Manager, TypeOK
  <2>. HIDE DEF m, p
  <2>3. CASE requestQueue = <<>>
    <3>1. sm' = m /\ phase' = phase
      BY <1>2, <2>3 DEF FinishBatch, m
    <3>. QED BY <2>1, <2>2, <3>1 DEF AllDone
  <2>4. CASE requestQueue # <<>>
    <3>1. StartBatch(m, p, Head(requestQueue))
      BY <1>2, <2>1, <2>4 DEF FinishBatch, m, p
    <3>2. /\ requestQueue \in Seq(Requests) /\ Distinct(requestQueue)
      BY DEF TypeOK, ResultInv, PromiseInv, Distinct
    <3>3. Head(requestQueue) \in Requests /\ Head(requestQueue) \in ToSet(requestQueue)
      BY <2>4, <3>2, TailLine
    <3>4. Fresh(Head(requestQueue))
      BY <3>3 DEF ResultInv, PromiseInv, Fresh
    <3>. QED BY <2>1, <2>2, <3>1, <3>3, <3>4
  <2>. QED BY <2>3, <2>4
<1>. QED BY <1>1, <1>2
-----------------------------------------------------------------------------
(***************************************************************************)
(* A coroutine at work outlives its call's report only when the signal of  *)
(* the batch has fired, provided the host never calls cancelAll alone; and *)
(* a tool is started only after a look at the signal.                      *)
(***************************************************************************)
StartsUnreported ==
  \A c \in Calls : phase[c] # "run" /\ phase'[c] = "run" => sm.completed[c] = 0

LEMMA CallMoveWorked ==
  ASSUME TypeOK, RestInv, ResultInv, WorkedOnInv, NEW c \in Calls, CallMoves(c)
  PROVE  WorkedOnInv' /\ StartsUnreported
<1>0. /\ sm \in Manager /\ phase[c] # "done" /\ cur' = cur /\ aborted' = aborted
      /\ phase'[c] = "run" => cur \notin aborted
      /\ \A d \in Calls \ {c} : phase'[d] = phase[d]
  BY DEF TypeOK, CallMoves, hostVars
<1>1. \A d \in Calls : d \in sm.active /\ (d # c \/ phase'[c] # "done") => d \in sm'.active
  <2>1. CASE CallWrites(c)
    BY <1>0, <2>1 DEF CallWrites, UpdateStatus, Manager
  <2>2. CASE CallRefused(c)
    BY <1>0, <2>2 DEF CallRefused, CancelAllQueued, UpdateStatus, Manager
  <2>3. CASE CallReplaced(c)
    BY <1>0, <2>3 DEF CallReplaced, ReplaceActiveCallWithTailCall, Manager
  <2>. QED BY <2>1, <2>2, <2>3 DEF CallMoves
<1>2. AccountedIn(sm, ToSet(BatchOf[cur]))
  BY CallMoveAccounts
<1>3. WorkedOnInv'
  BY <1>0, <1>1 DEF WorkedOnInv
<1>4. StartsUnreported
  BY <1>0, <1>2 DEF WorkedOnInv, StartsUnreported, AccountedIn
<1>. QED BY <1>3, <1>4

LEMMA StepWorked ==
  ASSUME LateOutput = FALSE, "cancelAll" \notin HostCancels,
         TypeOK, RestInv, ResultInv, WorkedOnInv, [Next]_vars
  PROVE  WorkedOnInv' /\ StartsUnreported
<1>. USE DEF loopVars, hostVars, callVars
<1>0. /\ sm \in Manager /\ phase \in [Calls -> Phase] /\ cur \in Requests
      /\ loop = "top" => QueueOK(sm) /\ sm.active = {} /\ AllDone
      /\ loop # "idle" => AccountedIn(sm, ToSet(BatchOf[cur]))
  BY DEF TypeOK, RestInv, WaveInv, Between, AllDone, ResultInv
<1>1. ASSUME NEW r \in Requests, Schedule(r) \/ FinishBatch
      PROVE  WorkedOnInv' /\ StartsUnreported
  <2>1. CASE UNCHANGED <<sm, phase, cur, aborted>>
    BY <2>1 DEF WorkedOnInv, StartsUnreported
  <2>2. CASE AllDone'
    BY <2>2 DEF WorkedOnInv, StartsUnreported, AllDone
  <2>3. ASSUME NEW x \in Requests, NEW m \in Manager, NEW p,
               AllDone, m.queue = <<>>, m.active = {}, m.status = sm.status,
               StartBatch(m, p, x), Fresh(x)
        PROVE  WorkedOnInv' /\ StartsUnreported
    <3>1. \A c \in Calls : phase'[c] # "done" => phase'[c] = "hook" /\ c \in sm'.active
      BY <2>3, StartBatchStarts
    <3>. QED BY <3>1 DEF WorkedOnInv, StartsUnreported
  <2>. QED BY <1>1, <2>1, <2>2, <2>3, BatchBegins
<1>2. CASE FinishBatch
  BY <1>0, <1>1, <1>2
<1>3. CASE LoopTop
  <2>1. ProcessQueue(sm, cur, isCancelling) /\ loop = "top"
    BY <1>3 DEF LoopTop
  <2>2. \A c \in Calls : phase'[c] # "done" => phase'[c] = "hook" /\ c \in sm'.active
    BY <1>0, <2>1, ProcessQueueStarts
  <2>. QED BY <2>2 DEF WorkedOnInv, StartsUnreported
<1>4. CASE Validated
  <2>1. ExecuteWave(sm, cur, initial) /\ AllDone /\ loop # "idle"
    BY <1>4 DEF Validated, AllDone
  <2>2. \A c \in Calls : phase'[c] # "done" => c \in sm.active /\ c \in sm'.active
    BY <1>0, <2>1, ExecuteWaveAccounts
  <2>. QED BY <1>0, <2>1, <2>2 DEF WorkedOnInv, StartsUnreported, AccountedIn
<1>5. CASE Executed
  BY <1>5 DEF Executed, FinalizeWave, WorkedOnInv, StartsUnreported
<1>6. CASE TimerFires
  BY <1>6 DEF TimerFires, WorkedOnInv, StartsUnreported
<1>7. CASE CancelAll
  BY <1>7 DEF CancelAll
<1>8. ASSUME NEW r \in Requests, Abort(r) PROVE WorkedOnInv' /\ StartsUnreported
  BY <1>8 DEF Abort, WorkedOnInv, StartsUnreported
<1>9. ASSUME NEW r \in Requests, UserCancel(r) PROVE WorkedOnInv' /\ StartsUnreported
  <2>1. r = cur
    BY <1>9 DEF UserCancel, ResultInv, PromiseInv
  <2>2. aborted' = aborted \cup {r} /\ phase' = phase /\ cur' = cur
    BY <1>9 DEF UserCancel, CancelAllFrom
  <2>. QED BY <2>1, <2>2 DEF WorkedOnInv, StartsUnreported
<1>10. ASSUME NEW c \in Calls,
              \/ CallSteps(c) \/ ValidationThrows(c)
              \/ \E outcome \in {"proceed", "cancel", "modify"} : Answer(c, outcome)
       PROVE  WorkedOnInv' /\ StartsUnreported
  BY <1>10, CallStepMoves, CallMoveWorked
<1>11. CASE UNCHANGED vars
  BY <1>11 DEF vars, WorkedOnInv, StartsUnreported
<1>. QED BY <1>1, <1>2, <1>3, <1>4, <1>5, <1>6, <1>7, <1>8, <1>9, <1>10, <1>11
         DEF Next, LoopSteps, HostSteps, LateOutputArrives

(***************************************************************************)
(* Without late output, and with a host that fires the signal whenever it  *)
(* calls cancelAll, no tool is started for a call already reported.        *)
(***************************************************************************)
THEOREM NoToolStartsAfterReport ==
  ASSUME LateOutput = FALSE, "cancelAll" \notin HostCancels
  PROVE  Spec => NoStartAfterReport
<1>1. Init => WorkedOnInv
  BY DEF Init, WorkedOnInv
<1>2. TypeOK /\ RestInv /\ ResultInv /\ WorkedOnInv /\ [Next]_vars => WorkedOnInv'
  BY StepWorked
<1>3. TypeOK /\ RestInv /\ ResultInv /\ WorkedOnInv /\ [Next]_vars
        => [\A c \in Calls : phase[c] # "run" /\ phase'[c] = "run"
                               => sm.completed[c] = 0]_vars
  BY StepWorked DEF StartsUnreported
<1>. QED BY <1>1, <1>2, <1>3, TypeCorrect, RestInvHolds, ResultInvHolds, PTL
         DEF Spec, NoStartAfterReport
-----------------------------------------------------------------------------
(***************************************************************************)
(* The calls of a batch run in order.                                      *)
(***************************************************************************)
Before(b, c, d) == \E i, j \in 1..Len(b) : i < j /\ b[i] = c /\ b[j] = d

LEMMA PrecedesIs ==
  ASSUME cur \in Requests
  PROVE  \A c, d : Precedes(c, d) <=> Before(SortedBatch(cur), c, d)
<1>1. SortedBatch(cur) \in Seq(Calls)
  BY SortedBatchType
<1>. QED BY <1>1 DEF Precedes, Before

LEMMA BeforeStrict ==
  ASSUME NEW r \in Requests, NEW c, NEW d, Before(SortedBatch(r), c, d)
  PROVE  c # d /\ c \in ToSet(BatchOf[r]) /\ d \in ToSet(BatchOf[r])
<1>1. SortedBatch(r) \in Seq(Calls) /\ Len(SortedBatch(r)) \in Nat
  BY SortedBatchType
<1>2. PICK i \in 1..Len(SortedBatch(r)), j \in 1..Len(SortedBatch(r)) :
        i < j /\ SortedBatch(r)[i] = c /\ SortedBatch(r)[j] = d
  BY DEF Before
<1>3. c # d
  <2>1. ASSUME c = d PROVE FALSE
    <3>1. i = j
      BY <1>2, <2>1, SortedBatchDistinct
    <3>. QED BY <1>1, <1>2, <3>1
  <2>. QED BY <2>1
<1>4. c \in ToSet(SortedBatch(r)) /\ d \in ToSet(SortedBatch(r))
  BY <1>1, <1>2, ToSetIs
<1>. QED BY <1>3, <1>4, SortedBatchElements

\* QueueInOrder of a queue, a batch, the tail calls made and the calls untouched.
OrderedQueue(q, b, t, U) ==
  \A i \in 1..Len(q) : t[q[i]] = 0 =>
    /\ q[i] \in U
    /\ \A j \in 1..Len(q) : i < j => t[q[j]] = 0
    /\ \A d \in Calls : Before(b, q[i], d) => \E j \in 1..Len(q) : i < j /\ q[j] = d

UntouchedCalls == {c \in Calls : Untouched(c)}

LEMMA QueueInOrderIs ==
  ASSUME TypeOK
  PROVE  QueueInOrder <=> OrderedQueue(sm.queue, SortedBatch(cur), tails, UntouchedCalls)
<1>1. \A i \in 1..Len(sm.queue) : sm.queue[i] \in Calls
  BY ElementOfSeq DEF TypeOK, Manager
<1>2. \A c, d : Precedes(c, d) <=> Before(SortedBatch(cur), c, d)
  BY PrecedesIs DEF TypeOK
<1>. QED BY <1>1, <1>2 DEF QueueInOrder, OrderedQueue, UntouchedCalls

\* What is left of an ordered queue is ordered.
LEMMA OrderedSuffix ==
  ASSUME NEW m \in Manager, QueueOK(m), m.active = {}, NEW k \in 1..Len(m.queue),
         NEW b, NEW t, NEW U, NEW V, OrderedQueue(m.queue, b, t, U),
         \A c \in Calls : c \in U /\ c \notin {m.queue[i] : i \in 1..k} => c \in V
  PROVE  LET q == Dequeue(m, k).queue IN
         /\ OrderedQueue(q, b, t, V)
         /\ \A i \in 1..Len(q) : k + i \in 1..Len(m.queue) /\ q[i] = m.queue[k + i]
<1>. DEFINE s == m.queue
            q == Dequeue(m, k).queue
<1>0. /\ s \in Seq(Calls) /\ Len(s) \in Nat /\ k \in Nat /\ 1 <= k /\ k <= Len(s)
      /\ \A i \in 1..Len(s) : s[i] \in Calls
      /\ \A i, j \in 1..Len(s) : s[i] = s[j] => i = j
  BY ElementOfSeq DEF Manager, QueueOK
<1>1. q = SubSeq(s, k + 1, Len(s))
  BY DEF Dequeue, Manager
<1>. HIDE DEF q, s
<1>2. Len(q) = Len(s) - k /\ \A i \in 1..(Len(s) - k) : q[i] = s[k + i]
  <2>1. \A i \in (k + 1)..Len(s) : s[i] \in Calls
    BY <1>0
  <2>2. Len(q) = Len(s) - k
    BY <1>0, <1>1, <2>1, SubSeqProperties
  <2>3. ASSUME NEW i \in 1..(Len(s) - k) PROVE q[i] = s[k + i]
    BY <1>0, <1>1, <2>1, SubSeqProperties
  <2>. QED BY <2>2, <2>3
<1>3. \A i \in 1..Len(q) : k + i \in 1..Len(s) /\ q[i] = s[k + i]
  BY <1>0, <1>2
<1>4. ASSUME NEW i \in 1..Len(q), t[q[i]] = 0
      PROVE  /\ q[i] \in V
             /\ \A j \in 1..Len(q) : i < j => t[q[j]] = 0
             /\ \A d \in Calls : Before(b, q[i], d) => \E j \in 1..Len(q) : i < j /\ q[j] = d
  <2>1. /\ s[k + i] \in U
        /\ \A j \in 1..Len(s) : k + i < j => t[s[j]] = 0
        /\ \A d \in Calls : Before(b, s[k + i], d) => \E j \in 1..Len(s) : k + i < j /\ s[j] = d
    BY <1>3, <1>4 DEF OrderedQueue, s
  <2>2. \A x \in 1..k : s[x] # s[k + i]
    <3>1. ASSUME NEW x \in 1..k, s[x] = s[k + i] PROVE FALSE
      <4>1. x \in 1..Len(s) /\ x # k + i
        BY <1>0, <1>3
      <4>. QED BY <1>0, <1>3, <3>1, <4>1
    <3>. QED BY <3>1
  <2>3. q[i] \in V
    BY <1>0, <1>3, <2>1, <2>2 DEF s
  <2>4. ASSUME NEW j \in 1..Len(q), i < j PROVE t[q[j]] = 0
    <3>1. k + j \in 1..Len(s) /\ k + i < k + j
      BY <1>0, <1>3, <2>4
    <3>. QED BY <1>3, <2>1, <3>1
  <2>5. ASSUME NEW d \in Calls, Before(b, q[i], d)
        PROVE  \E j \in 1..Len(q) : i < j /\ q[j] = d
    <3>1. PICK y \in 1..Len(s) : k + i < y /\ s[y] = d
      BY <1>3, <2>1, <2>5
    <3>2. y - k \in 1..Len(q) /\ i < y - k /\ k + (y - k) = y
      BY <1>0, <1>2, <3>1
    <3>. QED BY <1>3, <3>1, <3>2
  <2>. QED BY <2>3, <2>4, <2>5
<1>5. OrderedQueue(q, b, t, V)
  BY <1>4 DEF OrderedQueue
<1>. QED BY <1>3, <1>5 DEF q, s

\* The sorted batch of a request that has left no trace is ordered.
LEMMA OrderedBatch ==
  ASSUME NEW r \in Requests, NEW t, NEW U,
         \A c \in ToSet(BatchOf[r]) : t[c] = 0 /\ c \in U
  PROVE  OrderedQueue(SortedBatch(r), SortedBatch(r), t, U)
<1>. DEFINE b == SortedBatch(r)
<1>1. b \in Seq(Calls)
  BY SortedBatchType
<1>2. \A i \in 1..Len(b) : b[i] \in ToSet(BatchOf[r])
  BY <1>1, ToSetIs, SortedBatchElements
<1>3. \A i, j \in 1..Len(b) : b[i] = b[j] => i = j
  BY SortedBatchDistinct
<1>. HIDE DEF b
<1>4. ASSUME NEW i \in 1..Len(b), NEW d \in Calls, Before(b, b[i], d)
      PROVE  \E j \in 1..Len(b) : i < j /\ b[j] = d
  BY <1>3, <1>4 DEF Before
<1>. QED BY <1>2, <1>4 DEF OrderedQueue, b

(***************************************************************************)
(* A step that starts no coroutine on a call at rest, takes nothing from   *)
(* the queue but all of it and keeps the results keeps the order.          *)
(***************************************************************************)
LEMMA QuietOrder ==
  ASSUME TypeOK, QueueOK(sm), OrderInv, UNCHANGED <<cur, tails, par>>,
         sm'.queue = sm.queue \/ sm'.queue = <<>>,
         \A c \in Calls : GoingOn(c)' => GoingOn(c),
         \A c \in Calls : ~GoingOn(c) => (c \in landed' <=> c \in landed),
         \A c \in Calls : phase'[c] = "modify" => ~par[c],
         \A c \in Calls : sm.completed[c] = 1 => sm'.completed[c] = 1,
         userDenied' => userDenied \/ sm'.queue = <<>>
  PROVE  OrderInv'
<1>0. /\ sm \in Manager /\ cur \in Requests
      /\ \A i \in 1..Len(sm.queue) : sm.queue[i] \in Calls
  BY ElementOfSeq DEF TypeOK, Manager
<1>1. \A c \in Calls : GoingOn(c) => c \notin Queued(sm)
  BY <1>0, QueuedCalls DEF GoingOn, OrderInv
<1>2. \A c \in Calls : c \in Queued(sm') => c \in Queued(sm)
  BY DEF Queued, ToSet
<1>3. \A c \in Calls : phase'[c] # "done" => c \notin Queued(sm')
  BY <1>1, <1>2 DEF GoingOn
<1>4. \A c \in Calls : ~GoingOn(c) /\ Untouched(c) => Untouched(c)'
  BY DEF GoingOn, Untouched
<1>5. \A c, d : Precedes(c, d)' <=> Precedes(c, d)
  BY DEF Precedes
<1>6. QueueInOrder'
  <2>1. CASE sm'.queue = <<>>
    BY <2>1 DEF QueueInOrder
  <2>2. CASE sm'.queue = sm.queue
    <3>1. ASSUME NEW i \in 1..Len(sm.queue), tails[sm.queue[i]] = 0
          PROVE  phase'[sm.queue[i]] = "done" /\ sm.queue[i] \notin landed'
      <4>1. sm.queue[i] \in Queued(sm) /\ sm.queue[i] \in Calls
        BY <1>0, QueuedIs
      <4>2. Untouched(sm.queue[i])
        BY <3>1 DEF OrderInv, QueueInOrder
      <4>. QED BY <1>1, <4>1, <4>2 DEF GoingOn, Untouched
    <3>2. \A i \in 1..Len(sm.queue) : tails[sm.queue[i]] = 0 =>
            /\ \A j \in 1..Len(sm.queue) : i < j => tails[sm.queue[j]] = 0
            /\ \A d \in Calls : Precedes(sm.queue[i], d) =>
                 \E j \in 1..Len(sm.queue) : i < j /\ sm.queue[j] = d
      BY DEF OrderInv, QueueInOrder
    <3>. QED BY <2>2, <3>1, <3>2 DEF QueueInOrder, Untouched, Precedes
  <2>. QED BY <2>1, <2>2
<1>7. AloneInWave' /\ ModifyingSerial'
  BY DEF OrderInv, AloneInWave, ModifyingSerial
<1>8. ASSUME NEW c \in Calls, GoingOn(c)', ~par'[c], tails'[c] = 0, NEW d \in Calls
      PROVE  /\ Precedes(d, c)' => sm'.completed[d] = 1
             /\ Precedes(c, d)' => Untouched(d)'
  <2>1. GoingOn(c) /\ ~par[c] /\ tails[c] = 0
    BY <1>8
  <2>2. Precedes(d, c) => sm'.completed[d] = 1
    BY <2>1 DEF OrderInv, SerialInOrder
  <2>3. ASSUME Precedes(c, d) PROVE Untouched(d)'
    <3>1. Untouched(d)
      BY <2>1, <2>3 DEF OrderInv, SerialInOrder
    <3>2. c # d
      BY <1>0, <2>3, PrecedesIs, BeforeStrict
    <3>3. ~GoingOn(d)
      BY <2>1, <3>2 DEF OrderInv, AloneInWave
    <3>. QED BY <1>4, <3>1, <3>3
  <2>. QED BY <1>5, <2>2, <2>3
<1>9. DeniedQueue'
  BY DEF OrderInv, DeniedQueue
<1>10. SerialInOrder'
  BY <1>8 DEF SerialInOrder
<1>. QED BY <1>3, <1>6, <1>7, <1>9, <1>10 DEF OrderInv

(***************************************************************************)
(* A round of the loop.                                                    *)
(***************************************************************************)
LEMMA PrecedesNext ==
  ASSUME cur' \in Requests
  PROVE  \A c, d : Precedes(c, d)' <=> Before(SortedBatch(cur'), c, d)
<1>1. SortedBatch(cur') \in Seq(Calls)
  BY SortedBatchType
<1>. QED BY <1>1 DEF Precedes, Before

LEMMA OrderedNext ==
  ASSUME cur' \in Requests, sm' \in Manager, NEW V,
         OrderedQueue(sm'.queue, SortedBatch(cur'), tails', V),
         \A c \in Calls : c \in V => Untouched(c)'
  PROVE  QueueInOrder'
<1>1. \A i \in 1..Len(sm'.queue) : sm'.queue[i] \in Calls
  BY ElementOfSeq DEF Manager
<1>2. ASSUME NEW i \in 1..Len(sm'.queue), tails'[sm'.queue[i]] = 0
      PROVE  /\ phase'[sm'.queue[i]] = "done" /\ sm'.queue[i] \notin landed'
             /\ \A j \in 1..Len(sm'.queue) : i < j => tails'[sm'.queue[j]] = 0
             /\ \A d \in Calls : Before(SortedBatch(cur'), sm'.queue[i], d) =>
                  \E j \in 1..Len(sm'.queue) : i < j /\ sm'.queue[j] = d
  BY <1>1, <1>2 DEF OrderedQueue, Untouched
<1>3. SortedBatch(cur') \in Seq(Calls)
  BY SortedBatchType
<1>. QED BY <1>2, <1>3 DEF QueueInOrder, Untouched, Precedes, Before

\* Where nothing goes on, the order of the queue is all there is.
LEMMA RestOrder ==
  ASSUME AllDone', sm'.active = {}, QueueInOrder', DeniedQueue'
  PROVE  OrderInv'
BY DEF AllDone, OrderInv, AloneInWave, ModifyingSerial, SerialInOrder, GoingOn

LEMMA EmptyQueueOrder ==
  ASSUME AllDone', sm'.active = {}, sm'.queue = <<>>
  PROVE  OrderInv'
BY RestOrder DEF QueueInOrder, DeniedQueue

LEMMA WaveOrder ==
  ASSUME TypeOK, NEW m \in Manager, QueueOK(m), m.active = {}, AllDone,
         cur' \in Requests, UNCHANGED <<tails, par, landed>>,
         AccountedIn(m, ToSet(BatchOf[cur'])),
         OrderedQueue(m.queue, SortedBatch(cur'), tails, UntouchedCalls),
         userDenied' => \A i \in 1..Len(m.queue) : tails[m.queue[i]] > 0,
         NEW k \in 1..Len(m.queue), WaveStarted(m, k)
  PROVE  OrderInv'
<1>. DEFINE q == m.queue
            b == SortedBatch(cur')
            V == {c \in Calls : Untouched(c) /\ c \notin sm'.active}
<1>0. /\ q \in Seq(Calls) /\ Len(q) \in Nat /\ k \in Nat /\ 1 <= k /\ k <= Len(q)
      /\ \A i \in 1..Len(q) : q[i] \in Calls
      /\ \A i, j \in 1..Len(q) : q[i] = q[j] => i = j
  <2>1. q \in Seq(Calls) /\ Len(q) \in Nat /\ k \in Nat /\ 1 <= k /\ k <= Len(q)
    BY DEF Manager
  <2>2. \A i \in 1..Len(q) : q[i] \in Calls
    BY <2>1, ElementOfSeq
  <2>3. \A i, j \in 1..Len(q) : q[i] = q[j] => i = j
    BY DEF QueueOK
  <2>. QED BY <2>1, <2>2, <2>3
<1>1. /\ sm' = Dequeue(m, k) /\ IsWave(q, k)
      /\ \A c \in Calls : phase'[c] = IF c \in sm'.active /\ m.status[c] = "validating"
                                      THEN "hook" ELSE "done"
  BY DEF WaveStarted, AllDone
<1>2. /\ sm' \in Manager /\ QueueOK(sm') /\ sm'.active = {q[i] : i \in 1..k}
      /\ sm'.completed = m.completed
  BY <1>1, DequeueType, DequeueOK DEF Dequeue, Manager
<1>3. /\ OrderedQueue(sm'.queue, b, tails, V)
      /\ \A i \in 1..Len(sm'.queue) : k + i \in 1..Len(q) /\ sm'.queue[i] = q[k + i]
  <2>1. \A c \in Calls : c \in UntouchedCalls /\ c \notin {q[i] : i \in 1..k} => c \in V
    BY <1>2 DEF UntouchedCalls
  <2>. HIDE DEF V
  <2>. QED BY <1>1, <2>1, OrderedSuffix
<1>4. /\ AccountedIn(m, ToSet(BatchOf[cur']))
      /\ OrderedQueue(q, b, tails, UntouchedCalls)
      /\ userDenied' => \A i \in 1..Len(q) : tails[q[i]] > 0
  OBVIOUS
<1>5. \A c \in Calls : c \in V => Untouched(c)'
  BY <1>1 DEF Untouched
<1>. HIDE DEF q, b, V
<1>6. QueueInOrder'
  BY <1>2, <1>3, <1>5, OrderedNext DEF b
<1>7. DeniedQueue'
  BY <1>3, <1>4 DEF DeniedQueue
<1>8. \A c \in Calls : phase'[c] # "done" => c \in sm'.active /\ phase'[c] = "hook"
  BY <1>1
<1>9. \A c \in Calls : GoingOn(c)' => c \in sm'.active
  BY <1>8 DEF GoingOn
<1>10. ASSUME NEW c \in Calls, phase'[c] # "done" PROVE c \notin Queued(sm')
  BY <1>2, <1>8, <1>10, QueuedCalls
<1>11. ASSUME NEW c \in Calls, c \in sm'.active, ~par[c]
       PROVE  sm'.active = {c} /\ c = q[1] /\ k = 1
  <2>1. PICK i \in 1..k : q[i] = c
    BY <1>2, <1>11
  <2>2. k = 1
    BY <1>11, <2>1, <1>1 DEF IsWave
  <2>3. i = 1 /\ \A j \in 1..k : j = 1
    BY <2>2
  <2>. QED BY <1>2, <2>1, <2>2, <2>3
<1>12. AloneInWave' /\ ModifyingSerial'
  <2>1. ASSUME NEW c \in Calls, NEW d \in Calls, GoingOn(c)', GoingOn(d)', ~par'[c]
        PROVE  c = d
    BY <1>9, <1>11, <2>1
  <2>. QED BY <1>8, <2>1 DEF AloneInWave, ModifyingSerial
<1>13. ASSUME NEW c \in Calls, GoingOn(c)', ~par'[c], tails'[c] = 0, NEW d \in Calls
       PROVE  /\ Precedes(d, c)' => sm'.completed[d] = 1
              /\ Precedes(c, d)' => phase'[d] = "done" /\ tails'[d] = 0 /\ d \notin landed'
  <2>1. c \in sm'.active /\ c = q[1] /\ k = 1 /\ sm'.active = {c} /\ 1 \in 1..Len(q)
    BY <1>0, <1>9, <1>11, <1>13
  <2>2. /\ \A j \in 1..Len(q) : 1 < j => tails[q[j]] = 0
        /\ \A y \in Calls : Before(b, c, y) => \E j \in 1..Len(q) : 1 < j /\ q[j] = y
    BY <1>4, <1>13, <2>1 DEF OrderedQueue
  <2>3. \A j \in 1..Len(q) : tails[q[j]] = 0
    BY <1>0, <1>13, <2>1, <2>2
  <2>4. ASSUME Before(b, d, c) PROVE sm'.completed[d] = 1
    <3>1. d \in ToSet(BatchOf[cur'])
      BY <2>4, BeforeStrict DEF b
    <3>2. d \notin Queued(m)
      <4>1. ASSUME d \in Queued(m) PROVE FALSE
        <5>1. PICK j \in 1..Len(q) : q[j] = d
          BY <4>1, QueuedIs DEF q
        <5>2. PICK i \in 1..Len(q) : j < i /\ q[i] = c
          BY <1>4, <2>3, <2>4, <5>1 DEF OrderedQueue
        <5>3. i = 1
          BY <1>0, <2>1, <5>2
        <5>. QED BY <1>0, <5>1, <5>2, <5>3
      <4>. QED BY <4>1
    <3>3. d \notin m.active
      OBVIOUS
    <3>. QED BY <1>2, <1>4, <3>1, <3>2, <3>3 DEF AccountedIn
  <2>5. ASSUME Before(b, c, d) PROVE phase'[d] = "done" /\ tails'[d] = 0 /\ d \notin landed'
    <3>1. PICK j \in 1..Len(q) : 1 < j /\ q[j] = d
      BY <2>2, <2>5
    <3>2. d # c
      BY <1>0, <2>1, <3>1
    <3>3. d \in UntouchedCalls /\ tails[d] = 0
      BY <1>4, <2>3, <3>1 DEF OrderedQueue
    <3>4. phase'[d] = "done"
      BY <1>8, <2>1, <3>2
    <3>. QED BY <3>3, <3>4 DEF UntouchedCalls, Untouched
  <2>. QED BY <2>4, <2>5, PrecedesNext DEF b
<1>14. SerialInOrder'
  BY <1>13 DEF SerialInOrder, Untouched
<1>. QED BY <1>6, <1>7, <1>10, <1>12, <1>14 DEF OrderInv

LEMMA RoundOrder ==
  ASSUME TypeOK, NEW m \in Manager, QueueOK(m), m.active = {}, AllDone,
         cur' \in Requests, UNCHANGED <<tails, par, landed>>,
         AccountedIn(m, ToSet(BatchOf[cur'])),
         OrderedQueue(m.queue, SortedBatch(cur'), tails, UntouchedCalls),
         userDenied' => \A i \in 1..Len(m.queue) : tails[m.queue[i]] > 0,
         NEW r, NEW cancelling, ProcessQueue(m, r, cancelling)
  PROVE  OrderInv'
<1>1. CASE Stopped(m)
  BY <1>1, EmptyQueueOrder DEF Stopped, AllDone
<1>2. CASE HeadReported(m)
  <2>. DEFINE n == Dequeue(m, 1)
  <2>1. 1 \in 1..Len(m.queue) /\ Head(m.queue) = m.queue[1]
    BY <1>2, EmptySeq DEF HeadReported, Manager
  <2>2. n \in Manager /\ n.active = {m.queue[i] : i \in 1..1} /\ n.status = m.status
    BY <2>1, DequeueType, DequeueOK
  <2>3. /\ OrderedQueue(n.queue, SortedBatch(cur'), tails, UntouchedCalls)
        /\ \A i \in 1..Len(n.queue) : 1 + i \in 1..Len(m.queue) /\ n.queue[i] = m.queue[1 + i]
    <3>1. \A c \in Calls : c \in UntouchedCalls /\ c \notin {m.queue[i] : i \in 1..1}
                            => c \in UntouchedCalls
      OBVIOUS
    <3>. HIDE DEF UntouchedCalls
    <3>. QED BY <2>1, <3>1, OrderedSuffix
  <2>. HIDE DEF n
  <2>4. /\ sm' = FinalizeCalls(n, {Head(m.queue)}) /\ phase' = phase
        /\ m.status[m.queue[1]] = "error"
    BY <1>2, <2>1 DEF HeadReported, n
  <2>5. sm' \in Manager
    BY <2>2, <2>4, FinalizeCallsType
  <2>6. sm'.queue = n.queue /\ sm'.active = {}
    BY <2>1, <2>2, <2>4 DEF FinalizeCalls, TerminalActive, IsTerminal, Terminal, Manager
  <2>7. \A c \in Calls : c \in UntouchedCalls => Untouched(c)'
    BY <2>4 DEF UntouchedCalls, Untouched
  <2>8. QueueInOrder'
    <3>. HIDE DEF UntouchedCalls
    <3>1. OrderedQueue(sm'.queue, SortedBatch(cur'), tails', UntouchedCalls)
      BY <2>3, <2>6
    <3>. QED BY <2>5, <2>7, <3>1, OrderedNext
  <2>9. DeniedQueue'
    BY <2>3, <2>6 DEF DeniedQueue
  <2>. QED BY <2>4, <2>6, <2>8, <2>9, RestOrder DEF AllDone
<1>3. ASSUME NEW k \in 1..Len(m.queue), WaveStarted(m, k) PROVE OrderInv'
  BY <1>3, WaveOrder
<1>. QED BY <1>1, <1>2, <1>3, ProcessQueueOutcome

LEMMA StartBatchOrder ==
  ASSUME TypeOK, NEW m \in Manager, m.queue = <<>>, m.active = {}, AllDone,
         NEW p, NEW r \in Requests, StartBatch(m, p, r), Fresh(r),
         UNCHANGED <<tails, par, landed>>
  PROVE  OrderInv'
<1>1. PICK failed \in SUBSET ToSet(BatchOf[r]) :
        ProcessQueue(Enqueue(ClearBatch(m), SortedBatch(r), failed), r, FALSE)
  BY DEF StartBatch
<1>. DEFINE z == ClearBatch(m)
            n == Enqueue(z, SortedBatch(r), failed)
<1>2. /\ z \in Manager /\ z.queue = <<>> /\ z.active = {}
      /\ \A c \in Calls : z.completed[c] = 0
  BY ClearBatchType DEF ClearBatch, Manager
<1>3. SortedBatch(r) \in Seq(Calls)
  BY SortedBatchType
<1>. HIDE DEF z
<1>4. n \in Manager /\ QueueOK(n) /\ n.active = {} /\ AccountedIn(n, ToSet(BatchOf[r]))
  BY <1>2, <1>3, EnqueueType, EnqueueOK, EnqueueAccounts
<1>5. n.queue = SortedBatch(r)
  BY <1>2, <1>3 DEF Enqueue, Manager
<1>6. cur' = r /\ userDenied' = FALSE
  BY DEF StartBatch
<1>7. \A c \in ToSet(BatchOf[r]) : tails[c] = 0 /\ c \in UntouchedCalls
  BY BatchCalls DEF Fresh, UntouchedCalls, Untouched, AllDone
<1>. HIDE DEF UntouchedCalls, n
<1>8. OrderedQueue(SortedBatch(r), SortedBatch(r), tails, UntouchedCalls)
  BY <1>7, OrderedBatch
<1>9. ProcessQueue(n, r, FALSE)
  BY <1>1 DEF n, z
<1>. QED BY <1>4, <1>5, <1>6, <1>8, <1>9, RoundOrder

LEMMA BatchBeginsOrder ==
  ASSUME TypeOK, RestInv, ResultInv, OrderInv, NEW r \in Requests,
         Schedule(r) \/ FinishBatch
  PROVE  OrderInv'
<1>0. UNCHANGED <<tails, par, landed>>
  BY DEF Schedule, FinishBatch
<1>1. CASE UNCHANGED <<sm, phase, cur, aborted, userDenied>>
  <2>. USE <1>0, <1>1
  <2>1. \A c, d : Precedes(c, d)' <=> Precedes(c, d)
    BY DEF Precedes
  <2>2. \A c \in Calls : (Untouched(c)' <=> Untouched(c)) /\ (GoingOn(c)' <=> GoingOn(c))
    BY DEF Untouched, GoingOn
  <2>. QED BY <2>1, <2>2
           DEF OrderInv, QueueInOrder, AloneInWave, ModifyingSerial, SerialInOrder,
               DeniedQueue, Queued, Untouched, GoingOn, Precedes
<1>2. CASE AllDone' /\ sm'.active = {} /\ sm'.queue = <<>>
  BY <1>2, EmptyQueueOrder
<1>3. ASSUME NEW x \in Requests, NEW m \in Manager, NEW p, AllDone, m.queue = <<>>,
             m.active = {}, StartBatch(m, p, x), Fresh(x)
      PROVE  OrderInv'
  BY <1>0, <1>3, StartBatchOrder
<1>. QED BY <1>1, <1>2, <1>3, BatchBegins

(***************************************************************************)
(* A coroutine's steps.                                                    *)
(***************************************************************************)
LEMMA CallMoveOrder ==
  ASSUME TypeOK, RestInv, ResultInv, OrderInv, NEW c \in Calls, CallMoves(c)
  PROVE  OrderInv'
<1>0. /\ sm \in Manager /\ QueueOK(sm) /\ GoingOn(c) /\ c \notin Queued(sm) /\ cur' = cur
      /\ \A d \in Calls \ {c} : phase'[d] = phase[d] /\ (d \in landed' <=> d \in landed)
      /\ phase'[c] = "modify" => ~par[c]
  BY DEF TypeOK, RestInv, WaveInv, OrderInv, CallMoves, GoingOn
<1>1. AccountedIn(sm, ToSet(BatchOf[cur]))
  BY CallMoveAccounts
<1>2. CASE CallWrites(c)
  <2>1. sm'.queue = sm.queue /\ sm'.active = sm.active /\ sm'.completed = sm.completed
    BY <1>0, <1>2 DEF CallWrites, UpdateStatus, Manager
  <2>2. /\ UNCHANGED <<cur, tails, par>> /\ userDenied' = userDenied
        /\ \A d \in Calls : phase'[d] = "modify" => ~par[d]
    BY <1>0, <1>2 DEF CallWrites, OrderInv, ModifyingSerial
  <2>3. /\ \A d \in Calls : GoingOn(d)' => GoingOn(d)
        /\ \A d \in Calls : ~GoingOn(d) => (d \in landed' <=> d \in landed)
    BY <1>0, <2>1 DEF GoingOn
  <2>. QED BY <1>0, <2>1, <2>2, <2>3, QuietOrder
<1>3. CASE CallRefused(c)
  <2>. DEFINE n == UpdateStatus(sm, c, "cancelled")
  <2>1. n \in Manager
    BY <1>0, UpdateStatusType DEF Status, Terminal
  <2>2. n.queue = sm.queue /\ n.active = sm.active /\ n.completed = sm.completed
    BY <1>0 DEF UpdateStatus, Manager
  <2>3. sm' = CancelAllQueued(n)
    BY <1>3 DEF CallRefused
  <2>. HIDE DEF n
  <2>4. /\ sm'.queue = <<>> /\ sm'.active = n.active
        /\ \A d \in Calls : sm'.completed[d] = IF d \in Queued(n) THEN n.completed[d] + 1
                                                              ELSE n.completed[d]
    BY <2>1, <2>3, CancelAllQueuedFacts
  <2>5. \A d \in Calls : sm.completed[d] = 1 => sm'.completed[d] = 1
    BY <1>1, <2>2, <2>4 DEF AccountedIn, Queued
  <2>6. /\ UNCHANGED <<cur, tails, par>>
        /\ \A d \in Calls : phase'[d] = "modify" => ~par[d]
    BY <1>0, <1>3 DEF CallRefused, OrderInv, ModifyingSerial
  <2>7. /\ \A d \in Calls : GoingOn(d)' => GoingOn(d)
        /\ \A d \in Calls : ~GoingOn(d) => (d \in landed' <=> d \in landed)
    BY <1>0, <2>2, <2>4 DEF GoingOn
  <2>. QED BY <1>0, <2>4, <2>5, <2>6, <2>7, QuietOrder
<1>4. CASE CallReplaced(c)
  <2>1. PICK status \in {"validating", "error"} :
          sm' = ReplaceActiveCallWithTailCall(sm, c, status)
    BY <1>4 DEF CallReplaced
  <2>2. /\ phase'[c] = "done" /\ tails'[c] > 0 /\ userDenied' = userDenied
        /\ \A d \in Calls : d # c => par'[d] = par[d] /\ tails'[d] = tails[d]
    BY <1>4 DEF CallReplaced, TypeOK
  <2>3. c \notin sm'.active /\ sm'.active \subseteq sm.active /\ sm' \in Manager
    BY <1>0, <2>1, ReplaceActiveCallType DEF ReplaceActiveCallWithTailCall, Manager,
       Status, Terminal
  <2>4. \A d \in Calls : GoingOn(d)' => d # c /\ GoingOn(d)
    BY <1>0, <2>2, <2>3 DEF GoingOn
  <2>5. \A d \in Calls : ~(GoingOn(d)' /\ ~par'[d])
    BY <1>0, <2>2, <2>4 DEF OrderInv, AloneInWave
  <2>. DEFINE q == sm.queue
              z == IF c \in sm.active THEN 1 ELSE 0
  <2>6. /\ q \in Seq(Calls) /\ Len(q) \in Nat
        /\ \A i \in 1..Len(q) : q[i] \in Calls /\ q[i] # c
    <3>1. q \in Seq(Calls)
      BY <1>0 DEF Manager
    <3>2. \A i \in 1..Len(q) : q[i] \in Calls
      BY <3>1, ElementOfSeq
    <3>. QED BY <1>0, <3>1, <3>2, QueuedIs
  <2>7. /\ Len(sm'.queue) = z + Len(q)
        /\ \A i \in 1..Len(q) : sm'.queue[z + i] = q[i]
        /\ \A i \in 1..Len(sm'.queue) : i <= z => sm'.queue[i] = c
    <3>1. CASE c \in sm.active
      <4>1. sm'.queue = <<c>> \o q
        BY <1>0, <2>1, <3>1 DEF ReplaceActiveCallWithTailCall, Manager
      <4>. QED BY <2>6, <3>1, <4>1
    <3>2. CASE c \notin sm.active
      <4>1. sm' = sm
        BY <2>1, <3>2 DEF ReplaceActiveCallWithTailCall
      <4>. QED BY <2>6, <3>2, <4>1
    <3>. QED BY <3>1, <3>2
  <2>8. z \in {0, 1}
    OBVIOUS
  <2>. HIDE DEF z, q
  <2>9. \A i \in 1..Len(sm'.queue) :
          \/ sm'.queue[i] = c
          \/ i - z \in 1..Len(q) /\ sm'.queue[i] = q[i - z]
    BY <2>6, <2>7, <2>8
  <2>10. \A d \in Calls : phase'[d] # "done" => d \notin Queued(sm')
    <3>1. ASSUME NEW d \in Calls, phase'[d] # "done", d \in Queued(sm') PROVE FALSE
      <4>1. d # c /\ phase[d] # "done"
        BY <1>0, <2>2, <3>1
      <4>2. PICK i \in 1..Len(sm'.queue) : sm'.queue[i] = d
        BY <2>3, <3>1, QueuedIs
      <4>3. d \in Queued(sm)
        BY <1>0, <2>9, <4>1, <4>2, QueuedIs DEF q
      <4>. QED BY <4>1, <4>3 DEF OrderInv
    <3>. QED BY <3>1
  <2>11. QueueInOrder'
    <3>. DEFINE V == {d \in Calls : d # c /\ Untouched(d)}
    <3>0. OrderedQueue(q, SortedBatch(cur), tails, UntouchedCalls)
      BY QueueInOrderIs DEF OrderInv, q
    <3>1. ASSUME NEW i \in 1..Len(sm'.queue), tails'[sm'.queue[i]] = 0
          PROVE  /\ sm'.queue[i] \in V
                 /\ \A j \in 1..Len(sm'.queue) : i < j => tails'[sm'.queue[j]] = 0
                 /\ \A d \in Calls : Before(SortedBatch(cur), sm'.queue[i], d) =>
                      \E j \in 1..Len(sm'.queue) : i < j /\ sm'.queue[j] = d
      <4>. DEFINE x == i - z
      <4>1. x \in 1..Len(q) /\ sm'.queue[i] = q[x] /\ tails[q[x]] = 0
        <5>1. sm'.queue[i] # c
          BY <2>2, <3>1
        <5>. QED BY <2>2, <2>6, <2>9, <3>1, <5>1
      <4>2. i = z + x /\ x \in Int /\ i \in Int
        BY <2>8
      <4>. HIDE DEF x
      <4>3. /\ q[x] \in UntouchedCalls
            /\ \A j \in 1..Len(q) : x < j => tails[q[j]] = 0
            /\ \A d \in Calls : Before(SortedBatch(cur), q[x], d)
                               => \E j \in 1..Len(q) : x < j /\ q[j] = d
        BY <3>0, <4>1 DEF OrderedQueue
      <4>4. q[x] \in V
        BY <2>6, <4>1, <4>3 DEF UntouchedCalls
      <4>5. ASSUME NEW j \in 1..Len(sm'.queue), i < j PROVE tails'[sm'.queue[j]] = 0
        <5>1. j - z \in 1..Len(q) /\ x < j - z /\ z + (j - z) = j
          BY <2>6, <2>7, <2>8, <4>1, <4>2, <4>5
        <5>2. sm'.queue[j] = q[j - z]
          BY <2>7, <5>1
        <5>. QED BY <2>2, <2>6, <4>3, <5>1, <5>2
      <4>6. ASSUME NEW d \in Calls, Before(SortedBatch(cur), q[x], d)
            PROVE  \E j \in 1..Len(sm'.queue) : i < j /\ sm'.queue[j] = d
        <5>1. PICK j \in 1..Len(q) : x < j /\ q[j] = d
          BY <4>3, <4>6
        <5>2. z + j \in 1..Len(sm'.queue) /\ i < z + j
          BY <2>6, <2>7, <2>8, <4>1, <4>2, <5>1
        <5>3. sm'.queue[z + j] = d
          BY <2>7, <5>1
        <5>. QED BY <5>2, <5>3
      <4>. QED BY <4>1, <4>4, <4>5, <4>6
    <3>2. \A d \in Calls : d \in V => Untouched(d)'
      BY <1>0, <2>2 DEF Untouched
    <3>. HIDE DEF V
    <3>3. OrderedQueue(sm'.queue, SortedBatch(cur'), tails', V)
      BY <1>0, <3>1 DEF OrderedQueue
    <3>4. cur' \in Requests
      BY <1>0 DEF TypeOK
    <3>. QED BY <2>3, <3>2, <3>3, <3>4, OrderedNext
  <2>12. DeniedQueue'
    <3>1. userDenied => \A i \in 1..Len(q) : tails'[q[i]] > 0
      BY <2>2, <2>6 DEF OrderInv, DeniedQueue, q
    <3>. QED BY <2>2, <2>9, <3>1 DEF DeniedQueue
  <2>13. AloneInWave' /\ SerialInOrder'
    BY <2>5 DEF AloneInWave, SerialInOrder
  <2>14. ModifyingSerial'
    BY <1>0, <2>2 DEF OrderInv, ModifyingSerial
  <2>. QED BY <2>10, <2>11, <2>12, <2>13, <2>14 DEF OrderInv
<1>. QED BY <1>2, <1>3, <1>4 DEF CallMoves

(***************************************************************************)
(* The rest of the loop, and the host.                                     *)
(***************************************************************************)
LEMMA LoopOrder ==
  ASSUME TypeOK, RestInv, ResultInv, OrderInv, LoopTop \/ Validated \/ Executed \/ TimerFires
  PROVE  OrderInv'
<1>0. /\ sm \in Manager /\ QueueOK(sm) /\ phase \in [Calls -> Phase] /\ cur \in Requests
      /\ loop = "top" => sm.active = {} /\ AllDone
      /\ loop # "idle" => AccountedIn(sm, ToSet(BatchOf[cur]))
  BY DEF TypeOK, RestInv, WaveInv, Between, AllDone, ResultInv
<1>1. cur' = cur /\ UNCHANGED <<par, tails, landed, userDenied>>
  BY DEF LoopTop, Validated, Executed, TimerFires, historyVars, callVars
<1>2. CASE LoopTop
  <2>1. ProcessQueue(sm, cur, isCancelling) /\ loop = "top"
    BY <1>2 DEF LoopTop
  <2>2. OrderedQueue(sm.queue, SortedBatch(cur), tails, UntouchedCalls)
    BY QueueInOrderIs DEF OrderInv
  <2>3. userDenied => \A i \in 1..Len(sm.queue) : tails[sm.queue[i]] > 0
    BY DEF OrderInv, DeniedQueue
  <2>. HIDE DEF UntouchedCalls
  <2>. QED BY <1>0, <1>1, <2>1, <2>2, <2>3, RoundOrder
<1>3. CASE Validated
  <2>1. ExecuteWave(sm, cur, initial) /\ AllDone /\ loop # "idle"
    BY <1>3 DEF Validated, AllDone
  <2>2. /\ AccountedIn(sm', ToSet(BatchOf[cur])) /\ sm'.queue = sm.queue
        /\ sm'.active \subseteq sm.active
        /\ \A c \in Calls : phase'[c] # "done" => c \in sm.active /\ phase'[c] = "run"
    BY <1>0, <2>1, ExecuteWaveAccounts
  <2>3. \A c \in Calls : sm.completed[c] = 1 => sm'.completed[c] = 1
    BY <1>0, <2>1, <2>2 DEF AccountedIn, Queued
  <2>4. \A c \in Calls : GoingOn(c)' => GoingOn(c)
    BY <2>2 DEF GoingOn
  <2>5. \A c \in Calls : phase'[c] = "modify" => ~par[c]
    BY <2>2
  <2>. QED BY <1>0, <1>1, <2>2, <2>3, <2>4, <2>5, QuietOrder
<1>4. CASE Executed
  <2>1. FinalizeWave(sm, madeProgress, initial) /\ loop # "idle"
    BY <1>4 DEF Executed
  <2>2. /\ AccountedIn(sm', ToSet(BatchOf[cur])) /\ sm'.queue = sm.queue
        /\ sm'.active \subseteq sm.active /\ phase' = phase
    BY <1>0, <2>1, FinalizeWaveAccounts
  <2>3. \A c \in Calls : sm.completed[c] = 1 => sm'.completed[c] = 1
    BY <1>0, <2>1, <2>2 DEF AccountedIn, Queued
  <2>4. \A c \in Calls : GoingOn(c)' => GoingOn(c)
    BY <2>2 DEF GoingOn
  <2>5. \A c \in Calls : phase'[c] = "modify" => ~par[c]
    BY <2>2 DEF OrderInv, ModifyingSerial
  <2>. QED BY <1>0, <1>1, <2>2, <2>3, <2>4, <2>5, QuietOrder
<1>5. CASE TimerFires
  <2>1. sm' = sm /\ phase' = phase
    BY <1>5 DEF TimerFires, callVars
  <2>2. \A c \in Calls : phase'[c] = "modify" => ~par[c]
    BY <2>1 DEF OrderInv, ModifyingSerial
  <2>3. \A c \in Calls : GoingOn(c)' => GoingOn(c)
    BY <2>1 DEF GoingOn
  <2>. QED BY <1>0, <1>1, <2>1, <2>2, <2>3, QuietOrder
<1>. QED BY <1>2, <1>3, <1>4, <1>5

LEMMA CancelAllOrder ==
  ASSUME TypeOK, RestInv, ResultInv, OrderInv, NEW q, NEW p, CancelAllFrom(q, p)
  PROVE  OrderInv'
<1>0. sm \in Manager /\ QueueOK(sm)
  BY DEF TypeOK, RestInv, WaveInv
<1>1. UNCHANGED <<cur, phase, par, tails, landed, userDenied>>
  BY DEF CancelAllFrom, loopVars, callVars
<1>2. /\ sm'.queue = sm.queue \/ sm'.queue = <<>>
      /\ sm'.active \subseteq sm.active
      /\ \A c \in Calls : sm.completed[c] = 1 => sm'.completed[c] = 1
  <2>1. CASE isCancelling
    BY <2>1 DEF CancelAllFrom
  <2>2. CASE ~isCancelling
    <3>. DEFINE n == CancelActive(sm)
    <3>1. sm' = CancelAllQueued(n)
      BY <2>2 DEF CancelAllFrom
    <3>2. n \in Manager /\ n.active \subseteq sm.active
      BY <1>0, CancelActiveAccounts, CancelActiveRest
    <3>3. loop # "idle" => AccountedIn(sm, ToSet(BatchOf[cur])) /\ AccountedIn(n, ToSet(BatchOf[cur]))
      BY <1>0, CancelActiveAccounts DEF ResultInv
    <3>. HIDE DEF n
    <3>4. /\ sm'.queue = <<>> /\ sm'.active = n.active
          /\ \A c \in Calls : sm'.completed[c] = IF c \in Queued(n) THEN n.completed[c] + 1
                                                                ELSE n.completed[c]
      BY <3>1, <3>2, CancelAllQueuedFacts
    <3>5. \A c \in Calls : sm.completed[c] = 1 => sm'.completed[c] = 1
      <4>1. CASE loop = "idle"
        BY <4>1 DEF RestInv
      <4>2. CASE loop # "idle"
        <5>1. \A c \in Calls : sm.completed[c] = 1 =>
                c \in ToSet(BatchOf[cur]) /\ c \notin sm.active /\ c \notin Queued(sm)
          BY <3>3, <4>2 DEF AccountedIn
        <5>2. Queued(n) = Queued(sm)
          BY <1>0, CancelActiveAccounts DEF Queued, n
        <5>. QED BY <3>2, <3>3, <3>4, <4>2, <5>1, <5>2 DEF AccountedIn
      <4>. QED BY <4>1, <4>2
    <3>. QED BY <3>2, <3>4, <3>5
  <2>. QED BY <2>1, <2>2
<1>3. /\ \A c \in Calls : GoingOn(c)' => GoingOn(c)
      /\ \A c \in Calls : phase'[c] = "modify" => ~par[c]
  BY <1>1, <1>2 DEF GoingOn, OrderInv, ModifyingSerial
<1>. QED BY <1>0, <1>1, <1>2, <1>3, QuietOrder

(***************************************************************************)
(* After a refusal of the user, coroutines start on tail calls only.       *)
(***************************************************************************)
StartsTailsOnly ==
  \A c \in Calls : userDenied /\ userDenied' /\ tails[c] = 0
                     => ~(phase[c] = "done" /\ phase'[c] = "hook")

LEMMA StepOrder ==
  ASSUME LateOutput = FALSE, TypeOK, RestInv, ResultInv, OrderInv, [Next]_vars
  PROVE  OrderInv' /\ StartsTailsOnly
<1>. USE DEF loopVars, hostVars, callVars, historyVars
<1>0. /\ sm \in Manager /\ QueueOK(sm) /\ phase \in [Calls -> Phase]
      /\ loop = "top" => sm.active = {} /\ AllDone
      /\ loop # "idle" => AccountedIn(sm, ToSet(BatchOf[cur]))
  BY DEF TypeOK, RestInv, WaveInv, Between, AllDone, ResultInv
<1>1. ASSUME NEW r \in Requests, Schedule(r) \/ FinishBatch
      PROVE  OrderInv' /\ StartsTailsOnly
  <2>1. OrderInv'
    BY <1>1, BatchBeginsOrder
  <2>2. CASE UNCHANGED <<sm, phase, cur, aborted, userDenied>>
    BY <2>1, <2>2 DEF StartsTailsOnly
  <2>3. CASE AllDone'
    BY <2>1, <2>3 DEF StartsTailsOnly, AllDone
  <2>4. ASSUME NEW x \in Requests, NEW m \in Manager, NEW p, StartBatch(m, p, x)
        PROVE  StartsTailsOnly
    BY <2>4 DEF StartBatch, StartsTailsOnly
  <2>. QED BY <1>1, <2>1, <2>2, <2>3, <2>4, BatchBegins
<1>2. CASE FinishBatch
  BY <1>1, <1>2 DEF TypeOK
<1>3. CASE LoopTop
  <2>1. OrderInv'
    BY <1>3, LoopOrder
  <2>2. ProcessQueue(sm, cur, isCancelling) /\ loop = "top"
    BY <1>3 DEF LoopTop
  <2>3. \A c \in Calls : phase'[c] # "done" => c \in Queued(sm)
    BY <1>0, <2>2, ProcessQueueAccounts
  <2>4. ASSUME userDenied, NEW c \in Calls, c \in Queued(sm) PROVE tails[c] > 0
    <3>1. PICK i \in 1..Len(sm.queue) : sm.queue[i] = c
      BY <1>0, <2>4, QueuedIs
    <3>. QED BY <2>4, <3>1 DEF OrderInv, DeniedQueue
  <2>5. StartsTailsOnly
    BY <2>3, <2>4 DEF StartsTailsOnly
  <2>. QED BY <2>1, <2>5
<1>4. CASE Validated
  <2>1. OrderInv'
    BY <1>4, LoopOrder
  <2>2. ExecuteWave(sm, cur, initial) /\ AllDone /\ loop # "idle"
    BY <1>4 DEF Validated, AllDone
  <2>3. \A c \in Calls : phase'[c] # "done" => phase'[c] = "run"
    BY <1>0, <2>2, ExecuteWaveAccounts
  <2>. QED BY <2>1, <2>3 DEF StartsTailsOnly
<1>5. CASE Executed \/ TimerFires
  <2>1. phase' = phase
    BY <1>5 DEF Executed, TimerFires, FinalizeWave
  <2>. QED BY <1>5, <2>1, LoopOrder DEF StartsTailsOnly
<1>6. ASSUME NEW q, NEW p, CancelAllFrom(q, p) PROVE OrderInv' /\ StartsTailsOnly
  <2>1. phase' = phase
    BY <1>6 DEF CancelAllFrom
  <2>2. OrderInv'
    BY <1>6, CancelAllOrder
  <2>. QED BY <2>1, <2>2 DEF StartsTailsOnly
<1>7. ASSUME NEW r \in Requests, UserCancel(r) PROVE OrderInv' /\ StartsTailsOnly
  BY <1>6, <1>7 DEF UserCancel
<1>8. ASSUME UNCHANGED <<sm, cur, phase, par, tails, landed, userDenied>>
      PROVE  OrderInv' /\ StartsTailsOnly
  <2>1. \A c \in Calls : GoingOn(c)' => GoingOn(c)
    BY <1>8 DEF GoingOn
  <2>2. \A c \in Calls : phase'[c] = "modify" => ~par[c]
    BY <1>8 DEF OrderInv, ModifyingSerial
  <2>3. OrderInv'
    BY <1>0, <1>8, <2>1, <2>2, QuietOrder
  <2>. QED BY <1>8, <2>3 DEF StartsTailsOnly
<1>9. ASSUME NEW r \in Requests, Abort(r) PROVE OrderInv' /\ StartsTailsOnly
  BY <1>8, <1>9 DEF Abort
<1>10. ASSUME NEW c \in Calls,
              \/ CallSteps(c) \/ ValidationThrows(c)
              \/ \E outcome \in {"proceed", "cancel", "modify"} : Answer(c, outcome)
       PROVE  OrderInv' /\ StartsTailsOnly
  <2>1. CallMoves(c)
    BY <1>10, CallStepMoves
  <2>2. StartsTailsOnly
    BY <2>1 DEF CallMoves, StartsTailsOnly
  <2>. QED BY <2>1, <2>2, CallMoveOrder
<1>11. CASE UNCHANGED vars
  BY <1>8, <1>11 DEF vars
<1>12. CASE CancelAll
  BY <1>6, <1>12 DEF CancelAll
<1>. QED BY <1>1, <1>2, <1>3, <1>4, <1>5, <1>7, <1>9, <1>10, <1>11, <1>12
         DEF Next, LoopSteps, HostSteps, LateOutputArrives

(***************************************************************************)
(* Without late output the queue and the calls going on stand in order.    *)
(***************************************************************************)
THEOREM OrderInvHolds ==
  ASSUME LateOutput = FALSE
  PROVE  Spec => []OrderInv
<1>1. Init => OrderInv
  <2>. SUFFICES ASSUME Init PROVE OrderInv
    OBVIOUS
  <2>. QED BY DEF Init, EmptyManager, OrderInv, QueueInOrder, AloneInWave, ModifyingSerial,
                  SerialInOrder, DeniedQueue, GoingOn
<1>2. TypeOK /\ RestInv /\ ResultInv /\ OrderInv /\ [Next]_vars => OrderInv'
  BY StepOrder
<1>. QED BY <1>1, <1>2, TypeCorrect, RestInvHolds, ResultInvHolds, PTL DEF Spec

(***************************************************************************)
(* While a call that is not parallelizable runs as the model asked for it, *)
(* every earlier call of its batch has its result and no later one has     *)
(* begun: the waves of _processNextItem keep the order the model gave.     *)
(***************************************************************************)
THEOREM SerialCallsRunInOrder ==
  ASSUME LateOutput = FALSE
  PROVE  Spec => []SerialCallsRunAlone
<1>1. TypeOK /\ OrderInv => SerialCallsRunAlone
  <2>. SUFFICES ASSUME TypeOK, OrderInv PROVE SerialCallsRunAlone
    OBVIOUS
  <2>1. \A d \in ToSet(BatchOf[cur]) : d \in Calls
    BY BatchCalls DEF TypeOK
  <2>. QED BY <2>1 DEF OrderInv, SerialInOrder, SerialCallsRunAlone, GoingOn, Untouched
<1>. QED BY <1>1, TypeCorrect, OrderInvHolds, PTL

(***************************************************************************)
(* A call whose arguments the user is editing is the only active call, so  *)
(* state.firstActiveCall is the call the edit was meant for.               *)
(***************************************************************************)
THEOREM ModificationsTouchOwnCall ==
  ASSUME LateOutput = FALSE
  PROVE  Spec => []ModifiesOwnCall
<1>1. TypeOK /\ OrderInv => ModifiesOwnCall
  <2>. SUFFICES ASSUME TypeOK, OrderInv, NEW c \in sm.active, phase[c] = "modify"
                PROVE  sm.active = {c}
    BY DEF ModifiesOwnCall
  <2>1. sm.active \subseteq Calls /\ c \in Calls
    BY DEF TypeOK, Manager
  <2>2. ~par[c]
    BY <2>1 DEF OrderInv, ModifyingSerial
  <2>3. \A d \in sm.active : d = c
    BY <2>1, <2>2 DEF OrderInv, AloneInWave, GoingOn
  <2>. QED BY <2>3
<1>. QED BY <1>1, TypeCorrect, OrderInvHolds, PTL

(***************************************************************************)
(* Once the user has refused a call, no other call of the batch is taken   *)
(* up, tail calls of those already running excepted.                       *)
(***************************************************************************)
THEOREM DenialEmptiesQueue ==
  ASSUME LateOutput = FALSE
  PROVE  Spec => DenialStopsQueue
<1>1. TypeOK /\ RestInv /\ ResultInv /\ OrderInv /\ [Next]_vars
        => [\A c \in Calls : userDenied /\ userDenied' /\ tails[c] = 0
                               => ~(phase[c] = "done" /\ phase'[c] = "hook")]_vars
  BY StepOrder DEF StartsTailsOnly
<1>. QED BY <1>1, TypeCorrect, RestInvHolds, ResultInvHolds, OrderInvHolds, PTL
         DEF Spec, DenialStopsQueue
=============================================================================
