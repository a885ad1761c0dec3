------------------------------ MODULE AgentRun ------------------------------
(***************************************************************************)
(* A run of a sub-agent (packages/core/src/agents/local-executor.ts): its  *)
(* turns, the deadline that stands still while the user is asked, the last *)
(* turn with a grace period of its own, and how a run ends.  The tools of  *)
(* a turn are one batch of a Scheduler, told here by what each call does.  *)
(***************************************************************************)
EXTENDS Naturals

CONSTANTS
  Calls,       \* the calls the model may make in a turn
  Completing,  \* those of complete_task
  MaxTurns,
  Budget,      \* what the deadline and the grace period allow, in ticks
  Grace,
  MaxThrows    \* bound: questions that end with an exception

ASSUME AgentAssumption ==
  /\ Completing \subseteq Calls
  /\ MaxTurns \in Nat /\ Budget \in Nat /\ Grace \in Nat /\ MaxThrows \in Nat

VARIABLES
  phase,     \* where runInternal and executeTurn are
  turn,      \* turnCounter
  grace,     \* is this the final warning turn
  reason,    \* terminateReason
  signal,    \* has the user cancelled
  deadline,  \* the two timers
  period,
  calls,     \* the calls of this turn
  throws,
  late       \* history: turns that began when the run had reached a limit

vars == <<phase, turn, grace, reason, signal, deadline, period, calls, throws, late>>
clocks == <<deadline, period>>

Phase == {"loop", "model", "tools", "over"}

\* AgentTerminateMode
Reason == {"ERROR", "TIMEOUT", "GOAL", "MAX_TURNS", "ABORTED", "NO_COMPLETE_TASK"}
Recoverable == {"TIMEOUT", "MAX_TURNS", "NO_COMPLETE_TASK"}

Timer(ticks) == [state: {"off", "running", "paused", "fired"}, left: 0..ticks]
Started(ticks) == [state |-> "running", left |-> ticks]

\* An asking call waits for the user, who may have it in an editor, and one
\* that is running may ask for more of the sandbox.  A refused call is one
\* whose outcome is Cancel.
Waiting == {"asking", "expanding"}
Active == {"validating", "editing", "scheduled", "running"} \cup Waiting
Terminal == {"success", "error", "refused", "cancelled"}
Status == {"none", "queued"} \cup Active \cup Terminal

NoCalls == [c \in Calls |-> "none"]
Are(status) == {c \in Calls : calls[c] = status}
AreActive == {c \in Calls : calls[c] \in Active}
All(set, status) == [c \in Calls |-> IF c \in set THEN status ELSE calls[c]]

TypeOK ==
  /\ phase \in Phase /\ turn \in 0..MaxTurns /\ late \in Nat
  /\ grace \in BOOLEAN /\ signal \in BOOLEAN
  /\ reason \in Reason
  /\ deadline \in Timer(Budget) /\ period \in Timer(Grace)
  /\ calls \in [Calls -> Status]
  /\ throws \in 0..MaxThrows
  /\ grace => reason \in Recoverable \cup {"GOAL"}

Init ==
  /\ phase = "loop" /\ turn = 0 /\ grace = FALSE /\ reason = "ERROR"
  /\ signal = FALSE
  /\ deadline = Started(Budget) /\ period = [state |-> "off", left |-> Grace]
  /\ calls = NoCalls /\ throws = 0 /\ late = 0

\* Mutant: a turn does not hear of its deadline.
OnlyUser == signal \/ (grace /\ period.state = "fired")

\* combinedSignal.aborted, and the one of the two that says timeout.
TimedOut == IF grace THEN period.state = "fired" ELSE deadline.state = "fired"
Aborted == signal \/ TimedOut
Cut == IF TimedOut THEN "TIMEOUT" ELSE "ABORTED"

(***************************************************************************)
(* The loop of runInternal, and the last turn.                             *)
(***************************************************************************)
AtLimit == turn >= MaxTurns \/ deadline.state = "fired"

BeginTurn ==
  /\ phase' = "model" /\ calls' = NoCalls
  /\ late' = IF AtLimit THEN late + 1 ELSE late

\* executeFinalWarningTurn
Recover(r) ==
  /\ grace' = TRUE /\ reason' = r /\ period' = Started(Grace)
  /\ BeginTurn
  /\ UNCHANGED <<turn, deadline>>

\* The timers are cleared.
End(r) ==
  /\ phase' = "over" /\ reason' = r
  /\ deadline' = [deadline EXCEPT !.state = "fired"]
  /\ period' = [period EXCEPT !.state = IF @ = "fired" THEN @ ELSE "off"]
  /\ UNCHANGED <<turn, grace, late, calls>>

\* What follows a turn that stops.
Stop(r) ==
  \/ grace /\ End(IF r = "GOAL" THEN r ELSE reason)
  \/ ~grace /\ r \in Recoverable /\ Recover(r)
  \/ ~grace /\ r \notin Recoverable /\ End(r)

LoopTop ==
  /\ phase = "loop"
  /\ \/ turn >= MaxTurns /\ Stop("MAX_TURNS")
     \/ turn < MaxTurns /\ Aborted /\ Stop(Cut)
     \/ /\ turn < MaxTurns /\ ~Aborted
        /\ turn' = turn + 1 /\ BeginTurn
        /\ UNCHANGED <<grace, reason, clocks>>
  /\ UNCHANGED <<signal, throws>>

(***************************************************************************)
(* executeTurn                                                             *)
(***************************************************************************)
\* The model answers with calls, some of which are answered at once: their
\* arguments do not parse, or the tool is not one of the agent's.
ModelCalls ==
  /\ phase = "model" /\ ~Aborted
  /\ \E asked \in SUBSET Calls : \E blocked \in SUBSET asked :
       /\ asked # {}
       /\ calls' = [c \in Calls |-> IF c \in blocked THEN "error"
                                    ELSE IF c \in asked THEN "queued" ELSE "none"]
  /\ phase' = "tools"
  /\ UNCHANGED <<turn, grace, reason, signal, clocks, throws, late>>

ModelCallsNothing ==
  /\ phase = "model" /\ ~Aborted
  /\ Stop("NO_COMPLETE_TASK")
  /\ UNCHANGED <<signal, throws>>

\* The stream is left when the signal has fired.
ModelIsCut ==
  /\ phase = "model" /\ Aborted
  /\ Stop(Cut)
  /\ UNCHANGED <<signal, throws>>

\* Mutant: an exception of the last turn is treated like any other.
Rethrows == FALSE

\* The last turn fails without an exception.
Swallows == grace

\* An exception: an AbortError if the signal has fired.
ModelThrows ==
  /\ phase = "model"
  /\ \/ Swallows /\ End(reason)
     \/ ~Swallows /\ deadline.state = "fired" /\ ~signal /\ Recover("TIMEOUT")
     \/ ~Swallows /\ End("ERROR")
  /\ UNCHANGED <<signal, throws>>

(***************************************************************************)
(* The batch: waves of calls that are decided, and then run, together; the *)
(* rest is queued.                                                         *)
(***************************************************************************)
BatchOnly == UNCHANGED <<phase, turn, grace, reason, signal, period, late>>

StartWave ==
  /\ phase = "tools" /\ AreActive = {} /\ Are("queued") # {}
  /\ \/ Aborted /\ calls' = All(Are("queued"), "cancelled")
     \/ /\ ~Aborted
        /\ \E wave \in {Are("queued")} \cup {{c} : c \in Are("queued")} :
             calls' = All(wave, "validating")
  /\ BatchOnly /\ UNCHANGED <<deadline, throws>>

\* The call is allowed, turned down by the policy, or its check is cut.
Decided(c) ==
  /\ calls[c] = "validating"
  /\ \E s \in {"scheduled", "error"} \cup IF Aborted THEN {"cancelled"} ELSE {} :
       calls' = [calls EXCEPT ![c] = s]
  /\ BatchOnly /\ UNCHANGED <<deadline, throws>>

\* DeadlineTimer
Paused(t) == IF t.state = "running" THEN [t EXCEPT !.state = "paused"] ELSE t
Resumed(t) == IF t.state = "paused" THEN [t EXCEPT !.state = "running"] ELSE t

\* resolveConfirmation, before a call runs and out of one that runs.
Ask(c) ==
  /\ calls[c] \in {"validating", "running"} /\ ~Aborted
  /\ calls' = [calls EXCEPT ![c] = IF @ = "running" THEN "expanding" ELSE "asking"]
  /\ deadline' = Paused(deadline)
  /\ BatchOnly /\ UNCHANGED throws

UserAllows(c) ==
  /\ calls[c] \in Waiting
  /\ calls' = [calls EXCEPT ![c] = IF @ = "expanding" THEN "running" ELSE "scheduled"]
  /\ deadline' = Resumed(deadline)
  /\ BatchOnly /\ UNCHANGED throws

\* What is queued is cancelled with a call that has not run, without an
\* outcome of its own.
UserRefuses(c) ==
  /\ \/ /\ calls[c] = "asking"
        /\ calls' = [All(Are("queued"), "cancelled") EXCEPT ![c] = "refused"]
     \/ /\ calls[c] = "expanding"
        /\ calls' = [calls EXCEPT ![c] = "error"]
  /\ deadline' = Resumed(deadline)
  /\ BatchOnly /\ UNCHANGED throws

\* ModifyWithEditor: the clock runs again, and no signal reaches the editor.
UserModifies(c) ==
  /\ calls[c] = "asking"
  /\ calls' = [calls EXCEPT ![c] = "editing"]
  /\ deadline' = Resumed(deadline)
  /\ BatchOnly /\ UNCHANGED throws

\* The loop goes round: the modified call is checked, and asked about, again.
EditorCloses(c) ==
  /\ calls[c] = "editing"
  /\ calls' = [calls EXCEPT ![c] = IF Aborted THEN "cancelled" ELSE "validating"]
  /\ BatchOnly /\ UNCHANGED <<deadline, throws>>

\* The wait ends with an exception, and nobody says that it has ended.
Failed(c) == IF calls[c] = "expanding" \/ ~Aborted THEN "error" ELSE "cancelled"

WaitIsCut(c) ==
  /\ calls[c] \in Waiting /\ Aborted
  /\ calls' = [calls EXCEPT ![c] = Failed(c)]
  /\ BatchOnly /\ UNCHANGED <<deadline, throws>>

WaitThrows(c) ==
  /\ calls[c] \in Waiting /\ ~Aborted /\ throws < MaxThrows
  /\ calls' = [calls EXCEPT ![c] = Failed(c)] /\ throws' = throws + 1
  /\ BatchOnly /\ UNCHANGED deadline

RunWave ==
  /\ Are("scheduled") # {} /\ AreActive = Are("scheduled")
  /\ calls' = All(AreActive, "running")
  /\ BatchOnly /\ UNCHANGED <<deadline, throws>>

\* What ends after the signal has fired is recorded as cancelled, or failed.
ToolEnds(c) ==
  /\ calls[c] = "running"
  /\ \E s \in {"error"} \cup {IF Aborted THEN "cancelled" ELSE "success"} :
       calls' = [calls EXCEPT ![c] = s]
  /\ BatchOnly /\ UNCHANGED <<deadline, throws>>

\* processFunctionCalls, when the batch is done.
ToolsDone ==
  /\ phase = "tools" /\ AreActive = {} /\ Are("queued") = {}
  /\ LET completed == Completing \cap Are("success") # {} IN
     \/ Are("cancelled") # {} /\ Stop("ABORTED")
     \/ Are("cancelled") = {} /\ completed /\ Stop("GOAL")
     \/ Are("cancelled") = {} /\ ~completed /\ grace /\ End(reason)
     \/ /\ Are("cancelled") = {} /\ ~completed /\ ~grace
        /\ phase' = "loop"
        /\ UNCHANGED <<turn, grace, reason, clocks, calls, late>>
  /\ UNCHANGED <<signal, throws>>

(***************************************************************************)
(* Time, and the user.                                                     *)
(***************************************************************************)
Ticking(t) == t.state = "running" /\ t.left > 0
Ticked(t) == IF Ticking(t) THEN [t EXCEPT !.left = @ - 1] ELSE t
Fired(t) == IF t.state = "running" /\ t.left = 0 THEN [t EXCEPT !.state = "fired"] ELSE t

Tick ==
  /\ phase # "over" /\ (Ticking(deadline) \/ Ticking(period))
  /\ deadline' = Ticked(deadline) /\ period' = Ticked(period)
  /\ UNCHANGED <<phase, turn, grace, reason, signal, calls, throws, late>>

Fire ==
  /\ phase # "over"
  /\ <<Fired(deadline), Fired(period)>> # clocks
  /\ deadline' = Fired(deadline) /\ period' = Fired(period)
  /\ UNCHANGED <<phase, turn, grace, reason, signal, calls, throws, late>>

Cancel ==
  /\ phase # "over" /\ ~signal
  /\ signal' = TRUE
  /\ UNCHANGED <<phase, turn, grace, reason, clocks, calls, throws, late>>

OfCall(c) == Decided(c) \/ Ask(c)
Answer(c) ==
  UserAllows(c) \/ UserRefuses(c) \/ UserModifies(c) \/ EditorCloses(c) \/ WaitThrows(c)

Next ==
  \/ LoopTop \/ ModelCalls \/ ModelCallsNothing \/ ModelIsCut \/ ModelThrows
  \/ StartWave \/ RunWave \/ ToolsDone
  \/ \E c \in Calls : OfCall(c) \/ Answer(c) \/ WaitIsCut(c) \/ ToolEnds(c)
  \/ Tick \/ Fire \/ Cancel

\* The program goes on, time passes, and what the signal reaches ends.
\* Nothing is assumed of a model or a tool that is not cut, or of the user,
\* who may leave a question unanswered and an editor open.
Progress ==
  \/ LoopTop \/ ModelIsCut \/ StartWave \/ RunWave \/ ToolsDone
  \/ \E c \in Calls : OfCall(c) \/ WaitIsCut(c) \/ (Aborted /\ ToolEnds(c))

Spec == Init /\ [][Next]_vars
FairSpec == Spec /\ WF_vars(Progress) /\ WF_vars(Tick) /\ WF_vars(Fire)

(***************************************************************************)
(* A run that has used its turns or its time asks the model once more and  *)
(* not again ("a single, final recovery turn"), whatever happens to that   *)
(* turn.                                                                   *)
(***************************************************************************)
OneLastTurn == late <= 1

(***************************************************************************)
(* Every run ends that the user does not hold up for ever: a model or a    *)
(* tool that never answers is cut by the deadline.  The user holds it up   *)
(* with a question, for which the clock stands still; with an editor left  *)
(* open, which no deadline closes; or by having the same call asked about  *)
(* again and again.  So does a wait that ended with an exception, since    *)
(* nobody starts the clock again.                                          *)
(***************************************************************************)
StandsStill ==
  /\ ~grace /\ deadline.state = "paused"
  /\ Are("asking") \cup Are("expanding") # {} \/ throws > 0

HeldUp == StandsStill \/ Are("editing") # {}

RunEnds == <>(phase = "over") \/ []<>HeldUp

(***************************************************************************)
(* A run is reported as aborted when the user has cancelled it ("We don't  *)
(* recover from GOAL (already done) or ABORTED (user cancelled)").         *)
(***************************************************************************)
AbortedByUser == phase = "over" /\ reason = "ABORTED" => signal
=============================================================================
