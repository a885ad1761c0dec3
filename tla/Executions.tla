----------------------------- MODULE Executions -----------------------------
(***************************************************************************)
(* Shell commands from start to end, in the foreground and in the          *)
(* background (packages/core/src/services/executionLifecycleService.ts and *)
(* shellExecutionService.ts, tools/shell.ts) and the cards the terminal UI *)
(* shows for background tasks (packages/cli/src/ui/hooks/                  *)
(* useExecutionLifecycle.ts, shellReducer.ts, useGeminiStream.ts).         *)
(*                                                                         *)
(* Everything in the two services is keyed by process id.  The operating   *)
(* system may give an id again when the process is over; it knows nothing  *)
(* of cards, batches, exit information, timers or listeners, any of which  *)
(* may still be there.  One assumption on timing is made (see Free): what  *)
(* follows an exit within moments is over before the id comes again.       *)
(***************************************************************************)
EXTENDS Naturals

CONSTANTS
  Execs,       \* the commands run in a behaviour
  Pids,        \* process ids
  None,        \* no execution, no card
  Origins,     \* who runs commands: see AllOrigins
  Behaviors    \* the values of the setting backgroundCompletionBehavior

\* "tool": the model's shell tool; "tool_bg": the same with is_background;
\* "user": a command the user typed after `!'.
AllOrigins == {"tool", "tool_bg", "user"}
AllBehaviors == {"silent", "notify", "inject"}

ASSUME ExecutionsAssumption ==
  /\ Origins \subseteq AllOrigins /\ Behaviors \subseteq AllBehaviors
  /\ None \notin Execs /\ Pids # {}

VARIABLES
  run,         \* what is known of each command: see Run
  behavior,    \* the session's completion behaviour
  active,      \* activeExecutions: the execution an id stands for
  resolvers,   \* activeResolvers: the ids whose promise is pending
  listeners,   \* activeListeners: what the cards have subscribed to
  exitInfo,    \* exitedExecutionInfo
  shells,      \* activePtys and activeChildProcesses
  logs,        \* backgroundLogStreams and backgroundLogPids
  history,     \* backgroundProcessHistory
  cards,       \* the UI's backgroundTasks
  claimed,     \* the UI's backgroundedPids
  \* History variables.
  announced,   \* how often the end of a background command was announced
  dismissed,   \* commands the user ended from their card
  expired      \* commands whose exit information was dropped by a timer

lifecycle == <<active, resolvers, listeners, exitInfo>>
service   == <<shells, logs, history>>
ui        == <<cards, claimed>>
ghosts    == <<announced, dismissed, expired>>
vars == <<run, behavior, lifecycle, service, ui, ghosts>>

\* os: "exited" is the time between the child's exit event and handleExit
\* (the 100 ms drain window, the terminal's processing chain).
\* caller: "waiting" for the result; "returned": the tool's call is over and
\* its batch is not; "gone": the UI has dealt with the result.
Run == [os: {"new", "running", "exited", "done"}, id: Pids, origin: AllOrigins,
        pty: BOOLEAN, backgrounded: BOOLEAN, aborted: BOOLEAN, timer: BOOLEAN,
        ttl: BOOLEAN, caller: {"none", "waiting", "returned", "gone"},
        result: {"none", "exit", "aborted", "backgrounded"}]

\* What one registration subscribes to: the exit, and the output with it.
\* of: the command the UI means; on: what the id stood for at the time;
\* latest: m.subscriptions holds its unsubscribe, which a later one replaces.
Listener == [id: Pids, of: Execs, on: Execs \cup {None}, latest: BOOLEAN,
             behavior: AllBehaviors \cup {"undefined"}]
Card == [of: Execs, status: {"running", "exited"}]

TypeOK ==
  /\ run \in [Execs -> Run]
  /\ behavior \in Behaviors
  /\ active \in [Pids -> Execs \cup {None}]
  /\ resolvers \subseteq Pids
  /\ listeners \subseteq Listener
  /\ exitInfo \subseteq Pids
  /\ shells \in [Pids -> Execs \cup {None}]
  /\ logs \in [Pids -> {"none", "open", "closing"}]
  /\ history \in [Pids -> {"none", "running", "exited"}]
  /\ cards \in [Pids -> Card \cup {None}]
  /\ claimed \subseteq Pids
  /\ announced \in [Execs -> Nat]
  /\ dismissed \subseteq Execs /\ expired \subseteq Execs

Init ==
  /\ run = [e \in Execs |->
              [os |-> "new", id |-> CHOOSE p \in Pids : TRUE, origin |-> "tool",
               pty |-> FALSE, backgrounded |-> FALSE, aborted |-> FALSE,
               timer |-> FALSE, ttl |-> FALSE, caller |-> "none", result |-> "none"]]
  /\ behavior \in Behaviors
  /\ active = [p \in Pids |-> None]
  /\ resolvers = {} /\ listeners = {} /\ exitInfo = {}
  /\ shells = [p \in Pids |-> None]
  /\ logs = [p \in Pids |-> "none"]
  /\ history = [p \in Pids |-> "none"]
  /\ cards = [p \in Pids |-> None]
  /\ claimed = {}
  /\ announced = [e \in Execs |-> 0]
  /\ dismissed = {} /\ expired = {}

Live(e) == run[e].os \in {"running", "exited"}

\* The system may give the id of a process that is over to another.  That the
\* services have seen the exit by then (100 ms at most), that the log has been
\* closed and the result has reached the tool is an assumption on timing.
Free(p) ==
  /\ \A e \in Execs : run[e].id = p =>
       \/ run[e].os = "new"
       \/ run[e].os = "done" /\ run[e].caller \in {"returned", "gone"}
  /\ logs[p] = "none"

(***************************************************************************)
(* A command starts: the service notes the process and attaches it.        *)
(***************************************************************************)
Attached(p) == active[p] # None \/ p \in resolvers

Start(e) ==
  \E p \in Pids, o \in Origins, pty \in BOOLEAN :
    /\ run[e].os = "new" /\ Free(p) /\ ~Attached(p)
    /\ run' = [run EXCEPT ![e].os = "running", ![e].id = p, ![e].origin = o,
                          ![e].pty = pty, ![e].caller = "waiting",
                          ![e].timer = (o = "tool_bg")]
    /\ shells' = [shells EXCEPT ![p] = e]
    /\ active' = [active EXCEPT ![p] = e]
    /\ resolvers' = resolvers \cup {p}
    /\ exitInfo' = exitInfo \ {p}
    /\ UNCHANGED <<behavior, listeners, logs, history, ui, ghosts>>

(***************************************************************************)
(* The UI registers a card for an id it believes to be in the background.  *)
(* subscribe refuses an id that stands for nothing; onExit then answers    *)
(* from the exit information, if there still is any.  A card that is there *)
(* already, whosever it is, is kept.                                       *)
(***************************************************************************)
\* What an earlier registration of the id has subscribed to stays, but its
\* unsubscribe is lost.
Superseded(p) ==
  {IF l.id = p THEN [l EXCEPT !.latest = FALSE] ELSE l : l \in listeners}

\* Mutant: a listener is kept for whatever will have that id.
SubscribeAnyway(p, l) == Superseded(p) \cup {l}

Subscribe(p, l) == IF Attached(p) THEN Superseded(p) \cup {l} ELSE Superseded(p)

\* What a card for e that is registered with completion behaviour b subscribes.
CardListener(p, e, b) ==
  [id |-> p, of |-> e, on |-> active[p], latest |-> TRUE, behavior |-> b]

\* Mutant: the exit information is not consulted.
AnsweredNever(p) == FALSE

AnsweredAtOnce(p) == active[p] = None /\ p \in exitInfo

\* Mutant: a card gets a status of its own for killed tasks.
AfterExitKilled(card, b) ==
  IF card = None \/ b # "silent" THEN None ELSE [card EXCEPT !.status = "killed"]

\* What the listener of an exit makes of a card.
AfterExit(card, b) ==
  IF card = None \/ b # "silent" THEN None ELSE [card EXCEPT !.status = "exited"]

RegisterBackgroundTask(p, e, b) ==
  LET card == IF cards[p] = None THEN [of |-> e, status |-> "running"] ELSE cards[p]
  IN  /\ listeners' = Subscribe(p, CardListener(p, e, b))
      /\ IF AnsweredAtOnce(p)
         THEN /\ cards' = [cards EXCEPT ![p] = AfterExit(card, b)]
              /\ claimed' = claimed \ {p}
         ELSE /\ cards' = [cards EXCEPT ![p] = card]
              /\ claimed' = claimed \cup {p}

(***************************************************************************)
(* An execution moves to the background: its promise resolves, and the     *)
(* UI's onBackground listener registers what nobody has claimed.           *)
(***************************************************************************)
CanBackground(p) == p \in resolvers /\ active[p] # None

LifecycleBackground(p, runs, claims) ==
  IF ~CanBackground(p)
  THEN /\ run' = runs /\ claimed' = claims
       /\ UNCHANGED <<resolvers, listeners, cards>>
  ELSE LET e == active[p] IN
       /\ run' = [runs EXCEPT ![e].result = "backgrounded", ![e].backgrounded = TRUE]
       /\ resolvers' = resolvers \ {p}
       /\ IF p \in claims
          THEN claimed' = claims /\ UNCHANGED <<listeners, cards>>
          ELSE RegisterBackgroundTask(p, e, behavior)

\* The shell service first opens a log and enters the command in its history.
ShellBackground(p, runs, claims) ==
  /\ LifecycleBackground(p, runs, claims)
  /\ IF shells[p] = None THEN UNCHANGED <<history, logs>>
     ELSE /\ history' = [history EXCEPT ![p] = "running"]
          /\ logs' = [logs EXCEPT ![p] = "open"]

\* Ctrl+B: only a command typed by the user is the active shell; one the
\* model runs is known to the UI by the id its tool has reported.
BackgroundCurrentExecution(e) ==
  LET p == run[e].id IN
  /\ run[e].caller = "waiting" /\ run[e].result = "none"
  /\ IF run[e].origin = "user" THEN ShellBackground(p, run, claimed \cup {p})
     ELSE /\ LifecycleBackground(p, run, claimed \cup {p})
          /\ UNCHANGED <<history, logs>>
  /\ UNCHANGED <<behavior, active, exitInfo, shells, announced, dismissed, expired>>

\* The delay of a command the model wants in the background is over.
BackgroundTimer(e) ==
  /\ run[e].timer
  /\ ShellBackground(run[e].id, [run EXCEPT ![e].timer = FALSE], claimed)
  /\ UNCHANGED <<behavior, active, exitInfo, shells, announced, dismissed, expired>>

(***************************************************************************)
(* An execution settles, once: what is found under the id is resolved,     *)
(* announced if it was in the background, and forgotten but for its exit   *)
(* information.                                                            *)
(***************************************************************************)
ListenersOf(p) == {l \in listeners : l.id = p}

\* The first callback removes what was registered last, in the middle of the
\* round: that one is called only if it is the only one.
CalledAtExit(p) ==
  LET earlier == {l \in ListenersOf(p) : ~l.latest}
  IN  IF earlier = {} THEN ListenersOf(p) ELSE earlier

CardsAfterExit(p) ==
  IF CalledAtExit(p) = {} THEN cards
  ELSE [cards EXCEPT ![p] = IF \A l \in CalledAtExit(p) : l.behavior = "silent"
                            THEN AfterExit(@, "silent") ELSE None]

ClaimedAfterExit(p) == IF CalledAtExit(p) = {} THEN claimed ELSE claimed \ {p}

\* Mutant: the end of what was killed is announced too.
AnnouncesAny(e, aborted) == run[e].backgrounded

Announces(e, aborted) == run[e].backgrounded /\ ~aborted

\* Mutant: the promise of an aborted execution stays pending.
OutcomeUnlessAborted(p, e, aborted) ==
  IF p \notin resolvers \/ aborted THEN run[e].result ELSE "exit"

Outcome(p, e, aborted) ==
  IF p \notin resolvers THEN run[e].result
  ELSE IF aborted THEN "aborted" ELSE "exit"

SettleExecution(p, runs, aborted) ==
  IF active[p] = None
  THEN run' = runs /\ UNCHANGED <<lifecycle, announced>>
  ELSE LET e == active[p] IN
       /\ announced' = [announced EXCEPT ![e] = @ + IF Announces(e, aborted) THEN 1 ELSE 0]
       /\ run' = [runs EXCEPT ![e].ttl = TRUE, ![e].result = Outcome(p, e, aborted)]
       /\ resolvers' = resolvers \ {p}
       /\ listeners' = {l \in listeners : l.id # p}
       /\ active' = [active EXCEPT ![p] = None]
       /\ exitInfo' = exitInfo \cup {p}

\* The child exits, by itself or because it was killed.
ProcessExits(e) ==
  /\ run[e].os = "running"
  /\ run' = [run EXCEPT ![e].os = "exited"]
  /\ UNCHANGED <<behavior, lifecycle, service, ui, ghosts>>

\* Mutant: only a log that is open leads to the entry in the history.
HistoryIfLogged(p) ==
  [history EXCEPT ![p] = IF logs[p] = "none" THEN "exited" ELSE @]

HistoryAtExit(p) == [history EXCEPT ![p] = IF @ = "running" THEN "exited" ELSE @]

\* handleExit, finalize: after the drain window or the last output.
HandleExit(e) ==
  LET p == run[e].id IN
  /\ run[e].os = "exited"
  /\ history' = HistoryAtExit(p)
  /\ IF logs[p] = "open"
     THEN logs' = [logs EXCEPT ![p] = "closing"] /\ UNCHANGED shells
     ELSE shells' = [shells EXCEPT ![p] = None] /\ UNCHANGED logs
  /\ SettleExecution(p, [run EXCEPT ![e].os = "done"], run[e].aborted)
  /\ cards' = CardsAfterExit(p) /\ claimed' = ClaimedAfterExit(p)
  /\ UNCHANGED <<behavior, dismissed, expired>>

\* The log's stream has ended.
LogClosed(p) ==
  /\ logs[p] = "closing"
  /\ logs' = [logs EXCEPT ![p] = "none"]
  /\ shells' = [shells EXCEPT ![p] = None]
  /\ UNCHANGED <<run, behavior, lifecycle, history, ui, ghosts>>

\* The five minutes of an exit's information are over; what is dropped may be
\* the information on a later exit of the same id.
ExitInfoExpires(e) ==
  /\ run[e].ttl
  /\ run' = [run EXCEPT ![e].ttl = FALSE]
  /\ exitInfo' = exitInfo \ {run[e].id}
  /\ expired' = expired \cup {d \in Execs : /\ run[d].id \in exitInfo \cap {run[e].id}
                                          /\ run[d].os # "new"}
  /\ UNCHANGED <<behavior, active, resolvers, listeners, service, ui,
                 announced, dismissed>>

(***************************************************************************)
(* The tool, the user and the UI.                                          *)
(***************************************************************************)
\* The tool's signal fires, the user's or that of the inactivity timeout: the
\* process is killed.  The listener is gone once the tool has returned.
Abort(e) ==
  /\ run[e].caller = "waiting" /\ Live(e) /\ ~run[e].aborted
  /\ run' = [run EXCEPT ![e].aborted = TRUE]
  /\ UNCHANGED <<behavior, lifecycle, service, ui, ghosts>>

\* The result reaches who asked for it: the shell tool, or the UI itself,
\* which gives the command a card if it went to the background.
ResultArrives(e) ==
  /\ run[e].caller = "waiting" /\ run[e].result # "none" /\ ~run[e].timer
  /\ run' = [run EXCEPT ![e].caller = IF run[e].origin = "user" THEN "gone" ELSE "returned"]
  /\ IF run[e].origin = "user" /\ run[e].result = "backgrounded"
     THEN RegisterBackgroundTask(run[e].id, e, "notify")
     ELSE UNCHANGED <<listeners, ui>>
  /\ UNCHANGED <<behavior, active, resolvers, exitInfo, service, ghosts>>

\* The batch of a tool call has ended: handleCompletedTools registers what
\* went to the background, unless the turn has been cancelled.  A call that
\* was aborted is a cancelled one.
BatchEnds(e) ==
  /\ run[e].caller = "returned"
  /\ run' = [run EXCEPT ![e].caller = "gone"]
  /\ \E turnCancelled \in BOOLEAN :
       IF run[e].result = "backgrounded" /\ ~run[e].aborted /\ ~turnCancelled
       THEN RegisterBackgroundTask(run[e].id, e, "undefined")
       ELSE UNCHANGED <<listeners, ui>>
  /\ UNCHANGED <<behavior, active, resolvers, exitInfo, service, ghosts>>

\* The user dismisses a card: what the id stands for is killed if the card
\* shows a running task, and only the latest registration is undone if not.
Dismiss(p) ==
  /\ cards[p] # None
  /\ IF cards[p].status = "running" /\ active[p] # None
     THEN /\ SettleExecution(p, run, TRUE)
          /\ dismissed' = dismissed \cup {active[p]}
          /\ shells' = IF run[active[p]].pty THEN shells ELSE [shells EXCEPT ![p] = None]
     ELSE /\ listeners' = {l \in listeners : l.id = p => ~l.latest}
          /\ UNCHANGED <<run, active, resolvers, exitInfo, announced, dismissed, shells>>
  /\ cards' = [cards EXCEPT ![p] = None]
  /\ claimed' = claimed \ {p}
  /\ UNCHANGED <<behavior, logs, history, expired>>

\* Everything has been started and has come to its end.
Quiet == \A e \in Execs : run[e].os = "done" /\ run[e].caller = "gone"

Next ==
  \/ \E e \in Execs :
       \/ Start(e) \/ ProcessExits(e) \/ HandleExit(e) \/ ExitInfoExpires(e)
       \/ BackgroundCurrentExecution(e) \/ BackgroundTimer(e)
       \/ Abort(e) \/ ResultArrives(e) \/ BatchEnds(e)
  \/ \E p \in Pids : LogClosed(p) \/ Dismiss(p)

Spec == Init /\ [][Next]_vars

\* Timers, streams and exit events come; a process that was killed ends; a
\* batch ends when its other calls do.
Fairness ==
  /\ \A e \in Execs :
       /\ WF_vars(HandleExit(e)) /\ WF_vars(BackgroundTimer(e))
       /\ WF_vars(ResultArrives(e)) /\ WF_vars(BatchEnds(e))
       /\ WF_vars((run[e].aborted \/ e \in dismissed) /\ ProcessExits(e))
  /\ \A p \in Pids : WF_vars(LogClosed(p))

FairSpec == Spec /\ Fairness

(***************************************************************************)
(* A listener hears only the execution its id stood for when it was        *)
(* registered: none is left over for the next process with that id, though *)
(* cards, unfinished batches and lost unsubscribes outlive the first one.  *)
(* If it was registered for another command, that one had ended before.    *)
(***************************************************************************)
OwnListeners ==
  \A l \in listeners :
    /\ active[l.id] = l.on
    /\ l.of # l.on => run[l.of].os = "done"

(***************************************************************************)
(* The end of a command in the background is announced exactly once when   *)
(* it comes by itself, and never when the user has ended it, whatever the  *)
(* order of Ctrl+B, the timer, the signal, the exit and the dismissal.     *)
(***************************************************************************)
AnnouncedOnce ==
  \A e \in Execs :
    /\ announced[e] <= 1
    /\ announced[e] = 1 => run[e].backgrounded /\ e \notin dismissed /\ ~run[e].aborted
    /\ run[e].os = "done" /\ run[e].backgrounded /\ e \notin dismissed
         /\ ~run[e].aborted => announced[e] = 1

(***************************************************************************)
(* A card that shows a running task has a listener that was registered for *)
(* its command, or the information on its exit was dropped by a timer.     *)
(***************************************************************************)
CardsLearnOfExits ==
  \A p \in Pids :
    cards[p] # None /\ cards[p].status = "running" =>
      \/ cards[p].of \in expired
      \/ \E l \in ListenersOf(p) : l.of = cards[p].of

(***************************************************************************)
(* When everything has ended the services hold nothing of it: no process   *)
(* entry, no open log, no history entry that says running, no promise.     *)
(***************************************************************************)
NothingLeftBehind ==
  Quiet => \A p \in Pids :
    /\ active[p] = None /\ p \notin resolvers
    /\ ListenersOf(p) = {}
    /\ logs[p] = "none" => shells[p] = None
    /\ logs[p] # "open" /\ history[p] # "running"

(***************************************************************************)
(* A command whose signal has fired returns to its caller, whatever was    *)
(* sent to the background or dismissed meanwhile.                          *)
(***************************************************************************)
AbortedReturns ==
  \A e \in Execs : run[e].aborted ~> run[e].caller = "gone"
=============================================================================
