--------------------------- MODULE ModelFallback ---------------------------
(***************************************************************************)
(* Requests to models, their retries and their fallback to other models.   *)
(*                                                                         *)
(* `conf` is what Config and the services it owns remember: the configured *)
(* and the active model, the health map, and the override that a fallback  *)
(* registers for the model that failed.  Each request is a coroutine:      *)
(* `req[r]` holds its locals and the await at which it stands.  An action  *)
(* is what one coroutine does between two awaits.                          *)
(***************************************************************************)
EXTENDS ModelPolicy

CONSTANTS
  Main,          \* requests of client.sendMessageStream: the user's turns
  Agents,        \* chat requests of sub-agents, which are not isChatModel
  Utilities,     \* calls through BaseLlmClient
  Keys,          \* Keys[r]: the model names a request that is not Main may ask for
  Initially,     \* the model the session begins with
  UserModels,    \* the names the user may switch to
  Errors,        \* the failures the service may answer with
  PlanModes,     \* the values of getApprovalMode() = PLAN
  Hosts,         \* whose fallback handler may be installed
  Interactive,   \* config.isInteractive()
  MaxSends,      \* bound: how often a request is begun
  MaxBreaks,     \* bound: how often a stream breaks and is retried
  MaxSwitches    \* bound: how often the user switches the model

Requests == Main \cup Agents \cup Utilities
AllErrors == {"terminal", "not_found", "transient", "server", "network", "fatal"}
AllHosts == {"none", "tui_low", "tui_full", "a2a"}

ASSUME FallbackAssumption ==
  /\ Main \cap Agents = {} /\ Main \cap Utilities = {} /\ Agents \cap Utilities = {}
  /\ \A r \in Agents \cup Utilities : Keys[r] \subseteq Names
  /\ Initially \in Names /\ UserModels \subseteq Names
  /\ Errors \subseteq AllErrors /\ PlanModes \subseteq BOOLEAN /\ Hosts \subseteq AllHosts
  /\ Interactive \in BOOLEAN
  /\ MaxSends \in Nat /\ MaxBreaks \in Nat /\ MaxSwitches \in Nat

VARIABLES
  conf,        \* what Config and its services remember
  req,         \* the coroutine of each request
  sends,       \* how often each request was begun
  switches     \* how often the user has switched

vars == <<conf, req, sends, switches>>

(***************************************************************************)
(* The awaits of a request: "sending" the hooks before a turn,             *)
(* "classifying" the router's classifier, "ready" what lies between the    *)
(* selection of a turn and its API call, "calling" the API call, "again"   *)
(* the delay before another attempt, "asking" the fallback handler,        *)
(* "streaming" the response.                                               *)
(***************************************************************************)
Awaits == {"idle", "sending", "classifying", "ready", "calling", "again", "asking",
           "streaming"}
Live == Awaits \ {"idle"}

\* What handleFallback keeps across the await of the handler: `bypass` is
\* failedModel !== activeModel.
Question == [kind: FailureKind, fallback: Names, transition: Transitions, bypass: BOOLEAN]

Coroutine == [pc: Awaits, key: Names, model: Names, attempt: Nat, limit: Nat,
              initial: Names, breaks: Nat, aborted: BOOLEAN, question: Question]

\* A request that has not begun or has ended has no locals.
NoQuestion == [kind |-> "unknown", fallback |-> Initially, transition |-> "none",
               bypass |-> FALSE]
Idle == [pc |-> "idle", key |-> Initially, model |-> Initially, attempt |-> 0,
         limit |-> DefaultAttempts, initial |-> Initially, breaks |-> 0, aborted |-> FALSE,
         question |-> NoQuestion]

\* `sequence` is client.currentSequenceModel, the model a prompt stays with;
\* `host` says whose fallback handler is installed; `retried` is a history
\* variable: the models of which a sticky attempt was begun in this turn.
Conf == [configured: Names, active: Names, sequence: Models \cup {NoModel},
         health: [Models -> Health], override: [Names -> Names \cup {NoModel}],
         host: AllHosts, retried: SUBSET Models]

Init ==
  /\ \E host \in Hosts :
       conf = [configured |-> Initially, active |-> Initially, sequence |-> NoModel,
               health |-> AllHealthy, override |-> [n \in Names |-> NoModel],
               host |-> host, retried |-> {}]
  /\ req = [r \in Requests |-> Idle]
  /\ sends = [r \in Requests |-> 0]
  /\ switches = 0

-----------------------------------------------------------------------------
(***************************************************************************)
(* Config, as operators from one record to the next.                       *)
(***************************************************************************)
\* getResolvedConfig(name).model: an override matches the very name asked for,
\* and is applied once.
Overridden(c, name) == Or(c.override[name], name)

\* A change of the model makes the client forget the sequence's (ModelChanged).
SetModel(c, name) ==
  [c EXCEPT !.configured = name, !.active = name, !.health = AllHealthy, !.retried = {},
            !.sequence = IF {c.configured, c.active} = {name} THEN @ ELSE NoModel]

\* Mutant: the overrides that lead to the failed model are left.
RegisterOnly(c, failed, to) == [c EXCEPT !.override[failed] = to]

RegisterOverride(c, failed, to) ==
  [c EXCEPT !.override =
     [n \in Names |-> IF n = failed \/ c.override[n] = failed THEN to ELSE c.override[n]]]

\* failed = NoModel stands for an absent argument.
ActivateFallbackMode(c, to, failed) ==
  LET switched == IF c.active = to THEN c ELSE SetModel(c, to)
  IN  IF failed = NoModel THEN switched ELSE RegisterOverride(switched, failed, to)

Selection(c, name) == SelectModel(c.health, c.configured, Overridden(c, name))

\* applyModelSelection with an attempt to consume.
Consume(c, model) ==
  [c EXCEPT !.health = ConsumeStickyAttempt(c.health, model),
            !.retried = IF IsStickyAttempt(c.health, model) THEN @ \cup {model} ELSE @]

-----------------------------------------------------------------------------
(***************************************************************************)
(* The beginning of a request.                                             *)
(***************************************************************************)
Goto(r, pc) == req' = [req EXCEPT ![r].pc = pc]
End(r) == req' = [req EXCEPT ![r] = Idle]

\* sendMessageStream: resetTurn, and a new prompt forgets the sequence's model.
SendMessage(r) ==
  /\ req[r].pc = "idle" /\ sends[r] < MaxSends
  /\ \E kept \in {NoModel, conf.sequence} :
       conf' = [conf EXCEPT !.health = ResetTurn(@), !.retried = {}, !.sequence = kept]
  /\ Goto(r, "sending")
  /\ sends' = [sends EXCEPT ![r] = @ + 1]
  /\ UNCHANGED switches

\* The end of processTurn's choice: the selection, without consuming.  The
\* API call will be asked for the name, not for what was selected.
Choose(r, name) ==
  LET model == Selection(conf, name)
  IN  /\ conf' = [conf EXCEPT !.active = model, !.sequence = model]
      /\ req' = [req EXCEPT ![r].pc = "ready", ![r].key = name]

\* Stickiness, then the strategies that do not wait: fallback and override.
RoutedAtOnce ==
  LET selected == SelectModel(conf.health, conf.configured, conf.configured)
  IN  CASE conf.sequence # NoModel -> conf.sequence
        [] /\ conf.sequence = NoModel
           /\ ~IsAvailable(conf.health, Resolve(conf.configured))
           /\ selected # conf.configured -> selected
        [] OTHER -> IF conf.configured = "auto" THEN NoModel ELSE Resolve(conf.configured)

Route(r) ==
  /\ req[r].pc = "sending"
  /\ IF RoutedAtOnce = NoModel THEN Goto(r, "classifying") /\ UNCHANGED conf
     ELSE Choose(r, RoutedAtOnce)
  /\ UNCHANGED <<sends, switches>>

\* The classifiers' decision, or the default strategy if they have failed.
Classify(r) ==
  /\ req[r].pc = "classifying"
  /\ \E name \in {Pro, Flash, Resolve(conf.active)} : Choose(r, name)
  /\ UNCHANGED <<sends, switches>>

\* The selection that precedes the attempts, and the first attempt.
Enter(r, name, breaks, isAborted) ==
  LET model == Selection(conf, name)
      active == IF r \in Main THEN model ELSE conf.active
  IN  /\ conf' = Consume([conf EXCEPT !.active = active], model)
      /\ IF isAborted THEN End(r)
         ELSE req' = [req EXCEPT ![r] =
                [Idle EXCEPT !.pc = "calling", !.key = name, !.model = model, !.attempt = 1,
                             !.limit = SelectedAttempts(conf.health, conf.configured, model),
                             !.initial = active, !.breaks = breaks]]

\* makeApiCall of a turn, and of a stream that broke.
Start(r) ==
  /\ req[r].pc = "ready"
  /\ Enter(r, req[r].key, req[r].breaks, req[r].aborted)
  /\ UNCHANGED <<sends, switches>>

\* A sub-agent's chat request, or a utility call.
Begin(r) ==
  /\ req[r].pc = "idle" /\ sends[r] < MaxSends
  /\ \E name \in Keys[r] : Enter(r, name, 0, FALSE)
  /\ sends' = [sends EXCEPT ![r] = @ + 1]
  /\ UNCHANGED switches

-----------------------------------------------------------------------------
(***************************************************************************)
(* The attempts: retryWithBackoff.                                         *)
(***************************************************************************)
\* throwIfAborted: BaseLlmClient does not hand the signal to the loop.
Cancelled(r) == r \notin Utilities /\ req[r].aborted

\* Mutant: the signal reaches neither the loop nor the service.
GoesOn(r) == FALSE

\* An attempt is not begun after the signal: the loop throws, or the service,
\* which a utility call's signal is only handed to, rejects it.
Stops(r) == req[r].aborted

CurrentMaxAttempts(r) == PolicyAttempts(conf.configured, req[r].model, req[r].limit)
IsLastAttempt(r) == req[r].attempt >= CurrentMaxAttempts(r)

\* The loop's condition, and the API call with the model of this attempt: a
\* changed active model takes over.  BaseLlmClient resolves its name as a key
\* and remembers it; a chat resolves the alias and compares with the first
\* one for ever.
NextModel(r) ==
  IF conf.active = req[r].initial THEN req[r].model
  ELSE IF r \in Utilities THEN Overridden(conf, conf.active) ELSE Resolve(conf.active)

\* The active model that the next attempts compare with.
Compared(r) == IF r \in Utilities THEN conf.active ELSE req[r].initial

TryAgain(r) ==
  /\ req[r].pc = "again"
  /\ IF IsLastAttempt(r) \/ Stops(r) THEN End(r)
     ELSE req' = [req EXCEPT ![r].pc = "calling", ![r].attempt = @ + 1,
                             ![r].model = NextModel(r), ![r].initial = Compared(r)]
  /\ UNCHANGED <<conf, sends, switches>>

\* The service has answered.  A name without policy has no health to restore.
Succeeds(r) ==
  LET model == req[r].model
  IN  /\ req[r].pc = "calling"
      /\ conf' = IF model \in Models
                 THEN [conf EXCEPT !.health = MarkHealthy(@, model), !.retried = @ \ {model}]
                 ELSE conf
      /\ IF r \in Utilities THEN End(r) ELSE Goto(r, "streaming")
      /\ UNCHANGED <<sends, switches>>

\* shouldRetryOnContent, which only utility calls have.
ContentRejected(r) ==
  /\ r \in Utilities /\ req[r].pc = "calling"
  /\ IF Cancelled(r) THEN End(r) ELSE Goto(r, "again")
  /\ UNCHANGED <<conf, sends, switches>>

StreamEnds(r) ==
  /\ req[r].pc = "streaming"
  /\ End(r)
  /\ UNCHANGED <<conf, sends, switches>>

\* A stream that breaks is asked for again from the selection on.
StreamBreaks(r) ==
  /\ req[r].pc = "streaming" /\ req[r].breaks < MaxBreaks
  /\ req' = [req EXCEPT ![r].pc = "ready", ![r].breaks = @ + 1]
  /\ UNCHANGED <<conf, sends, switches>>

\* classifyFailureKind: a 500 is no quota error.
KindOf(error) == IF error = "server" THEN "unknown" ELSE error

AsksForFallback(r, error) ==
  /\ r \in Utilities => Interactive
  /\ ~Cancelled(r)
  /\ \/ error \in {"terminal", "not_found"}
     \/ error \in {"transient", "server"} /\ IsLastAttempt(r)

IsRetried(r, error) ==
  error \in {"transient", "server", "network"} /\ ~IsLastAttempt(r) /\ ~Cancelled(r)

FailsForNow(r) ==
  /\ req[r].pc = "calling"
  /\ \E error \in Errors : IsRetried(r, error)
  /\ Goto(r, "again")
  /\ UNCHANGED <<conf, sends, switches>>

FailsForGood(r) ==
  /\ req[r].pc = "calling"
  /\ \E error \in Errors \cup {"fatal"} : ~IsRetried(r, error) /\ ~AsksForFallback(r, error)
  /\ End(r)
  /\ UNCHANGED <<conf, sends, switches>>

-----------------------------------------------------------------------------
(***************************************************************************)
(* The fallback: handleFallback up to the await of the handler, and the    *)
(* handler's answer.                                                       *)
(***************************************************************************)
\* Retry with a fallback: the attempts begin anew.
Granted(r) ==
  req' = [req EXCEPT ![r].pc = "again", ![r].attempt = 0, ![r].question = NoQuestion]

Switch(r, transition, to, failed) ==
  /\ conf' = ActivateFallbackMode(
               [conf EXCEPT !.health = ApplyTransition(@, req[r].model, transition)], to, failed)
  /\ Granted(r)

Ask(r, question) ==
  /\ IF conf.host = "none" THEN End(r)
     ELSE req' = [req EXCEPT ![r].pc = "asking", ![r].question = question]
  /\ UNCHANGED conf

HandleFallback(r, kind, planMode) ==
  LET failed == req[r].model
      active == conf.active
      chain == PolicyChain[conf.configured][active]
      candidates == Candidates(chain, failed)
      transition == TransitionFor(chain, failed, kind)
      bypass == failed # active
      question(fallback) == [kind |-> kind, fallback |-> fallback,
                             transition |-> transition, bypass |-> bypass]
      selected == Or(FirstAvailable(conf.health, candidates), LastResort(candidates))
      isSilent == \/ planMode
                  \/ \E i \in DOMAIN candidates :
                       candidates[i].model = selected /\ candidates[i].action[kind] = "silent"
                  \/ selected = active /\ bypass
  IN  IF candidates = <<>>
      THEN IF bypass /\ IsAvailable(conf.health, active)
           THEN Switch(r, transition, active, failed)
           ELSE Ask(r, question(failed))
      ELSE IF isSilent
      THEN Switch(r, transition, selected, IF bypass THEN failed ELSE NoModel)
      ELSE Ask(r, question(selected))

FallsBack(r) ==
  /\ req[r].pc = "calling"
  /\ \E error \in Errors, planMode \in PlanModes :
       AsksForFallback(r, error) /\ HandleFallback(r, KindOf(error), planMode)
  /\ UNCHANGED <<sends, switches>>

\* The terminal UI refuses for good failures; for others it is silent
\* (errorVerbosity low) or switches (full).
IsGoodFailure(r) == req[r].question.kind \in {"terminal", "not_found"}

Refuses(r) ==
  /\ req[r].pc = "asking" /\ conf.host \in {"tui_low", "tui_full"} /\ IsGoodFailure(r)
  /\ End(r)
  /\ UNCHANGED <<conf, sends, switches>>

RetriesOnce(r) ==
  /\ req[r].pc = "asking" /\ conf.host = "tui_low" /\ ~IsGoodFailure(r)
  /\ conf' = [conf EXCEPT !.health =
                ApplyTransition(@, req[r].model, req[r].question.transition)]
  /\ Granted(r)
  /\ UNCHANGED <<sends, switches>>

RetriesAlways(r) ==
  LET q == req[r].question
  IN  /\ req[r].pc = "asking" /\ conf.host = "tui_full" /\ ~IsGoodFailure(r)
      /\ Switch(r, q.transition, q.fallback, IF q.bypass THEN req[r].model ELSE NoModel)
      /\ UNCHANGED <<sends, switches>>

\* Mutant: the handler switches and has the request tried again.
SwitchesAndRetries(r) ==
  /\ req[r].pc = "asking" /\ conf.host = "a2a"
  /\ conf' = ActivateFallbackMode(conf, req[r].question.fallback, req[r].model)
  /\ Granted(r)
  /\ UNCHANGED <<sends, switches>>

\* The A2A server's handler switches by itself and stops the request.
SwitchesAndStops(r) ==
  /\ req[r].pc = "asking" /\ conf.host = "a2a"
  /\ conf' = ActivateFallbackMode(conf, req[r].question.fallback, req[r].model)
  /\ End(r)
  /\ UNCHANGED <<sends, switches>>

-----------------------------------------------------------------------------
(***************************************************************************)
(* The user.                                                               *)
(***************************************************************************)
Abort(r) ==
  /\ req[r].pc \in Live /\ ~req[r].aborted
  /\ req' = [req EXCEPT ![r].aborted = TRUE]
  /\ UNCHANGED <<conf, sends, switches>>

SwitchModel ==
  /\ switches < MaxSwitches
  /\ \E name \in UserModels : conf' = SetModel(conf, name)
  /\ switches' = switches + 1
  /\ UNCHANGED <<req, sends>>

\* A new session (setSessionId) resets the same.
RefreshAuth ==
  /\ switches < MaxSwitches
  /\ conf' = [conf EXCEPT !.health = AllHealthy, !.retried = {},
                          !.override = [n \in Names |-> NoModel]]
  /\ switches' = switches + 1
  /\ UNCHANGED <<req, sends>>

-----------------------------------------------------------------------------
Handler(r) == Refuses(r) \/ RetriesOnce(r) \/ RetriesAlways(r) \/ SwitchesAndStops(r)

\* What the client, the service and the handler do for a request that goes on.
Proceed(r) ==
  \/ r \in Main /\ (Route(r) \/ Classify(r))
  \/ Start(r) \/ TryAgain(r) \/ Handler(r)
  \/ Succeeds(r) \/ ContentRejected(r) \/ StreamEnds(r) \/ StreamBreaks(r)
  \/ FailsForNow(r) \/ FailsForGood(r) \/ FallsBack(r)

Next ==
  \/ \E r \in Main : SendMessage(r)
  \/ \E r \in Agents \cup Utilities : Begin(r)
  \/ \E r \in Requests : Proceed(r) \/ Abort(r)
  \/ SwitchModel \/ RefreshAuth

Spec == Init /\ [][Next]_vars

\* Every await of a request that goes on ends: the service answers or fails,
\* the delay elapses, the handler answers.
FairSpec == Spec /\ \A r \in Requests : WF_vars(Proceed(r))
=============================================================================
