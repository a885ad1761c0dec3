---------------------- MODULE ModelFallbackProperties ----------------------
(***************************************************************************)
(* What model fallback must guarantee.                                     *)
(***************************************************************************)
EXTENDS ModelFallback

TypeOK ==
  /\ conf \in Conf
  /\ req \in [Requests -> Coroutine]
  /\ sends \in [Requests -> 0..MaxSends]
  /\ switches \in 0..MaxSwitches

(***************************************************************************)
(* A model with the mark retry_once_per_turn is offered once in a turn:    *)
(* when an attempt was begun on the strength of the mark, no other is, of  *)
(* whichever request, until a turn begins, the model has answered, or the  *)
(* marks are reset (markRetryOncePerTurn, consumeStickyAttempt).           *)
(***************************************************************************)
RetriedOncePerTurn == \A m \in conf.retried : ~IsStickyAttempt(conf.health, m)

(***************************************************************************)
(* A model that was marked terminal loses the mark by its own answer to    *)
(* some request, or because all marks are reset: no transient failure seen *)
(* by another request and no new turn takes the mark away.                 *)
(***************************************************************************)
Answers(r, m) ==
  req[r].pc = "calling" /\ req[r].model = m /\ req'[r].pc \in {"streaming", "idle"}

TerminalHolds ==
  [][\A m \in Models : conf.health[m] = "terminal" /\ conf'.health[m] # "terminal" =>
       conf'.health = AllHealthy \/ \E r \in Requests : Answers(r, m)]_vars

(***************************************************************************)
(* Chained fallback mitigation (activateFallbackMode): when a model is     *)
(* overridden because it failed, nothing is led to it any more, by the     *)
(* overrides of earlier failures of other models.                          *)
(***************************************************************************)
OverridesMoveOn ==
  [][\A r \in Requests : LET failed == req[r].model IN
       /\ req'[r] # req[r]
       /\ conf'.override[failed] \notin {conf.override[failed], failed}
       => \A n \in Names : conf'.override[n] # failed]_vars

(***************************************************************************)
(* A session begun with a model of no tier stays on it until the user      *)
(* switches: whatever fails, of the turn, of an agent or of a utility call *)
(* with a tier's model, the turn is only asked of the user's model         *)
(* (applyDynamicSlicing: "we assume they want *only* that model").         *)
(***************************************************************************)
CustomModelIsKept ==
  Initially \in Customs /\ switches = 0 =>
    /\ {conf.configured, conf.active} = {Initially}
    /\ \A r \in Main : req[r].model = Initially

(***************************************************************************)
(* Why: the chain of a model of no tier is that model alone, so whatever   *)
(* fails falls back to it without a question, and every override and every *)
(* question leads to it.                                                   *)
(***************************************************************************)
CustomInv ==
  Initially \in Customs /\ switches = 0 =>
    /\ conf.configured = Initially /\ conf.active = Initially
    /\ conf.sequence \in {NoModel, Initially}
    /\ \A n \in Names : conf.override[n] \in {NoModel, Initially}
    /\ \A r \in Requests : req[r].pc # "classifying" /\ req[r].question.fallback = Initially
    /\ \A r \in Main : req[r].key = Initially /\ req[r].model = Initially

(***************************************************************************)
(* A cancelled request ends, whatever the service and the fallback handler *)
(* answer: no fallback that was granted outlives the signal.               *)
(***************************************************************************)
AbortedRequestEnds ==
  \A r \in Requests : (req[r].pc \in Live /\ req[r].aborted) ~> req[r].pc = "idle"

(***************************************************************************)
(* Under the A2A server's handler a turn ends, with an answer or an error: *)
(* what is granted without asking it moves down a finite chain.  The user  *)
(* must not switch models meanwhile: a turn whose model was switched and   *)
(* switched back is no longer tried with the active model, and is granted  *)
(* the active one for ever.                                                *)
(***************************************************************************)
TurnEnds ==
  \A r \in Main :
    (conf.host = "a2a" /\ req[r].pc \in Live) ~> (req[r].pc = "idle" \/ switches # 0)
=============================================================================
