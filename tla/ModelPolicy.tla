---------------------------- MODULE ModelPolicy ----------------------------
(***************************************************************************)
(* The policy side of model fallback: the names of models, the chain of    *)
(* policies a name resolves to, and the health map of the availability     *)
(* service with its operations, as operators from map to map.              *)
(***************************************************************************)
EXTENDS Naturals, Sequences

CONSTANTS
  Pro, Flash, Lite,   \* the models the tiers resolve to
  Customs,            \* models that belong to no tier
  NoModel,
  DefaultAttempts,    \* config.getMaxAttempts()
  ProAttempts,        \* maxAttempts of pro in the chain auto-default
  FlashAttempts       \* maxAttempts of flash in the chains default and auto-default

Models == {Pro, Flash, Lite} \cup Customs

\* The names that are not models: modelIdResolutions.
Alias == [auto |-> Pro, pro |-> Pro, flash |-> Flash, flashLite |-> Lite]
Names == Models \cup DOMAIN Alias

ASSUME PolicyAssumption ==
  /\ Models \cap DOMAIN Alias = {}
  /\ Customs \cap {Pro, Flash, Lite} = {}
  /\ NoModel \notin Names
  /\ {DefaultAttempts, ProAttempts, FlashAttempts} \subseteq Nat \ {0}
  /\ Pro # Flash /\ Flash # Lite /\ Lite # Pro

Resolve(name) == IF name \in DOMAIN Alias THEN Alias[name] ELSE name

-----------------------------------------------------------------------------
(***************************************************************************)
(* Chains.  attempts = 0 stands for an absent maxAttempts.                 *)
(***************************************************************************)
FailureKind == {"terminal", "transient", "not_found", "unknown"}
Always(value) == [kind \in FailureKind |-> value]

Policy == [model: Models, action: [FailureKind -> {"silent", "prompt"}],
           transition: [FailureKind -> {"terminal", "sticky_retry"}],
           isLastResort: BOOLEAN, attempts: Nat]

PolicyFor(model, action, isLastResort, attempts) ==
  [model |-> model, action |-> Always(action), transition |-> Always("terminal"),
   isLastResort |-> isLastResort, attempts |-> attempts]

\* Mutant: the end of the chain is not its last resort.
FlashPolicyInPassing == PolicyFor(Flash, "prompt", FALSE, FlashAttempts)

FlashPolicy == PolicyFor(Flash, "prompt", TRUE, FlashAttempts)

DefaultChain == <<PolicyFor(Pro, "prompt", FALSE, 0), FlashPolicy>>

AutoChain ==
  <<[PolicyFor(Pro, "prompt", FALSE, ProAttempts) EXCEPT
       !.action["transient"] = "silent", !.transition["transient"] = "sticky_retry"],
    FlashPolicy>>

LiteChain == <<PolicyFor(Lite, "silent", FALSE, 0), PolicyFor(Flash, "silent", FALSE, 0),
               PolicyFor(Pro, "silent", TRUE, 0)>>

\* Mutant: a model outside the chain gets all of it.
SliceOrAll(chain, model) ==
  LET at == {i \in DOMAIN chain : chain[i].model = model}
  IN  IF at = {} THEN chain ELSE SubSeq(chain, CHOOSE i \in at : TRUE, Len(chain))

\* The part of the chain that begins with the model; a model outside it is
\* the only one.
Slice(chain, model) ==
  LET at == {i \in DOMAIN chain : chain[i].model = model}
  IN  IF at = {} THEN <<PolicyFor(model, "prompt", TRUE, 0)>>
      ELSE SubSeq(chain, CHOOSE i \in at : TRUE, Len(chain))

\* resolvePolicyChain for a name, given the configured one, outside plan mode.
PolicyChain ==
  [configured \in Names |-> [name \in Names |->
     LET model == Resolve(name)
     IN  Slice(IF model = Lite THEN LiteChain
               ELSE IF "auto" \in {configured, name} THEN AutoChain
               ELSE DefaultChain, model)]]

\* What of a chain comes after a model that failed: all of it if the model is
\* not in it.
Candidates(chain, failed) ==
  LET at == {i \in DOMAIN chain : chain[i].model = failed}
  IN  IF at = {} THEN chain ELSE SubSeq(chain, (CHOOSE i \in at : TRUE) + 1, Len(chain))

-----------------------------------------------------------------------------
(***************************************************************************)
(* Health.  "sticky" and "consumed" are the status sticky_retry without    *)
(* and with consumed.                                                      *)
(***************************************************************************)
Health == {"healthy", "terminal", "sticky", "consumed"}
AllHealthy == [m \in Models |-> "healthy"]

\* snapshot(name).available: a name that is no model is never in the map.
IsAvailable(health, name) == name \in Models => health[name] \in {"healthy", "sticky"}

MarkTerminal(health, m) == [health EXCEPT ![m] = "terminal"]
MarkHealthy(health, m) == [health EXCEPT ![m] = "healthy"]

\* Mutant: a transient failure overrides a terminal one.
MarkRetryAlways(health, m) ==
  IF health[m] = "consumed" THEN health ELSE [health EXCEPT ![m] = "sticky"]

MarkRetryOncePerTurn(health, m) ==
  IF health[m] \in {"terminal", "consumed"} THEN health ELSE [health EXCEPT ![m] = "sticky"]

\* Mutant: the attempt is not consumed.
KeepStickyAttempt(health, m) == health

ConsumeStickyAttempt(health, m) ==
  IF health[m] = "sticky" THEN [health EXCEPT ![m] = "consumed"] ELSE health

ResetTurn(health) ==
  [m \in Models |-> IF health[m] = "consumed" THEN "sticky" ELSE health[m]]

\* applyAvailabilityTransition: what the policy of a failed model makes of a
\* failure ("none" if the chain has no policy for it), and its effect.
Transitions == {"none", "terminal", "sticky_retry"}
TransitionFor(chain, failed, kind) ==
  LET at == {i \in DOMAIN chain : chain[i].model = failed}
  IN  IF at = {} THEN "none" ELSE chain[CHOOSE i \in at : TRUE].transition[kind]

ApplyTransition(health, failed, transition) ==
  CASE transition = "none" -> health
    [] transition = "terminal" -> MarkTerminal(health, failed)
    [] transition = "sticky_retry" ->
         ConsumeStickyAttempt(MarkRetryOncePerTurn(health, failed), failed)

\* selectFirstAvailable over the models of a chain.
AvailableAt(health, chain) == {i \in DOMAIN chain : IsAvailable(health, chain[i].model)}
FirstAvailable(health, chain) ==
  LET at == AvailableAt(health, chain)
  IN  IF at = {} THEN NoModel ELSE chain[CHOOSE i \in at : \A j \in at : i <= j].model

LastResort(chain) ==
  LET at == {i \in DOMAIN chain : chain[i].isLastResort}
  IN  IF at = {} THEN NoModel ELSE chain[CHOOSE i \in at : \A j \in at : i <= j].model

Or(m, n) == IF m = NoModel THEN n ELSE m

\* selectModelForAvailability.
SelectModel(health, configured, name) ==
  LET chain == PolicyChain[configured][name]
  IN  Or(Or(FirstAvailable(health, chain), LastResort(chain)), Pro)

\* The selected model is tried as a sticky one: it is available and has failed.
IsStickyAttempt(health, model) == health[model] = "sticky"

\* maxAttempts of the policy of a model that is being tried, or the limit of
\* the caller; a name that is no model has no policy.
PolicyAttempts(configured, name, limit) ==
  LET chain == PolicyChain[configured][name]
      named == {i \in DOMAIN chain : chain[i].model = name /\ chain[i].attempts # 0}
  IN  IF named = {} THEN limit ELSE chain[CHOOSE i \in named : TRUE].attempts

\* maxAttempts returned by applyModelSelection, or the caller's default.
SelectedAttempts(health, configured, model) ==
  IF IsStickyAttempt(health, model) THEN ProAttempts
  ELSE PolicyAttempts(configured, model, DefaultAttempts)
=============================================================================
