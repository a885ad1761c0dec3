------------------------ MODULE ModelFallbackProofs ------------------------
(***************************************************************************)
(* Proofs about model fallback, for every set of requests, whatever names  *)
(* they ask for, every host and every bound.                               *)
(*                                                                         *)
(* The first half is about the operators of ModelPolicy: every chain ends  *)
(* with a policy of last resort, so that a selection always finds a model. *)
(* The second half takes the actions one by one.                           *)
(***************************************************************************)
EXTENDS ModelFallbackProperties, SequenceTheorems, TLAPS

\* A chain as the catalog has them: short, and its end is a last resort.
Chain == {c \in Seq(Policy) : Len(c) # 0 /\ Len(c) <= 3 /\ c[Len(c)].isLastResort}

-----------------------------------------------------------------------------
LEMMA ResolveType == \A name \in Names : Resolve(name) \in Models
  BY PolicyAssumption DEF Resolve, Names, Models, Alias

LEMMA PolicyForType ==
  ASSUME NEW model \in Models, NEW action \in {"silent", "prompt"}, NEW last \in BOOLEAN,
         NEW attempts \in Nat
  PROVE  PolicyFor(model, action, last, attempts) \in Policy
  BY DEF PolicyFor, Policy, Always

LEMMA SingleType ==
  ASSUME NEW p \in Policy, p.isLastResort
  PROVE  <<p>> \in Chain
<1>1. <<p>> \in Seq(Policy) /\ Len(<<p>>) = 1 /\ <<p>>[1] = p
  OBVIOUS
<1> QED
  BY <1>1 DEF Chain

LEMMA PairType ==
  ASSUME NEW p \in Policy, NEW q \in Policy, q.isLastResort
  PROVE  <<p, q>> \in Chain
<1>1. <<p, q>> \in Seq(Policy) /\ Len(<<p, q>>) = 2 /\ <<p, q>>[2] = q
  OBVIOUS
<1> QED
  BY <1>1 DEF Chain

LEMMA TripleType ==
  ASSUME NEW p \in Policy, NEW q \in Policy, NEW t \in Policy, t.isLastResort
  PROVE  <<p, q, t>> \in Chain
<1>1. <<p, q, t>> \in Seq(Policy) /\ Len(<<p, q, t>>) = 3 /\ <<p, q, t>>[3] = t
  OBVIOUS
<1> QED
  BY <1>1 DEF Chain

LEMMA TemplateType == DefaultChain \in Chain /\ AutoChain \in Chain /\ LiteChain \in Chain
<1>1. FlashPolicy \in Policy /\ FlashPolicy.isLastResort
  BY PolicyForType, PolicyAssumption DEF FlashPolicy, Models, PolicyFor
<1>2. PolicyFor(Pro, "prompt", FALSE, 0) \in Policy
  BY PolicyForType DEF Models
<1>3. PolicyFor(Pro, "prompt", FALSE, ProAttempts) \in Policy
  BY PolicyForType, PolicyAssumption DEF Models
<1>4. [PolicyFor(Pro, "prompt", FALSE, ProAttempts) EXCEPT
         !.action["transient"] = "silent", !.transition["transient"] = "sticky_retry"] \in Policy
  BY <1>3 DEF Policy, FailureKind
<1>5. /\ PolicyFor(Lite, "silent", FALSE, 0) \in Policy
      /\ PolicyFor(Flash, "silent", FALSE, 0) \in Policy
      /\ PolicyFor(Pro, "silent", TRUE, 0) \in Policy
  BY PolicyForType DEF Models
<1>6. PolicyFor(Pro, "silent", TRUE, 0).isLastResort
  BY DEF PolicyFor
<1>7. DefaultChain \in Chain
  BY <1>1, <1>2, PairType DEF DefaultChain
<1>8. AutoChain \in Chain
  BY <1>1, <1>4, PairType DEF AutoChain
<1>9. LiteChain \in Chain
  BY <1>5, <1>6, TripleType DEF LiteChain
<1> QED
  BY <1>7, <1>8, <1>9

\* What is left of a chain from some policy on is a chain.
LEMMA SuffixType ==
  ASSUME NEW chain \in Chain, NEW i \in 1..Len(chain)
  PROVE  SubSeq(chain, i, Len(chain)) \in Chain
<1> DEFINE s == SubSeq(chain, i, Len(chain))
<1>1. chain \in Seq(Policy) /\ Len(chain) \in Nat /\ Len(chain) # 0 /\ Len(chain) <= 3
  BY DEF Chain
<1>2. s \in Seq(Policy) /\ Len(s) = Len(chain) - i + 1
  BY <1>1
<1>3. s[Len(chain) - i + 1] = chain[Len(chain)]
  BY <1>1
<1> HIDE DEF s
<1>4. Len(s) # 0 /\ Len(s) <= 3
  BY <1>1, <1>2
<1>5. s[Len(s)].isLastResort
  BY <1>2, <1>3 DEF Chain
<1>6. s \in Chain
  BY <1>2, <1>4, <1>5 DEF Chain
<1> QED
  BY <1>6 DEF s

LEMMA SliceType ==
  ASSUME NEW chain \in Chain, NEW model \in Models
  PROVE  Slice(chain, model) \in Chain
<1> DEFINE at == {i \in DOMAIN chain : chain[i].model = model}
<1>1. CASE at = {}
  <2>1. PolicyFor(model, "prompt", TRUE, 0) \in Policy
    BY PolicyForType
  <2>2. PolicyFor(model, "prompt", TRUE, 0).isLastResort
    BY DEF PolicyFor
  <2> QED
    BY <1>1, <2>1, <2>2, SingleType DEF Slice
<1>2. CASE at # {}
  <2>1. (CHOOSE i \in at : TRUE) \in 1..Len(chain)
    BY <1>2 DEF Chain
  <2> QED
    BY <1>2, <2>1, SuffixType DEF Slice
<1> QED
  BY <1>1, <1>2

LEMMA PolicyChainType ==
  \A configured, name \in Names : PolicyChain[configured][name] \in Chain
<1> SUFFICES ASSUME NEW configured \in Names, NEW name \in Names
             PROVE  PolicyChain[configured][name] \in Chain
  OBVIOUS
<1>1. Resolve(name) \in Models
  BY ResolveType
<1>2. /\ Slice(LiteChain, Resolve(name)) \in Chain
      /\ Slice(AutoChain, Resolve(name)) \in Chain
      /\ Slice(DefaultChain, Resolve(name)) \in Chain
  BY <1>1, TemplateType, SliceType
<1> QED
  BY <1>2 DEF PolicyChain

-----------------------------------------------------------------------------
LEMMA CandidatesType ==
  ASSUME NEW chain \in Chain, NEW failed
  PROVE  Candidates(chain, failed) = <<>> \/ Candidates(chain, failed) \in Chain
<1> DEFINE at == {i \in DOMAIN chain : chain[i].model = failed}
           first == CHOOSE i \in at : TRUE
<1>1. CASE at = {}
  BY <1>1 DEF Candidates
<1>2. CASE at # {}
  <2>1. first \in 1..Len(chain) /\ chain \in Seq(Policy) /\ Len(chain) \in Nat
    BY <1>2 DEF Chain
  <2>2. Candidates(chain, failed) = SubSeq(chain, first + 1, Len(chain))
    BY <1>2 DEF Candidates
  <2> HIDE DEF first
  <2>3. CASE first = Len(chain)
    <3>1. SubSeq(chain, first + 1, Len(chain)) = <<>>
      BY <2>1, <2>3, SubSeqEmpty
    <3> QED
      BY <2>2, <3>1
  <2>4. CASE first # Len(chain)
    BY <2>1, <2>2, <2>4, SuffixType
  <2> QED
    BY <2>3, <2>4
<1> QED
  BY <1>1, <1>2

\* A choice of the least index of a non-empty set of indices.
LEMMA LeastIndex ==
  ASSUME NEW n \in Nat, n <= 3, NEW at \in SUBSET (1..n), at # {}
  PROVE  (CHOOSE i \in at : \A j \in at : i <= j) \in 1..n
<1>1. \E i \in at : \A j \in at : i <= j
  <2>1. CASE 1 \in at
    BY <2>1
  <2>2. CASE 1 \notin at /\ 2 \in at
    BY <2>2
  <2>3. CASE 1 \notin at /\ 2 \notin at
    <3>1. \A i \in at : i = 3
      BY <2>3
    <3>2. \A i, j \in at : i <= j
      BY <3>1
    <3> QED
      BY <3>2
  <2> QED
    BY <2>1, <2>2, <2>3
<1> QED
  BY <1>1

LEMMA FirstAvailableType ==
  ASSUME NEW health, NEW chain \in Chain
  PROVE  FirstAvailable(health, chain) \in Models \cup {NoModel}
<1> DEFINE at == AvailableAt(health, chain)
           first == CHOOSE i \in at : \A j \in at : i <= j
<1>1. CASE at = {}
  BY <1>1 DEF FirstAvailable
<1>2. CASE at # {}
  <2>1. chain \in Seq(Policy) /\ at \in SUBSET (1..Len(chain)) /\ Len(chain) \in Nat /\ Len(chain) # 0 /\ Len(chain) <= 3
    BY DEF AvailableAt, Chain
  <2>2. first \in 1..Len(chain)
    BY <1>2, <2>1, LeastIndex
  <2>3. FirstAvailable(health, chain) = chain[first].model
    BY <1>2 DEF FirstAvailable
  <2> HIDE DEF first
  <2>4. chain[first] \in Policy
    BY <2>1, <2>2
  <2> QED
    BY <2>3, <2>4 DEF Policy
<1> QED
  BY <1>1, <1>2

LEMMA LastResortType ==
  ASSUME NEW chain \in Chain
  PROVE  LastResort(chain) \in Models
<1> DEFINE at == {i \in DOMAIN chain : chain[i].isLastResort}
           first == CHOOSE i \in at : \A j \in at : i <= j
<1>1. chain \in Seq(Policy) /\ Len(chain) \in Nat /\ Len(chain) # 0 /\ Len(chain) <= 3 /\ chain[Len(chain)].isLastResort
  BY DEF Chain
<1>2. Len(chain) \in at
  <2>1. Len(chain) \in DOMAIN chain
    BY <1>1
  <2> QED
    BY <1>1, <2>1
<1>3. at \in SUBSET (1..Len(chain)) /\ at # {}
  BY <1>1, <1>2
<1>4. first \in 1..Len(chain)
  BY <1>1, <1>3, LeastIndex
<1>5. LastResort(chain) = chain[first].model
  BY <1>3 DEF LastResort
<1> HIDE DEF first
<1>6. chain[first] \in Policy
  BY <1>1, <1>4
<1> QED
  BY <1>5, <1>6 DEF Policy

LEMMA SelectModelType ==
  ASSUME NEW health, NEW configured \in Names, NEW name \in Names
  PROVE  SelectModel(health, configured, name) \in Models
<1> DEFINE chain == PolicyChain[configured][name]
<1>1. chain \in Chain
  BY PolicyChainType
<1> HIDE DEF chain
<1>2. FirstAvailable(health, chain) \in Models \cup {NoModel} /\ LastResort(chain) \in Models
  BY <1>1, FirstAvailableType, LastResortType
<1>3. Or(Or(FirstAvailable(health, chain), LastResort(chain)), Pro) \in Models
  BY <1>2 DEF Or, Models
<1> QED
  BY <1>3 DEF SelectModel, chain

LEMMA PolicyAttemptsType ==
  ASSUME NEW configured \in Names, NEW name \in Names, NEW limit \in Nat
  PROVE  PolicyAttempts(configured, name, limit) \in Nat
<1> DEFINE chain == PolicyChain[configured][name]
           named == {i \in DOMAIN chain : chain[i].model = name /\ chain[i].attempts # 0}
           one == CHOOSE i \in named : TRUE
<1>1. chain \in Seq(Policy)
  BY PolicyChainType DEF Chain
<1> HIDE DEF chain
<1>2. CASE named = {}
  BY <1>2 DEF PolicyAttempts, chain
<1>3. CASE named # {}
  <2>1. one \in 1..Len(chain)
    BY <1>1, <1>3
  <2>2. PolicyAttempts(configured, name, limit) = chain[one].attempts
    BY <1>3 DEF PolicyAttempts, chain
  <2> HIDE DEF one
  <2>3. chain[one] \in Policy
    BY <1>1, <2>1
  <2> QED
    BY <2>2, <2>3 DEF Policy
<1> QED
  BY <1>2, <1>3

LEMMA SelectedAttemptsType ==
  ASSUME NEW health, NEW configured \in Names, NEW model \in Models
  PROVE  SelectedAttempts(health, configured, model) \in Nat
<1>1. model \in Names
  BY DEF Names
<1> QED
  BY <1>1, PolicyAttemptsType, PolicyAssumption DEF SelectedAttempts

LEMMA TransitionForType ==
  ASSUME NEW chain \in Chain, NEW failed, NEW kind \in FailureKind
  PROVE  /\ TransitionFor(chain, failed, kind) \in Transitions
         /\ TransitionFor(chain, failed, kind) # "none" => failed \in Models
<1> DEFINE at == {i \in DOMAIN chain : chain[i].model = failed}
           one == CHOOSE i \in at : TRUE
<1>1. CASE at = {}
  BY <1>1 DEF TransitionFor, Transitions
<1>2. CASE at # {}
  <2>1. chain \in Seq(Policy)
    BY DEF Chain
  <2>2. one \in 1..Len(chain) /\ chain[one].model = failed
    BY <1>2, <2>1
  <2>3. TransitionFor(chain, failed, kind) = chain[one].transition[kind]
    BY <1>2 DEF TransitionFor
  <2> HIDE DEF one
  <2>4. chain[one] \in Policy
    BY <2>1, <2>2
  <2>5. chain[one].transition[kind] \in {"terminal", "sticky_retry"}
    BY <2>4 DEF Policy
  <2> QED
    BY <2>2, <2>3, <2>4, <2>5 DEF Policy, Transitions
<1> QED
  BY <1>1, <1>2

-----------------------------------------------------------------------------
HealthMap == [Models -> Health]

\* The two halves of what a record of Config must be.
LEMMA ApplyTransitionType ==
  ASSUME NEW health \in HealthMap, NEW failed, NEW transition \in Transitions
  PROVE  ApplyTransition(health, failed, transition) \in HealthMap
<1>1. MarkTerminal(health, failed) \in HealthMap
  BY DEF HealthMap, MarkTerminal, Health
<1>2. MarkRetryOncePerTurn(health, failed) \in HealthMap
  BY DEF HealthMap, MarkRetryOncePerTurn, Health
<1>3. ConsumeStickyAttempt(MarkRetryOncePerTurn(health, failed), failed) \in HealthMap
  BY <1>2 DEF HealthMap, ConsumeStickyAttempt, Health
<1> QED
  BY <1>1, <1>3 DEF ApplyTransition, Transitions

\* A failure takes no terminal mark away.
LEMMA ApplyTransitionKeeps ==
  ASSUME NEW health \in HealthMap, NEW failed, NEW transition \in Transitions,
         NEW m \in Models, health[m] = "terminal"
  PROVE  ApplyTransition(health, failed, transition)[m] = "terminal"
<1>1. MarkTerminal(health, failed)[m] = "terminal"
  BY DEF HealthMap, MarkTerminal
<1>2. /\ MarkRetryOncePerTurn(health, failed) \in HealthMap
      /\ MarkRetryOncePerTurn(health, failed)[m] = "terminal"
  BY DEF HealthMap, MarkRetryOncePerTurn, Health
<1>3. ConsumeStickyAttempt(MarkRetryOncePerTurn(health, failed), failed)[m] = "terminal"
  BY <1>2 DEF HealthMap, ConsumeStickyAttempt
<1> QED
  BY <1>1, <1>3 DEF ApplyTransition, Transitions

LEMMA AllHealthyType == AllHealthy \in HealthMap
  BY DEF AllHealthy, HealthMap, Health

LEMMA SetModelType ==
  ASSUME NEW c \in Conf, NEW name \in Names
  PROVE  SetModel(c, name) \in Conf /\ SetModel(c, name).health = AllHealthy
  BY AllHealthyType DEF SetModel, Conf, HealthMap

LEMMA RegisterOverrideType ==
  ASSUME NEW c \in Conf, NEW failed, NEW to \in Names
  PROVE  RegisterOverride(c, failed, to) \in Conf /\ RegisterOverride(c, failed, to).health = c.health
  BY DEF RegisterOverride, Conf

LEMMA ActivateType ==
  ASSUME NEW c \in Conf, NEW to \in Names, NEW failed
  PROVE  /\ ActivateFallbackMode(c, to, failed) \in Conf
         /\ ActivateFallbackMode(c, to, failed).health \in {c.health, AllHealthy}
<1> DEFINE switched == IF c.active = to THEN c ELSE SetModel(c, to)
<1>1. switched \in Conf /\ switched.health \in {c.health, AllHealthy}
  BY SetModelType
<1> HIDE DEF switched
<1>2. /\ RegisterOverride(switched, failed, to) \in Conf
      /\ RegisterOverride(switched, failed, to).health = switched.health
  BY <1>1, RegisterOverrideType
<1>3. ActivateFallbackMode(c, to, failed) \in {switched, RegisterOverride(switched, failed, to)}
  BY DEF ActivateFallbackMode, switched
<1> QED
  BY <1>1, <1>2, <1>3

LEMMA ConsumeType ==
  ASSUME NEW c \in Conf, NEW model \in Models
  PROVE  /\ Consume(c, model) \in Conf
         /\ \A m \in Models : c.health[m] = "terminal" => Consume(c, model).health[m] = "terminal"
  BY DEF Consume, ConsumeStickyAttempt, Conf, Health

LEMMA OverriddenType ==
  ASSUME NEW c \in Conf, NEW name \in Names
  PROVE  Overridden(c, name) \in Names
  BY DEF Overridden, Or, Conf

LEMMA SelectionType ==
  ASSUME NEW c \in Conf, NEW name \in Names
  PROVE  Selection(c, name) \in Models
<1>1. Overridden(c, name) \in Names /\ c.configured \in Names
  BY OverriddenType DEF Conf
<1> QED
  BY <1>1, SelectModelType DEF Selection

-----------------------------------------------------------------------------
(***************************************************************************)
(* What a step must leave of Config: a record of its type, and every       *)
(* terminal mark unless all are reset.                                     *)
(***************************************************************************)
Keeps(c, d) ==
  /\ d \in Conf
  /\ \/ d.health = AllHealthy
     \/ \A m \in Models : c.health[m] = "terminal" => d.health[m] = "terminal"

Coroutines == [Requests -> Coroutine]

LEMMA IdleType == Idle \in Coroutine /\ NoQuestion \in Question
  BY PolicyAssumption, FallbackAssumption
  DEF Idle, NoQuestion, Coroutine, Question, Awaits, FailureKind, Transitions

LEMMA GotoType ==
  ASSUME req \in Coroutines, NEW r, NEW pc \in Awaits, Goto(r, pc)
  PROVE  req' \in Coroutines
  BY DEF Goto, Coroutines, Coroutine

LEMMA EndType ==
  ASSUME req \in Coroutines, NEW r, End(r)
  PROVE  req' \in Coroutines
  BY IdleType DEF End, Coroutines

LEMMA GrantedType ==
  ASSUME req \in Coroutines, NEW r, Granted(r)
  PROVE  req' \in Coroutines
  BY IdleType DEF Granted, Coroutines, Coroutine, Awaits

LEMMA SwitchType ==
  ASSUME conf \in Conf, req \in Coroutines, NEW r, NEW transition \in Transitions,
         NEW to \in Names, NEW failed, Switch(r, transition, to, failed)
  PROVE  Keeps(conf, conf') /\ req' \in Coroutines
<1> DEFINE marked == [conf EXCEPT !.health = ApplyTransition(@, req[r].model, transition)]
<1>1. conf.health \in HealthMap
  BY DEF Conf, HealthMap
<1>2. ApplyTransition(conf.health, req[r].model, transition) \in HealthMap
  BY <1>1, ApplyTransitionType
<1>3. marked \in Conf /\ marked.health = ApplyTransition(conf.health, req[r].model, transition)
  BY <1>2 DEF Conf, HealthMap
<1>4. \A m \in Models : conf.health[m] = "terminal" => marked.health[m] = "terminal"
  BY <1>1, <1>3, ApplyTransitionKeeps
<1>5. conf' = ActivateFallbackMode(marked, to, failed) /\ Granted(r)
  BY DEF Switch
<1> HIDE DEF marked
<1>6. conf' \in Conf /\ conf'.health \in {marked.health, AllHealthy}
  BY <1>3, <1>5, ActivateType
<1> QED
  BY <1>4, <1>5, <1>6, GrantedType DEF Keeps

LEMMA KeepsSame ==
  ASSUME NEW c \in Conf
  PROVE  Keeps(c, c)
  BY DEF Keeps

LEMMA AskType ==
  ASSUME conf \in Conf, req \in Coroutines, NEW r, NEW question \in Question, Ask(r, question)
  PROVE  Keeps(conf, conf') /\ req' \in Coroutines
<1>1. Keeps(conf, conf')
  BY KeepsSame DEF Ask
<1>2. CASE conf.host = "none"
  BY <1>1, <1>2, EndType DEF Ask
<1>3. CASE conf.host # "none"
  BY <1>1, <1>3 DEF Ask, Coroutines, Coroutine, Awaits
<1> QED
  BY <1>2, <1>3

\* handleFallback switches to a model that exists or asks the handler.
Fallback(r) ==
  \/ \E transition \in Transitions, to \in Names, failed \in {req[r].model, NoModel} :
       Switch(r, transition, to, failed)
  \/ \E question \in Question : Ask(r, question)

LEMMA HandleFallbackCases ==
  ASSUME conf \in Conf, req \in Coroutines, NEW r \in Requests, NEW kind \in FailureKind,
         NEW planMode, HandleFallback(r, kind, planMode)
  PROVE  Fallback(r)
<1> DEFINE failed == req[r].model
           active == conf.active
           chain == PolicyChain[conf.configured][active]
           candidates == Candidates(chain, failed)
           transition == TransitionFor(chain, failed, kind)
           bypass == failed # active
           question(fallback) == [kind |-> kind, fallback |-> fallback,
                                  transition |-> transition, bypass |-> bypass]
           selected == Or(FirstAvailable(conf.health, candidates), LastResort(candidates))
           isSilent == \/ planMode
                       \/ \E i \in DOMAIN candidates :
                            candidates[i].model = selected /\ candidates[i].action[kind] = "silent"
                       \/ selected = active /\ bypass
<1>1. failed \in Names /\ active \in Names /\ conf.configured \in Names
  BY DEF Conf, Coroutines, Coroutine
<1>2. chain \in Chain
  BY <1>1, PolicyChainType
<1>3. transition \in Transitions
  BY <1>2, TransitionForType
<1>4. \A fallback \in Names : question(fallback) \in Question
  <2> HIDE DEF transition, failed, active
  <2> QED
    BY <1>3 DEF Question
<1>5. CASE candidates = <<>>
  <2>1. \/ Switch(r, transition, active, failed)
        \/ Ask(r, question(failed))
    BY <1>5 DEF HandleFallback
  <2>2. failed \in {req[r].model, NoModel}
    OBVIOUS
  <2> HIDE DEF transition, failed, active, question
  <2> QED
    BY <1>1, <1>3, <1>4, <2>1, <2>2 DEF Fallback
<1>6. CASE candidates # <<>>
  <2>1. candidates \in Chain
    BY <1>2, <1>6, CandidatesType
  <2>2. selected \in Names
    <3> HIDE DEF candidates
    <3>1. FirstAvailable(conf.health, candidates) \in Models \cup {NoModel}
      BY <2>1, FirstAvailableType
    <3>2. LastResort(candidates) \in Models
      BY <2>1, LastResortType
    <3> QED
      BY <3>1, <3>2 DEF Or, Names
  <2>3. \/ Switch(r, transition, selected, IF bypass THEN failed ELSE NoModel)
        \/ Ask(r, question(selected))
    BY <1>6 DEF HandleFallback
  <2>6. (IF bypass THEN failed ELSE NoModel) \in {req[r].model, NoModel}
    OBVIOUS
  <2> HIDE DEF transition, selected, question, bypass, failed
  <2>4. CASE Switch(r, transition, selected, IF bypass THEN failed ELSE NoModel)
    BY <1>3, <2>2, <2>4, <2>6 DEF Fallback
  <2>5. CASE Ask(r, question(selected))
    BY <1>4, <2>2, <2>5 DEF Fallback
  <2> QED
    BY <2>3, <2>4, <2>5
<1> QED
  BY <1>5, <1>6

LEMMA HandleFallbackType ==
  ASSUME conf \in Conf, req \in Coroutines, NEW r \in Requests, NEW kind \in FailureKind,
         NEW planMode, HandleFallback(r, kind, planMode)
  PROVE  Keeps(conf, conf') /\ req' \in Coroutines
<1>1. Fallback(r)
  BY HandleFallbackCases
<1> QED
  BY <1>1, SwitchType, AskType DEF Fallback

-----------------------------------------------------------------------------
(***************************************************************************)
(* The actions: each keeps the types, and takes no terminal mark away      *)
(* other than TerminalHolds allows.                                        *)
(***************************************************************************)
TerminalStep ==
  \A m \in Models : conf.health[m] = "terminal" /\ conf'.health[m] # "terminal" =>
    conf'.health = AllHealthy \/ \E r \in Requests : Answers(r, m)

Good == TypeOK' /\ TerminalStep

LEMMA StepIsGood ==
  ASSUME TypeOK, Keeps(conf, conf'), req' \in Coroutines,
         sends' \in [Requests -> 0..MaxSends],
         switches' \in 0..MaxSwitches
  PROVE  Good
  BY DEF Good, TypeOK, TerminalStep, Keeps, Coroutines

LEMMA RequestIsGood ==
  ASSUME TypeOK, Keeps(conf, conf'), req' \in Coroutines, UNCHANGED <<sends, switches>>
  PROVE  Good
  BY StepIsGood DEF TypeOK

\* Steps that leave Config alone.
LEMMA LocalIsGood ==
  ASSUME TypeOK, req' \in Coroutines, UNCHANGED <<conf, sends, switches>>
  PROVE  Good
<1>1. Keeps(conf, conf')
  BY KeepsSame DEF TypeOK
<1> QED
  BY <1>1, RequestIsGood

LEMMA SendMessageIsGood ==
  ASSUME TypeOK, NEW r \in Requests, SendMessage(r)
  PROVE  Good
<1> DEFINE health == ResetTurn(conf.health)
<1>1. health \in HealthMap /\ \A m \in Models : conf.health[m] = "terminal" => health[m] = "terminal"
  BY DEF ResetTurn, TypeOK, Conf, Health, HealthMap
<1>2. PICK kept \in {NoModel, conf.sequence} :
        conf' = [conf EXCEPT !.health = health, !.retried = {}, !.sequence = kept]
  BY DEF SendMessage
<1> HIDE DEF health
<1>3. Keeps(conf, conf')
  BY <1>1, <1>2 DEF Keeps, TypeOK, Conf, HealthMap
<1>4. req' \in Coroutines
  BY GotoType DEF SendMessage, TypeOK, Coroutines, Awaits
<1>5. sends' \in [Requests -> 0..MaxSends]
  BY FallbackAssumption DEF SendMessage, TypeOK
<1> QED
  BY <1>3, <1>4, <1>5, StepIsGood DEF SendMessage, TypeOK

LEMMA ChooseIsGood ==
  ASSUME TypeOK, NEW r \in Requests, NEW name \in Names, Choose(r, name),
         UNCHANGED <<sends, switches>>
  PROVE  Good
<1>1. Selection(conf, name) \in Models /\ Selection(conf, name) \in Names
  BY SelectionType DEF TypeOK, Names
<1>2. Keeps(conf, conf')
  BY <1>1 DEF Choose, Keeps, TypeOK, Conf
<1>3. req' \in Coroutines
  <2>1. req' = [req EXCEPT ![r].pc = "ready", ![r].key = name]
    BY DEF Choose
  <2>2. req \in Coroutines
    BY DEF TypeOK, Coroutines
  <2>3. [req[r] EXCEPT !.pc = "ready", !.key = name] \in Coroutine
    BY <2>2 DEF Coroutines, Coroutine, Awaits
  <2> QED
    BY <2>1, <2>2, <2>3 DEF Coroutines
<1> QED
  BY <1>1, <1>2, <1>3, StepIsGood DEF Choose, TypeOK

LEMMA RouteIsGood ==
  ASSUME TypeOK, NEW r \in Requests, Route(r)
  PROVE  Good
<1>1. CASE RoutedAtOnce = NoModel
  BY <1>1, GotoType, LocalIsGood DEF Route, TypeOK, Coroutines, Awaits
<1>2. CASE RoutedAtOnce # NoModel
  <2>1. conf.configured \in Names
    BY DEF TypeOK, Conf
  <2>2. /\ Resolve(conf.configured) \in Models
        /\ SelectModel(conf.health, conf.configured, conf.configured) \in Models
    BY <2>1, ResolveType, SelectModelType
  <2>3. RoutedAtOnce \in Names
    BY <1>2, <2>2 DEF RoutedAtOnce, TypeOK, Conf, Names
  <2> QED
    BY <1>2, <2>3, ChooseIsGood DEF Route
<1> QED
  BY <1>1, <1>2

LEMMA ClassifyIsGood ==
  ASSUME TypeOK, NEW r \in Requests, Classify(r)
  PROVE  Good
<1>1. PICK name \in {Pro, Flash, Resolve(conf.active)} : Choose(r, name)
  BY DEF Classify
<1>2. name \in Names
  BY <1>1, ResolveType DEF TypeOK, Conf, Names, Models
<1> QED
  BY <1>1, <1>2, ChooseIsGood DEF Classify

LEMMA EnterType ==
  ASSUME TypeOK, NEW r \in Requests, NEW name \in Names, NEW breaks \in Nat,
         NEW isAborted \in BOOLEAN, Enter(r, name, breaks, isAborted)
  PROVE  Keeps(conf, conf') /\ req' \in Coroutines
<1> DEFINE model == Selection(conf, name)
           active == IF r \in Main THEN model ELSE conf.active
           chosen == [conf EXCEPT !.active = active]
           limit == SelectedAttempts(conf.health, conf.configured, model)
<1>1. model \in Models /\ active \in Names
  BY SelectionType DEF TypeOK, Names, Conf
<1>2. chosen \in Conf /\ chosen.health = conf.health
  BY <1>1 DEF TypeOK, Conf
<1>3. limit \in Nat
  BY <1>1, SelectedAttemptsType DEF TypeOK, Conf
<1>4. conf' = Consume(chosen, model)
  BY DEF Enter
<1>5. Keeps(conf, conf')
  <2> HIDE DEF chosen, model
  <2> QED
    BY <1>1, <1>2, <1>4, ConsumeType DEF Keeps
<1>6. CASE isAborted
  BY <1>5, <1>6, EndType DEF Enter, TypeOK, Coroutines
<1>7. CASE ~isAborted
  <2>1. req' = [req EXCEPT ![r] =
                  [Idle EXCEPT !.pc = "calling", !.key = name, !.model = model, !.attempt = 1,
                               !.limit = limit, !.initial = active, !.breaks = breaks]]
    BY <1>7 DEF Enter
  <2> HIDE DEF model, active, limit
  <2>2. [Idle EXCEPT !.pc = "calling", !.key = name, !.model = model, !.attempt = 1,
                     !.limit = limit, !.initial = active, !.breaks = breaks] \in Coroutine
    BY <1>1, <1>3, IdleType DEF Coroutine, Awaits, Names
  <2> QED
    BY <1>5, <2>1, <2>2 DEF TypeOK, Coroutines
<1> QED
  BY <1>6, <1>7

LEMMA StartIsGood ==
  ASSUME TypeOK, NEW r \in Requests, Start(r)
  PROVE  Good
<1>1. req[r].key \in Names /\ req[r].breaks \in Nat /\ req[r].aborted \in BOOLEAN
  BY DEF TypeOK, Coroutine
<1> QED
  BY <1>1, EnterType, RequestIsGood DEF Start

LEMMA BeginIsGood ==
  ASSUME TypeOK, NEW r \in Agents \cup Utilities, Begin(r)
  PROVE  Good
<1>1. PICK name \in Keys[r] : Enter(r, name, 0, FALSE)
  BY DEF Begin
<1>2. name \in Names /\ r \in Requests
  BY FallbackAssumption DEF Requests
<1>3. Keeps(conf, conf') /\ req' \in Coroutines
  BY <1>1, <1>2, EnterType
<1>4. sends' \in [Requests -> 0..MaxSends]
  BY <1>2, FallbackAssumption DEF Begin, TypeOK
<1> QED
  BY <1>3, <1>4, StepIsGood DEF Begin, TypeOK

LEMMA TryAgainIsGood ==
  ASSUME TypeOK, NEW r \in Requests, TryAgain(r)
  PROVE  Good
<1>1. CASE IsLastAttempt(r) \/ Stops(r)
  BY <1>1, EndType, LocalIsGood DEF TryAgain, TypeOK, Coroutines
<1>2. CASE ~(IsLastAttempt(r) \/ Stops(r))
  <2> DEFINE next == NextModel(r)
             initial == Compared(r)
  <2>1. conf \in Conf /\ conf.active \in Names /\ req[r] \in Coroutine
    BY DEF TypeOK, Conf
  <2>2. next \in Names
    <3>1. Overridden(conf, conf.active) \in Names /\ Resolve(conf.active) \in Names
      BY <2>1, OverriddenType, ResolveType DEF Names
    <3> QED
      BY <2>1, <3>1 DEF NextModel, Coroutine
  <2>3. initial \in Names /\ req[r].attempt + 1 \in Nat
    BY <2>1 DEF Coroutine, Compared
  <2>4. req' = [req EXCEPT ![r].pc = "calling", ![r].attempt = @ + 1, ![r].model = next,
                           ![r].initial = initial]
    BY <1>2 DEF TryAgain
  <2> HIDE DEF next, initial
  <2>5. req' \in Coroutines
    BY <2>2, <2>3, <2>4 DEF TypeOK, Coroutines, Coroutine, Awaits
  <2> QED
    BY <2>5, LocalIsGood DEF TryAgain
<1> QED
  BY <1>1, <1>2

\* The one step that may take a single terminal mark away.
LEMMA SucceedsIsGood ==
  ASSUME TypeOK, NEW r \in Requests, Succeeds(r)
  PROVE  Good
<1> DEFINE model == req[r].model
<1>1. conf \in Conf /\ req \in Coroutines /\ req[r].pc = "calling"
  BY DEF Succeeds, TypeOK, Coroutines
<1>2. req' \in Coroutines /\ req'[r].pc \in {"streaming", "idle"}
  <2>1. CASE r \in Utilities
    BY <1>1, <2>1, EndType DEF Succeeds, End, Idle, Coroutines
  <2>2. CASE r \notin Utilities
    BY <1>1, <2>2, GotoType DEF Succeeds, Goto, Awaits, Coroutines, Coroutine
  <2> QED
    BY <2>1, <2>2
<1>3. CASE model \notin Models
  BY <1>2, <1>3, LocalIsGood DEF Succeeds
<1>4. CASE model \in Models
  <2>1. conf' = [conf EXCEPT !.health = MarkHealthy(@, model), !.retried = @ \ {model}]
    BY <1>4 DEF Succeeds
  <2>2. conf' \in Conf
    BY <1>1, <2>1 DEF Conf, MarkHealthy, Health
  <2>3. \A m \in Models \ {model} : conf'.health[m] = conf.health[m]
    BY <1>1, <2>1 DEF Conf, MarkHealthy
  <2>4. Answers(r, model)
    BY <1>1, <1>2 DEF Answers
  <2>5. TerminalStep
    <3> HIDE DEF model
    <3> QED
      BY <2>3, <2>4 DEF TerminalStep
  <2>6. TypeOK'
    BY <1>2, <2>2 DEF Succeeds, TypeOK, Coroutines
  <2> QED
    BY <2>5, <2>6 DEF Good
<1> QED
  BY <1>3, <1>4

LEMMA MoveIsGood ==
  ASSUME TypeOK, NEW r \in Requests, NEW pc \in Awaits, Goto(r, pc) \/ End(r),
         UNCHANGED <<conf, sends, switches>>
  PROVE  Good
<1>1. req' \in Coroutines
  BY GotoType, EndType DEF TypeOK, Coroutines
<1> QED
  BY <1>1, LocalIsGood

LEMMA ContentRejectedIsGood ==
  ASSUME TypeOK, NEW r \in Requests, ContentRejected(r)
  PROVE  Good
<1>1. Goto(r, "again") \/ End(r)
  BY DEF ContentRejected
<1> QED
  BY <1>1, MoveIsGood DEF ContentRejected, Awaits

LEMMA StreamEndsIsGood ==
  ASSUME TypeOK, NEW r \in Requests, StreamEnds(r)
  PROVE  Good
  BY MoveIsGood DEF StreamEnds, Awaits

LEMMA StreamBreaksIsGood ==
  ASSUME TypeOK, NEW r \in Requests, StreamBreaks(r)
  PROVE  Good
<1>1. req' = [req EXCEPT ![r].pc = "ready", ![r].breaks = @ + 1]
  BY DEF StreamBreaks
<1>2. req' \in Coroutines
  BY <1>1 DEF TypeOK, Coroutines, Coroutine, Awaits
<1> QED
  BY <1>2, LocalIsGood DEF StreamBreaks

LEMMA FailsForNowIsGood ==
  ASSUME TypeOK, NEW r \in Requests, FailsForNow(r)
  PROVE  Good
  BY MoveIsGood DEF FailsForNow, Awaits

LEMMA FailsForGoodIsGood ==
  ASSUME TypeOK, NEW r \in Requests, FailsForGood(r)
  PROVE  Good
  BY MoveIsGood DEF FailsForGood, Awaits

LEMMA FallsBackIsGood ==
  ASSUME TypeOK, NEW r \in Requests, FallsBack(r)
  PROVE  Good
<1>1. PICK error \in Errors, planMode \in PlanModes :
        AsksForFallback(r, error) /\ HandleFallback(r, KindOf(error), planMode)
  BY DEF FallsBack
<1>2. KindOf(error) \in FailureKind
  BY <1>1 DEF AsksForFallback, KindOf, FailureKind
<1>3. Keeps(conf, conf') /\ req' \in Coroutines
  BY <1>1, <1>2, HandleFallbackType DEF TypeOK, Coroutines
<1> QED
  BY <1>3, RequestIsGood DEF FallsBack

LEMMA RefusesIsGood ==
  ASSUME TypeOK, NEW r \in Requests, Refuses(r)
  PROVE  Good
  BY MoveIsGood DEF Refuses, Awaits

LEMMA RetriesOnceIsGood ==
  ASSUME TypeOK, NEW r \in Requests, RetriesOnce(r)
  PROVE  Good
<1> DEFINE transition == req[r].question.transition
           health == ApplyTransition(conf.health, req[r].model, transition)
<1>1. conf.health \in HealthMap /\ transition \in Transitions
  BY DEF TypeOK, Conf, HealthMap, Coroutine, Question
<1>2. health \in HealthMap
  BY <1>1, ApplyTransitionType
<1>3. \A m \in Models : conf.health[m] = "terminal" => health[m] = "terminal"
  BY <1>1, ApplyTransitionKeeps
<1>4. conf' = [conf EXCEPT !.health = health] /\ Granted(r)
  BY DEF RetriesOnce
<1> HIDE DEF health
<1>5. Keeps(conf, conf')
  BY <1>2, <1>3, <1>4 DEF Keeps, TypeOK, Conf, HealthMap
<1>6. req' \in Coroutines
  BY <1>4, GrantedType DEF TypeOK, Coroutines
<1> QED
  BY <1>5, <1>6, RequestIsGood DEF RetriesOnce

LEMMA RetriesAlwaysIsGood ==
  ASSUME TypeOK, NEW r \in Requests, RetriesAlways(r)
  PROVE  Good
<1>1. req[r].question.transition \in Transitions /\ req[r].question.fallback \in Names
  BY DEF TypeOK, Coroutine, Question
<1>2. Keeps(conf, conf') /\ req' \in Coroutines
  BY <1>1, SwitchType DEF RetriesAlways, TypeOK, Coroutines
<1> QED
  BY <1>2, RequestIsGood DEF RetriesAlways

LEMMA SwitchesAndStopsIsGood ==
  ASSUME TypeOK, NEW r \in Requests, SwitchesAndStops(r)
  PROVE  Good
<1>1. req[r].question.fallback \in Names /\ conf \in Conf
  BY DEF TypeOK, Coroutine, Question
<1>2. conf' \in Conf /\ conf'.health \in {conf.health, AllHealthy}
  BY <1>1, ActivateType DEF SwitchesAndStops
<1>3. Keeps(conf, conf')
  BY <1>2 DEF Keeps
<1>4. req' \in Coroutines
  BY EndType DEF SwitchesAndStops, TypeOK, Coroutines
<1> QED
  BY <1>3, <1>4, RequestIsGood DEF SwitchesAndStops

LEMMA AbortIsGood ==
  ASSUME TypeOK, NEW r \in Requests, Abort(r)
  PROVE  Good
<1>1. req' \in Coroutines
  BY DEF Abort, TypeOK, Coroutines, Coroutine
<1> QED
  BY <1>1, LocalIsGood DEF Abort

LEMMA SwitchModelIsGood ==
  ASSUME TypeOK, SwitchModel
  PROVE  Good
<1>1. PICK name \in UserModels : conf' = SetModel(conf, name)
  BY DEF SwitchModel
<1>2. Keeps(conf, conf')
  BY <1>1, SetModelType, FallbackAssumption DEF Keeps, TypeOK
<1>3. switches' \in 0..MaxSwitches
  BY FallbackAssumption DEF SwitchModel, TypeOK
<1> QED
  BY <1>2, <1>3, StepIsGood DEF SwitchModel, TypeOK, Coroutines

LEMMA RefreshAuthIsGood ==
  ASSUME TypeOK, RefreshAuth
  PROVE  Good
<1>1. Keeps(conf, conf')
  BY AllHealthyType DEF RefreshAuth, Keeps, TypeOK, Conf, HealthMap
<1>2. switches' \in 0..MaxSwitches
  BY FallbackAssumption DEF RefreshAuth, TypeOK
<1> QED
  BY <1>1, <1>2, StepIsGood DEF RefreshAuth, TypeOK, Coroutines

LEMMA NextIsGood ==
  ASSUME TypeOK, Next
  PROVE  Good
<1>1. CASE \E r \in Main : SendMessage(r)
  BY <1>1, SendMessageIsGood DEF Requests
<1>2. CASE \E r \in Agents \cup Utilities : Begin(r)
  BY <1>2, BeginIsGood
<1>3. ASSUME NEW r \in Requests, Proceed(r)
      PROVE  Good
  <2>1. CASE Route(r) \/ Classify(r)
    BY <2>1, RouteIsGood, ClassifyIsGood
  <2>2. CASE Start(r) \/ TryAgain(r) \/ Handler(r)
    BY <2>2, StartIsGood, TryAgainIsGood, RefusesIsGood, RetriesOnceIsGood,
       RetriesAlwaysIsGood, SwitchesAndStopsIsGood DEF Handler
  <2>3. CASE Succeeds(r) \/ ContentRejected(r) \/ StreamEnds(r) \/ StreamBreaks(r)
    BY <2>3, SucceedsIsGood, ContentRejectedIsGood, StreamEndsIsGood, StreamBreaksIsGood
  <2>4. CASE FailsForNow(r) \/ FailsForGood(r) \/ FallsBack(r)
    BY <2>4, FailsForNowIsGood, FailsForGoodIsGood, FallsBackIsGood
  <2> QED
    BY <1>3, <2>1, <2>2, <2>3, <2>4 DEF Proceed
<1>4. CASE \E r \in Requests : Abort(r)
  BY <1>4, AbortIsGood
<1>5. CASE SwitchModel \/ RefreshAuth
  BY <1>5, SwitchModelIsGood, RefreshAuthIsGood
<1> QED
  BY <1>1, <1>2, <1>3, <1>4, <1>5 DEF Next

LEMMA InitType == Init => TypeOK
<1> SUFFICES ASSUME Init PROVE TypeOK
  OBVIOUS
<1> PICK host \in Hosts :
      conf = [configured |-> Initially, active |-> Initially, sequence |-> NoModel,
              health |-> AllHealthy, override |-> [n \in Names |-> NoModel],
              host |-> host, retried |-> {}]
  BY DEF Init
<1>1. conf \in Conf
  BY AllHealthyType, FallbackAssumption DEF Init, Conf, HealthMap
<1> QED
  BY <1>1, IdleType, FallbackAssumption DEF Init, TypeOK

(***************************************************************************)
(* The variables of model fallback keep their types.  In particular the    *)
(* model of a selection, of a fallback and of a request is always one that *)
(* exists: no chain is exhausted without a last resort.                    *)
(***************************************************************************)
THEOREM TypeCorrect == Spec => []TypeOK
<1>1. TypeOK /\ [Next]_vars => TypeOK'
  <2>1. CASE Next
    BY <2>1, NextIsGood DEF Good
  <2>2. CASE UNCHANGED vars
    BY <2>2 DEF vars, TypeOK
  <2> QED
    BY <2>1, <2>2
<1> QED
  BY InitType, <1>1, PTL DEF Spec

(***************************************************************************)
(* A terminal mark is taken away by the model's own answer or with all     *)
(* marks, whatever fails for whichever requests at the same time.          *)
(***************************************************************************)
THEOREM TerminalMarksHold == Spec => TerminalHolds
<1>1. TypeOK /\ [Next]_vars =>
        [\A m \in Models : conf.health[m] = "terminal" /\ conf'.health[m] # "terminal" =>
           conf'.health = AllHealthy \/ \E r \in Requests : Answers(r, m)]_vars
  BY NextIsGood DEF Good, TerminalStep
<1> QED
  BY TypeCorrect, <1>1, PTL DEF Spec, TerminalHolds

-----------------------------------------------------------------------------
(***************************************************************************)
(* What the step of a request makes of Config.                             *)
(***************************************************************************)
ConfChanges(r) ==
  \/ conf' = conf
  \/ \E kept : conf' = [conf EXCEPT !.health = ResetTurn(@), !.retried = {}, !.sequence = kept]
  \/ \E m \in Models : conf' = [conf EXCEPT !.active = m, !.sequence = m]
  \/ \E m \in Models, name \in Names : conf' = Consume([conf EXCEPT !.active = name], m)
  \/ conf' = [conf EXCEPT !.health = MarkHealthy(@, req[r].model), !.retried = @ \ {req[r].model}]
  \/ \E transition \in Transitions :
       conf' = [conf EXCEPT !.health = ApplyTransition(@, req[r].model, transition)]
  \/ \E transition \in Transitions, to \in Names, failed \in {req[r].model, NoModel} :
       conf' = ActivateFallbackMode(
                 [conf EXCEPT !.health = ApplyTransition(@, req[r].model, transition)], to, failed)

OnlyItself(r) == \A s \in Requests \ {r} : req'[s] = req[s]

LEMMA ChooseChanges ==
  ASSUME TypeOK, NEW r \in Requests, NEW name \in Names, Choose(r, name)
  PROVE  ConfChanges(r) /\ OnlyItself(r)
<1>1. Selection(conf, name) \in Models
  BY SelectionType DEF TypeOK
<1> QED
  BY <1>1 DEF Choose, ConfChanges, OnlyItself, TypeOK

LEMMA RouteChanges ==
  ASSUME TypeOK, NEW r \in Requests, Route(r) \/ Classify(r)
  PROVE  ConfChanges(r) /\ OnlyItself(r)
<1>1. ASSUME Route(r), RoutedAtOnce # NoModel
      PROVE  ConfChanges(r) /\ OnlyItself(r)
  <2>1. conf.configured \in Names
    BY DEF TypeOK, Conf
  <2>2. /\ Resolve(conf.configured) \in Models
        /\ SelectModel(conf.health, conf.configured, conf.configured) \in Models
    BY <2>1, ResolveType, SelectModelType
  <2>3. RoutedAtOnce \in Names
    BY <1>1, <2>2 DEF RoutedAtOnce, TypeOK, Conf, Names
  <2> QED
    BY <1>1, <2>3, ChooseChanges DEF Route
<1>2. ASSUME Route(r), RoutedAtOnce = NoModel
      PROVE  ConfChanges(r) /\ OnlyItself(r)
  BY <1>2 DEF Route, Goto, ConfChanges, OnlyItself, TypeOK
<1>3. ASSUME Classify(r)
      PROVE  ConfChanges(r) /\ OnlyItself(r)
  <2>1. PICK name \in {Pro, Flash, Resolve(conf.active)} : Choose(r, name)
    BY <1>3 DEF Classify
  <2>2. name \in Names
    BY <2>1, ResolveType DEF TypeOK, Conf, Names, Models
  <2> QED
    BY <2>1, <2>2, ChooseChanges
<1> QED
  BY <1>1, <1>2, <1>3

LEMMA EnterChanges ==
  ASSUME TypeOK, NEW r \in Requests, NEW name \in Names, NEW breaks, NEW isAborted,
         Enter(r, name, breaks, isAborted)
  PROVE  ConfChanges(r) /\ OnlyItself(r)
<1> DEFINE model == Selection(conf, name)
           active == IF r \in Main THEN model ELSE conf.active
<1>1. model \in Models /\ active \in Names
  BY SelectionType DEF TypeOK, Names, Conf
<1>2. conf' = Consume([conf EXCEPT !.active = active], model)
  BY DEF Enter
<1>3. OnlyItself(r)
  BY DEF Enter, End, OnlyItself, TypeOK
<1> HIDE DEF model, active
<1> QED
  BY <1>1, <1>2, <1>3 DEF ConfChanges

LEMMA FallbackChanges ==
  ASSUME TypeOK, NEW r \in Requests, FallsBack(r) \/ Handler(r)
  PROVE  ConfChanges(r) /\ OnlyItself(r)
<1>0. conf \in Conf /\ req \in Coroutines /\ req[r] \in Coroutine
  BY DEF TypeOK, Coroutines
<1>1. ASSUME NEW transition \in Transitions, NEW to \in Names,
             NEW failed \in {req[r].model, NoModel}, Switch(r, transition, to, failed)
      PROVE  ConfChanges(r) /\ OnlyItself(r)
  BY <1>0, <1>1 DEF Switch, Granted, ConfChanges, OnlyItself, Coroutines
<1>2. ASSUME NEW question, Ask(r, question)
      PROVE  ConfChanges(r) /\ OnlyItself(r)
  BY <1>0, <1>2 DEF Ask, End, ConfChanges, OnlyItself, Coroutines
<1>3. CASE FallsBack(r)
  <2>1. PICK error \in Errors, planMode \in PlanModes :
          AsksForFallback(r, error) /\ HandleFallback(r, KindOf(error), planMode)
    BY <1>3 DEF FallsBack
  <2>2. KindOf(error) \in FailureKind
    BY <2>1 DEF AsksForFallback, KindOf, FailureKind
  <2>3. Fallback(r)
    BY <1>0, <2>1, <2>2, HandleFallbackCases
  <2> QED
    BY <1>1, <1>2, <2>3 DEF Fallback
<1>4. CASE Refuses(r)
  BY <1>0, <1>4 DEF Refuses, End, ConfChanges, OnlyItself, Coroutines
<1>5. CASE RetriesOnce(r)
  BY <1>0, <1>5 DEF RetriesOnce, Granted, ConfChanges, OnlyItself, Coroutines, Coroutine, Question
<1>6. CASE RetriesAlways(r)
  <2>1. /\ req[r].question.transition \in Transitions /\ req[r].question.fallback \in Names
        /\ req[r].question.bypass \in BOOLEAN
    BY <1>0 DEF Coroutine, Question
  <2> QED
    BY <1>1, <1>6, <2>1 DEF RetriesAlways
<1>7. CASE SwitchesAndStops(r)
  <2>1. req[r].question.fallback \in Names
    BY <1>0 DEF Coroutine, Question
  <2>2. "none" \in Transitions /\ ApplyTransition(conf.health, req[r].model, "none") = conf.health
    BY DEF Transitions, ApplyTransition
  <2>3. [conf EXCEPT !.health = conf.health] = conf
    BY <1>0 DEF Conf
  <2>4. OnlyItself(r)
    BY <1>0, <1>7 DEF SwitchesAndStops, End, OnlyItself, Coroutines
  <2>5. conf' = ActivateFallbackMode(
                  [conf EXCEPT !.health = ApplyTransition(@, req[r].model, "none")],
                  req[r].question.fallback, req[r].model)
    BY <1>7, <2>2, <2>3 DEF SwitchesAndStops
  <2> QED
    BY <2>1, <2>2, <2>4, <2>5 DEF ConfChanges
<1> QED
  BY <1>3, <1>4, <1>5, <1>6, <1>7 DEF Handler

LEMMA ProceedChanges ==
  ASSUME TypeOK, NEW r \in Requests, Proceed(r)
  PROVE  ConfChanges(r) /\ OnlyItself(r)
<1>1. CASE Route(r) \/ Classify(r)
  BY <1>1, RouteChanges
<1>2. CASE Start(r)
  <2>1. req[r].key \in Names
    BY DEF TypeOK, Coroutine
  <2> QED
    BY <1>2, <2>1, EnterChanges DEF Start
<1>3. CASE FallsBack(r) \/ Handler(r)
  BY <1>3, FallbackChanges
<1>4. CASE TryAgain(r)
  BY <1>4 DEF TryAgain, End, ConfChanges, OnlyItself, TypeOK
<1>5. CASE Succeeds(r)
  <2>1. OnlyItself(r)
    BY <1>5 DEF Succeeds, End, Goto, OnlyItself, TypeOK
  <2> QED
    BY <1>5, <2>1 DEF Succeeds, ConfChanges
<1>6. CASE ContentRejected(r) \/ StreamEnds(r) \/ FailsForNow(r) \/ FailsForGood(r)
  BY <1>6 DEF ContentRejected, StreamEnds, FailsForNow, FailsForGood, End, Goto,
     ConfChanges, OnlyItself, TypeOK
<1>7. CASE StreamBreaks(r)
  BY <1>7 DEF StreamBreaks, ConfChanges, OnlyItself, TypeOK
<1> QED
  BY <1>1, <1>2, <1>3, <1>4, <1>5, <1>6, <1>7 DEF Proceed

\* Every step is a request's, or the user's on Config alone.
LEMMA NextChanges ==
  ASSUME TypeOK, [Next]_vars
  PROVE  \/ \E r \in Requests : ConfChanges(r) /\ OnlyItself(r)
         \/ req' = req /\ SwitchModel
         \/ req' = req /\ RefreshAuth
         \/ req' = req /\ conf' = conf
<1>1. ASSUME NEW r \in Main, SendMessage(r)
      PROVE  ConfChanges(r) /\ OnlyItself(r) /\ r \in Requests
  BY <1>1 DEF SendMessage, Goto, ConfChanges, OnlyItself, TypeOK, Requests
<1>2. ASSUME NEW r \in Agents \cup Utilities, Begin(r)
      PROVE  ConfChanges(r) /\ OnlyItself(r) /\ r \in Requests
  <2>1. PICK name \in Keys[r] : Enter(r, name, 0, FALSE)
    BY <1>2 DEF Begin
  <2>2. name \in Names /\ r \in Requests
    BY FallbackAssumption DEF Requests
  <2> QED
    BY <2>1, <2>2, EnterChanges
<1>3. ASSUME NEW r \in Requests, Abort(r)
      PROVE  ConfChanges(r) /\ OnlyItself(r)
  BY <1>3 DEF Abort, ConfChanges, OnlyItself, TypeOK
<1>4. CASE UNCHANGED vars
  BY <1>4 DEF vars
<1>5. CASE SwitchModel \/ RefreshAuth
  BY <1>5 DEF SwitchModel, RefreshAuth
<1> QED
  BY <1>1, <1>2, <1>3, <1>4, <1>5, ProceedChanges DEF Next

-----------------------------------------------------------------------------
(***************************************************************************)
(* The mark that allows one more attempt in a turn.                        *)
(***************************************************************************)
OnceIn(c) == \A m \in c.retried : ~IsStickyAttempt(c.health, m)

LEMMA ApplyTransitionOnce ==
  ASSUME NEW health \in HealthMap, NEW failed, NEW transition \in Transitions,
         NEW m \in Models, health[m] # "sticky"
  PROVE  ApplyTransition(health, failed, transition)[m] # "sticky"
<1>1. MarkTerminal(health, failed)[m] # "sticky"
  BY DEF HealthMap, MarkTerminal
<1>2. /\ MarkRetryOncePerTurn(health, failed) \in HealthMap
      /\ m # failed => MarkRetryOncePerTurn(health, failed)[m] # "sticky"
  BY DEF HealthMap, MarkRetryOncePerTurn, Health
<1>3. ConsumeStickyAttempt(MarkRetryOncePerTurn(health, failed), failed)[m] # "sticky"
  <2> DEFINE marked == MarkRetryOncePerTurn(health, failed)
  <2> HIDE DEF marked
  <2> QED
    BY <1>2 DEF HealthMap, ConsumeStickyAttempt, marked
<1> QED
  BY <1>1, <1>3 DEF ApplyTransition, Transitions

LEMMA SetModelOnce ==
  ASSUME NEW c \in Conf, NEW name
  PROVE  OnceIn(SetModel(c, name))
<1>1. SetModel(c, name).retried = {}
  BY DEF SetModel, Conf
<1> QED
  BY <1>1 DEF OnceIn

LEMMA ActivateOnce ==
  ASSUME NEW c \in Conf, NEW to \in Names, NEW failed, OnceIn(c)
  PROVE  OnceIn(ActivateFallbackMode(c, to, failed))
<1> DEFINE switched == IF c.active = to THEN c ELSE SetModel(c, to)
<1>1. switched \in Conf /\ OnceIn(switched)
  BY SetModelType, SetModelOnce
<1> HIDE DEF switched
<1>2. /\ RegisterOverride(switched, failed, to).health = switched.health
      /\ RegisterOverride(switched, failed, to).retried = switched.retried
  BY <1>1 DEF RegisterOverride, Conf
<1>3. ActivateFallbackMode(c, to, failed) \in {switched, RegisterOverride(switched, failed, to)}
  BY DEF ActivateFallbackMode, switched
<1>4. OnceIn(RegisterOverride(switched, failed, to))
  BY <1>1, <1>2 DEF OnceIn
<1> QED
  BY <1>1, <1>3, <1>4

LEMMA ConsumeOnce ==
  ASSUME NEW c \in Conf, NEW model \in Models, OnceIn(c)
  PROVE  OnceIn(Consume(c, model))
<1>1. CASE c.health[model] = "sticky"
  <2>1. /\ Consume(c, model).retried = c.retried \cup {model}
        /\ Consume(c, model).health = [c.health EXCEPT ![model] = "consumed"]
    BY <1>1 DEF Consume, ConsumeStickyAttempt, IsStickyAttempt, Conf
  <2> QED
    BY <2>1 DEF OnceIn, IsStickyAttempt, Conf
<1>2. CASE c.health[model] # "sticky"
  <2>1. Consume(c, model).retried = c.retried /\ Consume(c, model).health = c.health
    BY <1>2 DEF Consume, ConsumeStickyAttempt, IsStickyAttempt, Conf
  <2> QED
    BY <2>1 DEF OnceIn
<1> QED
  BY <1>1, <1>2

LEMMA StepOnce ==
  ASSUME TypeOK, RetriedOncePerTurn, [Next]_vars
  PROVE  RetriedOncePerTurn'
<1>0. conf \in Conf /\ OnceIn(conf) /\ conf.health \in HealthMap /\ conf.retried \subseteq Models
  BY DEF TypeOK, RetriedOncePerTurn, OnceIn, Conf, HealthMap
<1>1. ASSUME NEW r \in Requests, ConfChanges(r)
      PROVE  RetriedOncePerTurn'
  <2> DEFINE marked(transition) ==
               [conf EXCEPT !.health = ApplyTransition(@, req[r].model, transition)]
  <2>1. CASE conf' = conf
    BY <1>0, <2>1 DEF OnceIn, RetriedOncePerTurn
  <2>2. ASSUME NEW kept,
               conf' = [conf EXCEPT !.health = ResetTurn(@), !.retried = {}, !.sequence = kept]
        PROVE  RetriedOncePerTurn'
    BY <1>0, <2>2 DEF RetriedOncePerTurn, Conf
  <2>3. ASSUME NEW m, conf' = [conf EXCEPT !.active = m, !.sequence = m]
        PROVE  RetriedOncePerTurn'
    <3>1. conf'.health = conf.health /\ conf'.retried = conf.retried
      BY <1>0, <2>3 DEF Conf
    <3> QED
      BY <1>0, <3>1 DEF RetriedOncePerTurn, OnceIn
  <2>4. ASSUME NEW m \in Models, NEW name \in Names,
               conf' = Consume([conf EXCEPT !.active = name], m)
        PROVE  RetriedOncePerTurn'
    <3> DEFINE c == [conf EXCEPT !.active = name]
    <3>1. c \in Conf /\ OnceIn(c)
      BY <1>0 DEF Conf, OnceIn
    <3> HIDE DEF c
    <3>2. OnceIn(Consume(c, m))
      BY <3>1, ConsumeOnce
    <3> QED
      BY <2>4, <3>2 DEF RetriedOncePerTurn, OnceIn, c
  <2>5. CASE conf' = [conf EXCEPT !.health = MarkHealthy(@, req[r].model),
                                  !.retried = @ \ {req[r].model}]
    <3>1. /\ conf'.retried = conf.retried \ {req[r].model}
          /\ \A m \in conf'.retried : conf'.health[m] = conf.health[m]
      BY <1>0, <2>5 DEF Conf, MarkHealthy
    <3> QED
      BY <1>0, <3>1 DEF RetriedOncePerTurn, OnceIn, IsStickyAttempt
  <2>6. ASSUME NEW transition \in Transitions
        PROVE  marked(transition) \in Conf /\ OnceIn(marked(transition))
    <3>1. ApplyTransition(conf.health, req[r].model, transition) \in HealthMap
      BY <1>0, ApplyTransitionType
    <3>2. /\ marked(transition) \in Conf
          /\ marked(transition).retried = conf.retried
          /\ marked(transition).health = ApplyTransition(conf.health, req[r].model, transition)
      BY <1>0, <3>1 DEF Conf, HealthMap
    <3>3. \A m \in conf.retried :
            ApplyTransition(conf.health, req[r].model, transition)[m] # "sticky"
      BY <1>0, ApplyTransitionOnce DEF OnceIn, IsStickyAttempt
    <3> QED
      BY <3>2, <3>3 DEF OnceIn, IsStickyAttempt
  <2> HIDE DEF marked
  <2>7. ASSUME NEW transition \in Transitions, conf' = marked(transition)
        PROVE  RetriedOncePerTurn'
    BY <2>6, <2>7 DEF RetriedOncePerTurn, OnceIn
  <2>8. ASSUME NEW transition \in Transitions, NEW to \in Names, NEW failed,
               conf' = ActivateFallbackMode(marked(transition), to, failed)
        PROVE  RetriedOncePerTurn'
    <3>1. OnceIn(ActivateFallbackMode(marked(transition), to, failed))
      BY <2>6, ActivateOnce
    <3> QED
      BY <2>8, <3>1 DEF RetriedOncePerTurn, OnceIn
  <2> QED
    BY <1>1, <2>1, <2>2, <2>3, <2>4, <2>5, <2>7, <2>8 DEF ConfChanges, marked
<1>2. CASE SwitchModel
  BY <1>0, <1>2, SetModelOnce DEF SwitchModel, RetriedOncePerTurn, OnceIn
<1>3. CASE RefreshAuth
  BY <1>0, <1>3 DEF RefreshAuth, RetriedOncePerTurn, Conf
<1>4. CASE conf' = conf
  BY <1>0, <1>4 DEF RetriedOncePerTurn
<1> QED
  BY <1>1, <1>2, <1>3, <1>4, NextChanges

(***************************************************************************)
(* A model marked for one more attempt is offered it once in a turn, for   *)
(* any number of turns, agents and utility calls that fail and are asked   *)
(* again at the same time.                                                 *)
(***************************************************************************)
THEOREM RetriedOnceHolds == Spec => []RetriedOncePerTurn
<1>1. Init => RetriedOncePerTurn
  BY DEF Init, RetriedOncePerTurn
<1>2. TypeOK /\ RetriedOncePerTurn /\ [Next]_vars => RetriedOncePerTurn'
  BY StepOnce
<1> QED
  BY <1>1, <1>2, TypeCorrect, PTL DEF Spec

-----------------------------------------------------------------------------
(***************************************************************************)
(* The overrides.                                                          *)
(***************************************************************************)
LEMMA ActivateOverrides ==
  ASSUME NEW c \in Conf, NEW to \in Names, NEW failed
  PROVE  LET d == ActivateFallbackMode(c, to, failed)
         IN  IF failed = NoModel THEN d.override = c.override
             ELSE \A n \in Names : d.override[n] =
                    IF n = failed \/ c.override[n] = failed THEN to ELSE c.override[n]
<1> DEFINE switched == IF c.active = to THEN c ELSE SetModel(c, to)
<1>1. switched \in Conf /\ switched.override = c.override
  BY SetModelType DEF SetModel, Conf
<1> HIDE DEF switched
<1>2. \A n \in Names : RegisterOverride(switched, failed, to).override[n] =
        IF n = failed \/ switched.override[n] = failed THEN to ELSE switched.override[n]
  BY <1>1 DEF RegisterOverride, Conf
<1>3. ActivateFallbackMode(c, to, failed) =
        IF failed = NoModel THEN switched ELSE RegisterOverride(switched, failed, to)
  BY DEF ActivateFallbackMode, switched
<1> QED
  BY <1>1, <1>2, <1>3

MovesOn(r) ==
  LET failed == req[r].model IN
  conf'.override[failed] \notin {conf.override[failed], failed}
    => \A n \in Names : conf'.override[n] # failed

LEMMA ChangesMoveOn ==
  ASSUME TypeOK, NEW r \in Requests, ConfChanges(r)
  PROVE  MovesOn(r)
<1>0. conf \in Conf /\ conf.health \in HealthMap /\ req[r].model \in Names
  BY DEF TypeOK, Conf, HealthMap, Coroutine
<1>1. CASE conf'.override = conf.override
  BY <1>1 DEF MovesOn
<1>2. ASSUME NEW transition \in Transitions, NEW to \in Names,
             NEW failed \in {req[r].model, NoModel},
             conf' = ActivateFallbackMode(
               [conf EXCEPT !.health = ApplyTransition(@, req[r].model, transition)], to, failed)
      PROVE  MovesOn(r)
  <2> DEFINE c == [conf EXCEPT !.health = ApplyTransition(@, req[r].model, transition)]
  <2>1. ApplyTransition(conf.health, req[r].model, transition) \in HealthMap
    BY <1>0, ApplyTransitionType
  <2>2. c \in Conf /\ c.override = conf.override
    BY <1>0, <2>1 DEF Conf, HealthMap
  <2> HIDE DEF c
  <2>3. IF failed = NoModel THEN conf'.override = conf.override
        ELSE \A n \in Names : conf'.override[n] =
               IF n = failed \/ conf.override[n] = failed THEN to ELSE conf.override[n]
    <3> DEFINE d == ActivateFallbackMode(c, to, failed)
    <3>1. conf' = d
      BY <1>2 DEF c
    <3>2. IF failed = NoModel THEN d.override = c.override
          ELSE \A n \in Names : d.override[n] =
                 IF n = failed \/ c.override[n] = failed THEN to ELSE c.override[n]
      BY <2>2, ActivateOverrides
    <3> HIDE DEF d
    <3> QED
      BY <2>2, <3>1, <3>2
  <2> QED
    BY <1>0, <1>1, <2>3 DEF MovesOn
<1>3. \/ conf'.override = conf.override
      \/ \E transition \in Transitions, to \in Names, failed \in {req[r].model, NoModel} :
           conf' = ActivateFallbackMode(
             [conf EXCEPT !.health = ApplyTransition(@, req[r].model, transition)], to, failed)
  <2>1. \A m, name : Consume([conf EXCEPT !.active = name], m).override = conf.override
    BY <1>0 DEF Consume, Conf
  <2> QED
    BY <1>0, <2>1 DEF ConfChanges, Conf
<1> QED
  BY <1>1, <1>2, <1>3

(***************************************************************************)
(* When a model is overridden because it failed, no override leads to it   *)
(* any more, whatever failed before it and in whichever order.             *)
(***************************************************************************)
THEOREM OverridesLeadOn == Spec => OverridesMoveOn
<1>1. TypeOK /\ [Next]_vars =>
        [\A r \in Requests : LET failed == req[r].model IN
           /\ req'[r] # req[r]
           /\ conf'.override[failed] \notin {conf.override[failed], failed}
           => \A n \in Names : conf'.override[n] # failed]_vars
  <2> SUFFICES ASSUME TypeOK, [Next]_vars, NEW r \in Requests, req'[r] # req[r]
               PROVE  MovesOn(r)
    BY DEF MovesOn
  <2>1. PICK s \in Requests : ConfChanges(s) /\ OnlyItself(s)
    BY NextChanges
  <2>2. r = s
    BY <2>1 DEF OnlyItself
  <2> QED
    BY <2>1, <2>2, ChangesMoveOn
<1> QED
  BY TypeCorrect, <1>1, PTL DEF Spec, OverridesMoveOn

-----------------------------------------------------------------------------
(***************************************************************************)
(* The session of a model of no tier.                                      *)
(***************************************************************************)
LEMMA CustomChain ==
  ASSUME NEW k \in Customs
  PROVE  /\ PolicyChain[k][k] = <<PolicyFor(k, "prompt", TRUE, 0)>>
         /\ k \in Names /\ k # "auto" /\ Resolve(k) = k
<1>1. k \in Models /\ k \in Names /\ k \notin DOMAIN Alias /\ k \notin {Pro, Flash, Lite}
  BY PolicyAssumption DEF Models, Names
<1>2. k # "auto" /\ Resolve(k) = k
  BY <1>1 DEF Resolve, Alias
<1> DEFINE chain == IF k = Lite THEN LiteChain
                    ELSE IF "auto" \in {k, k} THEN AutoChain ELSE DefaultChain
<1>3. PolicyChain[k][k] = Slice(chain, k)
  BY <1>1, <1>2 DEF PolicyChain
<1>4. chain = DefaultChain
  BY <1>1, <1>2
<1>5. {i \in DOMAIN DefaultChain : DefaultChain[i].model = k} = {}
  BY <1>1 DEF DefaultChain, FlashPolicy, PolicyFor
<1> HIDE DEF chain
<1> QED
  BY <1>1, <1>2, <1>3, <1>4, <1>5 DEF Slice

LEMMA CustomSelected ==
  ASSUME NEW k \in Customs, NEW health
  PROVE  LET chain == PolicyChain[k][k] IN
         /\ Or(FirstAvailable(health, chain), LastResort(chain)) = k
         /\ SelectModel(health, k, k) = k
<1> DEFINE p == PolicyFor(k, "prompt", TRUE, 0)
           chain == PolicyChain[k][k]
           at == AvailableAt(health, chain)
           last == {i \in DOMAIN chain : chain[i].isLastResort}
<1>1. chain = <<p>> /\ p.model = k /\ p.isLastResort /\ k # NoModel
  BY CustomChain, PolicyAssumption DEF PolicyFor, Names, Models
<1> HIDE DEF p, chain
<1>2. DOMAIN chain = {1} /\ chain[1].model = k /\ chain[1].isLastResort
  BY <1>1
<1>3. last = {1} /\ (at = {} \/ at = {1})
  BY <1>2 DEF AvailableAt
<1>4. (CHOOSE i \in {1} : \A j \in {1} : i <= j) = 1
  OBVIOUS
<1> HIDE DEF at, last
<1>5. FirstAvailable(health, chain) \in {k, NoModel}
  BY <1>2, <1>3, <1>4 DEF FirstAvailable, at
<1>6. LastResort(chain) = k
  BY <1>2, <1>3, <1>4 DEF LastResort, last
<1>7. Or(FirstAvailable(health, chain), LastResort(chain)) = k
  BY <1>1, <1>5, <1>6 DEF Or
<1>8. SelectModel(health, k, k) = Or(Or(FirstAvailable(health, chain), LastResort(chain)), Pro)
  BY DEF SelectModel, chain
<1> QED
  BY <1>1, <1>7, <1>8 DEF Or, chain

\* Whatever fails beside the only model of the session falls back to it; it
\* can only be asked about itself.
LEMMA CustomFallback ==
  ASSUME TypeOK, NEW k \in Customs, conf.configured = k, conf.active = k,
         NEW r \in Requests, NEW kind \in FailureKind, NEW planMode,
         HandleFallback(r, kind, planMode)
  PROVE  \/ \E transition \in Transitions : Switch(r, transition, k, req[r].model)
         \/ \E question \in Question : Ask(r, question) /\ question.fallback = k
<1> DEFINE failed == req[r].model
           p == PolicyFor(k, "prompt", TRUE, 0)
           chain == PolicyChain[k][k]
           candidates == Candidates(chain, failed)
           transition == TransitionFor(chain, failed, kind)
           question(fallback) == [kind |-> kind, fallback |-> fallback,
                                  transition |-> transition, bypass |-> failed # k]
<1>1. chain = <<p>> /\ p.model = k /\ chain \in Chain /\ k \in Names
  BY CustomChain, PolicyChainType DEF PolicyFor
<1>2. failed \in Names /\ transition \in Transitions
  BY <1>1, TransitionForType DEF TypeOK, Coroutine
<1>3. question(k) \in Question /\ question(k).fallback = k
  <2> HIDE DEF transition, failed
  <2> QED
    BY <1>1, <1>2 DEF Question
<1> HIDE DEF chain, p
<1>4. CASE failed = k
  <2>1. {i \in DOMAIN chain : chain[i].model = failed} = {1}
    BY <1>1, <1>4
  <2>2. candidates = <<>>
    BY <1>1, <2>1 DEF Candidates
  <2>3. Ask(r, question(failed))
    BY <1>4, <2>2 DEF HandleFallback, chain
  <2> QED
    BY <1>3, <1>4, <2>3
<1>5. CASE failed # k
  <2>1. {i \in DOMAIN chain : chain[i].model = failed} = {}
    BY <1>1, <1>5
  <2>2. candidates = chain /\ candidates # <<>>
    BY <1>1, <2>1 DEF Candidates
  <2>3. Or(FirstAvailable(conf.health, candidates), LastResort(candidates)) = k
    BY <2>2, CustomSelected DEF chain
  <2> HIDE DEF candidates
  <2>4. Switch(r, transition, k, failed)
    BY <1>5, <2>2, <2>3 DEF HandleFallback, chain, candidates
  <2> QED
    BY <1>2, <2>4
<1> QED
  BY <1>4, <1>5

ConfKept(c) ==
  /\ c.configured = Initially /\ c.active = Initially
  /\ c.sequence \in {NoModel, Initially}
  /\ \A n \in Names : c.override[n] \in {NoModel, Initially}

CoroutineKept(r, co) ==
  /\ co.pc # "classifying" /\ co.question.fallback = Initially
  /\ r \in Main => co.key = Initially /\ co.model = Initially

Kept == ConfKept(conf) /\ \A r \in Requests : CoroutineKept(r, req[r])

LEMMA IdleKept == \A r : CoroutineKept(r, Idle)
  BY DEF CoroutineKept, Idle, NoQuestion

LEMMA EndKept ==
  ASSUME TypeOK, NEW r \in Requests, End(r)
  PROVE  CoroutineKept(r, req'[r])
<1>1. req'[r] = Idle
  BY DEF End, TypeOK
<1> QED
  BY <1>1, IdleKept

LEMMA GotoKept ==
  ASSUME TypeOK, NEW r \in Requests, CoroutineKept(r, req[r]),
         NEW pc, pc # "classifying", Goto(r, pc)
  PROVE  CoroutineKept(r, req'[r])
<1>1. req'[r] = [req[r] EXCEPT !.pc = pc] /\ req[r] \in Coroutine
  BY DEF Goto, TypeOK
<1> QED
  BY <1>1 DEF CoroutineKept, Coroutine

LEMMA GrantedKept ==
  ASSUME TypeOK, NEW r \in Requests, CoroutineKept(r, req[r]), Granted(r)
  PROVE  CoroutineKept(r, req'[r])
<1>1. req'[r] = [req[r] EXCEPT !.pc = "again", !.attempt = 0, !.question = NoQuestion]
  BY DEF Granted, TypeOK
<1>2. req[r] \in Coroutine
  BY DEF TypeOK
<1> QED
  BY <1>1, <1>2 DEF CoroutineKept, Coroutine, NoQuestion

LEMMA ActivateKept ==
  ASSUME NEW c \in Conf, ConfKept(c), Initially \in Names, NEW failed
  PROVE  ConfKept(ActivateFallbackMode(c, Initially, failed))
<1>1. ActivateFallbackMode(c, Initially, failed) \in {c, RegisterOverride(c, failed, Initially)}
  BY DEF ActivateFallbackMode, ConfKept
<1>2. ConfKept(RegisterOverride(c, failed, Initially))
  BY DEF RegisterOverride, ConfKept, Conf
<1> QED
  BY <1>1, <1>2

LEMMA SelectionKept ==
  ASSUME conf \in Conf, ConfKept(conf), Initially \in Customs
  PROVE  Selection(conf, Initially) = Initially
<1>1. Overridden(conf, Initially) = Initially
  BY CustomChain DEF Overridden, Or, ConfKept
<1>2. SelectModel(conf.health, Initially, Initially) = Initially
  BY CustomSelected
<1> QED
  BY <1>1, <1>2 DEF Selection, ConfKept

LEMMA RouteKept ==
  ASSUME TypeOK, Initially \in Customs, Kept, NEW r \in Requests, Route(r) \/ Classify(r)
  PROVE  ConfKept(conf') /\ CoroutineKept(r, req'[r])
<1>0. conf \in Conf /\ ConfKept(conf) /\ CoroutineKept(r, req[r]) /\ req[r] \in Coroutine
  BY DEF TypeOK, Kept
<1>1. Route(r)
  BY <1>0 DEF Classify, CoroutineKept
<1>2. Initially \in Names /\ Initially # NoModel /\ Initially # "auto"
      /\ Resolve(Initially) = Initially
  BY CustomChain, PolicyAssumption
<1>3. SelectModel(conf.health, Initially, Initially) = Initially
  BY CustomSelected
<1>4. RoutedAtOnce = Initially
  BY <1>0, <1>2, <1>3 DEF RoutedAtOnce, ConfKept
<1>5. Choose(r, Initially)
  BY <1>1, <1>2, <1>4 DEF Route
<1>6. Selection(conf, Initially) = Initially
  BY <1>0, SelectionKept
<1>7. conf' = [conf EXCEPT !.active = Initially, !.sequence = Initially]
  BY <1>5, <1>6 DEF Choose
<1>8. req'[r] = [req[r] EXCEPT !.pc = "ready", !.key = Initially]
  BY <1>5 DEF Choose, TypeOK
<1>9. ConfKept(conf')
  BY <1>0, <1>7 DEF ConfKept, Conf
<1> QED
  BY <1>0, <1>8, <1>9 DEF CoroutineKept, Coroutine

LEMMA EnterKept ==
  ASSUME TypeOK, Initially \in Customs, Kept, NEW r \in Requests, NEW name \in Names,
         NEW breaks, NEW isAborted, r \in Main => name = Initially,
         Enter(r, name, breaks, isAborted)
  PROVE  ConfKept(conf') /\ CoroutineKept(r, req'[r])
<1> DEFINE model == Selection(conf, name)
           active == IF r \in Main THEN model ELSE conf.active
           limit == SelectedAttempts(conf.health, conf.configured, model)
<1>0. conf \in Conf /\ ConfKept(conf)
  BY DEF TypeOK, Kept
<1>1. r \in Main => model = Initially
  BY <1>0, SelectionKept
<1>2. active = Initially
  BY <1>0, <1>1 DEF ConfKept
<1>3. conf' = Consume([conf EXCEPT !.active = active], model)
  BY DEF Enter
<1>4. ConfKept(conf')
  <2> HIDE DEF active, model
  <2> QED
    BY <1>0, <1>2, <1>3 DEF ConfKept, Consume, Conf
<1>5. CASE isAborted
  BY <1>4, <1>5, EndKept DEF Enter
<1>6. CASE ~isAborted
  <2>1. req'[r] = [Idle EXCEPT !.pc = "calling", !.key = name, !.model = model, !.attempt = 1,
                               !.limit = limit, !.initial = active, !.breaks = breaks]
    BY <1>6 DEF Enter, TypeOK
  <2> HIDE DEF model, active, limit
  <2> QED
    BY <1>1, <1>4, <2>1 DEF CoroutineKept, Idle, NoQuestion
<1> QED
  BY <1>5, <1>6

LEMMA TryAgainKept ==
  ASSUME TypeOK, Initially \in Customs, Kept, NEW r \in Requests, TryAgain(r)
  PROVE  ConfKept(conf') /\ CoroutineKept(r, req'[r])
<1>0. conf' = conf /\ ConfKept(conf) /\ CoroutineKept(r, req[r]) /\ req[r] \in Coroutine
  BY DEF TryAgain, TypeOK, Kept
<1>1. CASE IsLastAttempt(r) \/ Stops(r)
  BY <1>0, <1>1, EndKept DEF TryAgain
<1>2. CASE ~(IsLastAttempt(r) \/ Stops(r))
  <2> DEFINE next == NextModel(r)
             initial == Compared(r)
  <2>1. r \in Main => next = Initially
    BY <1>0, CustomChain, FallbackAssumption DEF NextModel, ConfKept, CoroutineKept
  <2> HIDE DEF next
  <2>2. req'[r] = [req[r] EXCEPT !.pc = "calling", !.attempt = @ + 1, !.model = next,
                                 !.initial = initial]
    BY <1>2 DEF TryAgain, TypeOK, next
  <2> HIDE DEF initial
  <2> QED
    BY <1>0, <2>1, <2>2 DEF CoroutineKept, Coroutine
<1> QED
  BY <1>1, <1>2

LEMMA FallbackKept ==
  ASSUME TypeOK, Initially \in Customs, Kept, NEW r \in Requests, FallsBack(r) \/ Handler(r)
  PROVE  ConfKept(conf') /\ CoroutineKept(r, req'[r])
<1>0. /\ conf \in Conf /\ ConfKept(conf) /\ CoroutineKept(r, req[r]) /\ req[r] \in Coroutine
      /\ Initially \in Names /\ req[r].question.fallback = Initially
  BY CustomChain DEF TypeOK, Kept, CoroutineKept
<1>1. ASSUME NEW transition \in Transitions, NEW failed, Switch(r, transition, Initially, failed)
      PROVE  ConfKept(conf') /\ CoroutineKept(r, req'[r])
  <2> DEFINE c == [conf EXCEPT !.health = ApplyTransition(@, req[r].model, transition)]
  <2>1. conf' = ActivateFallbackMode(c, Initially, failed) /\ Granted(r)
    BY <1>1 DEF Switch
  <2>2. conf.health \in HealthMap
    BY <1>0 DEF Conf, HealthMap
  <2>3. ApplyTransition(conf.health, req[r].model, transition) \in HealthMap
    BY <2>2, ApplyTransitionType
  <2>4. c \in Conf /\ ConfKept(c)
    BY <1>0, <2>3 DEF Conf, ConfKept, HealthMap
  <2>5. CoroutineKept(r, req'[r])
    BY <1>0, <2>1, GrantedKept
  <2> HIDE DEF c
  <2>6. ConfKept(ActivateFallbackMode(c, Initially, failed))
    BY <1>0, <2>4, ActivateKept
  <2> QED
    BY <2>1, <2>5, <2>6
<1>2. ASSUME NEW question \in Question, Ask(r, question), question.fallback = Initially
      PROVE  ConfKept(conf') /\ CoroutineKept(r, req'[r])
  <2>1. CASE conf.host = "none"
    BY <1>0, <1>2, <2>1, EndKept DEF Ask
  <2>2. CASE conf.host # "none"
    <3>1. req'[r] = [req[r] EXCEPT !.pc = "asking", !.question = question] /\ conf' = conf
      BY <1>2, <2>2 DEF Ask, TypeOK
    <3> QED
      BY <1>0, <1>2, <3>1 DEF CoroutineKept, Coroutine
  <2> QED
    BY <2>1, <2>2
<1>3. CASE FallsBack(r)
  <2>1. PICK error \in Errors, planMode \in PlanModes :
          AsksForFallback(r, error) /\ HandleFallback(r, KindOf(error), planMode)
    BY <1>3 DEF FallsBack
  <2>2. KindOf(error) \in FailureKind
    BY <2>1 DEF AsksForFallback, KindOf, FailureKind
  <2>3. conf.configured = Initially /\ conf.active = Initially
    BY <1>0 DEF ConfKept
  <2>4. \/ \E transition \in Transitions : Switch(r, transition, Initially, req[r].model)
        \/ \E question \in Question : Ask(r, question) /\ question.fallback = Initially
    BY <2>1, <2>2, <2>3, CustomFallback
  <2> QED
    BY <1>1, <1>2, <2>4
<1>4. CASE Refuses(r)
  BY <1>0, <1>4, EndKept DEF Refuses
<1>5. CASE RetriesOnce(r)
  <2>1. conf' = [conf EXCEPT !.health =
                   ApplyTransition(@, req[r].model, req[r].question.transition)] /\ Granted(r)
    BY <1>5 DEF RetriesOnce
  <2>2. ConfKept(conf')
    BY <1>0, <2>1 DEF ConfKept, Conf
  <2> QED
    BY <1>0, <2>1, <2>2, GrantedKept
<1>6. CASE RetriesAlways(r)
  BY <1>0, <1>1, <1>6 DEF RetriesAlways, Coroutine, Question
<1>7. CASE SwitchesAndStops(r)
  <2>1. conf' = ActivateFallbackMode(conf, Initially, req[r].model) /\ End(r)
    BY <1>0, <1>7 DEF SwitchesAndStops
  <2>2. ConfKept(ActivateFallbackMode(conf, Initially, req[r].model))
    BY <1>0, ActivateKept
  <2> QED
    BY <2>1, <2>2, EndKept
<1> QED
  BY <1>3, <1>4, <1>5, <1>6, <1>7 DEF Handler

LEMMA ProceedKept ==
  ASSUME TypeOK, Initially \in Customs, Kept, NEW r \in Requests, Proceed(r)
  PROVE  ConfKept(conf') /\ CoroutineKept(r, req'[r])
<1>0. /\ conf \in Conf /\ ConfKept(conf) /\ CoroutineKept(r, req[r]) /\ req[r] \in Coroutine
  BY DEF TypeOK, Kept
<1>1. CASE Start(r)
  <2>1. req[r].key \in Names /\ (r \in Main => req[r].key = Initially)
    BY <1>0 DEF Coroutine, CoroutineKept
  <2> QED
    BY <1>1, <2>1, EnterKept DEF Start
<1>2. CASE Succeeds(r)
  <2>1. ConfKept(conf')
    BY <1>0, <1>2 DEF Succeeds, ConfKept, Conf
  <2> QED
    BY <1>0, <1>2, <2>1, EndKept, GotoKept DEF Succeeds
<1>3. CASE ContentRejected(r) \/ StreamEnds(r) \/ FailsForNow(r) \/ FailsForGood(r)
  <2>1. conf' = conf /\ (End(r) \/ Goto(r, "again"))
    BY <1>3 DEF ContentRejected, StreamEnds, FailsForNow, FailsForGood
  <2> QED
    BY <1>0, <2>1, EndKept, GotoKept
<1>4. CASE StreamBreaks(r)
  <2>1. req'[r] = [req[r] EXCEPT !.pc = "ready", !.breaks = @ + 1] /\ conf' = conf
    BY <1>4 DEF StreamBreaks, TypeOK
  <2> QED
    BY <1>0, <2>1 DEF CoroutineKept, Coroutine
<1> QED
  BY <1>1, <1>2, <1>3, <1>4, RouteKept, TryAgainKept, FallbackKept DEF Proceed

LEMMA StepKept ==
  ASSUME TypeOK, Initially \in Customs, Kept, [Next]_vars, switches' = 0
  PROVE  Kept'
<1>0. conf \in Conf /\ ConfKept(conf) /\ \A r \in Requests : CoroutineKept(r, req[r])
  BY DEF TypeOK, Kept
<1>1. ASSUME NEW r \in Requests, OnlyItself(r), ConfKept(conf'), CoroutineKept(r, req'[r])
      PROVE  Kept'
  <2>1. \A s \in Requests : CoroutineKept(s, req'[s])
    BY <1>0, <1>1 DEF OnlyItself
  <2> QED
    BY <1>1, <2>1 DEF Kept, ConfKept, CoroutineKept
<1>2. ASSUME NEW r \in Main, SendMessage(r)
      PROVE  Kept'
  <2>1. r \in Requests /\ OnlyItself(r)
    BY <1>2 DEF SendMessage, Goto, OnlyItself, TypeOK, Requests
  <2>2. ConfKept(conf')
    BY <1>0, <1>2 DEF SendMessage, ConfKept, Conf
  <2>3. CoroutineKept(r, req'[r])
    BY <1>0, <1>2, <2>1, GotoKept DEF SendMessage
  <2> QED
    BY <1>1, <2>1, <2>2, <2>3
<1>3. ASSUME NEW r \in Agents \cup Utilities, Begin(r)
      PROVE  Kept'
  <2>1. PICK name \in Keys[r] : Enter(r, name, 0, FALSE)
    BY <1>3 DEF Begin
  <2>2. name \in Names /\ r \in Requests /\ r \notin Main
    BY FallbackAssumption DEF Requests
  <2> QED
    BY <1>1, <2>1, <2>2, EnterKept, EnterChanges
<1>4. ASSUME NEW r \in Requests, Proceed(r)
      PROVE  Kept'
  BY <1>1, <1>4, ProceedKept, ProceedChanges
<1>5. ASSUME NEW r \in Requests, Abort(r)
      PROVE  Kept'
  <2>1. req'[r] = [req[r] EXCEPT !.aborted = TRUE] /\ conf' = conf /\ OnlyItself(r)
    BY <1>5 DEF Abort, OnlyItself, TypeOK
  <2>2. req[r] \in Coroutine
    BY DEF TypeOK
  <2>3. CoroutineKept(r, req'[r])
    BY <1>0, <2>1, <2>2 DEF CoroutineKept, Coroutine
  <2> QED
    BY <1>0, <1>1, <2>1, <2>3
<1>6. CASE SwitchModel \/ RefreshAuth
  BY <1>6 DEF SwitchModel, RefreshAuth, TypeOK
<1>7. CASE UNCHANGED vars
  BY <1>0, <1>7 DEF vars, Kept, ConfKept, CoroutineKept
<1> QED
  BY <1>2, <1>3, <1>4, <1>5, <1>6, <1>7 DEF Next

LEMMA SwitchesGrow ==
  ASSUME [Next]_vars
  PROVE  switches' \in {switches, switches + 1}
<1>1. ASSUME NEW r \in Requests, Proceed(r)
      PROVE  switches' = switches
  <2>1. CASE Route(r) \/ Classify(r) \/ Start(r) \/ TryAgain(r)
    BY <2>1 DEF Route, Classify, Start, TryAgain
  <2>2. CASE Handler(r)
    BY <2>2 DEF Handler, Refuses, RetriesOnce, RetriesAlways, SwitchesAndStops
  <2>3. CASE Succeeds(r) \/ ContentRejected(r) \/ StreamEnds(r) \/ StreamBreaks(r)
    BY <2>3 DEF Succeeds, ContentRejected, StreamEnds, StreamBreaks
  <2>4. CASE FailsForNow(r) \/ FailsForGood(r) \/ FallsBack(r)
    BY <2>4 DEF FailsForNow, FailsForGood, FallsBack
  <2> QED
    BY <1>1, <2>1, <2>2, <2>3, <2>4 DEF Proceed
<1>2. ASSUME NEW r, SendMessage(r) \/ Begin(r) \/ Abort(r)
      PROVE  switches' = switches
  BY <1>2 DEF SendMessage, Begin, Abort
<1>3. CASE SwitchModel \/ RefreshAuth
  BY <1>3 DEF SwitchModel, RefreshAuth
<1>4. CASE UNCHANGED vars
  BY <1>4 DEF vars
<1> QED
  BY <1>1, <1>2, <1>3, <1>4 DEF Next

(***************************************************************************)
(* A session begun with a model of no tier stays on it until the user      *)
(* switches, for every number of turns, agents and utility calls, all      *)
(* failures and every handler: what fails beside that model falls back to  *)
(* it without a question.                                                  *)
(***************************************************************************)
THEOREM CustomModelStays == Spec => [](CustomInv /\ CustomModelIsKept)
<1>1. Init => CustomInv
  <2> SUFFICES ASSUME Init PROVE CustomInv
    OBVIOUS
  <2>1. PICK host \in Hosts :
          conf = [configured |-> Initially, active |-> Initially, sequence |-> NoModel,
                  health |-> AllHealthy, override |-> [n \in Names |-> NoModel],
                  host |-> host, retried |-> {}]
    BY DEF Init
  <2> QED
    BY <2>1, FallbackAssumption DEF Init, CustomInv, Idle, NoQuestion, Requests
<1>2. TypeOK /\ CustomInv /\ [Next]_vars => CustomInv'
  <2> SUFFICES ASSUME TypeOK, CustomInv, [Next]_vars, Initially \in Customs, switches' = 0
               PROVE  CustomInv'
    BY DEF CustomInv
  <2>1. switches = 0
    BY SwitchesGrow DEF TypeOK
  <2>2. Kept
    BY <2>1, FallbackAssumption DEF CustomInv, Kept, ConfKept, CoroutineKept, Requests
  <2>3. Kept'
    BY <2>2, StepKept
  <2> QED
    BY <2>3 DEF CustomInv, Kept, ConfKept, CoroutineKept, Requests
<1>3. CustomInv => CustomModelIsKept
  BY DEF CustomInv, CustomModelIsKept
<1> QED
  BY <1>1, <1>2, <1>3, TypeCorrect, PTL DEF Spec
=============================================================================
