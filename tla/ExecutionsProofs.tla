-------------------------- MODULE ExecutionsProofs --------------------------
(***************************************************************************)
(* What holds of shell commands for every set of commands and process ids: *)
(* nobody listens to what has taken the id of another command since.       *)
(***************************************************************************)
EXTENDS Executions, TLAPS

-----------------------------------------------------------------------------
(***************************************************************************)
(* The inductive invariant.  An id is given again when the command that    *)
(* had it is over, so at most one command that is under way has it.  That  *)
(* command is the one the services know by the id; of an earlier one there *)
(* may be exit information with its timer, a card and an unfinished batch, *)
(* and no listener.                                                        *)
(***************************************************************************)
UnderWay(e) ==
  run[e].os # "new" /\ ~(run[e].os = "done" /\ run[e].caller \in {"returned", "gone"})

OneCommandPerId ==
  \A e, f \in Execs : UnderWay(e) /\ UnderWay(f) /\ run[e].id = run[f].id => e = f

Unstarted ==
  \A e \in Execs : run[e].os = "new" =>
    /\ run[e].caller = "none" /\ run[e].result = "none"
    /\ ~run[e].timer /\ ~run[e].ttl /\ ~run[e].aborted /\ ~run[e].backgrounded
    /\ announced[e] = 0 /\ e \notin dismissed /\ e \notin expired

\* What an id stands for is live, and nobody has spoken of its end.
ActiveIsLive ==
  \A p \in Pids, e \in Execs : active[p] = e =>
    /\ Live(e) /\ run[e].id = p
    /\ announced[e] = 0 /\ e \notin dismissed
    /\ p \notin exitInfo /\ e \notin expired

\* A promise is pending for what is active, and a caller without a result
\* has a pending promise.
PendingIsActive ==
  /\ \A p \in resolvers : active[p] # None
  /\ \A e \in Execs : run[e].os # "new" /\ run[e].result = "none" =>
       active[run[e].id] = e /\ run[e].id \in resolvers

\* Only a dismissal forgets a command that is live; a command that was
\* forgotten has left its exit information, or a timer has dropped it.
Forgotten ==
  \A e \in Execs :
    /\ Live(e) /\ active[run[e].id] # e => e \in dismissed
    /\ run[e].os # "new" /\ active[run[e].id] = None =>
         run[e].id \in exitInfo \/ e \in expired
    /\ announced[e] # 0 => run[e].os = "done"

\* Nobody has been registered under an id that stood for nothing.
ListenersHear == \A l \in listeners : l.on # None

LifecycleInv ==
  /\ OneCommandPerId /\ Unstarted /\ ActiveIsLive /\ PendingIsActive /\ Forgotten
  /\ OwnListeners /\ ListenersHear /\ AnnouncedOnce /\ CardsLearnOfExits

(***************************************************************************)
(* The shell service's entries and logs are of live commands, or of one    *)
(* whose log is being closed.                                              *)
(***************************************************************************)
SomeLive(p) == \E e \in Execs : Live(e) /\ run[e].id = p

TimersWait ==
  \A e \in Execs : run[e].timer = TRUE =>
    run[e].origin = "tool_bg" /\ run[e].caller = "waiting" /\ logs[run[e].id] = "none"

LogsOfLive ==
  \A p \in Pids :
    /\ logs[p] = "closing" => ~SomeLive(p)
    /\ logs[p] = "open" => SomeLive(p)
    /\ history[p] = "running" => SomeLive(p)

ShellsLive ==
  \A p \in Pids, e \in Execs : shells[p] = e /\ logs[p] # "closing" =>
    Live(e) /\ run[e].id = p

LogInv == TimersWait /\ LogsOfLive /\ ShellsLive

Inv == TypeOK /\ LifecycleInv /\ LogInv

-----------------------------------------------------------------------------
(***************************************************************************)
(* What the pieces of the actions do.                                      *)
(***************************************************************************)
\* An earlier registration keeps all but its unsubscribe.
LEMMA SupersededIs ==
  ASSUME TypeOK, NEW p \in Pids
  PROVE  /\ Superseded(p) \subseteq Listener
         /\ \A l \in Superseded(p) : \E k \in listeners :
              l.id = k.id /\ l.of = k.of /\ l.on = k.on
         /\ \A k \in listeners : \E l \in Superseded(p) :
              l.id = k.id /\ l.of = k.of /\ l.on = k.on
<1> DEFINE after(l) == IF l.id = p THEN [l EXCEPT !.latest = FALSE] ELSE l
<1>1. \A k \in listeners : /\ after(k) \in Listener /\ after(k).id = k.id
                           /\ after(k).of = k.of /\ after(k).on = k.on
  BY DEF TypeOK, Listener
<1>2. Superseded(p) = {after(k) : k \in listeners}
  BY DEF Superseded
<1> HIDE DEF after
<1>. QED BY <1>1, <1>2

\* An id that stands for nothing is listened to by nobody.
LEMMA UnheardIs ==
  ASSUME TypeOK, LifecycleInv, NEW p \in Pids, active[p] = None
  PROVE  ListenersOf(p) = {} /\ p \notin resolvers
<1>1. \A l \in listeners : l.id # p
  BY DEF LifecycleInv, OwnListeners, ListenersHear
<1>. QED BY <1>1 DEF ListenersOf, LifecycleInv, PendingIsActive

\* A card is registered for a command by its id: if that stands for the
\* command, or for a later one, the card listens; if it stands for nothing,
\* the card is answered, or has no hope.
LEMMA RegisterKeeps ==
  ASSUME TypeOK, LifecycleInv,
         NEW p \in Pids, NEW e \in Execs, NEW b \in AllBehaviors \cup {"undefined"},
         active[p] \notin {None, e} => run[e].os = "done",
         active[p] = None => p \in exitInfo \/ e \in expired,
         RegisterBackgroundTask(p, e, b),
         UNCHANGED <<active, expired>>, \A f \in Execs : run'[f].os = run[f].os
  PROVE  /\ listeners' \subseteq Listener
         /\ cards' \in [Pids -> Card \cup {None}]
         /\ claimed' \subseteq Pids
         /\ OwnListeners' /\ ListenersHear'
         /\ CardsLearnOfExits'
<1> DEFINE card == IF cards[p] = None THEN [of |-> e, status |-> "running"] ELSE cards[p]
           mine == CardListener(p, e, b)
<1>1. card \in Card \cup {None}
  BY DEF TypeOK, Card
<1>2. /\ mine \in Listener /\ mine.id = p /\ mine.of = e /\ mine.on = active[p]
      /\ listeners' = IF Attached(p) THEN Superseded(p) \cup {mine} ELSE Superseded(p)
  BY DEF RegisterBackgroundTask, Subscribe, CardListener, Listener, TypeOK
<1>3. Attached(p) <=> active[p] # None
  BY DEF Attached, LifecycleInv, PendingIsActive
<1> HIDE DEF mine
<1>4. listeners' \subseteq Listener
  BY <1>2, SupersededIs
<1>5. OwnListeners' /\ ListenersHear'
  <2> SUFFICES ASSUME NEW l \in listeners'
               PROVE  /\ active[l.id] = l.on /\ l.on # None
                      /\ l.of # l.on => run'[l.of].os = "done"
    BY DEF OwnListeners, ListenersHear
  <2>1. CASE l = mine
    <3>1. Attached(p)
      <4>1. SUFFICES ASSUME ~Attached(p) PROVE FALSE
        OBVIOUS
      <4>2. PICK k \in listeners : k.id = p /\ k.on = None
        BY <1>2, <1>3, <2>1, <4>1, SupersededIs
      <4>. QED BY <4>2 DEF LifecycleInv, ListenersHear
    <3>. QED BY <1>2, <1>3, <2>1, <3>1
  <2>2. CASE l # mine
    <3>1. PICK k \in listeners : l.id = k.id /\ l.of = k.of /\ l.on = k.on
      BY <1>2, <2>2, SupersededIs
    <3>2. k.of \in Execs
      BY DEF TypeOK, Listener
    <3>. QED BY <3>1, <3>2 DEF LifecycleInv, OwnListeners, ListenersHear
  <2>. QED BY <2>1, <2>2
<1>6. cards' \in [Pids -> Card \cup {None}] /\ claimed' \subseteq Pids
  <2>1. AfterExit(card, b) \in Card \cup {None}
    BY <1>1 DEF AfterExit, Card
  <2>. QED BY <1>1, <2>1 DEF RegisterBackgroundTask, TypeOK
<1>7. CardsLearnOfExits'
  <2> SUFFICES ASSUME NEW q \in Pids, cards'[q] # None, cards'[q].status = "running",
                      cards'[q].of \notin expired
               PROVE  \E l \in listeners' : l.id = q /\ l.of = cards'[q].of
    BY DEF CardsLearnOfExits, ListenersOf
  <2>1. CASE cards[q] = cards'[q]
    <3>1. PICK k \in listeners : k.id = q /\ k.of = cards[q].of
      BY <2>1 DEF LifecycleInv, CardsLearnOfExits, ListenersOf
    <3>2. \E l \in Superseded(p) : l.id = k.id /\ l.of = k.of
      BY SupersededIs
    <3>. QED BY <1>2, <2>1, <3>1, <3>2
  <2>2. CASE cards[q] # cards'[q]
    <3>1. q = p
      BY <2>2 DEF RegisterBackgroundTask, TypeOK
    <3>2. ~AnsweredAtOnce(p)
      <4>1. AfterExit(card, b) # None => AfterExit(card, b).status = "exited"
        BY <1>1 DEF AfterExit, Card
      <4>. QED BY <3>1, <4>1 DEF RegisterBackgroundTask, TypeOK
    <3>3. cards'[p] = [of |-> e, status |-> "running"]
      BY <2>2, <3>1, <3>2 DEF RegisterBackgroundTask, TypeOK
    <3>4. Attached(p)
      BY <1>3, <3>1, <3>2, <3>3 DEF AnsweredAtOnce
    <3>. QED BY <1>2, <3>1, <3>3, <3>4
  <2>. QED BY <2>1, <2>2
<1>. QED BY <1>4, <1>5, <1>6, <1>7

\* A command that goes to the background, or whose timer does, is otherwise
\* as it was.
SameCommand(new, old) ==
  /\ new.os = old.os /\ new.id = old.id /\ new.origin = old.origin
  /\ new.pty = old.pty /\ new.aborted = old.aborted /\ new.ttl = old.ttl
  /\ new.caller = old.caller

LEMMA BackgroundKeeps ==
  ASSUME TypeOK, LifecycleInv,
         NEW p \in Pids, NEW runs \in [Execs -> Run], NEW claims \in SUBSET Pids,
         \A e \in Execs :
           /\ SameCommand(runs[e], run[e]) /\ (runs[e].timer => run[e].timer)
           /\ runs[e].result = run[e].result
           /\ runs[e].backgrounded = run[e].backgrounded,
         LifecycleBackground(p, runs, claims),
         UNCHANGED <<behavior, active, exitInfo, announced, dismissed, expired>>
  PROVE  /\ run' \in [Execs -> Run]
         /\ \A e \in Execs : SameCommand(run'[e], run[e]) /\ run'[e].timer = runs[e].timer
         /\ resolvers' \subseteq Pids /\ listeners' \subseteq Listener
         /\ cards' \in [Pids -> Card \cup {None}] /\ claimed' \subseteq Pids
         /\ LifecycleInv'
<1> USE DEF SameCommand
<1>1. CASE ~CanBackground(p)
  <2>1. run' = runs /\ claimed' = claims /\ UNCHANGED <<resolvers, listeners, cards>>
    BY <1>1 DEF LifecycleBackground
  <2>2. /\ OneCommandPerId' /\ Unstarted' /\ ActiveIsLive' /\ PendingIsActive' /\ Forgotten'
    <3>1. \A f \in Execs : /\ Live(f)' <=> Live(f)
                           /\ UnderWay(f)' <=> UnderWay(f)
      BY <2>1 DEF Live, UnderWay
    <3>2. OneCommandPerId' /\ Unstarted'
      BY <2>1, <3>1 DEF LifecycleInv, OneCommandPerId, Unstarted
    <3>3. ActiveIsLive'
      BY <2>1, <3>1 DEF LifecycleInv, ActiveIsLive
    <3>4. PendingIsActive' /\ Forgotten'
      BY <2>1, <3>1 DEF LifecycleInv, PendingIsActive, Forgotten
    <3>. QED BY <3>2, <3>3, <3>4
  <2>3. OwnListeners' /\ ListenersHear' /\ AnnouncedOnce' /\ CardsLearnOfExits'
    BY <2>1 DEF TypeOK, Listener, LifecycleInv, OwnListeners, ListenersHear, AnnouncedOnce,
                 CardsLearnOfExits, ListenersOf
  <2>. QED BY <2>1, <2>2, <2>3 DEF LifecycleInv, TypeOK
<1>2. CASE CanBackground(p)
  <2> DEFINE e == active[p]
  <2>1. /\ e \in Execs /\ Live(e) /\ run[e].id = p /\ p \in resolvers
    BY <1>2 DEF CanBackground, TypeOK, LifecycleInv, ActiveIsLive
  <2>2. /\ run' = [runs EXCEPT ![e].result = "backgrounded", ![e].backgrounded = TRUE]
        /\ resolvers' = resolvers \ {p}
        /\ IF p \in claims
           THEN claimed' = claims /\ UNCHANGED <<listeners, cards>>
           ELSE RegisterBackgroundTask(p, e, behavior)
    BY <1>2 DEF LifecycleBackground
  <2>3. /\ run' \in [Execs -> Run]
        /\ \A f \in Execs : SameCommand(run'[f], run[f]) /\ run'[f].timer = runs[f].timer
        /\ \A f \in Execs : f # e => /\ run'[f].result = run[f].result
                                     /\ run'[f].backgrounded = run[f].backgrounded
        /\ run'[e].result = "backgrounded" /\ run'[e].backgrounded
    <3> HIDE DEF e
    <3> DEFINE new == [runs[e] EXCEPT !.result = "backgrounded", !.backgrounded = TRUE]
    <3>1. runs[e] \in Run
      BY <2>1
    <3>2. /\ new \in Run /\ SameCommand(new, runs[e]) /\ new.timer = runs[e].timer
          /\ new.result = "backgrounded" /\ new.backgrounded
      BY <3>1 DEF Run
    <3>3. run' = [runs EXCEPT ![e] = new]
      BY <2>2
    <3> HIDE DEF new
    <3>4. run' \in [Execs -> Run] /\ run'[e] = new
          /\ \A f \in Execs : f # e => run'[f] = runs[f]
      BY <2>1, <3>2, <3>3
    <3>. QED BY <3>2, <3>4
  <2>4. /\ listeners' \subseteq Listener /\ cards' \in [Pids -> Card \cup {None}]
        /\ claimed' \subseteq Pids /\ OwnListeners' /\ ListenersHear' /\ CardsLearnOfExits'
    <3>1. \A f \in Execs : run'[f].os = run[f].os
      BY <2>3
    <3>2. CASE p \in claims
      BY <2>2, <3>1, <3>2
         DEF TypeOK, Listener, LifecycleInv, OwnListeners, ListenersHear,
             CardsLearnOfExits, ListenersOf
    <3>3. CASE p \notin claims
      BY <2>1, <2>2, <3>1, <3>3, RegisterKeeps, ExecutionsAssumption DEF TypeOK
    <3>. QED BY <3>2, <3>3
  <2> HIDE DEF e
  <2>5. /\ \A f \in Execs : /\ Live(f)' <=> Live(f)
                            /\ UnderWay(f)' <=> UnderWay(f)
                            /\ run'[f].id = run[f].id
    BY <2>3 DEF Live, UnderWay
  <2>6. OneCommandPerId'
    BY <2>5 DEF LifecycleInv, OneCommandPerId
  <2>7. Unstarted'
    <3>1. run[e].os # "new"
      BY <2>1 DEF Live
    <3>. QED BY <2>3, <3>1 DEF LifecycleInv, Unstarted
  <2>8. ActiveIsLive'
    BY <2>5 DEF LifecycleInv, ActiveIsLive, TypeOK
  <2>9. PendingIsActive'
    BY <2>1, <2>2, <2>3 DEF LifecycleInv, PendingIsActive, e, TypeOK
  <2>10. Forgotten'
    BY <2>3, <2>5 DEF LifecycleInv, Forgotten
  <2>11. AnnouncedOnce'
    BY <2>1, <2>3 DEF LifecycleInv, AnnouncedOnce, Live
  <2>. QED BY <2>2, <2>4, <2>3, <2>6, <2>7, <2>8, <2>9, <2>10, <2>11 DEF LifecycleInv, TypeOK
<1>. QED BY <1>1, <1>2

\* Whatever settles, what the id stands for is forgotten, with its promise and
\* its listeners, and leaves its exit information.
LEMMA SettleIs ==
  ASSUME TypeOK, LifecycleInv,
         NEW p \in Pids, NEW runs \in [Execs -> Run], NEW killed \in BOOLEAN,
         SettleExecution(p, runs, killed)
  PROVE  /\ run' \in [Execs -> Run]
         /\ \A e \in Execs :
              /\ run'[e].os = runs[e].os /\ run'[e].id = runs[e].id
              /\ run'[e].origin = runs[e].origin /\ run'[e].pty = runs[e].pty
              /\ run'[e].backgrounded = runs[e].backgrounded
              /\ run'[e].aborted = runs[e].aborted /\ run'[e].timer = runs[e].timer
              /\ run'[e].caller = runs[e].caller
              /\ e # active[p] => run'[e] = runs[e] /\ announced'[e] = announced[e]
         /\ active' = [active EXCEPT ![p] = None]
         /\ resolvers' = resolvers \ {p}
         /\ listeners' = {l \in listeners : l.id # p}
         /\ active[p] = None => UNCHANGED <<exitInfo, announced>>
         /\ active[p] # None =>
              /\ exitInfo' = exitInfo \cup {p}
              /\ run'[active[p]].result # "none"
              /\ announced'[active[p]] =
                   IF run[active[p]].backgrounded /\ ~killed THEN 1 ELSE 0
         /\ announced' \in [Execs -> Nat]
<1>1. CASE active[p] = None
  <2>1. run' = runs /\ UNCHANGED <<active, resolvers, listeners, exitInfo, announced>>
    BY <1>1 DEF SettleExecution, lifecycle
  <2>2. p \notin resolvers
    BY <1>1 DEF LifecycleInv, PendingIsActive
  <2>3. \A l \in listeners : l.id # p
    BY <1>1, UnheardIs DEF ListenersOf
  <2>4. listeners' = {l \in listeners : l.id # p} /\ resolvers' = resolvers \ {p}
    BY <2>1, <2>2, <2>3
  <2>5. active' = [active EXCEPT ![p] = None]
    BY <1>1, <2>1 DEF TypeOK
  <2>6. announced' \in [Execs -> Nat] /\ active[p] \notin Execs
    BY <1>1, <2>1, ExecutionsAssumption DEF TypeOK
  <2>. QED BY <1>1, <2>1, <2>4, <2>5, <2>6
<1>2. CASE active[p] # None
  <2> DEFINE a == active[p]
             new == [runs[a] EXCEPT !.ttl = TRUE, !.result = Outcome(p, a, killed)]
  <2>1. a \in Execs /\ runs[a] \in Run /\ announced[a] = 0
        /\ run[a].os # "new" /\ run[a].id = p
    BY <1>2 DEF TypeOK, LifecycleInv, ActiveIsLive, Live
  <2>2. /\ run' = [runs EXCEPT ![a].ttl = TRUE, ![a].result = Outcome(p, a, killed)]
        /\ announced' = [announced EXCEPT ![a] = @ + IF Announces(a, killed) THEN 1 ELSE 0]
        /\ resolvers' = resolvers \ {p}
        /\ listeners' = {l \in listeners : l.id # p}
        /\ active' = [active EXCEPT ![p] = None]
        /\ exitInfo' = exitInfo \cup {p}
    BY <1>2 DEF SettleExecution
  <2>3. Outcome(p, a, killed) \in {"exit", "aborted", "backgrounded"}
    <3>1. run[a].result = "none" => p \in resolvers
      BY <2>1 DEF LifecycleInv, PendingIsActive
    <3>. QED BY <2>1, <3>1 DEF Outcome, TypeOK, Run
  <2> HIDE DEF a
  <2>4. /\ new \in Run /\ new.os = runs[a].os /\ new.id = runs[a].id
        /\ new.origin = runs[a].origin /\ new.pty = runs[a].pty
        /\ new.backgrounded = runs[a].backgrounded /\ new.aborted = runs[a].aborted
        /\ new.timer = runs[a].timer /\ new.caller = runs[a].caller
        /\ new.result # "none"
    BY <2>1, <2>3 DEF Run
  <2>5. run' = [runs EXCEPT ![a] = new]
    BY <2>2
  <2> HIDE DEF new
  <2>6. /\ run' \in [Execs -> Run] /\ run'[a] = new
        /\ \A e \in Execs : e # a => run'[e] = runs[e]
    BY <2>1, <2>4, <2>5
  <2>7. /\ announced' \in [Execs -> Nat]
        /\ announced'[a] = IF run[a].backgrounded /\ ~killed THEN 1 ELSE 0
        /\ \A e \in Execs : e # a => announced'[e] = announced[e]
    BY <2>1, <2>2 DEF TypeOK, Announces
  <2>. QED BY <1>2, <2>2, <2>4, <2>6, <2>7 DEF a
<1>. QED BY <1>1, <1>2

-----------------------------------------------------------------------------
(***************************************************************************)
(* Each action keeps the invariant.                                        *)
(***************************************************************************)
\* The id is free, and what an earlier command has left under it goes.
LEMMA StartKeeps ==
  ASSUME Inv, NEW e \in Execs, Start(e)
  PROVE  Inv'
<1>1. PICK p \in Pids, o \in Origins, pty \in BOOLEAN :
        /\ run[e].os = "new" /\ Free(p) /\ ~Attached(p)
        /\ run' = [run EXCEPT ![e].os = "running", ![e].id = p, ![e].origin = o,
                              ![e].pty = pty, ![e].caller = "waiting",
                              ![e].timer = (o = "tool_bg")]
        /\ shells' = [shells EXCEPT ![p] = e]
        /\ active' = [active EXCEPT ![p] = e]
        /\ resolvers' = resolvers \cup {p}
        /\ exitInfo' = exitInfo \ {p}
        /\ UNCHANGED <<behavior, listeners, logs, history, cards, claimed,
                       announced, dismissed, expired>>
  BY DEF Start, ui, ghosts
<1>2. /\ active[p] = None /\ p \notin resolvers
      /\ logs[p] = "none"
      /\ \A f \in Execs : run[f].id = p => ~UnderWay(f) /\ ~Live(f)
  BY <1>1 DEF Attached, Free, UnderWay, Live
<1> DEFINE new == [run[e] EXCEPT !.os = "running", !.id = p, !.origin = o, !.pty = pty,
                                 !.caller = "waiting", !.timer = (o = "tool_bg")]
<1>3. /\ new \in Run /\ new.os = "running" /\ new.id = p /\ new.origin = o
      /\ new.caller = "waiting" /\ new.timer = (o = "tool_bg")
      /\ new.result = "none" /\ ~new.backgrounded /\ ~new.aborted
  BY <1>1, ExecutionsAssumption DEF Inv, TypeOK, Run, LifecycleInv, Unstarted
<1>4. run' = [run EXCEPT ![e] = new]
  BY <1>1
<1> HIDE DEF new
<1>5. /\ run' \in [Execs -> Run] /\ run'[e] = new
      /\ \A f \in Execs : f # e => run'[f] = run[f]
  BY <1>3, <1>4 DEF Inv, TypeOK
<1>6. TypeOK'
  BY <1>1, <1>5 DEF Inv, TypeOK
<1>7. OneCommandPerId'
  <2>1. \A f \in Execs : f # e => (UnderWay(f)' <=> UnderWay(f)) /\ run'[f].id = run[f].id
    BY <1>5 DEF UnderWay
  <2>. QED BY <1>2, <1>3, <1>5, <2>1 DEF Inv, LifecycleInv, OneCommandPerId
<1>8. Unstarted'
  BY <1>1, <1>3, <1>5 DEF Inv, LifecycleInv, Unstarted
<1>9. ActiveIsLive'
  <2>1. announced[e] = 0 /\ e \notin dismissed /\ e \notin expired
    BY <1>1 DEF Inv, LifecycleInv, Unstarted
  <2>2. \A q \in Pids : active[q] # e
    BY <1>1 DEF Inv, LifecycleInv, ActiveIsLive, Live
  <2>. QED BY <1>1, <1>3, <1>5, <2>1, <2>2 DEF Inv, LifecycleInv, ActiveIsLive, Live, TypeOK
<1>10. PendingIsActive'
  BY <1>1, <1>2, <1>3, <1>5, ExecutionsAssumption
     DEF Inv, LifecycleInv, PendingIsActive, TypeOK
<1>11. Forgotten'
  <2>1. \A f \in Execs : run[f].id \in Pids
    BY DEF Inv, TypeOK, Run
  <2>2. announced[e] = 0
    BY <1>1 DEF Inv, LifecycleInv, Unstarted
  <2>. QED BY <1>1, <1>2, <1>3, <1>5, <2>1, <2>2, ExecutionsAssumption
           DEF Inv, LifecycleInv, Forgotten, Live, TypeOK
<1>12. OwnListeners' /\ ListenersHear'
  <2>1. \A l \in listeners : l.id \in Pids /\ l.of \in Execs
    BY DEF Inv, TypeOK, Listener
  <2>2. \A l \in listeners : l.id # p
    BY <1>2, UnheardIs DEF Inv, ListenersOf
  <2>3. \A l \in listeners : l.of # l.on => l.of # e
    BY <1>1, <2>1 DEF Inv, LifecycleInv, OwnListeners
  <2>. QED BY <1>1, <1>5, <2>1, <2>2, <2>3
           DEF Inv, LifecycleInv, OwnListeners, ListenersHear, TypeOK
<1>13. AnnouncedOnce'
  BY <1>1, <1>3, <1>5 DEF Inv, LifecycleInv, Unstarted, AnnouncedOnce
<1>14. CardsLearnOfExits'
  BY <1>1 DEF Inv, LifecycleInv, CardsLearnOfExits, ListenersOf
<1>15. LogInv'
  <2>1. \A f \in Execs : run[f].id \in Pids
    BY DEF Inv, TypeOK, Run
  <2>2. \A f \in Execs : Live(f)' <=> Live(f) \/ f = e
    BY <1>3, <1>5 DEF Live
  <2>3. \A q \in Pids : SomeLive(q)' <=> SomeLive(q) \/ q = p
    BY <1>1, <1>3, <1>5, <2>2 DEF SomeLive, Live
  <2>4. TimersWait'
    <3> SUFFICES ASSUME NEW f \in Execs, run'[f].timer = TRUE
                 PROVE  /\ run'[f].origin = "tool_bg" /\ run'[f].caller = "waiting"
                        /\ logs[run'[f].id] = "none"
      BY <1>1 DEF TimersWait
    <3>1. CASE f = e
      BY <1>2, <1>3, <1>5, <3>1
    <3>2. CASE f # e
      BY <1>5, <3>2 DEF Inv, LogInv, TimersWait
    <3>. QED BY <3>1, <3>2
  <2>5. LogsOfLive'
    BY <1>1, <1>2, <2>3 DEF Inv, LogInv, LogsOfLive
  <2>6. ShellsLive'
    <3> SUFFICES ASSUME NEW q \in Pids, NEW f \in Execs, shells'[q] = f, logs[q] # "closing"
                 PROVE  Live(f)' /\ run'[f].id = q
      BY <1>1 DEF ShellsLive
    <3>1. CASE q = p
      BY <1>1, <1>3, <1>5, <2>2, <3>1 DEF Inv, TypeOK
    <3>2. CASE q # p
      <4>1. Live(f) /\ run[f].id = q
        BY <1>1, <3>2 DEF Inv, TypeOK, LogInv, ShellsLive
      <4>2. f # e
        BY <1>1, <4>1 DEF Live
      <4>. QED BY <1>5, <2>2, <4>1, <4>2
    <3>. QED BY <3>1, <3>2
  <2>. QED BY <2>4, <2>5, <2>6 DEF LogInv
<1>. QED BY <1>6, <1>7, <1>8, <1>9, <1>10, <1>11, <1>12, <1>13, <1>14, <1>15
         DEF Inv, LifecycleInv

\* A command that exits, is aborted, or whose exit information expires: the
\* services know the same commands by the same ids.
LEMMA SameIdsKeep ==
  ASSUME Inv, run' \in [Execs -> Run],
         \A f \in Execs :
           /\ run'[f].id = run[f].id /\ run'[f].origin = run[f].origin
           /\ run'[f].backgrounded = run[f].backgrounded /\ run'[f].timer = run[f].timer
           /\ run'[f].caller = run[f].caller /\ run'[f].result = run[f].result
           /\ run'[f].os = "new" <=> run[f].os = "new"
           /\ run'[f].os = "done" <=> run[f].os = "done"
           /\ run'[f].aborted = run[f].aborted \/ Live(f)
           /\ run'[f].ttl => run[f].ttl,
         UNCHANGED <<behavior, active, resolvers, listeners, shells, logs, history,
                     cards, claimed, announced, dismissed>>,
         exitInfo' \subseteq exitInfo, expired \subseteq expired', expired' \subseteq Execs,
         \A f \in Execs : run[f].os # "new" /\ run[f].id \in exitInfo \ exitInfo' =>
           f \in expired',
         \A f \in expired' \ expired : run[f].os # "new" /\ run[f].id \in exitInfo
  PROVE  Inv'
<1>1. TypeOK'
  BY DEF Inv, TypeOK
<1>2. \A f \in Execs : run[f] \in Run /\ run'[f] \in Run
  BY DEF Inv, TypeOK
<1>3. \A f \in Execs : (Live(f)' <=> Live(f)) /\ (UnderWay(f)' <=> UnderWay(f))
  BY <1>2 DEF Live, UnderWay, Run
<1>4. OneCommandPerId'
  BY <1>3 DEF Inv, LifecycleInv, OneCommandPerId
<1>5. Unstarted'
  <2>1. \A f \in Execs : run[f].os = "new" => f \notin expired'
    BY DEF Inv, LifecycleInv, Unstarted
  <2>. QED BY <2>1 DEF Inv, LifecycleInv, Unstarted, Live
<1>6. ActiveIsLive'
  BY <1>3 DEF Inv, LifecycleInv, ActiveIsLive
<1>7. PendingIsActive'
  BY DEF Inv, LifecycleInv, PendingIsActive
<1>8. Forgotten'
  BY <1>3 DEF Inv, LifecycleInv, Forgotten
<1>9. OwnListeners' /\ ListenersHear' /\ CardsLearnOfExits'
  <2>1. \A l \in listeners : l.of \in Execs
    BY DEF Inv, TypeOK, Listener
  <2>. QED BY <2>1 DEF Inv, LifecycleInv, OwnListeners, ListenersHear, CardsLearnOfExits,
                       ListenersOf
<1>10. AnnouncedOnce'
  <2>1. \A f \in Execs : Live(f) => announced[f] = 0 /\ run[f].os # "done"
    BY DEF Inv, LifecycleInv, Forgotten, Live
  <2>. QED BY <2>1 DEF Inv, LifecycleInv, AnnouncedOnce
<1>11. LogInv'
  <2>1. \A q \in Pids : SomeLive(q)' <=> SomeLive(q)
    BY <1>3 DEF SomeLive
  <2>2. TimersWait'
    BY DEF Inv, LogInv, TimersWait
  <2>3. LogsOfLive'
    BY <2>1 DEF Inv, LogInv, LogsOfLive
  <2>4. ShellsLive'
    BY <1>3 DEF Inv, LogInv, ShellsLive
  <2>. QED BY <2>2, <2>3, <2>4 DEF LogInv
<1>. QED BY <1>1, <1>4, <1>5, <1>6, <1>7, <1>8, <1>9, <1>10, <1>11 DEF Inv, LifecycleInv

LEMMA ProcessExitsKeeps ==
  ASSUME Inv, NEW e \in Execs, ProcessExits(e)
  PROVE  Inv'
<1> DEFINE new == [run[e] EXCEPT !.os = "exited"]
<1>1. /\ run[e].os = "running" /\ run' = [run EXCEPT ![e] = new]
      /\ UNCHANGED <<behavior, active, resolvers, listeners, exitInfo, shells, logs,
                     history, cards, claimed, announced, dismissed, expired>>
  BY DEF ProcessExits, lifecycle, service, ui, ghosts
<1>2. /\ new \in Run /\ new.os = "exited" /\ new.id = run[e].id
      /\ new.origin = run[e].origin /\ new.backgrounded = run[e].backgrounded
      /\ new.timer = run[e].timer /\ new.caller = run[e].caller
      /\ new.result = run[e].result /\ new.aborted = run[e].aborted
      /\ new.ttl = run[e].ttl
  BY DEF Inv, TypeOK, Run
<1> HIDE DEF new
<1>3. /\ run' \in [Execs -> Run] /\ run'[e] = new
      /\ \A f \in Execs : f # e => run'[f] = run[f]
  BY <1>1, <1>2 DEF Inv, TypeOK
<1>4. expired' \subseteq Execs
  BY <1>1 DEF Inv, TypeOK
<1>. QED BY <1>1, <1>2, <1>3, <1>4, SameIdsKeep

LEMMA AbortKeeps ==
  ASSUME Inv, NEW e \in Execs, Abort(e)
  PROVE  Inv'
<1> DEFINE new == [run[e] EXCEPT !.aborted = TRUE]
<1>1. /\ Live(e) /\ run' = [run EXCEPT ![e] = new]
      /\ UNCHANGED <<behavior, active, resolvers, listeners, exitInfo, shells, logs,
                     history, cards, claimed, announced, dismissed, expired>>
  BY DEF Abort, lifecycle, service, ui, ghosts
<1>2. /\ new \in Run /\ new.os = run[e].os /\ new.id = run[e].id
      /\ new.origin = run[e].origin /\ new.backgrounded = run[e].backgrounded
      /\ new.timer = run[e].timer /\ new.caller = run[e].caller
      /\ new.result = run[e].result /\ new.ttl = run[e].ttl
  <2>1. run[e] \in Run
    BY DEF Inv, TypeOK
  <2>. QED BY <2>1 DEF Run
<1> HIDE DEF new
<1>3. /\ run' \in [Execs -> Run] /\ run'[e] = new
      /\ \A f \in Execs : f # e => run'[f] = run[f]
  BY <1>1, <1>2 DEF Inv, TypeOK
<1>4. expired' \subseteq Execs
  BY <1>1 DEF Inv, TypeOK
<1>. QED BY <1>1, <1>2, <1>3, <1>4, SameIdsKeep

LEMMA ExitInfoExpiresKeeps ==
  ASSUME Inv, NEW e \in Execs, ExitInfoExpires(e)
  PROVE  Inv'
<1> DEFINE new == [run[e] EXCEPT !.ttl = FALSE]
<1>1. /\ run' = [run EXCEPT ![e] = new]
      /\ exitInfo' = exitInfo \ {run[e].id}
      /\ expired' = expired \cup {d \in Execs : /\ run[d].id \in exitInfo \cap {run[e].id}
                                              /\ run[d].os # "new"}
      /\ UNCHANGED <<behavior, active, resolvers, listeners, shells, logs,
                     history, cards, claimed, announced, dismissed>>
  BY DEF ExitInfoExpires, service, ui
<1>2. /\ new \in Run /\ new.os = run[e].os /\ new.id = run[e].id
      /\ new.origin = run[e].origin /\ new.backgrounded = run[e].backgrounded
      /\ new.timer = run[e].timer /\ new.caller = run[e].caller
      /\ new.result = run[e].result /\ new.aborted = run[e].aborted /\ new.ttl = FALSE
  <2>1. run[e] \in Run
    BY DEF Inv, TypeOK
  <2>. QED BY <2>1 DEF Run
<1> HIDE DEF new
<1>3. /\ run' \in [Execs -> Run] /\ run'[e] = new
      /\ \A f \in Execs : f # e => run'[f] = run[f]
  BY <1>1, <1>2 DEF Inv, TypeOK
<1>4. /\ exitInfo' \subseteq exitInfo /\ expired \subseteq expired' /\ expired' \subseteq Execs
      /\ \A f \in Execs : run[f].os # "new" /\ run[f].id \in exitInfo \ exitInfo' =>
           f \in expired'
      /\ \A f \in expired' \ expired : run[f].os # "new" /\ run[f].id \in exitInfo
  BY <1>1 DEF Inv, TypeOK
<1>. QED BY <1>1, <1>2, <1>3, <1>4, SameIdsKeep

\* The command whose log is closed is over.
LEMMA LogClosedKeeps ==
  ASSUME Inv, NEW p \in Pids, LogClosed(p)
  PROVE  Inv'
<1>1. /\ logs[p] = "closing" /\ logs' = [logs EXCEPT ![p] = "none"]
      /\ shells' = [shells EXCEPT ![p] = None]
      /\ UNCHANGED <<run, behavior, active, resolvers, listeners, exitInfo, history,
                     cards, claimed, announced, dismissed, expired>>
  BY DEF LogClosed, lifecycle, ui, ghosts
<1>2. TypeOK'
  BY <1>1 DEF Inv, TypeOK
<1>3. LifecycleInv'
  <2>1. OneCommandPerId' /\ Unstarted' /\ ActiveIsLive' /\ PendingIsActive' /\ Forgotten'
    BY <1>1 DEF Inv, LifecycleInv, OneCommandPerId, Unstarted, ActiveIsLive,
                PendingIsActive, Forgotten, UnderWay, Live
  <2>2. OwnListeners' /\ ListenersHear' /\ AnnouncedOnce' /\ CardsLearnOfExits'
    BY <1>1 DEF Inv, LifecycleInv, OwnListeners, ListenersHear, AnnouncedOnce,
                CardsLearnOfExits, ListenersOf
  <2>. QED BY <2>1, <2>2 DEF LifecycleInv
<1>4. LogInv'
  <2>1. TimersWait' /\ LogsOfLive'
    BY <1>1 DEF Inv, TypeOK, LogInv, TimersWait, LogsOfLive, SomeLive, Live, Run
  <2>2. ShellsLive'
    BY <1>1, ExecutionsAssumption DEF Inv, TypeOK, LogInv, ShellsLive, Live
  <2>. QED BY <2>1, <2>2 DEF LogInv
<1>. QED BY <1>2, <1>3, <1>4 DEF Inv

\* Ctrl+B: the command that waits is the one its id stands for, so no other
\* command has its log or waits for a timer under that id.
LEMMA BackgroundCurrentExecutionKeeps ==
  ASSUME Inv, NEW e \in Execs, BackgroundCurrentExecution(e)
  PROVE  Inv'
<1> DEFINE p == run[e].id
           logged == run[e].origin = "user" /\ shells[p] # None
<1>1. /\ run[e].caller = "waiting" /\ run[e].result = "none"
      /\ LifecycleBackground(p, run, claimed \cup {p})
      /\ history' = IF logged THEN [history EXCEPT ![p] = "running"] ELSE history
      /\ logs' = IF logged THEN [logs EXCEPT ![p] = "open"] ELSE logs
      /\ UNCHANGED <<behavior, active, exitInfo, shells, announced, dismissed, expired>>
  BY DEF BackgroundCurrentExecution, ShellBackground
<1>2. p \in Pids /\ claimed \cup {p} \in SUBSET Pids /\ run \in [Execs -> Run]
  BY DEF Inv, TypeOK, Run
<1>3. run[e].os # "new" /\ active[p] = e /\ Live(e)
  BY <1>1, <1>2 DEF Inv, LifecycleInv, Unstarted, PendingIsActive, ActiveIsLive
<1> HIDE DEF p
<1>4. /\ run' \in [Execs -> Run]
      /\ \A f \in Execs : SameCommand(run'[f], run[f]) /\ run'[f].timer = run[f].timer
      /\ resolvers' \subseteq Pids /\ listeners' \subseteq Listener
      /\ cards' \in [Pids -> Card \cup {None}] /\ claimed' \subseteq Pids
      /\ LifecycleInv'
  <2>1. \A f \in Execs : SameCommand(run[f], run[f])
    BY DEF SameCommand
  <2>. QED BY <1>1, <1>2, <2>1, BackgroundKeeps DEF Inv
<1>5. TypeOK'
  BY <1>1, <1>2, <1>4 DEF Inv, TypeOK
<1>6. LogInv'
  <2>1. \A q \in Pids : SomeLive(q)' <=> SomeLive(q)
    BY <1>4 DEF SomeLive, Live, SameCommand
  <2>2. SomeLive(p)
    BY <1>3 DEF SomeLive, p
  <2>3. TimersWait'
    <3> SUFFICES ASSUME NEW f \in Execs, run[f].timer = TRUE
                 PROVE  /\ run[f].origin = "tool_bg" /\ run[f].caller = "waiting"
                        /\ logs'[run[f].id] = "none"
      <4>1. \A f \in Execs :
              /\ run'[f].timer = run[f].timer /\ run'[f].origin = run[f].origin
              /\ run'[f].caller = run[f].caller /\ run'[f].id = run[f].id
        BY <1>4 DEF SameCommand
      <4>. QED BY <4>1 DEF TimersWait
    <3>1. /\ run[f].origin = "tool_bg" /\ run[f].caller = "waiting"
          /\ logs[run[f].id] = "none" /\ run[f].id \in Pids
      BY <1>2 DEF Inv, LogInv, TimersWait, Run
    <3>2. run[f].os # "new"
      BY DEF Inv, LifecycleInv, Unstarted
    <3>3. UnderWay(f) /\ UnderWay(e)
      BY <1>1, <1>3, <3>1, <3>2 DEF UnderWay
    <3>4. run[f].id = p => f = e
      BY <3>3 DEF Inv, LifecycleInv, OneCommandPerId, p
    <3>. QED BY <1>1, <1>2, <3>1, <3>4 DEF Inv, TypeOK
  <2>4. LogsOfLive'
    BY <1>1, <1>2, <2>1, <2>2 DEF Inv, TypeOK, LogInv, LogsOfLive
  <2>5. ShellsLive'
    <3>1. logs[p] # "closing"
      BY <1>2, <2>2 DEF Inv, LogInv, LogsOfLive
    <3>2. \A q \in Pids : logs'[q] # "closing" => logs[q] # "closing"
      BY <1>1, <1>2, <3>1 DEF Inv, TypeOK
    <3>3. \A f \in Execs : (Live(f)' <=> Live(f)) /\ run'[f].id = run[f].id
      BY <1>4 DEF Live, SameCommand
    <3>. QED BY <1>1, <3>2, <3>3 DEF Inv, LogInv, ShellsLive
  <2>. QED BY <2>3, <2>4, <2>5 DEF LogInv
<1>. QED BY <1>4, <1>5, <1>6 DEF Inv

\* The delay is over: the log it opens is of a command that is live, and no
\* other command with that id waits for a delay.
LEMMA BackgroundTimerKeeps ==
  ASSUME Inv, NEW e \in Execs, BackgroundTimer(e)
  PROVE  Inv'
<1> DEFINE p == run[e].id
           new == [run[e] EXCEPT !.timer = FALSE]
           runs == [run EXCEPT ![e] = new]
           logged == shells[p] # None
<1>1. /\ run[e].timer = TRUE
      /\ LifecycleBackground(p, runs, claimed)
      /\ history' = IF logged THEN [history EXCEPT ![p] = "running"] ELSE history
      /\ logs' = IF logged THEN [logs EXCEPT ![p] = "open"] ELSE logs
      /\ UNCHANGED <<behavior, active, exitInfo, shells, announced, dismissed, expired>>
  BY DEF BackgroundTimer, ShellBackground, Inv, TypeOK, Run
<1>2. p \in Pids /\ claimed \in SUBSET Pids /\ run \in [Execs -> Run]
  BY DEF Inv, TypeOK, Run
<1>3. /\ new \in Run /\ SameCommand(new, run[e]) /\ new.timer = FALSE
      /\ new.result = run[e].result /\ new.backgrounded = run[e].backgrounded
  BY <1>2 DEF SameCommand, Run
<1> HIDE DEF new
<1>4. /\ runs \in [Execs -> Run] /\ runs[e] = new
      /\ \A f \in Execs : f # e => runs[f] = run[f]
  BY <1>2, <1>3
<1> HIDE DEF p, runs
<1>5. /\ run' \in [Execs -> Run]
      /\ \A f \in Execs : SameCommand(run'[f], run[f]) /\ run'[f].timer = runs[f].timer
      /\ resolvers' \subseteq Pids /\ listeners' \subseteq Listener
      /\ cards' \in [Pids -> Card \cup {None}] /\ claimed' \subseteq Pids
      /\ LifecycleInv'
  <2>1. \A f \in Execs :
          /\ SameCommand(runs[f], run[f]) /\ (runs[f].timer => run[f].timer)
          /\ runs[f].result = run[f].result
          /\ runs[f].backgrounded = run[f].backgrounded
    BY <1>3, <1>4 DEF SameCommand
  <2>. QED BY <1>1, <1>2, <1>4, <2>1, BackgroundKeeps DEF Inv
<1>6. TypeOK'
  BY <1>1, <1>2, <1>5 DEF Inv, TypeOK
<1>7. LogInv'
  <2>1. \A q \in Pids : SomeLive(q)' <=> SomeLive(q)
    BY <1>5 DEF SomeLive, Live, SameCommand
  <2>2. /\ run[e].caller = "waiting" /\ logs[p] = "none" /\ run[e].os # "new"
    BY <1>1 DEF Inv, LogInv, TimersWait, LifecycleInv, Unstarted, p
  <2>3. logged => SomeLive(p)
    <3>1. logged => shells[p] \in Execs
      BY <1>2 DEF Inv, TypeOK
    <3>. QED BY <1>2, <2>2, <3>1 DEF Inv, LogInv, ShellsLive, SomeLive
  <2>4. TimersWait'
    <3> SUFFICES ASSUME NEW f \in Execs, runs[f].timer = TRUE
                 PROVE  /\ run[f].origin = "tool_bg" /\ run[f].caller = "waiting"
                        /\ logs'[run[f].id] = "none"
      <4>1. \A f \in Execs :
              /\ run'[f].timer = runs[f].timer /\ run'[f].origin = run[f].origin
              /\ run'[f].caller = run[f].caller /\ run'[f].id = run[f].id
        BY <1>5 DEF SameCommand
      <4>. QED BY <4>1 DEF TimersWait
    <3>1. f # e /\ run[f].timer = TRUE
      BY <1>3, <1>4
    <3>2. /\ run[f].origin = "tool_bg" /\ run[f].caller = "waiting"
          /\ logs[run[f].id] = "none" /\ run[f].id \in Pids /\ run[f].os # "new"
      BY <1>2, <3>1 DEF Inv, LogInv, TimersWait, LifecycleInv, Unstarted, Run
    <3>3. run[f].id # p
      BY <2>2, <3>1, <3>2 DEF Inv, LifecycleInv, OneCommandPerId, UnderWay, p
    <3>. QED BY <1>1, <1>2, <3>2, <3>3 DEF Inv, TypeOK
  <2>5. LogsOfLive'
    BY <1>1, <1>2, <2>1, <2>3 DEF Inv, TypeOK, LogInv, LogsOfLive
  <2>6. ShellsLive'
    <3>1. \A q \in Pids : logs'[q] # "closing" => logs[q] # "closing"
      BY <1>1, <1>2, <2>2 DEF Inv, TypeOK
    <3>2. \A f \in Execs : (Live(f)' <=> Live(f)) /\ run'[f].id = run[f].id
      BY <1>5 DEF Live, SameCommand
    <3>. QED BY <1>1, <3>1, <3>2 DEF Inv, LogInv, ShellsLive
  <2>. QED BY <2>4, <2>5, <2>6 DEF LogInv
<1>. QED BY <1>5, <1>6, <1>7 DEF Inv

\* The caller of a command gets its result, or its batch ends: a card that is
\* registered now finds the command under its id, or the command is over.
LEMMA CallerMovesOnKeeps ==
  ASSUME Inv, NEW e \in Execs, NEW c \in {"returned", "gone"},
         run[e].caller \in {"waiting", "returned"}, run[e].timer = FALSE,
         run' = [run EXCEPT ![e].caller = c],
         \/ \E b \in AllBehaviors \cup {"undefined"} : RegisterBackgroundTask(run[e].id, e, b)
         \/ UNCHANGED <<listeners, cards, claimed>>,
         UNCHANGED <<behavior, active, resolvers, exitInfo, shells, logs, history,
                     announced, dismissed, expired>>
  PROVE  Inv'
<1> DEFINE p == run[e].id
           new == [run[e] EXCEPT !.caller = c]
<1>1. p \in Pids /\ run[e] \in Run /\ run[e].os # "new"
  BY DEF Inv, TypeOK, Run, LifecycleInv, Unstarted
<1>2. /\ new \in Run /\ new.os = run[e].os /\ new.id = run[e].id
      /\ new.origin = run[e].origin /\ new.backgrounded = run[e].backgrounded
      /\ new.timer = run[e].timer /\ new.result = run[e].result
      /\ new.aborted = run[e].aborted /\ new.ttl = run[e].ttl
  BY <1>1 DEF Run
<1>3. run' = [run EXCEPT ![e] = new]
  OBVIOUS
<1> HIDE DEF new, p
<1>4. /\ run' \in [Execs -> Run] /\ run'[e] = new
      /\ \A f \in Execs : f # e => run'[f] = run[f]
  BY <1>2, <1>3 DEF Inv, TypeOK
<1>5. \A f \in Execs : /\ Live(f)' <=> Live(f)
                       /\ UnderWay(f)' => UnderWay(f)
                       /\ run'[f].id = run[f].id /\ run'[f].os = run[f].os
  BY <1>1, <1>2, <1>4 DEF Live, UnderWay
<1>6. active[p] \notin {None, e} => run[e].os = "done"
  <2>1. SUFFICES ASSUME active[p] \notin {None, e}, run[e].os # "done" PROVE FALSE
    OBVIOUS
  <2>2. active[p] \in Execs /\ Live(active[p]) /\ run[active[p]].id = p
    BY <1>1, <2>1 DEF Inv, TypeOK, LifecycleInv, ActiveIsLive
  <2>3. UnderWay(active[p]) /\ UnderWay(e)
    BY <1>1, <2>1, <2>2 DEF UnderWay, Live
  <2>. QED BY <2>1, <2>2, <2>3 DEF Inv, LifecycleInv, OneCommandPerId, p
<1>7. active[p] = None => p \in exitInfo \/ e \in expired
  BY <1>1 DEF Inv, LifecycleInv, Forgotten, p
<1>8. /\ listeners' \subseteq Listener /\ cards' \in [Pids -> Card \cup {None}]
      /\ claimed' \subseteq Pids /\ OwnListeners' /\ ListenersHear' /\ CardsLearnOfExits'
  <2>1. CASE \E b \in AllBehaviors \cup {"undefined"} : RegisterBackgroundTask(p, e, b)
    BY <1>1, <1>5, <1>6, <1>7, <2>1, RegisterKeeps DEF Inv
  <2>2. CASE UNCHANGED <<listeners, cards, claimed>>
    BY <1>5, <2>2 DEF Inv, TypeOK, Listener, LifecycleInv, OwnListeners, ListenersHear,
                      CardsLearnOfExits, ListenersOf
  <2>. QED BY <2>1, <2>2 DEF p
<1>9. TypeOK'
  BY <1>4, <1>8 DEF Inv, TypeOK
<1>10. OneCommandPerId'
  BY <1>5 DEF Inv, LifecycleInv, OneCommandPerId
<1>11. Unstarted'
  BY <1>1, <1>2, <1>4 DEF Inv, LifecycleInv, Unstarted
<1>12. ActiveIsLive'
  BY <1>5 DEF Inv, LifecycleInv, ActiveIsLive
<1>13. PendingIsActive' /\ Forgotten'
  <2>1. \A f \in Execs : run'[f].os = run[f].os /\ run'[f].result = run[f].result
    BY <1>2, <1>4
  <2>. QED BY <1>5, <2>1 DEF Inv, LifecycleInv, PendingIsActive, Forgotten
<1>14. AnnouncedOnce'
  BY <1>2, <1>4 DEF Inv, LifecycleInv, AnnouncedOnce
<1>15. LogInv'
  <2>1. \A q \in Pids : SomeLive(q)' <=> SomeLive(q)
    BY <1>5 DEF SomeLive
  <2>2. TimersWait'
    BY <1>2, <1>4 DEF Inv, LogInv, TimersWait
  <2>3. LogsOfLive'
    BY <2>1 DEF Inv, LogInv, LogsOfLive
  <2>4. ShellsLive'
    BY <1>5 DEF Inv, LogInv, ShellsLive
  <2>. QED BY <2>2, <2>3, <2>4 DEF LogInv
<1>. QED BY <1>8, <1>9, <1>10, <1>11, <1>12, <1>13, <1>14, <1>15 DEF Inv, LifecycleInv

LEMMA ResultArrivesKeeps ==
  ASSUME Inv, NEW e \in Execs, ResultArrives(e)
  PROVE  Inv'
<1> DEFINE c == IF run[e].origin = "user" THEN "gone" ELSE "returned"
<1>1. /\ c \in {"returned", "gone"} /\ run[e].caller \in {"waiting", "returned"}
      /\ run' = [run EXCEPT ![e].caller = c]
      /\ UNCHANGED <<behavior, active, resolvers, exitInfo, shells, logs, history,
                     announced, dismissed, expired>>
  BY DEF ResultArrives, service, ghosts
<1>2. \/ \E b \in AllBehaviors \cup {"undefined"} : RegisterBackgroundTask(run[e].id, e, b)
      \/ UNCHANGED <<listeners, cards, claimed>>
  BY DEF ResultArrives, ui, AllBehaviors
<1>3. run[e].timer = FALSE
  BY DEF ResultArrives, Inv, TypeOK, Run
<1>. QED BY <1>1, <1>2, <1>3, CallerMovesOnKeeps

LEMMA BatchEndsKeeps ==
  ASSUME Inv, NEW e \in Execs, BatchEnds(e)
  PROVE  Inv'
<1>1. /\ run[e].caller = "returned" /\ run' = [run EXCEPT ![e].caller = "gone"]
      /\ UNCHANGED <<behavior, active, resolvers, exitInfo, shells, logs, history,
                     announced, dismissed, expired>>
  BY DEF BatchEnds, service, ghosts
<1>2. \/ \E b \in AllBehaviors \cup {"undefined"} : RegisterBackgroundTask(run[e].id, e, b)
      \/ UNCHANGED <<listeners, cards, claimed>>
  BY DEF BatchEnds, ui
<1>3. run[e].timer = FALSE
  BY <1>1 DEF Inv, TypeOK, Run, LogInv, TimersWait
<1>. QED BY <1>1, <1>2, <1>3, CallerMovesOnKeeps

\* What settles is forgotten as a whole: nobody else is known by its id.
LEMMA SettleKeeps ==
  ASSUME Inv,
         NEW p \in Pids, NEW runs \in [Execs -> Run], NEW killed \in BOOLEAN,
         SettleExecution(p, runs, killed),
         \A f \in Execs :
           /\ runs[f].id = run[f].id /\ runs[f].origin = run[f].origin
           /\ runs[f].backgrounded = run[f].backgrounded
           /\ runs[f].aborted = run[f].aborted /\ runs[f].timer = run[f].timer
           /\ runs[f].ttl = run[f].ttl /\ runs[f].caller = run[f].caller
           /\ runs[f].result = run[f].result
           /\ \/ runs[f].os = run[f].os
              \/ run[f].id = p /\ run[f].os = "exited" /\ runs[f].os = "done",
         dismissed' \in {dismissed, dismissed \cup {active[p]}}, expired' = expired
  PROVE  /\ OneCommandPerId' /\ Unstarted' /\ ActiveIsLive' /\ PendingIsActive'
         /\ OwnListeners' /\ ListenersHear'
         /\ \A f \in Execs : run[f].os # "new" /\ active'[run[f].id] = None =>
              run[f].id \in exitInfo' \/ f \in expired'
<1>1. /\ run' \in [Execs -> Run]
      /\ \A f \in Execs :
           /\ run'[f].os = runs[f].os /\ run'[f].id = run[f].id
           /\ run'[f].caller = run[f].caller
           /\ f # active[p] => run'[f] = runs[f] /\ announced'[f] = announced[f]
      /\ active' = [active EXCEPT ![p] = None]
      /\ resolvers' = resolvers \ {p}
      /\ listeners' = {l \in listeners : l.id # p}
      /\ active[p] = None => UNCHANGED <<exitInfo, announced>>
      /\ active[p] # None =>
           /\ exitInfo' = exitInfo \cup {p}
           /\ run'[active[p]].result # "none"
  BY SettleIs DEF Inv
<1>2. \A f \in Execs : run[f] \in Run /\ run[f].id \in Pids
  BY DEF Inv, TypeOK, Run
<1>3. \A q \in Pids : active'[q] = IF q = p THEN None ELSE active[q]
  BY <1>1 DEF Inv, TypeOK
<1>4. \A f \in Execs : /\ UnderWay(f)' => UnderWay(f)
                       /\ run[f].id # p => (Live(f)' <=> Live(f))
                       /\ run'[f].os = "new" <=> run[f].os = "new"
  BY <1>1 DEF UnderWay, Live
<1>5. \A f \in Execs : active[p] = f => run[f].id = p /\ run[f].os # "new"
  BY DEF Inv, LifecycleInv, ActiveIsLive, Live
<1>6. OneCommandPerId'
  BY <1>1, <1>4 DEF Inv, LifecycleInv, OneCommandPerId
<1>7. Unstarted'
  <2> SUFFICES ASSUME NEW f \in Execs, run[f].os = "new"
               PROVE  /\ run'[f].caller = "none" /\ run'[f].result = "none"
                      /\ ~run'[f].timer /\ ~run'[f].ttl /\ ~run'[f].aborted
                      /\ ~run'[f].backgrounded /\ announced'[f] = 0 /\ f \notin dismissed'
                      /\ f \notin expired'
    BY <1>4 DEF Unstarted
  <2>1. f # active[p]
    BY <1>5
  <2>. QED BY <1>1, <2>1 DEF Inv, LifecycleInv, Unstarted
<1>8. ActiveIsLive'
  <2> SUFFICES ASSUME NEW q \in Pids, NEW f \in Execs, active'[q] = f
               PROVE  /\ Live(f)' /\ run'[f].id = q /\ announced'[f] = 0 /\ f \notin dismissed'
                      /\ q \notin exitInfo' /\ f \notin expired'
    BY DEF ActiveIsLive
  <2>1. q # p /\ active[q] = f
    BY <1>3, ExecutionsAssumption
  <2>2. /\ Live(f) /\ run[f].id = q /\ announced[f] = 0 /\ f \notin dismissed
        /\ q \notin exitInfo /\ f \notin expired
    BY <2>1 DEF Inv, LifecycleInv, ActiveIsLive
  <2>3. f # active[p]
    BY <1>5, <2>1, <2>2
  <2>4. q \notin exitInfo' /\ f \notin expired'
    BY <1>1, <2>1, <2>2
  <2>. QED BY <1>1, <1>4, <2>1, <2>2, <2>3, <2>4
<1>9. PendingIsActive'
  <2>1. \A q \in resolvers' : active'[q] # None
    BY <1>1, <1>3 DEF Inv, TypeOK, LifecycleInv, PendingIsActive
  <2>2. ASSUME NEW f \in Execs, run'[f].os # "new", run'[f].result = "none"
        PROVE  active'[run'[f].id] = f /\ run'[f].id \in resolvers'
    <3>1. f # active[p]
      BY <1>1, <2>2, ExecutionsAssumption
    <3>2. run[f].result = "none" /\ run[f].os # "new"
      BY <1>1, <1>4, <2>2, <3>1
    <3>3. active[run[f].id] = f /\ run[f].id \in resolvers
      BY <3>2 DEF Inv, LifecycleInv, PendingIsActive
    <3>4. run[f].id # p
      BY <3>1, <3>3
    <3>. QED BY <1>1, <1>2, <1>3, <3>3, <3>4
  <2>. QED BY <2>1, <2>2 DEF PendingIsActive
<1>10. OwnListeners' /\ ListenersHear'
  <2>1. \A l \in listeners' : l \in listeners /\ l.id # p /\ l.id \in Pids /\ l.of \in Execs
    BY <1>1 DEF Inv, TypeOK, Listener
  <2>2. \A f \in Execs : run[f].os = "done" => run'[f].os = "done"
    BY <1>1
  <2>. QED BY <1>3, <2>1, <2>2 DEF Inv, LifecycleInv, OwnListeners, ListenersHear
<1>11. ASSUME NEW f \in Execs, run[f].os # "new", active'[run[f].id] = None
       PROVE  run[f].id \in exitInfo' \/ f \in expired'
  <2>1. CASE active[p] # None /\ run[f].id = p
    BY <1>1, <2>1
  <2>2. CASE ~(active[p] # None /\ run[f].id = p)
    <3>1. active[run[f].id] = None
      BY <1>2, <1>3, <1>11, <2>2
    <3>2. run[f].id \in exitInfo \/ f \in expired
      BY <1>11, <3>1 DEF Inv, LifecycleInv, Forgotten
    <3>. QED BY <1>1, <3>2
  <2>. QED BY <2>1, <2>2
<1>. QED BY <1>6, <1>7, <1>8, <1>9, <1>10, <1>11

\* A command is finalized: its id, if it still stands for anything, stands
\* for this command; if it does not, the user has ended the command.
LEMMA HandleExitKeeps ==
  ASSUME Inv, NEW e \in Execs, HandleExit(e)
  PROVE  Inv'
<1> DEFINE p == run[e].id
           new == [run[e] EXCEPT !.os = "done"]
           runs == [run EXCEPT ![e] = new]
<1>1. /\ run[e].os = "exited"
      /\ history' = HistoryAtExit(p)
      /\ IF logs[p] = "open"
         THEN logs' = [logs EXCEPT ![p] = "closing"] /\ shells' = shells
         ELSE shells' = [shells EXCEPT ![p] = None] /\ logs' = logs
      /\ SettleExecution(p, runs, run[e].aborted)
      /\ cards' = CardsAfterExit(p) /\ claimed' = ClaimedAfterExit(p)
      /\ behavior' = behavior /\ dismissed' = dismissed /\ expired' = expired
  BY DEF HandleExit
<1>2. /\ p \in Pids /\ run[e] \in Run /\ run[e].aborted \in BOOLEAN
      /\ Live(e) /\ UnderWay(e)
  BY <1>1 DEF Inv, TypeOK, Run, Live, UnderWay
<1>3. /\ new \in Run /\ new.os = "done" /\ new.id = run[e].id
      /\ new.origin = run[e].origin /\ new.backgrounded = run[e].backgrounded
      /\ new.timer = run[e].timer /\ new.result = run[e].result
      /\ new.aborted = run[e].aborted /\ new.ttl = run[e].ttl
      /\ new.caller = run[e].caller
  BY <1>2 DEF Run
<1> HIDE DEF new
<1>4. /\ runs \in [Execs -> Run] /\ runs[e] = new
      /\ \A f \in Execs : f # e => runs[f] = run[f]
  BY <1>3 DEF Inv, TypeOK
<1> HIDE DEF p, runs
<1>5. \A f \in Execs :
        /\ runs[f].id = run[f].id /\ runs[f].origin = run[f].origin
        /\ runs[f].backgrounded = run[f].backgrounded
        /\ runs[f].aborted = run[f].aborted /\ runs[f].timer = run[f].timer
        /\ runs[f].ttl = run[f].ttl /\ runs[f].caller = run[f].caller
        /\ runs[f].result = run[f].result
        /\ \/ runs[f].os = run[f].os
           \/ run[f].id = p /\ run[f].os = "exited" /\ runs[f].os = "done"
  BY <1>1, <1>3, <1>4 DEF p
<1>6. /\ run' \in [Execs -> Run]
      /\ \A f \in Execs :
           /\ run'[f].os = runs[f].os /\ run'[f].id = run[f].id
           /\ run'[f].origin = run[f].origin
           /\ run'[f].backgrounded = run[f].backgrounded
           /\ run'[f].aborted = run[f].aborted /\ run'[f].timer = run[f].timer
           /\ run'[f].caller = run[f].caller
           /\ f # active[p] => announced'[f] = announced[f]
      /\ active' = [active EXCEPT ![p] = None]
      /\ resolvers' = resolvers \ {p}
      /\ listeners' = {l \in listeners : l.id # p}
      /\ active[p] = None => UNCHANGED exitInfo
      /\ active[p] # None =>
           /\ exitInfo' = exitInfo \cup {p}
           /\ announced'[active[p]] =
                IF run[active[p]].backgrounded /\ ~run[e].aborted THEN 1 ELSE 0
      /\ announced' \in [Execs -> Nat]
  <2>1. /\ run' \in [Execs -> Run]
        /\ \A f \in Execs :
              /\ run'[f].os = runs[f].os /\ run'[f].id = runs[f].id
              /\ run'[f].origin = runs[f].origin
              /\ run'[f].backgrounded = runs[f].backgrounded
              /\ run'[f].aborted = runs[f].aborted /\ run'[f].timer = runs[f].timer
              /\ run'[f].caller = runs[f].caller
              /\ f # active[p] => announced'[f] = announced[f]
        /\ active' = [active EXCEPT ![p] = None]
        /\ resolvers' = resolvers \ {p}
        /\ listeners' = {l \in listeners : l.id # p}
        /\ active[p] = None => UNCHANGED exitInfo
        /\ active[p] # None =>
             /\ exitInfo' = exitInfo \cup {p}
             /\ announced'[active[p]] =
                  IF run[active[p]].backgrounded /\ ~run[e].aborted THEN 1 ELSE 0
        /\ announced' \in [Execs -> Nat]
    BY <1>1, <1>2, <1>4, SettleIs DEF Inv
  <2>. QED BY <1>5, <2>1
<1>7. /\ OneCommandPerId' /\ Unstarted' /\ ActiveIsLive' /\ PendingIsActive'
      /\ OwnListeners' /\ ListenersHear'
      /\ \A f \in Execs : run[f].os # "new" /\ active'[run[f].id] = None =>
           run[f].id \in exitInfo' \/ f \in expired'
  BY <1>1, <1>2, <1>4, <1>5, SettleKeeps
<1>8. \A f \in Execs : UnderWay(f) /\ run[f].id = p => f = e
  BY <1>2 DEF Inv, LifecycleInv, OneCommandPerId, p
<1>9. \A f \in Execs : /\ Live(f)' <=> Live(f) /\ f # e
                       /\ f # e => run'[f].os = run[f].os
  BY <1>3, <1>4, <1>6 DEF Live
<1>10. active[p] \in {None, e} /\ (active[p] = None => e \in dismissed)
  <2>1. active[p] # None => active[p] = e
    <3>1. active[p] # None => active[p] \in Execs /\ Live(active[p]) /\ run[active[p]].id = p
      BY <1>2 DEF Inv, TypeOK, LifecycleInv, ActiveIsLive
    <3>. QED BY <1>8, <3>1 DEF UnderWay, Live
  <2>2. active[p] = None => e \in dismissed
    BY <1>2, ExecutionsAssumption DEF Inv, LifecycleInv, Forgotten, p
  <2>. QED BY <2>1, <2>2
<1>11. TypeOK'
  <2>1. cards' \in [Pids -> Card \cup {None}] /\ claimed' \subseteq Pids
    <3>1. \A b : AfterExit(cards[p], b) \in Card \cup {None}
      BY <1>2 DEF AfterExit, Card, Inv, TypeOK
    <3>. QED BY <1>1, <3>1 DEF CardsAfterExit, ClaimedAfterExit, Inv, TypeOK
  <2>2. /\ history' \in [Pids -> {"none", "running", "exited"}]
        /\ logs' \in [Pids -> {"none", "open", "closing"}]
        /\ shells' \in [Pids -> Execs \cup {None}]
    BY <1>1 DEF HistoryAtExit, Inv, TypeOK
  <2>3. /\ active' \in [Pids -> Execs \cup {None}] /\ resolvers' \subseteq Pids
        /\ listeners' \subseteq Listener /\ exitInfo' \subseteq Pids
        /\ expired' \subseteq Execs
    BY <1>1, <1>2, <1>6 DEF Inv, TypeOK
  <2>. QED BY <1>1, <1>6, <2>1, <2>2, <2>3 DEF Inv, TypeOK
<1>12. Forgotten'
  <2>1. \A f \in Execs : Live(f)' /\ active'[run[f].id] # f => f \in dismissed
    <3> SUFFICES ASSUME NEW f \in Execs, Live(f)', active'[run[f].id] # f
                 PROVE  f \in dismissed
      OBVIOUS
    <3>1. Live(f) /\ f # e
      BY <1>9
    <3>2. run[f].id # p
      BY <1>8, <3>1 DEF UnderWay, Live
    <3>3. active[run[f].id] # f
      BY <1>6, <3>2 DEF Inv, TypeOK, Run
    <3>. QED BY <3>1, <3>3 DEF Inv, LifecycleInv, Forgotten
  <2>2. \A f \in Execs : run'[f].os # "new" => run[f].os # "new"
    BY <1>5, <1>6
  <2>3. \A f \in Execs : announced'[f] # 0 => run'[f].os = "done"
    <3> SUFFICES ASSUME NEW f \in Execs, announced'[f] # 0
                 PROVE  run'[f].os = "done"
      OBVIOUS
    <3>1. CASE f = e
      BY <1>3, <1>4, <1>6, <3>1
    <3>2. CASE f # e
      BY <1>6, <1>9, <1>10, <3>2, ExecutionsAssumption DEF Inv, LifecycleInv, Forgotten
    <3>. QED BY <3>1, <3>2
  <2>. QED BY <1>1, <1>6, <1>7, <2>1, <2>2, <2>3 DEF Forgotten
<1>13. AnnouncedOnce'
  <2> SUFFICES ASSUME NEW f \in Execs
               PROVE  /\ announced'[f] <= 1
                      /\ announced'[f] = 1 =>
                           run[f].backgrounded /\ f \notin dismissed /\ ~run[f].aborted
                      /\ run'[f].os = "done" /\ run[f].backgrounded /\ f \notin dismissed
                           /\ ~run[f].aborted => announced'[f] = 1
    BY <1>1, <1>6 DEF AnnouncedOnce
  <2>1. CASE f = active[p]
    <3>1. f = e /\ active[p] = e /\ active[p] # None
      BY <1>10, <2>1, ExecutionsAssumption
    <3>2. e \notin dismissed
      BY <1>2, <3>1 DEF Inv, LifecycleInv, ActiveIsLive
    <3>. QED BY <1>6, <3>1, <3>2
  <2>2. CASE f # active[p]
    <3>1. announced'[f] = announced[f]
      BY <1>6, <2>2
    <3>2. CASE f = e
      BY <1>10, <2>2, <3>1, <3>2 DEF Inv, LifecycleInv, AnnouncedOnce
    <3>3. CASE f # e
      BY <1>9, <3>1, <3>3 DEF Inv, LifecycleInv, AnnouncedOnce
    <3>. QED BY <3>2, <3>3
  <2>. QED BY <2>1, <2>2
<1>14. CardsLearnOfExits'
  <2> SUFFICES ASSUME NEW q \in Pids, cards'[q] # None, cards'[q].status = "running",
                      cards'[q].of \notin expired
               PROVE  \E l \in listeners' : l.id = q /\ l.of = cards'[q].of
    BY <1>1 DEF CardsLearnOfExits, ListenersOf
  <2>1. AfterExit(cards[p], "silent") # None =>
          AfterExit(cards[p], "silent").status = "exited"
    BY <1>2 DEF AfterExit, Card, Inv, TypeOK
  <2>2. cards'[q] = cards[q]
    BY <1>1, <1>2, <2>1 DEF CardsAfterExit, Inv, TypeOK
  <2>3. PICK l \in listeners : l.id = q /\ l.of = cards[q].of
    BY <2>2 DEF Inv, LifecycleInv, CardsLearnOfExits, ListenersOf
  <2>4. q # p
    <3>1. SUFFICES ASSUME q = p PROVE FALSE
      OBVIOUS
    <3>2. CalledAtExit(p) # {}
      BY <2>3, <3>1 DEF CalledAtExit, ListenersOf
    <3>3. cards'[p] = None \/ cards'[p] = AfterExit(cards[p], "silent")
      BY <1>1, <1>2, <3>2 DEF CardsAfterExit, Inv, TypeOK
    <3>. QED BY <2>1, <3>1, <3>3
  <2>. QED BY <1>6, <2>2, <2>3, <2>4
<1>15. LogInv'
  <2>1. \A q \in Pids : SomeLive(q)' <=> SomeLive(q) /\ q # p
    BY <1>2, <1>6, <1>8, <1>9 DEF SomeLive, UnderWay, Live, p
  <2>2. logs[p] # "closing"
    BY <1>2 DEF Inv, LogInv, LogsOfLive, SomeLive, p
  <2>3. TimersWait'
    <3>1. \A f \in Execs : run[f].id \in Pids
      BY DEF Inv, TypeOK, Run
    <3>2. \A q \in Pids : logs[q] = "none" => logs'[q] = "none"
      BY <1>1, <1>2 DEF Inv, TypeOK
    <3>. QED BY <1>6, <3>1, <3>2 DEF Inv, LogInv, TimersWait
  <2>4. LogsOfLive'
    <3>1. \A q \in Pids : /\ q # p => logs'[q] = logs[q] /\ history'[q] = history[q]
                          /\ logs'[p] # "open" /\ history'[p] # "running"
      BY <1>1, <1>2 DEF HistoryAtExit, Inv, TypeOK
    <3>. QED BY <2>1, <3>1 DEF Inv, LogInv, LogsOfLive
  <2>5. ShellsLive'
    <3> SUFFICES ASSUME NEW q \in Pids, NEW f \in Execs, shells'[q] = f,
                        logs'[q] # "closing"
                 PROVE  Live(f)' /\ run[f].id = q
      BY <1>6 DEF ShellsLive
    <3>1. q # p
      BY <1>1, <1>2, ExecutionsAssumption DEF Inv, TypeOK
    <3>2. shells[q] = f /\ logs[q] # "closing"
      BY <1>1, <3>1 DEF Inv, TypeOK
    <3>3. Live(f) /\ run[f].id = q
      BY <3>2 DEF Inv, LogInv, ShellsLive
    <3>. QED BY <1>9, <3>1, <3>3 DEF p
  <2>. QED BY <2>3, <2>4, <2>5 DEF LogInv
<1>. QED BY <1>7, <1>11, <1>12, <1>13, <1>14, <1>15 DEF Inv, LifecycleInv

\* The user dismisses a card: what its id stands for settles as ended by the
\* user, while its process may still be live.
LEMMA DismissKeeps ==
  ASSUME Inv, NEW p \in Pids, Dismiss(p)
  PROVE  Inv'
<1>1. /\ cards' = [cards EXCEPT ![p] = None] /\ claimed' = claimed \ {p}
      /\ behavior' = behavior /\ logs' = logs /\ history' = history /\ expired' = expired
  BY DEF Dismiss
<1>2. CardsLearnOfExits' /\ cards' \in [Pids -> Card \cup {None}] /\ claimed' \subseteq Pids
  <2>1. cards' \in [Pids -> Card \cup {None}] /\ claimed' \subseteq Pids
    BY <1>1 DEF Inv, TypeOK
  <2>2. \A l \in listeners : l.id # p => l \in listeners'
    <3>1. CASE cards[p].status = "running" /\ active[p] # None
      <4>1. SettleExecution(p, run, TRUE)
        BY <3>1 DEF Dismiss
      <4>2. run \in [Execs -> Run] /\ TypeOK /\ LifecycleInv
        BY DEF Inv, TypeOK
      <4>3. listeners' = {l \in listeners : l.id # p}
        BY <3>1, <4>1, <4>2, SettleIs
      <4>. QED BY <4>3
    <3>2. CASE ~(cards[p].status = "running" /\ active[p] # None)
      BY <3>2 DEF Dismiss
    <3>. QED BY <3>1, <3>2
  <2>3. CardsLearnOfExits'
    <3> SUFFICES ASSUME NEW q \in Pids, cards'[q] # None, cards'[q].status = "running",
                        cards'[q].of \notin expired
                 PROVE  \E l \in listeners' : l.id = q /\ l.of = cards'[q].of
      BY <1>1 DEF CardsLearnOfExits, ListenersOf
    <3>1. q # p /\ cards'[q] = cards[q]
      BY <1>1 DEF Inv, TypeOK
    <3>2. PICK l \in listeners : l.id = q /\ l.of = cards[q].of
      BY <3>1 DEF Inv, LifecycleInv, CardsLearnOfExits, ListenersOf
    <3>. QED BY <2>2, <3>1, <3>2
  <2>. QED BY <2>1, <2>3
<1>3. CASE cards[p].status = "running" /\ active[p] # None
  <2> DEFINE a == active[p]
  <2>1. /\ SettleExecution(p, run, TRUE) /\ dismissed' = dismissed \cup {a}
        /\ shells' = IF run[a].pty THEN shells ELSE [shells EXCEPT ![p] = None]
    BY <1>3 DEF Dismiss
  <2>2. a \in Execs /\ Live(a) /\ run[a].id = p /\ run \in [Execs -> Run]
    BY <1>3 DEF Inv, TypeOK, LifecycleInv, ActiveIsLive
  <2>3. /\ run' \in [Execs -> Run]
        /\ \A f \in Execs :
             /\ run'[f].os = run[f].os /\ run'[f].id = run[f].id
             /\ run'[f].origin = run[f].origin
             /\ run'[f].backgrounded = run[f].backgrounded
             /\ run'[f].aborted = run[f].aborted /\ run'[f].timer = run[f].timer
             /\ run'[f].caller = run[f].caller
             /\ f # a => announced'[f] = announced[f]
        /\ active' = [active EXCEPT ![p] = None]
        /\ resolvers' = resolvers \ {p}
        /\ listeners' = {l \in listeners : l.id # p}
        /\ exitInfo' = exitInfo \cup {p}
        /\ announced'[a] = 0
        /\ announced' \in [Execs -> Nat]
    <3> DEFINE killed == TRUE
    <3>1. killed \in BOOLEAN /\ SettleExecution(p, run, killed) /\ TypeOK /\ LifecycleInv
      BY <2>1 DEF Inv
    <3> HIDE DEF killed
    <3>2. announced'[a] = IF run[a].backgrounded /\ ~killed THEN 1 ELSE 0
      BY <1>3, <2>2, <3>1, SettleIs
    <3>3. announced'[a] = 0
      BY <3>2 DEF killed
    <3>. QED BY <1>3, <2>2, <3>1, <3>3, SettleIs
  <2>4. /\ OneCommandPerId' /\ Unstarted' /\ ActiveIsLive' /\ PendingIsActive'
        /\ OwnListeners' /\ ListenersHear'
        /\ \A f \in Execs : run[f].os # "new" /\ active'[run[f].id] = None =>
             run[f].id \in exitInfo' \/ f \in expired'
    BY <1>1, <2>1, <2>2, SettleKeeps
  <2> HIDE DEF a
  <2>5. \A f \in Execs : Live(f)' <=> Live(f)
    BY <2>3 DEF Live
  <2>6. TypeOK'
    <3>1. /\ active' \in [Pids -> Execs \cup {None}] /\ resolvers' \subseteq Pids
          /\ listeners' \subseteq Listener /\ exitInfo' \subseteq Pids
      BY <2>3 DEF Inv, TypeOK
    <3>2. /\ shells' \in [Pids -> Execs \cup {None}] /\ dismissed' \subseteq Execs
      BY <2>1, <2>2 DEF Inv, TypeOK
    <3>. QED BY <1>1, <1>2, <2>3, <3>1, <3>2 DEF Inv, TypeOK
  <2>7. Forgotten'
    <3>1. \A f \in Execs : Live(f)' /\ active'[run[f].id] # f => f \in dismissed'
      <4> SUFFICES ASSUME NEW f \in Execs, Live(f), active'[run[f].id] # f, f # a
                   PROVE  f \in dismissed
        BY <2>1, <2>5
      <4>1. run[f].id \in Pids
        BY DEF Inv, TypeOK, Run
      <4>2. active[run[f].id] # f
        BY <2>3, <4>1 DEF Inv, TypeOK, a
      <4>. QED BY <4>2 DEF Inv, LifecycleInv, Forgotten
    <3>2. \A f \in Execs : announced'[f] # 0 => run'[f].os = "done"
      BY <2>3 DEF Inv, LifecycleInv, Forgotten
    <3>. QED BY <2>3, <2>4, <3>1, <3>2 DEF Forgotten
  <2>8. AnnouncedOnce'
    <3>1. /\ announced'[a] = 0 /\ a \in dismissed'
          /\ \A f \in Execs : f # a => (f \in dismissed' <=> f \in dismissed)
      BY <2>1, <2>3
    <3>. QED BY <2>3, <3>1 DEF Inv, LifecycleInv, AnnouncedOnce
  <2>9. LogInv'
    <3>1. \A q \in Pids : SomeLive(q)' <=> SomeLive(q)
      BY <2>3, <2>5 DEF SomeLive
    <3>2. TimersWait' /\ LogsOfLive'
      BY <1>1, <2>3, <3>1 DEF Inv, LogInv, TimersWait, LogsOfLive
    <3>3. ShellsLive'
      BY <1>1, <2>1, <2>3, <2>5, ExecutionsAssumption DEF Inv, TypeOK, LogInv, ShellsLive
    <3>. QED BY <3>2, <3>3 DEF LogInv
  <2>. QED BY <1>2, <2>4, <2>6, <2>7, <2>8, <2>9 DEF Inv, LifecycleInv
<1>4. CASE ~(cards[p].status = "running" /\ active[p] # None)
  <2>1. /\ listeners' \subseteq listeners
        /\ UNCHANGED <<run, active, resolvers, exitInfo, announced, expired,
                       dismissed, shells>>
    BY <1>1, <1>4 DEF Dismiss
  <2>2. TypeOK'
    BY <1>1, <1>2, <2>1 DEF Inv, TypeOK
  <2>3. OneCommandPerId' /\ Unstarted' /\ ActiveIsLive' /\ PendingIsActive' /\ Forgotten'
    BY <2>1 DEF Inv, LifecycleInv, OneCommandPerId, Unstarted, ActiveIsLive,
                PendingIsActive, Forgotten, UnderWay, Live
  <2>4. OwnListeners' /\ ListenersHear' /\ AnnouncedOnce'
    BY <2>1 DEF Inv, LifecycleInv, OwnListeners, ListenersHear, AnnouncedOnce
  <2>5. LogInv'
    BY <1>1, <2>1 DEF Inv, LogInv, TimersWait, LogsOfLive, ShellsLive, SomeLive, Live
  <2>. QED BY <1>2, <2>2, <2>3, <2>4, <2>5 DEF Inv, LifecycleInv
<1>. QED BY <1>3, <1>4

-----------------------------------------------------------------------------
(***************************************************************************)
(* The theorems.                                                           *)
(***************************************************************************)
LEMMA InitEstablishes == Init => Inv
<1> SUFFICES ASSUME Init PROVE Inv
  OBVIOUS
<1>1. TypeOK
  <2>1. behavior \in Behaviors /\ run \in [Execs -> Run]
    <3>1. (CHOOSE p \in Pids : TRUE) \in Pids
      BY ExecutionsAssumption
    <3>. QED BY <3>1 DEF Init, Run, AllOrigins
  <2>. QED BY <2>1 DEF Init, TypeOK
<1>2. \A e \in Execs : ~Live(e) /\ ~UnderWay(e)
  BY DEF Init, Live, UnderWay
<1>3. OneCommandPerId /\ Unstarted /\ ActiveIsLive
  BY <1>2, ExecutionsAssumption DEF Init, OneCommandPerId, Unstarted, ActiveIsLive
<1>4. PendingIsActive /\ Forgotten
  BY <1>2 DEF Init, PendingIsActive, Forgotten
<1>5. OwnListeners /\ ListenersHear /\ AnnouncedOnce /\ CardsLearnOfExits
  BY DEF Init, OwnListeners, ListenersHear, AnnouncedOnce, CardsLearnOfExits
<1>6. LogInv
  BY ExecutionsAssumption DEF Init, LogInv, TimersWait, LogsOfLive, ShellsLive
<1>. QED BY <1>1, <1>3, <1>4, <1>5, <1>6 DEF Inv, LifecycleInv

LEMMA StutterKeeps ==
  ASSUME Inv, UNCHANGED vars
  PROVE  Inv'
<1>1. UNCHANGED <<run, behavior, active, resolvers, listeners, exitInfo, shells, logs,
                  history, cards, claimed, announced, dismissed, expired>>
  BY DEF vars, lifecycle, service, ui, ghosts
<1>2. TypeOK'
  BY <1>1 DEF Inv, TypeOK
<1>3. OneCommandPerId' /\ Unstarted' /\ ActiveIsLive' /\ PendingIsActive' /\ Forgotten'
  BY <1>1 DEF Inv, LifecycleInv, OneCommandPerId, Unstarted, ActiveIsLive,
              PendingIsActive, Forgotten, UnderWay, Live
<1>4. OwnListeners' /\ ListenersHear' /\ AnnouncedOnce' /\ CardsLearnOfExits'
  BY <1>1 DEF Inv, LifecycleInv, OwnListeners, ListenersHear, AnnouncedOnce,
              CardsLearnOfExits, ListenersOf
<1>5. LogInv'
  BY <1>1 DEF Inv, LogInv, TimersWait, LogsOfLive, ShellsLive, SomeLive, Live
<1>. QED BY <1>2, <1>3, <1>4, <1>5 DEF Inv, LifecycleInv

LEMMA StepKeeps == Inv /\ [Next]_vars => Inv'
<1> SUFFICES ASSUME Inv, [Next]_vars PROVE Inv'
  OBVIOUS
<1>1. ASSUME NEW e \in Execs, Start(e) PROVE Inv'
  BY <1>1, StartKeeps
<1>2. ASSUME NEW e \in Execs, ProcessExits(e) PROVE Inv'
  BY <1>2, ProcessExitsKeeps
<1>3. ASSUME NEW e \in Execs, HandleExit(e) PROVE Inv'
  BY <1>3, HandleExitKeeps
<1>4. ASSUME NEW e \in Execs, ExitInfoExpires(e) PROVE Inv'
  BY <1>4, ExitInfoExpiresKeeps
<1>5. ASSUME NEW e \in Execs, BackgroundCurrentExecution(e) PROVE Inv'
  BY <1>5, BackgroundCurrentExecutionKeeps
<1>6. ASSUME NEW e \in Execs, BackgroundTimer(e) PROVE Inv'
  BY <1>6, BackgroundTimerKeeps
<1>7. ASSUME NEW e \in Execs, Abort(e) PROVE Inv'
  BY <1>7, AbortKeeps
<1>8. ASSUME NEW e \in Execs, ResultArrives(e) PROVE Inv'
  BY <1>8, ResultArrivesKeeps
<1>9. ASSUME NEW e \in Execs, BatchEnds(e) PROVE Inv'
  BY <1>9, BatchEndsKeeps
<1>10. ASSUME NEW p \in Pids, LogClosed(p) PROVE Inv'
  BY <1>10, LogClosedKeeps
<1>11. ASSUME NEW p \in Pids, Dismiss(p) PROVE Inv'
  BY <1>11, DismissKeeps
<1>12. CASE UNCHANGED vars
  BY <1>12, StutterKeeps
<1>. QED BY <1>1, <1>2, <1>3, <1>4, <1>5, <1>6, <1>7, <1>8, <1>9, <1>10, <1>11, <1>12
         DEF Next

(***************************************************************************)
(* The inductive invariant of the two services and the cards holds: each   *)
(* step of a command, of its log stream, of the interface or of the user   *)
(* keeps all of its parts.                                                 *)
(***************************************************************************)
THEOREM InvHolds == Spec => []Inv
BY InitEstablishes, StepKeeps, PTL DEF Spec

\* Every state the two services and the cards reach has the declared shape.
THEOREM ExecutionsTyped == Spec => []TypeOK
<1>1. Inv => TypeOK
  BY DEF Inv
<1>. QED BY <1>1, InvHolds, PTL

\* A listener hears only the execution that had the id when it was registered,
\* whatever cards and batches are left when the system gives the id again.
THEOREM OwnListenersOnly == Spec => []OwnListeners
<1>1. Inv => OwnListeners
  BY DEF Inv, LifecycleInv
<1>. QED BY <1>1, InvHolds, PTL

\* The end of a background command is announced exactly once, and not at all
\* when the user has ended it.
THEOREM AnnouncedExactlyOnce == Spec => []AnnouncedOnce
<1>1. Inv => AnnouncedOnce
  BY DEF Inv, LifecycleInv
<1>. QED BY <1>1, InvHolds, PTL

\* A card that shows a running task has a listener for its command, unless a
\* timer has dropped the information on the command's exit.
THEOREM RunningCardsListen == Spec => []CardsLearnOfExits
<1>1. Inv => CardsLearnOfExits
  BY DEF Inv, LifecycleInv
<1>. QED BY <1>1, InvHolds, PTL

\* When every command has come to its end the services hold no process, no
\* promise, no listener and no open log of it.
THEOREM NothingIsLeftBehind == Spec => []NothingLeftBehind
<1>1. Inv => NothingLeftBehind
  <2> SUFFICES ASSUME Inv, Quiet, NEW p \in Pids
               PROVE  /\ active[p] = None /\ p \notin resolvers
                      /\ ListenersOf(p) = {}
                      /\ logs[p] = "none" => shells[p] = None
                      /\ logs[p] # "open" /\ history[p] # "running"
    BY DEF NothingLeftBehind
  <2>1. \A e \in Execs : ~Live(e)
    BY DEF Quiet, Live
  <2>2. \A q \in Pids : active[q] = None
    <3>1. \A q \in Pids : active[q] \in Execs => Live(active[q])
      BY DEF Inv, LifecycleInv, ActiveIsLive
    <3>. QED BY <2>1, <3>1 DEF Inv, TypeOK
  <2>3. p \notin resolvers /\ ListenersOf(p) = {}
    BY <2>2, UnheardIs DEF Inv
  <2>4. logs[p] = "none" => shells[p] = None
    BY <2>1 DEF Inv, TypeOK, LogInv, ShellsLive
  <2>5. logs[p] # "open" /\ history[p] # "running"
    BY <2>1 DEF Inv, LogInv, LogsOfLive, SomeLive
  <2>. QED BY <2>2, <2>3, <2>4, <2>5
<1>. QED BY <1>1, InvHolds, PTL
=============================================================================
