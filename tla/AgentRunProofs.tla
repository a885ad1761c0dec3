--------------------------- MODULE AgentRunProofs ---------------------------
(***************************************************************************)
(* What holds of every run of a sub-agent, for every set of calls, every   *)
(* number of turns and every length of the two timers.                     *)
(***************************************************************************)
EXTENDS AgentRun, TLAPS

-----------------------------------------------------------------------------
(***************************************************************************)
(* How a turn ends.                                                        *)
(***************************************************************************)
LEMMA EndType ==
  ASSUME TypeOK, NEW r \in Reason, End(r),
         grace => r \in Recoverable \cup {"GOAL"},
         UNCHANGED <<signal, throws>>
  PROVE  TypeOK'
<1>1. deadline' \in Timer(Budget) /\ period' \in Timer(Grace)
  BY DEF TypeOK, End, Timer
<1>2. phase' \in Phase /\ reason' \in Reason
  BY DEF End, Phase
<1>. QED BY <1>1, <1>2 DEF TypeOK, End

LEMMA RecoverType ==
  ASSUME TypeOK, NEW r \in Recoverable, Recover(r), UNCHANGED <<signal, throws>>
  PROVE  TypeOK'
<1>1. phase' \in Phase /\ calls' \in [Calls -> Status] /\ late' \in Nat
  BY DEF TypeOK, Recover, BeginTurn, Phase, Status, NoCalls
<1>2. reason' \in Reason /\ period' \in Timer(Grace)
  BY AgentAssumption DEF Recover, Recoverable, Reason, Timer, Started
<1>. QED BY <1>1, <1>2 DEF TypeOK, Recover

LEMMA StopType ==
  ASSUME TypeOK, NEW r \in Reason, Stop(r), UNCHANGED <<signal, throws>>
  PROVE  TypeOK'
<1>1. CASE grace
  <2>1. /\ End(IF r = "GOAL" THEN r ELSE reason)
        /\ (IF r = "GOAL" THEN r ELSE reason) \in Reason
        /\ (IF r = "GOAL" THEN r ELSE reason) \in Recoverable \cup {"GOAL"}
    BY <1>1 DEF Stop, TypeOK
  <2>. QED BY <2>1, EndType
<1>2. CASE ~grace /\ r \in Recoverable
  BY <1>2, RecoverType DEF Stop
<1>3. CASE ~grace /\ r \notin Recoverable
  BY <1>3, EndType DEF Stop
<1>. QED BY <1>1, <1>2, <1>3 DEF TypeOK

-----------------------------------------------------------------------------
(***************************************************************************)
(* The type invariant.  A last turn ends the run with the reason that led  *)
(* to it, or with the goal, whatever happens in it.                        *)
(***************************************************************************)
LEMMA TurnKeepsType ==
  ASSUME TypeOK,
         LoopTop \/ ModelCalls \/ ModelCallsNothing \/ ModelIsCut \/ ModelThrows
                 \/ ToolsDone
  PROVE  TypeOK'
<1>0. Cut \in Reason /\ {"MAX_TURNS", "NO_COMPLETE_TASK", "ABORTED", "GOAL"} \subseteq Reason
  BY DEF Cut, Reason
<1>1. CASE LoopTop
  <2>1. CASE Stop("MAX_TURNS") \/ Stop(Cut)
    BY <1>0, <1>1, <2>1, StopType DEF LoopTop
  <2>2. CASE turn < MaxTurns /\ turn' = turn + 1 /\ BeginTurn
                /\ UNCHANGED <<grace, reason, clocks>>
    <3>1. phase' \in Phase /\ calls' \in [Calls -> Status] /\ late' \in Nat
      BY <2>2 DEF TypeOK, BeginTurn, Phase, Status, NoCalls
    <3>2. turn' \in 0..MaxTurns
      BY <2>2, AgentAssumption DEF TypeOK
    <3>. QED BY <1>1, <2>2, <3>1, <3>2 DEF LoopTop, TypeOK, clocks
  <2>. QED BY <1>1, <2>1, <2>2 DEF LoopTop
<1>2. CASE ModelCalls
  <2>1. calls' \in [Calls -> Status] /\ phase' \in Phase
    BY <1>2 DEF ModelCalls, Status, Terminal, Phase
  <2>. QED BY <1>2, <2>1 DEF ModelCalls, TypeOK, clocks
<1>3. CASE ModelCallsNothing
  BY <1>0, <1>3, StopType DEF ModelCallsNothing
<1>4. CASE ModelIsCut
  BY <1>0, <1>4, StopType DEF ModelIsCut
<1>5. CASE ModelThrows
  <2>1. CASE Swallows /\ End(reason)
    BY <1>5, <2>1, EndType DEF ModelThrows, TypeOK, Swallows
  <2>2. CASE Recover("TIMEOUT")
    BY <1>5, <2>2, RecoverType DEF ModelThrows, Recoverable
  <2>3. CASE ~Swallows /\ End("ERROR")
    BY <1>5, <2>3, EndType DEF ModelThrows, Reason, Swallows
  <2>. QED BY <1>5, <2>1, <2>2, <2>3 DEF ModelThrows
<1>6. CASE ToolsDone
  <2>1. CASE Stop("ABORTED") \/ Stop("GOAL")
    BY <1>0, <1>6, <2>1, StopType DEF ToolsDone
  <2>2. CASE grace /\ End(reason)
    BY <1>6, <2>2, EndType DEF ToolsDone, TypeOK
  <2>3. CASE phase' = "loop" /\ UNCHANGED <<turn, grace, reason, clocks, calls, late>>
    BY <1>6, <2>3 DEF ToolsDone, TypeOK, clocks, Phase
  <2>. QED BY <1>6, <2>1, <2>2, <2>3 DEF ToolsDone
<1>. QED BY <1>1, <1>2, <1>3, <1>4, <1>5, <1>6

LEMMA TimersType ==
  ASSUME TypeOK
  PROVE  /\ {Paused(deadline), Resumed(deadline), Ticked(deadline), Fired(deadline)}
              \subseteq Timer(Budget)
         /\ {Ticked(period), Fired(period)} \subseteq Timer(Grace)
<1>1. ASSUME NEW n \in Nat, NEW t \in Timer(n)
      PROVE  {Paused(t), Resumed(t), Ticked(t), Fired(t)} \subseteq Timer(n)
  BY <1>1 DEF Timer, Paused, Resumed, Ticked, Ticking, Fired
<1>. QED BY <1>1, AgentAssumption DEF TypeOK

LEMMA BatchKeepsType ==
  ASSUME TypeOK,
         \/ StartWave \/ RunWave
         \/ \E c \in Calls : OfCall(c) \/ Answer(c) \/ WaitIsCut(c) \/ ToolEnds(c)
  PROVE  TypeOK'
<1>. USE DEF Status, Active, Waiting, Terminal, Are, AreActive, All, Failed, BatchOnly
<1>1. calls' \in [Calls -> Status]
  BY DEF TypeOK, StartWave, RunWave, OfCall, Decided, Ask, Answer, UserAllows,
         UserModifies, EditorCloses, UserRefuses, WaitThrows, WaitIsCut, ToolEnds
<1>2. deadline' \in Timer(Budget)
  BY TimersType DEF TypeOK, StartWave, RunWave, OfCall, Decided, Ask, Answer,
         UserModifies, EditorCloses, UserAllows, UserRefuses, WaitThrows, WaitIsCut, ToolEnds
<1>3. throws' \in 0..MaxThrows
  BY AgentAssumption DEF TypeOK, StartWave, RunWave, OfCall, Decided, Ask, Answer,
         UserModifies, EditorCloses, UserAllows, UserRefuses, WaitThrows, WaitIsCut, ToolEnds
<1>4. UNCHANGED <<phase, turn, grace, reason, signal, period, late>>
  BY DEF StartWave, RunWave, OfCall, Decided, Ask, Answer, UserAllows,
         UserModifies, EditorCloses, UserRefuses, WaitThrows, WaitIsCut, ToolEnds
<1>. QED BY <1>1, <1>2, <1>3, <1>4 DEF TypeOK

LEMMA TimeKeepsType ==
  ASSUME TypeOK, Tick \/ Fire \/ Cancel
  PROVE  TypeOK'
<1>1. deadline' \in Timer(Budget) /\ period' \in Timer(Grace)
  BY TimersType DEF TypeOK, Tick, Fire, Cancel, clocks
<1>2. /\ UNCHANGED <<phase, turn, grace, reason, calls, throws, late>>
      /\ signal' = signal \/ signal' = TRUE
  BY DEF Tick, Fire, Cancel
<1>. QED BY <1>1, <1>2 DEF TypeOK

(***************************************************************************)
(* Every run of a sub-agent keeps the type invariant: its turns stay       *)
(* within the limit, and a last turn keeps a reason it may be reported     *)
(* with (executeFinalWarningTurn).                                         *)
(***************************************************************************)
THEOREM TypeCorrect == Spec => []TypeOK
<1>1. ASSUME Init PROVE TypeOK
  <2>1. deadline \in Timer(Budget) /\ period \in Timer(Grace)
    BY <1>1, AgentAssumption DEF Init, Timer, Started
  <2>2. calls \in [Calls -> Status]
    BY <1>1 DEF Init, NoCalls, Status
  <2>3. phase \in Phase /\ reason \in Reason
    BY <1>1 DEF Init, Phase, Reason
  <2>4. turn \in 0..MaxTurns /\ throws \in 0..MaxThrows /\ late \in Nat
    BY <1>1, AgentAssumption DEF Init
  <2>. QED BY <1>1, <2>1, <2>2, <2>3, <2>4 DEF Init, TypeOK
<1>2. TypeOK /\ [Next]_vars => TypeOK'
  <2>. SUFFICES ASSUME TypeOK, [Next]_vars PROVE TypeOK'
    OBVIOUS
  <2>1. CASE UNCHANGED vars
    BY <2>1 DEF vars, TypeOK
  <2>2. CASE Next
    BY <2>2, TurnKeepsType, BatchKeepsType, TimeKeepsType DEF Next
  <2>. QED BY <2>1, <2>2
<1>. QED BY <1>1, <1>2, PTL DEF Spec

-----------------------------------------------------------------------------
(***************************************************************************)
(* One last turn.  A turn begins in the loop, where neither limit has been *)
(* reached, or as the last turn; there is no way from the last turn back   *)
(* into the loop.                                                          *)
(***************************************************************************)
LastTurnInv ==
  /\ late \in Nat
  /\ phase = "loop" => ~grace
  /\ late <= IF grace THEN 1 ELSE 0

LEMMA StopKeepsLast ==
  ASSUME TypeOK, LastTurnInv, NEW r, Stop(r)
  PROVE  LastTurnInv'
<1>1. CASE grace \/ r \notin Recoverable
  BY <1>1 DEF Stop, End, LastTurnInv
<1>2. CASE ~grace /\ Recover(r)
  BY <1>2 DEF Recover, BeginTurn, LastTurnInv
<1>. QED BY <1>1, <1>2 DEF Stop

(***************************************************************************)
(* A run that has used its turns or its time asks the model once more and  *)
(* not again (runInternal's recovery, executeFinalWarningTurn), for every  *)
(* limit and however the deadline, the answers and the exceptions fall.    *)
(***************************************************************************)
THEOREM OneLastTurnHolds == Spec => []OneLastTurn
<1>1. Init => LastTurnInv
  BY DEF Init, LastTurnInv
<1>2. TypeOK /\ LastTurnInv /\ [Next]_vars => LastTurnInv'
  <2>. SUFFICES ASSUME TypeOK, LastTurnInv, [Next]_vars PROVE LastTurnInv'
    OBVIOUS
  <2>1. CASE LoopTop
    <3>1. CASE \E r \in {"MAX_TURNS", Cut} : Stop(r)
      BY <3>1, StopKeepsLast
    <3>2. CASE turn < MaxTurns /\ ~Aborted /\ BeginTurn /\ grace' = grace
      <4>1. ~grace /\ turn \in Nat /\ MaxTurns \in Nat
        BY <2>1, AgentAssumption DEF LoopTop, LastTurnInv, TypeOK
      <4>2. ~AtLimit
        BY <3>2, <4>1 DEF AtLimit, Aborted, TimedOut
      <4>. QED BY <3>2, <4>1, <4>2 DEF BeginTurn, LastTurnInv
    <3>. QED BY <2>1, <3>1, <3>2 DEF LoopTop
  <2>2. CASE ModelCallsNothing \/ ModelIsCut
    BY <2>2, StopKeepsLast DEF ModelCallsNothing, ModelIsCut
  <2>3. CASE ModelThrows
    <3>1. CASE End(reason) \/ End("ERROR")
      BY <3>1 DEF End, LastTurnInv
    <3>2. CASE ~Swallows /\ Recover("TIMEOUT")
      BY <3>2 DEF Swallows, Recover, BeginTurn, LastTurnInv
    <3>. QED BY <2>3, <3>1, <3>2 DEF ModelThrows
  <2>4. CASE ToolsDone
    <3>1. CASE \E r \in {"ABORTED", "GOAL"} : Stop(r)
      BY <3>1, StopKeepsLast
    <3>2. CASE End(reason)
      BY <3>2 DEF End, LastTurnInv
    <3>3. CASE ~grace /\ UNCHANGED <<grace, late>>
      BY <3>3 DEF LastTurnInv
    <3>. QED BY <2>4, <3>1, <3>2, <3>3 DEF ToolsDone
  <2>5. CASE ModelCalls
    BY <2>5 DEF ModelCalls, LastTurnInv
  <2>6. CASE \/ StartWave \/ RunWave
             \/ \E c \in Calls : OfCall(c) \/ Answer(c) \/ WaitIsCut(c) \/ ToolEnds(c)
    <3>1. UNCHANGED <<phase, grace, late>>
      BY <2>6 DEF BatchOnly, StartWave, RunWave, OfCall, Decided, Ask, Answer,
                  UserModifies, EditorCloses, UserAllows, UserRefuses, WaitThrows, WaitIsCut, ToolEnds
    <3>. QED BY <3>1 DEF LastTurnInv
  <2>7. CASE Tick \/ Fire \/ Cancel \/ UNCHANGED vars
    BY <2>7 DEF Tick, Fire, Cancel, vars, LastTurnInv
  <2>. QED BY <2>1, <2>2, <2>3, <2>4, <2>5, <2>6, <2>7 DEF Next
<1>3. LastTurnInv => OneLastTurn
  BY DEF LastTurnInv, OneLastTurn
<1>. QED BY <1>1, <1>2, <1>3, TypeCorrect, PTL DEF Spec
=============================================================================
