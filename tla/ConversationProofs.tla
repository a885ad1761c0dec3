-------------------------- MODULE ConversationProofs --------------------------
(***************************************************************************)
(* What is proved of a conversation: the types, that the UI is at rest     *)
(* when nothing is under way and responds while a stream is read, that the *)
(* results of a batch of tool calls are recorded once, and that calls and  *)
(* responses stay paired in the history, for any number of queries,        *)
(* attempts, compressions and contexts.                                    *)
(***************************************************************************)
EXTENDS Conversation, SequenceTheorems, TLAPS

(***************************************************************************)
(* The records of the queries.                                             *)
(***************************************************************************)
Pcs == {"new", "prepare", "skill", "shell", "turn", "compress", "send", "lock",
        "request", "stream", "processed", "tools", "ended"}

LEMMA FreshTyped == Fresh \in Query
BY ConversationAssumption, EmptySeq DEF Fresh, Query, Queries

LEMMA QueriesTyped == Queries \subseteq Nat /\ 0 \notin Queries
BY ConversationAssumption DEF Queries

\* What a query is replaced with.
LEMMA RecordsTyped ==
  ASSUME TypeOK, NEW q \in Queries
  PROVE /\ Ended(q) \in Query /\ Processing(q) \in Query
        /\ Asking(q) \in Query /\ Recovered(q) \in Query
        /\ Ended(q).answers = 0 /\ Processing(q).answers = 0
        /\ Asking(q).answers = 0 /\ Recovered(q).answers = 0
        /\ Ended(q).chat = 0 /\ Processing(q).chat = 0
        /\ Asking(q).chat = 0 /\ Recovered(q).chat = 0
<1>1. query[q] \in Query /\ MaxQueries \in Queries
  BY ConversationAssumption DEF TypeOK, Queries
<1>2. Ended(q) \in Query /\ Ended(q).answers = 0 /\ Ended(q).chat = 0
  BY <1>1, FreshTyped DEF Ended, Query, Fresh
<1>3. Processing(q) \in Query /\ Processing(q).answers = 0 /\ Processing(q).chat = 0
  <2> HIDE DEF Ended
  <2> QED BY <1>1, <1>2 DEF Processing, Query
<1>4. Asking(q) \in Query /\ Asking(q).answers = 0 /\ Asking(q).chat = 0
  <2> DEFINE b == query[MaxQueries].pc = "new"
  <2>1. b \in BOOLEAN
    OBVIOUS
  <2>2. Asking(q) = [Processing(q) EXCEPT !.asks = b]
    BY DEF Asking
  <2> HIDE DEF b
  <2> QED BY <1>3, <2>1, <2>2 DEF Query
<1>5. Recovered(q) \in Query /\ Recovered(q).answers = 0 /\ Recovered(q).chat = 0
  <2>1. 1 \in 1..MaxAttempts /\ 0 \in 0..MaxCompressions /\ 0 \in Nat
    BY ConversationAssumption
  <2>2. query[q] \in Query
    BY <1>1
  <2>3. Recovered(q).answers = 0 /\ Recovered(q).chat = 0
    BY <2>2 DEF Recovered, Feedback, Query
  <2>4. Recovered(q) \in Query
    BY <2>1, <2>2 DEF Recovered, Feedback, Query
  <2> QED BY <2>3, <2>4
<1> QED BY <1>2, <1>3, <1>4, <1>5

(***************************************************************************)
(* The history.                                                            *)
(***************************************************************************)
LEMMA ItemTyped ==
  ASSUME NEW what \in {"user", "model", "call", "response", "context", "closing", "summary"},
         NEW q \in Queries \cup {0}
  PROVE Item(what, q) \in Entry
BY DEF Item, Entry

LEMMA MessageTyped ==
  ASSUME TypeOK, NEW q \in Queries
  PROVE Message(q) \in Entry
<1>1. query[q].answers \in Queries \cup {0}
  BY DEF TypeOK, Query
<1> QED BY <1>1, ItemTyped DEF Message

LEMMA RolledBackTyped ==
  ASSUME TypeOK, NEW q \in Queries
  PROVE RolledBack(q) \in Seq(Entry)
<1>1. query[q].before \in Nat /\ history \in Seq(Entry)
  BY DEF TypeOK, Query
<1>2. query[q].before <= Len(history) => SubSeq(history, 1, query[q].before) \in Seq(Entry)
  BY <1>1, SubSeqProperties
<1> QED BY <1>1, <1>2 DEF RolledBack

LEMMA ContextTyped ==
  ASSUME TypeOK, NEW h \in WithContext
  PROVE h \in Seq(Entry)
<1>1. history \in Seq(Entry) /\ Item("context", 0) \in Entry
  BY ItemTyped DEF TypeOK
<1>2. h = history \/ h = Append(history, Item("context", 0))
  BY DEF WithContext
<1> QED BY <1>1, <1>2, AppendProperties

LEMMA LocksTyped ==
  ASSUME TypeOK, NEW q \in Queries, NEW h \in Seq(Entry), NEW here, Locks(q, h, here)
  PROVE history' \in Seq(Entry) /\ lock' \in Queries \cup {0}
<1>1. Closed(q, h) \in Seq(Entry)
  BY ItemTyped, AppendProperties DEF Closed
<1>2. Append(Closed(q, h), Message(q)) \in Seq(Entry)
  BY <1>1, MessageTyped, AppendProperties
<1> QED BY <1>2 DEF Locks, TypeOK

LEMMA CompressedTyped ==
  ASSUME NEW h \in Seq(Entry), NEW i \in SplitPoints(h)
  PROVE <<Item("summary", 0)>> \o SubSeq(h, i + 1, Len(h)) \in Seq(Entry)
<1>1. i \in 1..Len(h)
  BY DEF SplitPoints
<1>2. SubSeq(h, i + 1, Len(h)) \in Seq(Entry)
  BY <1>1, SubSeqProperties, LenProperties
<1>3. <<Item("summary", 0)>> \in Seq(Entry)
  BY ItemTyped
<1> QED BY <1>2, <1>3, ConcatProperties

LEMMA RecordedTyped ==
  ASSUME TypeOK, NEW q \in Queries, Recorded(q)
  PROVE /\ reported' \in [Queries -> Nat] /\ overtaken' \in BOOLEAN
        /\ excused' = excused /\ retold' = retold
<1>1. overtaken' \in BOOLEAN
  BY DEF Recorded, Overtakes
<1>2. reported' \in [Queries -> Nat]
  <2>1. query[q].answers \in Queries \cup {0} /\ reported \in [Queries -> Nat]
    BY DEF TypeOK, Query
  <2>2. CASE query[q].answers = 0
    BY <2>1, <2>2 DEF Recorded
  <2>3. CASE query[q].answers # 0
    <3> DEFINE a == query[q].answers
    <3>1. reported' = [reported EXCEPT ![a] = @ + 1] /\ a \in Queries
      BY <2>1, <2>3 DEF Recorded, Reports
    <3> HIDE DEF a
    <3> QED BY <2>1, <3>1
  <2> QED BY <2>2, <2>3
<1> QED BY <1>1, <1>2 DEF Recorded

LEMMA OverTyped ==
  ASSUME TypeOK, NEW q \in Queries, NEW next \in Query,
         next.answers = 0, next.chat = 0, Over(q, next)
  PROVE /\ query' \in [Queries -> Query] /\ lock' \in Queries \cup {0}
        /\ \A p \in Queries : query'[p].answers < p /\ query'[p].chat <= chat
<1>1. \A p \in Queries : query'[p] \in Query
  <2> TAKE p \in Queries
  <2>1. query[p] \in Query
    BY DEF TypeOK
  <2> QED BY <2>1 DEF Over, Query
<1>2. \A p \in Queries : query'[p].answers < p /\ query'[p].chat <= chat
  <2> TAKE p \in Queries
  <2>1. query[p] \in Query /\ query[p].answers < p /\ query[p].chat <= chat
    BY DEF TypeOK
  <2>2. CASE p = q
    BY <2>2, QueriesTyped, ConversationAssumption DEF Over, TypeOK
  <2>3. CASE p # q
    BY <2>1, <2>3 DEF Over, Query
  <2> QED BY <2>2, <2>3
<1> QED BY <1>1, <1>2 DEF Over, TypeOK

(***************************************************************************)
(* Types, action by action.                                                *)
(***************************************************************************)
QueriesOK ==
  /\ query \in [Queries -> Query]
  /\ \A q \in Queries : query[q].answers < q /\ query[q].chat <= chat
HistoryOK == history \in Seq(Entry) /\ chat \in 0..MaxCompressions /\ lock \in Queries \cup {0}
UiOK ==
  /\ responding \in BOOLEAN /\ cancelled \in BOOLEAN /\ dimmed \in BOOLEAN
  /\ current \in Queries \cup {0} /\ last \in Queries \cup {0}
GhostsOK ==
  /\ reported \in [Queries -> Nat] /\ excused \subseteq Queries /\ retold \subseteq Queries
  /\ overtaken \in BOOLEAN

LEMMA Parts == TypeOK <=> QueriesOK /\ HistoryOK /\ UiOK /\ GhostsOK
BY DEF TypeOK, QueriesOK, HistoryOK, UiOK, GhostsOK

\* One query is replaced.
LEMMA OneReplaced ==
  ASSUME TypeOK, NEW q \in Queries, NEW r \in Query, r.answers < q, r.chat <= chat',
         chat' \in Nat, chat <= chat', query' = [query EXCEPT ![q] = r]
  PROVE QueriesOK'
<1>1. \A p \in Queries : query[p] \in Query /\ query[p].answers < p /\ query[p].chat <= chat
  BY DEF TypeOK
<1>2. \A p \in Queries : query[p].chat \in Nat /\ chat \in Nat
  BY <1>1, ConversationAssumption DEF Query, TypeOK
<1> QED BY <1>1, <1>2 DEF TypeOK, QueriesOK

\* A query of which only fields are changed that are no reference.
LEMMA OneStepped ==
  ASSUME TypeOK, NEW q \in Queries, NEW pc \in Pcs,
         query' = [query EXCEPT ![q].pc = pc], chat' = chat
  PROVE QueriesOK'
<1>1. query[q] \in Query /\ query[q].answers < q /\ query[q].chat <= chat
  BY DEF TypeOK
<1>2. [query[q] EXCEPT !.pc = pc] \in Query
  BY <1>1 DEF Query, Pcs
<1> DEFINE r == [query[q] EXCEPT !.pc = pc]
<1>3. query' = [query EXCEPT ![q] = r] /\ r.answers = query[q].answers /\ r.chat = query[q].chat
  BY <1>1 DEF TypeOK, Query
<1>4. r \in Query
  BY <1>2
<1> HIDE DEF r
<1>5. r.answers < q /\ r.chat <= chat'
  BY <1>1, <1>3
<1>6. chat' \in Nat /\ chat <= chat'
  BY ConversationAssumption DEF TypeOK
<1> QED BY <1>3, <1>4, <1>5, <1>6, OneReplaced

\* A query is replaced with one that refers to nothing.
LEMMA OneEnds ==
  ASSUME TypeOK, NEW q \in Queries,
         NEW r \in {Ended(q), Processing(q), Asking(q), Recovered(q)},
         query' = [query EXCEPT ![q] = r], chat' = chat
  PROVE QueriesOK'
<1>1. r \in Query /\ r.answers = 0 /\ r.chat = 0
  BY RecordsTyped
<1>2. chat' \in Nat /\ chat <= chat' /\ r.answers < q /\ r.chat <= chat'
  BY <1>1, ConversationAssumption DEF TypeOK, Queries
<1> QED BY <1>1, <1>2, OneReplaced

LEMMA SubmitTyped ==
  ASSUME TypeOK, NEW q \in Queries, SubmitQuery(q) \/ Prepared(q)
  PROVE TypeOK'
<1>1. QueriesOK'
  BY OneStepped, OneEnds DEF SubmitQuery, Prepared, Proceeds, Pcs
<1>2. HistoryOK'
  BY DEF SubmitQuery, Prepared, HistoryOK, TypeOK
<1>3. UiOK'
  BY Parts DEF SubmitQuery, Prepared, Proceeds, Responds, UiOK
<1>4. GhostsOK'
  <2>1. overtaken' \in BOOLEAN
    BY Parts DEF SubmitQuery, Prepared, Overtakes, GhostsOK
  <2> QED BY <2>1, Parts DEF SubmitQuery, Prepared, GhostsOK
<1> QED BY <1>1, <1>2, <1>3, <1>4 DEF TypeOK, QueriesOK, HistoryOK, UiOK, GhostsOK

\* What a shell command and a skill put in the history.
LEMMA AsideHistory ==
  ASSUME TypeOK, NEW q \in Queries, ShellEnds(q) \/ SkillEnds(q)
  PROVE /\ history' \in Seq(Entry)
        /\ \/ history' = history
           \/ ShellEnds(q) /\ history' = Append(history, Item("user", q))
           \/ /\ SkillEnds(q)
              /\ history' = Append(Append(history, Item("call", 0)), Item("response", 0))
<1>1. history \in Seq(Entry)
  BY DEF TypeOK
<1>2. Item("user", q) \in Entry /\ Item("call", 0) \in Entry /\ Item("response", 0) \in Entry
  BY ItemTyped
<1>3. /\ Append(history, Item("user", q)) \in Seq(Entry)
      /\ Append(Append(history, Item("call", 0)), Item("response", 0)) \in Seq(Entry)
  BY <1>1, <1>2, AppendProperties
<1>4. history \o <<Item("call", 0), Item("response", 0)>>
        = Append(Append(history, Item("call", 0)), Item("response", 0))
  BY <1>1, <1>2
<1>5. CASE ShellEnds(q)
  BY <1>1, <1>3, <1>5 DEF ShellEnds
<1>6. CASE SkillEnds(q)
  <2>1. history' = history \/ history' = history \o <<Item("call", 0), Item("response", 0)>>
    BY <1>6 DEF SkillEnds
  <2> QED BY <1>1, <1>3, <1>4, <1>6, <2>1
<1> QED BY <1>5, <1>6

LEMMA AsideTyped ==
  ASSUME TypeOK, NEW q \in Queries, ShellEnds(q) \/ SkillEnds(q)
  PROVE TypeOK'
<1>1. QueriesOK'
  BY OneStepped, OneEnds DEF ShellEnds, SkillEnds, Proceeds, Pcs
<1>2. HistoryOK'
  BY AsideHistory, Parts DEF ShellEnds, SkillEnds, HistoryOK
<1>3. UiOK'
  BY Parts DEF ShellEnds, SkillEnds, Proceeds, Responds, UiOK
<1>4. GhostsOK'
  <2>1. overtaken' \in BOOLEAN
    BY DEF ShellEnds, SkillEnds, Overtakes
  <2> QED BY <2>1, Parts DEF ShellEnds, SkillEnds, GhostsOK
<1> QED BY <1>1, <1>2, <1>3, <1>4 DEF TypeOK, QueriesOK, HistoryOK, UiOK, GhostsOK

LEMMA CancelTyped ==
  ASSUME TypeOK, Cancel
  PROVE TypeOK'
<1>1. \A q \in Queries :
        query'[q] \in Query /\ query'[q].answers < q /\ query'[q].chat <= chat'
  <2> TAKE q \in Queries
  <2>1. query[q] \in Query /\ query[q].answers < q /\ query[q].chat <= chat
    BY DEF TypeOK
  <2> DEFINE b == query[q].aborted \/ (q = current /\ q \in Active) \/ query[q].pc = "tools"
  <2>2. b \in BOOLEAN
    OBVIOUS
  <2>3. query'[q] = [query[q] EXCEPT !.aborted = b] /\ chat' = chat
    BY DEF Cancel
  <2> HIDE DEF b
  <2> QED BY <2>1, <2>2, <2>3 DEF Query
<1>2. query' \in [Queries -> Query]
  BY <1>1 DEF Cancel
<1>3. UiOK'
  BY Parts DEF Cancel, UiOK
<1>4. GhostsOK' /\ HistoryOK'
  BY Parts DEF Cancel, GhostsOK, HistoryOK, ghosts
<1> QED BY <1>1, <1>2, <1>3, <1>4 DEF TypeOK, QueriesOK, HistoryOK, UiOK, GhostsOK

\* What an event of the stream does to the UI.
LEMMA EventTyped ==
  ASSUME TypeOK, NEW q \in Queries, UserCancelled(q) \/ Clears \/ UNCHANGED <<responding, dimmed>>
  PROVE responding' \in BOOLEAN /\ dimmed' \in BOOLEAN
BY DEF UserCancelled, Clears, TypeOK

LEMMA StopTyped ==
  ASSUME TypeOK, NEW q \in Queries, Limit(q) \/ Thrown(q) \/ HookStops(q)
  PROVE TypeOK'
<1>0. query[q] \in Query /\ chat' = chat /\ lock' = lock
  BY DEF TypeOK, Limit, Thrown, HookStops, Unsent
<1>1. query' = [query EXCEPT ![q] = Processing(q)]
  BY DEF Limit, Thrown, HookStops, Unsent
<1>2. QueriesOK'
  BY <1>0, <1>1, OneEnds
<1>3. responding' \in BOOLEAN /\ dimmed' \in BOOLEAN
  BY EventTyped DEF Limit, Thrown, HookStops
<1>4. UiOK'
  BY <1>3, Parts DEF Limit, Thrown, HookStops, Unsent, UiOK
<1>5. HistoryOK' /\ GhostsOK'
  <2>1. CASE Limit(q) \/ Thrown(q)
    BY <1>0, <2>1, Parts DEF Limit, Thrown, Unsent, HistoryOK, GhostsOK, Query
  <2>2. CASE HookStops(q)
    <3>1. Append(history, Message(q)) \in Seq(Entry)
      BY MessageTyped, AppendProperties DEF TypeOK
    <3>2. Recorded(q) /\ history' = Append(history, Message(q))
      BY <2>2 DEF HookStops
    <3> QED BY <1>0, <3>1, <3>2, RecordedTyped, Parts DEF HistoryOK, GhostsOK
  <2> QED BY <2>1, <2>2
<1> QED BY <1>2, <1>4, <1>5 DEF TypeOK, QueriesOK, HistoryOK, UiOK, GhostsOK

LEMMA TurnTyped ==
  ASSUME TypeOK, NEW q \in Queries, BeginCompress(q) \/ EndCompress(q)
  PROVE TypeOK'
<1>0. query[q] \in Query /\ query[q].answers < q /\ query[q].chat <= chat /\ chat \in Nat
  BY ConversationAssumption DEF TypeOK
<1>2. CASE BeginCompress(q)
  <2> DEFINE r == [query[q] EXCEPT !.pc = "compress", !.snapshot = history,
                                  !.forced = (query[q].pc = "send")]
  <2>1. r \in Query /\ r.answers = query[q].answers /\ r.chat = query[q].chat
    BY <1>0 DEF Query, TypeOK
  <2>2. query' = [query EXCEPT ![q] = r] /\ chat' = chat
    BY <1>2 DEF BeginCompress, TypeOK
  <2> HIDE DEF r
  <2>3. QueriesOK'
    <3>1. r.answers < q /\ r.chat <= chat' /\ chat' \in Nat /\ chat <= chat'
      BY <1>0, <2>1, <2>2
    <3> QED BY <2>1, <2>2, <3>1, OneReplaced
  <2> QED BY <1>2, <2>3, Parts
          DEF BeginCompress, ui, ghosts, TypeOK, QueriesOK, HistoryOK, UiOK, GhostsOK
<1>3. CASE EndCompress(q)
  <2> DEFINE r == [query[q] EXCEPT !.pc = "send", !.snapshot = <<>>]
  <2>1. r \in Query /\ r.answers = query[q].answers /\ r.chat = query[q].chat
    BY <1>0, EmptySeq DEF Query
  <2>2. query' = [query EXCEPT ![q] = r]
    BY <1>3 DEF EndCompress, TypeOK
  <2>3. chat' \in 0..MaxCompressions /\ chat <= chat' /\ chat' \in Nat
    BY <1>0, <1>3, ConversationAssumption DEF EndCompress, TypeOK
  <2> HIDE DEF r
  <2>4. query[q].chat \in Nat
    BY <1>0, ConversationAssumption DEF Query
  <2>5. QueriesOK'
    <3>1. r.answers < q /\ r.chat <= chat'
      BY <1>0, <2>1, <2>3, <2>4
    <3> QED BY <2>1, <2>2, <2>3, <3>1, OneReplaced
  <2>6. history' \in Seq(Entry) /\ lock' \in Queries \cup {0}
    <3>1. query[q].snapshot \in Seq(Entry)
      BY <1>0 DEF Query
    <3> QED BY <1>3, <3>1, CompressedTyped DEF EndCompress, TypeOK
  <2>7. GhostsOK'
    <3>1. overtaken' \in BOOLEAN
      BY <1>3 DEF EndCompress, Overtakes
    <3> QED BY <1>3, <3>1, Parts DEF EndCompress, GhostsOK
  <2>8. UiOK'
    BY <1>3, Parts DEF EndCompress, UiOK, ui
  <2> QED BY <2>3, <2>5, <2>6, <2>7, <2>8 DEF TypeOK, QueriesOK, UiOK, GhostsOK
<1> QED BY <1>2, <1>3

LEMMA LoopTyped ==
  ASSUME TypeOK, NEW q \in Queries, LoopBeforeSend(q)
  PROVE TypeOK'
<1>1. QueriesOK'
  BY OneEnds DEF LoopBeforeSend
<1>2. HistoryOK'
  <2> DEFINE a == query[q].answers
  <2>1. a \in Queries \cup {0}
    BY DEF TypeOK, Query
  <2>2. PICK h \in WithContext :
          history' = IF a # 0 THEN Append(h, Item("response", a)) ELSE h
    BY DEF LoopBeforeSend
  <2>3. h \in Seq(Entry) /\ Item("response", a) \in Entry
    BY <2>1, ContextTyped, ItemTyped
  <2> HIDE DEF a
  <2>4. history' \in Seq(Entry)
    BY <2>2, <2>3, AppendProperties
  <2> QED BY <2>4 DEF LoopBeforeSend, HistoryOK, TypeOK
<1>3. GhostsOK'
  <2>1. Recorded(q)
    BY DEF LoopBeforeSend
  <2> QED BY <2>1, RecordedTyped, Parts DEF GhostsOK
<1> QED BY <1>1, <1>2, <1>3, Parts
    DEF LoopBeforeSend, ui, TypeOK, QueriesOK, HistoryOK, UiOK, GhostsOK

LEMMA SendTyped ==
  ASSUME TypeOK, NEW q \in Queries, Send(q) \/ Wait(q) \/ Enter(q)
  PROVE TypeOK'
<1>0. /\ query[q] \in Query /\ query[q].answers < q /\ query[q].chat <= chat
      /\ chat \in Nat /\ chat \in 0..MaxCompressions /\ history \in Seq(Entry)
      /\ lock \in Queries \cup {0}
  BY ConversationAssumption DEF TypeOK
<1>1. CASE Send(q)
  <2>1. PICK h \in WithContext :
          /\ query' = [query EXCEPT ![q].pc = "request", ![q].forced = FALSE,
                                    ![q].chat = chat, ![q].before = Len(h)]
          /\ Locks(q, h, TRUE)
    BY <1>1 DEF Send
  <2>2. h \in Seq(Entry)
    BY ContextTyped
  <2> DEFINE r == [query[q] EXCEPT !.pc = "request", !.forced = FALSE,
                                     !.chat = chat, !.before = Len(h)]
  <2>3. r \in Query /\ r.answers = query[q].answers /\ r.chat = chat
    <3>1. Len(h) \in Nat
      BY <2>2
    <3> QED BY <1>0, <3>1 DEF Query
  <2>4. query' = [query EXCEPT ![q] = r] /\ chat' = chat
    BY <1>1, <2>1 DEF Send, TypeOK
  <2> HIDE DEF r
  <2>5. QueriesOK'
    <3>1. r.answers < q /\ r.chat <= chat' /\ chat' \in Nat /\ chat <= chat'
      BY <1>0, <2>3, <2>4
    <3> QED BY <2>3, <2>4, <3>1, OneReplaced
  <2>6. history' \in Seq(Entry) /\ lock' \in Queries \cup {0}
    BY <2>1, <2>2, LocksTyped
  <2>7. GhostsOK'
    <3>1. Recorded(q)
      BY <1>1 DEF Send
    <3> QED BY <3>1, RecordedTyped, Parts DEF GhostsOK
  <2>8. UiOK' /\ HistoryOK'
    BY <1>0, <1>1, <2>4, <2>6, Parts DEF Send, UiOK, HistoryOK, ui
  <2> QED BY <2>5, <2>7, <2>8 DEF TypeOK, QueriesOK, UiOK, GhostsOK, HistoryOK
<1>2. CASE Wait(q)
  <2> DEFINE r == [query[q] EXCEPT !.pc = "lock", !.forced = FALSE,
                                     !.chat = chat, !.awaits = lock]
  <2>1. r \in Query /\ r.answers = query[q].answers /\ r.chat = chat
    BY <1>0 DEF Query
  <2>2. query' = [query EXCEPT ![q] = r] /\ chat' = chat
    BY <1>2 DEF Wait, TypeOK
  <2> HIDE DEF r
  <2>3. QueriesOK'
    <3>1. r.answers < q /\ r.chat <= chat' /\ chat' \in Nat /\ chat <= chat'
      BY <1>0, <2>1, <2>2
    <3> QED BY <2>1, <2>2, <3>1, OneReplaced
  <2>4. history' \in Seq(Entry)
    <3>1. PICK h \in WithContext : history' = h
      BY <1>2 DEF Wait
    <3> QED BY <3>1, ContextTyped
  <2> QED BY <1>2, <2>3, <2>4, Parts
          DEF Wait, ui, ghosts, TypeOK, QueriesOK, HistoryOK, UiOK, GhostsOK
<1>3. CASE Enter(q)
  <2> DEFINE r == [query[q] EXCEPT !.pc = "request", !.before = Len(history)]
  <2>1. r \in Query /\ r.answers = query[q].answers /\ r.chat = query[q].chat
    <3>1. Len(history) \in Nat
      BY <1>0
    <3> QED BY <1>0, <3>1 DEF Query
  <2>2. query' = [query EXCEPT ![q] = r] /\ chat' = chat
    BY <1>3 DEF Enter, TypeOK
  <2> HIDE DEF r
  <2>3. QueriesOK'
    <3>1. r.answers < q /\ r.chat <= chat' /\ chat' \in Nat /\ chat <= chat'
      BY <1>0, <2>1, <2>2
    <3> QED BY <2>1, <2>2, <3>1, OneReplaced
  <2>4. history' \in Seq(Entry) /\ lock' \in Queries \cup {0}
    BY <1>0, <1>3, LocksTyped DEF Enter
  <2>5. GhostsOK'
    <3>1. Recorded(q)
      BY <1>3 DEF Enter
    <3> QED BY <3>1, RecordedTyped, Parts DEF GhostsOK
  <2> QED BY <1>0, <1>3, <2>2, <2>3, <2>4, <2>5, Parts
          DEF Enter, ui, TypeOK, QueriesOK, HistoryOK, UiOK, GhostsOK
<1> QED BY <1>1, <1>2, <1>3

LEMMA DiscardsTyped ==
  ASSUME TypeOK, NEW q \in Queries, Discards(q)
  PROVE GhostsOK'
BY Parts DEF Discards, GhostsOK

\* A stream is over, or is begun again.
LEMMA StreamTyped ==
  ASSUME TypeOK, NEW q \in Queries,
         Connect(q) \/ StreamCall(q) \/ StreamEnds(q) \/ StreamFails(q) \/ StreamLeft(q)
  PROVE TypeOK'
<1>0. /\ query[q] \in Query /\ query[q].answers < q /\ query[q].chat <= chat
      /\ chat \in Nat /\ chat \in 0..MaxCompressions /\ history \in Seq(Entry)
      /\ lock \in Queries \cup {0}
  BY ConversationAssumption DEF TypeOK
<1>1. chat' = chat
  BY DEF Connect, StreamCall, StreamEnds, StreamFails, StreamLeft
<1>2. UiOK'
  <2>1. responding' \in BOOLEAN /\ dimmed' \in BOOLEAN
    BY EventTyped DEF Connect, StreamCall, StreamEnds, StreamFails, StreamLeft, ReaderLeaves,
                      LoopInStream, ui
  <2> QED BY <2>1, Parts
          DEF Connect, StreamCall, StreamEnds, StreamFails, StreamLeft, UiOK, ui
<1>3. GhostsOK'
  BY DiscardsTyped, Parts
     DEF Connect, StreamCall, StreamEnds, StreamFails, StreamLeft, GhostsOK, ghosts
<1>4. history' \in Seq(Entry)
  <2>1. Append(history, Item(IF query[q].seen THEN "call" ELSE "model", q)) \in Seq(Entry)
    BY <1>0, ItemTyped, AppendProperties
  <2> QED BY <1>0, <2>1, RolledBackTyped
          DEF Connect, StreamCall, StreamEnds, StreamFails, StreamLeft
<1>5. ASSUME NEW r \in {Processing(q), Asking(q), Recovered(q)}, Over(q, r)
      PROVE QueriesOK' /\ lock' \in Queries \cup {0}
  <2>1. r \in Query /\ r.answers = 0 /\ r.chat = 0
    BY RecordsTyped
  <2> QED BY <1>1, <1>5, <2>1, OverTyped DEF QueriesOK
<1>6. QueriesOK' /\ lock' \in Queries \cup {0}
  <2>1. CASE Connect(q)
    <3>1. CASE query' = [query EXCEPT ![q].pc = "stream"] /\ lock' = lock
      BY <1>0, <1>1, <3>1, OneStepped DEF Pcs
    <3> QED BY <1>5, <2>1, <3>1 DEF Connect
  <2>2. CASE StreamCall(q)
    <3> DEFINE r == [query[q] EXCEPT !.calls = TRUE, !.seen = TRUE]
    <3>1. r \in Query /\ r.answers = query[q].answers /\ r.chat = query[q].chat
      BY <1>0 DEF Query
    <3>2. query' = [query EXCEPT ![q] = r]
      BY <2>2 DEF StreamCall, TypeOK
    <3> HIDE DEF r
    <3>3. r.answers < q /\ r.chat <= chat' /\ chat' \in Nat /\ chat <= chat'
      BY <1>0, <1>1, <3>1
    <3>4. QueriesOK'
      BY <3>1, <3>2, <3>3, OneReplaced
    <3> QED BY <1>0, <2>2, <3>4 DEF StreamCall
  <2>3. CASE StreamEnds(q)
    BY <1>5, <2>3 DEF StreamEnds
  <2>4. CASE StreamFails(q)
    <3>1. CASE /\ AttemptsLeft(q) /\ lock' = lock
               /\ query' = [query EXCEPT ![q].pc = "request", ![q].seen = FALSE,
                                         ![q].attempt = @ + 1]
      <4> DEFINE r == [query[q] EXCEPT !.pc = "request", !.seen = FALSE, !.attempt = @ + 1]
      <4>1. query[q].attempt + 1 \in 1..MaxAttempts
        BY <1>0, <3>1, ConversationAssumption DEF AttemptsLeft, Query
      <4>2. r \in Query /\ r.answers = query[q].answers /\ r.chat = query[q].chat
        BY <1>0, <4>1 DEF Query
      <4>3. query' = [query EXCEPT ![q] = r]
        BY <3>1 DEF TypeOK
      <4> HIDE DEF r
      <4>4. r.answers < q /\ r.chat <= chat' /\ chat' \in Nat /\ chat <= chat'
        BY <1>0, <1>1, <4>2
      <4>5. QueriesOK'
        BY <4>2, <4>3, <4>4, OneReplaced
      <4> QED BY <1>0, <3>1, <4>5
    <3> QED BY <1>5, <2>4, <3>1 DEF StreamFails
  <2>5. CASE StreamLeft(q)
    BY <1>5, <2>5 DEF StreamLeft, ReaderLeaves, LoopInStream
  <2> QED BY <2>1, <2>2, <2>3, <2>4, <2>5
<1> QED BY <1>0, <1>1, <1>2, <1>3, <1>4, <1>6 DEF TypeOK, QueriesOK, UiOK, GhostsOK

LEMMA BatchTyped ==
  ASSUME TypeOK, NEW q \in Queries, Processed(q) \/ RecordResults(q) \/ StopExecution(q)
  PROVE TypeOK'
<1>1. QueriesOK'
  BY OneStepped, OneEnds DEF Processed, RecordResults, StopExecution, Pcs
<1>2. HistoryOK'
  <2>1. Append(history, Item("response", q)) \in Seq(Entry)
    BY ItemTyped, AppendProperties DEF TypeOK
  <2> QED BY <2>1 DEF Processed, RecordResults, StopExecution, HistoryOK, TypeOK
<1>3. UiOK'
  BY Parts DEF Processed, RecordResults, StopExecution, UiOK, Rest
<1>4. GhostsOK'
  <2>1. CASE RecordResults(q)
    <3>1. reported' \in [Queries -> Nat]
      BY <2>1 DEF RecordResults, Reports, TypeOK
    <3>2. overtaken' \in BOOLEAN
      BY <2>1 DEF RecordResults, Overtakes
    <3> QED BY <2>1, <3>1, <3>2, Parts DEF RecordResults, GhostsOK
  <2>2. CASE Processed(q) \/ StopExecution(q)
    BY <2>2, Parts DEF Processed, StopExecution, GhostsOK, ghosts
  <2> QED BY <2>1, <2>2
<1> QED BY <1>1, <1>2, <1>3, <1>4 DEF TypeOK, QueriesOK, HistoryOK, UiOK, GhostsOK

(***************************************************************************)
(* What a step does to the query that takes it, and to the others.         *)
(***************************************************************************)
Turns(q) ==
  \/ Limit(q) \/ BeginCompress(q) \/ EndCompress(q) \/ Send(q) \/ Wait(q) \/ LoopBeforeSend(q)
  \/ Enter(q) \/ Thrown(q) \/ HookStops(q)
Asides(q) == Prepared(q) \/ ShellEnds(q) \/ SkillEnds(q)
Streams(q) == Connect(q) \/ StreamCall(q) \/ StreamEnds(q) \/ StreamFails(q) \/ StreamLeft(q)
Ends(q) == Processed(q) \/ RecordResults(q) \/ StopExecution(q)

LEMMA OthersStay ==
  ASSUME TypeOK, NEW q \in Queries,
         SubmitQuery(q) \/ Asides(q) \/ Turns(q) \/ Streams(q) \/ Ends(q),
         NEW p \in Queries, p # q
  PROVE /\ query'[p].pc = query[p].pc /\ query'[p].answers = query[p].answers
        /\ query'[p].aborted = query[p].aborted
<1>1. query[p] \in Query /\ query \in [Queries -> Query]
  BY DEF TypeOK
<1>2. CASE query'[p] = query[p]
  BY <1>2
<1>3. CASE query'[p] = [query[p] EXCEPT !.awaits = IF query[p].awaits = q THEN 0
                                                  ELSE query[p].awaits]
  BY <1>1, <1>3 DEF Query
<1>4. CASE SubmitQuery(q) \/ Asides(q)
  BY <1>1, <1>2, <1>4 DEF SubmitQuery, Asides, Prepared, ShellEnds, SkillEnds, Proceeds
<1>5. CASE Turns(q)
  BY <1>1, <1>2, <1>5
     DEF Turns, Limit, Thrown, HookStops, Unsent, BeginCompress, EndCompress, Send, Wait,
         LoopBeforeSend, Enter
<1>6. CASE Streams(q)
  <2>1. query'[p] = query[p] \/ \E r : Over(q, r)
    BY <1>1, <1>6 DEF Streams, Connect, StreamCall, StreamEnds, StreamFails, StreamLeft,
                      ReaderLeaves, LoopInStream
  <2> QED BY <1>2, <1>3, <2>1 DEF Over
<1>7. CASE Ends(q)
  BY <1>1, <1>2, <1>7 DEF Ends, Processed, RecordResults, StopExecution
<1> QED BY <1>4, <1>5, <1>6, <1>7

\* What a query is replaced with, seen from outside.
LEMMA Replacements ==
  ASSUME TypeOK, NEW q \in Queries
  PROVE /\ Ended(q).pc = "ended"
        /\ Processing(q).pc = "processed" /\ Processing(q).aborted = query[q].aborted
        /\ Asking(q).pc = "processed" /\ Asking(q).aborted = query[q].aborted
        /\ Recovered(q).pc = "turn" /\ Recovered(q).aborted = query[q].aborted
<1>1. query[q] \in Query
  BY DEF TypeOK
<1> QED BY <1>1 DEF Ended, Fresh, Processing, Asking, Recovered, Query

LEMMA TurnSteps ==
  ASSUME TypeOK, NEW q \in Queries, Turns(q)
  PROVE /\ query[q].pc \in {"turn", "compress", "send", "lock"}
        /\ query'[q].pc \in {"turn", "compress", "send", "lock", "request", "processed"}
        /\ query'[q].aborted = query[q].aborted
        /\ query'[q].answers = query[q].answers \/ query'[q].answers = 0
<1>1. query[q] \in Query /\ query \in [Queries -> Query]
  BY DEF TypeOK
<1>2. CASE Limit(q) \/ Thrown(q) \/ HookStops(q)
  <2>1. query'[q] = Processing(q) /\ query[q].pc \in {"turn", "compress", "send"}
    BY <1>1, <1>2 DEF Limit, Thrown, HookStops, Unsent
  <2> QED BY <2>1, Replacements, RecordsTyped
<1>3. CASE BeginCompress(q)
  <2>1. query'[q] = [query[q] EXCEPT !.pc = "compress", !.snapshot = history,
                                     !.forced = (query[q].pc = "send")]
    BY <1>1, <1>3 DEF BeginCompress
  <2> QED BY <1>1, <1>3, <2>1 DEF BeginCompress, Query
<1>4. CASE EndCompress(q)
  <2>1. query'[q] = [query[q] EXCEPT !.pc = "send", !.snapshot = <<>>]
    BY <1>1, <1>4 DEF EndCompress
  <2> QED BY <1>1, <1>4, <2>1 DEF EndCompress, Query
<1>5. CASE Send(q)
  <2>1. PICK h \in WithContext :
          query'[q] = [query[q] EXCEPT !.pc = "request", !.forced = FALSE,
                                     !.chat = chat, !.before = Len(h)]
    BY <1>1, <1>5 DEF Send
  <2> QED BY <1>1, <1>5, <2>1 DEF Send, Query
<1>6. CASE Wait(q)
  <2>1. query'[q] = [query[q] EXCEPT !.pc = "lock", !.forced = FALSE,
                                     !.chat = chat, !.awaits = lock]
    BY <1>1, <1>6 DEF Wait
  <2> QED BY <1>1, <1>6, <2>1 DEF Wait, Query
<1>7. CASE Enter(q)
  <2>1. query'[q] = [query[q] EXCEPT !.pc = "request", !.before = Len(history)]
    BY <1>1, <1>7 DEF Enter
  <2> QED BY <1>1, <1>7, <2>1 DEF Enter, Woken, Waiting, Query
<1>8. CASE LoopBeforeSend(q)
  <2>1. query'[q] \in {Asking(q), Recovered(q)} /\ query[q].pc \in {"turn", "send"}
    BY <1>1, <1>8 DEF LoopBeforeSend
  <2> QED BY <2>1, Replacements, RecordsTyped
<1> QED BY <1>2, <1>3, <1>4, <1>5, <1>6, <1>7, <1>8 DEF Turns

\* What records the message has no more of it to send.
LEMMA RecordSteps ==
  ASSUME TypeOK, NEW q \in Queries, Send(q) \/ Enter(q) \/ LoopBeforeSend(q) \/ HookStops(q)
  PROVE query'[q].pc = "request" \/ query'[q].answers = 0
<1>1. query[q] \in Query /\ query \in [Queries -> Query]
  BY DEF TypeOK
<1>2. CASE Send(q)
  <2>1. PICK h \in WithContext :
          query'[q] = [query[q] EXCEPT !.pc = "request", !.forced = FALSE,
                                     !.chat = chat, !.before = Len(h)]
    BY <1>1, <1>2 DEF Send
  <2> QED BY <1>1, <2>1 DEF Query
<1>3. CASE Enter(q)
  <2>1. query'[q] = [query[q] EXCEPT !.pc = "request", !.before = Len(history)]
    BY <1>1, <1>3 DEF Enter
  <2> QED BY <1>1, <2>1 DEF Query
<1>4. CASE LoopBeforeSend(q)
  <2>1. query'[q] \in {Asking(q), Recovered(q)}
    BY <1>1, <1>4 DEF LoopBeforeSend
  <2> QED BY <2>1, RecordsTyped
<1>5. CASE HookStops(q)
  <2>1. query'[q] = Processing(q)
    BY <1>1, <1>5 DEF HookStops
  <2> QED BY <2>1, RecordsTyped
<1> QED BY <1>2, <1>3, <1>4, <1>5

LEMMA StreamSteps ==
  ASSUME TypeOK, NEW q \in Queries, Streams(q)
  PROVE /\ query[q].pc \in {"request", "stream"}
        /\ query'[q].pc \in {"request", "stream", "processed", "turn"}
        /\ query'[q].aborted = query[q].aborted
        /\ \/ query'[q].answers = query[q].answers /\ query'[q].pc \in {"request", "stream"}
           \/ query'[q].answers = 0
<1>1. query[q] \in Query /\ query \in [Queries -> Query]
  BY DEF TypeOK
<1>2. query[q].pc \in {"request", "stream"}
  BY DEF Streams, Connect, StreamCall, StreamEnds, StreamFails, StreamLeft, ReaderLeaves,
         LoopInStream, Streaming
<1>3. ASSUME NEW r \in {Processing(q), Asking(q), Recovered(q)}, Over(q, r)
      PROVE /\ query'[q].pc \in {"processed", "turn"} /\ query'[q].answers = 0
            /\ query'[q].aborted = query[q].aborted
  <2>1. query'[q] = r
    BY <1>3 DEF Over
  <2> QED BY <2>1, Replacements, RecordsTyped
<1>4. \/ \E r \in {Processing(q), Asking(q), Recovered(q)} : Over(q, r)
      \/ query'[q] = [query[q] EXCEPT !.pc = "stream"]
      \/ query'[q] = [query[q] EXCEPT !.calls = TRUE, !.seen = TRUE]
      \/ query'[q] = [query[q] EXCEPT !.pc = "request", !.seen = FALSE, !.attempt = @ + 1]
  <2>1. CASE Connect(q)
    BY <1>1, <2>1 DEF Connect
  <2>2. CASE StreamCall(q)
    BY <1>1, <2>2 DEF StreamCall
  <2>3. CASE StreamFails(q)
    BY <1>1, <2>3 DEF StreamFails
  <2>4. CASE StreamEnds(q) \/ StreamLeft(q)
    BY <2>4 DEF StreamEnds, StreamLeft, ReaderLeaves, LoopInStream
  <2> QED BY <2>1, <2>2, <2>3, <2>4 DEF Streams
<1>5. CASE query'[q] = [query[q] EXCEPT !.pc = "stream"]
  BY <1>1, <1>2, <1>5 DEF Query
<1>6. CASE query'[q] = [query[q] EXCEPT !.calls = TRUE, !.seen = TRUE]
  BY <1>1, <1>2, <1>6 DEF Query
<1>7. CASE query'[q] = [query[q] EXCEPT !.pc = "request", !.seen = FALSE, !.attempt = @ + 1]
  BY <1>1, <1>2, <1>7 DEF Query
<1> QED BY <1>2, <1>3, <1>4, <1>5, <1>6, <1>7

LEMMA EndSteps ==
  ASSUME TypeOK, NEW q \in Queries, Ends(q)
  PROVE \/ /\ query[q].pc = "processed" /\ query'[q].pc = "tools" /\ Processed(q)
           /\ query'[q].aborted = query[q].aborted /\ query'[q].answers = query[q].answers
        \/ /\ query[q].pc \in {"processed", "tools"} /\ query'[q].pc = "ended"
           /\ query'[q].answers = 0
<1>1. query[q] \in Query /\ query \in [Queries -> Query]
  BY DEF TypeOK
<1>2. CASE query'[q] = Ended(q)
  <2>1. query[q].pc \in {"processed", "tools"}
    BY DEF Ends, Processed, RecordResults, StopExecution
  <2> QED BY <1>2, <2>1, Replacements, RecordsTyped
<1>3. CASE Processed(q) /\ query' = [query EXCEPT ![q].pc = "tools"]
  BY <1>1, <1>3 DEF Processed, Query
<1> QED BY <1>1, <1>2, <1>3 DEF Ends, Processed, RecordResults, StopExecution

LEMMA SubmitSteps ==
  ASSUME TypeOK, NEW q \in Queries, SubmitQuery(q)
  PROVE /\ query[q].pc = "new" /\ query'[q].pc = "prepare"
        /\ query'[q].answers = query[q].answers
<1>1. query[q] \in Query /\ query \in [Queries -> Query]
  BY DEF TypeOK
<1> QED BY <1>1 DEF SubmitQuery, Unused, Query

\* Before a prompt goes to the model: what the user has asked for is done.
LEMMA AsideSteps ==
  ASSUME TypeOK, NEW q \in Queries, Asides(q)
  PROVE /\ query[q].pc \in {"prepare", "skill", "shell"}
        /\ \/ /\ query'[q].pc = "turn" /\ query'[q].answers = query[q].answers
              /\ query'[q].aborted = query[q].aborted
              /\ responding' = TRUE /\ Overtakes(q)
           \/ /\ query'[q].pc = "shell" /\ query'[q].answers = query[q].answers
              /\ query'[q].aborted = query[q].aborted
              /\ responding' = TRUE /\ Overtakes(q)
           \/ /\ query'[q].pc = "skill" /\ query'[q].answers = query[q].answers
              /\ query'[q].aborted = query[q].aborted /\ query[q].pc = "prepare"
              /\ responding' = responding /\ dimmed' = dimmed /\ overtaken' = overtaken
           \/ /\ query'[q].pc = "ended" /\ query'[q].answers = 0
              /\ dimmed' = dimmed
              /\ \/ /\ query[q].pc = "prepare"
                    /\ responding' = responding /\ overtaken' = overtaken
                 \/ /\ query[q].pc = "shell" /\ responding' = FALSE /\ Overtakes(q)
                 \/ /\ query[q].pc = "skill" /\ Overtakes(q)
                    /\ responding' = (responding /\ ~cancelled)
<1>1. query[q] \in Query /\ query \in [Queries -> Query]
  BY DEF TypeOK
<1>2. Ended(q).pc = "ended" /\ Ended(q).answers = 0
  BY Replacements, RecordsTyped
<1>3. CASE Prepared(q)
  <2>1. CASE Proceeds(q) /\ Overtakes(q)
    BY <1>1, <1>3, <2>1 DEF Prepared, Proceeds, Responds, Query
  <2>2. CASE query' = [query EXCEPT ![q] = Ended(q)] /\ UNCHANGED <<responding, dimmed, overtaken>>
    BY <1>1, <1>2, <1>3, <2>2 DEF Prepared
  <2>3. CASE query' = [query EXCEPT ![q].pc = "shell"] /\ Responds /\ Overtakes(q)
    BY <1>1, <1>3, <2>3 DEF Prepared, Responds, Query
  <2>4. CASE /\ query' = [query EXCEPT ![q].pc = "skill"]
             /\ UNCHANGED <<responding, dimmed, overtaken>>
    BY <1>1, <1>3, <2>4 DEF Prepared, Query
  <2> QED BY <1>3, <2>1, <2>2, <2>3, <2>4 DEF Prepared
<1>4. CASE ShellEnds(q)
  <2>1. query'[q] = Ended(q) /\ query[q].pc = "shell"
    BY <1>1, <1>4 DEF ShellEnds
  <2> QED BY <1>2, <1>4, <2>1 DEF ShellEnds
<1>5. CASE SkillEnds(q)
  <2>1. CASE Proceeds(q)
    BY <1>1, <1>5, <2>1 DEF SkillEnds, Proceeds, Responds, Query
  <2>2. CASE query' = [query EXCEPT ![q] = Ended(q)]
             /\ responding' = (responding /\ ~cancelled) /\ dimmed' = dimmed
    <3>1. query'[q] = Ended(q) /\ query[q].pc = "skill"
      BY <1>1, <1>5, <2>2 DEF SkillEnds
    <3> QED BY <1>2, <1>5, <2>2, <3>1 DEF SkillEnds
  <2> QED BY <1>5, <2>1, <2>2 DEF SkillEnds
<1> QED BY <1>3, <1>4, <1>5 DEF Asides

(***************************************************************************)
(* The queries begin in their order, so a continuation comes after what it *)
(* continues.                                                              *)
(***************************************************************************)
LEMMA ContinueSteps ==
  ASSUME TypeOK, OrderInv, NEW q \in Queries, NEW c \in Queries, Continue(q, c)
  PROVE /\ q < c /\ q # c /\ query[q].pc = "tools" /\ query[c].pc = "new"
        /\ query'[q].pc = "ended" /\ query'[q].answers = 0
        /\ query'[c] = [query[c] EXCEPT !.pc = "turn", !.answers = q]
        /\ query'[c].pc = "turn" /\ query'[c].answers = q
        /\ query'[q] = Ended(q)
<1>1. query[c] \in Query /\ query \in [Queries -> Query]
  BY DEF TypeOK
<1>2. query[q].pc = "tools" /\ query[c].pc = "new" /\ q # c
  BY DEF Continue, Unused
<1>3. q < c
  <2>1. q \in Begun /\ c \notin Begun
    BY <1>2 DEF Begun
  <2>2. ~(c < q)
    BY <2>1 DEF OrderInv
  <2> QED BY <1>2, <2>2, QueriesTyped
<1>4. query'[q] = Ended(q) /\ query'[c] = [query[c] EXCEPT !.pc = "turn", !.answers = q]
  BY <1>1, <1>2 DEF Continue
<1>5. query'[q].pc = "ended" /\ query'[q].answers = 0
  BY <1>4, Replacements, RecordsTyped
<1>6. query'[c].pc = "turn" /\ query'[c].answers = q
  BY <1>1, <1>4 DEF Query
<1> QED BY <1>2, <1>3, <1>4, <1>5, <1>6

LEMMA AgainSteps ==
  ASSUME TypeOK, OrderInv, NEW q \in Queries, NEW c \in Queries, SendAgain(q, c)
  PROVE /\ last < c /\ q # c /\ query[q].pc = "ended" /\ query[c].pc = "new"
        /\ query'[q] = [query[q] EXCEPT !.asks = FALSE]
        /\ query'[c] = [query[c] EXCEPT !.pc = "turn", !.answers = last]
        /\ query'[q].pc = "ended" /\ query'[q].answers = query[q].answers
        /\ query'[c].pc = "turn" /\ query'[c].answers = last
<1>1. query[c] \in Query /\ query[q] \in Query /\ query \in [Queries -> Query]
  BY DEF TypeOK
<1>2. query[q].pc = "ended" /\ query[c].pc = "new" /\ q # c
  BY DEF SendAgain, Unused
<1>3. last < c
  <2>1. CASE last = 0
    BY <2>1, QueriesTyped, ConversationAssumption DEF Queries
  <2>2. CASE last # 0
    <3>1. last \in Begun /\ last \in Queries /\ c \notin Begun
      BY <1>2, <2>2 DEF OrderInv, Begun
    <3>2. ~(c < last)
      BY <3>1 DEF OrderInv
    <3> QED BY <3>1, <3>2, QueriesTyped
  <2> QED BY <2>1, <2>2
<1>4. /\ query'[q] = [query[q] EXCEPT !.asks = FALSE]
      /\ query'[c] = [query[c] EXCEPT !.pc = "turn", !.answers = last]
  BY <1>1, <1>2 DEF SendAgain
<1>5. query'[q].pc = "ended" /\ query'[q].answers = query[q].answers
  BY <1>1, <1>2, <1>4 DEF Query
<1>6. query'[c].pc = "turn" /\ query'[c].answers = last
  BY <1>1, <1>4 DEF Query
<1> QED BY <1>2, <1>3, <1>4, <1>5, <1>6

LEMMA BothStay ==
  ASSUME TypeOK, NEW q \in Queries, NEW c \in Queries, Continue(q, c) \/ SendAgain(q, c),
         NEW p \in Queries, p # q, p # c
  PROVE query'[p] = query[p]
BY DEF Continue, SendAgain, TypeOK

LEMMA ContinueTyped ==
  ASSUME TypeOK, OrderInv, NEW q \in Queries, NEW c \in Queries, Continue(q, c)
  PROVE TypeOK'
<1>1. \A p \in Queries : query[p] \in Query /\ query[p].answers < p /\ query[p].chat <= chat
  BY DEF TypeOK
<1>2. \A p \in Queries :
        query'[p] \in Query /\ query'[p].answers < p /\ query'[p].chat <= chat
  <2> TAKE p \in Queries
  <2>1. CASE p = q
    <3>1. query'[q] = Ended(q)
      BY ContinueSteps
    <3>2. Ended(q) \in Query /\ Ended(q).answers = 0 /\ Ended(q).chat = 0
      BY RecordsTyped
    <3>3. 0 < q /\ 0 <= chat
      BY ConversationAssumption DEF TypeOK, Queries
    <3> QED BY <2>1, <3>1, <3>2, <3>3
  <2>2. CASE p = c
    <3>1. query'[c] = [query[c] EXCEPT !.pc = "turn", !.answers = q] /\ q < c
      BY ContinueSteps
    <3>2. query[c] \in Query /\ query[c].chat <= chat
      BY <1>1
    <3> QED BY <2>2, <3>1, <3>2 DEF Query
  <2>3. CASE p \notin {q, c}
    <3>1. query'[p] = query[p]
      BY <2>3, BothStay
    <3> QED BY <1>1, <3>1
  <2> QED BY <2>1, <2>2, <2>3
<1>3. QueriesOK'
  <2>1. query' \in [Queries -> Query]
    BY <1>2 DEF Continue, TypeOK
  <2> QED BY <1>2, <2>1 DEF QueriesOK, Continue
<1>4. UiOK'
  BY Parts DEF Continue, Responds, UiOK
<1> QED BY <1>3, <1>4, Parts DEF Continue, ghosts, TypeOK, QueriesOK, HistoryOK, UiOK, GhostsOK

LEMMA AgainTyped ==
  ASSUME TypeOK, OrderInv, NEW q \in Queries, NEW c \in Queries, SendAgain(q, c)
  PROVE TypeOK'
<1>1. \A p \in Queries : query[p] \in Query /\ query[p].answers < p /\ query[p].chat <= chat
  BY DEF TypeOK
<1>2. \A p \in Queries :
        query'[p] \in Query /\ query'[p].answers < p /\ query'[p].chat <= chat
  <2> TAKE p \in Queries
  <2>1. CASE p = q
    <3>1. query'[q] = [query[q] EXCEPT !.asks = FALSE]
      BY AgainSteps
    <3>2. query[q] \in Query /\ query[q].answers < q /\ query[q].chat <= chat
      BY <1>1
    <3> QED BY <2>1, <3>1, <3>2 DEF Query
  <2>2. CASE p = c
    <3>1. query'[c] = [query[c] EXCEPT !.pc = "turn", !.answers = last] /\ last < c
      BY AgainSteps
    <3>2. query[c] \in Query /\ query[c].chat <= chat /\ last \in Queries \cup {0}
      BY <1>1 DEF TypeOK
    <3> QED BY <2>2, <3>1, <3>2 DEF Query
  <2>3. CASE p \notin {q, c}
    <3>1. query'[p] = query[p]
      BY <2>3, BothStay
    <3> QED BY <1>1, <3>1
  <2> QED BY <2>1, <2>2, <2>3
<1>3. QueriesOK'
  <2>1. query' \in [Queries -> Query]
    BY <1>2 DEF SendAgain, TypeOK
  <2> QED BY <1>2, <2>1 DEF QueriesOK, SendAgain
<1>4. UiOK' /\ GhostsOK'
  <2>1. last \in Queries \cup {0}
    BY DEF TypeOK
  <2> QED BY <2>1, Parts DEF SendAgain, Responds, UiOK, GhostsOK
<1> QED BY <1>3, <1>4, Parts DEF SendAgain, TypeOK, QueriesOK, HistoryOK, UiOK, GhostsOK

LEMMA OrderKept ==
  ASSUME TypeOK, OrderInv, Next
  PROVE OrderInv'
<1>1. ASSUME NEW q \in Queries, Unused(q), Begun' = Begun \cup {q}, last' \in Begun \cup {q, 0}
      PROVE OrderInv'
  BY <1>1, QueriesTyped DEF OrderInv, Unused, Begun, Queries
<1>2. ASSUME Begun' = Begun, last' \in Begun \cup {0}
      PROVE OrderInv'
  BY <1>2 DEF OrderInv
<1>3. CASE Cancel
  <2>1. \A q \in Queries : query'[q].pc = query[q].pc
    <3> TAKE q \in Queries
    <3>1. query[q] \in Query
      BY DEF TypeOK
    <3> QED BY <1>3, <3>1 DEF Cancel, Query
  <2> QED BY <1>2, <1>3, <2>1 DEF Cancel, OrderInv, Begun
<1>4. ASSUME NEW q \in Queries, SubmitQuery(q)
      PROVE OrderInv'
  <2>1. \A p \in Queries \ {q} : query'[p].pc = query[p].pc
    BY <1>4, OthersStay
  <2>2. query'[q].pc = "prepare" /\ query[q].pc = "new"
    BY <1>4, SubmitSteps
  <2>3. Begun' = Begun \cup {q}
    BY <2>1, <2>2 DEF Begun
  <2> QED BY <1>1, <1>4, <2>3 DEF SubmitQuery, OrderInv
<1>5. ASSUME NEW q \in Queries, Asides(q) \/ Turns(q) \/ Streams(q) \/ Ends(q)
      PROVE OrderInv'
  <2>1. \A p \in Queries \ {q} : query'[p].pc = query[p].pc
    BY <1>5, OthersStay
  <2>2. query'[q].pc # "new" /\ query[q].pc # "new"
    <3>1. CASE Asides(q)
      BY <3>1, AsideSteps
    <3>2. CASE Turns(q)
      BY <3>2, TurnSteps
    <3>3. CASE Streams(q)
      BY <3>3, StreamSteps
    <3>4. CASE Ends(q)
      BY <3>4, EndSteps
    <3> QED BY <1>5, <3>1, <3>2, <3>3, <3>4
  <2>3. Begun' = Begun
    BY <2>1, <2>2 DEF Begun
  <2>4. last' \in Begun \cup {0}
    BY <1>5
       DEF OrderInv, Asides, Prepared, ShellEnds, SkillEnds, Proceeds,
           Turns, Streams, Ends, Limit, Thrown, HookStops, Unsent, BeginCompress, EndCompress, Send,
           Wait, LoopBeforeSend, Enter, Connect, StreamCall, StreamEnds, StreamFails, StreamLeft,
           Processed, RecordResults, StopExecution, ui
  <2> QED BY <1>2, <2>3, <2>4
<1>6. ASSUME NEW q \in Queries, NEW c \in Queries, Continue(q, c)
      PROVE OrderInv'
  <2>1. /\ query[q].pc = "tools" /\ query'[q].pc = "ended"
        /\ query[c].pc = "new" /\ query'[c].pc = "turn"
    BY <1>6, ContinueSteps
  <2>2. \A p \in Queries \ {q, c} : query'[p] = query[p]
    BY <1>6, BothStay
  <2>3. Begun' = Begun \cup {c} /\ q \in Begun
    BY <2>1, <2>2 DEF Begun
  <2> QED BY <1>1, <1>6, <2>3 DEF Continue
<1>7. ASSUME NEW q \in Queries, NEW c \in Queries, SendAgain(q, c)
      PROVE OrderInv'
  <2>1. /\ query[q].pc = "ended" /\ query'[q].pc = "ended"
        /\ query[c].pc = "new" /\ query'[c].pc = "turn"
    BY <1>7, AgainSteps
  <2>2. \A p \in Queries \ {q, c} : query'[p] = query[p]
    BY <1>7, BothStay
  <2>3. Begun' = Begun \cup {c}
    BY <2>1, <2>2 DEF Begun
  <2> QED BY <1>1, <1>7, <2>3 DEF SendAgain, OrderInv
<1> QED BY <1>3, <1>4, <1>5, <1>6, <1>7 DEF Next, Asides, Turns, Streams, Ends

LEMMA TypesKept ==
  ASSUME TypeOK, OrderInv, Next
  PROVE TypeOK'
BY SubmitTyped, AsideTyped, CancelTyped, StopTyped, TurnTyped, LoopTyped, SendTyped,
   StreamTyped, BatchTyped,
   ContinueTyped, AgainTyped DEF Next

(***************************************************************************)
(* The UI says that it responds for the query that is under way.           *)
(***************************************************************************)
UnderWay == Pcs \ {"new", "prepare", "skill", "ended"}

LEMMA RestStays ==
  ASSUME RestInv, NEW q \in Queries, current' = current, overtaken => overtaken',
         UNCHANGED <<responding, dimmed>> \/ Clears,
         query[q].pc \in UnderWay, query'[q].pc \in UnderWay,
         query'[q].aborted = query[q].aborted,
         \A p \in Queries \ {q} :
           query'[p].pc = query[p].pc /\ query'[p].aborted = query[p].aborted
  PROVE RestInv'
<1>1. Active' = Active
  BY DEF Active, UnderWay
<1>2. \A p \in Queries : query'[p].aborted = query[p].aborted
  OBVIOUS
<1>3. \A p \in Queries :
        query'[p].pc \in {"prepare", "skill"} <=> query[p].pc \in {"prepare", "skill"}
  BY DEF UnderWay
<1>5. Active \subseteq Queries
  BY DEF Active
<1>6. CASE UNCHANGED <<responding, dimmed>>
  BY <1>1, <1>2, <1>3, <1>5, <1>6 DEF RestInv
<1>7. CASE Clears
  BY <1>1, <1>2, <1>3, <1>5, <1>7 DEF RestInv, Clears
<1> QED BY <1>6, <1>7

LEMMA RestTurns ==
  ASSUME TypeOK, RestInv, NEW q \in Queries, Turns(q) \/ Streams(q)
  PROVE RestInv'
<1>1. current' = current /\ (UNCHANGED <<responding, dimmed>> \/ Clears)
  <2>1. CASE Turns(q)
    BY <2>1
       DEF Turns, Limit, Thrown, HookStops, Unsent, UserCancelled, BeginCompress, EndCompress,
           Send, Wait, LoopBeforeSend, Enter, ui
  <2>2. CASE Streams(q)
    BY <2>2
       DEF Streams, Connect, StreamCall, StreamEnds, StreamFails, StreamLeft, ReaderLeaves,
           LoopInStream, UserCancelled, ui
  <2> QED BY <2>1, <2>2
<1>2. overtaken => overtaken'
  BY DEF Turns, Streams, Limit, Thrown, HookStops, Unsent, BeginCompress, EndCompress, Send,
         Wait, LoopBeforeSend, Enter, Connect, StreamCall, StreamEnds, StreamFails, StreamLeft,
         ghosts, Recorded, Overtakes, Discards
<1>3. query[q].pc \in UnderWay /\ query'[q].pc \in UnderWay
      /\ query'[q].aborted = query[q].aborted
  BY TurnSteps, StreamSteps DEF UnderWay, Pcs
<1>4. \A p \in Queries \ {q} :
        query'[p].pc = query[p].pc /\ query'[p].aborted = query[p].aborted
  BY OthersStay
<1> QED BY <1>1, <1>2, <1>3, <1>4, RestStays

LEMMA RestSubmit ==
  ASSUME TypeOK, RestInv, NEW q \in Queries, SubmitQuery(q)
  PROVE RestInv'
<1> SUFFICES ASSUME ~overtaken'
             PROVE /\ ~responding'
                   /\ \A p \in Active' : ~query'[p].aborted =>
                        p = current' /\ query'[p].pc \in {"prepare", "skill"}
  BY DEF RestInv
<1>1. \A p \in Queries \ {q} :
        query'[p].pc = query[p].pc /\ query'[p].aborted = query[p].aborted
  BY OthersStay
<1>2. \A p \in Queries \ {q} : p \in Active' <=> p \in Active
  BY <1>1 DEF Active
<1>3. ~responding' /\ current' = q /\ \A p \in Active : query[p].aborted
  BY DEF SubmitQuery, Idle
<1>4. query'[q].pc = "prepare"
  BY SubmitSteps
<1>5. Active' \subseteq Queries
  BY DEF Active
<1> QED BY <1>1, <1>2, <1>3, <1>4, <1>5

LEMMA RestAside ==
  ASSUME TypeOK, RestInv, NEW q \in Queries, Asides(q)
  PROVE RestInv'
<1> SUFFICES ASSUME ~overtaken'
             PROVE /\ responding' => /\ current' \in Active'
                                    /\ query'[current'].pc \notin {"prepare", "skill"}
                   /\ \A p \in Active' : ~query'[p].aborted =>
                        /\ p = current'
                        /\ query'[p].pc \in {"prepare", "skill"} \/ responding' \/ dimmed'
  BY DEF RestInv
<1>1. \A p \in Queries \ {q} :
        query'[p].pc = query[p].pc /\ query'[p].aborted = query[p].aborted
  BY OthersStay
<1>2. \A p \in Queries \ {q} : p \in Active' <=> p \in Active
  BY <1>1 DEF Active
<1>3. current' = current /\ query[q].pc \in {"prepare", "skill", "shell"}
  BY DEF Asides, Prepared, ShellEnds, SkillEnds
<1>4. Active' \subseteq Queries /\ Active \subseteq Queries
  BY DEF Active
<1>5. ~overtaken
  BY AsideSteps DEF Overtakes
<1>6. responding => current \in Active /\ query[current].pc \notin {"prepare", "skill"}
  BY <1>5 DEF RestInv
<1>7. \A p \in Active : ~query[p].aborted =>
        p = current /\ (query[p].pc \in {"prepare", "skill"} \/ responding \/ dimmed)
  BY <1>5 DEF RestInv
<1>8. CASE query'[q].pc \in {"turn", "shell"} /\ responding' = TRUE /\ Overtakes(q)
  <2>1. current = q
    BY <1>8 DEF Overtakes
  <2>2. q \in Active'
    BY <1>8 DEF Active
  <2> QED BY <1>1, <1>2, <1>3, <1>4, <1>7, <1>8, <2>1, <2>2
<1>9. CASE /\ query'[q].pc = "skill" /\ query[q].pc = "prepare"
           /\ query'[q].aborted = query[q].aborted
           /\ responding' = responding /\ dimmed' = dimmed
  <2>1. q \in Active /\ q \in Active'
    BY <1>9 DEF Active
  <2>2. responding => current # q
    BY <1>6, <1>9
  <2> QED BY <1>1, <1>2, <1>3, <1>4, <1>6, <1>7, <1>9, <2>1, <2>2
<1>10. CASE query'[q].pc = "ended" /\ query[q].pc = "prepare"
            /\ responding' = responding /\ dimmed' = dimmed
  <2>1. q \notin Active'
    BY <1>10 DEF Active
  <2>2. responding => current # q
    BY <1>6, <1>10
  <2> QED BY <1>1, <1>2, <1>3, <1>4, <1>6, <1>7, <1>10, <2>1, <2>2
<1>11. CASE query'[q].pc = "ended" /\ Overtakes(q)
            /\ \/ query[q].pc = "shell" /\ responding' = FALSE
               \/ query[q].pc = "skill" /\ responding' = (responding /\ ~cancelled)
  <2>1. current = q
    BY <1>11 DEF Overtakes
  <2>2. q \notin Active' /\ responding' = FALSE
    BY <1>6, <1>11, <2>1 DEF Active
  <2> QED BY <1>1, <1>2, <1>3, <1>4, <1>7, <2>1, <2>2
<1> QED BY <1>8, <1>9, <1>10, <1>11, AsideSteps

LEMMA CancelSteps ==
  ASSUME TypeOK, Cancel, NEW q \in Queries
  PROVE /\ query'[q].pc = query[q].pc /\ query'[q].answers = query[q].answers
        /\ query'[q].aborted =
             (query[q].aborted \/ (q = current /\ q \in Active) \/ query[q].pc = "tools")
<1>1. query[q] \in Query
  BY DEF TypeOK
<1> DEFINE b == query[q].aborted \/ (q = current /\ q \in Active) \/ query[q].pc = "tools"
<1>2. query'[q] = [query[q] EXCEPT !.aborted = b]
  BY DEF Cancel
<1> HIDE DEF b
<1>3. query'[q].pc = query[q].pc /\ query'[q].answers = query[q].answers
      /\ query'[q].aborted = b
  BY <1>1, <1>2 DEF Query
<1> QED BY <1>3 DEF b

LEMMA RestCancel ==
  ASSUME TypeOK, RestInv, Cancel
  PROVE RestInv'
<1> SUFFICES ASSUME ~overtaken'
             PROVE /\ responding' => /\ current' \in Active'
                                    /\ query'[current'].pc \notin {"prepare", "skill"}
                   /\ \A p \in Active' : ~query'[p].aborted =>
                        /\ p = current'
                        /\ query'[p].pc \in {"prepare", "skill"} \/ responding' \/ dimmed'
  BY DEF RestInv
<1>1. ~overtaken /\ current' = current /\ (responding' = FALSE \/ responding' = responding)
  BY DEF Cancel, ghosts
<1>2. \A q \in Queries : query'[q].pc = query[q].pc
  BY CancelSteps
<1>3. Active' = Active /\ Active \subseteq Queries
  BY <1>2 DEF Active
<1>4. \A q \in Active : query'[q].aborted
  <2> TAKE q \in Active
  <2>1. query[q].aborted \/ q = current
    BY <1>1 DEF RestInv
  <2> QED BY <1>3, <2>1, CancelSteps
<1>5. responding => current \in Active /\ query[current].pc \notin {"prepare", "skill"}
  BY <1>1 DEF RestInv
<1> QED BY <1>1, <1>2, <1>3, <1>4, <1>5

LEMMA RestEnds ==
  ASSUME TypeOK, RestInv, NEW q \in Queries, Ends(q)
  PROVE RestInv'
<1> SUFFICES ASSUME ~overtaken'
             PROVE /\ responding' => /\ current' \in Active'
                                    /\ query'[current'].pc \notin {"prepare", "skill"}
                   /\ \A p \in Active' : ~query'[p].aborted =>
                        /\ p = current'
                        /\ query'[p].pc \in {"prepare", "skill"} \/ responding' \/ dimmed'
  BY DEF RestInv
<1>1. ~overtaken /\ current' = current /\ dimmed' = dimmed
  <2>1. CASE Processed(q)
    BY <2>1 DEF Processed, ghosts
  <2>2. CASE RecordResults(q)
    BY <2>2 DEF RecordResults, Overtakes
  <2>3. CASE StopExecution(q)
    BY <2>3 DEF StopExecution
  <2> QED BY <2>1, <2>2, <2>3 DEF Ends
<1>2. \A p \in Queries \ {q} :
        query'[p].pc = query[p].pc /\ query'[p].aborted = query[p].aborted
  BY OthersStay
<1>3. \A p \in Queries \ {q} : p \in Active' <=> p \in Active
  BY <1>2 DEF Active
<1>4. Active' \subseteq Queries /\ Active \subseteq Queries /\ q \in Active
  BY EndSteps DEF Active
<1>5. responding => current \in Active /\ query[current].pc \notin {"prepare", "skill"}
  BY <1>1 DEF RestInv
<1>6. \A p \in Active : ~query[p].aborted =>
        p = current /\ (query[p].pc \in {"prepare", "skill"} \/ responding \/ dimmed)
  BY <1>1 DEF RestInv
<1>7. CASE query'[q].pc = "tools" /\ query'[q].aborted = query[q].aborted /\ Processed(q)
           /\ query[q].pc = "processed"
  <2>1. q \in Active'
    BY <1>7 DEF Active
  <2>2. responding' = responding
    <3>1. query'[q] # Ended(q)
      BY <1>7, Replacements
    <3> QED BY <1>7, <3>1 DEF Processed, TypeOK
  <2> QED BY <1>1, <1>2, <1>3, <1>4, <1>5, <1>6, <1>7, <2>1, <2>2
<1>8. CASE query'[q].pc = "ended"
  <2>1. q \notin Active'
    BY <1>8 DEF Active
  <2>2. CASE current = q
    <3>1. \A p \in Active' : query'[p].aborted
      BY <1>2, <1>3, <1>4, <1>6, <2>1, <2>2
    <3>2. responding' = FALSE
      <4>1. query'[q].pc # "tools"
        BY <1>8
      <4>2. CASE Processed(q)
        <5>1. query' # [query EXCEPT ![q].pc = "tools"]
          <6>1. query[q] \in Query /\ query \in [Queries -> Query]
            BY DEF TypeOK
          <6> QED BY <4>1, <6>1 DEF Query
        <5> QED BY <2>2, <4>2, <5>1 DEF Processed, Rest
      <4> QED BY <2>2, <4>2 DEF Ends, RecordResults, StopExecution, Rest
    <3> QED BY <3>1, <3>2
  <2>3. CASE current # q
    <3>1. \/ responding' = responding
          \/ responding' = FALSE /\ \A p \in Active : query[p].aborted
      <4>1. CASE Processed(q)
        BY <2>3, <4>1 DEF Processed, Rest
      <4>2. CASE RecordResults(q)
        BY <2>3, <4>2 DEF RecordResults, Overtakes
      <4>3. CASE StopExecution(q)
        BY <1>4, <1>6, <2>3, <4>3 DEF StopExecution
      <4> QED BY <4>1, <4>2, <4>3 DEF Ends
    <3>2. responding' => responding /\ current \in Active'
      BY <1>3, <1>4, <1>5, <2>3, <3>1
    <3> QED BY <1>1, <1>2, <1>3, <1>4, <1>5, <1>6, <2>1, <2>3, <3>1, <3>2
  <2> QED BY <2>2, <2>3
<1> QED BY <1>7, <1>8, EndSteps

LEMMA RestContinues ==
  ASSUME TypeOK, OrderInv, RestInv, NEW q \in Queries, NEW c \in Queries,
         Continue(q, c) \/ SendAgain(q, c)
  PROVE RestInv'
<1> SUFFICES ASSUME ~overtaken'
             PROVE /\ responding' => /\ current' \in Active'
                                    /\ query'[current'].pc \notin {"prepare", "skill"}
                   /\ \A p \in Active' : ~query'[p].aborted =>
                        /\ p = current'
                        /\ query'[p].pc \in {"prepare", "skill"} \/ responding' \/ dimmed'
  BY DEF RestInv
<1>1. ~overtaken /\ current' = c /\ responding' = TRUE
  <2>1. CASE Continue(q, c)
    BY <2>1 DEF Continue, Responds, ghosts
  <2>2. CASE SendAgain(q, c)
    BY <2>2 DEF SendAgain, Responds
  <2> QED BY <2>1, <2>2
<1>2. query'[c].pc = "turn" /\ query'[q].pc = "ended"
  <2>1. CASE Continue(q, c)
    BY <2>1, ContinueSteps
  <2>2. CASE SendAgain(q, c)
    BY <2>2, AgainSteps
  <2> QED BY <2>1, <2>2
<1>3. \A p \in Queries \ {q, c} : query'[p] = query[p]
  BY BothStay
<1>4. \A p \in Active \ {q, c} : query[p].aborted
  <2>1. CASE Continue(q, c)
    <3>1. q \in Active /\ ~query[q].aborted
      BY <2>1 DEF Continue, Active
    <3> QED BY <1>1, <3>1 DEF RestInv
  <2>2. CASE SendAgain(q, c)
    BY <1>1, <2>2 DEF SendAgain
  <2> QED BY <2>1, <2>2
<1>5. c \in Active' /\ q \notin Active' /\ Active' \subseteq Queries
  BY <1>2 DEF Active
<1>6. \A p \in Active' \ {q, c} : p \in Active
  BY <1>3 DEF Active
<1> QED BY <1>1, <1>2, <1>3, <1>4, <1>5, <1>6

(***************************************************************************)
(* The results of a batch are with one query at most, or reported.         *)
(***************************************************************************)
LEMMA ReportStays ==
  ASSUME ReportInv, reported' = reported, retold \subseteq retold',
         \A q \in Queries : /\ Holding(q)' \subseteq Holding(q)
                            /\ query'[q].pc # "ended" => query[q].pc # "ended"
  PROVE ReportInv'
<1> SUFFICES ASSUME NEW q \in Queries \ retold'
             PROVE /\ query'[q].pc # "ended" => reported'[q] = 0 /\ Holding(q)' = {}
                   /\ \A c, d \in Holding(q)' : c = d /\ reported'[q] = 0
                   /\ reported'[q] <= 1
  BY DEF ReportInv
<1>1. /\ query[q].pc # "ended" => reported[q] = 0 /\ Holding(q) = {}
      /\ \A c, d \in Holding(q) : c = d /\ reported[q] = 0
      /\ reported[q] <= 1
  BY DEF ReportInv
<1>2. Holding(q)' \subseteq Holding(q) /\ (query'[q].pc # "ended" => query[q].pc # "ended")
  OBVIOUS
<1> QED BY <1>1, <1>2

\* A step that leaves nobody with results that had none.
LEMMA HoldingShrinks ==
  ASSUME TypeOK, NEW p \in Queries,
         SubmitQuery(p) \/ Asides(p) \/ Turns(p) \/ Streams(p) \/ Ends(p),
         NEW q \in Queries
  PROVE Holding(q)' \subseteq Holding(q)
<1> SUFFICES ASSUME NEW c \in Holding(q)'
             PROVE c \in Holding(q)
  OBVIOUS
<1>1. /\ c \in Queries /\ query'[c].answers = q /\ q # 0
      /\ query'[c].pc \in {"new", "prepare", "skill", "shell", "turn", "compress", "send", "lock"}
  BY QueriesTyped DEF Holding
<1>2. CASE c # p
  <2>1. query'[c].pc = query[c].pc /\ query'[c].answers = query[c].answers
    BY <1>1, <1>2, OthersStay
  <2> QED BY <1>1, <2>1 DEF Holding
<1>3. CASE c = p
  <2>1. /\ query[p].pc \in {"new", "prepare", "skill", "shell", "turn", "compress", "send", "lock"}
        /\ query[p].answers = query'[p].answers
    <3>1. CASE SubmitQuery(p)
      BY <3>1, SubmitSteps
    <3>2. CASE Asides(p)
      BY <1>1, <1>3, <3>2, AsideSteps
    <3>3. CASE Turns(p)
      BY <1>1, <1>3, <3>3, TurnSteps
    <3>4. CASE Streams(p)
      BY <1>1, <1>3, <3>4, StreamSteps
    <3>5. CASE Ends(p)
      BY <1>1, <1>3, <3>5, EndSteps
    <3> QED BY <3>1, <3>2, <3>3, <3>4, <3>5
  <2> QED BY <1>1, <1>3, <2>1 DEF Holding
<1> QED BY <1>2, <1>3

LEMMA EndedStays ==
  ASSUME TypeOK, NEW p \in Queries,
         SubmitQuery(p) \/ Asides(p) \/ Turns(p) \/ Streams(p) \/ Ends(p),
         NEW q \in Queries, query[q].pc = "ended"
  PROVE q # p /\ query'[q].pc = "ended"
<1>1. query[p].pc # "ended"
  <2>1. CASE SubmitQuery(p) \/ Asides(p)
    BY <2>1, SubmitSteps, AsideSteps
  <2>2. CASE Turns(p)
    BY <2>2, TurnSteps
  <2>3. CASE Streams(p)
    BY <2>3, StreamSteps
  <2>4. CASE Ends(p)
    BY <2>4, EndSteps
  <2> QED BY <2>1, <2>2, <2>3, <2>4
<1> QED BY <1>1, OthersStay

\* The message of a query is recorded, and so are the results in it.
LEMMA ReportRecorded ==
  ASSUME TypeOK, ReportInv, NEW p \in Queries,
         Send(p) \/ Enter(p) \/ LoopBeforeSend(p) \/ HookStops(p)
  PROVE ReportInv'
<1>1. Turns(p) /\ Recorded(p)
  BY DEF Turns, Send, Enter, LoopBeforeSend, HookStops
<1>2. retold' = retold
  BY <1>1 DEF Recorded
<1>3. \A q \in Queries : /\ Holding(q)' \subseteq Holding(q)
                         /\ query[q].pc = "ended" => query'[q].pc = "ended"
                         /\ query'[q].pc # "ended" => query[q].pc # "ended"
  BY <1>1, HoldingShrinks, EndedStays
<1>0. PICK a \in Queries \cup {0} : a = query[p].answers
  BY DEF TypeOK, Query
<1>4. CASE a = 0
  <2>1. reported' = reported
    BY <1>0, <1>1, <1>4 DEF Recorded
  <2> QED BY <1>2, <1>3, <2>1, ReportStays
<1>5. CASE a # 0
  <2>1. a \in Queries /\ reported' = [reported EXCEPT ![a] = @ + 1]
        /\ reported \in [Queries -> Nat]
    BY <1>0, <1>1, <1>5 DEF Recorded, Reports, TypeOK
  <2>2. p \in Holding(a)
    BY <1>0, <1>1, TurnSteps DEF Holding
  <2>3. p \notin Holding(a)'
    BY <1>5, RecordSteps DEF Holding
  <2> SUFFICES ASSUME NEW q \in Queries \ retold'
               PROVE /\ query'[q].pc # "ended" => reported'[q] = 0 /\ Holding(q)' = {}
                     /\ \A c, d \in Holding(q)' : c = d /\ reported'[q] = 0
                     /\ reported'[q] <= 1
    BY DEF ReportInv
  <2>4. /\ query[q].pc # "ended" => reported[q] = 0 /\ Holding(q) = {}
        /\ \A c, d \in Holding(q) : c = d /\ reported[q] = 0
        /\ reported[q] <= 1
    BY <1>2 DEF ReportInv
  <2>5. CASE q = a
    <3>1. query[q].pc = "ended" /\ reported[q] = 0
      BY <2>2, <2>4, <2>5
    <3>2. query'[q].pc = "ended"
      BY <1>3, <3>1
    <3>3. reported'[q] = 1
      BY <2>1, <2>5, <3>1
    <3>4. Holding(q)' = {}
      BY <1>3, <2>2, <2>3, <2>4, <2>5
    <3> QED BY <3>2, <3>3, <3>4
  <2>6. CASE q # a
    <3>1. reported'[q] = reported[q]
      BY <2>1, <2>6
    <3> QED BY <1>3, <2>4, <3>1
  <2> QED BY <2>5, <2>6
<1> QED BY <1>4, <1>5

\* The handler of completed tools records the results.
LEMMA ReportResults ==
  ASSUME TypeOK, ReportInv, NEW p \in Queries, RecordResults(p)
  PROVE ReportInv'
<1>1. Ends(p) /\ retold' = retold
  BY DEF Ends, RecordResults
<1>2. \A q \in Queries : /\ Holding(q)' \subseteq Holding(q)
                         /\ query'[q].pc # "ended" => query[q].pc # "ended"
  BY <1>1, HoldingShrinks, EndedStays
<1>3. reported' = [reported EXCEPT ![p] = @ + 1] /\ reported \in [Queries -> Nat]
  BY DEF RecordResults, Reports, TypeOK
<1>4. query[p].pc = "tools" /\ query'[p].pc = "ended"
  <2>1. query'[p] = Ended(p)
    BY DEF RecordResults, TypeOK
  <2> QED BY <2>1, Replacements DEF RecordResults
<1> SUFFICES ASSUME NEW q \in Queries \ retold'
             PROVE /\ query'[q].pc # "ended" => reported'[q] = 0 /\ Holding(q)' = {}
                   /\ \A c, d \in Holding(q)' : c = d /\ reported'[q] = 0
                   /\ reported'[q] <= 1
  BY DEF ReportInv
<1>5. /\ query[q].pc # "ended" => reported[q] = 0 /\ Holding(q) = {}
      /\ \A c, d \in Holding(q) : c = d /\ reported[q] = 0
      /\ reported[q] <= 1
  BY <1>1 DEF ReportInv
<1>6. CASE q = p
  <2>1. reported'[q] = 1 /\ Holding(q)' = {}
    BY <1>2, <1>3, <1>4, <1>5, <1>6
  <2> QED BY <1>4, <1>6, <2>1
<1>7. CASE q # p
  <2>1. reported'[q] = reported[q]
    BY <1>3, <1>7
  <2> QED BY <1>2, <1>5, <2>1
<1> QED BY <1>6, <1>7

\* The results go to a query of their own.
LEMMA ReportContinues ==
  ASSUME TypeOK, OrderInv, ReportInv, NEW p \in Queries, NEW b \in Queries, Continue(p, b)
  PROVE ReportInv'
<1>1. reported' = reported /\ retold' = retold
  BY DEF Continue, ghosts
<1>2. /\ query[p].pc = "tools" /\ query'[p].pc = "ended" /\ query'[p].answers = 0
      /\ query[b].pc = "new" /\ query'[b].pc = "turn" /\ query'[b].answers = p
  BY ContinueSteps
<1>3. \A q \in Queries : q # p /\ q # b => query'[q] = query[q]
  BY BothStay
<1>4. \A q \in Queries : query'[q].pc # "ended" => query[q].pc # "ended"
  BY <1>2, <1>3
<1>5. ASSUME NEW q \in Queries, NEW c \in Holding(q)'
      PROVE (c = b /\ q = p) \/ c \in Holding(q)
  BY <1>2, <1>3, <1>5, QueriesTyped DEF Holding
<1> SUFFICES ASSUME NEW q \in Queries \ retold'
             PROVE /\ query'[q].pc # "ended" => reported'[q] = 0 /\ Holding(q)' = {}
                   /\ \A c, d \in Holding(q)' : c = d /\ reported'[q] = 0
                   /\ reported'[q] <= 1
  BY DEF ReportInv
<1>6. /\ query[q].pc # "ended" => reported[q] = 0 /\ Holding(q) = {}
      /\ \A c, d \in Holding(q) : c = d /\ reported[q] = 0
      /\ reported[q] <= 1
  BY <1>1 DEF ReportInv
<1>7. CASE q = p
  <2>1. reported[q] = 0 /\ Holding(q) = {} /\ query'[q].pc = "ended"
    BY <1>2, <1>6, <1>7
  <2>2. \A c \in Holding(q)' : c = b
    BY <1>5, <2>1
  <2> QED BY <1>1, <2>1, <2>2
<1>8. CASE q # p
  <2>1. Holding(q)' \subseteq Holding(q)
    BY <1>5, <1>8
  <2> QED BY <1>1, <1>4, <1>6, <2>1
<1> QED BY <1>7, <1>8

LEMMA ReportAgain ==
  ASSUME TypeOK, OrderInv, ReportInv, NEW p \in Queries, NEW b \in Queries, SendAgain(p, b)
  PROVE ReportInv'
<1>1. reported' = reported /\ retold' = retold \cup ({last} \ {0})
  BY DEF SendAgain
<1>2. /\ query[p].pc = "ended" /\ query'[p].pc = "ended"
      /\ query[b].pc = "new" /\ query'[b].pc = "turn" /\ query'[b].answers = last
  BY AgainSteps
<1>3. \A q \in Queries : q # p /\ q # b => query'[q] = query[q]
  BY BothStay
<1>4. \A q \in Queries : query'[q].pc # "ended" => query[q].pc # "ended"
  BY <1>2, <1>3
<1> SUFFICES ASSUME NEW q \in Queries \ retold'
             PROVE /\ query'[q].pc # "ended" => reported'[q] = 0 /\ Holding(q)' = {}
                   /\ \A c, d \in Holding(q)' : c = d /\ reported'[q] = 0
                   /\ reported'[q] <= 1
  BY DEF ReportInv
<1>5. /\ query[q].pc # "ended" => reported[q] = 0 /\ Holding(q) = {}
      /\ \A c, d \in Holding(q) : c = d /\ reported[q] = 0
      /\ reported[q] <= 1
  BY <1>1 DEF ReportInv
<1>6. Holding(q)' \subseteq Holding(q)
  <2> SUFFICES ASSUME NEW c \in Holding(q)'
               PROVE c \in Holding(q)
    OBVIOUS
  <2>1. /\ c \in Queries /\ query'[c].answers = q /\ q # last
        /\ query'[c].pc \in {"new", "prepare", "skill", "shell", "turn", "compress", "send", "lock"}
    BY <1>1, QueriesTyped DEF Holding
  <2>2. query'[c] = query[c]
    BY <1>2, <1>3, <2>1
  <2> QED BY <2>1, <2>2 DEF Holding
<1> QED BY <1>1, <1>4, <1>5, <1>6

LEMMA RestKept ==
  ASSUME TypeOK, OrderInv, RestInv, Next
  PROVE RestInv'
BY RestTurns, RestSubmit, RestAside, RestCancel, RestEnds, RestContinues
   DEF Next, Asides, Turns, Streams, Ends

LEMMA ReportKept ==
  ASSUME TypeOK, OrderInv, ReportInv, Next
  PROVE ReportInv'
<1>1. CASE Cancel
  <2>1. \A q \in Queries : query'[q].pc = query[q].pc /\ query'[q].answers = query[q].answers
    BY <1>1, CancelSteps
  <2>2. \A q \in Queries : Holding(q)' \subseteq Holding(q)
    BY <2>1 DEF Holding
  <2> QED BY <1>1, <2>1, <2>2, ReportStays DEF Cancel, ghosts
<1>2. ASSUME NEW p \in Queries,
             SubmitQuery(p) \/ Asides(p) \/ Turns(p) \/ Streams(p) \/ Ends(p),
             reported' = reported, retold' = retold
      PROVE ReportInv'
  <2>1. \A q \in Queries : /\ Holding(q)' \subseteq Holding(q)
                           /\ query'[q].pc # "ended" => query[q].pc # "ended"
    BY <1>2, HoldingShrinks, EndedStays
  <2> QED BY <1>2, <2>1, ReportStays
<1>3. ASSUME NEW p \in Queries, SubmitQuery(p) \/ Asides(p)
      PROVE ReportInv'
  BY <1>2, <1>3 DEF SubmitQuery, Asides, Prepared, ShellEnds, SkillEnds
<1>4. ASSUME NEW p \in Queries, Turns(p)
      PROVE ReportInv'
  <2>1. CASE Send(p) \/ Enter(p) \/ LoopBeforeSend(p) \/ HookStops(p)
    BY <2>1, ReportRecorded
  <2>2. CASE Limit(p) \/ Thrown(p) \/ BeginCompress(p) \/ EndCompress(p) \/ Wait(p)
    <3>1. reported' = reported /\ retold' = retold
      BY <2>2 DEF Limit, Thrown, Unsent, BeginCompress, EndCompress, Wait, ghosts
    <3> QED BY <1>2, <1>4, <3>1
  <2> QED BY <1>4, <2>1, <2>2 DEF Turns
<1>5. ASSUME NEW p \in Queries, Streams(p)
      PROVE ReportInv'
  <2>1. reported' = reported /\ retold' = retold
    BY <1>5 DEF Streams, Connect, StreamCall, StreamEnds, StreamFails, StreamLeft, Discards,
                ghosts
  <2> QED BY <1>2, <1>5, <2>1
<1>6. ASSUME NEW p \in Queries, Ends(p)
      PROVE ReportInv'
  <2>1. CASE RecordResults(p)
    BY <2>1, ReportResults
  <2>2. CASE Processed(p) \/ StopExecution(p)
    <3>1. reported' = reported /\ retold' = retold
      BY <2>2 DEF Processed, StopExecution, ghosts
    <3> QED BY <1>2, <1>6, <3>1
  <2> QED BY <1>6, <2>1, <2>2 DEF Ends
<1>7. ASSUME NEW p \in Queries, NEW b \in Queries, Continue(p, b) \/ SendAgain(p, b)
      PROVE ReportInv'
  BY <1>7, ReportContinues, ReportAgain
<1> QED BY <1>1, <1>3, <1>4, <1>5, <1>6, <1>7 DEF Next, Asides, Turns, Streams, Ends

(***************************************************************************)
(* The theorems.                                                           *)
(***************************************************************************)
ConversationInv == TypeOK /\ OrderInv /\ RestInv /\ ReportInv

LEMMA InvBegins == Init => ConversationInv
<1> SUFFICES ASSUME Init PROVE ConversationInv
  OBVIOUS
<1>1. \A q \in Queries :
        /\ query[q] = Fresh /\ query[q].answers = 0 /\ query[q].chat = 0 /\ query[q].pc = "new"
        /\ reported[q] = 0
  BY DEF Init, Fresh
<1>2. TypeOK
  <2>1. \A q \in Queries : query[q].answers < q /\ query[q].chat <= chat
    BY <1>1, ConversationAssumption DEF Init, Queries
  <2>2. query \in [Queries -> Query]
    BY FreshTyped DEF Init
  <2>3. history \in Seq(Entry) /\ 0 \in 0..MaxCompressions
    BY EmptySeq, ConversationAssumption DEF Init
  <2> QED BY <2>1, <2>2, <2>3 DEF Init, TypeOK
<1>3. OrderInv
  BY <1>1 DEF Init, OrderInv, Begun
<1>4. RestInv
  <2>1. Active = {}
    BY <1>1 DEF Active
  <2> QED BY <2>1 DEF Init, RestInv
<1>5. ReportInv
  <2>1. \A q \in Queries : Holding(q) = {}
    BY <1>1, QueriesTyped DEF Holding
  <2> QED BY <1>1, <2>1 DEF ReportInv
<1> QED BY <1>2, <1>3, <1>4, <1>5 DEF ConversationInv

LEMMA InvKept == ConversationInv /\ [Next]_vars => ConversationInv'
<1> SUFFICES ASSUME ConversationInv, [Next]_vars PROVE ConversationInv'
  OBVIOUS
<1>1. CASE Next
  BY <1>1, TypesKept, OrderKept, RestKept, ReportKept DEF ConversationInv
<1>2. CASE UNCHANGED vars
  <2>1. UNCHANGED <<query, history, chat, lock, ui, ghosts>>
    BY <1>2 DEF vars
  <2>2. TypeOK'
    BY <2>1 DEF ConversationInv, TypeOK, ui, ghosts
  <2>3. Active' = Active /\ Begun' = Begun
    BY <2>1 DEF Active, Begun
  <2>4. OrderInv' /\ RestInv'
    BY <2>1, <2>3 DEF ConversationInv, OrderInv, RestInv, ui, ghosts
  <2>5. ReportInv'
    BY <2>1 DEF ConversationInv, ReportInv, Holding, ghosts
  <2> QED BY <2>2, <2>4, <2>5 DEF ConversationInv
<1> QED BY <1>1, <1>2

LEMMA InvHolds == Spec => []ConversationInv
BY InvBegins, InvKept, PTL DEF Spec

(***************************************************************************)
(* Whatever is submitted, cancelled, compressed and retried, a query       *)
(* answers calls of an earlier one, is attempted MaxAttempts times at      *)
(* most, and is on a chat that there has been.                             *)
(***************************************************************************)
THEOREM ConversationTyped == Spec => []TypeOK
<1>1. ConversationInv => TypeOK
  BY DEF ConversationInv
<1> QED BY <1>1, InvHolds, PTL

(***************************************************************************)
(* The UI does not say that it responds when nothing is under way, and     *)
(* says so while it reads a stream that was not cancelled (isResponding of *)
(* useGeminiStream.ts), as long as no query goes on, but at a cancelled    *)
(* stream, beside a later one.  While a stream is read an event of an      *)
(* earlier query, or of a hook, may have cleared the flag: dimmed.         *)
(***************************************************************************)
THEOREM RestsWhenDone == Spec => []AtRest
<1>1. ConversationInv => AtRest
  <2> SUFFICES ASSUME RestInv PROVE AtRest
    BY DEF ConversationInv
  <2>1. \A q \in Queries : Streaming(q) => q \in Active /\ query[q].pc \notin {"prepare", "skill"}
    BY DEF Streaming, Active
  <2> QED BY <2>1 DEF RestInv, AtRest
<1> QED BY <1>1, InvHolds, PTL

(***************************************************************************)
(* The results of a batch get into the history once at most, through the   *)
(* continuation, the loop check or the handler of completed tools          *)
(* (useGeminiStream.ts, client.ts, geminiChat.ts), however these are       *)
(* interleaved with cancellations and later prompts.                       *)
(***************************************************************************)
THEOREM ResultsReportedOnce == Spec => []ReportedOnce
<1>1. ConversationInv => ReportedOnce
  BY DEF ConversationInv, ReportInv, ReportedOnce
<1> QED BY <1>1, InvHolds, PTL

(***************************************************************************)
(* Calls and their responses, in a sequence of entries.  What is excused   *)
(* and what was sent again is given, as are the queries whose calls the    *)
(* current query is to answer.                                             *)
(***************************************************************************)
PairedFor(h, ex, re) ==
  \A i \in 1..Len(h) :
    /\ h[i].what = "call" /\ h[i].of \notin ex =>
         i = Len(h) \/ /\ h[i] = Item("call", h[i].of)
                       /\ h[i + 1] = Item("response", h[i].of)
    /\ h[i].what = "response" /\ h[i].of \notin ex \cup re =>
         /\ i > 1
         /\ h[i - 1] = Item("call", h[i].of) /\ h[i] = Item("response", h[i].of)

\* No call that is not excused is at the end.
Shut(h, ex) == \A y \in (Queries \cup {0}) \ ex : ~OpenIn(h, y)

MatchesFor(h, ex, re, ow) ==
  /\ PairedFor(h, ex, re)
  /\ \A y \in (Queries \cup {0}) \ ex :
       /\ OpenIn(h, y) => y \in ow
       /\ y \in ow /\ y \notin re => OpenIn(h, y)

LEMMA PairedGrows ==
  ASSUME NEW h \in Seq(Entry), NEW ex, NEW re, NEW ex2, NEW re2, ex \subseteq ex2, re \subseteq re2,
         PairedFor(h, ex, re)
  PROVE PairedFor(h, ex2, re2)
BY DEF PairedFor

LEMMA MatchesGrows ==
  ASSUME NEW h \in Seq(Entry), NEW ex, NEW re, NEW ow, NEW ex2, NEW re2, NEW ow2,
         ex \subseteq ex2, re \subseteq re2,
         ow \ ex2 \subseteq ow2, ow2 \ (ex2 \cup re2) \subseteq ow,
         MatchesFor(h, ex, re, ow)
  PROVE MatchesFor(h, ex2, re2, ow2)
<1>1. PairedFor(h, ex2, re2)
  BY PairedGrows DEF MatchesFor
<1> QED BY <1>1 DEF MatchesFor

\* What an appended entry does.
LEMMA PairedAppend ==
  ASSUME NEW h \in Seq(Entry), NEW ex, NEW re, NEW e \in Entry, PairedFor(h, ex, re),
         \A y \in (Queries \cup {0}) \ ex : OpenIn(h, y) => e = Item("response", y),
         e.what = "response" /\ e.of \notin ex \cup re => OpenIn(h, e.of)
  PROVE PairedFor(Append(h, e), ex, re)
<1> DEFINE g == Append(h, e)
<1>1. Len(g) = Len(h) + 1 /\ Len(h) \in Nat /\ g[Len(h) + 1] = e
      /\ \A i \in 1..Len(h) : g[i] = h[i] /\ h[i] \in Entry
  BY AppendProperties
<1> HIDE DEF g
<1>2. ASSUME NEW i \in 1..Len(h)
      PROVE /\ g[i].what = "call" /\ g[i].of \notin ex =>
                 /\ g[i] = Item("call", g[i].of) /\ g[i + 1] = Item("response", g[i].of)
            /\ g[i].what = "response" /\ g[i].of \notin ex \cup re =>
                 /\ i > 1
                 /\ g[i - 1] = Item("call", g[i].of) /\ g[i] = Item("response", g[i].of)
  <2>1. CASE i < Len(h)
    <3>1. i + 1 \in 1..Len(h) /\ g[i + 1] = h[i + 1] /\ g[i] = h[i] /\ i # Len(h)
      BY <1>1, <1>2, <2>1
    <3>2. i > 1 => i - 1 \in 1..Len(h) /\ g[i - 1] = h[i - 1]
      BY <1>1, <1>2
    <3> QED BY <1>2, <3>1, <3>2 DEF PairedFor
  <2>2. CASE i = Len(h)
    <3>1. g[i + 1] = e /\ g[i] = h[i] /\ h # <<>> /\ Last(h) = h[i] /\ h[i] \in Entry
      BY <1>1, <1>2, <2>2 DEF Last
    <3>2. i > 1 => i - 1 \in 1..Len(h) /\ g[i - 1] = h[i - 1]
      BY <1>1, <1>2
    <3>3. h[i].what = "call" => h[i] = Item("call", h[i].of) /\ h[i].of \in Queries \cup {0}
      BY <3>1 DEF Entry, Item
    <3>4. g[i].what = "call" /\ g[i].of \notin ex => e = Item("response", g[i].of)
      BY <3>1, <3>3 DEF OpenIn
    <3> QED BY <1>2, <3>1, <3>2, <3>3, <3>4 DEF PairedFor
  <2> QED BY <1>1, <1>2, <2>1, <2>2
<1>3. ASSUME e.what = "response", e.of \notin ex \cup re
      PROVE Len(h) + 1 > 1 /\ g[Len(h)] = Item("call", e.of) /\ e = Item("response", e.of)
  <2>1. OpenIn(h, e.of)
    BY <1>3
  <2>2. Len(h) \in 1..Len(h) /\ h[Len(h)] = Item("call", e.of)
    BY <1>1, <2>1, EmptySeq DEF OpenIn, Last
  <2>3. e = Item("response", e.of)
    BY <1>3 DEF Entry, Item
  <2> QED BY <1>1, <2>2, <2>3
<1>4. \A i \in 1..Len(g) : i \in 1..Len(h) \/ i = Len(h) + 1
  BY <1>1
<1>5. PairedFor(g, ex, re)
  <2>1. (Len(h) + 1) - 1 = Len(h)
    BY <1>1
  <2> SUFFICES ASSUME NEW i \in 1..Len(g)
               PROVE /\ g[i].what = "call" /\ g[i].of \notin ex =>
                          i = Len(g) \/ /\ g[i] = Item("call", g[i].of)
                                        /\ g[i + 1] = Item("response", g[i].of)
                     /\ g[i].what = "response" /\ g[i].of \notin ex \cup re =>
                          /\ i > 1
                          /\ g[i - 1] = Item("call", g[i].of) /\ g[i] = Item("response", g[i].of)
    BY DEF PairedFor
  <2>2. CASE i \in 1..Len(h)
    BY <1>2, <2>2
  <2>3. CASE i = Len(h) + 1
    BY <1>1, <1>3, <2>1, <2>3
  <2> QED BY <1>4, <2>2, <2>3
<1> QED BY <1>5 DEF g

LEMMA OpenAppend ==
  ASSUME NEW h \in Seq(Entry), NEW e \in Entry, NEW y
  PROVE OpenIn(Append(h, e), y) <=> e = Item("call", y)
<1>1. Append(h, e) # <<>> /\ Last(Append(h, e)) = e
  BY AppendProperties DEF Last
<1> QED BY <1>1 DEF OpenIn

\* What is taken back does not separate a response from its call.
LEMMA PairedPrefix ==
  ASSUME NEW h \in Seq(Entry), NEW ex, NEW re, NEW n \in Nat, PairedFor(h, ex, re),
         n < Len(h), h[n + 1].what # "response"
  PROVE PairedFor(SubSeq(h, 1, n), ex, re) /\ Shut(SubSeq(h, 1, n), ex)
<1> DEFINE g == SubSeq(h, 1, n)
<1>1. Len(g) = n /\ Len(h) \in Nat /\ \A i \in 1..n : g[i] = h[i] /\ i \in 1..Len(h)
  BY SubSeqProperties, LenProperties
<1> HIDE DEF g
<1>2. PairedFor(g, ex, re)
  <2> SUFFICES ASSUME NEW i \in 1..n
               PROVE /\ g[i].what = "call" /\ g[i].of \notin ex =>
                          i = n \/ /\ g[i] = Item("call", g[i].of)
                                   /\ g[i + 1] = Item("response", g[i].of)
                     /\ g[i].what = "response" /\ g[i].of \notin ex \cup re =>
                          /\ i > 1
                          /\ g[i - 1] = Item("call", g[i].of) /\ g[i] = Item("response", g[i].of)
    BY <1>1 DEF PairedFor
  <2>1. g[i] = h[i] /\ i \in 1..Len(h) /\ i < Len(h)
    BY <1>1
  <2>2. i # n => g[i + 1] = h[i + 1]
    BY <1>1
  <2>3. i > 1 => g[i - 1] = h[i - 1]
    BY <1>1
  <2> QED BY <2>1, <2>2, <2>3 DEF PairedFor
<1>3. ASSUME NEW y \in (Queries \cup {0}) \ ex, OpenIn(g, y)
      PROVE FALSE
  <2>1. n \in 1..n /\ h[n] = Item("call", y)
    BY <1>1, <1>3, EmptySeq DEF OpenIn, Last
  <2>2. h[n].what = "call" /\ h[n].of = y /\ n \in 1..Len(h) /\ n # Len(h)
    BY <1>1, <2>1 DEF Item
  <2>3. h[n + 1] = Item("response", y)
    BY <2>2 DEF PairedFor
  <2> QED BY <2>3 DEF Item
<1> QED BY <1>2, <1>3 DEF Shut, g

\* A compression keeps calls and responses together, and how the history ends.
LEMMA PairedCompressed ==
  ASSUME NEW h \in Seq(Entry), NEW ex, NEW re, NEW k \in SplitPoints(h), PairedFor(h, ex, re)
  PROVE LET g == <<Item("summary", 0)>> \o SubSeq(h, k + 1, Len(h)) IN
        PairedFor(g, ex, re) /\ \A y : OpenIn(g, y) <=> OpenIn(h, y)
<1> DEFINE s == SubSeq(h, k + 1, Len(h))
           g == <<Item("summary", 0)>> \o s
           d == k - 1
<1>1. k \in 1..Len(h) /\ Len(h) \in Nat
  BY DEF SplitPoints
<1>2. s \in Seq(Entry) /\ Len(s) = Len(h) - k /\ \A i \in 1..Len(s) : s[i] = h[k + i]
  <2>1. \A i \in k + 1..Len(h) : h[i] \in Entry
    BY <1>1
  <2> QED BY <1>1, <2>1, SubSeqProperties
<1>3. /\ Len(g) = Len(h) - d /\ g[1] = Item("summary", 0) /\ d \in Nat
      /\ \A i \in 2..Len(g) : g[i] = h[i + d] /\ i + d \in 1..Len(h) /\ i + d > k
  <2>1. <<Item("summary", 0)>> \in Seq(Entry) /\ Len(<<Item("summary", 0)>>) = 1
    BY ItemTyped
  <2>2. Len(g) = Len(s) + 1 /\ g[1] = Item("summary", 0)
        /\ \A i \in 1..Len(g) : i > 1 => g[i] = s[i - 1]
    BY <1>2, <2>1, ConcatProperties
  <2> HIDE DEF g, s
  <2>3. ASSUME NEW i \in 2..Len(g)
        PROVE g[i] = h[i + d] /\ i + d \in 1..Len(h) /\ i + d > k
    <3>1. i \in 1..Len(g) /\ i > 1 /\ i - 1 \in 1..Len(s) /\ k + (i - 1) = i + d
      BY <1>1, <1>2, <2>2, <2>3
    <3> QED BY <1>1, <1>2, <2>2, <3>1
  <2> QED BY <1>1, <1>2, <2>2, <2>3
<1>4. k < Len(h) => h[k + 1].what \in {"user", "context"}
  BY DEF SplitPoints
<1>5. k = Len(h) => h[k].what \in {"model", "closing"}
  BY <1>1 DEF SplitPoints
<1> HIDE DEF g, s, d
<1>6. g[1].what = "summary"
  BY <1>3 DEF Item
<1>7. Len(g) \in Nat /\ Len(g) >= 1 /\ Len(g) + d = Len(h) /\ k = d + 1 /\ d \in Nat
  BY <1>1, <1>3 DEF d
<1>8. PairedFor(g, ex, re)
  <2> SUFFICES ASSUME NEW i \in 2..Len(g)
               PROVE /\ g[i].what = "call" /\ g[i].of \notin ex =>
                          i = Len(g) \/ /\ g[i] = Item("call", g[i].of)
                                        /\ g[i + 1] = Item("response", g[i].of)
                     /\ g[i].what = "response" /\ g[i].of \notin ex \cup re =>
                          /\ i > 1
                          /\ g[i - 1] = Item("call", g[i].of) /\ g[i] = Item("response", g[i].of)
    <3>1. \A i \in 1..Len(g) : i = 1 \/ i \in 2..Len(g)
      BY <1>7
    <3> QED BY <1>6, <3>1 DEF PairedFor
  <2>1. g[i] = h[i + d] /\ i + d \in 1..Len(h) /\ i + d > k
    BY <1>3
  <2>2. i # Len(g) => i + d # Len(h) /\ g[i + 1] = h[(i + d) + 1]
    <3>0. i \in Nat /\ 2 <= i /\ i <= Len(g)
      BY <1>7
    <3>1. i # Len(g) => i + 1 \in 2..Len(g) /\ (i + 1) + d = (i + d) + 1
      BY <1>7, <3>0
    <3> QED BY <1>3, <1>7, <3>0, <3>1
  <2>3. CASE i = 2
    <3>1. i + d = k + 1 /\ k < Len(h)
      BY <1>7, <2>1, <2>3
    <3> QED BY <1>4, <2>1, <3>1
  <2>4. CASE i # 2
    <3>1. i - 1 \in 2..Len(g) /\ (i - 1) + d = (i + d) - 1 /\ i > 1
      BY <1>3, <1>7, <2>4
    <3>2. g[i - 1] = h[(i + d) - 1]
      BY <1>3, <3>1
    <3> QED BY <2>1, <2>2, <3>1, <3>2 DEF PairedFor
  <2> QED BY <2>3, <2>4
<1>9. ASSUME NEW y
      PROVE OpenIn(g, y) <=> OpenIn(h, y)
  <2>1. g # <<>> /\ h # <<>> /\ Last(g) = g[Len(g)] /\ Last(h) = h[Len(h)]
    BY <1>1, <1>7, EmptySeq DEF Last
  <2>2. CASE k = Len(h)
    <3>1. Len(g) = 1
      <4>1. PICK n \in Nat : n = Len(g)
        BY <1>7
      <4>2. n + d = d + 1
        BY <1>7, <2>2, <4>1
      <4>3. n = 1
        BY <1>7, <4>2
      <4> QED BY <4>1, <4>3
    <3>2. g[Len(g)].what = "summary"
      BY <1>6, <3>1
    <3>3. h[Len(h)].what # "call"
      BY <1>5, <2>2
    <3> QED BY <2>1, <3>2, <3>3 DEF OpenIn, Item
  <2>3. CASE k # Len(h)
    <3>1. Len(g) \in 2..Len(g)
      BY <1>1, <1>7, <2>3
    <3>2. g[Len(g)] = h[Len(h)]
      BY <1>3, <1>7, <3>1
    <3> QED BY <2>1, <3>2 DEF OpenIn
  <2> QED BY <2>2, <2>3
<1> QED BY <1>8, <1>9 DEF g, s

(***************************************************************************)
(* Every field of a query, when another one steps and when it is replaced. *)
(***************************************************************************)
Steps(q) == SubmitQuery(q) \/ Asides(q) \/ Turns(q) \/ Streams(q) \/ Ends(q)

LEMMA OthersKept ==
  ASSUME TypeOK, NEW q \in Queries, Steps(q), NEW p \in Queries, p # q
  PROVE \/ query'[p] = query[p]
        \/ /\ Streams(q) /\ query[p].awaits = q /\ query'[p] = [query[p] EXCEPT !.awaits = 0]
<1>1. query[p] \in Query /\ query \in [Queries -> Query]
  BY DEF TypeOK
<1>2. CASE SubmitQuery(q) \/ Asides(q)
  BY <1>1, <1>2 DEF SubmitQuery, Asides, Prepared, ShellEnds, SkillEnds, Proceeds
<1>3. CASE Turns(q)
  BY <1>1, <1>3
     DEF Turns, Limit, Thrown, HookStops, Unsent, BeginCompress, EndCompress, Send, Wait,
         LoopBeforeSend, Enter
<1>4. CASE Ends(q)
  BY <1>1, <1>4 DEF Ends, Processed, RecordResults, StopExecution
<1>5. CASE Streams(q)
  <2>1. query'[p] = query[p] \/ \E r : Over(q, r)
    BY <1>1, <1>5 DEF Streams, Connect, StreamCall, StreamEnds, StreamFails, StreamLeft,
                      ReaderLeaves, LoopInStream
  <2>2. ASSUME NEW r, Over(q, r)
        PROVE \/ query'[p] = query[p]
              \/ query[p].awaits = q /\ query'[p] = [query[p] EXCEPT !.awaits = 0]
    <3>1. query'[p] = [query[p] EXCEPT !.awaits = IF query[p].awaits = q THEN 0
                                                  ELSE query[p].awaits]
      BY <2>2 DEF Over
    <3> QED BY <1>1, <3>1 DEF Query
  <2> QED BY <1>5, <2>1, <2>2
<1> QED BY <1>2, <1>3, <1>4, <1>5 DEF Steps

LEMMA FieldsKept ==
  ASSUME TypeOK, NEW q \in Queries, Steps(q), NEW p \in Queries, p # q
  PROVE /\ query'[p].pc = query[p].pc /\ query'[p].answers = query[p].answers
        /\ query'[p].aborted = query[p].aborted /\ query'[p].calls = query[p].calls
        /\ query'[p].seen = query[p].seen /\ query'[p].chat = query[p].chat
        /\ query'[p].before = query[p].before /\ query'[p].snapshot = query[p].snapshot
<1>1. query[p] \in Query
  BY DEF TypeOK
<1>2. CASE query'[p] = query[p]
  BY <1>2
<1>3. CASE query'[p] = [query[p] EXCEPT !.awaits = 0]
  BY <1>1, <1>3 DEF Query
<1> QED BY <1>2, <1>3, OthersKept

LEMMA ReplacedFields ==
  ASSUME TypeOK, NEW q \in Queries
  PROVE /\ /\ Ended(q).pc = "ended" /\ Ended(q).aborted = FALSE
           /\ Ended(q).calls = FALSE /\ Ended(q).seen = FALSE
        /\ \A r \in {Processing(q), Asking(q)} :
             /\ r.pc = "processed" /\ r.aborted = query[q].aborted
             /\ r.calls = query[q].calls /\ r.seen = FALSE
        /\ /\ Recovered(q).pc = "turn" /\ Recovered(q).aborted = query[q].aborted
           /\ Recovered(q).calls = query[q].calls /\ Recovered(q).seen = FALSE
           /\ Recovered(q).answers = 0
<1>1. query[q] \in Query
  BY DEF TypeOK
<1> QED BY <1>1 DEF Ended, Fresh, Processing, Asking, Recovered, Feedback, Query

\* What a stream that goes on, or is over, leaves of its query.
LEMMA StreamFields ==
  ASSUME TypeOK, NEW q \in Queries, Streams(q)
  PROVE \/ /\ Connect(q) /\ query' = [query EXCEPT ![q].pc = "stream"]
           /\ query[q].pc = "request" /\ history' = history /\ lock' = lock
           /\ query'[q].pc = "stream"
           /\ query'[q].calls = query[q].calls /\ query'[q].seen = query[q].seen
           /\ query'[q].answers = query[q].answers /\ query'[q].chat = query[q].chat
           /\ query'[q].before = query[q].before
        \/ /\ StreamCall(q) /\ query'[q].pc = "stream" /\ history' = history /\ lock' = lock
           /\ query'[q].calls /\ query'[q].seen
           /\ query'[q].answers = query[q].answers /\ query'[q].chat = query[q].chat
           /\ query'[q].before = query[q].before
        \/ /\ StreamFails(q) /\ query'[q].pc = "request" /\ history' = history /\ lock' = lock
           /\ query'[q].calls = query[q].calls /\ query'[q].seen = FALSE
           /\ query'[q].answers = query[q].answers /\ query'[q].chat = query[q].chat
           /\ query'[q].before = query[q].before
        \/ /\ Connect(q) \/ StreamEnds(q) \/ StreamFails(q) \/ StreamLeft(q)
           /\ Connect(q) \/ StreamFails(q) => history' = RolledBack(q)
           /\ StreamLeft(q) => history' = history
           /\ Connect(q) => excused' = excused /\ query[q].pc = "request"
           /\ lock' = IF lock = q THEN 0 ELSE lock
           /\ query'[q].pc \in {"processed", "turn"} /\ query'[q].answers = 0
           /\ query'[q].calls = query[q].calls /\ query'[q].seen = FALSE
           /\ StreamEnds(q) => query'[q].pc = "processed"
<1>1. query[q] \in Query /\ query \in [Queries -> Query]
  BY DEF TypeOK
<1>2. ASSUME NEW r \in {Processing(q), Asking(q), Recovered(q)}, Over(q, r)
      PROVE /\ lock' = IF lock = q THEN 0 ELSE lock
            /\ query'[q].pc \in {"processed", "turn"} /\ query'[q].answers = 0
            /\ query'[q].calls = query[q].calls /\ query'[q].seen = FALSE
            /\ r = Processing(q) => query'[q].pc = "processed"
  <2>1. query'[q] = r /\ lock' = IF lock = q THEN 0 ELSE lock
    BY <1>2 DEF Over
  <2>2. r.answers = 0
    BY RecordsTyped
  <2> QED BY <2>1, <2>2, ReplacedFields
<1>3. CASE Connect(q)
  <2>1. CASE query' = [query EXCEPT ![q].pc = "stream"] /\ UNCHANGED <<history, lock>>
    <3>1. query'[q] = [query[q] EXCEPT !.pc = "stream"]
      BY <1>1, <2>1
    <3> QED BY <1>1, <1>3, <2>1, <3>1 DEF Connect, Query
  <2>2. CASE Over(q, Processing(q)) /\ history' = RolledBack(q)
    <3>1. query[q].pc = "request" /\ excused' = excused
      BY <1>3 DEF Connect, ghosts
    <3>2. ~StreamLeft(q) \/ history' = history
      BY DEF StreamLeft
    <3>3. StreamEnds(q) => FALSE
      BY <3>1 DEF StreamEnds
    <3> QED BY <1>2, <1>3, <2>2, <3>1, <3>2, <3>3
  <2> QED BY <1>3, <2>1, <2>2 DEF Connect
<1>4. CASE StreamCall(q)
  <2>1. query'[q] = [query[q] EXCEPT !.calls = TRUE, !.seen = TRUE] /\ query[q].pc = "stream"
    BY <1>1, <1>4 DEF StreamCall
  <2> QED BY <1>1, <1>4, <2>1 DEF StreamCall, Query
<1>5. CASE StreamEnds(q)
  <2>1. Over(q, Processing(q)) /\ query[q].pc = "stream"
    BY <1>5 DEF StreamEnds
  <2>2. query'[q].pc = "processed" /\ query[q].pc # "request"
    BY <1>2, <2>1
  <2>3. ~Connect(q)
    BY <2>2 DEF Connect
  <2>4. StreamFails(q) => history' = RolledBack(q)
    <3>1. query'[q].pc # "request"
      BY <2>2
    <3>2. query' = [query EXCEPT ![q].pc = "request", ![q].seen = FALSE,
                                 ![q].attempt = @ + 1] => query'[q].pc = "request"
      BY <1>1 DEF Query
    <3> QED BY <3>1, <3>2 DEF StreamFails
  <2>5. StreamLeft(q) => history' = history
    BY DEF StreamLeft
  <2> QED BY <1>2, <1>5, <2>1, <2>2, <2>3, <2>4, <2>5
<1>6. CASE StreamFails(q)
  <2>0. query[q].pc = "stream"
    BY <1>6 DEF StreamFails
  <2>1. CASE /\ UNCHANGED <<history, lock>>
             /\ query' = [query EXCEPT ![q].pc = "request", ![q].seen = FALSE,
                                       ![q].attempt = @ + 1]
    <3>1. query'[q] = [query[q] EXCEPT !.pc = "request", !.seen = FALSE, !.attempt = @ + 1]
      BY <1>1, <2>1
    <3> QED BY <1>1, <1>6, <2>1, <3>1 DEF Query
  <2>2. CASE Over(q, Processing(q)) /\ history' = RolledBack(q)
    <3>1. ~Connect(q)
      BY <2>0 DEF Connect
    <3>2. StreamLeft(q) => history' = history
      BY DEF StreamLeft
    <3>3. query'[q].pc = "processed"
      BY <1>2, <2>2
    <3> QED BY <1>2, <1>6, <2>2, <3>1, <3>2, <3>3
  <2> QED BY <1>6, <2>1, <2>2 DEF StreamFails
<1>7. CASE StreamLeft(q)
  <2>1. PICK r \in {Processing(q), Asking(q), Recovered(q)} : Over(q, r)
    BY <1>7 DEF StreamLeft, ReaderLeaves, LoopInStream
  <2>2. history' = history
    BY <1>7 DEF StreamLeft
  <2>3. CASE Connect(q) \/ StreamFails(q) \/ StreamEnds(q)
    BY <1>3, <1>5, <1>6, <2>3
  <2>4. CASE ~(Connect(q) \/ StreamFails(q) \/ StreamEnds(q))
    BY <1>2, <1>7, <2>1, <2>2, <2>4
  <2> QED BY <2>3, <2>4
<1> QED BY <1>3, <1>4, <1>5, <1>6, <1>7 DEF Streams

LEMMA GhostsGrow ==
  ASSUME TypeOK, Next
  PROVE /\ excused \subseteq excused' /\ retold \subseteq retold'
        /\ overtaken => overtaken'
<1>1. ASSUME NEW q \in Queries, SubmitQuery(q) \/ Asides(q)
      PROVE excused' = excused /\ retold' = retold
  BY <1>1 DEF SubmitQuery, Asides, Prepared, ShellEnds, SkillEnds
<1>2. ASSUME NEW q \in Queries, Turns(q)
      PROVE excused \subseteq excused' /\ retold' = retold
  BY <1>2 DEF Turns, Limit, Thrown, HookStops, Unsent, BeginCompress, EndCompress, Send, Wait,
              LoopBeforeSend, Enter, Recorded, ghosts
<1>3. ASSUME NEW q \in Queries, Streams(q)
      PROVE excused \subseteq excused' /\ retold' = retold /\ overtaken' = overtaken
  BY <1>3 DEF Streams, Connect, StreamCall, StreamEnds, StreamFails, StreamLeft, Discards, ghosts
<1>4. ASSUME NEW q \in Queries, Ends(q)
      PROVE excused \subseteq excused' /\ retold' = retold
  BY <1>4 DEF Ends, Processed, RecordResults, StopExecution, ghosts
<1>5. ASSUME NEW q \in Queries, NEW c \in Queries, Continue(q, c) \/ SendAgain(q, c)
      PROVE excused' = excused /\ retold \subseteq retold'
  BY <1>5 DEF Continue, SendAgain, ghosts
<1>6. ASSUME Cancel
      PROVE excused \subseteq excused' /\ retold' = retold /\ overtaken' = overtaken
  BY <1>6 DEF Cancel, ghosts
<1>7. overtaken => overtaken'
  <2> SUFFICES ASSUME overtaken PROVE overtaken'
    OBVIOUS
  <2>1. ASSUME NEW q \in Queries, SubmitQuery(q) \/ Asides(q)
        PROVE overtaken'
    BY <2>1 DEF SubmitQuery, Asides, Prepared, ShellEnds, SkillEnds, Overtakes
  <2>2. ASSUME NEW q \in Queries, Overtakes(q)
        PROVE overtaken'
    BY <2>2 DEF Overtakes
  <2>3. ASSUME NEW q \in Queries, Turns(q)
        PROVE overtaken' = overtaken \/ Overtakes(q)
    BY <2>3 DEF Turns, Limit, Thrown, HookStops, Unsent, BeginCompress, EndCompress, Send, Wait,
                LoopBeforeSend, Enter, Recorded, ghosts
  <2>4. ASSUME NEW q \in Queries, Ends(q)
        PROVE overtaken' = overtaken \/ Overtakes(q)
    BY <2>4 DEF Ends, Processed, RecordResults, StopExecution, ghosts
  <2>5. ASSUME NEW q \in Queries, NEW c \in Queries, Continue(q, c) \/ SendAgain(q, c)
        PROVE overtaken'
    BY <2>5 DEF Continue, SendAgain, ghosts
  <2> QED BY <1>3, <1>6, <2>1, <2>2, <2>3, <2>4, <2>5 DEF Next, Asides, Turns, Streams, Ends
<1> QED BY <1>1, <1>2, <1>3, <1>4, <1>5, <1>6, <1>7 DEF Next, Asides, Turns, Streams, Ends

(***************************************************************************)
(* Which calls are excused.                                                *)
(***************************************************************************)
CallsOf(q) ==
  /\ query[q].seen => query[q].calls
  /\ query[q].calls /\ q \notin excused =>
       \/ query[q].pc = "stream" /\ query[q].seen
       \/ query[q].pc \in {"processed", "tools"}
  /\ query[q].pc = "new" => query[q] = Fresh
  /\ query[q].pc \in {"prepare", "skill", "shell"} => query[q].answers = 0

LEMMA CallsOfAll == CallsInv <=> \A q \in Queries : CallsOf(q)
BY DEF CallsInv, CallsOf

LEMMA CallsOthers ==
  ASSUME TypeOK, CallsInv, Next, NEW q \in Queries, Steps(q), NEW p \in Queries, p # q
  PROVE CallsOf(p)'
<1>1. excused \subseteq excused'
  BY GhostsGrow
<1>2. query[p].pc = "new" => query'[p] = Fresh
  <2>1. SUFFICES ASSUME query[p].pc = "new" PROVE query'[p] = Fresh
    OBVIOUS
  <2>2. query[p] = Fresh /\ query[p].awaits = 0
    BY <2>1, CallsOfAll DEF CallsOf, Fresh
  <2> QED BY <2>2, OthersKept, QueriesTyped
<1> QED BY <1>1, <1>2, FieldsKept, CallsOfAll DEF CallsOf

LEMMA FreshFields ==
  /\ Fresh.pc = "new" /\ Fresh.aborted = FALSE /\ Fresh.calls = FALSE /\ Fresh.seen = FALSE
  /\ Fresh.answers = 0 /\ Fresh.awaits = 0
BY DEF Fresh

LEMMA TurnFields ==
  ASSUME TypeOK, NEW q \in Queries, Turns(q)
  PROVE /\ query'[q].calls = query[q].calls
        /\ query'[q].seen = query[q].seen \/ query'[q].seen = FALSE
<1>1. query[q] \in Query /\ query \in [Queries -> Query]
  BY DEF TypeOK
<1>2. CASE query'[q] \in {Processing(q), Asking(q), Recovered(q)}
  BY <1>2, ReplacedFields
<1>3. CASE Limit(q) \/ Thrown(q) \/ HookStops(q) \/ LoopBeforeSend(q)
  BY <1>1, <1>2, <1>3 DEF Limit, Thrown, HookStops, Unsent, LoopBeforeSend
<1>4. CASE BeginCompress(q)
  <2>1. query'[q] = [query[q] EXCEPT !.pc = "compress", !.snapshot = history,
                                     !.forced = (query[q].pc = "send")]
    BY <1>1, <1>4 DEF BeginCompress
  <2> QED BY <1>1, <2>1 DEF Query
<1>5. CASE EndCompress(q)
  <2>1. query'[q] = [query[q] EXCEPT !.pc = "send", !.snapshot = <<>>]
    BY <1>1, <1>5 DEF EndCompress
  <2> QED BY <1>1, <2>1 DEF Query
<1>6. CASE Send(q)
  <2>1. PICK h \in WithContext :
          query'[q] = [query[q] EXCEPT !.pc = "request", !.forced = FALSE,
                                     !.chat = chat, !.before = Len(h)]
    BY <1>1, <1>6 DEF Send
  <2> QED BY <1>1, <2>1 DEF Query
<1>7. CASE Wait(q)
  <2>1. query'[q] = [query[q] EXCEPT !.pc = "lock", !.forced = FALSE,
                                     !.chat = chat, !.awaits = lock]
    BY <1>1, <1>7 DEF Wait
  <2> QED BY <1>1, <2>1 DEF Query
<1>8. CASE Enter(q)
  <2>1. query'[q] = [query[q] EXCEPT !.pc = "request", !.before = Len(history)]
    BY <1>1, <1>8 DEF Enter
  <2> QED BY <1>1, <2>1 DEF Query
<1> QED BY <1>3, <1>4, <1>5, <1>6, <1>7, <1>8 DEF Turns

LEMMA CallsStreams ==
  ASSUME TypeOK, CallsInv, Next, NEW q \in Queries, Streams(q)
  PROVE CallsOf(q)'
<1>1. excused \subseteq excused' /\ CallsOf(q)
  BY GhostsGrow, CallsOfAll
<1>2. /\ query'[q].aborted = query[q].aborted /\ query[q].pc \in {"request", "stream"}
      /\ query'[q].pc \in {"request", "stream", "processed", "turn"}
  BY StreamSteps
<1>3. query[q].pc = "request" /\ query[q].calls => q \in excused
  BY <1>1 DEF CallsOf
<1>4. StreamFails(q) \/ StreamLeft(q) => (query[q].seen => q \in excused')
  BY DEF StreamFails, StreamLeft, Discards
<1>5. query[q].calls /\ q \notin excused => query[q].pc = "stream" /\ query[q].seen
  BY <1>1, <1>2 DEF CallsOf
<1>6. \/ query'[q].seen = query[q].seen /\ query'[q].calls = query[q].calls
      \/ query'[q].seen = FALSE
      \/ query'[q].calls
  BY StreamFields
<1>7. query'[q].calls /\ q \notin excused' =>
        \/ query'[q].pc = "stream" /\ query'[q].seen
        \/ query'[q].pc \in {"processed", "tools"}
  <2> SUFFICES ASSUME query'[q].calls, q \notin excused', query'[q].pc # "processed"
               PROVE query'[q].pc = "stream" /\ query'[q].seen
    OBVIOUS
  <2>1. q \notin excused
    BY <1>1
  <2> QED BY <1>1, <1>3, <1>4, <1>5, <2>1, StreamFields
<1> QED BY <1>1, <1>2, <1>6, <1>7 DEF CallsOf

LEMMA CallsKept ==
  ASSUME TypeOK, OrderInv, CallsInv, Next
  PROVE CallsInv'
<1>1. excused \subseteq excused' /\ \A q \in Queries : CallsOf(q) /\ query[q] \in Query
  BY GhostsGrow, CallsOfAll DEF TypeOK
<1>2. ASSUME NEW q \in Queries, Steps(q), CallsOf(q)'
      PROVE CallsInv'
  BY <1>2, CallsOthers DEF CallsInv, CallsOf
<1>3. ASSUME NEW q \in Queries, SubmitQuery(q)
      PROVE CallsInv'
  <2>1. query[q] = Fresh /\ query'[q] = [query[q] EXCEPT !.pc = "prepare"]
    BY <1>1, <1>3 DEF SubmitQuery, Unused, CallsOf, TypeOK
  <2>2. CallsOf(q)'
    BY <2>1 DEF CallsOf, Fresh
  <2> QED BY <1>2, <1>3, <2>2 DEF Steps
<1>9. ASSUME NEW q \in Queries, Asides(q)
      PROVE CallsInv'
  <2>1. query[q].pc \in {"prepare", "skill", "shell"}
    BY <1>9, AsideSteps
  <2>2. CASE query' = [query EXCEPT ![q] = Ended(q)]
    <3>1. CallsOf(q)'
      BY <2>2, ReplacedFields DEF CallsOf, TypeOK
    <3> QED BY <1>2, <1>9, <3>1 DEF Steps
  <2>3. ASSUME NEW pc \in {"turn", "skill", "shell"}, query' = [query EXCEPT ![q].pc = pc]
        PROVE CallsInv'
    <3>1. query'[q] = [query[q] EXCEPT !.pc = pc]
      BY <2>3 DEF TypeOK
    <3>2. /\ query'[q].pc = pc /\ query'[q].calls = query[q].calls
          /\ query'[q].seen = query[q].seen /\ query'[q].answers = query[q].answers
      BY <1>1, <3>1 DEF Query
    <3>3. CallsOf(q)'
      BY <1>1, <2>1, <3>2 DEF CallsOf
    <3> QED BY <1>2, <1>9, <3>3 DEF Steps
  <2> QED BY <1>9, <2>2, <2>3 DEF Asides, Prepared, ShellEnds, SkillEnds, Proceeds
<1>4. ASSUME NEW q \in Queries, Turns(q)
      PROVE CallsInv'
  <2>1. CallsOf(q)'
    BY <1>1, <1>4, TurnFields, TurnSteps DEF CallsOf
  <2> QED BY <1>2, <1>4, <2>1 DEF Steps
<1>5. ASSUME NEW q \in Queries, Streams(q)
      PROVE CallsInv'
  BY <1>2, <1>5, CallsStreams DEF Steps
<1>6. ASSUME NEW q \in Queries, Ends(q)
      PROVE CallsInv'
  <2>1. query'[q] = Ended(q) \/ query'[q] = [query[q] EXCEPT !.pc = "tools"]
    BY <1>6 DEF Ends, Processed, RecordResults, StopExecution, TypeOK
  <2>2. CallsOf(q)'
    <3>1. CASE query'[q] = Ended(q)
      BY <3>1, ReplacedFields DEF CallsOf
    <3>2. CASE query'[q] = [query[q] EXCEPT !.pc = "tools"]
      BY <1>1, <3>2 DEF CallsOf, Query
    <3> QED BY <2>1, <3>1, <3>2
  <2> QED BY <1>2, <1>6, <2>2 DEF Steps
<1>7. ASSUME NEW q \in Queries, NEW c \in Queries, Continue(q, c) \/ SendAgain(q, c)
      PROVE CallsInv'
  <2>1. /\ query[c].pc = "new" /\ query[q].pc # "new"
        /\ \E a : query'[c] = [query[c] EXCEPT !.pc = "turn", !.answers = a]
        /\ query'[q] = Ended(q) \/ query'[q] = [query[q] EXCEPT !.asks = FALSE]
    <3>1. CASE Continue(q, c)
      <4>1. query'[c] = [query[c] EXCEPT !.pc = "turn", !.answers = q] /\ query'[q] = Ended(q)
            /\ query[c].pc = "new" /\ query[q].pc = "tools"
        BY <3>1, ContinueSteps
      <4> QED BY <4>1
    <3>2. CASE SendAgain(q, c)
      <4>1. /\ query'[c] = [query[c] EXCEPT !.pc = "turn", !.answers = last]
            /\ query'[q] = [query[q] EXCEPT !.asks = FALSE]
            /\ query[c].pc = "new" /\ query[q].pc = "ended"
        BY <3>2, AgainSteps
      <4> QED BY <4>1
    <3> QED BY <1>7, <3>1, <3>2
  <2>2. CallsOf(c)'
    <3>1. query[c] = Fresh
      BY <1>1, <2>1 DEF CallsOf
    <3> QED BY <2>1, <3>1 DEF CallsOf, Fresh
  <2>3. CallsOf(q)'
    <3>1. CASE query'[q] = Ended(q)
      BY <3>1, ReplacedFields DEF CallsOf
    <3>2. CASE query'[q] = [query[q] EXCEPT !.asks = FALSE]
      BY <1>1, <2>1, <3>2 DEF CallsOf, Query
    <3> QED BY <2>1, <3>1, <3>2
  <2>4. \A p \in Queries \ {q, c} : CallsOf(p)'
    BY <1>1, <1>7, BothStay DEF CallsOf
  <2>5. \A p \in Queries : CallsOf(p)'
    BY <2>2, <2>3, <2>4
  <2> QED BY <2>5 DEF CallsInv, CallsOf
<1>8. ASSUME Cancel
      PROVE CallsInv'
  <2> SUFFICES ASSUME NEW q \in Queries PROVE CallsOf(q)'
    BY DEF CallsInv, CallsOf
  <2> DEFINE b == query[q].aborted \/ (q = current /\ q \in Active) \/ query[q].pc = "tools"
  <2>1. b \in BOOLEAN /\ query'[q] = [query[q] EXCEPT !.aborted = b]
    BY <1>8 DEF Cancel
  <2>2. query[q] = Fresh => ~b
    BY DEF Active, Fresh
  <2> HIDE DEF b
  <2>3. query[q] = Fresh => query'[q] = Fresh
    <3>1. \A r \in Query : r.aborted = FALSE => [r EXCEPT !.aborted = FALSE] = r
      BY DEF Query
    <3>2. query[q] = Fresh => b = FALSE /\ query[q].aborted = FALSE
      BY <2>1, <2>2, FreshFields
    <3> QED BY <1>1, <2>1, <3>1, <3>2
  <2>4. /\ query'[q].pc = query[q].pc /\ query'[q].calls = query[q].calls
        /\ query'[q].seen = query[q].seen /\ query'[q].answers = query[q].answers
    BY <1>1, <2>1 DEF Query
  <2> QED BY <1>1, <2>1, <2>3, <2>4 DEF CallsOf
<1> QED BY <1>3, <1>4, <1>5, <1>6, <1>7, <1>8, <1>9 DEF Next, Asides, Turns, Streams, Ends

(***************************************************************************)
(* Who has the lock, and who waits for it.                                 *)
(***************************************************************************)
StreamOf(q) ==
  Streaming(q) /\ Attached(q) =>
    /\ lock = q
    /\ query[q].answers = 0 =>
         query[q].before < Len(history) /\ history[query[q].before + 1].what # "response"
WaitOf(q) == query[q].pc = "lock" => Attached(q) /\ query[q].awaits = lock

LEMMA LockOfAll ==
  ASSUME TypeOK
  PROVE LockInv <=> (~overtaken => /\ \A q \in Queries : StreamOf(q)
                                   /\ current # 0 => WaitOf(current))
<1>1. current \in Waiting <=> current # 0 /\ query[current].pc = "lock"
  BY QueriesTyped DEF Waiting, TypeOK
<1> QED BY <1>1 DEF LockInv, StreamOf, WaitOf

LEMMA LockThen ==
  ASSUME TypeOK',
         ~overtaken' => (\A q \in Queries : StreamOf(q)') /\ (current' # 0 => WaitOf(current)')
  PROVE LockInv'
<1>1. current' \in Waiting' <=> current' # 0 /\ query'[current'].pc = "lock"
  BY QueriesTyped DEF Waiting, TypeOK
<1> QED BY <1>1 DEF LockInv, StreamOf, WaitOf

\* The history is as it was, or something follows.
Extends(h, g) == Len(h) <= Len(g) /\ \A i \in 1..Len(h) : g[i] = h[i]

LEMMA ExtendsItself == ASSUME NEW h \in Seq(Entry) PROVE Extends(h, h)
BY DEF Extends

LEMMA ExtendsAppend ==
  ASSUME NEW f \in Seq(Entry), NEW h \in Seq(Entry), NEW e \in Entry, Extends(f, h)
  PROVE Extends(f, Append(h, e))
<1>1. /\ Len(Append(h, e)) = Len(h) + 1 /\ Len(h) \in Nat /\ Len(f) \in Nat
      /\ \A i \in 1..Len(h) : Append(h, e)[i] = h[i]
  BY AppendProperties
<1>2. \A i \in 1..Len(f) : i \in 1..Len(h) /\ Append(h, e)[i] = f[i]
  BY <1>1 DEF Extends
<1> QED BY <1>1, <1>2 DEF Extends

LEMMA ContextExtends ==
  ASSUME TypeOK, NEW h \in WithContext
  PROVE Extends(history, h)
<1>1. history \in Seq(Entry) /\ Item("context", 0) \in Entry
  BY ItemTyped DEF TypeOK
<1>2. h = history \/ h = Append(history, Item("context", 0))
  BY DEF WithContext
<1> QED BY <1>1, <1>2, ExtendsItself, ExtendsAppend

\* A query of which a stream or a wait does not depend, or that has neither.
Unlocked(p) ==
  \/ /\ query'[p].pc = query[p].pc /\ query'[p].chat = query[p].chat
     /\ query'[p].answers = query[p].answers /\ query'[p].before = query[p].before
     /\ query'[p].awaits = query[p].awaits
  \/ query'[p].pc \notin {"request", "stream", "lock"}
  \/ query'[p].pc = "lock" /\ query'[p].chat = chat' /\ query'[p].awaits = lock'

LEMMA LockStays ==
  ASSUME TypeOK, TypeOK', LockInv, overtaken => overtaken', chat' = chat, lock' = lock,
         Extends(history, history'), \A p \in Queries : Unlocked(p),
         current' = current \/ query'[current'].pc # "lock"
  PROVE LockInv'
<1> SUFFICES ASSUME ~overtaken'
             PROVE /\ \A q \in Queries : StreamOf(q)'
                   /\ current' # 0 => WaitOf(current)'
  BY LockThen
<1>1. /\ \A q \in Queries : StreamOf(q)
      /\ current # 0 => WaitOf(current)
  BY LockOfAll
<1>2. \A q \in Queries : StreamOf(q)'
  <2> SUFFICES ASSUME NEW q \in Queries, Streaming(q)', Attached(q)'
               PROVE /\ lock' = q
                     /\ query'[q].answers = 0 =>
                          /\ query'[q].before < Len(history')
                          /\ history'[query'[q].before + 1].what # "response"
    BY DEF StreamOf
  <2>1. /\ query'[q].pc \in {"request", "stream"} /\ query'[q].chat = chat
        /\ query'[q].pc = query[q].pc /\ query'[q].chat = query[q].chat
        /\ query'[q].answers = query[q].answers /\ query'[q].before = query[q].before
    BY DEF Streaming, Attached, Unlocked
  <2>2. Streaming(q) /\ Attached(q) /\ StreamOf(q)
    BY <1>1, <2>1 DEF Streaming, Attached
  <2>3. query[q].before \in Nat /\ Len(history) \in Nat /\ Len(history') \in Nat
    <3>1. query[q] \in Query /\ history \in Seq(Entry) /\ history' \in Seq(Entry)
      BY DEF TypeOK
    <3> QED BY <3>1 DEF Query
  <2>4. query[q].before < Len(history) =>
          /\ query[q].before < Len(history')
          /\ history'[query[q].before + 1] = history[query[q].before + 1]
    <3>1. query[q].before < Len(history) => query[q].before + 1 \in 1..Len(history)
      BY <2>3
    <3> QED BY <2>3, <3>1 DEF Extends
  <2> QED BY <2>1, <2>2, <2>4 DEF StreamOf
<1>3. current' # 0 => WaitOf(current)'
  <2> SUFFICES ASSUME current' # 0, query'[current'].pc = "lock"
               PROVE query'[current'].chat = chat' /\ query'[current'].awaits = lock'
    BY DEF WaitOf, Attached
  <2>1. current' = current /\ current \in Queries
    BY DEF TypeOK
  <2> QED BY <1>1, <2>1 DEF WaitOf, Attached, Unlocked
<1> QED BY <1>2, <1>3

\* A message that is text has no response where it begins.
LEMMA MessageBegins ==
  ASSUME TypeOK, NEW q \in Queries, NEW h \in Seq(Entry), query[q].answers = 0
  PROVE LET g == Append(Closed(q, h), Message(q)) IN
        Len(h) < Len(g) /\ g[Len(h) + 1].what # "response"
<1> DEFINE c == Closed(q, h)
           g == Append(c, Message(q))
<1>1. Message(q) = Item("user", q) /\ Message(q) \in Entry /\ Message(q).what = "user"
  BY MessageTyped DEF Message, Item
<1>2. ASSUME c = h
      PROVE Len(h) < Len(g) /\ g[Len(h) + 1].what # "response"
  <2>1. Len(g) = Len(h) + 1 /\ g[Len(h) + 1] = Message(q) /\ Len(h) \in Nat
    BY <1>1, <1>2, AppendProperties
  <2> QED BY <1>1, <2>1
<1>3. ASSUME c = Append(h, Item("closing", 0))
      PROVE Len(h) < Len(g) /\ g[Len(h) + 1].what # "response"
  <2>1. Item("closing", 0) \in Entry /\ Item("closing", 0).what = "closing"
    BY ItemTyped DEF Item
  <2>2. c \in Seq(Entry) /\ Len(c) = Len(h) + 1 /\ c[Len(h) + 1] = Item("closing", 0)
        /\ Len(h) \in Nat
    BY <1>3, <2>1, AppendProperties
  <2> HIDE DEF c
  <2>3. Len(g) = Len(c) + 1 /\ \A i \in 1..Len(c) : g[i] = c[i]
    BY <1>1, <2>2, AppendProperties
  <2>4. Len(h) + 1 \in 1..Len(c)
    BY <2>2
  <2> QED BY <2>1, <2>2, <2>3, <2>4
<1>4. c = h \/ c = Append(h, Item("closing", 0))
  BY DEF Closed
<1>5. Len(h) < Len(g) /\ g[Len(h) + 1].what # "response"
  <2> HIDE DEF c, g
  <2> QED BY <1>2, <1>3, <1>4
<1> QED BY <1>5

\* Steps that leave the locks alone.
LEMMA LockQuiet ==
  ASSUME TypeOK, TypeOK', LockInv, Next, NEW q \in Queries,
         \/ SubmitQuery(q) \/ Asides(q) \/ Limit(q) \/ Thrown(q) \/ HookStops(q)
         \/ BeginCompress(q) \/ Wait(q) \/ LoopBeforeSend(q) \/ Ends(q)
         \/ (EndCompress(q) /\ chat' = chat)
  PROVE LockInv'
<1>0. query[q] \in Query /\ history \in Seq(Entry) /\ query \in [Queries -> Query]
  BY DEF TypeOK
<1>1. overtaken => overtaken'
  BY GhostsGrow
<1>2. chat' = chat /\ lock' = lock /\ Extends(history, history')
  <2>1. CASE SubmitQuery(q) \/ Limit(q) \/ Thrown(q) \/ BeginCompress(q)
    BY <1>0, <2>1, ExtendsItself DEF SubmitQuery, Limit, Thrown, Unsent, BeginCompress
  <2>6. CASE Asides(q)
    <3>1. Item("user", q) \in Entry /\ Item("call", 0) \in Entry /\ Item("response", 0) \in Entry
      BY ItemTyped
    <3>2. /\ Extends(history, history) /\ Extends(history, Append(history, Item("user", q)))
          /\ Extends(history, Append(history, Item("call", 0)))
          /\ Append(history, Item("call", 0)) \in Seq(Entry)
      BY <1>0, <3>1, ExtendsItself, ExtendsAppend, AppendProperties
    <3>3. Extends(history, Append(Append(history, Item("call", 0)), Item("response", 0)))
      BY <1>0, <3>1, <3>2, ExtendsAppend
    <3>4. CASE Prepared(q)
      BY <3>2, <3>4 DEF Prepared
    <3>5. CASE ShellEnds(q) \/ SkillEnds(q)
      BY <3>2, <3>3, <3>5, AsideHistory DEF ShellEnds, SkillEnds
    <3> QED BY <2>6, <3>4, <3>5 DEF Asides
  <2>7. CASE HookStops(q)
    BY <1>0, <2>7, MessageTyped, ExtendsItself, ExtendsAppend DEF HookStops
  <2>2. CASE EndCompress(q) /\ chat' = chat
    <3>1. chat + 1 # chat
      BY ConversationAssumption DEF TypeOK
    <3>2. history' = history /\ lock' = lock
      BY <2>2, <3>1 DEF EndCompress
    <3> QED BY <1>0, <2>2, <3>2, ExtendsItself
  <2>3. CASE Wait(q)
    BY <2>3, ContextExtends DEF Wait
  <2>4. CASE LoopBeforeSend(q)
    <3> DEFINE a == query[q].answers
    <3>1. PICK h \in WithContext :
            history' = IF a # 0 THEN Append(h, Item("response", a)) ELSE h
      BY <2>4 DEF LoopBeforeSend
    <3>2. h \in Seq(Entry) /\ Extends(history, h) /\ Item("response", a) \in Entry
      BY <1>0, ContextTyped, ContextExtends, ItemTyped DEF Query
    <3> HIDE DEF a
    <3>3. Extends(history, history')
      BY <1>0, <3>1, <3>2, ExtendsAppend
    <3> QED BY <2>4, <3>3 DEF LoopBeforeSend
  <2>5. CASE Ends(q)
    <3>1. Extends(history, history) /\ Extends(history, Append(history, Item("response", q)))
      BY <1>0, ItemTyped, ExtendsItself, ExtendsAppend
    <3> QED BY <2>5, <3>1 DEF Ends, Processed, RecordResults, StopExecution
  <2> QED BY <2>1, <2>2, <2>3, <2>4, <2>5, <2>6, <2>7
<1>3. Steps(q)
  BY DEF Steps, Turns
<1>4. ~Streams(q)
  <2>1. query[q].pc \notin {"request", "stream"}
    <3>1. CASE SubmitQuery(q) \/ Asides(q)
      BY <3>1, SubmitSteps, AsideSteps
    <3>2. CASE Turns(q)
      BY <3>2, TurnSteps
    <3>3. CASE Ends(q)
      BY <3>3, EndSteps
    <3> QED BY <3>1, <3>2, <3>3 DEF Turns
  <2> QED BY <2>1, StreamSteps
<1>5. \A p \in Queries : p # q => Unlocked(p)
  BY <1>3, <1>4, OthersKept DEF Unlocked
<1>6. Unlocked(q)
  <2>1. CASE Wait(q)
    <3>1. query'[q] = [query[q] EXCEPT !.pc = "lock", !.forced = FALSE,
                                     !.chat = chat, !.awaits = lock]
      BY <1>0, <2>1 DEF Wait
    <3>2. /\ query'[q].pc = "lock" /\ query'[q].chat = chat /\ query'[q].awaits = lock
      BY <1>0, <3>1 DEF Query
    <3> QED BY <1>2, <3>2 DEF Unlocked
  <2>2. CASE query'[q].pc \notin {"request", "stream", "lock"}
    BY <2>2 DEF Unlocked
  <2>3. CASE SubmitQuery(q) \/ Asides(q)
    BY <2>2, <2>3, SubmitSteps, AsideSteps
  <2>4. CASE Limit(q) \/ Thrown(q) \/ HookStops(q) \/ LoopBeforeSend(q)
    BY <1>0, <2>2, <2>4, ReplacedFields DEF Limit, Thrown, HookStops, Unsent, LoopBeforeSend
  <2>5. CASE BeginCompress(q)
    <3>1. query'[q] = [query[q] EXCEPT !.pc = "compress", !.snapshot = history,
                                     !.forced = (query[q].pc = "send")]
      BY <1>0, <2>5 DEF BeginCompress
    <3> QED BY <1>0, <2>2, <3>1 DEF Query
  <2>6. CASE EndCompress(q)
    <3>1. query'[q] = [query[q] EXCEPT !.pc = "send", !.snapshot = <<>>]
      BY <1>0, <2>6 DEF EndCompress
    <3> QED BY <1>0, <2>2, <3>1 DEF Query
  <2>7. CASE Ends(q)
    BY <2>2, <2>7, EndSteps
  <2> QED BY <2>1, <2>3, <2>4, <2>5, <2>6, <2>7
<1>7. current' = current \/ query'[current'].pc # "lock"
  <2>1. SubmitQuery(q) => current' = q /\ query'[q].pc = "prepare"
    BY SubmitSteps DEF SubmitQuery
  <2>2. ~SubmitQuery(q) => current' = current
    BY DEF Asides, Prepared, ShellEnds, SkillEnds, Limit, Thrown, HookStops, Unsent,
           BeginCompress, Wait, LoopBeforeSend, Ends, Processed, RecordResults, StopExecution,
           EndCompress, ui
  <2> QED BY <2>1, <2>2
<1>8. \A p \in Queries : Unlocked(p)
  BY <1>5, <1>6
<1> QED BY <1>1, <1>2, <1>7, <1>8, LockStays

LEMMA LockCancel ==
  ASSUME TypeOK, TypeOK', LockInv, Cancel
  PROVE LockInv'
<1>1. \A p \in Queries : Unlocked(p)
  <2> SUFFICES ASSUME NEW p \in Queries PROVE Unlocked(p)
    OBVIOUS
  <2> DEFINE b == query[p].aborted \/ (p = current /\ p \in Active) \/ query[p].pc = "tools"
  <2>1. query'[p] = [query[p] EXCEPT !.aborted = b]
    BY DEF Cancel
  <2>2. query[p] \in Query
    BY DEF TypeOK
  <2> HIDE DEF b
  <2> QED BY <2>1, <2>2 DEF Unlocked, Query
<1>2. /\ chat' = chat /\ lock' = lock /\ current' = current /\ overtaken' = overtaken
      /\ Extends(history, history')
  BY ExtendsItself DEF Cancel, TypeOK, ghosts
<1> QED BY <1>1, <1>2, LockStays

LEMMA LockContinues ==
  ASSUME TypeOK, TypeOK', OrderInv, LockInv, Next, NEW q \in Queries, NEW c \in Queries,
         Continue(q, c) \/ SendAgain(q, c)
  PROVE LockInv'
<1>1. /\ chat' = chat /\ lock' = lock /\ current' = c /\ Extends(history, history')
      /\ overtaken => overtaken'
  BY GhostsGrow, ExtendsItself DEF Continue, SendAgain, TypeOK
<1>2. query'[c].pc = "turn" /\ query'[q].pc = "ended"
  <2>1. CASE Continue(q, c)
    BY <2>1, ContinueSteps
  <2>2. CASE SendAgain(q, c)
    BY <2>2, AgainSteps
  <2> QED BY <2>1, <2>2
<1>3. \A p \in Queries : Unlocked(p)
  BY <1>2, BothStay DEF Unlocked
<1> QED BY <1>1, <1>2, <1>3, LockStays

\* A new chat has no stream.
LEMMA LockCompress ==
  ASSUME TypeOK, TypeOK', LockInv, Next, NEW q \in Queries, EndCompress(q), chat' = chat + 1
  PROVE LockInv'
<1>0. query[q] \in Query /\ query \in [Queries -> Query] /\ chat \in Nat
  BY ConversationAssumption DEF TypeOK
<1>1. Steps(q) /\ Overtakes(q) /\ current' = current
  BY DEF Steps, Turns, EndCompress, ui
<1>2. query'[q].pc = "send"
  <2>1. query'[q] = [query[q] EXCEPT !.pc = "send", !.snapshot = <<>>]
    BY <1>0 DEF EndCompress
  <2> QED BY <1>0, <2>1 DEF Query
<1> SUFFICES ASSUME ~overtaken'
             PROVE /\ \A p \in Queries : StreamOf(p)'
                   /\ current' # 0 => WaitOf(current)'
  BY LockThen
<1>3. current' = q
  BY <1>1 DEF Overtakes
<1>4. ASSUME NEW p \in Queries, Streaming(p)', Attached(p)'
      PROVE FALSE
  <2>1. p # q /\ query'[p].chat = chat + 1
    BY <1>2, <1>4 DEF Streaming, Attached
  <2>2. query'[p].chat = query[p].chat /\ query[p].chat <= chat
    BY <1>1, <2>1, FieldsKept DEF TypeOK
  <2> QED BY <1>0, <2>1, <2>2
<1> QED BY <1>2, <1>3, <1>4 DEF StreamOf, WaitOf

\* The chat is asked, at once or after a stream: nobody else has a stream of it.
LEMMA LockSend ==
  ASSUME TypeOK, TypeOK', LockInv, Next, NEW q \in Queries, Send(q) \/ Enter(q)
  PROVE LockInv'
<1>0. query[q] \in Query /\ query \in [Queries -> Query] /\ history \in Seq(Entry)
  BY DEF TypeOK
<1>1. /\ Steps(q) /\ Overtakes(q) /\ current' = current /\ chat' = chat /\ ~Streams(q)
      /\ query[q].pc \in {"turn", "send", "lock"}
  <2>1. query[q].pc \in {"turn", "send", "lock"}
    BY DEF Send, Enter, Woken, Waiting
  <2>2. ~Streams(q)
    BY <2>1, StreamSteps
  <2> QED BY <2>1, <2>2 DEF Steps, Turns, Send, Enter, Recorded, ui
<1> SUFFICES ASSUME ~overtaken'
             PROVE /\ \A p \in Queries : StreamOf(p)'
                   /\ current' # 0 => WaitOf(current)'
  BY LockThen
<1>2. /\ ~overtaken /\ current' = q /\ current = q
      /\ (\A p \in Queries : StreamOf(p)) /\ WaitOf(q)
  BY <1>1, GhostsGrow, LockOfAll, QueriesTyped DEF Overtakes
<1>3. lock = 0
  <2>1. Enter(q) => query[q].pc = "lock" /\ query[q].awaits = 0
    BY DEF Enter, Woken, Waiting
  <2> QED BY <1>2, <2>1 DEF Send, WaitOf
<1>4. \A p \in Queries : p # q => query'[p] = query[p]
  BY <1>1, OthersKept
<1>5. ASSUME NEW p \in Queries, p # q, Streaming(p)', Attached(p)'
      PROVE FALSE
  <2>1. Streaming(p) /\ Attached(p)
    BY <1>1, <1>4, <1>5 DEF Streaming, Attached
  <2> QED BY <1>2, <1>3, <2>1, QueriesTyped DEF StreamOf
<1>6. \E h \in Seq(Entry) :
        \/ /\ query'[q].before = Len(h) /\ query'[q].chat = chat
           /\ history' = Append(Closed(q, h), Message(q)) /\ lock' = q
        \/ query'[q].chat # chat'
  <2>1. CASE Send(q)
    <3>1. PICK h \in WithContext :
            /\ query' = [query EXCEPT ![q].pc = "request", ![q].forced = FALSE,
                                    ![q].chat = chat, ![q].before = Len(h)]
            /\ Locks(q, h, TRUE)
      BY <2>1 DEF Send
    <3>2. query'[q] = [query[q] EXCEPT !.pc = "request", !.forced = FALSE,
                                     !.chat = chat, !.before = Len(h)]
      BY <1>0, <3>1
    <3>3. query'[q].before = Len(h) /\ query'[q].chat = chat
      BY <1>0, <3>2 DEF Query
    <3>4. h \in Seq(Entry)
      BY ContextTyped
    <3> QED BY <3>1, <3>3, <3>4 DEF Locks
  <2>2. CASE Enter(q)
    <3>1. query'[q] = [query[q] EXCEPT !.pc = "request", !.before = Len(history)]
      BY <1>0, <2>2 DEF Enter
    <3>2. query'[q].before = Len(history) /\ query'[q].chat = query[q].chat
      BY <1>0, <3>1 DEF Query
    <3>3. CASE Attached(q)
      BY <1>0, <2>2, <3>2, <3>3 DEF Enter, Locks, Attached
    <3>4. CASE ~Attached(q)
      BY <1>0, <1>1, <3>2, <3>4 DEF Attached
    <3> QED BY <3>3, <3>4
  <2> QED BY <2>1, <2>2
<1>7. query'[q].pc = "request" /\ query'[q].answers = query[q].answers
  <2>1. query'[q].pc = "request"
    <3>1. CASE Send(q)
      <4>1. PICK h \in WithContext :
              query'[q] = [query[q] EXCEPT !.pc = "request", !.forced = FALSE,
                                     !.chat = chat, !.before = Len(h)]
        BY <1>0, <3>1 DEF Send
      <4> QED BY <1>0, <4>1 DEF Query
    <3>2. CASE Enter(q)
      <4>1. query'[q] = [query[q] EXCEPT !.pc = "request", !.before = Len(history)]
        BY <1>0, <3>2 DEF Enter
      <4> QED BY <1>0, <4>1 DEF Query
    <3> QED BY <3>1, <3>2
  <2>2. query'[q].answers = query[q].answers
    <3>1. CASE Send(q)
      <4>1. PICK h \in WithContext :
              query'[q] = [query[q] EXCEPT !.pc = "request", !.forced = FALSE,
                                     !.chat = chat, !.before = Len(h)]
        BY <1>0, <3>1 DEF Send
      <4> QED BY <1>0, <4>1 DEF Query
    <3>2. CASE Enter(q)
      <4>1. query'[q] = [query[q] EXCEPT !.pc = "request", !.before = Len(history)]
        BY <1>0, <3>2 DEF Enter
      <4> QED BY <1>0, <4>1 DEF Query
    <3> QED BY <3>1, <3>2
  <2> QED BY <2>1, <2>2
<1>8. StreamOf(q)'
  <2> SUFFICES ASSUME Attached(q)'
               PROVE /\ lock' = q
                     /\ query'[q].answers = 0 =>
                          /\ query'[q].before < Len(history')
                          /\ history'[query'[q].before + 1].what # "response"
    BY DEF StreamOf
  <2>1. PICK h \in Seq(Entry) :
          /\ query'[q].before = Len(h)
          /\ history' = Append(Closed(q, h), Message(q)) /\ lock' = q
    BY <1>6 DEF Attached
  <2> QED BY <1>7, <2>1, MessageBegins
<1> QED BY <1>2, <1>5, <1>7, <1>8 DEF StreamOf, WaitOf

\* A stream goes on or is over, and those who wait for it wait no more.
LEMMA LockStreams ==
  ASSUME TypeOK, TypeOK', LockInv, Next, NEW q \in Queries, Streams(q)
  PROVE LockInv'
<1>0. query[q] \in Query /\ query \in [Queries -> Query] /\ history \in Seq(Entry)
  BY DEF TypeOK
<1>1. Steps(q) /\ chat' = chat /\ current' = current /\ Streaming(q)
  BY StreamSteps
     DEF Streaming, Steps, Streams, Connect, StreamCall, StreamEnds, StreamFails, StreamLeft, ui
<1> SUFFICES ASSUME ~overtaken'
             PROVE /\ \A p \in Queries : StreamOf(p)'
                   /\ current' # 0 => WaitOf(current)'
  BY LockThen
<1>2. /\ (\A p \in Queries : StreamOf(p)) /\ (current # 0 => WaitOf(current))
  BY GhostsGrow, LockOfAll
<1>3. ASSUME NEW p \in Queries, p # q, Streaming(p)', Attached(p)'
      PROVE StreamOf(p)'
  <2>1. /\ query'[p].answers = query[p].answers /\ query'[p].before = query[p].before
        /\ Streaming(p) /\ Attached(p)
    BY <1>1, <1>3, FieldsKept DEF Streaming, Attached
  <2>2. lock = p
    BY <1>2, <2>1 DEF StreamOf
  <2>3. ~Attached(q)
    BY <1>1, <1>2, <1>3, <2>2 DEF StreamOf
  <2>4. history' = history
    BY <2>3, StreamFields DEF StreamEnds, RolledBack
  <2>5. lock' = lock
    BY <1>3, <2>2, StreamFields
  <2> QED BY <1>2, <2>1, <2>2, <2>4, <2>5 DEF StreamOf
<1>4. StreamOf(q)'
  <2> SUFFICES ASSUME Streaming(q)', Attached(q)' PROVE StreamOf(q)'
    BY DEF StreamOf
  <2>1. query'[q].pc \in {"request", "stream"}
    BY DEF Streaming
  <2>2. /\ query'[q].answers = query[q].answers /\ query'[q].chat = query[q].chat
        /\ query'[q].before = query[q].before /\ history' = history /\ lock' = lock
    BY <2>1, StreamFields
  <2> QED BY <1>1, <1>2, <2>2 DEF StreamOf, Streaming, Attached
<1>5. ASSUME current' # 0, query'[current'].pc = "lock"
      PROVE query'[current'].chat = chat' /\ query'[current'].awaits = lock'
  <2>1. PICK p \in Queries : p = current /\ p # q
    <3>1. current \in Queries
      BY <1>1, <1>5 DEF TypeOK
    <3>2. query'[q].pc # "lock"
      BY StreamSteps
    <3> QED BY <1>1, <1>5, <3>1, <3>2
  <2>2. query[p].pc = "lock" /\ query'[p].chat = query[p].chat
    BY <1>1, <1>5, <2>1, FieldsKept
  <2>3. query[p].chat = chat /\ query[p].awaits = lock /\ query[p] \in Query
    BY <1>2, <2>1, <2>2, QueriesTyped DEF WaitOf, Attached, TypeOK
  <2>4. \/ query'[p] = query[p] /\ lock' = lock
        \/ \E r : Over(q, r)
    BY <1>0, <2>1 DEF Streams, Connect, StreamCall, StreamEnds, StreamFails, StreamLeft,
                      ReaderLeaves, LoopInStream
  <2>5. ASSUME NEW r, Over(q, r)
        PROVE query'[p].awaits = lock'
    <3>1. /\ lock' = IF lock = q THEN 0 ELSE lock
          /\ query'[p] = [query[p] EXCEPT !.awaits = IF query[p].awaits = q THEN 0
                                                     ELSE query[p].awaits]
      BY <2>1, <2>5 DEF Over
    <3>2. query'[p].awaits = IF query[p].awaits = q THEN 0 ELSE query[p].awaits
      BY <2>3, <3>1 DEF Query
    <3> QED BY <2>3, <3>1, <3>2
  <2> QED BY <1>1, <2>1, <2>2, <2>3, <2>4, <2>5
<1> QED BY <1>3, <1>4, <1>5 DEF StreamOf, WaitOf, Attached

LEMMA LockKept ==
  ASSUME TypeOK, OrderInv, LockInv, Next
  PROVE LockInv'
<1>1. TypeOK'
  BY TypesKept
<1>2. ASSUME NEW q \in Queries, EndCompress(q)
      PROVE chat' = chat \/ chat' = chat + 1
  BY <1>2 DEF EndCompress
<1> QED BY <1>1, <1>2, LockQuiet, LockCancel, LockContinues, LockCompress, LockSend, LockStreams
        DEF Next, Asides, Streams, Ends

(***************************************************************************)
(* Whose calls the current query is to answer.                             *)
(***************************************************************************)
Owing == {y \in Queries : Owes(y)}
Unasked == {"turn", "compress", "send", "lock"}

LEMMA MatchesSame ==
  ASSUME NEW h \in Seq(Entry)
  PROVE Matches(h) <=> MatchesFor(h, excused, retold, Owing)
<1>1. DOMAIN h = 1..Len(h) /\ \A i \in 1..Len(h) : (i - 1) + 1 = i
  OBVIOUS
<1>2. PairedIn(h) <=> PairedFor(h, excused, retold)
  BY <1>1 DEF PairedIn, Pair, PairedFor
<1>3. \A y \in Queries \cup {0} : Owes(y) <=> y \in Owing
  BY QueriesTyped DEF Owing, Owes
<1> QED BY <1>2, <1>3 DEF Matches, MatchesFor

LEMMA HistoryMatches ==
  ASSUME history' \in Seq(Entry), MatchesFor(history', excused', retold', Owing')
  PROVE Matches(history)'
<1>1. \A y \in Queries \cup {0} : Owes(y)' <=> y \in Owing'
  BY QueriesTyped DEF Owing, Owes
<1>2. DOMAIN history' = 1..Len(history') /\ \A i \in 1..Len(history') : (i - 1) + 1 = i
  OBVIOUS
<1>3. PairedIn(history)'
  BY <1>2 DEF MatchesFor, PairedIn, Pair, PairedFor
<1> QED BY <1>1, <1>3 DEF Matches, MatchesFor, OpenIn

LEMMA SnapshotMatches ==
  ASSUME query'[current'].snapshot \in Seq(Entry),
         MatchesFor(query'[current'].snapshot, excused', retold', Owing')
  PROVE Matches(query[current].snapshot)'
<1>1. \A y \in Queries \cup {0} : Owes(y)' <=> y \in Owing'
  BY QueriesTyped DEF Owing, Owes
<1>2. /\ DOMAIN (query'[current'].snapshot) = 1..Len(query'[current'].snapshot)
      /\ \A i \in 1..Len(query'[current'].snapshot) : (i - 1) + 1 = i
  OBVIOUS
<1>3. PairedIn(query[current].snapshot)'
  BY <1>2 DEF MatchesFor, PairedIn, Pair, PairedFor
<1> QED BY <1>1, <1>3 DEF Matches, MatchesFor, OpenIn

LEMMA PairOfAll ==
  ASSUME TypeOK, PairInv, ~overtaken
  PROVE /\ MatchesFor(history, excused, retold, Owing)
        /\ lock = 0 \/ Shut(history, excused)
        /\ current # 0 /\ query[current].pc = "compress" =>
             MatchesFor(query[current].snapshot, excused, retold, Owing)
<1>1. history \in Seq(Entry) /\ (current # 0 => query[current].snapshot \in Seq(Entry))
  BY DEF TypeOK, Query
<1> QED BY <1>1, MatchesSame DEF PairInv, Shut

\* What the current query has under compression, a step leaves or begins.
SnapshotKept ==
  current' # 0 /\ query'[current'].pc = "compress" =>
    \/ /\ current' = current /\ query[current].pc = "compress" /\ Owing' = Owing
       /\ query'[current].snapshot = query[current].snapshot
    \/ query'[current'].snapshot = history'

LEMMA PairFrom ==
  ASSUME TypeOK, TypeOK', PairInv, overtaken => overtaken',
         excused \subseteq excused', retold \subseteq retold',
         ~overtaken' => /\ MatchesFor(history', excused', retold', Owing')
                        /\ lock' = 0 \/ Shut(history', excused')
                        /\ SnapshotKept
  PROVE PairInv'
<1> SUFFICES ASSUME ~overtaken'
             PROVE /\ Matches(history)'
                   /\ \A y \in (Queries \cup {0}) \ excused' : OpenIn(history', y) => lock' = 0
                   /\ current' # 0 /\ query'[current'].pc = "compress" =>
                        Matches(query[current].snapshot)'
  BY DEF PairInv, OpenIn
<1>1. history' \in Seq(Entry) /\ Matches(history)'
  BY HistoryMatches DEF TypeOK
<1>2. \A y \in (Queries \cup {0}) \ excused' : OpenIn(history', y) => lock' = 0
  BY DEF Shut
<1>3. ASSUME current' # 0, query'[current'].pc = "compress"
      PROVE Matches(query[current].snapshot)'
  <2>1. query'[current'].snapshot \in Seq(Entry)
    BY <1>3 DEF TypeOK, Query
  <2>2. MatchesFor(query'[current'].snapshot, excused', retold', Owing')
    <3>1. CASE query'[current'].snapshot = history'
      BY <3>1
    <3>2. CASE /\ current' = current /\ query[current].pc = "compress" /\ Owing' = Owing
               /\ query'[current].snapshot = query[current].snapshot
      <4>1. MatchesFor(query'[current'].snapshot, excused, retold, Owing)
        BY <1>3, <3>2, PairOfAll
      <4> QED BY <2>1, <3>2, <4>1, MatchesGrows
    <3> QED BY <1>3, <3>1, <3>2 DEF SnapshotKept
  <2> QED BY <2>1, <2>2, SnapshotMatches
<1> QED BY <1>1, <1>2, <1>3

\* The history stays, and whose calls are to be answered does, but for what is excused.
LEMMA PairStays ==
  ASSUME TypeOK, TypeOK', PairInv, overtaken => overtaken', history' = history,
         excused \subseteq excused', retold \subseteq retold', lock' \in {lock, 0},
         ~overtaken' => /\ Owing \ excused' \subseteq Owing'
                        /\ Owing' \ (excused' \cup retold') \subseteq Owing
                        /\ SnapshotKept
  PROVE PairInv'
<1> SUFFICES ASSUME ~overtaken'
             PROVE /\ MatchesFor(history', excused', retold', Owing')
                   /\ lock' = 0 \/ Shut(history', excused')
  BY PairFrom
<1>1. history \in Seq(Entry) /\ ~overtaken
  BY DEF TypeOK
<1>2. MatchesFor(history', excused', retold', Owing')
  BY <1>1, PairOfAll, MatchesGrows
<1>3. Shut(history, excused) => Shut(history', excused')
  BY DEF Shut
<1> QED BY <1>1, <1>2, <1>3, PairOfAll

\* The history changes, and no call is open then.
LEMMA PairCloses ==
  ASSUME TypeOK, TypeOK', PairInv, overtaken => overtaken',
         excused \subseteq excused', retold \subseteq retold',
         ~overtaken' => /\ PairedFor(history', excused', retold') /\ Shut(history', excused')
                        /\ Owing' \subseteq excused' \cup retold'
                        /\ SnapshotKept
  PROVE PairInv'
<1> SUFFICES ASSUME ~overtaken'
             PROVE /\ MatchesFor(history', excused', retold', Owing')
                   /\ Shut(history', excused')
  BY PairFrom
<1> QED BY DEF MatchesFor, Shut

\* Whose calls they are.
LEMMA OwingIs ==
  ASSUME TypeOK
  PROVE /\ current = 0 => Owing = {}
        /\ current # 0 =>
             /\ query[current].pc \in Unasked => Owing = {query[current].answers} \ {0}
             /\ query[current].pc = "tools" => Owing = {current}
             /\ query[current].pc = "processed" =>
                  Owing = IF query[current].calls THEN {current} ELSE {}
             /\ query[current].pc \in {"new", "prepare", "skill", "shell", "request", "stream",
                                      "ended"} =>
                  Owing = {}
<1>1. CASE current = 0
  BY <1>1 DEF Owing, Owes
<1>2. CASE current # 0
  <2>1. current \in Queries /\ query[current] \in Query
    BY <1>2 DEF TypeOK
  <2>2. query[current].answers \in Queries \cup {0}
    BY <2>1 DEF Query
  <2> QED BY <1>2, <2>1, <2>2, QueriesTyped DEF Owing, Owes, Unasked
<1> QED BY <1>1, <1>2

LEMMA OwingThen ==
  ASSUME TypeOK'
  PROVE /\ current' = 0 => Owing' = {}
        /\ current' # 0 =>
             /\ query'[current'].pc \in Unasked => Owing' = {query'[current'].answers} \ {0}
             /\ query'[current'].pc = "tools" => Owing' = {current'}
             /\ query'[current'].pc = "processed" =>
                  Owing' = IF query'[current'].calls THEN {current'} ELSE {}
             /\ query'[current'].pc \in {"new", "prepare", "skill", "shell", "request", "stream",
                                        "ended"} =>
                  Owing' = {}
<1>1. CASE current' = 0
  BY <1>1 DEF Owing, Owes
<1>2. CASE current' # 0
  <2>1. current' \in Queries /\ query'[current'] \in Query
    BY <1>2 DEF TypeOK
  <2>2. query'[current'].answers \in Queries \cup {0}
    BY <2>1 DEF Query
  <2> QED BY <1>2, <2>1, <2>2, QueriesTyped DEF Owing, Owes, Unasked
<1> QED BY <1>1, <1>2

LEMMA OwingKept ==
  ASSUME TypeOK, current' = current,
         current # 0 => /\ query'[current].pc = query[current].pc
                        /\ query'[current].answers = query[current].answers
                        /\ query'[current].calls = query[current].calls
  PROVE Owing' = Owing
<1>1. ASSUME NEW y \in Queries
      PROVE Owes(y)' <=> Owes(y)
  BY <1>1 DEF Owes
<1> QED BY <1>1 DEF Owing

\* When a query that is not the current one steps.
LEMMA BesideCurrent ==
  ASSUME TypeOK, NEW q \in Queries, Steps(q), current' = current, current # q
  PROVE Owing' = Owing /\ SnapshotKept
<1>1. current # 0 => /\ query'[current].pc = query[current].pc
                     /\ query'[current].answers = query[current].answers
                     /\ query'[current].calls = query[current].calls
                     /\ query'[current].snapshot = query[current].snapshot
  BY FieldsKept DEF TypeOK
<1>2. Owing' = Owing
  BY <1>1, OwingKept
<1> QED BY <1>1, <1>2 DEF SnapshotKept

LEMMA PairSubmits ==
  ASSUME TypeOK, TypeOK', PairInv, Next, NEW q \in Queries, SubmitQuery(q)
  PROVE PairInv'
<1>1. /\ excused' = excused /\ retold' = retold /\ history' = history /\ lock' = lock
      /\ overtaken => overtaken'
  BY GhostsGrow DEF SubmitQuery
<1> SUFFICES ASSUME ~overtaken'
             PROVE /\ Owing \ excused' \subseteq Owing'
                   /\ Owing' \ (excused' \cup retold') \subseteq Owing
                   /\ SnapshotKept
  BY <1>1, PairStays
<1>2. \A p \in Active : Streaming(p)
  BY DEF SubmitQuery
<1>3. current # 0 => query[current].pc \in {"new", "ended", "request", "stream"}
  BY <1>2 DEF Active, Streaming, TypeOK
<1>4. Owing = {}
  BY <1>3, OwingIs
<1>5. current' = q /\ query'[q].pc = "prepare"
  BY SubmitSteps DEF SubmitQuery
<1>6. Owing' = {}
  BY <1>5, OwingThen, QueriesTyped
<1>7. SnapshotKept
  BY <1>5 DEF SnapshotKept
<1> QED BY <1>4, <1>6, <1>7

\* A shell command and a skill are told of when nothing is open.
LEMMA PairAsides ==
  ASSUME TypeOK, TypeOK', CallsInv, PairInv, Next, NEW q \in Queries, Asides(q)
  PROVE PairInv'
<1>1. /\ excused' = excused /\ retold' = retold /\ lock' = lock /\ current' = current
      /\ overtaken => overtaken'
  BY GhostsGrow DEF Asides, Prepared, ShellEnds, SkillEnds
<1>0. history \in Seq(Entry)
  BY DEF TypeOK
<1>2. current = q => Owing = {} /\ Owing' = {} /\ SnapshotKept
  <2> SUFFICES ASSUME current = q PROVE Owing = {} /\ Owing' = {} /\ SnapshotKept
    OBVIOUS
  <2>1. query[q].pc \in {"prepare", "skill", "shell"} /\ query[q].answers = 0
    BY AsideSteps DEF CallsInv
  <2>2. Owing = {}
    BY <2>1, OwingIs, QueriesTyped
  <2>3. query'[q].pc \in {"turn", "shell", "skill", "ended"} /\ query'[q].answers = 0
    BY <2>1, AsideSteps
  <2>4. Owing' = {}
    BY <1>1, <2>3, OwingThen, QueriesTyped DEF Unasked
  <2>5. SnapshotKept
    BY <1>1, <2>3 DEF SnapshotKept
  <2> QED BY <2>2, <2>4, <2>5
<1>3. Owing' = Owing /\ SnapshotKept
  <2>1. CASE current # q
    <3>1. Steps(q)
      BY DEF Steps
    <3> QED BY <1>1, <2>1, <3>1, BesideCurrent
  <2>2. CASE current = q
    BY <1>2, <2>2
  <2> QED BY <2>1, <2>2
<1>4. CASE history' = history
  <2>1. Owing \ excused' \subseteq Owing' /\ Owing' \ (excused' \cup retold') \subseteq Owing
    BY <1>3
  <2> QED BY <1>1, <1>3, <1>4, <2>1, PairStays
<1>5. CASE history' # history
  <2> SUFFICES ASSUME ~overtaken'
               PROVE /\ PairedFor(history', excused, retold) /\ Shut(history', excused)
                     /\ Owing' \subseteq excused' \cup retold'
    BY <1>1, <1>3, PairCloses
  <2>1. ShellEnds(q) \/ SkillEnds(q)
    BY <1>5 DEF Asides, Prepared
  <2>2. current = q /\ ~overtaken
    BY <2>1 DEF ShellEnds, SkillEnds, Overtakes
  <2>3. Owing = {} /\ Owing' = {}
    BY <1>2, <2>2
  <2>4. PairedFor(history, excused, retold) /\ Shut(history, excused)
    BY <2>2, <2>3, PairOfAll DEF MatchesFor, Shut
  <2>5. CASE history' = Append(history, Item("user", q))
    <3> DEFINE e == Item("user", q)
    <3>1. e \in Entry /\ e.what = "user" /\ \A y : e # Item("call", y)
      BY ItemTyped DEF Item
    <3>4. history' = Append(history, e)
      BY <2>5
    <3> HIDE DEF e
    <3>2. PairedFor(history', excused, retold)
      BY <1>0, <2>4, <3>1, <3>4, PairedAppend DEF Shut
    <3>3. Shut(history', excused)
      BY <1>0, <3>1, <3>4, OpenAppend DEF Shut
    <3> QED BY <2>3, <3>2, <3>3
  <2>6. CASE history' = Append(Append(history, Item("call", 0)), Item("response", 0))
    <3> DEFINE c == Item("call", 0)
               r == Item("response", 0)
               g == Append(history, c)
    <3>1. /\ c \in Entry /\ c.what = "call" /\ r \in Entry /\ r.of = 0
          /\ r = Item("response", 0)
          /\ \A y : (c = Item("call", y) <=> y = 0) /\ r # Item("call", y)
      BY ItemTyped DEF Item
    <3>2. history' = Append(g, r)
      BY <2>6
    <3> HIDE DEF c, r
    <3>3. PairedFor(g, excused, retold) /\ g \in Seq(Entry)
      <4>1. PairedFor(g, excused, retold)
        BY <1>0, <2>4, <3>1, PairedAppend DEF Shut
      <4>2. g \in Seq(Entry)
        BY <1>0, <3>1, AppendProperties
      <4> QED BY <4>1, <4>2
    <3>4. \A y : OpenIn(g, y) <=> y = 0
      BY <1>0, <3>1, OpenAppend
    <3> HIDE DEF g
    <3>5. PairedFor(history', excused, retold)
      BY <3>1, <3>2, <3>3, <3>4, PairedAppend
    <3>6. Shut(history', excused)
      BY <3>1, <3>2, <3>3, OpenAppend DEF Shut
    <3> QED BY <2>3, <3>5, <3>6
  <2> QED BY <1>5, <2>1, <2>5, <2>6, AsideHistory
<1> QED BY <1>4, <1>5

LEMMA PairCancel ==
  ASSUME TypeOK, TypeOK', PairInv, Cancel
  PROVE PairInv'
<1>1. /\ history' = history /\ lock' = lock /\ current' = current /\ overtaken' = overtaken
      /\ excused \subseteq excused' /\ retold' = retold
  BY DEF Cancel, ghosts
<1>2. ASSUME NEW p \in Queries
      PROVE /\ query'[p].pc = query[p].pc /\ query'[p].answers = query[p].answers
            /\ query'[p].calls = query[p].calls /\ query'[p].snapshot = query[p].snapshot
  <2> DEFINE b == query[p].aborted \/ (p = current /\ p \in Active) \/ query[p].pc = "tools"
  <2>1. query'[p] = [query[p] EXCEPT !.aborted = b] /\ query[p] \in Query
    BY DEF Cancel, TypeOK
  <2> HIDE DEF b
  <2> QED BY <2>1 DEF Query
<1>3. current # 0 => current \in Queries
  BY DEF TypeOK
<1>4. Owing' = Owing
  BY <1>1, <1>2, <1>3, OwingKept
<1>5. SnapshotKept
  BY <1>1, <1>2, <1>3, <1>4 DEF SnapshotKept
<1> QED BY <1>1, <1>4, <1>5, PairStays

LEMMA PairLimit ==
  ASSUME TypeOK, TypeOK', CallsInv, PairInv, Next, NEW q \in Queries, Limit(q) \/ Thrown(q)
  PROVE PairInv'
<1>1. /\ history' = history /\ lock' = lock /\ current' = current /\ Steps(q)
      /\ excused' = excused \cup ({query[q].answers} \ {0}) /\ retold' = retold
      /\ query[q].pc \in {"turn", "compress", "send"}
  BY DEF Limit, Thrown, Unsent, Steps, Turns
<1>2. CASE current # q
  <2>1. Owing' = Owing /\ SnapshotKept
    BY <1>1, <1>2, BesideCurrent
  <2>2. Owing \ excused' \subseteq Owing' /\ Owing' \ (excused' \cup retold') \subseteq Owing
    BY <2>1
  <2> QED BY <1>1, <2>1, <2>2, GhostsGrow, PairStays
<1>3. CASE current = q
  <2>1. Owing = {query[q].answers} \ {0}
    BY <1>1, <1>3, OwingIs, QueriesTyped DEF Unasked
  <2>2. query'[q] = Processing(q)
    BY DEF Limit, Thrown, Unsent, TypeOK
  <2>3. query'[q].pc = "processed" /\ query'[q].calls = query[q].calls
    BY <2>2, ReplacedFields
  <2>4. query[q].calls => q \in excused
    BY <1>1 DEF CallsInv
  <2>5. Owing' \subseteq excused'
    BY <1>1, <1>3, <2>3, <2>4, OwingThen, QueriesTyped
  <2>6. SnapshotKept
    BY <1>1, <1>3, <2>3 DEF SnapshotKept
  <2>7. Owing \ excused' \subseteq Owing' /\ Owing' \ (excused' \cup retold') \subseteq Owing
    BY <1>1, <2>1, <2>5
  <2> QED BY <1>1, <2>6, <2>7, GhostsGrow, PairStays
<1> QED BY <1>2, <1>3

\* The request of a prompt is recorded, and the agent stops.
LEMMA PairHook ==
  ASSUME TypeOK, TypeOK', CallsInv, PairInv, Next, NEW q \in Queries, HookStops(q)
  PROVE PairInv'
<1>1. /\ Overtakes(q) /\ current' = current /\ excused' = excused /\ retold' = retold
      /\ overtaken => overtaken'
      /\ query[q].pc = "turn" /\ query[q].answers \in retold \cup {0}
  BY GhostsGrow DEF HookStops, Recorded, ui
<1> SUFFICES ASSUME ~overtaken'
             PROVE /\ PairedFor(history', excused, retold) /\ Shut(history', excused)
                   /\ Owing' \subseteq excused' \cup retold'
                   /\ SnapshotKept
  BY <1>1, PairCloses
<1>2. current = q /\ ~overtaken
  BY <1>1 DEF Overtakes
<1>3. Owing = {query[q].answers} \ {0}
  BY <1>1, <1>2, OwingIs, QueriesTyped DEF Unasked
<1>4. MatchesFor(history, excused, retold, {query[q].answers} \ {0})
  BY <1>2, <1>3, PairOfAll
<1>5. query'[q].pc = "processed" /\ (query'[q].calls => q \in excused)
  <2>1. query'[q] = Processing(q)
    BY DEF HookStops, TypeOK
  <2>2. query[q].calls => q \in excused
    BY <1>1 DEF CallsInv
  <2> QED BY <2>1, <2>2, ReplacedFields
<1>6. Owing' \subseteq excused' /\ SnapshotKept
  BY <1>1, <1>2, <1>5, OwingThen, QueriesTyped DEF SnapshotKept
<1> DEFINE e == Message(q)
<1>7. history \in Seq(Entry) /\ e \in Entry /\ \A y : e # Item("call", y)
  BY MessageTyped DEF TypeOK, Message, Item
<1>8. ASSUME NEW y \in (Queries \cup {0}) \ excused, OpenIn(history, y)
      PROVE e = Item("response", y)
  <2>1. y = query[q].answers /\ y # 0
    BY <1>4, <1>8 DEF MatchesFor
  <2> QED BY <2>1 DEF Message
<1>9. ~(e.what = "response" /\ e.of \notin excused \cup retold)
  BY <1>1 DEF Message, Item
<1>10. history' = Append(history, e)
  BY DEF HookStops
<1> HIDE DEF e
<1>11. PairedFor(history', excused, retold)
  BY <1>4, <1>7, <1>8, <1>9, <1>10, PairedAppend DEF MatchesFor
<1>12. Shut(history', excused)
  BY <1>7, <1>10, OpenAppend DEF Shut
<1> QED BY <1>1, <1>6, <1>11, <1>12

\* The history that is compressed, and the one that comes of it.
LEMMA PairCompresses ==
  ASSUME TypeOK, TypeOK', PairInv, Next, NEW q \in Queries, BeginCompress(q) \/ EndCompress(q)
  PROVE PairInv'
<1>0. query[q] \in Query /\ query \in [Queries -> Query]
  BY DEF TypeOK
<1>1. /\ current' = current /\ Steps(q) /\ excused' = excused /\ retold' = retold
      /\ overtaken => overtaken'
  BY GhostsGrow DEF BeginCompress, EndCompress, ui, ghosts, Steps, Turns
<1>2. CASE BeginCompress(q)
  <2>1. history' = history /\ lock' = lock /\ query[q].pc \in {"turn", "send"}
    BY <1>2 DEF BeginCompress
  <2>2. CASE current # q
    BY <1>1, <2>1, <2>2, BesideCurrent, PairStays
  <2>3. CASE current = q
    <3>1. query'[q] = [query[q] EXCEPT !.pc = "compress", !.snapshot = history,
                                     !.forced = (query[q].pc = "send")]
      BY <1>0, <1>2 DEF BeginCompress
    <3>2. /\ query'[q].pc = "compress" /\ query'[q].snapshot = history
          /\ query'[q].answers = query[q].answers
      BY <1>0, <3>1 DEF Query
    <3>3. Owing' = Owing
      BY <1>1, <2>1, <2>3, <3>2, OwingIs, OwingThen, QueriesTyped DEF Unasked
    <3>4. SnapshotKept
      BY <1>1, <2>1, <2>3, <3>2 DEF SnapshotKept
    <3> QED BY <1>1, <2>1, <3>3, <3>4, PairStays
  <2> QED BY <2>2, <2>3
<1>3. CASE EndCompress(q)
  <2>1. query'[q] = [query[q] EXCEPT !.pc = "send", !.snapshot = <<>>] /\ query[q].pc = "compress"
    BY <1>0, <1>3 DEF EndCompress
  <2>2. query'[q].pc = "send" /\ query'[q].answers = query[q].answers
    BY <1>0, <2>1 DEF Query
  <2>3. ~overtaken' => current = q
    BY <1>3 DEF EndCompress, Overtakes
  <2>4. ~overtaken' => Owing' = Owing
    BY <1>1, <2>1, <2>2, <2>3, OwingIs, OwingThen, QueriesTyped DEF Unasked
  <2>5. ~overtaken' => SnapshotKept
    BY <1>1, <2>2, <2>3 DEF SnapshotKept
  <2>6. CASE history' = history /\ lock' = lock
    BY <1>1, <2>4, <2>5, <2>6, PairStays
  <2>7. CASE /\ lock' = 0
             /\ \E i \in SplitPoints(query[q].snapshot) :
                  history' = <<Item("summary", 0)>>
                               \o SubSeq(query[q].snapshot, i + 1, Len(query[q].snapshot))
    <3> SUFFICES ASSUME ~overtaken'
                 PROVE MatchesFor(history', excused', retold', Owing')
      BY <1>1, <2>5, <2>7, PairFrom
    <3>1. PICK s \in Seq(Entry) : s = query[q].snapshot
      BY <1>0 DEF Query
    <3>2. MatchesFor(s, excused, retold, Owing)
      BY <1>1, <2>1, <2>3, <3>1, PairOfAll, QueriesTyped
    <3>3. PICK i \in SplitPoints(s) :
            history' = <<Item("summary", 0)>> \o SubSeq(s, i + 1, Len(s))
      BY <2>7, <3>1
    <3>4. PairedFor(history', excused, retold) /\ \A y : OpenIn(history', y) <=> OpenIn(s, y)
      BY <3>2, <3>3, PairedCompressed DEF MatchesFor
    <3> QED BY <1>1, <2>4, <3>2, <3>4 DEF MatchesFor
  <2> QED BY <1>3, <2>6, <2>7 DEF EndCompress
<1> QED BY <1>2, <1>3

\* The message of the current query: nothing but it can come after an open call.
LEMMA ContextMatches ==
  ASSUME TypeOK, NEW ex, NEW re, NEW ow, NEW h \in WithContext, MatchesFor(history, ex, re, ow)
  PROVE /\ MatchesFor(h, ex, re, ow)
        /\ Shut(history, ex) => Shut(h, ex)
<1>1. history \in Seq(Entry) /\ Item("context", 0) \in Entry /\ Item("context", 0).what = "context"
  BY ItemTyped DEF TypeOK, Item
<1>2. CASE h = history
  BY <1>2
<1>3. CASE h = Append(history, Item("context", 0)) /\ ~LastIs("call")
  <2>1. \A y : ~OpenIn(history, y)
    BY <1>3 DEF OpenIn, LastIs, Item
  <2>2. PairedFor(h, ex, re)
    BY <1>1, <1>3, <2>1, PairedAppend DEF MatchesFor
  <2>3. \A y : Item("context", 0) # Item("call", y)
    BY DEF Item
  <2>4. \A y : ~OpenIn(h, y)
    BY <1>1, <1>3, <2>3, OpenAppend
  <2> QED BY <2>1, <2>2, <2>4 DEF MatchesFor, Shut
<1> QED BY <1>2, <1>3 DEF WithContext, AcceptsContext

LEMMA PairWaits ==
  ASSUME TypeOK, TypeOK', PairInv, Next, NEW q \in Queries, Wait(q)
  PROVE PairInv'
<1>0. query[q] \in Query /\ query \in [Queries -> Query]
  BY DEF TypeOK
<1>1. /\ current' = current /\ Steps(q) /\ excused' = excused /\ retold' = retold
      /\ overtaken => overtaken' /\ overtaken' = overtaken
      /\ lock # 0 /\ history' \in WithContext /\ query[q].pc \in Unasked
  BY GhostsGrow DEF Wait, ui, ghosts, Steps, Turns, Unasked
<1>2. Owing' = Owing /\ SnapshotKept
  <2>1. CASE current # q
    BY <1>1, <2>1, BesideCurrent
  <2>2. CASE current = q
    <3>1. query'[q] = [query[q] EXCEPT !.pc = "lock", !.forced = FALSE,
                                     !.chat = chat, !.awaits = lock]
      BY <1>0 DEF Wait
    <3>2. query'[q].pc = "lock" /\ query'[q].answers = query[q].answers
      BY <1>0, <3>1 DEF Query
    <3>3. Owing' = Owing
      BY <1>1, <2>2, <3>2, OwingIs, OwingThen, QueriesTyped DEF Unasked
    <3>4. SnapshotKept
      BY <1>1, <2>2, <3>2 DEF SnapshotKept
    <3> QED BY <3>3, <3>4
  <2> QED BY <2>1, <2>2
<1>3. ~overtaken' => /\ MatchesFor(history', excused', retold', Owing')
                     /\ lock' = 0 \/ Shut(history', excused')
  BY <1>1, <1>2, PairOfAll, ContextMatches
<1> QED BY <1>1, <1>2, <1>3, PairFrom

LEMMA MessageCloses ==
  ASSUME TypeOK, NEW q \in Queries, NEW h \in Seq(Entry), NEW ex, NEW re,
         MatchesFor(h, ex, re, {query[q].answers} \ {0})
  PROVE LET g == Append(Closed(q, h), Message(q)) IN PairedFor(g, ex, re) /\ Shut(g, ex)
<1> DEFINE c == Closed(q, h)
           g == Append(c, Message(q))
<1>0. query[q].answers \in Queries \cup {0} /\ Message(q) \in Entry
  BY MessageTyped DEF TypeOK, Query
<1>1. Message(q).what # "call" /\ \A y : Message(q) # Item("call", y)
  BY DEF Message, Item
<1>2. /\ c \in Seq(Entry) /\ PairedFor(c, ex, re)
      /\ \A y \in (Queries \cup {0}) \ ex :
           OpenIn(c, y) => query[q].answers # 0 /\ y = query[q].answers
      /\ query[q].answers # 0 => c = h
  <2>1. CASE c = h
    BY <2>1 DEF MatchesFor
  <2>2. CASE c = Append(h, Item("closing", 0)) /\ query[q].answers = 0
    <3>1. Item("closing", 0) \in Entry /\ Item("closing", 0).what = "closing"
          /\ \A y : Item("closing", 0) # Item("call", y)
      BY ItemTyped DEF Item
    <3>2. Shut(h, ex) /\ PairedFor(h, ex, re)
      BY <2>2 DEF MatchesFor, Shut
    <3>3. PairedFor(c, ex, re) /\ c \in Seq(Entry)
      BY <2>2, <3>1, <3>2, PairedAppend, AppendProperties DEF Shut
    <3>4. \A y : ~OpenIn(c, y)
      BY <2>2, <3>1, OpenAppend
    <3> QED BY <2>2, <3>3, <3>4
  <2> QED BY <2>1, <2>2 DEF Closed
<1>3. ASSUME NEW y \in (Queries \cup {0}) \ ex, OpenIn(c, y)
      PROVE Message(q) = Item("response", y)
  BY <1>2, <1>3 DEF Message
<1>4. ASSUME Message(q).what = "response", Message(q).of \notin ex \cup re
      PROVE OpenIn(c, Message(q).of)
  <2>1. query[q].answers # 0 /\ Message(q).of = query[q].answers
    BY <1>4 DEF Message, Item
  <2>2. OpenIn(h, query[q].answers)
    BY <1>0, <1>4, <2>1 DEF MatchesFor
  <2> QED BY <1>2, <2>1, <2>2
<1> HIDE DEF c
<1>5. PairedFor(g, ex, re)
  BY <1>0, <1>2, <1>3, <1>4, PairedAppend
<1>6. Shut(g, ex)
  BY <1>0, <1>1, <1>2, OpenAppend DEF Shut
<1> QED BY <1>5, <1>6 DEF c

\* The chat is asked.
LEMMA PairSends ==
  ASSUME TypeOK, TypeOK', LockInv, PairInv, Next, NEW q \in Queries, Send(q) \/ Enter(q)
  PROVE PairInv'
<1>0. query[q] \in Query /\ query \in [Queries -> Query] /\ history \in Seq(Entry)
  BY DEF TypeOK
<1>1. /\ Overtakes(q) /\ current' = current /\ excused' = excused /\ retold' = retold
      /\ overtaken => overtaken'
  BY GhostsGrow DEF Send, Enter, Recorded, ui
<1> SUFFICES ASSUME ~overtaken'
             PROVE /\ PairedFor(history', excused', retold') /\ Shut(history', excused')
                   /\ Owing' \subseteq excused' \cup retold'
                   /\ SnapshotKept
  BY <1>1, PairCloses
<1>2. current = q /\ ~overtaken
  BY <1>1 DEF Overtakes
<1>3. MatchesFor(history, excused, retold, {query[q].answers} \ {0})
  <2>1. Owing = {query[q].answers} \ {0}
    <3>1. current = q
      BY <1>2
    <3>2. query[q].pc \in Unasked
      BY DEF Send, Enter, Woken, Waiting, Unasked
    <3> QED BY <3>1, <3>2, OwingIs, QueriesTyped
  <2> QED BY <1>2, <2>1, PairOfAll
<1>4. query'[q].pc = "request"
  <2>1. CASE Send(q)
    <3>1. PICK h \in WithContext :
            query'[q] = [query[q] EXCEPT !.pc = "request", !.forced = FALSE,
                                     !.chat = chat, !.before = Len(h)]
      BY <1>0, <2>1 DEF Send
    <3> QED BY <1>0, <3>1 DEF Query
  <2>2. CASE Enter(q)
    <3>1. query'[q] = [query[q] EXCEPT !.pc = "request", !.before = Len(history)]
      BY <1>0, <2>2 DEF Enter
    <3> QED BY <1>0, <3>1 DEF Query
  <2> QED BY <2>1, <2>2
<1>5. Owing' = {} /\ SnapshotKept
  BY <1>1, <1>2, <1>4, OwingThen, QueriesTyped DEF SnapshotKept
<1>6. PICK h \in Seq(Entry) :
        /\ MatchesFor(h, excused, retold, {query[q].answers} \ {0})
        /\ history' = Append(Closed(q, h), Message(q))
  <2>1. CASE Send(q)
    <3>1. PICK h \in WithContext : Locks(q, h, TRUE)
      BY <2>1 DEF Send
    <3> QED BY <1>3, <3>1, ContextTyped, ContextMatches DEF Locks
  <2>2. CASE Enter(q)
    <3>1. query[q].pc = "lock"
      BY <2>2 DEF Enter, Woken, Waiting
    <3>2. Attached(q)
      BY <1>2, <3>1, LockOfAll, QueriesTyped DEF WaitOf
    <3> QED BY <1>0, <1>3, <2>2, <3>2 DEF Enter, Locks
  <2> QED BY <2>1, <2>2
<1> QED BY <1>1, <1>5, <1>6, MessageCloses

LEMMA PairLoops ==
  ASSUME TypeOK, TypeOK', CallsInv, PairInv, Next, NEW q \in Queries, LoopBeforeSend(q)
  PROVE PairInv'
<1>1. /\ Overtakes(q) /\ current' = current /\ excused' = excused /\ retold' = retold
      /\ overtaken => overtaken'
  BY GhostsGrow DEF LoopBeforeSend, Recorded, ui
<1> SUFFICES ASSUME ~overtaken'
             PROVE /\ PairedFor(history', excused', retold') /\ Shut(history', excused')
                   /\ Owing' \subseteq excused' \cup retold'
                   /\ SnapshotKept
  BY <1>1, PairCloses
<1>2. current = q /\ ~overtaken
  BY <1>1 DEF Overtakes
<1>3. MatchesFor(history, excused, retold, {query[q].answers} \ {0})
  <2>1. Owing = {query[q].answers} \ {0}
    <3>1. current = q
      BY <1>2
    <3>2. query[q].pc \in Unasked
      BY DEF LoopBeforeSend, Unasked
    <3> QED BY <3>1, <3>2, OwingIs, QueriesTyped
  <2> QED BY <1>2, <2>1, PairOfAll
<1>4. Owing' \subseteq excused' /\ SnapshotKept
  <2>1. query[q].calls => q \in excused
    <3>1. query[q].pc \in {"turn", "send"}
      BY DEF LoopBeforeSend
    <3> QED BY <3>1 DEF CallsInv
  <2>2. query'[q] \in {Asking(q), Recovered(q)}
    BY DEF LoopBeforeSend, TypeOK
  <2>3. \/ query'[q].pc = "processed" /\ query'[q].calls = query[q].calls
        \/ query'[q].pc = "turn" /\ query'[q].answers = 0
    BY <2>2, ReplacedFields
  <2>4. Owing' \subseteq excused'
    BY <1>1, <1>2, <2>1, <2>3, OwingThen, QueriesTyped DEF Unasked
  <2>5. SnapshotKept
    BY <1>1, <1>2, <2>3 DEF SnapshotKept
  <2> QED BY <2>4, <2>5
<1> DEFINE a == query[q].answers
<1>5. PICK h \in WithContext :
        history' = IF a # 0 THEN Append(h, Item("response", a)) ELSE h
  BY DEF LoopBeforeSend
<1>6. h \in Seq(Entry) /\ MatchesFor(h, excused, retold, {a} \ {0}) /\ a \in Queries \cup {0}
  BY <1>3, ContextTyped, ContextMatches DEF TypeOK, Query
<1> HIDE DEF a
<1>7. CASE a = 0
  BY <1>1, <1>4, <1>5, <1>6, <1>7 DEF MatchesFor, Shut
<1>8. CASE a # 0
  <2> DEFINE e == Item("response", a)
  <2>1. e \in Entry /\ e.of = a /\ \A y : e # Item("call", y)
    BY <1>6, ItemTyped DEF Item
  <2>2. \A y \in (Queries \cup {0}) \ excused : OpenIn(h, y) => e = Item("response", y)
    BY <1>6 DEF MatchesFor
  <2>3. a \notin excused \cup retold => OpenIn(h, a)
    BY <1>6, <1>8 DEF MatchesFor
  <2>4. history' = Append(h, e) /\ PairedFor(h, excused, retold)
    BY <1>5, <1>6, <1>8 DEF MatchesFor
  <2> HIDE DEF e
  <2>5. PairedFor(history', excused, retold)
    BY <1>6, <2>1, <2>2, <2>3, <2>4, PairedAppend
  <2>6. Shut(history', excused)
    BY <1>6, <2>1, <2>4, OpenAppend DEF Shut
  <2> QED BY <1>1, <1>4, <2>5, <2>6
<1> QED BY <1>7, <1>8

\* A stream goes on.
LEMMA PairStreamGoesOn ==
  ASSUME TypeOK, TypeOK', PairInv, Next, NEW q \in Queries, Streams(q),
         query'[q].pc \in {"request", "stream"}
  PROVE PairInv'
<1>1. Steps(q) /\ current' = current /\ query[q].pc \in {"request", "stream"}
  BY StreamSteps
     DEF Steps, Streams, Connect, StreamCall, StreamEnds, StreamFails, StreamLeft, ui
<1>2. history' = history /\ lock' = lock
  BY StreamFields
<1>3. Owing' = Owing /\ SnapshotKept
  <2>1. CASE current # q
    BY <1>1, <2>1, BesideCurrent
  <2>2. CASE current = q
    <3>1. Owing = {}
      BY <1>1, <2>2, OwingIs, QueriesTyped
    <3>2. Owing' = {}
      BY <1>1, <2>2, OwingThen, QueriesTyped
    <3>3. SnapshotKept
      BY <1>1, <2>2 DEF SnapshotKept
    <3> QED BY <3>1, <3>2, <3>3
  <2> QED BY <2>1, <2>2
<1>4. /\ Owing \ excused' \subseteq Owing' /\ Owing' \ (excused' \cup retold') \subseteq Owing
      /\ SnapshotKept
  BY <1>3
<1> QED BY <1>2, <1>4, GhostsGrow, PairStays

\* What was sent was not open, and what is taken back leaves no call open.
LEMMA PairStreamIsOver ==
  ASSUME TypeOK, TypeOK', CallsInv, CallsInv', LockInv, PairInv, Next,
         NEW q \in Queries, Streams(q),
         query'[q].pc \notin {"request", "stream"}
  PROVE PairInv'
<1>0. history \in Seq(Entry) /\ query[q] \in Query
  BY DEF TypeOK
<1>1. Steps(q) /\ current' = current /\ query[q].pc \in {"request", "stream"}
  BY StreamSteps
     DEF Steps, Streams, Connect, StreamCall, StreamEnds, StreamFails, StreamLeft, ui
<1>2. /\ query'[q].pc \in {"processed", "turn"} /\ query'[q].answers = 0
      /\ query'[q].calls = query[q].calls /\ lock' \in {lock, 0}
      /\ Connect(q) \/ StreamEnds(q) \/ StreamFails(q) \/ StreamLeft(q)
      /\ Connect(q) \/ StreamFails(q) => history' = RolledBack(q)
      /\ StreamLeft(q) => history' = history
      /\ lock = q => lock' = 0
      /\ StreamEnds(q) => query'[q].pc = "processed"
  BY StreamFields
<1>3. excused \subseteq excused' /\ retold' = retold
  BY GhostsGrow DEF Streams, Connect, StreamCall, StreamEnds, StreamFails, StreamLeft, Discards,
                    ghosts
<1>4. current = q => Owing = {} /\ SnapshotKept
  <2>1. current = q => Owing = {}
    BY <1>1, OwingIs, QueriesTyped
  <2>2. current = q => SnapshotKept
    BY <1>1, <1>2 DEF SnapshotKept
  <2> QED BY <2>1, <2>2
<1>5. current = q => Owing' = IF query'[q].pc = "processed" /\ query'[q].calls THEN {q} ELSE {}
  BY <1>1, <1>2, OwingThen, QueriesTyped DEF Unasked
<1>6. current # q => Owing' = Owing /\ SnapshotKept
  BY <1>1, BesideCurrent
<1>7. SnapshotKept
  BY <1>4, <1>6
<1>8. ASSUME ~overtaken, Attached(q)
      PROVE lock = q /\ lock # 0 /\ Shut(history, excused) /\ Owing \subseteq excused \cup retold
  <2>1. lock = q /\ lock # 0
    BY <1>1, <1>8, LockOfAll, QueriesTyped DEF StreamOf, Streaming
  <2>2. Shut(history, excused) /\ MatchesFor(history, excused, retold, Owing)
    BY <1>8, <2>1, PairOfAll
  <2>3. Owing \subseteq excused \cup retold
    BY <2>2 DEF Shut, MatchesFor, Owing
  <2> QED BY <2>1, <2>2, <2>3
\* Calls of which nothing is in the history are excused.
<1>9. ~(StreamEnds(q) /\ Attached(q)) /\ query'[q].calls => q \in excused'
  <2>1. query[q].calls /\ q \notin excused => query[q].pc = "stream" /\ query[q].seen
    BY <1>1 DEF CallsInv
  <2>2. Connect(q) => query[q].pc = "request"
    BY DEF Connect
  <2>3. StreamFails(q) \/ StreamLeft(q) \/ (StreamEnds(q) /\ ~Attached(q)) =>
          (query[q].seen => q \in excused')
    BY DEF StreamFails, StreamLeft, StreamEnds, Discards
  <2> QED BY <1>2, <1>3, <2>1, <2>2, <2>3
<1>10. CASE history' = history /\ ~(StreamEnds(q) /\ Attached(q))
  <2>1. Owing \ excused' \subseteq Owing' /\ Owing' \ (excused' \cup retold') \subseteq Owing
    BY <1>4, <1>5, <1>6, <1>9, <1>10
  <2> QED BY <1>2, <1>3, <1>7, <1>10, <2>1, GhostsGrow, PairStays
<1>11. CASE (Connect(q) \/ StreamFails(q)) /\ ~(StreamEnds(q) /\ Attached(q))
  <2>1. CASE history' = history
    BY <1>10, <1>11, <2>1
  <2>2. CASE history' # history
    <3>1. /\ Attached(q) /\ query[q].answers = 0 /\ query[q].before <= Len(history)
          /\ history' = SubSeq(history, 1, query[q].before)
      BY <1>2, <1>11, <2>2 DEF RolledBack
    <3> SUFFICES ASSUME ~overtaken'
                 PROVE /\ PairedFor(history', excused', retold') /\ Shut(history', excused')
                       /\ Owing' \subseteq excused' \cup retold'
      BY <1>3, <1>7, GhostsGrow, PairCloses
    <3>2. ~overtaken
      BY GhostsGrow
    <3>3. query[q].before < Len(history) /\ history[query[q].before + 1].what # "response"
      BY <1>1, <3>1, <3>2, LockOfAll DEF StreamOf, Streaming
    <3>4. PairedFor(history, excused, retold)
      BY <3>2, PairOfAll DEF MatchesFor
    <3>5. PairedFor(history', excused, retold) /\ Shut(history', excused)
      <4>1. query[q].before \in Nat
        BY <1>0 DEF Query
      <4> QED BY <1>0, <3>1, <3>3, <3>4, <4>1, PairedPrefix
    <3>6. PairedFor(history', excused', retold') /\ Shut(history', excused')
      <4>1. history' \in Seq(Entry)
        BY DEF TypeOK
      <4> QED BY <1>3, <3>5, <4>1, PairedGrows DEF Shut
    <3>7. Owing \subseteq excused \cup retold
      BY <1>8, <3>1, <3>2
    <3>8. Owing' \subseteq excused' \cup retold'
      BY <1>3, <1>5, <1>6, <1>9, <1>11, <3>7
    <3> QED BY <3>6, <3>8
  <2> QED BY <2>1, <2>2
<1>12. CASE StreamEnds(q) /\ Attached(q)
  <2> DEFINE e == Item(IF query[q].seen THEN "call" ELSE "model", q)
  <2>1. history' = Append(history, e) /\ e \in Entry
        /\ (current = q => excused' = excused)
        /\ (current # q /\ query[q].seen => q \in excused')
        /\ e.what # "response"
        /\ \A y : /\ e # Item("response", y)
                  /\ e = Item("call", y) <=> query[q].seen /\ y = q
    BY <1>12, ItemTyped DEF StreamEnds, Discards, ghosts, Item
  <2> HIDE DEF e
  <2> SUFFICES ASSUME ~overtaken'
               PROVE MatchesFor(history', excused', retold', Owing') /\ lock' = 0
    BY <1>3, <1>7, GhostsGrow, PairFrom
  <2>2. ~overtaken
    BY GhostsGrow
  <2>3. lock' = 0 /\ Shut(history, excused) /\ Owing \subseteq excused \cup retold
    BY <1>2, <1>8, <1>12, <2>2
  <2>4. PairedFor(history', excused', retold')
    <3>1. PairedFor(history, excused, retold)
      BY <2>2, PairOfAll DEF MatchesFor
    <3>2. PairedFor(history', excused, retold)
      BY <1>0, <2>1, <2>3, <3>1, PairedAppend DEF Shut
    <3>3. history' \in Seq(Entry)
      BY DEF TypeOK
    <3> QED BY <1>3, <3>2, <3>3, PairedGrows
  <2>5. query[q].calls /\ q \notin excused => query[q].seen
    BY <1>1 DEF CallsInv
  <2>6. query[q].seen => query[q].calls
    BY DEF CallsInv
  <2>7. ASSUME NEW y \in (Queries \cup {0}) \ excused'
        PROVE /\ OpenIn(history', y) => y \in Owing'
              /\ y \in Owing' /\ y \notin retold => OpenIn(history', y)
    <3>1. OpenIn(history', y) <=> query[q].seen /\ y = q
      BY <1>0, <2>1, OpenAppend
    <3>2. current = q => (y \in Owing' <=> query[q].calls /\ y = q)
      BY <1>2, <1>5, <1>12
    <3>3. current # q => (y \in Owing' <=> y \in Owing)
      BY <1>6
    <3> QED BY <1>3, <2>1, <2>3, <2>5, <2>6, <2>7, <3>1, <3>2, <3>3
  <2> QED BY <1>3, <2>1, <2>3, <2>4, <2>7 DEF MatchesFor
<1>13. StreamEnds(q) /\ ~Attached(q) => history' = history
  BY DEF StreamEnds
<1> QED BY <1>2, <1>10, <1>11, <1>12, <1>13

\* The batch begins, and is over.
LEMMA PairBatch ==
  ASSUME TypeOK, TypeOK', PairInv, Next, NEW q \in Queries, Processed(q) \/ StopExecution(q)
  PROVE PairInv'
<1>1. /\ Steps(q) /\ current' = current /\ history' = history /\ lock' = lock
      /\ excused \subseteq excused' /\ retold' = retold
  BY DEF Steps, Ends, Processed, StopExecution, ghosts
<1>2. SnapshotKept /\ Owing \ excused' \subseteq Owing' /\ Owing' \subseteq Owing
  <2>1. CASE current # q
    <3>1. Owing' = Owing /\ SnapshotKept
      BY <1>1, <2>1, BesideCurrent
    <3> QED BY <3>1
  <2>2. CASE current = q
    <3>1. CASE query'[q].pc = "ended"
      <4>1. Owing' = {}
        BY <1>1, <2>2, <3>1, OwingThen, QueriesTyped
      <4>2. Owing \subseteq excused'
        <5>1. CASE Processed(q)
          <6>1. query[q].pc = "processed" /\ ~query[q].calls
            <7>1. query' = [query EXCEPT ![q].pc = "tools"] => query'[q].pc = "tools"
              BY DEF TypeOK, Query
            <7> QED BY <3>1, <5>1, <7>1 DEF Processed
          <6> QED BY <2>2, <6>1, OwingIs, QueriesTyped
        <5>2. CASE StopExecution(q)
          <6>1. query[q].pc = "tools" /\ q \in excused'
            BY <5>2 DEF StopExecution
          <6> QED BY <2>2, <6>1, OwingIs, QueriesTyped
        <5> QED BY <5>1, <5>2
      <4>3. SnapshotKept
        BY <1>1, <2>2, <3>1 DEF SnapshotKept
      <4> QED BY <4>1, <4>2, <4>3
    <3>2. CASE query'[q].pc # "ended"
      <4>1. query'[q].pc = "tools" /\ query[q].pc = "processed"
        BY <3>2, EndSteps DEF Ends
      <4>2. query[q].calls
        <5>1. query'[q] # Ended(q)
          BY <3>2, ReplacedFields
        <5> QED BY <4>1, <5>1 DEF Processed, StopExecution, TypeOK
      <4>3. Owing = {q}
        BY <2>2, <4>1, <4>2, OwingIs, QueriesTyped
      <4>4. Owing' = {q}
        BY <1>1, <2>2, <4>1, OwingThen, QueriesTyped
      <4>5. SnapshotKept
        BY <1>1, <2>2, <4>1 DEF SnapshotKept
      <4> QED BY <4>3, <4>4, <4>5
    <3> QED BY <3>1, <3>2
  <2> QED BY <2>1, <2>2
<1>3. Owing \ excused' \subseteq Owing' /\ Owing' \ (excused' \cup retold') \subseteq Owing
  BY <1>2
<1> QED BY <1>1, <1>2, <1>3, GhostsGrow, PairStays

LEMMA PairResults ==
  ASSUME TypeOK, TypeOK', PairInv, Next, NEW q \in Queries, RecordResults(q)
  PROVE PairInv'
<1>1. /\ current' = current /\ history' = Append(history, Item("response", q))
      /\ excused' = excused /\ retold' = retold /\ history \in Seq(Entry)
      /\ query[q].pc = "tools" /\ query'[q] = Ended(q)
  BY DEF RecordResults, TypeOK
<1> SUFFICES ASSUME ~overtaken'
             PROVE /\ PairedFor(history', excused', retold') /\ Shut(history', excused')
                   /\ Owing' \subseteq excused' \cup retold'
                   /\ SnapshotKept
  BY <1>1, GhostsGrow, PairCloses
<1>2. current = q
  BY DEF RecordResults, Overtakes
<1>3. ~overtaken
  BY GhostsGrow
<1>4. Owing = {q}
  BY <1>1, <1>2, OwingIs, QueriesTyped
<1>5. MatchesFor(history, excused, retold, {q})
  BY <1>3, <1>4, PairOfAll
<1>6. query'[q].pc = "ended"
  BY <1>1, ReplacedFields
<1>7. Owing' = {} /\ SnapshotKept
  BY <1>1, <1>2, <1>6, OwingThen, QueriesTyped DEF SnapshotKept
<1> DEFINE e == Item("response", q)
<1>8. /\ e \in Entry /\ e.of = q
      /\ \A y : e # Item("call", y)
  BY ItemTyped DEF Item
<1>9. \A y \in (Queries \cup {0}) \ excused : OpenIn(history, y) => e = Item("response", y)
  BY <1>5 DEF MatchesFor
<1>10. q \notin excused \cup retold => OpenIn(history, q)
  BY <1>5 DEF MatchesFor
<1>11. history' = Append(history, e) /\ PairedFor(history, excused, retold)
  BY <1>1, <1>5 DEF MatchesFor
<1> HIDE DEF e
<1>12. PairedFor(history', excused, retold)
  BY <1>1, <1>8, <1>9, <1>10, <1>11, PairedAppend
<1>13. Shut(history', excused)
  BY <1>1, <1>8, <1>11, OpenAppend DEF Shut
<1> QED BY <1>1, <1>7, <1>12, <1>13

\* The results go to a query that is the current one from then on.
LEMMA PairContinues ==
  ASSUME TypeOK, TypeOK', OrderInv, RestInv, PairInv, Next,
         NEW q \in Queries, NEW c \in Queries, Continue(q, c)
  PROVE PairInv'
<1>1. /\ history' = history /\ lock' = lock /\ excused' = excused /\ retold' = retold
      /\ current' = c /\ query[q].pc = "tools" /\ ~query[q].aborted
  BY DEF Continue, ghosts
<1>2. query'[c].pc = "turn" /\ query'[c].answers = q
  BY ContinueSteps
<1>3. Owing' = {q}
  BY <1>1, <1>2, OwingThen, QueriesTyped DEF Unasked
<1>4. SnapshotKept
  BY <1>1, <1>2 DEF SnapshotKept
<1>5. ~overtaken' => Owing = {q}
  <2>1. q \in Active
    BY <1>1 DEF Active
  <2>2. ~overtaken' => current = q
    BY <1>1, <2>1, GhostsGrow DEF RestInv
  <2> QED BY <1>1, <2>2, OwingIs, QueriesTyped
<1>6. ~overtaken' => /\ Owing \ excused' \subseteq Owing'
                     /\ Owing' \ (excused' \cup retold') \subseteq Owing
  BY <1>3, <1>5
<1> QED BY <1>1, <1>4, <1>6, GhostsGrow, PairStays

LEMMA PairAgain ==
  ASSUME TypeOK, TypeOK', OrderInv, PairInv, Next,
         NEW q \in Queries, NEW c \in Queries, SendAgain(q, c)
  PROVE PairInv'
<1>1. /\ history' = history /\ lock' = lock /\ excused' = excused
      /\ retold' = retold \cup ({last} \ {0}) /\ current' = c
  BY DEF SendAgain
<1>2. query'[c].pc = "turn" /\ query'[c].answers = last
  BY AgainSteps
<1>3. Owing' \subseteq retold'
  BY <1>1, <1>2, OwingThen, QueriesTyped DEF Unasked
<1>4. SnapshotKept
  BY <1>1, <1>2 DEF SnapshotKept
<1>5. ~overtaken' => Owing = {}
  <2>1. ~overtaken' => Active = {}
    BY DEF SendAgain
  <2>2. Active = {} => (current = 0 \/ query[current].pc \in {"new", "ended"})
    BY DEF Active, TypeOK
  <2> QED BY <2>1, <2>2, OwingIs
<1>6. ~overtaken' => /\ Owing \ excused' \subseteq Owing'
                     /\ Owing' \ (excused' \cup retold') \subseteq Owing
  BY <1>3, <1>5
<1> QED BY <1>1, <1>4, <1>6, GhostsGrow, PairStays

LEMMA PairKept ==
  ASSUME TypeOK, OrderInv, RestInv, CallsInv, LockInv, PairInv, Next
  PROVE PairInv'
<1>1. TypeOK' /\ CallsInv'
  BY TypesKept, CallsKept
<1>2. ASSUME NEW q \in Queries, Streams(q)
      PROVE PairInv'
  BY <1>1, <1>2, PairStreamGoesOn, PairStreamIsOver
<1>3. ASSUME NEW q \in Queries, Asides(q)
      PROVE PairInv'
  BY <1>1, <1>3, PairAsides
<1> QED BY <1>1, <1>2, <1>3, PairSubmits, PairCancel, PairLimit, PairHook, PairCompresses,
           PairWaits, PairSends, PairLoops, PairBatch, PairResults, PairContinues, PairAgain
        DEF Next, Asides, Streams

(***************************************************************************)
(* All that is invariant of the history and the queries together.          *)
(***************************************************************************)
HistoryInv == ConversationInv /\ CallsInv /\ LockInv /\ PairInv

LEMMA HistoryBegins == Init => HistoryInv
<1> SUFFICES ASSUME Init PROVE HistoryInv
  OBVIOUS
<1>1. ConversationInv /\ TypeOK
  BY InvBegins DEF ConversationInv
<1>2. CallsInv
  BY FreshFields DEF Init, CallsInv
<1>3. \A q \in Queries : query[q].pc = "new"
  BY FreshFields DEF Init
<1>4. LockInv
  BY <1>3 DEF LockInv, Streaming, Waiting, Init
<1>5. PairInv
  <2>1. history \in Seq(Entry) /\ Len(history) = 0 /\ current = 0 /\ lock = 0
    BY EmptySeq DEF Init
  <2>2. PairedFor(history, excused, retold)
    BY <2>1 DEF PairedFor
  <2>3. \A y : ~OpenIn(history, y)
    BY DEF OpenIn, Init
  <2>4. Owing = {}
    BY <1>1, <2>1, OwingIs
  <2>5. Matches(history)
    BY <2>1, <2>2, <2>3, <2>4, MatchesSame DEF MatchesFor
  <2> QED BY <2>1, <2>5 DEF PairInv
<1> QED BY <1>1, <1>2, <1>4, <1>5 DEF HistoryInv

LEMMA HistoryKept == HistoryInv /\ [Next]_vars => HistoryInv'
<1> SUFFICES ASSUME HistoryInv, [Next]_vars PROVE HistoryInv'
  OBVIOUS
<1>1. ConversationInv'
  BY InvKept DEF HistoryInv
<1>2. CASE Next
  BY <1>1, <1>2, CallsKept, LockKept, PairKept DEF HistoryInv, ConversationInv
<1>3. CASE UNCHANGED vars
  <2>1. UNCHANGED <<query, history, chat, lock, ui, ghosts>>
    BY <1>3 DEF vars
  <2>2. CallsInv' /\ LockInv'
    BY <2>1 DEF HistoryInv, CallsInv, LockInv, Streaming, Attached, Waiting, ui, ghosts
  <2>3. PairInv'
    BY <2>1 DEF HistoryInv, PairInv, Matches, PairedIn, Pair, OpenIn, Owes, ui, ghosts
  <2> QED BY <1>1, <2>2, <2>3 DEF HistoryInv
<1> QED BY <1>2, <1>3

LEMMA HistoryHolds == Spec => []HistoryInv
BY HistoryBegins, HistoryKept, PTL DEF Spec

(***************************************************************************)
(* In the history each call is followed by its response and each response  *)
(* preceded by its call (geminiChat.ts, client.ts, useGeminiStream.ts,     *)
(* chatCompressionService.ts), for any number of queries, attempts,        *)
(* compressions and editor's contexts, as long as no query goes on, but at *)
(* a cancelled stream, beside a later one, and but for the calls that were *)
(* stopped, given up, lost with their stream or late, and messages that    *)
(* were sent again.  A batch that is cancelled in its tools is paired.     *)
(***************************************************************************)
THEOREM CallsStayPaired == Spec => []Paired
<1>1. HistoryInv => Paired
  BY DEF HistoryInv, PairInv, Matches, Paired
<1> QED BY <1>1, HistoryHolds, PTL
=============================================================================
