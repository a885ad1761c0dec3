---------------------------- MODULE Conversation ----------------------------
(***************************************************************************)
(* A conversation with the model: the terminal's submissions and           *)
(* cancellations (packages/cli/src/ui/hooks/useGeminiStream.ts), the       *)
(* client's turns (packages/core/src/core/client.ts, turn.ts), the chat    *)
(* with its history and its one-at-a-time stream (geminiChat.ts,           *)
(* agentChatHistory.ts) and compression (chatCompressionService.ts).       *)
(*                                                                         *)
(* A query is a run of submitQuery: a prompt of the user, or the           *)
(* continuation that answers the tool calls of an earlier query.  The tool *)
(* calls of one query are one batch and one entry of the history.          *)
(***************************************************************************)
EXTENDS Naturals, Sequences, FiniteSets, SequencesExt

CONSTANTS
  MaxQueries,       \* bound: prompts and continuations in a behaviour
  MaxAttempts,      \* attempts at one stream
  MaxCompressions,  \* bound: how often the history is compressed
  MaxContexts       \* bound: messages with an editor's context in the history

ASSUME ConversationAssumption ==
  /\ MaxQueries \in Nat \ {0} /\ MaxAttempts \in Nat \ {0}
  /\ MaxCompressions \in Nat /\ MaxContexts \in Nat

Queries == 1..MaxQueries

VARIABLES
  query,       \* what is known of each query: see Query
  history,     \* the history of the client's chat
  chat,        \* which chat that is: compression makes a new one
  lock,        \* the chat's sendPromise: the query it was made for, 0 for none
  responding,  \* the UI's isResponding
  current,     \* activeQueryIdRef, and whose the abort controller is
  cancelled,   \* turnCancelledRef
  last,        \* lastQueryRef: what that query answers
  \* History variables.
  dimmed,      \* has an event cleared isResponding since the UI last took a query up
  reported,    \* how often the results of a query's calls were recorded
  excused,     \* queries whose calls were stopped, not answered or not recorded in time
  retold,      \* queries whose results the user had sent again, after a loop
  overtaken    \* has a query gone on, but at a cancelled stream, beside a later one

ui     == <<responding, current, cancelled, last, dimmed>>
ghosts == <<reported, excused, retold, overtaken>>
vars == <<query, history, chat, lock, ui, ghosts>>

Entry == [what: {"user", "model", "call", "response", "context", "closing", "summary"},
          of: Queries \cup {0}]

\* answers: the query whose calls this one answers, 0 for text of the user's
\* or the program's.  calls: requests received from the stream, seen: those
\* of the present attempt.  before: the history's length before the message.
\* snapshot: the history that is being compressed; forced: for want of room.
\* "skill" and "shell": a tool or a command the user has asked for is running.
Query ==
  [pc: {"new", "prepare", "skill", "shell", "turn", "compress", "send", "lock",
        "request", "stream", "processed", "tools", "ended"},
   answers: Queries \cup {0}, awaits: Queries \cup {0}, attempt: 1..MaxAttempts,
   aborted: BOOLEAN, calls: BOOLEAN, seen: BOOLEAN, looped: BOOLEAN, asks: BOOLEAN,
   forced: BOOLEAN, chat: 0..MaxCompressions, before: Nat, snapshot: Seq(Entry)]

TypeOK ==
  /\ query \in [Queries -> Query]
  /\ \A q \in Queries : query[q].answers < q /\ query[q].chat <= chat
  /\ history \in Seq(Entry)
  /\ chat \in 0..MaxCompressions /\ lock \in Queries \cup {0}
  /\ {responding, cancelled} \subseteq BOOLEAN /\ {current, last} \subseteq Queries \cup {0}
  /\ reported \in [Queries -> Nat] /\ excused \cup retold \subseteq Queries
  /\ {overtaken, dimmed} \subseteq BOOLEAN

Fresh == [pc |-> "new", answers |-> 0, aborted |-> FALSE, calls |-> FALSE,
          seen |-> FALSE, attempt |-> 1, chat |-> 0, before |-> 0, awaits |-> 0,
          looped |-> FALSE, asks |-> FALSE, forced |-> FALSE, snapshot |-> <<>>]

Init ==
  /\ query = [q \in Queries |-> Fresh]
  /\ history = <<>> /\ chat = 0 /\ lock = 0
  /\ responding = FALSE /\ current = 0 /\ cancelled = FALSE /\ last = 0 /\ dimmed = FALSE
  /\ reported = [q \in Queries |-> 0] /\ excused = {} /\ retold = {} /\ overtaken = FALSE

(***************************************************************************)
(* The history.                                                            *)
(***************************************************************************)
Item(what, q) == [what |-> what, of |-> q]
LastIs(what) == history # <<>> /\ Last(history).what = what

\* The message of a query, as the history has it.
Message(q) ==
  IF query[q].answers = 0 THEN Item("user", q) ELSE Item("response", query[q].answers)

\* What the stream of a query writes goes to the chat it was started on.
Attached(q) == query[q].chat = chat

\* A new user message does not follow an unanswered tool response.
Closed(q, h) ==
  IF query[q].answers = 0 /\ h # <<>> /\ Last(h).what = "response"
  THEN Append(h, Item("closing", 0)) ELSE h

\* A stream that failed takes its message back, unless it is an answer to
\* calls the history has.
RolledBack(q) ==
  IF Attached(q) /\ query[q].answers = 0 /\ query[q].before <= Len(history)
  THEN SubSeq(history, 1, query[q].before) ELSE history

\* The query acts on the history or on the UI, though a later one has begun.
Overtakes(q) == overtaken' = (overtaken \/ current # q)

Reports(q) == reported' = [reported EXCEPT ![q] = @ + 1]

\* The message of q is in the history.
Recorded(q) ==
  /\ IF query[q].answers # 0 THEN Reports(query[q].answers) ELSE UNCHANGED reported
  /\ Overtakes(q)
  /\ UNCHANGED <<excused, retold>>

(***************************************************************************)
(* submitQuery.                                                            *)
(***************************************************************************)
Unused(q) == query[q].pc = "new" /\ \A p \in 1..(q - 1) : query[p].pc # "new"

\* The call the stream has brought is not going to be in the history, or late.
Discards(q) ==
  /\ excused' = excused \cup (IF query[q].seen THEN {q} ELSE {})
  /\ UNCHANGED <<reported, retold, overtaken>>

\* Of a query that has ended only this matters.
Ended(q) == [Fresh EXCEPT !.pc = "ended", !.asks = query[q].asks]

Processing(q) ==
  [Ended(q) EXCEPT !.pc = "processed", !.aborted = query[q].aborted, !.calls = query[q].calls]

\* The user is going to be asked about the loop (and may send a query again).
Asking(q) == [Processing(q) EXCEPT !.asks = query[MaxQueries].pc = "new"]

Active == {q \in Queries : query[q].pc \notin {"new", "ended"}}
Streaming(q) == query[q].pc \in {"request", "stream"}
ToolsActive == \E q \in Queries : query[q].pc \in {"skill", "tools"}
Idle == ~responding /\ ~ToolsActive

Responds == responding' = TRUE /\ dimmed' = FALSE

\* An event of some query's stream clears isResponding, whose ever it is.
Clears ==
  /\ responding' = FALSE
  /\ dimmed' = TRUE

\* handleUserCancelledEvent, if the query was aborted: it has its effect only
\* after a later prompt has reset turnCancelledRef.
UserCancelled(q) ==
  IF query[q].aborted /\ ~cancelled THEN Clears ELSE UNCHANGED <<responding, dimmed>>

\* The user submits a prompt, or the queue of messages does.  Files it names
\* are read before the UI says that it responds.
SubmitQuery(q) ==
  /\ Unused(q) /\ Idle
  /\ query' = [query EXCEPT ![q].pc = "prepare"]
  /\ current' = q /\ cancelled' = FALSE
  /\ overtaken' = (overtaken \/ \E p \in Active : ~(Streaming(p) /\ query[p].aborted))
  /\ UNCHANGED <<history, chat, lock, responding, last, dimmed, reported, excused, retold>>

\* The query goes to the model.
Proceeds(q) ==
  /\ query' = [query EXCEPT ![q].pc = "turn"]
  /\ Responds /\ last' = 0

\* prepareQueryForGemini: the query goes to the model, was a command that has
\* been handled, a shell command, or has a tool run for the user.
Prepared(q) ==
  /\ query[q].pc = "prepare"
  /\ \/ Proceeds(q) /\ Overtakes(q)
     \/ /\ query' = [query EXCEPT ![q] = Ended(q)]
        /\ UNCHANGED <<responding, dimmed, last, overtaken>>
     \/ /\ query' = [query EXCEPT ![q].pc = "shell"]
        /\ Responds /\ Overtakes(q) /\ UNCHANGED last
     \/ /\ query' = [query EXCEPT ![q].pc = "skill"]
        /\ UNCHANGED <<responding, dimmed, last, overtaken>>
  /\ UNCHANGED <<history, chat, lock, current, cancelled, reported, excused, retold>>

\* The command is over, or in the background: the model is told in a message.
ShellEnds(q) ==
  /\ query[q].pc = "shell"
  /\ query' = [query EXCEPT ![q] = Ended(q)]
  /\ history' \in {history, Append(history, Item("user", q))}
  /\ responding' = FALSE /\ Overtakes(q)
  /\ UNCHANGED <<chat, lock, current, cancelled, last, dimmed, reported, excused, retold>>

\* The tool the user asked for has ended.  The activation of a skill is put in
\* the history, call and response; a prompt may follow it.
SkillEnds(q) ==
  /\ query[q].pc = "skill"
  /\ history' \in {history} \cup
       IF cancelled THEN {} ELSE {history \o <<Item("call", 0), Item("response", 0)>>}
  /\ \/ Proceeds(q)
     \/ /\ query' = [query EXCEPT ![q] = Ended(q)]
        /\ responding' = (responding /\ ~cancelled) /\ UNCHANGED <<dimmed, last>>
  /\ Overtakes(q)
  /\ UNCHANGED <<chat, lock, current, cancelled, reported, excused, retold>>

\* cancelOngoingRequest.  When some tool has ended with a result, or a shell
\* command runs, the UI goes on responding until that or the stream is over.
Cancel ==
  /\ ~cancelled /\ (responding \/ ToolsActive)
  /\ cancelled' = TRUE
  /\ query' = [q \in Queries |->
       [query[q] EXCEPT !.aborted = @ \/ (q = current /\ q \in Active) \/ query[q].pc = "tools"]]
  /\ \/ responding' = FALSE
     \/ (\E q \in Queries : query[q].pc \in {"tools", "ended", "shell"}) /\ UNCHANGED responding
  /\ UNCHANGED <<history, chat, lock, current, last, dimmed, ghosts>>

(***************************************************************************)
(* The client's turn, up to the call of the chat.                          *)
(***************************************************************************)
\* Nothing is sent, and what the query answers stays unanswered.
Unsent(q) ==
  /\ query' = [query EXCEPT ![q] = Processing(q)]
  /\ excused' = excused \cup ({query[q].answers} \ {0})
  /\ UNCHANGED <<history, chat, lock, current, cancelled, last, reported, retold, overtaken>>

\* The session's turns are used up, a BeforeAgent hook blocks the request, or
\* it does not fit the model's window, compressed or not.
Limit(q) ==
  query[q].pc \in {"turn", "send"} /\ Unsent(q) /\ UNCHANGED <<responding, dimmed>>

\* What the signal reaches before the request is made throws.
Thrown(q) ==
  /\ query[q].aborted /\ query[q].pc \in {"turn", "compress", "send"}
  /\ Unsent(q) /\ UserCancelled(q)

\* A BeforeAgent hook stops the agent; it runs once for a prompt.
HookStops(q) ==
  /\ query[q].pc = "turn" /\ ~query[q].looped /\ query[q].answers \in retold \cup {0}
  /\ query' = [query EXCEPT ![q] = Processing(q)]
  /\ history' = Append(history, Message(q))
  /\ Recorded(q) /\ Clears
  /\ UNCHANGED <<chat, lock, current, cancelled, last>>

\* Before the message is sent, and once more if it does not fit.
BeginCompress(q) ==
  /\ query[q].pc = "turn" \/ (query[q].pc = "send" /\ ~query[q].forced)
  /\ chat < MaxCompressions
  /\ query' = [query EXCEPT ![q].pc = "compress", ![q].snapshot = history,
                            ![q].forced = (query[q].pc = "send")]
  /\ UNCHANGED <<history, chat, lock, ui, ghosts>>

\* Mutant: any turn may be the first that is kept.
SplitAnywhere(h) == DOMAIN h

\* findCompressSplitPoint: how many entries the summary replaces.
SplitPoints(h) ==
  {i \in DOMAIN h :
     IF i < Len(h) THEN h[i + 1].what \in {"user", "context"}
     ELSE h[i].what \in {"model", "closing"}}

\* The summary is there, and the client starts a new chat with it and with
\* the end of the history it was asked for; or there is nothing to gain.
EndCompress(q) ==
  /\ query[q].pc = "compress" /\ chat < MaxCompressions
  /\ \/ \E i \in SplitPoints(query[q].snapshot) :
          /\ history' = <<Item("summary", 0)>>
                          \o SubSeq(query[q].snapshot, i + 1, Len(query[q].snapshot))
          /\ chat' = chat + 1 /\ lock' = 0
     \/ UNCHANGED <<history, chat, lock>>
  /\ query' = [query EXCEPT ![q].pc = "send", ![q].snapshot = <<>>]
  /\ Overtakes(q)
  /\ UNCHANGED <<ui, reported, excused, retold>>

Contexts == Cardinality({i \in DOMAIN history : history[i].what = "context"})

\* An editor's context does not go between a call and its response.
AcceptsContext == Contexts < MaxContexts /\ ~LastIs("call")

\* The history, with the editor's context if there is any news.
WithContext ==
  {history} \cup IF AcceptsContext THEN {Append(history, Item("context", 0))} ELSE {}

\* Mutant: a response that was recorded is sent again.
SameMessage(q) == query[q].answers

\* After a loop, what is sent to the model is the program's feedback.
Feedback(q) == 0

\* After a loop the turn begins again with the feedback, the first time.
Recovered(q) ==
  [query[q] EXCEPT !.pc = "turn", !.answers = Feedback(q), !.looped = TRUE,
                   !.seen = FALSE, !.attempt = 1, !.before = 0, !.chat = 0,
                   !.forced = FALSE]

\* A loop is found before the message is recorded: a tool response is put in
\* the history all the same.
LoopBeforeSend(q) ==
  LET a == query[q].answers IN
  /\ query[q].pc \in {"turn", "send"}
  /\ \E h \in WithContext :
       history' = IF a # 0 THEN Append(h, Item("response", a)) ELSE h
  /\ \/ query' = [query EXCEPT ![q] = Asking(q)]
     \/ ~query[q].looped /\ query' = [query EXCEPT ![q] = Recovered(q)]
  /\ Recorded(q)
  /\ UNCHANGED <<chat, lock, ui>>

(***************************************************************************)
(* The chat's sendMessageStream.  A new chat, after compression, has a     *)
(* promise of its own; a stream of the old one keeps its own.              *)
(***************************************************************************)
\* The stream of q is over, and its promise resolved.
Over(q, next) ==
  /\ query' = [p \in Queries |->
       IF p = q THEN next
       ELSE [query[p] EXCEPT !.awaits = IF query[p].awaits = q THEN 0 ELSE query[p].awaits]]
  /\ lock' = IF lock = q THEN 0 ELSE lock

\* The message is recorded, and the chat is locked until its stream is over.  A
\* chat that compression has left behind is of no more interest.
Locks(q, h, here) ==
  IF here THEN history' = Append(Closed(q, h), Message(q)) /\ lock' = q
  ELSE history' = h /\ UNCHANGED lock

\* Those who have waited for the last stream go on at once, all of them.
Waiting == {q \in Queries : query[q].pc = "lock"}
Woken == {q \in Waiting : query[q].awaits = 0}

\* The chat is asked.
Send(q) ==
  /\ query[q].pc \in {"turn", "send"} /\ lock = 0 /\ Woken = {}
  /\ \E h \in WithContext :
       /\ query' = [query EXCEPT ![q].pc = "request", ![q].forced = FALSE,
                                 ![q].chat = chat, ![q].before = Len(h)]
       /\ Locks(q, h, TRUE)
  /\ Recorded(q)
  /\ UNCHANGED <<chat, ui>>

\* The chat is asked while a stream of it is under way, and waits for that.
Wait(q) ==
  /\ query[q].pc \in {"turn", "send"} /\ lock # 0
  /\ query' = [query EXCEPT ![q].pc = "lock", ![q].forced = FALSE,
                            ![q].chat = chat, ![q].awaits = lock]
  /\ history' \in WithContext
  /\ UNCHANGED <<chat, lock, ui, ghosts>>

Enter(q) ==
  /\ q \in Woken
  /\ query' = [query EXCEPT ![q].pc = "request", ![q].before = Len(history)]
  /\ Locks(q, history, Attached(q)) /\ Recorded(q)
  /\ UNCHANGED <<chat, ui>>

\* The request is answered by a stream, or fails for good.
Connect(q) ==
  /\ query[q].pc = "request"
  /\ \/ /\ ~query[q].aborted
        /\ query' = [query EXCEPT ![q].pc = "stream"]
        /\ UNCHANGED <<history, lock, responding, dimmed>>
     \/ /\ Over(q, Processing(q))
        /\ history' = RolledBack(q) /\ UserCancelled(q)
  /\ UNCHANGED <<chat, current, cancelled, last, ghosts>>

StreamCall(q) ==
  /\ query[q].pc = "stream" /\ ~query[q].seen /\ ~query[q].aborted
  /\ query' = [query EXCEPT ![q].calls = TRUE, ![q].seen = TRUE]
  /\ UNCHANGED <<history, chat, lock, ui, ghosts>>

\* The whole answer is there, and is a turn of the history.  A call of a query
\* that was cancelled comes late if a later prompt is waiting for the stream.
StreamEnds(q) ==
  /\ query[q].pc = "stream"
  /\ Over(q, Processing(q))
  /\ history' = IF Attached(q)
                THEN Append(history, Item(IF query[q].seen THEN "call" ELSE "model", q))
                ELSE history
  /\ IF Attached(q) /\ current = q THEN UNCHANGED ghosts ELSE Discards(q)
  /\ UNCHANGED <<chat, ui>>

\* Mutant: one attempt too many.
OneMoreAttempt(q) == query[q].attempt <= MaxAttempts

AttemptsLeft(q) == query[q].attempt < MaxAttempts

\* The stream breaks off: another attempt, or the message is taken back.
\* Nothing of the attempt is recorded, and its calls are not forgotten.
StreamFails(q) ==
  /\ query[q].pc = "stream"
  /\ \/ /\ AttemptsLeft(q)
        /\ query' = [query EXCEPT ![q].pc = "request", ![q].seen = FALSE,
                                  ![q].attempt = @ + 1]
        /\ UNCHANGED <<history, lock, responding, dimmed>>
     \/ /\ Over(q, Processing(q))
        /\ history' = RolledBack(q) /\ UserCancelled(q)
  /\ Discards(q)
  /\ UNCHANGED <<chat, current, cancelled, last>>

\* The reader leaves the stream, and what was sent stays in the history: the
\* user has aborted, or a hook has stopped the agent or blocked the answer.
ReaderLeaves(q) ==
  /\ Streaming(q) /\ Over(q, Processing(q))
  /\ \/ UserCancelled(q)
     \/ ~query[q].aborted /\ Clears

\* A loop is found.
LoopInStream(q) ==
  /\ query[q].pc = "stream"
  /\ Over(q, Asking(q)) \/ (~query[q].looped /\ Over(q, Recovered(q)))
  /\ UNCHANGED <<responding, dimmed>>

StreamLeft(q) ==
  /\ ReaderLeaves(q) \/ LoopInStream(q)
  /\ Discards(q)
  /\ UNCHANGED <<history, chat, current, cancelled, last>>

(***************************************************************************)
(* The stream has been read.  Its calls are scheduled, whatever became of  *)
(* it, and submitQuery ends with their batch.                              *)
(***************************************************************************)
\* Mutant: a query that was aborted returns before its end is noted.
RestUnlessAborted(q, cur, resp) == IF cur = q /\ ~query[q].aborted THEN FALSE ELSE resp

\* isResponding after submitQuery's finally block.
Rest(q, cur, resp) == IF cur = q THEN FALSE ELSE resp

Processed(q) ==
  /\ query[q].pc = "processed"
  /\ \/ /\ query[q].calls
        /\ query' = [query EXCEPT ![q].pc = "tools"]
        /\ UNCHANGED responding
     \/ /\ ~query[q].calls
        /\ query' = [query EXCEPT ![q] = Ended(q)]
        /\ responding' = Rest(q, current, responding)
  /\ UNCHANGED <<history, chat, lock, current, cancelled, last, dimmed, ghosts>>

\* handleCompletedTools records the results: the turn was cancelled, the user
\* refused all calls, or the model was switched for want of quota.
RecordResults(q) ==
  /\ query[q].pc = "tools"
  /\ query' = [query EXCEPT ![q] = Ended(q)]
  /\ history' = Append(history, Item("response", q))
  /\ Reports(q)
  /\ responding' \in {FALSE} \cup IF cancelled THEN {} ELSE {Rest(q, current, responding)}
  /\ Overtakes(q)
  /\ UNCHANGED <<chat, lock, current, cancelled, last, dimmed, excused, retold>>

\* A tool asked for the agent to stop.
StopExecution(q) ==
  /\ query[q].pc = "tools" /\ ~cancelled /\ ~query[q].aborted
  /\ query' = [query EXCEPT ![q] = Ended(q)]
  /\ responding' = FALSE
  /\ excused' = excused \cup {q}
  /\ UNCHANGED <<history, chat, lock, current, cancelled, last, dimmed, reported, retold,
                 overtaken>>

\* The results are sent to the model, as a query of their own.
Continue(q, c) ==
  /\ query[q].pc = "tools" /\ ~cancelled /\ ~query[q].aborted /\ Unused(c)
  /\ query' = [query EXCEPT ![q] = Ended(q), ![c].pc = "turn", ![c].answers = q]
  /\ current' = c /\ Responds /\ last' = q
  /\ UNCHANGED <<history, chat, lock, cancelled, ghosts>>

\* A second loop has ended q, and the user has loop detection disabled and the
\* last query sent again.
SendAgain(q, c) ==
  /\ query[q].pc = "ended" /\ query[q].asks /\ Unused(c)
  /\ query' = [query EXCEPT ![q].asks = FALSE, ![c].pc = "turn", ![c].answers = last]
  /\ current' = c /\ cancelled' = FALSE /\ Responds
  /\ retold' = retold \cup ({last} \ {0})
  /\ overtaken' = (overtaken \/ Active # {})
  /\ UNCHANGED <<history, chat, lock, last, reported, excused>>

Next ==
  \/ Cancel
  \/ \E q \in Queries :
       \/ SubmitQuery(q) \/ Prepared(q) \/ ShellEnds(q) \/ SkillEnds(q)
       \/ Limit(q) \/ Thrown(q) \/ HookStops(q)
       \/ BeginCompress(q) \/ EndCompress(q) \/ Send(q) \/ Wait(q) \/ LoopBeforeSend(q)
       \/ Enter(q) \/ Connect(q) \/ StreamCall(q) \/ StreamEnds(q) \/ StreamFails(q)
       \/ StreamLeft(q) \/ Processed(q) \/ RecordResults(q) \/ StopExecution(q)
       \/ \E c \in Queries : Continue(q, c) \/ SendAgain(q, c)

Spec == Init /\ [][Next]_vars

(***************************************************************************)
(* When nothing is under way the UI does not say that it responds, or it   *)
(* would take no prompt; and it does say so while a stream that is not     *)
(* cancelled is read, or it would take a second one.  The code gives the   *)
(* second only as long as no event of an earlier query, cancelled and      *)
(* still read when the next prompt came, has cleared the flag.             *)
(***************************************************************************)
AtRest ==
  ~overtaken =>
    /\ Active = {} => ~responding
    /\ \A q \in Queries : Streaming(q) /\ ~query[q].aborted => responding \/ dimmed

(***************************************************************************)
(* The results of a batch of tool calls are put in the history at most     *)
(* once: by the continuation, by the loop check before it, or by the       *)
(* handler of completed tools.                                             *)
(***************************************************************************)
ReportedOnce == \A q \in Queries \ retold : reported[q] <= 1

Pair(h, i, q) == h[i] = Item("call", q) /\ h[i + 1] = Item("response", q)

PairedIn(h) ==
  \A i \in DOMAIN h :
    LET q == h[i].of IN
    /\ h[i].what = "call" /\ q \notin excused => i = Len(h) \/ Pair(h, i, q)
    /\ h[i].what = "response" /\ q \notin excused \cup retold => i > 1 /\ Pair(h, i - 1, q)

(***************************************************************************)
(* In the history each call is followed by its response and each response  *)
(* preceded by its call, in spite of retries, loops, compression, failed   *)
(* streams and cancelled batches, when the calls were not stopped, given   *)
(* up, lost with their stream or late, nor a message sent again.           *)
(***************************************************************************)
Paired == ~overtaken => PairedIn(history)

(***************************************************************************)
(* The results of a batch are recorded or sent on when the batch is over:  *)
(* "the matching functionCall is already in history, and leaving it        *)
(* unpaired corrupts every subsequent request" (useGeminiStream.ts,        *)
(* handleCompletedTools).                                                  *)
(***************************************************************************)
BatchAnswered ==
  [][\A q \in Queries :
       query[q].pc = "tools" /\ query'[q].pc # "tools" =>
         \/ reported'[q] > reported[q]
         \/ \E c \in Queries : query'[c].pc = "turn" /\ query'[c].answers = q]_vars

(***************************************************************************)
(* What makes AtRest and ReportedOnce hold.  Queries begin in their order. *)
(* As long as none has overtaken a later one, all but the last that was    *)
(* begun are aborted, and the UI responds for that one.  A batch that is   *)
(* not over has no results yet; afterwards its results are either with one *)
(* query that has not sent them, or reported, but not both.                *)
(***************************************************************************)
Begun == {q \in Queries : query[q].pc # "new"}

OrderInv ==
  /\ \A p, q \in Queries : q \in Begun /\ p < q => p \in Begun
  /\ last \in Begun \cup {0}

RestInv ==
  ~overtaken =>
    /\ responding => current \in Active /\ query[current].pc \notin {"prepare", "skill"}
    /\ \A q \in Active : ~query[q].aborted =>
         /\ q = current
         /\ query[q].pc \in {"prepare", "skill"} \/ responding \/ dimmed

\* The queries that have results of q's calls to send.
Holding(q) ==
  {c \in Queries : query[c].answers = q /\
     query[c].pc \in {"new", "prepare", "skill", "shell", "turn", "compress", "send", "lock"}}

ReportInv ==
  \A q \in Queries \ retold :
    /\ query[q].pc # "ended" => reported[q] = 0 /\ Holding(q) = {}
    /\ \A c, d \in Holding(q) : c = d /\ reported[q] = 0
    /\ reported[q] <= 1

(***************************************************************************)
(* What makes Paired hold.  Only the query whose stream is read, or whose  *)
(* batch is under way, has calls that are not excused.                     *)
(***************************************************************************)
CallsInv ==
  \A q \in Queries :
    /\ query[q].seen => query[q].calls
    /\ query[q].calls /\ q \notin excused =>
         \/ query[q].pc = "stream" /\ query[q].seen
         \/ query[q].pc \in {"processed", "tools"}
    /\ query[q].pc = "new" => query[q] = Fresh
    /\ query[q].pc \in {"prepare", "skill", "shell"} => query[q].answers = 0

(***************************************************************************)
(* The stream that writes to the history has the lock, and its message is  *)
(* there, before what is taken back with it; who waits for a stream waits  *)
(* for the one with the lock.                                              *)
(***************************************************************************)
LockInv ==
  ~overtaken =>
    /\ \A q \in Queries : Streaming(q) /\ Attached(q) =>
         /\ lock = q
         /\ query[q].answers = 0 =>
              query[q].before < Len(history) /\ history[query[q].before + 1].what # "response"
    /\ current \in Waiting => Attached(current) /\ query[current].awaits = lock

\* The history ends with a call, and the current query is the one to answer it.
OpenIn(h, y) == h # <<>> /\ Last(h) = Item("call", y)
Owes(y) ==
  /\ y # 0 /\ current # 0
  /\ \/ current = y /\ query[y].pc = "tools"
     \/ current = y /\ query[y].pc = "processed" /\ query[y].calls
     \/ query[current].pc \in {"turn", "compress", "send", "lock"} /\ query[current].answers = y

Matches(h) ==
  /\ PairedIn(h)
  /\ \A y \in (Queries \cup {0}) \ excused :
       /\ OpenIn(h, y) => Owes(y)
       /\ Owes(y) /\ y \notin retold => OpenIn(h, y)

(***************************************************************************)
(* The history ends with a call exactly as long as the current query has   *)
(* the call's batch or its results, and nobody writes then; what is being  *)
(* compressed ends in the same way.                                        *)
(***************************************************************************)
PairInv ==
  ~overtaken =>
    /\ Matches(history)
    /\ \A y \in (Queries \cup {0}) \ excused : OpenIn(history, y) => lock = 0
    /\ current # 0 /\ query[current].pc = "compress" => Matches(query[current].snapshot)
=============================================================================
