--------------------------- MODULE ChatRecording ---------------------------
(***************************************************************************)
(* The recording of a conversation in a file of one JSON record a line     *)
(* (packages/core/src/services/chatRecordingService.ts): the records a     *)
(* session appends, those it holds back until there is something worth     *)
(* resuming, failing and torn writes, a crash between any two writes, and  *)
(* what loadConversationRecord makes of the file.                          *)
(***************************************************************************)
EXTENDS Naturals, Sequences, SequencesExt

CONSTANTS
  MaxMessages,  \* bound: message ids in a behaviour
  MaxOps,       \* bound: operations of the recording
  MaxFaults,    \* bound: failed writes and crashes
  Tears         \* may a write that fails leave a part of its first line

ASSUME RecordingAssumption ==
  /\ MaxMessages \in Nat /\ MaxOps \in Nat /\ MaxFaults \in Nat
  /\ Tears \in BOOLEAN

VARIABLES
  file,      \* the lines on disk, <<>> for no file
  torn,      \* does the file end in the middle of a line
  on,        \* is conversationFile set
  lazy,      \* is pendingMetadata set: nothing has been written yet
  pending,   \* pendingRecords
  messages,  \* cachedConversation.messages
  deleting,  \* deleteCurrentSessionAsync: "no", "asked", or "unlinked"
  up,        \* is the process alive
  todo,      \* the writes that are left of the present operation
  nextId, ops, faults,
  \* History variables.
  kept,      \* messages before the present operation
  unsaved    \* has a write failed whose effect is in memory, or been swallowed

disk   == <<file, torn>>
memory == <<on, lazy, pending, messages>>
bounds == <<nextId, ops, faults>>
vars == <<disk, memory, deleting, up, todo, bounds, kept, unsaved>>

\* A user's prompt, context the program adds to a session, an answer of the
\* model.  more: tokens or tool calls have been added to it.
Kinds == {"user", "context", "model"}
Message == [id: 1..MaxMessages, kind: Kinds, more: BOOLEAN]

\* isResumableMessageRecord
IsResumable(m) == m.kind # "context"
HasResumable(ms) == \E i \in DOMAIN ms : IsResumable(ms[i])

(***************************************************************************)
(* The lines of the file, and what a reader makes of them.                 *)
(***************************************************************************)
Header         == [what |-> "header"]
Update         == [what |-> "update"]    \* $set of anything but messages
MessageLine(m) == [what |-> "message", message |-> m]
RewindLine(id) == [what |-> "rewind", to |-> id]
Checkpoint(ms) == [what |-> "checkpoint", messages |-> ms]
Garbage        == [what |-> "garbage"]   \* does not parse, and is skipped

Line ==
  [what: {"header", "update", "garbage"}] \cup [what: {"message"}, message: Message]
    \cup [what: {"rewind"}, to: 1..MaxMessages] \cup [what: {"checkpoint"}, messages: Seq(Message)]

Place(ms, id) == CHOOSE i \in DOMAIN ms : ms[i].id = id
Has(ms, id) == \E i \in DOMAIN ms : ms[i].id = id

\* Mutant: a message that is written again is taken for a new one.
PutLast(ms, m) == Append(ms, m)

\* A message keeps the place it had.
Put(ms, m) == IF Has(ms, m.id) THEN [ms EXCEPT ![Place(ms, m.id)] = m] ELSE Append(ms, m)

\* The messages before that one: none when it is not there.
Before(ms, id) == IF Has(ms, id) THEN SubSeq(ms, 1, Place(ms, id) - 1) ELSE <<>>

\* One line of loadConversationRecord.
Read(read, line) ==
  CASE line.what = "header"     -> [read EXCEPT !.header = TRUE]
    [] line.what = "message"    -> [read EXCEPT !.messages = Put(@, line.message)]
    [] line.what = "rewind"     -> [read EXCEPT !.messages = Before(@, line.to)]
    [] line.what = "checkpoint" -> [read EXCEPT !.messages = line.messages]
    [] OTHER                    -> read

Load(lines) ==
  LET read[n \in 0..Len(lines)] ==
        IF n = 0 THEN [header |-> FALSE, messages |-> <<>>] ELSE Read(read[n - 1], lines[n])
  IN  read[Len(lines)]

\* hasValidSessionHeader
HasValidHeader == file # <<>> /\ file[1] = Header

(***************************************************************************)
(* Operations as the writes they do.  A write adds its line, and then      *)
(* memory follows; or memory has changed before (ahead).                   *)
(***************************************************************************)
Flush      == [do |-> "flush", ahead |-> FALSE]
Rewrite(ms) ==
  [do |-> "rewrite", ahead |-> FALSE,
   lines |-> <<Header>> \o [i \in DOMAIN ms |-> MessageLine(ms[i])]]
Write(line) == [do |-> "append", line |-> line, ahead |-> FALSE]
Ahead(line) == [do |-> "append", line |-> line, ahead |-> TRUE]

Step ==
  [do: {"flush"}, ahead: {FALSE}] \cup [do: {"append"}, ahead: BOOLEAN, line: Line]
    \cup [do: {"rewrite"}, ahead: {FALSE}, lines: Seq(Line)]

TypeOK ==
  /\ file \in Seq(Line) /\ pending \in Seq(Line) /\ todo \in Seq(Step)
  /\ {torn, on, lazy, up, unsaved} \subseteq BOOLEAN
  /\ messages \in Seq(Message) /\ kept \in Seq(Message)
  /\ \A i, j \in DOMAIN messages : messages[i].id = messages[j].id => i = j
  /\ deleting \in {"no", "asked", "unlinked"} /\ (deleting # "no" => up)
  /\ nextId \in 1..(MaxMessages + 1) /\ ops \in 0..MaxOps /\ faults \in 0..MaxFaults
  /\ torn => file # <<>> /\ Last(file) = Garbage
  /\ lazy => ~HasValidHeader
  /\ ~on => todo = <<>> /\ pending = <<>>

Init ==
  /\ file = <<>> /\ torn = FALSE
  /\ on = TRUE /\ lazy = TRUE /\ pending = <<>> /\ messages = <<>>
  /\ deleting = "no" /\ up = TRUE /\ todo = <<>>
  /\ nextId = 1 /\ ops = 0 /\ faults = 0
  /\ kept = <<>> /\ unsaved = FALSE

Ready == up /\ on /\ todo = <<>> /\ ops < MaxOps

Begin(ms, writes) ==
  /\ ops' = ops + 1 /\ messages' = ms /\ todo' = writes
  /\ UNCHANGED <<disk, on, lazy, pending, deleting, up, faults, unsaved>>

\* Mutant: whatever is recorded is written.
FlushAlways(ms) == <<Flush>>

\* Something worth resuming has what was held back written first.
FlushFor(ms) == IF HasResumable(ms) THEN <<Flush>> ELSE <<>>

\* recordMessage, of a message of the chat.
RecordMessage(kind) ==
  LET m == [id |-> nextId, kind |-> kind, more |-> FALSE] IN
  /\ Ready /\ nextId <= MaxMessages
  /\ Begin(messages, FlushFor(<<m>>) \o <<Write(MessageLine(m)), Write(Update)>>)
  /\ nextId' = nextId + 1
  /\ UNCHANGED kept

LastIsModel == messages # <<>> /\ Last(messages).kind = "model"

\* recordMessageTokens, and recordToolCalls, when the model's message is the
\* last one: it is changed, and its line written again.
Amend ==
  LET m == [Last(messages) EXCEPT !.more = TRUE] IN
  /\ Ready /\ LastIsModel
  /\ Begin(Put(messages, m), <<Ahead(MessageLine(m))>>)
  /\ UNCHANGED <<nextId, kept>>

\* recordToolCalls, when it is not, or thoughts are waiting for a message.  A
\* tool is called only when there has been a prompt.
RecordToolCalls ==
  LET m == [id |-> nextId, kind |-> "model", more |-> TRUE] IN
  /\ Ready /\ nextId <= MaxMessages /\ (lazy => HasResumable(messages))
  /\ Begin(messages, <<Write(MessageLine(m))>>)
  /\ nextId' = nextId + 1
  /\ UNCHANGED kept

\* Mutant: the message the user rewinds to is kept.
UpTo(ms, id) == SubSeq(ms, 1, Place(ms, id))

Rewound(ms, id) == Before(ms, id)

RewindTo(id) ==
  /\ Ready /\ Has(messages, id)
  /\ Begin(Rewound(messages, id), <<Ahead(RewindLine(id))>>)
  /\ UNCHANGED <<nextId, kept>>

\* The histories the chat may have when it is compared with the recording: the
\* end was rolled back, a summary stands for the beginning, or the chat has
\* just started and has its context.
Histories ==
  LET new(kind) == [id |-> nextId, kind |-> kind, more |-> FALSE] IN
  {SubSeq(messages, 1, i) : i \in 0..Len(messages)} \cup
  IF nextId > MaxMessages THEN {}
  ELSE IF messages = <<>> THEN {<<new("context")>>}
  ELSE {<<new("user")>> \o SubSeq(messages, i, Len(messages)) : i \in 2..(Len(messages) + 1)}

UsesId(ms) == Has(ms, nextId)

Sync(ms) == FlushFor(ms) \o <<Ahead(Checkpoint(ms))>>

\* updateMessagesFromHistory, which does nothing when they are the same.
UpdateMessagesFromHistory(ms) ==
  /\ Ready /\ ms # messages
  /\ Begin(ms, Sync(ms))
  /\ nextId' = IF UsesId(ms) THEN nextId + 1 ELSE nextId
  /\ UNCHANGED kept

\* Compression starts a new chat on the same conversation and file, and its
\* history is recorded.  A file without a header is written anew before that.
\* A chat of which nothing but its context is there has nothing to compress.
Compress(ms) ==
  /\ Ready /\ UsesId(ms) /\ HasResumable(messages)
  /\ Begin(ms, (IF HasValidHeader THEN <<>> ELSE <<Rewrite(messages)>>) \o Sync(ms))
  /\ nextId' = nextId + 1
  /\ UNCHANGED kept

SaveSummary ==
  /\ Ready
  /\ Begin(messages, <<Write(Update)>>)
  /\ UNCHANGED <<nextId, kept>>

\* deleteCurrentSessionAsync.  The file is unlinked while the session goes on,
\* and the recording is switched off when that is done.
DeleteCurrentSession ==
  /\ Ready /\ deleting = "no"
  /\ deleting' = "asked" /\ ops' = ops + 1
  /\ UNCHANGED <<disk, memory, up, todo, nextId, faults, kept, unsaved>>

Unlinked ==
  /\ deleting = "asked"
  /\ file' = <<>> /\ torn' = FALSE /\ deleting' = "unlinked"
  /\ UNCHANGED <<memory, up, todo, bounds, kept, unsaved>>

Deleted ==
  /\ deleting = "unlinked" /\ todo = <<>>
  /\ deleting' = "no"
  /\ on' = FALSE /\ lazy' = FALSE /\ pending' = <<>> /\ messages' = <<>> /\ kept' = <<>>
  /\ UNCHANGED <<disk, up, todo, bounds, unsaved>>

\* A chat that starts after the recording was switched off has a new file, and
\* its history is recorded.
RecordAnew(ms) ==
  /\ up /\ ~on /\ deleting = "no" /\ ops < MaxOps
  /\ file' = <<>> /\ torn' = FALSE
  /\ on' = TRUE /\ lazy' = TRUE /\ pending' = <<>> /\ messages' = ms
  /\ todo' = IF ms = <<>> THEN <<>> ELSE Sync(ms)
  /\ nextId' = IF UsesId(ms) THEN nextId + 1 ELSE nextId
  /\ kept' = <<>> /\ unsaved' = FALSE /\ ops' = ops + 1
  /\ UNCHANGED <<deleting, up, faults>>

(***************************************************************************)
(* The writes.                                                             *)
(***************************************************************************)
\* A line that is written after a torn one is lost with it.
AppendLines(ls) ==
  /\ file' = file \o IF torn THEN Tail(ls) ELSE ls
  /\ torn' = FALSE
  /\ unsaved' = IF torn THEN unsaved \/ Head(ls) # Update
                ELSE unsaved /\ ~(HasValidHeader /\ Last(ls).what = "checkpoint")

\* Memory has a message once its line is written or held back.
Remembered(step) ==
  IF ~step.ahead /\ step.line.what = "message" THEN Put(messages, step.line.message)
  ELSE messages

TouchesDisk(step) ==
  CASE step.do = "flush"  -> lazy
    [] step.do = "append" -> ~lazy
    [] OTHER              -> TRUE

Advance ==
  /\ todo' = Tail(todo)
  /\ kept' = IF Len(todo) = 1 THEN messages' ELSE kept
  /\ UNCHANGED <<on, deleting, up, bounds>>

\* flushPendingRecords
DoFlush ==
  /\ up /\ todo # <<>> /\ Head(todo).do = "flush"
  /\ IF lazy THEN AppendLines(<<Header>> \o pending)
     ELSE UNCHANGED <<disk, unsaved>>
  /\ lazy' = FALSE /\ pending' = <<>>
  /\ Advance /\ UNCHANGED messages

\* appendRecord
DoAppend ==
  /\ up /\ todo # <<>> /\ Head(todo).do = "append"
  /\ LET step == Head(todo) IN
     /\ IF lazy THEN pending' = Append(pending, step.line) /\ UNCHANGED <<disk, unsaved>>
        ELSE AppendLines(<<step.line>>) /\ UNCHANGED pending
     /\ messages' = Remembered(step)
  /\ Advance /\ UNCHANGED lazy

\* rewriteConversationFile: the old file is kept under another name, the new
\* one takes its place at once.
DoRewrite ==
  /\ up /\ todo # <<>> /\ Head(todo).do = "rewrite"
  /\ file' = Head(todo).lines /\ torn' = FALSE
  /\ lazy' = FALSE /\ pending' = <<>> /\ unsaved' = FALSE
  /\ Advance /\ UNCHANGED messages

Faulty == up /\ todo # <<>> /\ TouchesDisk(Head(todo)) /\ faults < MaxFaults

\* What a write that fails leaves on disk.
Partial ==
  \/ UNCHANGED disk
  \/ /\ Tears /\ Head(todo).do # "rewrite"
     /\ file' = IF torn THEN file ELSE Append(file, Garbage)
     /\ torn' = TRUE

\* The error goes to the caller, and the operation is over.
WriteThrows ==
  /\ Faulty /\ Partial
  /\ todo' = <<>>
  /\ messages' = IF Head(todo).do = "rewrite" THEN kept ELSE messages
  /\ \/ unsaved' = (unsaved \/ \E i \in DOMAIN todo : todo[i].ahead) /\ Head(todo).do # "rewrite"
     \/ unsaved' = unsaved /\ Head(todo).do = "rewrite"
  /\ kept' = messages' /\ faults' = faults + 1
  /\ UNCHANGED <<on, lazy, pending, deleting, up, nextId, ops>>

\* No space is left: the recording is switched off.
DiskFull ==
  /\ Faulty /\ Partial
  /\ on' = FALSE /\ lazy' = FALSE /\ pending' = <<>> /\ todo' = <<>>
  /\ faults' = faults + 1
  /\ UNCHANGED <<messages, deleting, up, nextId, ops, kept, unsaved>>

\* The process ends, between two writes.
Crash ==
  /\ up /\ faults < MaxFaults
  /\ up' = FALSE /\ deleting' = "no" /\ todo' = <<>> /\ faults' = faults + 1
  /\ on' = FALSE /\ lazy' = FALSE /\ pending' = <<>>
  /\ UNCHANGED <<disk, messages, nextId, ops, kept, unsaved>>

\* The session is resumed from its file; the history that is rebuilt from the
\* messages is the one that was recorded.
Resume ==
  LET read == Load(file) IN
  /\ ~up /\ ops < MaxOps /\ read.header /\ HasResumable(read.messages)
  /\ up' = TRUE /\ on' = TRUE /\ messages' = read.messages /\ kept' = read.messages
  /\ todo' = IF HasValidHeader THEN <<>> ELSE <<Rewrite(read.messages)>>
  /\ unsaved' = FALSE /\ ops' = ops + 1
  /\ UNCHANGED <<disk, lazy, pending, deleting, nextId, faults>>

Next ==
  \/ \E kind \in Kinds : RecordMessage(kind)
  \/ Amend \/ RecordToolCalls \/ SaveSummary
  \/ DeleteCurrentSession \/ Unlinked \/ Deleted
  \/ \E id \in 1..MaxMessages : RewindTo(id)
  \/ \E ms \in Histories : UpdateMessagesFromHistory(ms) \/ Compress(ms) \/ RecordAnew(ms)
  \/ DoFlush \/ DoAppend \/ DoRewrite
  \/ WriteThrows \/ DiskFull \/ Crash \/ Resume

Spec == Init /\ [][Next]_vars

(***************************************************************************)
(* Once there is something worth resuming, what a reader makes of the file *)
(* is what the session has in memory, before or after the operation that   *)
(* is under way: a crash loses at most that one.  Except when a write has  *)
(* failed after memory was changed, or was swallowed by a torn line, and   *)
(* unless the user has the session deleted.                                *)
(***************************************************************************)
Recoverable ==
  up /\ on /\ deleting = "no" /\ ~unsaved /\ HasResumable(kept) =>
    /\ Load(file).header
    /\ Load(file).messages \in {kept, messages}

(***************************************************************************)
(* A session that is resumed is the one that was in memory when the        *)
(* process ended, before or after the operation that was under way: also   *)
(* when the recording had been switched off before, and when a file the    *)
(* user had deleted was written again.  Except as above, and unless memory *)
(* had been dropped as well.                                               *)
(***************************************************************************)
ResumedAsItWas ==
  [][~up /\ up' /\ ~unsaved /\ (messages # <<>> \/ kept # <<>>) =>
       messages' \in {kept, messages}]_vars

(***************************************************************************)
(* A session leaves a file only when there is something worth resuming in  *)
(* it ("Sessions that never receive a real user message therefore never    *)
(* leave a jsonl file behind"), but for what is written while it is being   *)
(* deleted.                                                                *)
(***************************************************************************)
Worth(step) == step.do = "append" /\ step.line.what = "message" /\ IsResumable(step.line.message)

NoEmptySession ==
  [][deleting = "no" /\ file = <<>> /\ file' # <<>> =>
       HasResumable(messages) \/ \E i \in DOMAIN todo : Worth(todo[i])]_vars

(***************************************************************************)
(* What makes them hold.  Ids are given out once, and no line holds one    *)
(* twice or one that is not given out.                                     *)
(***************************************************************************)
KnownTo(ms, n) ==
  /\ \A i, j \in DOMAIN ms : ms[i].id = ms[j].id => i = j
  /\ \A i \in DOMAIN ms : ms[i].id < n

LineKnownTo(line, n) ==
  /\ line.what = "message" => line.message.id < n
  /\ line.what = "checkpoint" => KnownTo(line.messages, n)

Known(ms) == KnownTo(ms, nextId)
KnownLine(line) == LineKnownTo(line, nextId)

IdsInv ==
  /\ Known(messages) /\ Known(kept)
  /\ \A i \in DOMAIN file : KnownLine(file[i])
  /\ \A i \in DOMAIN pending : KnownLine(pending[i])
  /\ \A i \in DOMAIN todo : todo[i].do = "append" => KnownLine(todo[i].line)

\* Nothing is written before the header is.
LazyInv ==
  /\ lazy => file = <<>> \/ (torn /\ file = <<Garbage>>)
  /\ up /\ on /\ deleting = "no" /\ file = <<>> => lazy
  /\ ~up => ~on
  /\ ~on => ~lazy

(***************************************************************************)
(* The writes that are left: those of which memory is ahead are one, the   *)
(* last, which says to a reader what memory has become; a file is written  *)
(* anew at the beginning, as it was before the operation.  A session is    *)
(* written for something that is worth resuming.                           *)
(***************************************************************************)
IsAhead == todo # <<>> /\ Last(todo).ahead
Follows(ms, line) == Read([header |-> TRUE, messages |-> ms], line).messages

WritesInv ==
  /\ \A i \in DOMAIN todo :
       /\ todo[i].ahead => /\ i = Len(todo) /\ messages = Follows(kept, todo[i].line)
                          /\ todo[i].line.what # "header"
       /\ todo[i].do = "append" /\ ~todo[i].ahead =>
            ~IsAhead /\ todo[i].line.what \in {"message", "update"}
       /\ todo[i].do = "rewrite" =>
            i = 1 /\ todo[i] = Rewrite(kept) /\ HasResumable(messages)
       /\ todo[i].do = "flush" =>
            /\ \A j \in 1..(i - 1) : todo[j].do = "rewrite"
            /\ HasResumable(messages) \/ \E j \in DOMAIN todo : Worth(todo[j])
  /\ on /\ ~IsAhead /\ (todo = <<>> \/ Head(todo).do # "append") => kept = messages

(***************************************************************************)
(* What a reader makes of the file, or would of what is held back, is what *)
(* the session had in memory before the write that memory is ahead of.     *)
(***************************************************************************)
Written == Load(IF lazy THEN <<Header>> \o pending ELSE file)

ReadInv ==
  up /\ on /\ ~unsaved =>
    /\ deleting = "no" => Written.header
    /\ Written.header => Written.messages = IF IsAhead THEN kept ELSE messages
    /\ lazy =>
         /\ ~HasResumable(kept)
         /\ todo = <<>> \/ Head(todo).do = "append" =>
              ~HasResumable(messages) /\ \A i \in DOMAIN todo : ~Worth(todo[i])

\* It stays so when the recording has ended, for what memory still has.
Dropped == messages = <<>> /\ kept = <<>>

OffInv ==
  ~on /\ ~unsaved /\ ~Dropped /\ Load(file).header =>
    Load(file).messages \in {kept, messages}
=============================================================================
