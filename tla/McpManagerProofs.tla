-------------------------- MODULE McpManagerProofs --------------------------
(***************************************************************************)
(* What is proved of the clients of an MCP server: the types, that the     *)
(* model is told of the tools there are, that discovery completes, and     *)
(* that the tools registered are the current ones, for any number of       *)
(* operations that overlap.                                                *)
(***************************************************************************)
EXTENDS McpManager, TLAPS

Operation(o) ==
  \/ Begin(o) \/ Closed(o) \/ Reloaded(o)
  \/ Disabled(o) \/ DisabledClosed(o) \/ Inactive(o) \/ Enabled(o)
  \/ Connects(o) \/ Fetches(o) \/ Registers(o) \/ Continue(o) \/ End(o)

OfClient(c) == Close(c) \/ ToolsAnswer(c) \/ RefreshToolsEnds(c) \/ OnError(c)

\* A step is of an operation, of a client, or of what they share.
LEMMA StepCases ==
  ASSUME Next
  PROVE \/ \E o \in Ops : Operation(o) \/ OfClient(o)
        \/ Settle \/ Refreshed \/ Coalesced \/ ServerNotifies
BY DEF Next, Operation, OfClient

(***************************************************************************)
(* Types.                                                                  *)
(***************************************************************************)
OpsTyped == op \in [Ops -> Op]
ClientsTyped == client \in [Ops -> Client] /\ clients \in [Keys -> Ops \cup {None}]
RestTyped ==
  /\ config \in Keys /\ loaded \in BOOLEAN
  /\ tools \subseteq Versions
  /\ context \subseteq Versions
  /\ refresher \in {"idle", "refreshing", "coalescing"} /\ pending \in BOOLEAN
  /\ chain \subseteq Ops
  /\ discovery \in {"NOT_STARTED", "IN_PROGRESS", "COMPLETED"}
  /\ version \in Versions /\ failed \in BOOLEAN /\ robbed \subseteq Ops

LEMMA Parts == TypeOK <=> OpsTyped /\ ClientsTyped /\ RestTyped
BY DEF TypeOK, OpsTyped, ClientsTyped, RestTyped

LEMMA FreshTyped == Fresh \in Op /\ 0 \in Versions /\ {} \in Keys
BY McpAssumption DEF Op, Fresh, Keys, Versions, AllKinds

LEMMA InitTyped == Init => TypeOK
<1> SUFFICES ASSUME Init PROVE TypeOK
  OBVIOUS
<1>1. op \in [Ops -> Op]
  BY FreshTyped DEF Init
<1>2. client \in [Ops -> Client]
  BY DEF Init, Client
<1> QED BY <1>1, <1>2, FreshTyped DEF Init, TypeOK

\* What the disconnects leave is typed.
LEMMA DisconnectedTyped ==
  ASSUME TypeOK, NEW C
  PROVE /\ Disconnected(C) \in [Ops -> Client]
        /\ Connected(C) \subseteq C
        /\ RemoveTools(C) => tools' \subseteq Versions /\ robbed' \subseteq Ops
BY DEF TypeOK, Disconnected, RemoveTools, Client, Connected

LEMMA RefreshTyped ==
  ASSUME TypeOK, ScheduleRefresh
  PROVE refresher' \in {"idle", "refreshing", "coalescing"} /\ pending' \in BOOLEAN
BY DEF TypeOK, ScheduleRefresh

LEMMA InMapTyped ==
  ASSUME TypeOK
  PROVE /\ InMap \subseteq Ops
        /\ \A k \in Keys : {clients[k]} \ {None} \subseteq Ops
        /\ \A k \in Keys : clients[k] # None => {clients[k]} \subseteq Ops
BY DEF TypeOK, InMap

LEMMA ClosingTyped ==
  ASSUME TypeOK, NEW o \in Ops, NEW kind \in AllKinds, NEW C, C \subseteq Ops,
         Closing(o, kind, C)
  PROVE op' \in [Ops -> Op]
<1>1. Connected(C) \subseteq Ops
  BY DisconnectedTyped
<1>2. \A p \in Ops : op'[p] \in Op
  <2>0. op[o] \in Op /\ config \in Keys
    BY DEF TypeOK
  <2> QED BY <1>1, <2>0 DEF TypeOK, Closing, Op
<1> QED BY <1>2 DEF TypeOK, Closing

\* What maybeDiscoverMcpServer does before its first await.
DiscoverStale(o, kind, key, k) ==
  /\ op' = [op EXCEPT ![o].kind = kind, ![o].pc = "reload", ![o].key = key,
                      ![o].closing = Connected({clients[k]})]
  /\ clients' = [clients EXCEPT ![k] = None]
  /\ client' = Disconnected({clients[k]})
  /\ RemoveTools({clients[k]})
DiscoverAsks(o, kind, key) ==
  /\ op' = [op EXCEPT ![o].kind = kind, ![o].pc = "asking", ![o].key = key,
                      ![o].existing = clients[key]]
  /\ UNCHANGED <<clients, client, tools, robbed>>

LEMMA DiscoverCases ==
  ASSUME TypeOK, NEW o \in Ops, NEW kind, NEW source \in Keys, Discover(o, kind, source)
  PROVE \E key \in Keys :
          /\ config' = key
          /\ \/ \E k \in Keys : clients[k] # None /\ DiscoverStale(o, kind, key, k)
             \/ DiscoverAsks(o, kind, key)
<1>1. config \cup source \in Keys
  BY DEF TypeOK, Keys
<1>2. config' = config \cup source
  BY DEF Discover
<1>3. \/ \E k \in Keys : clients[k] # None /\ DiscoverStale(o, kind, config \cup source, k)
      \/ DiscoverAsks(o, kind, config \cup source)
  BY DEF Discover, DiscoverStale, DiscoverAsks
<1> QED BY <1>1, <1>2, <1>3

LEMMA DiscoverTyped ==
  ASSUME TypeOK, NEW o \in Ops, NEW kind \in AllKinds, NEW source \in Keys,
         Discover(o, kind, source)
  PROVE /\ op' \in [Ops -> Op]
        /\ client' \in [Ops -> Client] /\ clients' \in [Keys -> Ops \cup {None}]
        /\ config' \in Keys
        /\ tools' \subseteq Versions /\ robbed' \subseteq Ops
<1>0. op[o] \in Op
  BY DEF TypeOK
<1> PICK key \in Keys :
      /\ config' = key
      /\ \/ \E k \in Keys : clients[k] # None /\ DiscoverStale(o, kind, key, k)
         \/ DiscoverAsks(o, kind, key)
  BY DiscoverCases
<1>1. CASE \E k \in Keys : clients[k] # None /\ DiscoverStale(o, kind, key, k)
  <2> PICK k \in Keys : clients[k] # None /\ DiscoverStale(o, kind, key, k)
    BY <1>1
  <2>1. Connected({clients[k]}) \subseteq Ops
    BY DisconnectedTyped, InMapTyped
  <2>2. op' \in [Ops -> Op]
    <3>1. \A p \in Ops : op'[p] \in Op
      BY <1>0, <2>1 DEF TypeOK, Op, DiscoverStale
    <3> QED BY <3>1 DEF TypeOK, DiscoverStale
  <2>3. client' \in [Ops -> Client] /\ tools' \subseteq Versions /\ robbed' \subseteq Ops
    BY DisconnectedTyped DEF DiscoverStale
  <2>4. clients' \in [Keys -> Ops \cup {None}]
    BY DEF TypeOK, DiscoverStale
  <2> QED BY <2>2, <2>3, <2>4
<1>2. CASE DiscoverAsks(o, kind, key)
  <2>1. op' \in [Ops -> Op]
    <3>1. \A p \in Ops : op'[p] \in Op
      BY <1>0, <1>2 DEF TypeOK, Op, DiscoverAsks
    <3> QED BY <1>2, <3>1 DEF TypeOK, DiscoverAsks
  <2> QED BY <1>2, <2>1 DEF DiscoverAsks, TypeOK
<1> QED BY <1>1, <1>2

LEMMA Sources == {"user"} \in Keys /\ {"ext"} \in Keys
BY DEF Keys

LEMMA BeginTyped ==
  ASSUME TypeOK, NEW o \in Ops, Begin(o)
  PROVE TypeOK'
<1>1. CASE StartConfigured(o)
  <2>1. Discover(o, "configured", {"user"})
    BY <1>1 DEF StartConfigured
  <2> QED BY <1>1, <2>1, DiscoverTyped, Sources
          DEF StartConfigured, TypeOK, refresh, AllKinds
<1>2. CASE StartExtension(o)
  <2>1. Discover(o, "extension", {"ext"})
    BY <1>2 DEF StartExtension
  <2> QED BY <1>2, <2>1, DiscoverTyped, Sources
          DEF StartExtension, TypeOK, disc, refresh, AllKinds
<1>3. CASE StopExtension(o)
  <2>1. {clients[config]} \ {None} \subseteq Ops
    BY InMapTyped DEF TypeOK
  <2>2. op' \in [Ops -> Op]
    BY <1>3, <2>1, ClosingTyped DEF StopExtension, AllKinds
  <2>3. client' \in [Ops -> Client] /\ tools' \subseteq Versions /\ robbed' \subseteq Ops
    BY <1>3, DisconnectedTyped DEF StopExtension, TypeOK
  <2>4. clients' \in [Keys -> Ops \cup {None}] /\ config' \in Keys
    BY <1>3 DEF StopExtension, TypeOK, Keys
  <2> QED BY <1>3, <2>2, <2>3, <2>4 DEF StopExtension, TypeOK, disc, refresh
<1>4. CASE Restart(o)
  <2>2. op' \in [Ops -> Op]
    BY <1>4, InMapTyped, ClosingTyped DEF Restart, AllKinds
  <2>3. client' \in [Ops -> Client] /\ tools' \subseteq Versions /\ robbed' \subseteq Ops
    BY <1>4, DisconnectedTyped DEF Restart
  <2> QED BY <1>4, <2>2, <2>3 DEF Restart, TypeOK, disc, refresh
<1>5. CASE RestartServer(o)
  <2>1. {clients[config]} \ {None} \subseteq Ops
    BY InMapTyped DEF TypeOK
  <2>2. op' \in [Ops -> Op]
    BY <1>5, <2>1, ClosingTyped DEF RestartServer, AllKinds
  <2>3. client' \in [Ops -> Client] /\ tools' \subseteq Versions /\ robbed' \subseteq Ops
    BY <1>5, DisconnectedTyped DEF RestartServer
  <2>4. clients' \in [Keys -> Ops \cup {None}]
    BY <1>5 DEF RestartServer, TypeOK
  <2> QED BY <1>5, <2>2, <2>3, <2>4 DEF RestartServer, TypeOK, disc, refresh
<1>6. CASE Stop(o)
  <2>2. op' \in [Ops -> Op]
    BY <1>6, InMapTyped, ClosingTyped DEF Stop, AllKinds
  <2>3. client' \in [Ops -> Client] /\ tools' \subseteq Versions /\ robbed' \subseteq Ops
    BY <1>6, DisconnectedTyped DEF Stop
  <2> QED BY <1>6, <2>2, <2>3 DEF Stop, TypeOK, disc, refresh, manager
<1> QED BY <1>1, <1>2, <1>3, <1>4, <1>5, <1>6 DEF Begin

LEMMA CloseTyped ==
  ASSUME TypeOK, NEW c \in Ops, Close(c)
  PROVE TypeOK'
<1>1. op' \in [Ops -> Op]
  <2>1. \A p \in Ops : op'[p] \in Op
    <3> TAKE p \in Ops
    <3>1. op[p] \in Op
      BY DEF TypeOK
    <3> QED BY <3>1 DEF Close, TypeOK, Op
  <2> QED BY <2>1 DEF Close
<1>2. client' \in [Ops -> Client]
  <2>1. \A p \in Ops : client'[p] \in Client
    <3> TAKE p \in Ops
    <3>1. client[p] \in Client
      BY DEF TypeOK
    <3> QED BY <3>1 DEF Close, TypeOK, Client
  <2> QED BY <2>1 DEF Close, TypeOK
<1> QED BY <1>1, <1>2 DEF Close, TypeOK, manager, refresh, disc

\* What happens when the disconnects of an operation have ended.
LEMMA ClosedCases ==
  ASSUME NEW o \in Ops, Closed(o)
  PROVE /\ op[o].pc = "closing"
        /\ UNCHANGED <<loaded, context, disc, version, failed>>
        /\ \/ /\ op[o].kind = "stop"
              /\ clients' = [k \in Keys |-> None]
              /\ op' = [op EXCEPT ![o].pc = "ended", ![o].key = {}]
              /\ UNCHANGED <<client, config, tools, robbed, refresher, pending>>
           \/ /\ op' = [op EXCEPT ![o].pc = "refresh", ![o].key = {}]
              /\ ScheduleRefresh
              /\ UNCHANGED <<client, clients, config, tools, robbed>>
           \/ /\ op[o].kind \in {"restart", "restart_server"}
              /\ \E source \in {config, op[o].key} : Discover(o, op[o].kind, source)
              /\ UNCHANGED <<refresher, pending>>
BY DEF Closed

LEMMA ClosedTyped ==
  ASSUME TypeOK, NEW o \in Ops, Closed(o)
  PROVE TypeOK'
<1>0. op[o] \in Op /\ op[o].key \in Keys /\ config \in Keys
  BY DEF TypeOK, Op
<1>1. CASE \E source \in {config, op[o].key} : Discover(o, op[o].kind, source)
  <2>1. op[o].kind \in AllKinds
    BY <1>0 DEF Op
  <2>2. refresher' \in {"idle", "refreshing", "coalescing"} /\ pending' \in BOOLEAN
    BY ClosedCases, RefreshTyped DEF TypeOK
  <2> QED BY <1>0, <1>1, <2>1, <2>2, DiscoverTyped, ClosedCases DEF TypeOK, disc
<1>2. CASE /\ op[o].kind = "stop"
           /\ clients' = [k \in Keys |-> None]
           /\ op' = [op EXCEPT ![o].pc = "ended", ![o].key = {}]
           /\ UNCHANGED <<client, config, tools, robbed, refresher, pending>>
  <2>1. \A p \in Ops : op'[p] \in Op
    BY <1>0, <1>2, FreshTyped DEF TypeOK, Op
  <2>2. op' \in [Ops -> Op]
    BY <1>2, <2>1 DEF TypeOK
  <2> QED BY <1>2, <2>2, ClosedCases DEF TypeOK, disc
<1>3. CASE /\ op' = [op EXCEPT ![o].pc = "refresh", ![o].key = {}]
           /\ ScheduleRefresh
           /\ UNCHANGED <<client, clients, config, tools, robbed>>
  <2>1. \A p \in Ops : op'[p] \in Op
    BY <1>0, <1>3, FreshTyped DEF TypeOK, Op
  <2>2. op' \in [Ops -> Op]
    BY <1>3, <2>1 DEF TypeOK
  <2> QED BY <1>3, <2>2, RefreshTyped, ClosedCases DEF TypeOK, disc
<1> QED BY <1>1, <1>2, <1>3, ClosedCases

LEMMA QuestionTyped ==
  ASSUME TypeOK, NEW o \in Ops, Reloaded(o) \/ Disabled(o) \/ DisabledClosed(o) \/ Inactive(o)
  PROVE TypeOK'
<1>1. op[o].key \in Keys
  BY DEF TypeOK, Op, Keys
<1>2. CASE Reloaded(o)
  <2>1. op' \in [Ops -> Op]
    <3>0. op[o] \in Op
      BY DEF TypeOK
    <3>1. \A p \in Ops : op'[p] \in Op
      BY <3>0, <1>1, <1>2 DEF Reloaded, TypeOK, Op
    <3> QED BY <1>2, <3>1 DEF Reloaded, TypeOK
  <2> QED BY <1>2, <2>1 DEF Reloaded, TypeOK, manager, refresh, disc, ghosts
<1>3. CASE Disabled(o)
  <2>1. Connected({clients[op[o].key]} \ {None}) \subseteq Ops
    BY <1>1, DisconnectedTyped, InMapTyped
  <2>2. op' \in [Ops -> Op]
    BY <1>3, <2>1 DEF Disabled, TypeOK, Op
  <2>3. client' \in [Ops -> Client] /\ tools' \subseteq Versions /\ robbed' \subseteq Ops
    BY <1>3, DisconnectedTyped DEF Disabled, TypeOK
  <2>4. clients' \in [Keys -> Ops \cup {None}]
    BY <1>3 DEF Disabled, TypeOK
  <2> QED BY <1>3, <2>2, <2>3, <2>4 DEF Disabled, TypeOK, refresh, disc
<1>4. CASE DisabledClosed(o)
  <2>1. op' \in [Ops -> Op]
    BY <1>4 DEF DisabledClosed, TypeOK, Op
  <2>2. refresher' \in {"idle", "refreshing", "coalescing"} /\ pending' \in BOOLEAN
    BY <1>4, RefreshTyped DEF DisabledClosed
  <2> QED BY <1>4, <2>1, <2>2 DEF DisabledClosed, TypeOK, manager, disc, ghosts
<1>5. CASE Inactive(o)
  <2>1. op' \in [Ops -> Op]
    BY <1>5 DEF Inactive, TypeOK, Op
  <2> QED BY <1>5, <2>1 DEF Inactive, TypeOK, manager, refresh, disc, ghosts
<1> QED BY <1>2, <1>3, <1>4, <1>5

LEMMA EnabledTyped ==
  ASSUME TypeOK, NEW o \in Ops, Enabled(o)
  PROVE TypeOK'
<1> DEFINE c == IF op[o].existing = None THEN o ELSE op[o].existing
<1>1. c \in Ops
  BY DEF TypeOK, Op
<1>2. op' \in [Ops -> Op]
  BY <1>1 DEF Enabled, TypeOK, Op
<1>3. client' \in [Ops -> Client]
  BY <1>1 DEF Enabled, TypeOK, Client
<1>4. clients' \in [Keys -> Ops \cup {None}]
  BY DEF Enabled, TypeOK
<1> QED BY <1>2, <1>3, <1>4 DEF Enabled, TypeOK, refresh, ghosts

LEMMA DiscoveryTyped ==
  ASSUME TypeOK, NEW o \in Ops, Connects(o) \/ Fetches(o) \/ Registers(o)
  PROVE TypeOK'
<1>1. op' \in [Ops -> Op]
  BY DEF Connects, Fetches, Registers, TypeOK, Op
<1>2. client' \in [Ops -> Client]
  BY DEF Connects, Fetches, Registers, TypeOK, Client
<1>3. tools' \subseteq Versions /\ robbed' \subseteq Ops
  BY DEF Connects, Fetches, Registers, TypeOK, Op
<1> QED BY <1>1, <1>2, <1>3
    DEF Connects, Fetches, Registers, TypeOK, manager, refresh, disc

LEMMA EndTyped ==
  ASSUME TypeOK, NEW o \in Ops, Continue(o) \/ End(o)
  PROVE TypeOK'
<1>1. CASE Continue(o)
  <2>1. op' \in [Ops -> Op]
    <3>0. op[o] \in Op
      BY DEF TypeOK
    <3>1. \A p \in Ops : op'[p] \in Op
      BY <3>0, <1>1, FreshTyped DEF Continue, TypeOK, Op
    <3> QED BY <1>1, <3>1 DEF Continue, TypeOK
  <2>2. refresher' \in {"idle", "refreshing", "coalescing"} /\ pending' \in BOOLEAN
    BY <1>1, RefreshTyped DEF Continue
  <2> QED BY <1>1, <2>1, <2>2 DEF Continue, CompletedWhenSkipped, TypeOK, manager, ghosts
<1>2. CASE End(o)
  <2>1. op' \in [Ops -> Op]
    BY <1>2 DEF End, TypeOK, Op
  <2> QED BY <1>2, <2>1 DEF End, TypeOK, manager, refresh, disc, ghosts
<1> QED BY <1>1, <1>2

LEMMA NoticeTyped ==
  ASSUME TypeOK, NEW c \in Ops
  PROVE Noticed(c) \in Client /\ Round(c) \in {"idle", "first"}
BY DEF TypeOK, Noticed, Round, Client

LEMMA RefreshesTyped ==
  ASSUME TypeOK, NEW c \in Ops, ToolsAnswer(c) \/ RefreshToolsEnds(c) \/ OnError(c)
  PROVE TypeOK'
<1>0. client[c] \in Client
  BY DEF TypeOK
<1>1. client' \in [Ops -> Client]
  <2>1. CASE ToolsAnswer(c)
    BY <1>0, <2>1 DEF ToolsAnswer, TypeOK, Client
  <2>2. CASE RefreshToolsEnds(c)
    BY <1>0, <2>2, NoticeTyped DEF RefreshToolsEnds, TypeOK, Client
  <2>3. CASE OnError(c)
    BY <1>0, <2>3 DEF OnError, TypeOK, Client
  <2> QED BY <2>1, <2>2, <2>3
<1>2. tools' \subseteq Versions /\ robbed' \subseteq Ops
  BY DEF ToolsAnswer, RefreshToolsEnds, OnError, TypeOK, ghosts
<1>3. refresher' \in {"idle", "refreshing", "coalescing"} /\ pending' \in BOOLEAN
  BY RefreshTyped DEF ToolsAnswer, RefreshToolsEnds, OnError, TypeOK, refresh
<1> QED BY <1>1, <1>2, <1>3
    DEF ToolsAnswer, RefreshToolsEnds, OnError, TypeOK, manager, disc, refresh, ghosts

LEMMA SharedTyped ==
  ASSUME TypeOK, Settle \/ Refreshed \/ Coalesced \/ ServerNotifies
  PROVE TypeOK'
<1>1. client' \in [Ops -> Client]
  BY NoticeTyped DEF Settle, Refreshed, Coalesced, ServerNotifies, TypeOK
<1> QED BY <1>1
    DEF Settle, Refreshed, Coalesced, ServerNotifies, TypeOK, manager, disc, refresh, ghosts

LEMMA NextTyped == TypeOK /\ [Next]_vars => TypeOK'
<1> SUFFICES ASSUME TypeOK, [Next]_vars PROVE TypeOK'
  OBVIOUS
<1>1. CASE Next
  BY <1>1, StepCases, BeginTyped, CloseTyped, ClosedTyped, QuestionTyped,
     EnabledTyped, DiscoveryTyped, EndTyped, RefreshesTyped, SharedTyped
     DEF Operation, OfClient
<1>2. CASE UNCHANGED vars
  BY <1>2 DEF vars, manager, refresh, disc, TypeOK, ghosts
<1> QED BY <1>1, <1>2

\* Operations, clients, the registry, the context and the state of discovery
\* have their types, for all operations, whatever the server does.
THEOREM ManagerTyped == Spec => []TypeOK
<1>1. Init => TypeOK
  BY InitTyped
<1>2. TypeOK /\ [Next]_vars => TypeOK'
  BY NextTyped
<1> QED BY <1>1, <1>2, PTL DEF Spec

(***************************************************************************)
(* Who is under way after a step.  Whoever is goes on being, or asks for a *)
(* refresh, or stops.                                                      *)
(***************************************************************************)
Only(o) == \A p \in Ops \ {o} : op'[p] = op[p]

LEMMA ClosingKeeps ==
  ASSUME TypeOK, NEW o \in Ops, NEW kind, NEW C, Closing(o, kind, C)
  PROVE Only(o) /\ op'[o].kind = kind /\ op'[o].pc = "closing"
<1>1. op[o] \in Op
  BY DEF TypeOK
<1> QED BY <1>1 DEF TypeOK, Closing, Only, Op

LEMMA DiscoverKeeps ==
  ASSUME TypeOK, NEW o \in Ops, NEW kind, NEW source \in Keys, Discover(o, kind, source)
  PROVE Only(o) /\ op'[o].kind = kind /\ op'[o].pc \in {"reload", "asking"}
<1>0. op[o] \in Op /\ op \in [Ops -> Op]
  BY DEF TypeOK
<1> PICK key \in Keys :
      \/ \E k \in Keys : DiscoverStale(o, kind, key, k)
      \/ DiscoverAsks(o, kind, key)
  BY DiscoverCases
<1>1. CASE \E k \in Keys : DiscoverStale(o, kind, key, k)
  <2> PICK k \in Keys : DiscoverStale(o, kind, key, k)
    BY <1>1
  <2> DEFINE C == Connected({clients[k]})
  <2>1. op' = [op EXCEPT ![o].kind = kind, ![o].pc = "reload", ![o].key = key,
                         ![o].closing = C]
    BY DEF DiscoverStale
  <2> HIDE DEF C
  <2> QED BY <1>0, <2>1 DEF Only, Op
<1>2. CASE DiscoverAsks(o, kind, key)
  BY <1>0, <1>2 DEF DiscoverAsks, Only, Op
<1> QED BY <1>1, <1>2

LEMMA BeginKeeps ==
  ASSUME TypeOK, NEW o \in Ops, Begin(o)
  PROVE /\ Only(o) /\ op[o].pc = "new"
        /\ op'[o].pc \in {"closing", "reload", "asking"}
        /\ op'[o].kind = "configured" => op'[o].pc # "closing"
<1>1. CASE StartConfigured(o)
  <2>1. Discover(o, "configured", {"user"}) /\ op[o].pc = "new"
    BY <1>1 DEF StartConfigured
  <2> QED BY <2>1, DiscoverKeeps, Sources
<1>2. CASE StartExtension(o)
  <2>1. Discover(o, "extension", {"ext"}) /\ op[o].pc = "new"
    BY <1>2 DEF StartExtension, Started
  <2> QED BY <2>1, DiscoverKeeps, Sources
<1>3. CASE StopExtension(o)
  <2>1. op[o].pc = "new" /\ \E C : Closing(o, "stop_extension", C)
    BY <1>3 DEF StopExtension, Started
  <2> QED BY <2>1, ClosingKeeps
<1>4. CASE Restart(o)
  <2>1. op[o].pc = "new" /\ \E C : Closing(o, "restart", C)
    BY <1>4 DEF Restart, Started
  <2> QED BY <2>1, ClosingKeeps
<1>5. CASE RestartServer(o)
  <2>1. op[o].pc = "new" /\ \E C : Closing(o, "restart_server", C)
    BY <1>5 DEF RestartServer, Started
  <2> QED BY <2>1, ClosingKeeps
<1>6. CASE Stop(o)
  <2>1. op[o].pc = "new" /\ \E C : Closing(o, "stop", C)
    BY <1>6 DEF Stop, Started
  <2> QED BY <2>1, ClosingKeeps
<1> QED BY <1>1, <1>2, <1>3, <1>4, <1>5, <1>6 DEF Begin

\* The steps of an operation that has begun.
Continues(o) ==
  \/ Closed(o) \/ Reloaded(o)
  \/ Disabled(o) \/ DisabledClosed(o) \/ Inactive(o) \/ Enabled(o)
  \/ Connects(o) \/ Fetches(o) \/ Registers(o) \/ Continue(o) \/ End(o)

LEMMA ClosedKeeps ==
  ASSUME TypeOK, NEW o \in Ops, Closed(o)
  PROVE /\ Only(o) /\ op'[o].kind = op[o].kind
        /\ \/ op[o].kind = "stop" /\ op'[o].pc = "ended"
           \/ ScheduleRefresh /\ op'[o].pc = "refresh"
           \/ op'[o].pc \in {"reload", "asking"}
<1>0. op[o] \in Op /\ op \in [Ops -> Op] /\ op[o].key \in Keys /\ config \in Keys
  BY DEF TypeOK, Op
<1>1. CASE \E source \in {config, op[o].key} : Discover(o, op[o].kind, source)
  BY <1>0, <1>1, DiscoverKeeps
<1>2. CASE op[o].kind = "stop" /\ op' = [op EXCEPT ![o].pc = "ended", ![o].key = {}]
  BY <1>0, <1>2 DEF Only, Op
<1>3. CASE ScheduleRefresh /\ op' = [op EXCEPT ![o].pc = "refresh", ![o].key = {}]
  BY <1>0, <1>3 DEF Only, Op
<1> QED BY <1>1, <1>2, <1>3, ClosedCases

LEMMA ContinueKeeps ==
  ASSUME TypeOK, NEW o \in Ops, Continue(o)
  PROVE Only(o) /\ op'[o].kind = op[o].kind /\ op'[o].pc = "refresh"
<1>0. op \in [Ops -> Op]
  BY DEF TypeOK
<1>1. op' = [op EXCEPT ![o] = [Fresh EXCEPT !.kind = op[o].kind, !.pc = "refresh"]]
  BY DEF Continue
<1>2. op'[o] = [Fresh EXCEPT !.kind = op[o].kind, !.pc = "refresh"]
  BY <1>0, <1>1
<1>3. op'[o].kind = op[o].kind /\ op'[o].pc = "refresh"
  BY <1>2 DEF Fresh
<1>4. Only(o)
  BY <1>0, <1>1 DEF Only
<1> QED BY <1>3, <1>4

\* On the way of an operation from its first question to the end of discovery.
OnItsWay(o) ==
  \/ Reloaded(o) \/ Disabled(o) \/ Inactive(o) \/ Enabled(o)
  \/ Connects(o) \/ Fetches(o) \/ Registers(o)

LEMMA OnItsWayKeeps ==
  ASSUME TypeOK, NEW o \in Ops, OnItsWay(o)
  PROVE /\ Only(o) /\ op'[o].kind = op[o].kind /\ op[o].pc # "new"
        /\ op'[o].pc \notin {"new", "closing", "refresh", "ended"}
<1>0. op[o] \in Op /\ op \in [Ops -> Op]
  BY DEF TypeOK
<1>1. CASE Reloaded(o) \/ Disabled(o) \/ Inactive(o)
  BY <1>0, <1>1 DEF Reloaded, Disabled, Inactive, Only, Op
<1>2. CASE Enabled(o)
  <2>1. op[o].pc = "asking" /\ \E c, W : \E pc \in {"connecting", "fetching", "chained"} :
          op' = [op EXCEPT ![o].client = c, ![o].wait = W, ![o].pc = pc]
    BY <1>2 DEF Enabled
  <2> QED BY <1>0, <2>1 DEF Only, Op
<1>3. CASE Connects(o) \/ Fetches(o) \/ Registers(o)
  BY <1>0, <1>3 DEF Connects, Fetches, Registers, Only, Op
<1> QED BY <1>1, <1>2, <1>3 DEF OnItsWay

LEMMA DisabledClosedKeeps ==
  ASSUME TypeOK, NEW o \in Ops, DisabledClosed(o)
  PROVE /\ Only(o) /\ op'[o].kind = op[o].kind
        /\ op[o].pc = "closing_disabled" /\ op'[o].pc = "chained"
<1>0. op[o] \in Op /\ op \in [Ops -> Op]
  BY DEF TypeOK
<1> QED BY <1>0 DEF DisabledClosed, Only, Op

LEMMA EndKeeps ==
  ASSUME TypeOK, NEW o \in Ops, End(o)
  PROVE /\ Only(o) /\ op'[o].kind = op[o].kind
        /\ op[o].pc = "refresh" /\ op'[o].pc = "ended"
<1>0. op[o] \in Op /\ op \in [Ops -> Op]
  BY DEF TypeOK
<1> QED BY <1>0 DEF End, Only, Op

LEMMA ContinuesKeep ==
  ASSUME TypeOK, NEW o \in Ops, Continues(o)
  PROVE Only(o) /\ op'[o].kind = op[o].kind /\ op'[o].pc \notin {"new", "closing"}
BY ClosedKeeps, ContinueKeeps, OnItsWayKeeps, DisabledClosedKeeps, EndKeeps
   DEF Continues, OnItsWay

LEMMA OperationCases ==
  ASSUME NEW o \in Ops, Operation(o)
  PROVE Begin(o) \/ Continues(o)
BY DEF Operation, Continues

LEMMA ClientsKeep ==
  ASSUME TypeOK, NEW c \in Ops, OfClient(c), NEW p \in Ops
  PROVE /\ op'[p].kind = op[p].kind
        /\ \/ op'[p].pc = op[p].pc
           \/ op[p].pc \in {"fetching", "resources"} /\ op'[p].pc = "chained"
<1>0. op[p] \in Op
  BY DEF TypeOK
<1>1. CASE Close(c)
  BY <1>0, <1>1 DEF Close, Op
<1>2. CASE ToolsAnswer(c) \/ RefreshToolsEnds(c) \/ OnError(c)
  BY <1>2 DEF ToolsAnswer, RefreshToolsEnds, OnError
<1> QED BY <1>1, <1>2 DEF OfClient

LEMMA SharedKeeps ==
  ASSUME Settle \/ Refreshed \/ Coalesced \/ ServerNotifies
  PROVE op' = op
BY DEF Settle, Refreshed, Coalesced, ServerNotifies

(***************************************************************************)
(* The context.  A step that changes the registry leaves its operation     *)
(* under way or schedules a refresh, a refresh in progress ends in the     *)
(* registry's tools, and an operation that ends has scheduled one.         *)
(***************************************************************************)
Told == \/ context = tools
        \/ refresher # "idle"
        \/ \E o \in Ops : UnderWay(o) \/ op[o].kind = "stop"
StopsBegun == \A o \in Ops : op[o].kind = "stop" => op[o].pc # "new"

LEMMA Asked == ScheduleRefresh => refresher' # "idle"
BY DEF ScheduleRefresh

\* A witness of Told remains one after the step of another.
LEMMA ContextStep ==
  ASSUME TypeOK, StopsBegun, Told, Next
  PROVE (StopsBegun /\ Told)'
<1>1. CASE \E o \in Ops : Begin(o)
  <2> PICK o \in Ops : Begin(o)
    BY <1>1
  <2>1. UnderWay(o)'
    BY BeginKeeps DEF UnderWay
  <2>2. StopsBegun'
    BY BeginKeeps DEF StopsBegun, Only
  <2> QED BY <2>1, <2>2 DEF Told
<1>2. CASE \E o \in Ops : Continues(o)
  <2> PICK o \in Ops : Continues(o)
    BY <1>2
  <2>1. StopsBegun'
    BY ContinuesKeep DEF StopsBegun, Only
  <2>2. CASE End(o)
    <3>1. context' = context /\ tools' = tools /\ refresher' = refresher
      BY <2>2 DEF End, refresh
    <3> QED BY <2>1, <2>2, <3>1, EndKeeps DEF Told, UnderWay, Only
  <2>3. CASE Continue(o) \/ DisabledClosed(o)
    <3>1. refresher' # "idle"
      BY <2>3, Asked DEF Continue, DisabledClosed
    <3> QED BY <2>1, <3>1 DEF Told
  <2>4. CASE Closed(o)
    BY <2>1, <2>4, ClosedKeeps, Asked DEF Told, UnderWay
  <2>5. CASE OnItsWay(o)
    BY <2>1, <2>5, OnItsWayKeeps DEF Told, UnderWay
  <2> QED BY <2>2, <2>3, <2>4, <2>5 DEF Continues, OnItsWay
<1>3. CASE \E c \in Ops : OfClient(c)
  <2> PICK c \in Ops : OfClient(c)
    BY <1>3
  <2>1. StopsBegun'
    BY ClientsKeep DEF StopsBegun
  <2>2. \A o \in Ops : UnderWay(o) \/ op[o].kind = "stop"
                         => UnderWay(o)' \/ op'[o].kind = "stop"
    BY ClientsKeep DEF UnderWay
  <2>3. \/ refresher' # "idle"
        \/ context' = context /\ tools' = tools /\ refresher' = refresher
    BY Asked DEF OfClient, Close, ToolsAnswer, RefreshToolsEnds, OnError, refresh
  <2> QED BY <2>1, <2>2, <2>3 DEF Told
<1>4. CASE Settle \/ Refreshed \/ Coalesced \/ ServerNotifies
  <2>1. op' = op
    BY <1>4, SharedKeeps
  <2>2. \/ refresher' # "idle"
        \/ context' = tools'
        \/ context' = context /\ tools' = tools /\ refresher' = refresher
    BY <1>4 DEF Settle, Refreshed, Coalesced, ServerNotifies, refresh
  <2> QED BY <2>1, <2>2 DEF Told, StopsBegun, UnderWay
<1> QED BY <1>1, <1>2, <1>3, <1>4, StepCases, OperationCases

\* The operations that will still ask for a refresh, or the one that runs,
\* are enough: ContextInv is an invariant.
THEOREM ContextInvHolds == Spec => [](TypeOK /\ ContextInv)
<1>1. Init => TypeOK /\ ContextInv
  BY InitTyped DEF Init, ContextInv, Fresh
<1>2. TypeOK /\ ContextInv /\ [Next]_vars => (TypeOK /\ ContextInv)'
  <2>0. ContextInv <=> StopsBegun /\ Told
    BY DEF ContextInv, StopsBegun, Told
  <2>1. CASE TypeOK /\ ContextInv /\ Next
    BY <2>0, <2>1, NextTyped, ContextStep DEF ContextInv, StopsBegun, Told
  <2>2. CASE TypeOK /\ ContextInv /\ UNCHANGED vars
    BY <2>2, NextTyped DEF vars, refresh, ContextInv, UnderWay
  <2> QED BY <2>1, <2>2
<1> QED BY <1>1, <1>2, PTL DEF Spec

\* When nothing is under way the chat declares the registry's tools, however
\* operations, notices and coalesced refreshes have overlapped.
THEOREM ModelKnowsTools == Spec => []ContextFresh
<1>1. TypeOK /\ ContextInv => ContextFresh
  BY DEF TypeOK, ContextInv, ContextFresh, Quiet, UnderWay
<1> QED BY <1>1, ContextInvHolds, PTL

(***************************************************************************)
(* Discovery.                                                              *)
(***************************************************************************)
StartNeverCloses == \A o \in Ops : op[o].kind = "configured" => op[o].pc # "closing"
SomeoneCompletes == discovery = "IN_PROGRESS" =>
  chain # {} \/ \E o \in Ops : op[o].kind = "configured" /\ UnderWay(o)

LEMMA DiscoveryStep ==
  ASSUME TypeOK, StartNeverCloses, SomeoneCompletes, Next
  PROVE (StartNeverCloses /\ SomeoneCompletes)'
<1>1. CASE \E o \in Ops : Begin(o)
  <2> PICK o \in Ops : Begin(o)
    BY <1>1
  <2>1. StartNeverCloses'
    BY BeginKeeps DEF StartNeverCloses, Only
  <2>2. CASE StartConfigured(o)
    <3>1. Discover(o, "configured", {"user"})
      BY <2>2 DEF StartConfigured
    <3>2. op'[o].kind = "configured" /\ UnderWay(o)'
      BY <3>1, DiscoverKeeps, Sources DEF UnderWay
    <3> QED BY <2>1, <3>2 DEF SomeoneCompletes
  <2>3. CASE \/ StartExtension(o) \/ StopExtension(o)
             \/ Restart(o) \/ RestartServer(o) \/ Stop(o)
    <3>1. chain' = chain /\ discovery' = discovery
      BY <2>3 DEF StartExtension, StopExtension, Restart, RestartServer, Stop, disc
    <3>2. \A p \in Ops : op[p].kind = "configured" /\ UnderWay(p)
                           => op'[p].kind = "configured" /\ UnderWay(p)'
      BY BeginKeeps DEF UnderWay, Only
    <3> QED BY <2>1, <3>1, <3>2 DEF SomeoneCompletes
  <2> QED BY <2>2, <2>3 DEF Begin
<1>2. CASE \E o \in Ops : Continues(o)
  <2> PICK o \in Ops : Continues(o)
    BY <1>2
  <2>1. StartNeverCloses'
    BY ContinuesKeep DEF StartNeverCloses, Only
  <2>2. CASE Enabled(o)
    <3>1. chain' # {}
      BY <2>2 DEF Enabled
    <3> QED BY <2>1, <3>1 DEF SomeoneCompletes
  <2>3. CASE Continue(o)
    <3>1. chain' = chain /\ discovery' = CompletedWhenSkipped(o)
      BY <2>3 DEF Continue
    <3>2. op[o].kind = "configured" /\ discovery' = "IN_PROGRESS" => chain # {}
      BY <3>1 DEF CompletedWhenSkipped
    <3>3. discovery' = "IN_PROGRESS" => discovery = "IN_PROGRESS"
      BY <3>1 DEF CompletedWhenSkipped
    <3> QED BY <2>1, <2>3, <3>1, <3>2, <3>3, ContinueKeeps
            DEF SomeoneCompletes, UnderWay, Only
  <2>4. CASE \/ Closed(o) \/ Reloaded(o) \/ Disabled(o) \/ DisabledClosed(o)
             \/ Inactive(o) \/ Connects(o) \/ Fetches(o) \/ Registers(o) \/ End(o)
    <3>1. chain' = chain /\ discovery' = discovery
      BY <2>4 DEF Closed, Reloaded, Disabled, DisabledClosed, Inactive,
                  Connects, Fetches, Registers, End, disc
    <3>2. op[o].kind = "configured" /\ UnderWay(o) => UnderWay(o)'
      <4>1. CASE Closed(o)
        BY <4>1, ClosedCases DEF StartNeverCloses
      <4>2. CASE OnItsWay(o)
        BY <4>2, OnItsWayKeeps DEF UnderWay
      <4>3. CASE DisabledClosed(o) \/ End(o)
        BY <4>3, DisabledClosedKeeps, EndKeeps DEF UnderWay
      <4> QED BY <2>4, <4>1, <4>2, <4>3 DEF OnItsWay
    <3>3. \A p \in Ops : op[p].kind = "configured" /\ UnderWay(p)
                           => op'[p].kind = "configured" /\ UnderWay(p)'
      BY <3>2, ContinuesKeep DEF UnderWay, Only
    <3> QED BY <2>1, <3>1, <3>3 DEF SomeoneCompletes
  <2> QED BY <2>2, <2>3, <2>4 DEF Continues
<1>3. CASE \E c \in Ops : OfClient(c)
  <2> PICK c \in Ops : OfClient(c)
    BY <1>3
  <2>1. StartNeverCloses'
    BY ClientsKeep DEF StartNeverCloses
  <2>2. \A p \in Ops : op[p].kind = "configured" /\ UnderWay(p)
                         => op'[p].kind = "configured" /\ UnderWay(p)'
    BY ClientsKeep DEF UnderWay
  <2>3. chain' = chain /\ discovery' = discovery
    BY DEF OfClient, Close, ToolsAnswer, RefreshToolsEnds, OnError, disc
  <2> QED BY <2>1, <2>2, <2>3 DEF SomeoneCompletes
<1>4. CASE Settle \/ Refreshed \/ Coalesced \/ ServerNotifies
  <2>1. op' = op
    BY <1>4, SharedKeeps
  <2>2. \/ discovery' # "IN_PROGRESS"
        \/ chain' = chain /\ discovery' = discovery
    BY <1>4 DEF Settle, Refreshed, Coalesced, ServerNotifies, disc
  <2> QED BY <2>1, <2>2 DEF SomeoneCompletes, StartNeverCloses, UnderWay
<1> QED BY <1>1, <1>2, <1>3, <1>4, StepCases, OperationCases

\* Discovery in progress has a promise, or the start of the configured
\* servers is not through: DiscoveryInv is an invariant.
THEOREM DiscoveryInvHolds == Spec => [](TypeOK /\ DiscoveryInv)
<1>1. Init => TypeOK /\ DiscoveryInv
  BY InitTyped DEF Init, DiscoveryInv, Fresh
<1>2. TypeOK /\ DiscoveryInv /\ [Next]_vars => (TypeOK /\ DiscoveryInv)'
  <2>1. CASE TypeOK /\ DiscoveryInv /\ Next
    BY <2>1, NextTyped, DiscoveryStep DEF DiscoveryInv, StartNeverCloses, SomeoneCompletes
  <2>2. CASE TypeOK /\ DiscoveryInv /\ UNCHANGED vars
    BY <2>2, NextTyped DEF vars, disc, DiscoveryInv, UnderWay
  <2> QED BY <2>1, <2>2
<1> QED BY <1>1, <1>2, PTL DEF Spec

\* Discovery does not stay in progress when nothing is left to complete it,
\* also when every configured server was skipped.
THEOREM NobodyWaitsForDiscovery == Spec => []DiscoveryCompletes
<1>1. TypeOK /\ DiscoveryInv => DiscoveryCompletes
  BY DEF DiscoveryInv, DiscoveryCompletes, Quiet, UnderWay
<1> QED BY <1>1, DiscoveryInvHolds, PTL

(***************************************************************************)
(* The tools.  Whoever owes the registry the current tools goes on owing   *)
(* them until they are there, fails, or a disconnect takes the tools of    *)
(* all: then the connected clients that remain are robbed.                 *)
(***************************************************************************)
OthersKept == \A c \in Ops : AskedFor(c) => AskedFor(c)'

\* What an operation does before and after its discovery owes nothing.
LEMMA AskedKept ==
  ASSUME NEW o \in Ops, Only(o), op[o].pc \notin {"fetching", "resources"},
         version' = version
  PROVE OthersKept
BY DEF OthersKept, AskedFor, Only

LEMMA SameAsked == op' = op /\ version' = version => OthersKept
BY DEF OthersKept, AskedFor

LEMMA DisconnectsKeepTools ==
  ASSUME TypeOK, ToolsInv, NEW C \in SUBSET Ops,
         client' = Disconnected(C), RemoveTools(C),
         failed' = failed, version' = version, OthersKept
  PROVE ToolsInv'
<1>1. \A c \in Ops : /\ client'[c].again = client[c].again
                     /\ client'[c].refreshing = client[c].refreshing
                     /\ client'[c].live = client[c].live
                     /\ client'[c].status = "CONNECTED"
                          => client[c].status = "CONNECTED" /\ c \notin C
  <2> SUFFICES ASSUME NEW c \in Ops
               PROVE /\ client'[c].again = client[c].again
                     /\ client'[c].refreshing = client[c].refreshing
                     /\ client'[c].live = client[c].live
                     /\ client'[c].status = "CONNECTED"
                          => client[c].status = "CONNECTED" /\ c \notin C
    OBVIOUS
  <2>0. client[c] \in Client
    BY DEF TypeOK
  <2> QED BY <2>0 DEF Disconnected, Connected, Client
<1>2. ASSUME ~failed', NEW c \in Ops \ robbed', client'[c].status = "CONNECTED"
      PROVE version' \in tools' \/ Asks(c)' \/ AskedFor(c)'
  <2>1. client[c].status = "CONNECTED" /\ c \notin C
    BY <1>1, <1>2
  <2>2. CASE tools' = tools /\ robbed' = robbed
    <3>1. version \in tools \/ Asks(c) \/ AskedFor(c)
      BY <1>2, <2>1, <2>2 DEF ToolsInv
    <3> QED BY <1>1, <2>2, <3>1 DEF Asks, OthersKept
  <2>3. CASE robbed' = robbed \cup (Connected(Ops) \ C)
    BY <1>2, <2>1, <2>3 DEF Connected
  <2> QED BY <2>2, <2>3 DEF RemoveTools
<1> QED BY <1>1, <1>2 DEF ToolsInv

\* A step that touches neither clients nor registry.
LEMMA OthersKeepTools ==
  ASSUME ToolsInv, UNCHANGED <<client, tools, robbed, failed, version>>, OthersKept
  PROVE ToolsInv'
BY DEF ToolsInv, OthersKept, Asks

LEMMA DiscoverKeepsTools ==
  ASSUME TypeOK, ToolsInv, NEW o \in Ops, NEW kind, NEW source \in Keys,
         Discover(o, kind, source), op[o].pc \notin {"fetching", "resources"},
         UNCHANGED <<failed, version>>
  PROVE ToolsInv'
<1>0. OthersKept
  BY DiscoverKeeps, AskedKept
<1> PICK key \in Keys :
      \/ \E k \in Keys : clients[k] # None /\ DiscoverStale(o, kind, key, k)
      \/ DiscoverAsks(o, kind, key)
  BY DiscoverCases
<1>1. CASE \E k \in Keys : clients[k] # None /\ DiscoverStale(o, kind, key, k)
  <2> PICK k \in Keys : clients[k] # None /\ DiscoverStale(o, kind, key, k)
    BY <1>1
  <2>1. {clients[k]} \in SUBSET Ops
    BY InMapTyped
  <2> QED BY <1>0, <2>1, DisconnectsKeepTools DEF DiscoverStale
<1>2. CASE DiscoverAsks(o, kind, key)
  BY <1>0, <1>2, OthersKeepTools DEF DiscoverAsks
<1> QED BY <1>1, <1>2

LEMMA BeginKeepsTools ==
  ASSUME TypeOK, ToolsInv, NEW o \in Ops, Begin(o)
  PROVE ToolsInv'
<1>0. /\ op[o].pc = "new" /\ version' = version /\ failed' = failed
      /\ {clients[config]} \ {None} \in SUBSET Ops /\ InMap \in SUBSET Ops
  BY BeginKeeps, InMapTyped DEF Begin, StartConfigured, StartExtension, StopExtension,
       Restart, RestartServer, Stop, TypeOK
<1>1. OthersKept
  BY <1>0, BeginKeeps, AskedKept
<1>2. CASE StartConfigured(o)
  BY <1>0, <1>2, DiscoverKeepsTools, Sources DEF StartConfigured
<1>3. CASE StartExtension(o)
  BY <1>0, <1>3, DiscoverKeepsTools, Sources DEF StartExtension
<1>4. CASE StopExtension(o)
  <2> DEFINE C == {clients[config]} \ {None}
  <2>1. \/ client' = Disconnected(C) /\ RemoveTools(C)
        \/ UNCHANGED <<client, tools, robbed>>
    BY <1>4 DEF StopExtension
  <2>2. CASE client' = Disconnected(C) /\ RemoveTools(C)
    <3>1. C \in SUBSET Ops
      BY <1>0
    <3> HIDE DEF C
    <3> QED BY <1>0, <1>1, <2>2, <3>1, DisconnectsKeepTools
  <2>3. CASE UNCHANGED <<client, tools, robbed>>
    BY <1>0, <1>1, <2>3, OthersKeepTools
  <2> QED BY <2>1, <2>2, <2>3
<1>5. CASE Restart(o) \/ Stop(o)
  BY <1>0, <1>1, <1>5, DisconnectsKeepTools DEF Restart, Stop
<1>6. CASE RestartServer(o)
  <2> DEFINE C == {clients[config]} \ {None}
  <2>1. C \in SUBSET Ops /\ client' = Disconnected(C) /\ RemoveTools(C)
    BY <1>0, <1>6 DEF RestartServer
  <2> HIDE DEF C
  <2> QED BY <1>0, <1>1, <2>1, DisconnectsKeepTools
<1> QED BY <1>2, <1>3, <1>4, <1>5, <1>6 DEF Begin

LEMMA ClosedKeepsTools ==
  ASSUME TypeOK, ToolsInv, NEW o \in Ops, Closed(o)
  PROVE ToolsInv'
<1>0. op[o].pc = "closing" /\ version' = version /\ failed' = failed /\ OthersKept
      /\ config \in Keys /\ op[o].key \in Keys
  BY ClosedCases, ClosedKeeps, AskedKept DEF TypeOK, Op
<1>1. CASE \E source \in {config, op[o].key} : Discover(o, op[o].kind, source)
  BY <1>0, <1>1, DiscoverKeepsTools
<1>2. CASE UNCHANGED <<client, tools, robbed>>
  BY <1>0, <1>2, OthersKeepTools
<1> QED BY <1>1, <1>2, ClosedCases

\* No client is connected that was not, and what it asks stays.
LEMMA StatusesKeepTools ==
  ASSUME ToolsInv, UNCHANGED <<tools, robbed, version>>, failed' = failed \/ failed',
         \A c \in Ops : /\ client'[c].live = client[c].live
                        /\ client'[c].again = client[c].again
                        /\ client'[c].refreshing = client[c].refreshing
                        /\ client'[c].status = "CONNECTED" => client[c].status = "CONNECTED",
         ~failed' => OthersKept
  PROVE ToolsInv'
BY DEF ToolsInv, OthersKept, Asks

LEMMA QuestionKeepsTools ==
  ASSUME TypeOK, ToolsInv, NEW o \in Ops,
         Reloaded(o) \/ Disabled(o) \/ DisabledClosed(o) \/ Inactive(o) \/ Enabled(o)
  PROVE ToolsInv'
<1>0. version' = version /\ failed' = failed /\ OthersKept
  <2>1. Only(o) /\ op[o].pc \in {"reload", "asking", "closing_disabled"}
    BY OnItsWayKeeps, DisabledClosedKeeps
       DEF OnItsWay, Reloaded, Disabled, DisabledClosed, Inactive, Enabled
  <2>2. version' = version /\ failed' = failed
    BY DEF Reloaded, Disabled, DisabledClosed, Inactive, Enabled, ghosts
  <2> QED BY <2>1, <2>2, AskedKept
<1>1. CASE Reloaded(o) \/ DisabledClosed(o) \/ Inactive(o)
  BY <1>0, <1>1, OthersKeepTools DEF Reloaded, DisabledClosed, Inactive, ghosts
<1>2. CASE Disabled(o)
  <2> DEFINE C == {clients[op[o].key]} \ {None}
  <2>1. C \in SUBSET Ops
    BY InMapTyped DEF TypeOK, Op
  <2>2. \/ client' = Disconnected(C) /\ RemoveTools(C)
        \/ UNCHANGED <<client, tools, robbed>>
    BY <1>2 DEF Disabled
  <2> HIDE DEF C
  <2> QED BY <1>0, <2>1, <2>2, DisconnectsKeepTools, OthersKeepTools
<1>3. CASE Enabled(o)
  <2> DEFINE c == IF op[o].existing = None THEN o ELSE op[o].existing
  <2>1. \A p \in Ops : client[p] \in Client
    BY DEF TypeOK
  <2>2. \A p \in Ops : /\ client'[p].live = client[p].live
                       /\ client'[p].again = client[p].again
                       /\ client'[p].refreshing = client[p].refreshing
                       /\ client'[p].status = "CONNECTED" => client[p].status = "CONNECTED"
    BY <1>3, <2>1 DEF Enabled, TypeOK, Client
  <2>3. UNCHANGED <<tools, robbed>>
    BY <1>3 DEF Enabled, ghosts
  <2> QED BY <1>0, <2>2, <2>3, StatusesKeepTools
<1> QED BY <1>1, <1>2, <1>3

\* The operation that has connected a client owes its tools, until it has
\* registered those that are current.
LEMMA DiscoveryKeepsTools ==
  ASSUME TypeOK, ToolsInv, NEW o \in Ops, Connects(o) \/ Fetches(o) \/ Registers(o)
  PROVE ToolsInv'
<1>0. op[o] \in Op /\ op \in [Ops -> Op] /\ Only(o) /\ version' = version
  BY OnItsWayKeeps DEF TypeOK, OnItsWay, Connects, Fetches, Registers
<1>1. CASE Connects(o)
  <2> PICK c : c = op[o].client
    OBVIOUS
  <2>0. op[o].pc = "connecting" /\ OthersKept
    BY <1>0, <1>1, AskedKept DEF Connects
  <2>1. CASE failed'
    <3>1. \/ client' = [client EXCEPT ![c].status = "CONNECTED", ![c].live = TRUE,
                                      ![c].registered = TRUE]
          \/ client' = [client EXCEPT ![c].status = "DISCONNECTED"]
      BY <1>1 DEF Connects
    <3>2. \A p \in Ops : /\ client'[p].status = "CONNECTED" => client'[p].live
                         /\ client'[p].again => client'[p].refreshing # "idle"
      BY <3>1 DEF ToolsInv, TypeOK, Client
    <3> QED BY <2>1, <3>2 DEF ToolsInv
  <2>2. CASE ~failed'
    <3>1. /\ client' = [client EXCEPT ![c].status = "CONNECTED", ![c].live = TRUE,
                                      ![c].registered = TRUE]
          /\ op' = [op EXCEPT ![o].pc = "fetching"]
          /\ failed' = failed /\ robbed' = robbed \ {c} /\ tools' = tools
      BY <1>1, <2>2 DEF Connects
    <3>2. AskedFor(c)'
      BY <1>0, <3>1 DEF AskedFor, Op
    <3>3. \A p \in Ops \ {c} : client'[p] = client[p]
      BY <3>1 DEF TypeOK
    <3>4. \A p \in Ops : /\ client'[p].status = "CONNECTED" => client'[p].live
                         /\ client'[p].again => client'[p].refreshing # "idle"
      BY <3>1 DEF ToolsInv, TypeOK, Client
    <3>5. ASSUME NEW p \in Ops \ robbed', client'[p].status = "CONNECTED"
          PROVE version' \in tools' \/ Asks(p)' \/ AskedFor(p)'
      <4>1. CASE p = c
        BY <3>2, <4>1
      <4>2. CASE p # c
        <5>1. client'[p] = client[p] /\ p \in Ops \ robbed /\ ~failed
          BY <2>2, <3>1, <3>3, <3>5, <4>2
        <5>2. version \in tools \/ Asks(p) \/ AskedFor(p)
          BY <3>5, <5>1 DEF ToolsInv
        <5> QED BY <1>0, <2>0, <3>1, <5>1, <5>2 DEF Asks, OthersKept
      <4> QED BY <4>1, <4>2
    <3> QED BY <3>4, <3>5 DEF ToolsInv
  <2> QED BY <2>1, <2>2
<1>2. CASE Fetches(o)
  <2>1. ~failed' => OthersKept
    <3> SUFFICES ASSUME ~failed', NEW c \in Ops, AskedFor(c) PROVE AskedFor(c)'
      BY DEF OthersKept
    <3>1. op' = [op EXCEPT ![o].pc = "resources", ![o].fetched = version]
      BY <1>2 DEF Fetches
    <3>2. op'[o].client = op[o].client /\ op'[o].pc = "resources" /\ op'[o].fetched = version'
      BY <1>0, <3>1 DEF Op
    <3> PICK p \in Ops :
          /\ op[p].client = c
          /\ op[p].pc = "fetching" \/ (op[p].pc = "resources" /\ op[p].fetched = version)
      BY DEF AskedFor
    <3>3. CASE p = o
      BY <3>2, <3>3 DEF AskedFor
    <3>4. CASE p # o
      BY <1>0, <3>4 DEF AskedFor, Only
    <3> QED BY <3>3, <3>4
  <2>2. UNCHANGED <<client, tools, robbed>> /\ (failed' = failed \/ failed')
    BY <1>2 DEF Fetches
  <2> QED BY <1>0, <2>1, <2>2, StatusesKeepTools
<1>3. CASE Registers(o)
  <2>0. client' = client /\ op[o].pc = "resources"
    BY <1>3 DEF Registers
  <2>1. CASE failed'
    BY <2>0, <2>1 DEF ToolsInv
  <2>2. CASE ~failed' /\ op[o].fetched = version
    <3>1. version' \in tools'
      BY <1>0, <1>3, <2>2 DEF Registers
    <3> QED BY <2>0, <3>1 DEF ToolsInv
  <2>3. CASE ~failed' /\ op[o].fetched # version
    <3>1. tools' = tools \cup {op[o].fetched} /\ robbed' = robbed /\ failed' = failed
      BY <1>3, <2>3 DEF Registers
    <3>2. OthersKept
      BY <1>0, <2>0, <2>3 DEF OthersKept, AskedFor, Only
    <3> QED BY <1>0, <2>0, <3>1, <3>2 DEF ToolsInv, OthersKept, Asks
  <2> QED BY <2>1, <2>2, <2>3
<1> QED BY <1>1, <1>2, <1>3

LEMMA EndKeepsTools ==
  ASSUME TypeOK, ToolsInv, NEW o \in Ops, Continue(o) \/ End(o)
  PROVE ToolsInv'
<1>1. OthersKept
  BY ContinueKeeps, EndKeeps, AskedKept DEF Continue, End
<1> QED BY <1>1, OthersKeepTools DEF Continue, End, ghosts

\* What is cut off by the end of a connection counts as failed.
LEMMA CloseKeepsTools ==
  ASSUME TypeOK, ToolsInv, NEW c \in Ops, Close(c)
  PROVE ToolsInv'
<1> DEFINE asking == client[c].refreshing \in {"first", "retry"}
           cut == {o \in Ops : op[o].client = c /\ op[o].pc \in {"fetching", "resources"}}
<1>1. \A p \in Ops : client[p] \in Client /\ op[p] \in Op
  BY DEF TypeOK
<1>2. /\ client' = [client EXCEPT ![c].status = "DISCONNECTED", ![c].live = FALSE,
           ![c].refreshing = IF asking THEN "idle" ELSE client[c].refreshing,
           ![c].again = ~asking /\ client[c].again]
      /\ op' = [o \in Ops |->
           [op[o] EXCEPT !.closing = op[o].closing \ {c},
                         !.pc = IF o \in cut THEN "chained" ELSE op[o].pc]]
      /\ failed' = (failed \/ cut # {} \/ asking)
      /\ tools' = tools /\ version' = version /\ robbed' = robbed
  BY DEF Close
<1>3. \A p \in Ops \ {c} : client'[p] = client[p]
  BY <1>2 DEF TypeOK
<1>4. client'[c].status = "DISCONNECTED" /\ (client'[c].again => client'[c].refreshing # "idle")
  <2> HIDE DEF asking
  <2>1. CASE asking
    BY <1>1, <1>2, <2>1 DEF TypeOK, Client
  <2>2. CASE ~asking
    BY <1>1, <1>2, <2>2 DEF TypeOK, Client, ToolsInv
  <2> QED BY <2>1, <2>2
<1>5. ~failed' => ~failed /\ OthersKept
  <2> SUFFICES ASSUME ~failed', NEW p \in Ops, AskedFor(p) PROVE AskedFor(p)'
    BY <1>2 DEF OthersKept
  <2> HIDE DEF asking
  <2>1. cut = {}
    BY <1>2
  <2> PICK o \in Ops : /\ op[o].client = p
                       /\ \/ op[o].pc = "fetching"
                          \/ op[o].pc = "resources" /\ op[o].fetched = version
    BY DEF AskedFor
  <2>2. op'[o] = [op[o] EXCEPT !.closing = op[o].closing \ {c}, !.pc = op[o].pc]
    <3> HIDE DEF cut
    <3> QED BY <1>2, <2>1
  <2>3. /\ op'[o].client = op[o].client /\ op'[o].pc = op[o].pc
        /\ op'[o].fetched = op[o].fetched
    BY <1>1, <2>2 DEF Op
  <2> QED BY <1>2, <2>3 DEF AskedFor
<1> HIDE DEF asking, cut
<1>6. \A p \in Ops : client'[p].status = "CONNECTED" => p # c /\ client'[p] = client[p]
  BY <1>3, <1>4
<1>7. \A p \in Ops : /\ client'[p].status = "CONNECTED" => client'[p].live
                     /\ client'[p].again => client'[p].refreshing # "idle"
  BY <1>3, <1>4, <1>6 DEF ToolsInv
<1>8. ASSUME ~failed', NEW p \in Ops \ robbed', client'[p].status = "CONNECTED"
      PROVE version' \in tools' \/ Asks(p)' \/ AskedFor(p)'
  <2>1. client'[p] = client[p] /\ p \in Ops \ robbed /\ ~failed
    BY <1>2, <1>5, <1>6, <1>8
  <2>2. version \in tools \/ Asks(p) \/ AskedFor(p)
    BY <1>8, <2>1 DEF ToolsInv
  <2> QED BY <1>2, <1>5, <1>8, <2>1, <2>2 DEF Asks, OthersKept
<1> QED BY <1>7, <1>8 DEF ToolsInv

LEMMA RefreshesKeepTools ==
  ASSUME TypeOK, ToolsInv, NEW c \in Ops, ToolsAnswer(c) \/ RefreshToolsEnds(c) \/ OnError(c)
  PROVE ToolsInv'
<1>0. /\ OthersKept /\ version' = version
      /\ \A p \in Ops : client[p] \in Client
  BY SameAsked DEF ToolsAnswer, RefreshToolsEnds, OnError, TypeOK
<1>1. CASE /\ client' = [client EXCEPT ![c].refreshing = "retry"]
           /\ client[c].refreshing = "first"
           /\ UNCHANGED <<tools, robbed, failed>>
  <2>1. /\ client'[c].refreshing = "retry" /\ client'[c].status = client[c].status
        /\ client'[c].live = client[c].live /\ client'[c].again = client[c].again
    BY <1>0, <1>1 DEF TypeOK, Client
  <2>2. \A p \in Ops \ {c} : client'[p] = client[p]
    BY <1>1 DEF TypeOK
  <2> QED BY <1>0, <1>1, <2>1, <2>2 DEF ToolsInv, Asks, OthersKept
<1>2. CASE client' = [client EXCEPT ![c].refreshing = "context"] /\ tools' = {version}
  <2>1. \A p \in Ops : /\ client'[p].status = "CONNECTED" => client'[p].live
                       /\ client'[p].again => client'[p].refreshing # "idle"
    BY <1>0, <1>2 DEF TypeOK, Client, ToolsInv
  <2> QED BY <1>0, <1>2, <2>1 DEF ToolsInv
<1>3. CASE client' = [client EXCEPT ![c].refreshing = "idle", ![c].again = FALSE] /\ failed'
  <2>1. \A p \in Ops : /\ client'[p].status = "CONNECTED" => client'[p].live
                       /\ client'[p].again => client'[p].refreshing # "idle"
    BY <1>0, <1>3 DEF TypeOK, Client, ToolsInv
  <2> QED BY <1>3, <2>1 DEF ToolsInv
<1>4. CASE RefreshToolsEnds(c)
  <2>1. \A p \in Ops \ {c} : client'[p] = client[p]
    BY <1>4 DEF RefreshToolsEnds, TypeOK
  <2>2. /\ client'[c].status = client[c].status /\ client'[c].live = client[c].live
        /\ ~client'[c].again
        /\ client[c].refreshing = "context"
        /\ client'[c].status = "CONNECTED" /\ client[c].again => client'[c].refreshing = "first"
    BY <1>0, <1>4 DEF RefreshToolsEnds, Round, TypeOK, Client
  <2>3. UNCHANGED <<tools, robbed, failed>>
    BY <1>4 DEF RefreshToolsEnds, ghosts
  <2> QED BY <1>0, <2>1, <2>2, <2>3 DEF ToolsInv, Asks, OthersKept
<1>5. CASE OnError(c)
  <2>1. UNCHANGED <<tools, robbed, failed>>
    BY <1>5 DEF OnError, ghosts
  <2>2. \A p \in Ops : /\ client'[p].live = client[p].live
                       /\ client'[p].again = client[p].again
                       /\ client'[p].refreshing = client[p].refreshing
                       /\ client'[p].status = "CONNECTED" => client[p].status = "CONNECTED"
    BY <1>0, <1>5 DEF OnError, TypeOK, Client
  <2> QED BY <1>0, <2>1, <2>2, StatusesKeepTools
<1> QED BY <1>1, <1>2, <1>3, <1>4, <1>5 DEF ToolsAnswer

\* A notice has every connected client ask, now or when its refresh is over.
LEMMA NoticeKeepsTools ==
  ASSUME TypeOK, ToolsInv, ServerNotifies
  PROVE ToolsInv'
<1>1. ASSUME NEW c \in Ops
      PROVE /\ client'[c].status = "CONNECTED" => client'[c].live /\ Asks(c)'
            /\ client'[c].again => client'[c].refreshing # "idle"
  <2>0. client[c] \in Client /\ client'[c] = IF client[c].live THEN Noticed(c) ELSE client[c]
    BY DEF ServerNotifies, TypeOK
  <2>1. /\ client[c].status = "CONNECTED" => client[c].live
        /\ client[c].again => client[c].refreshing # "idle"
    BY DEF ToolsInv
  <2>2. CASE ~client[c].live
    BY <2>0, <2>1, <2>2
  <2>3. CASE client[c].live /\ client[c].refreshing = "idle"
    <3>1. client'[c] = [client[c] EXCEPT !.refreshing = Round(c), !.again = FALSE]
      BY <2>0, <2>3 DEF Noticed
    <3> QED BY <2>0, <2>3, <3>1 DEF Round, Client, Asks
  <2>4. CASE client[c].live /\ client[c].refreshing # "idle"
    <3>1. client'[c] = [client[c] EXCEPT !.again = TRUE]
      BY <2>0, <2>4 DEF Noticed
    <3> QED BY <2>0, <2>4, <3>1 DEF Client, Asks
  <2> QED BY <2>2, <2>3, <2>4
<1> QED BY <1>1 DEF ToolsInv

LEMMA SharedKeepsTools ==
  ASSUME TypeOK, ToolsInv, Settle \/ Refreshed \/ Coalesced
  PROVE ToolsInv'
<1>1. UNCHANGED <<op, client, tools, robbed, failed, version>>
  BY DEF Settle, Refreshed, Coalesced, ghosts
<1> QED BY <1>1, SameAsked, OthersKeepTools

\* As long as the current tools of a connected client's server are not
\* registered somebody asks for them, unless a question has failed or another
\* client has taken them along: ToolsInv is an invariant.
THEOREM ToolsInvHolds == Spec => [](TypeOK /\ ToolsInv)
<1>1. Init => TypeOK /\ ToolsInv
  BY InitTyped DEF Init, ToolsInv
<1>2. TypeOK /\ ToolsInv /\ [Next]_vars => (TypeOK /\ ToolsInv)'
  <2>1. CASE TypeOK /\ ToolsInv /\ Next
    BY <2>1, NextTyped, StepCases, BeginKeepsTools, ClosedKeepsTools, QuestionKeepsTools,
       DiscoveryKeepsTools, EndKeepsTools, CloseKeepsTools, RefreshesKeepTools,
       NoticeKeepsTools, SharedKeepsTools
       DEF Operation, OfClient
  <2>2. CASE TypeOK /\ ToolsInv /\ UNCHANGED vars
    BY <2>2, NextTyped DEF vars, ghosts, ToolsInv, Asks, AskedFor
  <2> QED BY <2>1, <2>2
<1> QED BY <1>1, <1>2, PTL DEF Spec

\* When nothing is under way and nothing has failed, the registry has the
\* current tools of every connected client that was not robbed of them: a
\* list_changed notice is not lost, whatever it comes in the middle of.
THEOREM ToolsStayCurrent == Spec => []CurrentTools
<1>1. TypeOK /\ ToolsInv => CurrentTools
  BY DEF ToolsInv, CurrentTools, Quiet, Asks, AskedFor
<1> QED BY <1>1, ToolsInvHolds, PTL
=============================================================================
