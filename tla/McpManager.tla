----------------------------- MODULE McpManager -----------------------------
(***************************************************************************)
(* The clients of one MCP server (packages/core/src/tools/                 *)
(* mcp-client-manager.ts and mcp-client.ts) from connection to close, the  *)
(* tools they register, and the context the chat is given.                 *)
(*                                                                         *)
(* Every operation of the manager is a coroutine of its own: the start of  *)
(* the configured servers and of an extension run at the same time when    *)
(* the program starts, nobody awaits them, and the user's commands come    *)
(* whenever they like.  A segment from one await to the next is one step.  *)
(* The server's tool list has versions, which stand for tools of different *)
(* names.                                                                  *)
(***************************************************************************)
EXTENDS Naturals

CONSTANTS
  Ops,          \* operations of the manager; a client is named for the one that makes it
  None,         \* no client
  Kinds,        \* the operations tried: a subset of AllKinds
  LastVersion,  \* bound: how often the server changes its tools
  Breaks        \* may the connection report an error

AllKinds == {"configured", "extension", "stop_extension",
             "restart", "restart_server", "stop"}

ASSUME McpAssumption ==
  /\ Kinds \subseteq AllKinds /\ None \notin Ops
  /\ LastVersion \in Nat /\ Breaks \in BOOLEAN

VARIABLES
  op,        \* the operations: see Op
  client,    \* the clients: see Client
  clients,   \* the manager's map; a configuration is the sources merged in it
  config,    \* allServerConfigs: the sources merged for the server
  loaded,    \* is the extension loaded
  tools,     \* the registry: the versions whose tools it has
  context,   \* the versions whose tools the chat declares to the model
  refresher, \* scheduleMcpContextRefresh: idle, in a refresh, or coalescing
  pending,   \* pendingMcpContextRefresh
  chain,     \* discoveryPromise: the discoveries it stands for
  discovery, \* discoveryState
  version,   \* the server's tool list
  \* History variables.
  failed,    \* has a connection or a question failed
  robbed     \* whose tools another's disconnect has taken along, and not asked since

manager == <<clients, config, loaded>>
refresh == <<context, refresher, pending>>
disc    == <<chain, discovery>>
ghosts  == <<failed, robbed>>
vars == <<op, client, manager, tools, refresh, disc, version, ghosts>>

Versions == 0..LastVersion
Keys == SUBSET {"user", "ext"}

\* pc: closing -> reload -> asking -> connecting -> fetching -> resources ->
\* chained -> refresh -> ended, with shortcuts.  The key is that of the merged
\* configuration; before that, the configuration a restart of one server found.
Op == [kind: AllKinds, key: Keys, existing: Ops \cup {None},
       client: Ops \cup {None}, closing: SUBSET Ops, wait: SUBSET Ops,
       fetched: Versions,
       pc: {"new", "closing", "reload", "asking", "closing_disabled",
            "connecting", "fetching", "resources", "chained", "refresh", "ended"}]

\* An operation that has not begun; one that is past its discovery has
\* forgotten what the discovery was about.
Fresh == [kind |-> "configured", key |-> {}, existing |-> None, client |-> None,
          closing |-> {}, wait |-> {}, fetched |-> 0, pc |-> "new"]

Client == [status: {"DISCONNECTED", "CONNECTING", "CONNECTED", "DISCONNECTING"},
           live: BOOLEAN, registered: BOOLEAN, again: BOOLEAN,
           refreshing: {"idle", "first", "retry", "context"}]

TypeOK ==
  /\ op \in [Ops -> Op]
  /\ client \in [Ops -> Client]
  /\ clients \in [Keys -> Ops \cup {None}]
  /\ config \in Keys /\ loaded \in BOOLEAN
  /\ tools \subseteq Versions
  /\ context \subseteq Versions
  /\ refresher \in {"idle", "refreshing", "coalescing"} /\ pending \in BOOLEAN
  /\ chain \subseteq Ops
  /\ discovery \in {"NOT_STARTED", "IN_PROGRESS", "COMPLETED"}
  /\ version \in Versions /\ failed \in BOOLEAN /\ robbed \subseteq Ops

\* Without servers in the settings discovery is complete as soon as it starts.
Init ==
  /\ op = [o \in Ops |-> Fresh]
  /\ client = [o \in Ops |-> [status |-> "DISCONNECTED", live |-> FALSE,
                 registered |-> FALSE, again |-> FALSE, refreshing |-> "idle"]]
  /\ clients = [k \in Keys |-> None]
  /\ config = {} /\ loaded = FALSE
  /\ tools = {}
  /\ context = {}
  /\ refresher = "idle" /\ pending = FALSE
  /\ chain = {} /\ discovery \in {"NOT_STARTED", "COMPLETED"}
  /\ version = 0 /\ failed = FALSE /\ robbed = {}

(***************************************************************************)
(* What the operations are made of.                                        *)
(***************************************************************************)
InDiscovery(o) == op[o].pc \in {"connecting", "fetching", "resources"}

\* The clients of set C that disconnect() does something to.
Connected(C) == {c \in C : client[c].status = "CONNECTED"}

\* disconnect() of the clients in C, up to the await of close().
Disconnected(C) ==
  [c \in Ops |-> IF c \in Connected(C) THEN [client[c] EXCEPT !.status = "DISCONNECTING"]
                 ELSE client[c]]

\* A client takes the server's tools out of the registries it knows, its own
\* or not: the clients that stay connected are robbed of theirs.
RemoveTools(C) ==
  IF \E c \in Connected(C) : client[c].registered
  THEN /\ tools' = {}
       /\ robbed' = robbed \cup (Connected(Ops) \ C)
  ELSE UNCHANGED <<tools, robbed>>

ScheduleRefresh ==
  /\ refresher' = IF refresher = "idle" THEN "refreshing" ELSE refresher
  /\ pending' = (refresher # "idle")

InMap == {clients[k] : k \in Keys} \ {None}

(***************************************************************************)
(* maybeDiscoverMcpServer, which runs in the same segment as its caller.   *)
(* The configuration is merged; a client of this server under another key  *)
(* is disconnected first.  With several of them any may be the one found.  *)
(***************************************************************************)
Discover(o, kind, source) ==
  LET key == config \cup source
      stale == {k \in Keys \ {key} : clients[k] # None}
  IN
  /\ config' = key
  /\ \/ \E k \in stale :
          /\ op' = [op EXCEPT ![o].kind = kind, ![o].pc = "reload", ![o].key = key,
                              ![o].closing = Connected({clients[k]})]
          /\ clients' = [clients EXCEPT ![k] = None]
          /\ client' = Disconnected({clients[k]})
          /\ RemoveTools({clients[k]})
     \/ /\ stale = {} \/ clients[key] # None
        /\ op' = [op EXCEPT ![o].kind = kind, ![o].pc = "asking", ![o].key = key,
                            ![o].existing = clients[key]]
        /\ UNCHANGED <<clients, client, tools, robbed>>

(***************************************************************************)
(* An operation begins.                                                    *)
(***************************************************************************)
Closing(o, kind, C) ==
  op' = [op EXCEPT ![o].kind = kind, ![o].pc = "closing", ![o].key = config,
                   ![o].closing = Connected(C)]

\* This comes first; whatever else is tried, it has begun.
StartConfigured(o) ==
  /\ op[o].pc = "new" /\ discovery = "NOT_STARTED"
  /\ discovery' = "IN_PROGRESS"
  /\ Discover(o, "configured", {"user"})
  /\ UNCHANGED <<loaded, refresh, chain, version, failed>>

Started(o, kind) == op[o].pc = "new" /\ discovery # "NOT_STARTED" /\ kind \in Kinds

\* The loader starts an extension when the program starts, which nobody waits
\* for, or when it is enabled or installed.
StartExtension(o) ==
  /\ Started(o, "extension") /\ ~loaded
  /\ loaded' = TRUE
  /\ Discover(o, "extension", {"ext"})
  /\ UNCHANGED <<refresh, disc, version, failed>>

StopExtension(o) ==
  LET C == {clients[config]} \ {None} IN
  /\ Started(o, "stop_extension") /\ loaded
  /\ loaded' = FALSE
  /\ IF "ext" \in config
     THEN /\ config' = {}
          /\ clients' = [clients EXCEPT ![config] = None]
          /\ client' = Disconnected(C) /\ RemoveTools(C)
          /\ Closing(o, "stop_extension", C)
     ELSE /\ Closing(o, "stop_extension", {})
          /\ UNCHANGED <<config, clients, client, tools, robbed>>
  /\ UNCHANGED <<refresh, disc, version, failed>>

\* /mcp reload, which /mcp enable and disable do at their end.
Restart(o) ==
  /\ Started(o, "restart")
  /\ clients' = [k \in Keys |-> None]
  /\ client' = Disconnected(InMap) /\ RemoveTools(InMap)
  /\ Closing(o, "restart", InMap)
  /\ UNCHANGED <<config, loaded, refresh, disc, version, failed>>

\* /mcp auth restarts one server; the key is that of its configuration.
RestartServer(o) ==
  LET C == {clients[config]} \ {None} IN
  /\ Started(o, "restart_server") /\ config # {}
  /\ clients' = [clients EXCEPT ![config] = None]
  /\ client' = Disconnected(C) /\ RemoveTools(C)
  /\ Closing(o, "restart_server", C)
  /\ UNCHANGED <<config, loaded, refresh, disc, version, failed>>

\* The program exits.
Stop(o) ==
  /\ Started(o, "stop")
  /\ client' = Disconnected(InMap) /\ RemoveTools(InMap)
  /\ Closing(o, "stop", InMap)
  /\ UNCHANGED <<manager, refresh, disc, version, failed>>

Begin(o) ==
  \/ StartConfigured(o) \/ StartExtension(o) \/ StopExtension(o)
  \/ Restart(o) \/ RestartServer(o) \/ Stop(o)

(***************************************************************************)
(* close() has ended.  What was asked over that connection is rejected.    *)
(***************************************************************************)
Close(c) ==
  LET cut == {o \in Ops : op[o].client = c /\ op[o].pc \in {"fetching", "resources"}}
      asking == client[c].refreshing \in {"first", "retry"}
  IN
  /\ client[c].status = "DISCONNECTING"
  /\ client' = [client EXCEPT ![c].status = "DISCONNECTED", ![c].live = FALSE,
       ![c].refreshing = IF asking THEN "idle" ELSE client[c].refreshing,
       ![c].again = ~asking /\ client[c].again]
  /\ op' = [o \in Ops |->
       [op[o] EXCEPT !.closing = op[o].closing \ {c},
                     !.pc = IF o \in cut THEN "chained" ELSE op[o].pc]]
  /\ failed' = (failed \/ cut # {} \/ asking)
  /\ UNCHANGED <<manager, tools, refresh, disc, version, robbed>>

\* The operation's disconnects have ended.  restart() reads the configuration
\* now; restartServer() has what it found at its start, which is merged again.
Closed(o) ==
  /\ op[o].pc = "closing" /\ op[o].closing = {}
  /\ \/ /\ op[o].kind = "stop"
        /\ clients' = [k \in Keys |-> None]
        /\ op' = [op EXCEPT ![o].pc = "ended", ![o].key = {}]
        /\ UNCHANGED <<client, config, tools, robbed, refresher, pending>>
     \/ /\ op[o].kind = "stop_extension" \/ (op[o].kind = "restart" /\ config = {})
        /\ op' = [op EXCEPT ![o].pc = "refresh", ![o].key = {}]
        /\ ScheduleRefresh
        /\ UNCHANGED <<client, clients, config, tools, robbed>>
     \/ /\ op[o].kind = "restart" /\ config # {}
        /\ Discover(o, "restart", config)
        /\ UNCHANGED <<refresher, pending>>
     \/ /\ op[o].kind = "restart_server"
        /\ Discover(o, "restart_server", op[o].key)
        /\ UNCHANGED <<refresher, pending>>
  /\ UNCHANGED <<loaded, context, disc, version, failed>>

Reloaded(o) ==
  /\ op[o].pc = "reload" /\ op[o].closing = {}
  /\ op' = [op EXCEPT ![o].pc = "asking", ![o].existing = clients[op[o].key]]
  /\ UNCHANGED <<client, manager, tools, refresh, disc, version, ghosts>>

\* isDisabledByUser answers yes: the file is read at every question, and the
\* user enables and disables servers at any time, in this program or another.
Disabled(o) ==
  LET C == {clients[op[o].key]} \ {None} IN
  /\ op[o].pc = "asking"
  /\ IF op[o].existing # None /\ C # {}
     THEN /\ op' = [op EXCEPT ![o].pc = "closing_disabled", ![o].closing = Connected(C)]
          /\ clients' = [clients EXCEPT ![op[o].key] = None]
          /\ client' = Disconnected(C) /\ RemoveTools(C)
     ELSE /\ op' = [op EXCEPT ![o].pc = "chained"]
          /\ UNCHANGED <<clients, client, tools, robbed>>
  /\ UNCHANGED <<config, loaded, refresh, disc, version, failed>>

DisabledClosed(o) ==
  /\ op[o].pc = "closing_disabled" /\ op[o].closing = {}
  /\ op' = [op EXCEPT ![o].pc = "chained"]
  /\ ScheduleRefresh
  /\ UNCHANGED <<client, manager, tools, context, disc, version, ghosts>>

\* It answers no, and the extension is not active: nothing is done.  One that
\* is uninstalled stays active.
Inactive(o) ==
  /\ op[o].pc = "asking" /\ "ext" \in op[o].key /\ ~loaded
  /\ op' = [op EXCEPT ![o].pc = "chained"]
  /\ UNCHANGED <<client, manager, tools, refresh, disc, version, ghosts>>

\* It answers no: the client found before the question, or a new one, is
\* connected if need be.  discoverInto and connect throw in the other states.
Enabled(o) ==
  LET c == IF op[o].existing = None THEN o ELSE op[o].existing
      status == client[c].status
  IN
  /\ op[o].pc = "asking"
  /\ clients' = IF c = o THEN [clients EXCEPT ![op[o].key] = o] ELSE clients
  /\ client' = [client EXCEPT
       ![c].status = IF status = "DISCONNECTED" THEN "CONNECTING" ELSE status,
       ![c].registered = (status = "CONNECTED") \/ client[c].registered]
  /\ op' = [op EXCEPT ![o].client = c, ![o].wait = chain,
       ![o].pc = CASE status = "DISCONNECTED" -> "connecting"
                   [] status = "CONNECTED"    -> "fetching"
                   [] OTHER                   -> "chained"]
  /\ chain' = chain \cup {o}
  /\ discovery' = IF chain = {} THEN "IN_PROGRESS" ELSE discovery
  /\ UNCHANGED <<config, loaded, tools, refresh, version, ghosts>>

Connects(o) ==
  LET c == op[o].client IN
  /\ op[o].pc = "connecting"
  /\ \/ /\ client' = [client EXCEPT ![c].status = "CONNECTED", ![c].live = TRUE,
                                    ![c].registered = TRUE]
        /\ op' = [op EXCEPT ![o].pc = "fetching"]
        /\ robbed' = robbed \ {c} /\ UNCHANGED failed
     \/ /\ client' = [client EXCEPT ![c].status = "DISCONNECTED"]
        /\ op' = [op EXCEPT ![o].pc = "chained"]
        /\ failed' = TRUE /\ UNCHANGED robbed
  /\ UNCHANGED <<manager, tools, refresh, disc, version>>

Fetches(o) ==
  LET c == op[o].client IN
  /\ op[o].pc = "fetching"
  /\ \/ /\ client[c].status = "CONNECTED"
        /\ op' = [op EXCEPT ![o].pc = "resources", ![o].fetched = version]
        /\ UNCHANGED failed
     \/ /\ op' = [op EXCEPT ![o].pc = "chained"]
        /\ failed' = TRUE
  /\ UNCHANGED <<client, manager, tools, refresh, disc, version, robbed>>

\* The last answer; the tools are registered without another look at the
\* client's status.
Registers(o) ==
  /\ op[o].pc = "resources"
  /\ op' = [op EXCEPT ![o].pc = "chained"]
  /\ \/ /\ tools' = tools \cup {op[o].fetched}
        /\ robbed' = IF op[o].fetched = version THEN {} ELSE robbed
        /\ UNCHANGED failed
     \/ UNCHANGED <<tools, robbed>> /\ failed' = TRUE
  /\ UNCHANGED <<client, manager, refresh, disc, version>>

\* All that discoveryPromise stands for is over.
Settle ==
  /\ chain # {}
  /\ \A o \in chain : ~InDiscovery(o)
  /\ chain' = {} /\ discovery' = "COMPLETED"
  /\ UNCHANGED <<op, client, manager, tools, refresh, version, ghosts>>

(***************************************************************************)
(* The operation goes on: it has the context refreshed, and ends.          *)
(***************************************************************************)
\* Mutant: only a discovery marks discovery as complete.
CompletedByDiscovery(o) == discovery

CompletedWhenSkipped(o) ==
  IF op[o].kind = "configured" /\ discovery = "IN_PROGRESS" /\ chain = {}
  THEN "COMPLETED" ELSE discovery

Continue(o) ==
  /\ op[o].pc = "chained"
  /\ \A p \in op[o].wait : ~InDiscovery(p)
  /\ op' = [op EXCEPT ![o] = [Fresh EXCEPT !.kind = op[o].kind, !.pc = "refresh"]]
  /\ discovery' = CompletedWhenSkipped(o)
  /\ ScheduleRefresh
  /\ UNCHANGED <<client, manager, tools, context, chain, version, ghosts>>

End(o) ==
  /\ op[o].pc = "refresh" /\ refresher = "idle"
  /\ op' = [op EXCEPT ![o].pc = "ended"]
  /\ UNCHANGED <<client, manager, tools, refresh, disc, version, ghosts>>

\* refreshMcpContext ends, and the chat has the registry's tools.
Refreshed ==
  /\ refresher = "refreshing"
  /\ context' = tools
  /\ refresher' = IF pending THEN "coalescing" ELSE "idle"
  /\ UNCHANGED <<op, client, manager, tools, pending, disc, version, ghosts>>

\* Mutant: the loop waits and is done.
CoalescedEnds ==
  /\ refresher = "coalescing"
  /\ refresher' = "idle" /\ pending' = FALSE
  /\ UNCHANGED <<op, client, manager, tools, context, disc, version, ghosts>>

Coalesced ==
  /\ refresher = "coalescing"
  /\ refresher' = "refreshing" /\ pending' = FALSE
  /\ UNCHANGED <<op, client, manager, tools, context, disc, version, ghosts>>

(***************************************************************************)
(* The server changes its tools; the client looks at them again.           *)
(***************************************************************************)
\* Mutant: the loop keeps the status it stopped for.
RoundOrStatus(c) ==
  IF client[c].status = "CONNECTED" THEN "first" ELSE client[c].status

\* The next round of the loop: nothing is asked when not connected.
Round(c) == IF client[c].status = "CONNECTED" THEN "first" ELSE "idle"

\* Mutant: a notice that comes during a refresh is taken as answered by it.
NoticeDropped(c) ==
  IF client[c].refreshing = "idle"
  THEN [client[c] EXCEPT !.refreshing = Round(c), !.again = FALSE]
  ELSE client[c]

\* refreshTools starts, or its loop will go round again.
Noticed(c) ==
  IF client[c].refreshing = "idle"
  THEN [client[c] EXCEPT !.refreshing = Round(c), !.again = FALSE]
  ELSE [client[c] EXCEPT !.again = TRUE]

\* "Some servers notify before they're fully ready", or twice.
ServerNotifies ==
  /\ version' \in {version, version + 1} \cap Versions
  /\ client' = [c \in Ops |-> IF client[c].live THEN Noticed(c) ELSE client[c]]
  /\ robbed' = {}
  /\ UNCHANGED <<op, manager, tools, refresh, disc, failed>>

\* An answer to the first question that changes nothing is asked for again.
\* A notice noted before a question fails is forgotten when the next comes.
ToolsAnswer(c) ==
  LET unchanged == tools = {version} IN
  /\ client[c].refreshing \in {"first", "retry"}
  /\ \/ /\ client[c].refreshing = "first" /\ unchanged /\ ~client[c].again
        /\ client' = [client EXCEPT ![c].refreshing = "retry"]
        /\ UNCHANGED <<tools, robbed, refresher, pending, failed>>
     \/ /\ client[c].refreshing = "retry" \/ ~unchanged \/ client[c].again
        /\ client' = [client EXCEPT ![c].refreshing = "context"]
        /\ tools' = {version} /\ robbed' = {}
        /\ ScheduleRefresh /\ UNCHANGED failed
     \/ /\ client' = [client EXCEPT ![c].refreshing = "idle", ![c].again = FALSE]
        /\ failed' = TRUE
        /\ UNCHANGED <<tools, robbed, refresher, pending>>
  /\ UNCHANGED <<op, manager, context, disc, version>>

RefreshToolsEnds(c) ==
  /\ client[c].refreshing = "context" /\ refresher = "idle"
  /\ client' = [client EXCEPT
       ![c].refreshing = IF client[c].again THEN Round(c) ELSE "idle",
       ![c].again = FALSE]
  /\ UNCHANGED <<op, manager, tools, refresh, disc, version, ghosts>>

\* The connection reports an error: the status changes, and nothing else.
OnError(c) ==
  /\ Breaks /\ client[c].status = "CONNECTED"
  /\ client' = [client EXCEPT ![c].status = "DISCONNECTED"]
  /\ UNCHANGED <<op, manager, tools, refresh, disc, version, ghosts>>

Next ==
  \/ \E o \in Ops :
       \/ Begin(o) \/ Closed(o) \/ Reloaded(o)
       \/ Disabled(o) \/ DisabledClosed(o) \/ Inactive(o) \/ Enabled(o)
       \/ Connects(o) \/ Fetches(o) \/ Registers(o) \/ Continue(o) \/ End(o)
       \/ Close(o) \/ ToolsAnswer(o) \/ RefreshToolsEnds(o) \/ OnError(o)
  \/ Settle \/ Refreshed \/ Coalesced \/ ServerNotifies

Spec == Init /\ [][Next]_vars

Quiet ==
  /\ \A o \in Ops : op[o].pc \in {"new", "ended"} /\ client[o].refreshing = "idle"
  /\ refresher = "idle"

(***************************************************************************)
(* When nothing is under way the model is told of the tools there are,     *)
(* whatever the order in which operations, notices and refreshes that were *)
(* coalesced have come.  Only the program's exit leaves it as it is.       *)
(***************************************************************************)
ContextFresh ==
  Quiet /\ (\A o \in Ops : op[o].kind # "stop")
    => context = tools

(***************************************************************************)
(* A list_changed notice is honoured: when nothing is under way and no     *)
(* question has failed, the current tools of a connected client's server   *)
(* are in the registry.  But for a client whose tools another client of    *)
(* the server has taken along as it was disconnected, which lasts until    *)
(* the server is asked again: discoveries that overlap leave two clients.  *)
(***************************************************************************)
CurrentTools ==
  Quiet /\ ~failed =>
    \A c \in Ops \ robbed : client[c].status = "CONNECTED" => version \in tools

(***************************************************************************)
(* Discovery that has begun does not stay in progress when nothing is left *)
(* that would complete it, also when every server was skipped: "mark       *)
(* discovery complete or the UI will wait forever".                        *)
(***************************************************************************)
DiscoveryCompletes ==
  Quiet /\ chain = {} => discovery # "IN_PROGRESS"

(***************************************************************************)
(* What makes them hold: as long as the model has not been told of the     *)
(* tools a refresh runs, or an operation is under way that will ask for    *)
(* one; as long as the current tools are not registered somebody asks for  *)
(* them; and discovery in progress has a promise or the start of the       *)
(* configured servers to complete it.                                      *)
(***************************************************************************)
UnderWay(o) == op[o].pc \notin {"new", "refresh", "ended"}

ContextInv ==
  /\ \A o \in Ops : op[o].kind = "stop" => op[o].pc # "new"
  /\ \/ context = tools
     \/ refresher # "idle"
     \/ \E o \in Ops : UnderWay(o) \/ op[o].kind = "stop"

\* A client asks for the tools, or a discovery does that will register the
\* current ones.
Asks(c) == client[c].refreshing \in {"first", "retry"} \/ client[c].again
AskedFor(c) ==
  \E o \in Ops :
    /\ op[o].client = c
    /\ op[o].pc = "fetching" \/ (op[o].pc = "resources" /\ op[o].fetched = version)

ToolsInv ==
  /\ \A c \in Ops :
       /\ client[c].status = "CONNECTED" => client[c].live
       /\ client[c].again => client[c].refreshing # "idle"
  /\ ~failed =>
       \A c \in Ops \ robbed :
         client[c].status = "CONNECTED" => version \in tools \/ Asks(c) \/ AskedFor(c)

DiscoveryInv ==
  /\ \A o \in Ops : op[o].kind = "configured" => op[o].pc # "closing"
  /\ discovery = "IN_PROGRESS" =>
       \/ chain # {}
       \/ \E o \in Ops : op[o].kind = "configured" /\ UnderWay(o)
=============================================================================
