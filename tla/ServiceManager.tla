--------------------------- MODULE ServiceManager ---------------------------
(***************************************************************************)
(* HyperLiquidServiceManager (mev-hyperliquid/src/service_manager.rs)      *)
(* composed with the WebSocket service it owns: start() spawns the         *)
(* connection loop of module WsService and the RPC polling loop, stop()    *)
(* sets the manager's own shutdown flag and joins both tasks.              *)
(*                                                                         *)
(* The tasks of one start() share an element of Services as their name.    *)
(* The owner, who calls start() and stop() one after the other, may also   *)
(* take the WebSocket service from ws_service() and shut it down.  A poll  *)
(* of the RPC service always ends (module RpcService); its outcome does    *)
(* not matter to the loop.                                                 *)
(***************************************************************************)
EXTENDS Naturals, FiniteSets

CONSTANTS
  Services, Wanted, MAXFAILURES, MINBACKOFF, MAXBACKOFF, DEGRADED, RETRIES,
  WIDTH,            \* of WsService
  None,             \* no task handle
  OwnerStopsFeed    \* the owner also calls ws_service().shutdown()

ASSUME ManagerConstants ==
  /\ None \notin Services
  /\ OwnerStopsFeed \in BOOLEAN

VARIABLES
  stopFlag,   \* HyperLiquidServiceManager::shutdown
  wsTask,     \* ws_task
  rpcTask,    \* rpc_task
  owner,      \* "free", or where the owner's call of stop() is
  joining,    \* the task that stop() is waiting for
  rpc,        \* where each RPC polling loop is
  asked       \* history: tasks alive when stop() was called

VARIABLES
  shutdown, failures, degraded, gauge, attempts, confirmed, due, pc, todo,
  backoff, link, requested, replies, streaming, reachable, busy, streak

Ws == INSTANCE WsService

ws == <<shutdown, failures, degraded, gauge, attempts, confirmed, due, pc,
        todo, backoff, link, requested, replies, streaming, reachable, busy,
        streak>>
manager == <<stopFlag, wsTask, rpcTask, owner, joining, asked>>
vars == <<manager, rpc, ws>>

Init ==
  /\ stopFlag = FALSE
  /\ wsTask = None /\ rpcTask = None
  /\ owner = "free" /\ joining = None
  /\ rpc = [s \in Services |-> "off"]
  /\ asked = {}
  /\ Ws!Init

\* start() refuses to run while it holds a task handle.
Idle == wsTask = None /\ rpcTask = None

\* start(): the spawned tasks begin at once.
StartAll(s) ==
  /\ owner = "free" /\ Idle
  /\ rpc[s] = "off"
  /\ Ws!Start(s)
  /\ wsTask' = s /\ rpcTask' = s
  /\ rpc' = [rpc EXCEPT ![s] = "check"]
  /\ UNCHANGED <<stopFlag, owner, joining, asked>>

-----------------------------------------------------------------------------
(* run_rpc_polling.                                                        *)

\* Variant: the loop never looks at the flag.
DeafPollCheck(s) ==
  /\ rpc[s] = "check"
  /\ rpc' = [rpc EXCEPT ![s] = "poll"]
  /\ UNCHANGED <<manager, ws>>

PollCheck(s) ==
  /\ rpc[s] = "check"
  /\ rpc' = [rpc EXCEPT ![s] = IF stopFlag THEN "done" ELSE "poll"]
  /\ UNCHANGED <<manager, ws>>

\* The tick and the poll.
Poll(s) ==
  /\ rpc[s] = "poll"
  /\ rpc' = [rpc EXCEPT ![s] = "check"]
  /\ UNCHANGED <<manager, ws>>

-----------------------------------------------------------------------------
(* stop(): each handle is taken, then awaited.                             *)

Stop ==
  /\ owner = "free"
  /\ stopFlag' = TRUE
  /\ owner' = "rpc"
  /\ joining' = rpcTask
  /\ rpcTask' = None
  /\ asked' = {s \in Services : rpc[s] # "off"}
  /\ UNCHANGED <<wsTask, rpc, ws>>

JoinRpc ==
  /\ owner = "rpc"
  /\ joining # None => rpc[joining] = "done"
  /\ owner' = "ws"
  /\ joining' = wsTask
  /\ wsTask' = None
  /\ UNCHANGED <<stopFlag, rpcTask, asked, rpc, ws>>

\* Variant: the feed is not awaited.
HastyJoinWs ==
  /\ owner = "ws"
  /\ owner' = "free"
  /\ joining' = None
  /\ UNCHANGED <<stopFlag, wsTask, rpcTask, asked, rpc, ws>>

JoinWs ==
  /\ owner = "ws"
  /\ joining # None => pc[joining] = "stopped"
  /\ owner' = "free"
  /\ joining' = None
  /\ UNCHANGED <<stopFlag, wsTask, rpcTask, asked, rpc, ws>>

\* ws_service().shutdown() from a task of the owner.
StopFeed ==
  /\ OwnerStopsFeed
  /\ owner # "free"
  /\ Ws!Shutdown
  /\ UNCHANGED <<manager, rpc>>

Next ==
  \/ \E s \in Services :
       \/ StartAll(s) \/ PollCheck(s) \/ Poll(s)
       \/ (Ws!Proceed(s) \/ Ws!RetryTick(s) \/ Ws!HandleReply(s))
            /\ UNCHANGED <<manager, rpc>>
  \/ Stop \/ JoinRpc \/ JoinWs \/ StopFeed
  \/ Ws!Environment /\ UNCHANGED <<manager, rpc>>

Spec == Init /\ [][Next]_vars

\* The runtime runs every ready task; nothing obliges the owner to call.
Fairness ==
  /\ Ws!WsFairness
  /\ \A s \in Services : WF_vars(PollCheck(s)) /\ WF_vars(Poll(s))
  /\ WF_vars(JoinRpc) /\ WF_vars(JoinWs)
  /\ WF_vars(StopFeed)

FairSpec == Spec /\ Fairness

-----------------------------------------------------------------------------
(* Properties.                                                             *)

Alive(s) == rpc[s] \in {"check", "poll"} \/ pc[s] \notin {"off", "stopped"}

\* There are never two feeds or two polling loops at work, through any
\* sequence of start() and stop(): no market event is delivered twice.
OneAtATime == Cardinality({s \in Services : Alive(s)}) <= 1

\* Once stop() has returned, nothing of what was running is left.
StopLeavesNothing == owner = "free" => \A s \in asked : ~Alive(s)

\* stop() comes back: "waits for them to complete".
StopReturns == owner # "free" ~> owner = "free"

\* With the feed shut down too and a market that is quiet at last, stop()
\* comes back.
StopReturnsIfQuiet == <>[]~busy => StopReturns

\* Through any sequence of start() and stop() there is one service at most:
\* never two feeds or loops, and none once stop() has returned.
CleanRestarts ==
  /\ OneAtATime
  /\ StopLeavesNothing
=============================================================================
