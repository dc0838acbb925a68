---------------------------- MODULE DecisionPath ----------------------------
(***************************************************************************)
(* The decision path (mev-core/src/decision_path.rs) and its manager       *)
(* (decision_path_manager.rs): filter, simulation and bundle workers       *)
(* linked by bounded channels, and the manager's results processor at the  *)
(* end of the last one.                                                    *)
(*                                                                         *)
(* Every worker is a task of an async runtime with THREADS threads, and    *)
(* waits for its next item in recv_timeout of a crossbeam channel, which   *)
(* blocks the thread: a task that has a thread keeps it until it ends.     *)
(* Only the lock of the statistics may make a task give its thread back.   *)
(* The strategies of the engine never wait.                                *)
(*                                                                         *)
(* No channel is ever disconnected: the DecisionPath holds both ends.      *)
(* Latencies are left out.                                                 *)
(***************************************************************************)
EXTENDS Naturals, Sequences, FiniteSets, Functions

CONSTANTS
  Txs,                                   \* transactions, each offered once
  Callers,                               \* callers of process_transaction
  FilterWorkers, SimulationWorkers, BundleWorkers, Processors,
  filter_input, simulation_input, bundle_input, output,  \* channel sizes
  THREADS,                               \* threads of the runtime
  Sent,                                  \* a call yet to count what it sent
  None

Stages == FilterWorkers \cup SimulationWorkers \cup BundleWorkers
Tasks == Stages \cup Processors
Channels == {"filter", "simulation", "bundle", "output"}
Flags == {"path", "manager"}

ASSUME DecisionPathConstants ==
  /\ IsFiniteSet(Tasks) /\ IsFiniteSet(Callers)
  /\ FilterWorkers \cap SimulationWorkers = {}
  /\ (FilterWorkers \cup SimulationWorkers) \cap BundleWorkers = {}
  /\ Stages \cap Processors = {}
  /\ {filter_input, simulation_input, bundle_input, output} \subseteq Nat \ {0}
  /\ THREADS \in Nat \ {0}
  /\ None \notin Txs /\ Sent \notin Txs \cup {None}

\* bounded(config.channel_buffer_sizes...) in DecisionPath::new.
Size == [filter |-> filter_input, simulation |-> simulation_input,
         bundle |-> bundle_input, output |-> output]

\* The receiver and the sender that start() hands to each kind of worker.
Source(w) == CASE w \in FilterWorkers -> "filter"
               [] w \in SimulationWorkers -> "simulation"
               [] w \in BundleWorkers -> "bundle"
               [] OTHER -> "output"
Target(w) == CASE w \in FilterWorkers -> "simulation"
               [] w \in SimulationWorkers -> "bundle"
               [] OTHER -> "output"

\* The shutdown flag a task reads.
Flag(w) == IF w \in Processors THEN "manager" ELSE "path"

VARIABLES
  queue,                   \* the channels
  at,                      \* where each task is in its loop
  hand,                    \* the item a stage worker holds
  onThread,                \* tasks that have a thread
  shutdown,                \* flags that are set
  call,                    \* what each process_transaction has yet to send, or Sent
  mempool_rx_count, decision_tx_count, results_count,
  dropped,                 \* transactions_dropped, by the queue's label
  filtered_out,            \* items recorded as "filtered_out"
  transactions_processed,
  interesting,             \* transactions that fast_filter lets through
  offered,                 \* history: transactions that met the first queue
  delivered,               \* history: decisions taken by a processor
  unsent,                  \* history: decisions the output had no room for
  late                     \* history: items a task took after its flag was set

counters == <<mempool_rx_count, decision_tx_count, results_count, dropped,
              filtered_out, transactions_processed>>
history == <<interesting, offered, delivered, unsent, late>>
vars == <<queue, at, hand, onThread, shutdown, call, counters, history>>

Init ==
  /\ interesting \in SUBSET Txs
  /\ queue = [c \in Channels |-> <<>>]
  /\ at = [w \in Tasks |-> "head"]
  /\ hand = [w \in Stages |-> None]
  /\ onThread = {}
  /\ shutdown = {}
  /\ call = [c \in Callers |-> None]
  /\ mempool_rx_count = 0 /\ decision_tx_count = 0 /\ results_count = 0
  /\ dropped = [c \in Channels \ {"output"} |-> 0]
  /\ filtered_out = 0
  /\ transactions_processed = 0
  /\ offered = {} /\ delivered = {} /\ unsent = 0
  /\ late = [w \in Tasks |-> 0]

Full(c) == Len(queue[c]) >= Size[c]

-----------------------------------------------------------------------------
(* DecisionPathManager::process_transaction                                *)

\* mempool_rx_count counts every call.
Receive(c, t) ==
  /\ call[c] = None
  /\ t \notin offered
  /\ \A d \in Callers : call[d] # t
  /\ call' = [call EXCEPT ![c] = t]
  /\ mempool_rx_count' = mempool_rx_count + 1
  /\ UNCHANGED <<queue, at, hand, onThread, shutdown, decision_tx_count,
                 results_count, dropped, filtered_out, transactions_processed,
                 history>>

\* DecisionPath::process_transaction: a full queue drops the transaction, which
\* is still a success.
Send(c) ==
  /\ call[c] \in Txs
  /\ offered' = offered \cup {call[c]}
  /\ \/ /\ ~Full("filter")
        /\ queue' = [queue EXCEPT !["filter"] = Append(@, call[c])]
        /\ UNCHANGED dropped
     \/ /\ Full("filter")
        /\ dropped' = [dropped EXCEPT !["filter"] = @ + 1]
        /\ UNCHANGED queue
  /\ call' = [call EXCEPT ![c] = Sent]
  /\ UNCHANGED <<at, hand, onThread, shutdown, mempool_rx_count,
                 decision_tx_count, results_count, filtered_out,
                 transactions_processed, interesting, delivered, unsent, late>>

\* Back in the manager, the transaction counts as sent: by now the workers may
\* have dealt with it.
CountSent(c) ==
  /\ call[c] = Sent
  /\ call' = [call EXCEPT ![c] = None]
  /\ decision_tx_count' = decision_tx_count + 1
  /\ UNCHANGED <<queue, at, hand, onThread, shutdown, mempool_rx_count,
                 results_count, dropped, filtered_out, transactions_processed,
                 history>>

-----------------------------------------------------------------------------
(* The loop of every task                                                  *)

\* The runtime gives a free thread to a task.
Schedule(w) ==
  /\ at[w] # "ended"
  /\ w \notin onThread
  /\ Cardinality(onThread) < THREADS
  /\ onThread' = onThread \cup {w}
  /\ UNCHANGED <<queue, at, hand, shutdown, call, counters, history>>

\* while !shutdown.load(..)
CheckShutdown(w) ==
  /\ w \in onThread
  /\ at[w] = "head"
  /\ IF Flag(w) \in shutdown
       THEN at' = [at EXCEPT ![w] = "ended"] /\ onThread' = onThread \ {w}
       ELSE at' = [at EXCEPT ![w] = "recv"] /\ UNCHANGED onThread
  /\ UNCHANGED <<queue, hand, shutdown, call, counters, history>>

\* recv_timeout gives up on an empty channel after 100 ms.
RecvTimeout(w) ==
  /\ w \in onThread
  /\ at[w] = "recv"
  /\ queue[Source(w)] = <<>>
  /\ at' = [at EXCEPT ![w] = "head"]
  /\ UNCHANGED <<queue, hand, onThread, shutdown, call, counters, history>>

\* Variant: the item is read but left in the channel.
PeekTakes(w) ==
  /\ w \in onThread
  /\ at[w] = "recv"
  /\ queue[Source(w)] # <<>>
  /\ UNCHANGED <<queue, late, onThread, shutdown, call, mempool_rx_count,
                 decision_tx_count, dropped, filtered_out,
                 transactions_processed, interesting, offered, unsent>>

\* The item that recv_timeout returns to w.
Takes(w) ==
  /\ w \in onThread
  /\ at[w] = "recv"
  /\ queue[Source(w)] # <<>>
  /\ queue' = [queue EXCEPT ![Source(w)] = Tail(@)]
  /\ late' = [late EXCEPT ![w] = IF Flag(w) \in shutdown THEN @ + 1 ELSE @]
  /\ UNCHANGED <<onThread, shutdown, call, mempool_rx_count,
                 decision_tx_count, dropped, filtered_out,
                 transactions_processed, interesting, offered, unsent>>

\* A stage worker gets its next item.
RecvItem(w) ==
  /\ w \in Stages
  /\ Takes(w)
  /\ hand' = [hand EXCEPT ![w] = Head(queue[Source(w)])]
  /\ at' = [at EXCEPT ![w] = "work"]
  /\ UNCHANGED <<results_count, delivered>>

-----------------------------------------------------------------------------
(* The stages                                                              *)

\* A worker at work on its item, which it then lets go.
Works(w, next) ==
  /\ w \in onThread
  /\ at[w] = "work"
  /\ hand' = [hand EXCEPT ![w] = None]
  /\ at' = [at EXCEPT ![w] = next]
  /\ UNCHANGED <<onThread, shutdown, call, mempool_rx_count,
                 decision_tx_count, results_count, transactions_processed,
                 interesting, offered, delivered, late>>

\* Variant: an item that the next stage has no room for is not counted.
SilentPassOn(w) ==
  /\ IF Full(Target(w)) THEN UNCHANGED queue
     ELSE queue' = [queue EXCEPT ![Target(w)] = Append(@, hand[w])]
  /\ UNCHANGED dropped

\* try_send to the next stage, which drops the item when there is no room.
PassOn(w) ==
  LET c == Target(w)
  IN \/ /\ ~Full(c)
        /\ queue' = [queue EXCEPT ![c] = Append(@, hand[w])]
        /\ UNCHANGED dropped
     \/ /\ Full(c)
        /\ dropped' = [dropped EXCEPT ![c] = @ + 1]
        /\ UNCHANGED queue

\* A matter of the transaction alone.
FastFilter(t) == t \in interesting

Filter(w) ==
  /\ w \in FilterWorkers
  /\ Works(w, "head")
  /\ \/ /\ FastFilter(hand[w])
        /\ PassOn(w)
        /\ UNCHANGED filtered_out
     \/ /\ ~FastFilter(hand[w])
        /\ filtered_out' = filtered_out + 1
        /\ UNCHANGED <<queue, dropped>>
  /\ UNCHANGED unsent

\* A failed evaluation is passed on as an empty list of opportunities.
Simulate(w) ==
  /\ w \in SimulationWorkers
  /\ Works(w, "head")
  /\ PassOn(w)
  /\ UNCHANGED <<filtered_out, unsent>>

\* The decision is sent if there is room, and not counted as dropped if not.
SendDecision(w) ==
  /\ w \in BundleWorkers
  /\ Works(w, "stats")
  /\ \/ /\ ~Full("output")
        /\ queue' = [queue EXCEPT !["output"] = Append(@, hand[w])]
        /\ UNCHANGED unsent
     \/ /\ Full("output")
        /\ unsent' = unsent + 1
        /\ UNCHANGED queue
  /\ UNCHANGED <<dropped, filtered_out>>

\* stats.write(): the bundle worker counts the transaction, sent or not.
CountDecision(w) ==
  /\ w \in BundleWorkers \cap onThread
  /\ at[w] \in {"stats", "lock"}
  /\ transactions_processed' = transactions_processed + 1
  /\ at' = [at EXCEPT ![w] = "head"]
  /\ UNCHANGED <<queue, hand, onThread, shutdown, call, mempool_rx_count,
                 decision_tx_count, results_count, dropped, filtered_out,
                 history>>

-----------------------------------------------------------------------------
(* DecisionPathManager::start_results_processor                            *)

\* A decision arrives and is counted; its statistics come later.
RecvDecision(w) ==
  /\ w \in Processors
  /\ Takes(w)
  /\ results_count' = results_count + 1
  /\ delivered' = delivered \cup {Head(queue["output"])}
  /\ at' = [at EXCEPT ![w] = "stats"]
  /\ UNCHANGED hand

\* Variant: after a result the loop goes on without looking at the flag.
EagerProcess(w) ==
  /\ w \in Processors \cap onThread
  /\ at[w] \in {"stats", "lock"}
  /\ at' = [at EXCEPT ![w] = "recv"]
  /\ UNCHANGED <<queue, hand, onThread, shutdown, call, counters, history>>

\* process_decision_result.
ProcessDecision(w) ==
  /\ w \in Processors \cap onThread
  /\ at[w] \in {"stats", "lock"}
  /\ at' = [at EXCEPT ![w] = "head"]
  /\ UNCHANGED <<queue, hand, onThread, shutdown, call, counters, history>>

\* The write lock of the statistics is taken: the task gives its thread back
\* and has the lock by the time it gets one again.
AwaitLock(w) ==
  /\ w \in onThread
  /\ at[w] = "stats"
  /\ at' = [at EXCEPT ![w] = "lock"]
  /\ onThread' = onThread \ {w}
  /\ UNCHANGED <<queue, hand, shutdown, call, counters, history>>

-----------------------------------------------------------------------------
\* Variant: the path is not shut down with its manager.
HalfShutdown ==
  /\ shutdown = {} /\ shutdown' = {"manager"}
  /\ UNCHANGED <<queue, at, hand, onThread, call, counters, history>>

\* DecisionPathManager::shutdown sets its own flag, then that of the path.
Shutdown ==
  /\ \/ shutdown = {} /\ shutdown' = {"manager"}
     \/ shutdown = {"manager"} /\ shutdown' = Flags
  /\ UNCHANGED <<queue, at, hand, onThread, call, counters, history>>

Step(w) ==
  \/ CheckShutdown(w)
  \/ RecvTimeout(w)
  \/ RecvItem(w)
  \/ Filter(w)
  \/ Simulate(w)
  \/ SendDecision(w)
  \/ CountDecision(w)
  \/ RecvDecision(w)
  \/ ProcessDecision(w)

Next ==
  \/ \E c \in Callers : (\E t \in Txs : Receive(c, t)) \/ Send(c) \/ CountSent(c)
  \/ \E w \in Tasks : Schedule(w) \/ Step(w) \/ AwaitLock(w)
  \/ Shutdown

Spec == Init /\ [][Next]_vars

\* A task on a thread runs; the queue of runnable tasks is first in, first
\* out, so a task for which a thread is free again and again gets one.
Fairness ==
  /\ \A w \in Tasks : WF_vars(Step(w)) /\ SF_vars(Schedule(w))
  /\ \A c \in Callers : WF_vars(Send(c) \/ CountSent(c))
  /\ WF_vars(shutdown # {} /\ Shutdown)

FairSpec == Spec /\ Fairness

-----------------------------------------------------------------------------
(* Properties                                                              *)

\* The state is well formed, no channel is over its size, and no more tasks
\* run than there are threads.
TypeOK ==
  /\ interesting \subseteq Txs
  /\ queue \in [Channels -> Seq(Txs)]
  /\ \A c \in Channels : Len(queue[c]) <= Size[c]
  /\ at \in [Tasks -> {"head", "recv", "work", "stats", "lock", "ended"}]
  /\ hand \in [Stages -> Txs \cup {None}]
  /\ \A w \in Stages : hand[w] # None <=> at[w] = "work"
  /\ onThread \subseteq Tasks /\ Cardinality(onThread) <= THREADS
  /\ shutdown \in SUBSET Flags
  /\ call \in [Callers -> Txs \cup {None, Sent}]
  /\ {mempool_rx_count, decision_tx_count, results_count, filtered_out,
      transactions_processed, unsent} \subseteq Nat
  /\ dropped \in [Channels \ {"output"} -> Nat]
  /\ offered \subseteq Txs /\ delivered \subseteq Txs
  /\ late \in [Tasks -> Nat]

Calling == Cardinality({c \in Callers : call[c] # None})
Uncounted == Cardinality({c \in Callers : call[c] = Sent})
Holding(W, S) == Cardinality({w \in W : at[w] \in S})

\* The counters of the manager's report account for every transaction: what
\* came in was refused, filtered out, dropped between two stages, decided, or
\* is still on its way; and a decision is either taken by the processor, in
\* the output channel, or one of those the full output channel lost, which no
\* counter shows (process_transaction, the three stages, the processor).
Accounted ==
  /\ mempool_rx_count = Calling + decision_tx_count
  /\ decision_tx_count + Uncounted =
       dropped["filter"] + dropped["simulation"] + dropped["bundle"]
       + filtered_out + transactions_processed
       + Len(queue["filter"]) + Len(queue["simulation"]) + Len(queue["bundle"])
       + Holding(Stages, {"work"}) + Holding(BundleWorkers, {"stats", "lock"})
  /\ transactions_processed + Holding(BundleWorkers, {"stats", "lock"}) =
       results_count + Len(queue["output"]) + unsent

\* After the shutdown flag is set a task takes at most the one item it was
\* already waiting for (the loops of the workers and of the processor).
AtMostOneLate == \A w \in Tasks : late[w] <= 1

Inside == (UNION {Range(queue[c]) : c \in Channels})
            \cup ({hand[w] : w \in Stages} \ {None})

\* The pipeline keeps the promise of module Pipeline: nothing is delivered
\* twice, lost and then delivered, or invented, and no more is inside than
\* the channels and the workers can hold.
Promise == INSTANCE Pipeline WITH
  Room <- filter_input + simulation_input + bundle_input + output
            + Cardinality(Stages),
  inside <- Inside,
  discarded <- offered \ (Inside \cup delivered)
ImplementsPipeline == Promise!Spec

\* Unless the pipeline is shut down, what it accepted leaves it: the channels
\* and the workers' hands do not keep a transaction for ever.  (Each is offered
\* once, so an empty pipeline has let all of them go.)
Drains == Inside # {} ~> (Inside = {} \/ shutdown # {})

\* "Should have received at least one result"
\* (tests/decision_path_integration.rs:96): an interesting transaction that
\* entered the pipeline makes some decision come out.
ResultsArrive ==
  Inside \cap interesting # {} ~> (delivered # {} \/ shutdown # {})

\* A shutdown ends every task, those that never had a thread included
\* (DecisionPathManager::shutdown).
WorkersEnd == shutdown # {} ~> \A w \in Tasks : at[w] = "ended"

\* A transaction is in one place, within the bounds of the channels, and the
\* counters account for every one that came and went.
BooksBalance ==
  /\ TypeOK
  /\ Accounted

\* Whatever enters leaves, and the workers end after shutdown().
EverythingEnds ==
  /\ Drains
  /\ WorkersEnd
=============================================================================
