------------------------- MODULE DecisionPathProofs -------------------------
(***************************************************************************)
(* Proofs about DecisionPath, for any number of workers, callers, threads  *)
(* and transactions and any size of the channels.                          *)
(***************************************************************************)
EXTENDS DecisionPath, FiniteSetTheorems, TLAPS

Places == {"head", "recv", "work", "stats", "lock", "ended"}

\* The part of TypeOK that says what kind of value each variable has.
TypeInv ==
  /\ interesting \subseteq Txs
  /\ queue \in [Channels -> Seq(Txs)]
  /\ at \in [Tasks -> Places]
  /\ hand \in [Stages -> Txs \cup {None}]
  /\ onThread \subseteq Tasks
  /\ shutdown \subseteq Flags
  /\ call \in [Callers -> Txs \cup {None, Sent}]
  /\ mempool_rx_count \in Nat /\ decision_tx_count \in Nat
  /\ results_count \in Nat /\ filtered_out \in Nat
  /\ transactions_processed \in Nat /\ unsent \in Nat
  /\ dropped \in [Channels \ {"output"} -> Nat]
  /\ offered \subseteq Txs /\ delivered \subseteq Txs
  /\ late \in [Tasks -> Nat]

\* Channels and threads are within their limits.
Bounded ==
  /\ \A c \in Channels : Len(queue[c]) <= Size[c]
  /\ Cardinality(onThread) <= THREADS

\* A stage worker holds an item exactly while it works on it, only bundle
\* workers and processors take the lock of the statistics, and processors hold
\* nothing.
HandsMatch ==
  /\ \A w \in Stages : hand[w] # None <=> at[w] = "work"
  /\ \A w \in Processors : at[w] # "work"
  /\ \A w \in FilterWorkers \cup SimulationWorkers :
       at[w] \notin {"stats", "lock"}

\* A task that took an item after its flag was set is not waiting for another.
LateOnce ==
  \A w \in Tasks :
    /\ late[w] <= 1
    /\ late[w] = 1 => at[w] # "recv" /\ Flag(w) \in shutdown

\* The kinds of step.
LEMMA StepKinds ==
  ASSUME [Next]_vars
  PROVE  \/ \E c \in Callers :
              (\E t \in Txs : Receive(c, t)) \/ Send(c) \/ CountSent(c)
         \/ \E w \in Tasks :
              \/ Schedule(w) \/ CheckShutdown(w) \/ RecvTimeout(w)
              \/ RecvItem(w) \/ Filter(w) \/ Simulate(w) \/ SendDecision(w)
              \/ CountDecision(w) \/ RecvDecision(w) \/ ProcessDecision(w)
              \/ AwaitLock(w)
         \/ Shutdown \/ UNCHANGED vars
BY Zenon DEF Next, Step

\* Every worker reads and writes channels.
LEMMA Ends ==
  ASSUME NEW w \in Tasks
  PROVE  /\ Source(w) \in Channels /\ Target(w) \in Channels
         /\ w \in Stages => Source(w) # "output"
         /\ w \in Processors => Source(w) = "output"
         /\ w \in FilterWorkers \cup SimulationWorkers => Target(w) # "output"
BY DecisionPathConstants DEF DecisionPathConstants, Source, Target, Channels,
   Tasks, Stages

\* The item that a task takes is a transaction.
LEMMA TakenIsTx ==
  ASSUME TypeInv, NEW w \in Tasks, queue[Source(w)] # <<>>
  PROVE  /\ Head(queue[Source(w)]) \in Txs
         /\ Tail(queue[Source(w)]) \in Seq(Txs)
         /\ Len(Tail(queue[Source(w)])) = Len(queue[Source(w)]) - 1
         /\ Len(queue[Source(w)]) \in Nat \ {0}
<1>1. Source(w) \in Channels
  BY Ends
<1>2. QED
  BY <1>1 DEF TypeInv

\* A stage worker at work holds a transaction.
LEMMA HeldIsTx ==
  ASSUME TypeInv, HandsMatch, NEW w \in Stages, at[w] = "work"
  PROVE  hand[w] \in Txs
BY DEF TypeInv, HandsMatch

\* What is sent on a channel is well typed.
LEMMA AppendedType ==
  ASSUME TypeInv, NEW c \in Channels, NEW t \in Txs
  PROVE  [queue EXCEPT ![c] = Append(@, t)] \in [Channels -> Seq(Txs)]
BY DEF TypeInv

\* What a stage passes on is a transaction (try_send).
LEMMA PassOnType ==
  ASSUME TypeInv, NEW w \in FilterWorkers \cup SimulationWorkers,
         hand[w] \in Txs, PassOn(w)
  PROVE  /\ queue' \in [Channels -> Seq(Txs)]
         /\ dropped' \in [Channels \ {"output"} -> Nat]
<1>1. Target(w) \in Channels \ {"output"}
  BY Ends DEF Tasks, Stages
<1>2. CASE /\ UNCHANGED dropped
           /\ queue' = [queue EXCEPT ![Target(w)] = Append(@, hand[w])]
  BY <1>1, <1>2, AppendedType DEF TypeInv
<1>3. CASE UNCHANGED queue /\ dropped' = [dropped EXCEPT ![Target(w)] = @ + 1]
  BY <1>1, <1>3 DEF TypeInv
<1>4. QED
  BY <1>2, <1>3 DEF PassOn

-----------------------------------------------------------------------------
(* Types.                                                                  *)

\* The channels are empty and the workers idle at first.
LEMMA TypeInit == Init => TypeInv
<1> SUFFICES ASSUME Init PROVE TypeInv
  OBVIOUS
<1> USE DEF Init
<1>1. /\ interesting \subseteq Txs /\ queue \in [Channels -> Seq(Txs)]
      /\ at \in [Tasks -> Places] /\ hand \in [Stages -> Txs \cup {None}]
      /\ onThread \subseteq Tasks /\ shutdown \subseteq Flags
      /\ call \in [Callers -> Txs \cup {None, Sent}]
  BY DEF Places
<1>2. /\ dropped \in [Channels \ {"output"} -> Nat]
      /\ offered \subseteq Txs /\ delivered \subseteq Txs
      /\ late \in [Tasks -> Nat]
  OBVIOUS
<1>3. QED
  BY <1>1, <1>2 DEF TypeInv

\* Every step of the path keeps the types.
LEMMA TypeStep ==
  ASSUME TypeInv, HandsMatch, [Next]_vars
  PROVE  TypeInv'
<1> USE DEF TypeInv, Places, counters, history
<1>1. ASSUME NEW c \in Callers, NEW t \in Txs, Receive(c, t) PROVE TypeInv'
  BY <1>1 DEF Receive
<1>2. ASSUME NEW c \in Callers, Send(c) \/ CountSent(c) PROVE TypeInv'
  <2>1. CASE CountSent(c)
    <3>1. /\ call' \in [Callers -> Txs \cup {None, Sent}]
          /\ decision_tx_count' \in Nat
      BY <2>1 DEF CountSent
    <3>2. QED
      BY <2>1, <3>1 DEF CountSent
  <2> SUFFICES ASSUME Send(c) PROVE TypeInv'
    BY <1>2, <2>1
  <2>2. call[c] \in Txs
    BY DEF Send
  <2>3. [queue EXCEPT !["filter"] = Append(@, call[c])]
          \in [Channels -> Seq(Txs)]
    BY <2>2, AppendedType DEF Channels
  <2>4. queue' \in [Channels -> Seq(Txs)]
    BY <2>3 DEF Send
  <2>5. dropped' \in [Channels \ {"output"} -> Nat]
    BY DEF Send, Channels
  <2>6. QED
    BY <2>2, <2>4, <2>5 DEF Send
<1>3. ASSUME NEW w \in Tasks, Schedule(w) PROVE TypeInv'
  BY <1>3 DEF Schedule
<1>4. ASSUME NEW w \in Tasks, CheckShutdown(w) PROVE TypeInv'
  BY <1>4 DEF CheckShutdown
<1>5. ASSUME NEW w \in Tasks, RecvTimeout(w) PROVE TypeInv'
  BY <1>5 DEF RecvTimeout
<1>6. ASSUME NEW w \in Tasks, RecvItem(w) PROVE TypeInv'
  BY <1>6, Ends, TakenIsTx DEF RecvItem, Takes
<1>7. ASSUME NEW w \in Tasks, Filter(w) PROVE TypeInv'
  <2>1. hand[w] \in Txs
    BY <1>7, HeldIsTx DEF Filter, Works, Stages
  <2>2. /\ queue' \in [Channels -> Seq(Txs)]
        /\ dropped' \in [Channels \ {"output"} -> Nat]
    BY <1>7, <2>1, PassOnType DEF Filter
  <2>3. filtered_out' \in Nat
    BY <1>7 DEF Filter
  <2>4. QED
    BY <1>7, <2>2, <2>3 DEF Filter, Works
<1>8. ASSUME NEW w \in Tasks, Simulate(w) PROVE TypeInv'
  <2>1. hand[w] \in Txs
    BY <1>8, HeldIsTx DEF Simulate, Works, Stages
  <2>2. /\ queue' \in [Channels -> Seq(Txs)]
        /\ dropped' \in [Channels \ {"output"} -> Nat]
    BY <1>8, <2>1, PassOnType DEF Simulate
  <2>3. QED
    BY <1>8, <2>2 DEF Simulate, Works
<1>9. ASSUME NEW w \in Tasks, SendDecision(w) PROVE TypeInv'
  <2>1. hand[w] \in Txs
    BY <1>9, HeldIsTx DEF SendDecision, Works, Stages
  <2>2. [queue EXCEPT !["output"] = Append(@, hand[w])]
          \in [Channels -> Seq(Txs)]
    BY <2>1, AppendedType DEF Channels
  <2>3. queue' \in [Channels -> Seq(Txs)]
    BY <1>9, <2>2 DEF SendDecision
  <2>4. unsent' \in Nat
    BY <1>9 DEF SendDecision
  <2>5. QED
    BY <1>9, <2>3, <2>4 DEF SendDecision, Works
<1>10. ASSUME NEW w \in Tasks, CountDecision(w) PROVE TypeInv'
  BY <1>10 DEF CountDecision
<1>11. ASSUME NEW w \in Tasks, RecvDecision(w) PROVE TypeInv'
  BY <1>11, Ends, TakenIsTx DEF RecvDecision, Takes
<1>12. ASSUME NEW w \in Tasks, ProcessDecision(w) PROVE TypeInv'
  BY <1>12 DEF ProcessDecision
<1>13. ASSUME NEW w \in Tasks, AwaitLock(w) PROVE TypeInv'
  BY <1>13 DEF AwaitLock
<1>14. CASE Shutdown
  BY <1>14 DEF Shutdown, Flags
<1>15. CASE UNCHANGED vars
  BY <1>15 DEF vars
<1>16. QED
  BY <1>1, <1>2, <1>3, <1>4, <1>5, <1>6, <1>7, <1>8, <1>9, <1>10, <1>11, <1>12,
     <1>13, <1>14, <1>15, StepKinds

\* Nobody but a stage worker holds an item, through every step.
LEMMA HandsStep ==
  ASSUME TypeInv, HandsMatch, [Next]_vars
  PROVE  HandsMatch'
<1> USE DecisionPathConstants DEF DecisionPathConstants, TypeInv, HandsMatch,
        Places, counters, history, Tasks, Stages
<1>1. ASSUME NEW c \in Callers,
             (\E t \in Txs : Receive(c, t)) \/ Send(c) \/ CountSent(c)
      PROVE  HandsMatch'
  BY <1>1 DEF Receive, Send, CountSent
<1>2. ASSUME NEW w \in Tasks, Schedule(w) \/ CheckShutdown(w) \/ RecvTimeout(w)
      PROVE  HandsMatch'
  BY <1>2, SMTT(30) DEF Schedule, CheckShutdown, RecvTimeout
<1>3. ASSUME NEW w \in Tasks, RecvItem(w) PROVE HandsMatch'
  <2>1. Head(queue[Source(w)]) # None
    BY <1>3, TakenIsTx DEF RecvItem, Takes
  <2>2. QED
    BY <1>3, <2>1 DEF RecvItem, Takes
<1>4. ASSUME NEW w \in Tasks, Filter(w) PROVE HandsMatch'
  BY <1>4 DEF Filter, Works
<1>5. ASSUME NEW w \in Tasks, Simulate(w) PROVE HandsMatch'
  BY <1>5 DEF Simulate, Works
<1>6. ASSUME NEW w \in Tasks, SendDecision(w) PROVE HandsMatch'
  BY <1>6 DEF SendDecision, Works
<1>7. ASSUME NEW w \in Tasks, CountDecision(w) \/ ProcessDecision(w)
      PROVE  HandsMatch'
  BY <1>7 DEF CountDecision, ProcessDecision
<1>8. ASSUME NEW w \in Tasks, RecvDecision(w) PROVE HandsMatch'
  BY <1>8 DEF RecvDecision, Takes
<1>9. ASSUME NEW w \in Tasks, AwaitLock(w) PROVE HandsMatch'
  BY <1>9 DEF AwaitLock
<1>10. CASE Shutdown \/ UNCHANGED vars
  BY <1>10 DEF Shutdown, vars
<1>11. QED
  BY <1>1, <1>2, <1>3, <1>4, <1>5, <1>6, <1>7, <1>8, <1>9, <1>10, StepKinds

-----------------------------------------------------------------------------
(* One item after the flag.                                                *)

\* No task takes a second item after its flag was set (recv in the stages).
LEMMA LateStep ==
  ASSUME TypeInv, LateOnce, [Next]_vars
  PROVE  LateOnce'
<1> USE DEF TypeInv, LateOnce, Places, counters, history
<1>1. ASSUME NEW c \in Callers,
             (\E t \in Txs : Receive(c, t)) \/ Send(c) \/ CountSent(c)
      PROVE  LateOnce'
  BY <1>1 DEF Receive, Send, CountSent
<1>2. ASSUME NEW w \in Tasks, Schedule(w) \/ CheckShutdown(w) \/ RecvTimeout(w)
      PROVE  LateOnce'
  BY <1>2 DEF Schedule, CheckShutdown, RecvTimeout
<1>3. ASSUME NEW w \in Tasks, RecvItem(w) \/ RecvDecision(w) PROVE LateOnce'
  BY <1>3 DEF RecvItem, RecvDecision, Takes
<1>4. ASSUME NEW w \in Tasks, Filter(w) \/ Simulate(w) \/ SendDecision(w)
      PROVE  LateOnce'
  BY <1>4 DEF Filter, Simulate, SendDecision, Works
<1>5. ASSUME NEW w \in Tasks,
             CountDecision(w) \/ ProcessDecision(w) \/ AwaitLock(w)
      PROVE  LateOnce'
  BY <1>5 DEF CountDecision, ProcessDecision, AwaitLock
<1>6. CASE Shutdown \/ UNCHANGED vars
  BY <1>6 DEF Shutdown, vars, Flags, Flag
<1>7. QED
  BY <1>1, <1>2, <1>3, <1>4, <1>5, <1>6, StepKinds

-----------------------------------------------------------------------------
(* The limits of channels and threads.                                     *)

\* A channel that is not full has room for one item more.
LEMMA AppendedFits ==
  ASSUME TypeInv, Bounded, NEW c \in Channels, NEW t, ~Full(c),
         queue' = [queue EXCEPT ![c] = Append(@, t)]
  PROVE  \A d \in Channels : Len(queue'[d]) <= Size[d]
<1>1. Size[c] \in Nat
  BY DecisionPathConstants DEF DecisionPathConstants, Size, Channels
<1>2. queue[c] \in Seq(Txs)
  BY DEF TypeInv
<1>3. Len(Append(queue[c], t)) = Len(queue[c]) + 1
  BY <1>2
<1>4. queue'[c] = Append(queue[c], t)
  BY DEF TypeInv
<1>5. \A d \in Channels \ {c} : queue'[d] = queue[d]
  BY DEF TypeInv
<1>6. Len(queue'[c]) <= Size[c]
  BY <1>1, <1>2, <1>3, <1>4 DEF Full
<1>7. QED
  BY <1>5, <1>6 DEF Bounded

\* Taking an item makes a channel shorter.
LEMMA TakenFits ==
  ASSUME TypeInv, Bounded, NEW w \in Tasks, Takes(w)
  PROVE  \A d \in Channels : Len(queue'[d]) <= Size[d]
<1>1. Source(w) \in Channels
  BY Ends
<1>2. Size[Source(w)] \in Nat
  BY <1>1, DecisionPathConstants DEF DecisionPathConstants, Size, Channels
<1>3. queue'[Source(w)] = Tail(queue[Source(w)])
  BY <1>1 DEF TypeInv, Takes
<1>4. \A d \in Channels \ {Source(w)} : queue'[d] = queue[d]
  BY <1>1 DEF TypeInv, Takes
<1>5. Len(queue'[Source(w)]) <= Size[Source(w)]
  BY <1>1, <1>2, <1>3, TakenIsTx DEF Takes, Bounded
<1>6. QED
  BY <1>4, <1>5 DEF Bounded

\* Threads are a subset of the finite set of tasks.
LEMMA ThreadsCounted ==
  ASSUME TypeInv, NEW w \in Tasks
  PROVE  /\ IsFiniteSet(onThread) /\ Cardinality(onThread) \in Nat
         /\ Cardinality(onThread \ {w}) \in Nat
         /\ Cardinality(onThread \ {w}) <= Cardinality(onThread)
         /\ w \notin onThread =>
              Cardinality(onThread \cup {w}) = Cardinality(onThread) + 1
<1>1. IsFiniteSet(onThread)
  BY DecisionPathConstants, FS_Subset DEF DecisionPathConstants, TypeInv
<1>2. Cardinality(onThread) \in Nat
  BY <1>1, FS_CardinalityType
<1>3. /\ Cardinality(onThread \ {w}) \in Nat
      /\ Cardinality(onThread \ {w}) <= Cardinality(onThread)
  BY <1>1, FS_Subset, FS_CardinalityType
<1>4. w \notin onThread =>
        Cardinality(onThread \cup {w}) = Cardinality(onThread) + 1
  BY <1>1, FS_AddElement
<1>5. QED
  BY <1>1, <1>2, <1>3, <1>4

\* Every step keeps the channels within their capacity (try_send).
LEMMA BoundedStep ==
  ASSUME TypeInv, HandsMatch, Bounded, [Next]_vars
  PROVE  Bounded'
<1> USE DEF Bounded, counters, history
<1>1. ASSUME NEW c \in Callers,
             (\E t \in Txs : Receive(c, t)) \/ CountSent(c)
      PROVE  Bounded'
  BY <1>1 DEF Receive, CountSent
<1>2. ASSUME NEW c \in Callers, Send(c) PROVE Bounded'
  <2>1. CASE Full("filter") /\ UNCHANGED queue
    BY <1>2, <2>1 DEF Send
  <2>2. CASE /\ ~Full("filter")
             /\ queue' = [queue EXCEPT !["filter"] = Append(@, call[c])]
    BY <1>2, <2>2, AppendedFits DEF Send, Channels
  <2>3. QED
    BY <1>2, <2>1, <2>2 DEF Send
<1>3. ASSUME NEW w \in Tasks, Schedule(w) PROVE Bounded'
  BY <1>3, ThreadsCounted, DecisionPathConstants
     DEF Schedule, DecisionPathConstants
<1>4. ASSUME NEW w \in Tasks, CheckShutdown(w) \/ AwaitLock(w) PROVE Bounded'
  <2>1. /\ onThread' = onThread \/ onThread' = onThread \ {w}
        /\ queue' = queue
    BY <1>4 DEF CheckShutdown, AwaitLock
  <2>2. Cardinality(onThread') <= THREADS
    <3>1. CASE onThread' = onThread
      BY <3>1
    <3>2. CASE onThread' = onThread \ {w}
      <4>1. /\ Cardinality(onThread \ {w}) \in Nat
            /\ Cardinality(onThread) \in Nat
            /\ Cardinality(onThread \ {w}) <= Cardinality(onThread)
        BY ThreadsCounted
      <4>2. Cardinality(onThread) <= THREADS /\ THREADS \in Nat
        BY DecisionPathConstants DEF DecisionPathConstants
      <4> HIDE DEF Bounded
      <4>3. QED
        BY <3>2, <4>1, <4>2
    <3>3. QED
      BY <2>1, <3>1, <3>2
  <2>3. QED
    BY <2>1, <2>2
<1>5. ASSUME NEW w \in Tasks,
             RecvTimeout(w) \/ CountDecision(w) \/ ProcessDecision(w)
      PROVE  Bounded'
  BY <1>5 DEF RecvTimeout, CountDecision, ProcessDecision
<1>6. ASSUME NEW w \in Tasks, RecvItem(w) \/ RecvDecision(w) PROVE Bounded'
  BY <1>6, TakenFits DEF RecvItem, RecvDecision, Takes
<1>7. ASSUME NEW w \in Tasks, PassOn(w), onThread' = onThread PROVE Bounded'
  BY <1>7, Ends, AppendedFits DEF PassOn
<1>8. ASSUME NEW w \in Tasks, Filter(w) \/ Simulate(w) PROVE Bounded'
  BY <1>7, <1>8 DEF Filter, Simulate, Works
<1>9. ASSUME NEW w \in Tasks, SendDecision(w) PROVE Bounded'
  <2>1. CASE UNCHANGED queue
    BY <1>9, <2>1 DEF SendDecision, Works
  <2>2. CASE /\ ~Full("output")
             /\ queue' = [queue EXCEPT !["output"] = Append(@, hand[w])]
    BY <1>9, <2>2, AppendedFits DEF SendDecision, Works, Channels
  <2>3. QED
    BY <1>9, <2>1, <2>2 DEF SendDecision
<1>10. CASE Shutdown \/ UNCHANGED vars
  BY <1>10 DEF Shutdown, vars
<1>11. QED
  BY <1>1, <1>2, <1>3, <1>4, <1>5, <1>6, <1>8, <1>9, <1>10, StepKinds

-----------------------------------------------------------------------------
(* Counting who is where.                                                  *)

\* An element joins a finite set, leaves it, or neither.
LEMMA CardinalityMoves ==
  ASSUME NEW A, IsFiniteSet(A), NEW B, NEW w, A \ {w} = B \ {w}
  PROVE  /\ Cardinality(A) \in Nat
         /\ w \notin A /\ w \in B => Cardinality(B) = Cardinality(A) + 1
         /\ w \in A /\ w \notin B => Cardinality(B) = Cardinality(A) - 1
         /\ (w \in A <=> w \in B) => Cardinality(B) = Cardinality(A)
<1>1. Cardinality(A) \in Nat
  BY FS_CardinalityType
<1>2. ASSUME w \notin A, w \in B PROVE Cardinality(B) = Cardinality(A) + 1
  <2>1. B = A \cup {w}
    BY <1>2
  <2>2. QED
    BY <1>2, <2>1, FS_AddElement
<1>3. ASSUME w \in A, w \notin B PROVE Cardinality(B) = Cardinality(A) - 1
  <2>1. B = A \ {w}
    BY <1>3
  <2>2. QED
    BY <1>3, <2>1, FS_RemoveElement
<1>4. ASSUME w \in A <=> w \in B PROVE B = A
  BY <1>4
<1>5. QED
  BY <1>1, <1>2, <1>3, <1>4

Working == Holding(Stages, {"work"})
Deciding == Holding(BundleWorkers, {"stats", "lock"})

\* There are finitely many workers.
LEMMA FiniteWorkers == IsFiniteSet(Stages) /\ IsFiniteSet(BundleWorkers)
BY DecisionPathConstants, FS_Subset DEF DecisionPathConstants, Tasks, Stages

\* What a step of worker w does to the numbers that Accounted speaks of.
LEMMA WorkingMoves ==
  ASSUME TypeInv, NEW w \in Tasks, NEW x \in Places, at' = [at EXCEPT ![w] = x]
  PROVE  /\ Working \in Nat
         /\ w \in Stages /\ at[w] # "work" /\ x = "work" =>
              Working' = Working + 1
         /\ w \in Stages /\ at[w] = "work" /\ x # "work" =>
              Working' = Working - 1
         /\ w \notin Stages \/ (at[w] = "work" <=> x = "work") =>
              Working' = Working
<1> DEFINE A == {v \in Stages : at[v] \in {"work"}}
           B == {v \in Stages : at'[v] \in {"work"}}
<1>1. at'[w] = x /\ \A v \in Tasks \ {w} : at'[v] = at[v]
  BY DEF TypeInv
<1>2. A \ {w} = B \ {w}
  BY <1>1 DEF Tasks
<1>3. /\ w \in A <=> w \in Stages /\ at[w] = "work"
      /\ w \in B <=> w \in Stages /\ x = "work"
  BY <1>1
<1>4. IsFiniteSet(A)
  BY FiniteWorkers, FS_Subset
<1>5. Working = Cardinality(A) /\ Working' = Cardinality(B)
  BY DEF Working, Holding
<1> HIDE DEF A, B
<1>6. QED
  BY <1>2, <1>3, <1>4, <1>5, CardinalityMoves

\* What a step does to the number of bundle workers that decide.
LEMMA DecidingMoves ==
  ASSUME TypeInv, NEW w \in Tasks, NEW x \in Places, at' = [at EXCEPT ![w] = x]
  PROVE  /\ Deciding \in Nat
         /\ w \in BundleWorkers /\ at[w] \notin {"stats", "lock"}
               /\ x \in {"stats", "lock"} => Deciding' = Deciding + 1
         /\ w \in BundleWorkers /\ at[w] \in {"stats", "lock"}
               /\ x \notin {"stats", "lock"} => Deciding' = Deciding - 1
         /\ w \notin BundleWorkers
               \/ (at[w] \in {"stats", "lock"} <=> x \in {"stats", "lock"}) =>
              Deciding' = Deciding
<1> DEFINE L == {"stats", "lock"}
           A == {v \in BundleWorkers : at[v] \in L}
           B == {v \in BundleWorkers : at'[v] \in L}
<1>1. at'[w] = x /\ \A v \in Tasks \ {w} : at'[v] = at[v]
  BY DEF TypeInv
<1>2. A \ {w} = B \ {w}
  BY <1>1 DEF Tasks, Stages
<1>3. /\ w \in A <=> w \in BundleWorkers /\ at[w] \in L
      /\ w \in B <=> w \in BundleWorkers /\ x \in L
  BY <1>1
<1>4. IsFiniteSet(A)
  BY FiniteWorkers, FS_Subset
<1>5. Deciding = Cardinality(A) /\ Deciding' = Cardinality(B)
  BY DEF Deciding, Holding
<1> HIDE DEF A, B
<1>6. QED
  BY <1>2, <1>3, <1>4, <1>5, CardinalityMoves

\* What a step does to the number of callers in process_transaction ...
LEMMA CallingMoves ==
  ASSUME TypeInv, NEW c \in Callers, NEW x,
         call' = [call EXCEPT ![c] = x]
  PROVE  /\ Calling \in Nat
         /\ call[c] = None /\ x # None => Calling' = Calling + 1
         /\ call[c] # None /\ x = None => Calling' = Calling - 1
         /\ call[c] # None /\ x # None => Calling' = Calling
<1> DEFINE A == {d \in Callers : call[d] # None}
           B == {d \in Callers : call'[d] # None}
<1>1. call'[c] = x /\ \A d \in Callers \ {c} : call'[d] = call[d]
  BY DEF TypeInv
<1>2. /\ A \ {c} = B \ {c}
      /\ c \in A <=> call[c] # None
      /\ c \in B <=> x # None
  BY <1>1
<1>3. IsFiniteSet(A)
  BY FS_Subset, DecisionPathConstants DEF DecisionPathConstants
<1>4. Calling = Cardinality(A) /\ Calling' = Cardinality(B)
  BY DEF Calling
<1> HIDE DEF A, B
<1>5. QED
  BY <1>2, <1>3, <1>4, CardinalityMoves

\* ... and to the number of those that have still to count what they sent.
LEMMA UncountedMoves ==
  ASSUME TypeInv, NEW c \in Callers, NEW x,
         call' = [call EXCEPT ![c] = x]
  PROVE  /\ Uncounted \in Nat
         /\ call[c] # Sent /\ x = Sent => Uncounted' = Uncounted + 1
         /\ call[c] = Sent /\ x # Sent => Uncounted' = Uncounted - 1
         /\ call[c] # Sent /\ x # Sent => Uncounted' = Uncounted
<1> DEFINE A == {d \in Callers : call[d] = Sent}
           B == {d \in Callers : call'[d] = Sent}
<1>1. call'[c] = x /\ \A d \in Callers \ {c} : call'[d] = call[d]
  BY DEF TypeInv
<1>2. /\ A \ {c} = B \ {c}
      /\ c \in A <=> call[c] = Sent
      /\ c \in B <=> x = Sent
  BY <1>1
<1>3. IsFiniteSet(A)
  BY FS_Subset, DecisionPathConstants DEF DecisionPathConstants
<1>4. Uncounted = Cardinality(A) /\ Uncounted' = Cardinality(B)
  BY DEF Uncounted
<1> HIDE DEF A, B
<1>5. QED
  BY <1>2, <1>3, <1>4, CardinalityMoves

\* How many items wait on a channel.
Queued(c) == Len(queue[c])

\* The lengths of the channels are numbers.
LEMMA Lengths ==
  ASSUME TypeInv
  PROVE  \A d \in Channels : Queued(d) \in Nat
BY DEF TypeInv, Queued

\* A channel is one longer after a send.
LEMMA SentLength ==
  ASSUME TypeInv, NEW c \in Channels, NEW t \in Txs,
         queue' = [queue EXCEPT ![c] = Append(@, t)]
  PROVE  /\ Queued(c)' = Queued(c) + 1
         /\ \A d \in Channels \ {c} : Queued(d)' = Queued(d)
<1>1. queue[c] \in Seq(Txs) /\ queue'[c] = Append(queue[c], t)
  BY DEF TypeInv
<1>2. \A d \in Channels \ {c} : queue'[d] = queue[d]
  BY DEF TypeInv
<1>3. QED
  BY <1>1, <1>2 DEF Queued

\* A channel is one shorter after a receive.
LEMMA TakenLength ==
  ASSUME TypeInv, NEW w \in Tasks, Takes(w)
  PROVE  /\ Queued(Source(w))' = Queued(Source(w)) - 1
         /\ \A d \in Channels \ {Source(w)} : Queued(d)' = Queued(d)
<1>1. queue'[Source(w)] = Tail(queue[Source(w)])
  BY Ends DEF TypeInv, Takes
<1>2. \A d \in Channels \ {Source(w)} : queue'[d] = queue[d]
  BY Ends DEF TypeInv, Takes
<1>3. QED
  BY <1>1, <1>2, TakenIsTx DEF Takes, Queued

\* The three sums of Accounted, over the numbers that the lemmas above follow.
Refused ==
  dropped["filter"] + dropped["simulation"] + dropped["bundle"] + filtered_out
Waiting ==
  Queued("filter") + Queued("simulation") + Queued("bundle")

Books ==
  /\ mempool_rx_count = Calling + decision_tx_count
  /\ decision_tx_count + Uncounted =
       Refused + transactions_processed + Waiting + Working + Deciding
  /\ transactions_processed + Deciding =
       results_count + Queued("output") + unsent

\* A step that passes an item on either queues it or counts it as dropped.
LEMMA PassOnBooks ==
  ASSUME TypeInv, NEW w \in FilterWorkers \cup SimulationWorkers,
         hand[w] \in Txs, PassOn(w), filtered_out' = filtered_out
  PROVE  /\ \/ Refused' = Refused + 1 /\ Waiting' = Waiting
            \/ Refused' = Refused /\ Waiting' = Waiting + 1
         /\ Queued("output")' = Queued("output")
<1>1. Target(w) \in Channels \ {"output"} /\ w \in Tasks
  BY Ends DEF Tasks, Stages
<1>2. /\ Queued("filter") \in Nat /\ Queued("simulation") \in Nat
      /\ Queued("bundle") \in Nat
  BY Lengths DEF Channels
<1>3. /\ dropped["filter"] \in Nat /\ dropped["simulation"] \in Nat
      /\ dropped["bundle"] \in Nat /\ filtered_out \in Nat
  BY DEF TypeInv, Channels
<1>4. Refused \in Nat /\ Waiting \in Nat
  BY <1>2, <1>3 DEF Refused, Waiting
<1>5. CASE /\ UNCHANGED dropped
           /\ queue' = [queue EXCEPT ![Target(w)] = Append(@, hand[w])]
  <2>1. /\ Queued(Target(w))' = Queued(Target(w)) + 1
        /\ \A d \in Channels \ {Target(w)} : Queued(d)' = Queued(d)
    BY <1>1, <1>5, SentLength
  <2>2. Waiting' = Waiting + 1 /\ Queued("output")' = Queued("output")
    <3>1. CASE Target(w) = "filter"
      BY <1>2, <2>1, <3>1 DEF Waiting, Channels
    <3>2. CASE Target(w) = "simulation"
      BY <1>2, <2>1, <3>2 DEF Waiting, Channels
    <3>3. CASE Target(w) = "bundle"
      BY <1>2, <2>1, <3>3 DEF Waiting, Channels
    <3>4. QED
      BY <1>1, <3>1, <3>2, <3>3 DEF Channels
  <2>3. Refused' = Refused
    BY <1>5 DEF Refused
  <2>4. QED
    BY <1>4, <2>2, <2>3
<1>6. CASE /\ UNCHANGED queue
           /\ dropped' = [dropped EXCEPT ![Target(w)] = @ + 1]
  <2>1. /\ dropped'[Target(w)] = dropped[Target(w)] + 1
        /\ \A d \in Channels \ {"output", Target(w)} : dropped'[d] = dropped[d]
    BY <1>1, <1>6 DEF TypeInv
  <2>2. Refused' = Refused + 1
    BY <1>1, <1>3, <2>1 DEF Refused, Channels
  <2>3. Waiting' = Waiting
    BY <1>6 DEF Waiting, Queued
  <2>4. QED
    BY <1>4, <1>6, <2>2, <2>3 DEF Queued
<1>7. QED
  BY <1>5, <1>6 DEF PassOn

\* A task that takes an item takes it from its own channel.
LEMMA TakenBooks ==
  ASSUME TypeInv, NEW w \in Tasks, Takes(w)
  PROVE  /\ w \in Stages => /\ Waiting' = Waiting - 1
                            /\ Queued("output")' = Queued("output")
         /\ w \in Processors =>
              /\ Waiting' = Waiting
              /\ Queued("output")' = Queued("output") - 1
<1>1. /\ Queued(Source(w))' = Queued(Source(w)) - 1
      /\ \A d \in Channels \ {Source(w)} : Queued(d)' = Queued(d)
  BY TakenLength
<1>2. \A d \in Channels : Queued(d) \in Nat
  BY Lengths
<1>3. ASSUME w \in Stages
      PROVE  /\ Waiting' = Waiting - 1
             /\ Queued("output")' = Queued("output")
  <2>1. Source(w) \in Channels \ {"output"}
    BY <1>3, Ends
  <2>2. CASE Source(w) = "filter"
    BY <1>1, <1>2, <2>2 DEF Waiting, Channels
  <2>3. CASE Source(w) = "simulation"
    BY <1>1, <1>2, <2>3 DEF Waiting, Channels
  <2>4. CASE Source(w) = "bundle"
    BY <1>1, <1>2, <2>4 DEF Waiting, Channels
  <2>5. QED
    BY <2>1, <2>2, <2>3, <2>4 DEF Channels
<1>4. ASSUME w \in Processors
      PROVE  /\ Waiting' = Waiting
             /\ Queued("output")' = Queued("output") - 1
  <2>1. Source(w) = "output"
    BY <1>4, Ends
  <2>2. Queued("output")' = Queued("output") - 1
    BY <1>1, <2>1
  <2>3. /\ Queued("filter")' = Queued("filter")
        /\ Queued("simulation")' = Queued("simulation")
        /\ Queued("bundle")' = Queued("bundle")
    BY <1>1, <2>1 DEF Channels
  <2>4. QED
    BY <2>2, <2>3 DEF Waiting
<1>5. QED
  BY <1>3, <1>4

\* No step moves a number of the report without the other end of its sum.
LEMMA BooksStep ==
  ASSUME TypeInv, HandsMatch, Books, [Next]_vars
  PROVE  Books'
<1> USE DEF Books
<1>1. /\ Refused \in Nat /\ Waiting \in Nat /\ Queued("output") \in Nat
      /\ Working \in Nat /\ Deciding \in Nat /\ Calling \in Nat
      /\ Uncounted \in Nat
      /\ mempool_rx_count \in Nat /\ decision_tx_count \in Nat
      /\ results_count \in Nat /\ transactions_processed \in Nat
      /\ unsent \in Nat
  <2>1. Refused \in Nat
    BY SMTT(30) DEF TypeInv, Channels, Refused
  <2>2. Waiting \in Nat /\ Queued("output") \in Nat
    BY Lengths DEF Waiting, Channels
  <2>3. Working \in Nat /\ Deciding \in Nat
    BY FiniteWorkers, FS_Subset, FS_CardinalityType
       DEF Working, Deciding, Holding
  <2>4. Calling \in Nat /\ Uncounted \in Nat
    BY DecisionPathConstants, FS_Subset, FS_CardinalityType
       DEF DecisionPathConstants, Calling, Uncounted
  <2>5. QED
    BY <2>1, <2>2, <2>3, <2>4 DEF TypeInv
<1>2. ASSUME UNCHANGED <<at>> PROVE Working' = Working /\ Deciding' = Deciding
  BY <1>2 DEF Working, Deciding, Holding
<1>3. ASSUME UNCHANGED <<call>>
      PROVE  Calling' = Calling /\ Uncounted' = Uncounted
  BY <1>3 DEF Calling, Uncounted
<1>4. ASSUME UNCHANGED <<queue>>
      PROVE  Waiting' = Waiting /\ Queued("output")' = Queued("output")
  BY <1>4 DEF Waiting, Queued
<1>5. ASSUME UNCHANGED <<dropped, filtered_out>> PROVE Refused' = Refused
  BY <1>5 DEF Refused
<1>6. ASSUME NEW c \in Callers, NEW t \in Txs, Receive(c, t) PROVE Books'
  <2>1. /\ call' = [call EXCEPT ![c] = t] /\ call[c] = None
        /\ t # None /\ t # Sent /\ None # Sent
    BY <1>6, DecisionPathConstants DEF Receive, DecisionPathConstants
  <2>2. Calling' = Calling + 1 /\ Uncounted' = Uncounted
    BY <2>1, CallingMoves, UncountedMoves
  <2>3. QED
    BY <1>1, <1>2, <1>4, <1>5, <1>6, <2>2 DEF Receive, history
<1>7. ASSUME NEW c \in Callers, Send(c) PROVE Books'
  <2>1. /\ call[c] \in Txs /\ call' = [call EXCEPT ![c] = Sent]
        /\ call[c] # None /\ call[c] # Sent /\ Sent # None
    BY <1>7, DecisionPathConstants DEF Send, DecisionPathConstants
  <2>2. Calling' = Calling /\ Uncounted' = Uncounted + 1
    BY <2>1, CallingMoves, UncountedMoves
  <2>3. CASE UNCHANGED queue /\ dropped' = [dropped EXCEPT !["filter"] = @ + 1]
    <3>1. /\ dropped'["filter"] = dropped["filter"] + 1
          /\ dropped'["simulation"] = dropped["simulation"]
          /\ dropped'["bundle"] = dropped["bundle"]
      BY <2>3 DEF TypeInv, Channels
    <3>2. Refused' = Refused + 1
      BY <1>7, <3>1, SMTT(30) DEF Refused, TypeInv, Channels, Send
    <3>3. QED
      BY <1>1, <1>2, <1>4, <1>7, <2>2, <2>3, <3>2 DEF Send
  <2>4. CASE /\ UNCHANGED dropped
             /\ queue' = [queue EXCEPT !["filter"] = Append(@, call[c])]
    <3>1. /\ Queued("filter")' = Queued("filter") + 1
          /\ Queued("simulation")' = Queued("simulation")
          /\ Queued("bundle")' = Queued("bundle")
          /\ Queued("output")' = Queued("output")
      BY <2>1, <2>4, SentLength DEF Channels
    <3>2. Waiting' = Waiting + 1
      BY <3>1, Lengths DEF Waiting, Channels
    <3>3. QED
      BY <1>1, <1>2, <1>5, <1>7, <2>2, <2>4, <3>1, <3>2 DEF Send
  <2>5. QED
    BY <1>7, <2>3, <2>4 DEF Send
<1>8. ASSUME NEW w \in Tasks, Schedule(w) PROVE Books'
  BY <1>2, <1>3, <1>4, <1>5, <1>8 DEF Schedule, counters, history
<1>9. ASSUME NEW c \in Callers, CountSent(c) PROVE Books'
  <2>1. /\ call[c] = Sent /\ call' = [call EXCEPT ![c] = None]
        /\ Sent # None
    BY <1>9, DecisionPathConstants DEF CountSent, DecisionPathConstants
  <2>2. Calling' = Calling - 1 /\ Uncounted' = Uncounted - 1
    BY <2>1, CallingMoves, UncountedMoves
  <2>3. QED
    BY <1>1, <1>2, <1>4, <1>5, <1>9, <2>2 DEF CountSent, history
<1>10. ASSUME NEW w \in Tasks, NEW x \in Places, at' = [at EXCEPT ![w] = x],
             at[w] # "work", x # "work",
             at[w] \in {"stats", "lock"} <=> x \in {"stats", "lock"},
             UNCHANGED <<queue, call, counters, unsent>>
      PROVE  Books'
  <2>1. Working' = Working /\ Deciding' = Deciding
    BY <1>10, WorkingMoves, DecidingMoves
  <2>2. QED
    BY <1>3, <1>4, <1>5, <1>10, <2>1 DEF counters
<1>11. ASSUME NEW w \in Tasks,
              CheckShutdown(w) \/ RecvTimeout(w) \/ AwaitLock(w)
       PROVE  Books'
  BY <1>10, <1>11
     DEF CheckShutdown, RecvTimeout, AwaitLock, Places, history
<1>12. ASSUME NEW w \in Tasks, RecvItem(w) PROVE Books'
  <2>1. /\ at[w] = "recv" /\ at' = [at EXCEPT ![w] = "work"] /\ w \in Stages
        /\ "work" \in Places /\ Takes(w)
    BY <1>12 DEF RecvItem, Takes, Places
  <2>2. Working' = Working + 1 /\ Deciding' = Deciding
    BY <2>1, WorkingMoves, DecidingMoves
  <2>3. Waiting' = Waiting - 1 /\ Queued("output")' = Queued("output")
    BY <2>1, TakenBooks
  <2>4. QED
    BY <1>1, <1>3, <1>5, <1>12, <2>2, <2>3 DEF RecvItem, Takes
<1>13. ASSUME NEW w \in Tasks, Filter(w) PROVE Books'
  <2>1. /\ w \in Stages /\ w \notin BundleWorkers /\ at[w] = "work"
        /\ at' = [at EXCEPT ![w] = "head"] /\ "head" \in Places
        /\ hand[w] \in Txs
    BY <1>13, HeldIsTx, DecisionPathConstants
       DEF Filter, Works, Stages, Places, DecisionPathConstants
  <2>2. Working' = Working - 1 /\ Deciding' = Deciding
    BY <2>1, WorkingMoves, DecidingMoves
  <2>3. /\ \/ Refused' = Refused + 1 /\ Waiting' = Waiting
           \/ Refused' = Refused /\ Waiting' = Waiting + 1
        /\ Queued("output")' = Queued("output")
    <3>1. CASE PassOn(w) /\ UNCHANGED filtered_out
      BY <1>13, <2>1, <3>1, PassOnBooks DEF Filter
    <3>2. CASE filtered_out' = filtered_out + 1 /\ UNCHANGED <<queue, dropped>>
      <4>1. Refused' = Refused + 1
        BY <3>2, SMTT(30) DEF Refused, TypeInv, Channels
      <4>2. QED
        BY <1>1, <1>4, <3>2, <4>1
    <3>3. QED
      BY <1>13, <3>1, <3>2 DEF Filter
  <2>4. /\ Calling' = Calling /\ Uncounted' = Uncounted
        /\ UNCHANGED <<mempool_rx_count, decision_tx_count, results_count,
                       transactions_processed, unsent>>
    BY <1>3, <1>13 DEF Filter, Works
  <2>5. mempool_rx_count' = Calling' + decision_tx_count'
    BY <2>4
  <2>6. transactions_processed' + Deciding' =
          results_count' + Queued("output")' + unsent'
    BY <2>2, <2>3, <2>4
  <2>7. decision_tx_count' + Uncounted'
          = Refused' + transactions_processed' + Waiting' + Working' + Deciding'
    <3>1. CASE Refused' = Refused + 1 /\ Waiting' = Waiting
      BY <1>1, <2>2, <2>4, <3>1
    <3>2. CASE Refused' = Refused /\ Waiting' = Waiting + 1
      BY <1>1, <2>2, <2>4, <3>2
    <3>3. QED
      BY <2>3, <3>1, <3>2
  <2>8. QED
    BY <2>5, <2>6, <2>7
<1>14. ASSUME NEW w \in Tasks, Simulate(w) PROVE Books'
  <2>1. /\ w \in Stages /\ w \notin BundleWorkers /\ at[w] = "work"
        /\ at' = [at EXCEPT ![w] = "head"] /\ "head" \in Places
        /\ hand[w] \in Txs
    BY <1>14, HeldIsTx, DecisionPathConstants
       DEF Simulate, Works, Stages, Places, DecisionPathConstants
  <2>2. Working' = Working - 1 /\ Deciding' = Deciding
    BY <2>1, WorkingMoves, DecidingMoves
  <2>3. /\ \/ Refused' = Refused + 1 /\ Waiting' = Waiting
           \/ Refused' = Refused /\ Waiting' = Waiting + 1
        /\ Queued("output")' = Queued("output")
    BY <1>14, <2>1, PassOnBooks DEF Simulate
  <2>4. /\ Calling' = Calling /\ Uncounted' = Uncounted
        /\ UNCHANGED <<mempool_rx_count, decision_tx_count, results_count,
                       transactions_processed, unsent>>
    BY <1>3, <1>14 DEF Simulate, Works
  <2>5. mempool_rx_count' = Calling' + decision_tx_count'
    BY <2>4
  <2>6. transactions_processed' + Deciding' =
          results_count' + Queued("output")' + unsent'
    BY <2>2, <2>3, <2>4
  <2>7. decision_tx_count' + Uncounted'
          = Refused' + transactions_processed' + Waiting' + Working' + Deciding'
    <3>1. CASE Refused' = Refused + 1 /\ Waiting' = Waiting
      BY <1>1, <2>2, <2>4, <3>1
    <3>2. CASE Refused' = Refused /\ Waiting' = Waiting + 1
      BY <1>1, <2>2, <2>4, <3>2
    <3>3. QED
      BY <2>3, <3>1, <3>2
  <2>8. QED
    BY <2>5, <2>6, <2>7
<1>15. ASSUME NEW w \in Tasks, SendDecision(w) PROVE Books'
  <2>1. /\ w \in Stages /\ w \in BundleWorkers /\ at[w] = "work"
        /\ at' = [at EXCEPT ![w] = "stats"] /\ "stats" \in Places
        /\ hand[w] \in Txs
    BY <1>15, HeldIsTx DEF SendDecision, Works, Stages, Places
  <2>2. Working' = Working - 1 /\ Deciding' = Deciding + 1
    BY <2>1, WorkingMoves, DecidingMoves
  <2>3. CASE UNCHANGED queue /\ unsent' = unsent + 1
    BY <1>1, <1>3, <1>4, <1>5, <1>15, <2>2, <2>3 DEF SendDecision, Works
  <2>4. CASE /\ UNCHANGED unsent
             /\ queue' = [queue EXCEPT !["output"] = Append(@, hand[w])]
    <3>1. /\ Queued("output")' = Queued("output") + 1
          /\ Queued("filter")' = Queued("filter")
          /\ Queued("simulation")' = Queued("simulation")
          /\ Queued("bundle")' = Queued("bundle")
      BY <2>1, <2>4, SentLength DEF Channels
    <3>2. Waiting' = Waiting
      BY <3>1 DEF Waiting
    <3>3. QED
      BY <1>1, <1>3, <1>5, <1>15, <2>2, <2>4, <3>1, <3>2
         DEF SendDecision, Works
  <2>5. QED
    BY <1>15, <2>3, <2>4 DEF SendDecision
<1>16. ASSUME NEW w \in Tasks, CountDecision(w) PROVE Books'
  <2>1. /\ w \in BundleWorkers /\ at[w] \in {"stats", "lock"}
        /\ at' = [at EXCEPT ![w] = "head"] /\ "head" \in Places
    BY <1>16 DEF CountDecision, Places
  <2>2. Working' = Working /\ Deciding' = Deciding - 1
    BY <2>1, WorkingMoves, DecidingMoves
  <2>3. QED
    BY <1>1, <1>3, <1>4, <1>5, <1>16, <2>2 DEF CountDecision, history
<1>17. ASSUME NEW w \in Tasks, RecvDecision(w) PROVE Books'
  <2>1. /\ at' = [at EXCEPT ![w] = "stats"] /\ w \in Processors
        /\ "stats" \in Places /\ Takes(w)
        /\ w \notin Stages /\ w \notin BundleWorkers
    BY <1>17, DecisionPathConstants
       DEF RecvDecision, Places, Stages, DecisionPathConstants
  <2>2. Working' = Working /\ Deciding' = Deciding
    BY <2>1, WorkingMoves, DecidingMoves
  <2>3. Waiting' = Waiting /\ Queued("output")' = Queued("output") - 1
    BY <2>1, TakenBooks
  <2>4. QED
    BY <1>1, <1>3, <1>5, <1>17, <2>2, <2>3 DEF RecvDecision, Takes
<1>18. ASSUME NEW w \in Tasks, ProcessDecision(w) PROVE Books'
  <2>1. /\ w \notin Stages /\ w \notin BundleWorkers
        /\ at' = [at EXCEPT ![w] = "head"] /\ "head" \in Places
    BY <1>18, DecisionPathConstants
       DEF ProcessDecision, Places, Stages, DecisionPathConstants
  <2>2. Working' = Working /\ Deciding' = Deciding
    BY <2>1, WorkingMoves, DecidingMoves
  <2>3. QED
    BY <1>3, <1>4, <1>5, <1>18, <2>2 DEF ProcessDecision, counters, history
<1>19. CASE Shutdown \/ UNCHANGED vars
  BY <1>2, <1>3, <1>4, <1>5, <1>19 DEF Shutdown, vars, counters, history
<1>20. QED
  BY <1>6, <1>7, <1>8, <1>11, <1>12, <1>13, <1>14, <1>15, <1>16, <1>17, <1>18,
     <1>19, <1>9, StepKinds

-----------------------------------------------------------------------------
(* The inductive invariant and what follows from it.                       *)

PathInv ==
  /\ TypeInv
  /\ HandsMatch
  /\ Bounded
  /\ Books
  /\ LateOnce

\* The invariant holds before the first transaction.
LEMMA PathInit == Init => PathInv
<1> SUFFICES ASSUME Init PROVE PathInv
  OBVIOUS
<1> USE DecisionPathConstants DEF DecisionPathConstants, Init
<1>1. HandsMatch
  BY DEF HandsMatch, Tasks, Stages
<1>2. Bounded
  <2>1. \A c \in Channels : Len(queue[c]) = 0 /\ Size[c] \in Nat
    BY DEF Size, Channels
  <2>2. Cardinality(onThread) = 0
    BY FS_EmptySet
  <2>3. QED
    BY <2>1, <2>2 DEF Bounded
<1>3. Books
  <2>1. Calling = 0 /\ Uncounted = 0 /\ Working = 0 /\ Deciding = 0
    <3>1. /\ {c \in Callers : call[c] # None} = {}
          /\ {c \in Callers : call[c] = Sent} = {}
          /\ {w \in Stages : at[w] \in {"work"}} = {}
          /\ {w \in BundleWorkers : at[w] \in {"stats", "lock"}} = {}
      BY DEF Tasks, Stages
    <3>2. QED
      BY <3>1, FS_EmptySet DEF Calling, Uncounted, Working, Deciding, Holding
  <2>2. \A c \in Channels : Queued(c) = 0
    BY DEF Queued
  <2>3. Refused = 0 /\ Waiting = 0 /\ Queued("output") = 0
    BY <2>2 DEF Refused, Waiting, Channels
  <2>4. QED
    BY <2>1, <2>3 DEF Books
<1>4. LateOnce
  BY DEF LateOnce
<1>5. QED
  BY <1>1, <1>2, <1>3, <1>4, TypeInit DEF PathInv

\* Every step of the workers, the callers, the runtime and the manager keeps
\* the invariant (decision_path.rs, decision_path_manager.rs).
THEOREM PathInvariant == Spec => []PathInv
<1>1. PathInv /\ [Next]_vars => PathInv'
  BY TypeStep, HandsStep, BoundedStep, BooksStep, LateStep DEF PathInv
<1>2. QED
  BY PathInit, <1>1, PTL DEF Spec

\* A transaction is in one place within the bounds of the channels, and the
\* counters of the manager's report account for every one that came and went.
THEOREM Balanced == Spec => []BooksBalance
<1>1. PathInv => TypeOK
  BY DecisionPathConstants
     DEF DecisionPathConstants, PathInv, TypeInv, HandsMatch, Bounded, TypeOK,
         Places, Flags
<1>2. PathInv => Accounted
  <2> SUFFICES ASSUME PathInv PROVE Accounted
    OBVIOUS
  <2>1. /\ dropped["filter"] \in Nat /\ dropped["simulation"] \in Nat
        /\ dropped["bundle"] \in Nat /\ filtered_out \in Nat
        /\ transactions_processed \in Nat
    BY DEF PathInv, TypeInv, Channels
  <2>2. /\ Queued("filter") \in Nat /\ Queued("simulation") \in Nat
        /\ Queued("bundle") \in Nat
    BY Lengths DEF PathInv, Channels
  <2>3. Working \in Nat /\ Deciding \in Nat
    BY FiniteWorkers, FS_Subset, FS_CardinalityType
       DEF Working, Deciding, Holding
  <2>4. decision_tx_count + Uncounted =
          dropped["filter"] + dropped["simulation"] + dropped["bundle"]
          + filtered_out + transactions_processed
          + Queued("filter") + Queued("simulation") + Queued("bundle")
          + Working + Deciding
    BY <2>1, <2>2, <2>3 DEF PathInv, Books, Refused, Waiting
  <2>5. QED
    BY <2>4 DEF PathInv, Books, Accounted, Queued, Working, Deciding
<1>3. QED
  BY <1>1, <1>2, PathInvariant, PTL DEF BooksBalance

\* After the shutdown flag is set a task takes at most the one item that it
\* was already waiting for.
THEOREM OneLate == Spec => []AtMostOneLate
<1>1. PathInv => AtMostOneLate
  BY DEF PathInv, LateOnce, AtMostOneLate
<1>2. QED
  BY <1>1, PathInvariant, PTL

-----------------------------------------------------------------------------
(* Each transaction is in one place, which makes the pipeline an           *)
(* implementation of module Pipeline.                                      *)

Items(c) == Range(queue[c])
Held == {hand[w] : w \in Stages} \ {None}
Distinct(s) == \A i, j \in 1..Len(s) : s[i] = s[j] => i = j

\* Sending on a channel adds the item, wherever it comes from.
LEMMA AppendRange ==
  ASSUME NEW T, NEW s \in Seq(T), NEW t \in T
  PROVE  /\ Range(Append(s, t)) = Range(s) \cup {t}
         /\ Distinct(s) /\ t \notin Range(s) => Distinct(Append(s, t))
<1> DEFINE a == Append(s, t)
<1>1. /\ Len(a) = Len(s) + 1 /\ Len(s) \in Nat
      /\ \A i \in 1..Len(s) : a[i] = s[i]
      /\ a[Len(s) + 1] = t
      /\ DOMAIN a = 1..Len(s) + 1 /\ DOMAIN s = 1..Len(s)
  OBVIOUS
<1> HIDE DEF a
<1>2. Range(a) = Range(s) \cup {t}
  <2>1. ASSUME NEW x \in Range(a) PROVE x \in Range(s) \cup {t}
    BY <1>1 DEF Range
  <2>2. ASSUME NEW x \in Range(s) \cup {t} PROVE x \in Range(a)
    BY <1>1 DEF Range
  <2>3. QED
    BY <2>1, <2>2
<1>3. ASSUME Distinct(s), t \notin Range(s) PROVE Distinct(a)
  <2>1. \A i \in 1..Len(s) : s[i] # t
    BY <1>1, <1>3 DEF Range
  <2>2. QED
    BY <1>1, <1>3, <2>1 DEF Distinct
<1>4. QED
  BY <1>2, <1>3 DEF a

\* Receiving takes the first item, and only that one when all are distinct.
LEMMA TailRange ==
  ASSUME NEW T, NEW s \in Seq(T), s # <<>>, Distinct(s)
  PROVE  /\ Head(s) \in Range(s)
         /\ Range(Tail(s)) = Range(s) \ {Head(s)}
         /\ Distinct(Tail(s))
<1> DEFINE b == Tail(s)
<1>1. /\ Len(b) = Len(s) - 1 /\ Len(s) \in Nat \ {0}
      /\ \A i \in 1..Len(b) : b[i] = s[i + 1]
      /\ DOMAIN b = 1..Len(b) /\ DOMAIN s = 1..Len(s)
      /\ Head(s) = s[1]
  OBVIOUS
<1> HIDE DEF b
<1>2. Head(s) \in Range(s)
  BY <1>1 DEF Range
<1>3. ASSUME NEW x \in Range(b) PROVE x \in Range(s) \ {Head(s)}
  BY <1>1 DEF Range, Distinct
<1>4. ASSUME NEW x \in Range(s) \ {Head(s)} PROVE x \in Range(b)
  <2>1. PICK i \in 1..Len(s) : s[i] = x
    BY <1>1 DEF Range
  <2>2. i # 1 /\ i - 1 \in 1..Len(b) /\ b[i - 1] = x
    BY <1>1, <2>1
  <2>3. QED
    BY <1>1, <2>2 DEF Range
<1>5. Distinct(b)
  BY <1>1 DEF Distinct
<1>6. QED
  BY <1>2, <1>3, <1>4, <1>5 DEF b

\* A sequence has no more items than places.
LEMMA RangeBound ==
  ASSUME NEW T, NEW s \in Seq(T)
  PROVE  /\ IsFiniteSet(Range(s)) /\ Cardinality(Range(s)) \in Nat
         /\ Cardinality(Range(s)) <= Len(s)
<1>1. Len(s) \in Nat /\ s \in Surjection(1..Len(s), Range(s))
  BY DEF Surjection, Range
<1>2. IsFiniteSet(1..Len(s)) /\ Cardinality(1..Len(s)) = Len(s)
  BY <1>1, FS_Interval, SMTT(30)
<1>3. QED
  BY <1>1, <1>2, FS_Surjection, FS_CardinalityType

\* Channels, hands and deliveries share no transaction, and what a caller has
\* still to send has not been offered.
OnePlace ==
  /\ \A c \in Channels : Distinct(queue[c])
  /\ \A c, d \in Channels : c # d => Items(c) \cap Items(d) = {}
  /\ \A v, w \in Stages : hand[v] = hand[w] /\ hand[v] # None => v = w
  /\ \A c \in Channels : Items(c) \cap Held = {}
  /\ Inside \cup delivered \subseteq offered
  /\ Inside \cap delivered = {}
  /\ \A c \in Callers : call[c] \notin offered
  /\ \A c, d \in Callers : call[c] = call[d] /\ call[c] \in Txs => c = d

\* What is on the path is in a hand or in a channel.
LEMMA InsideHas ==
  /\ \A x : x \in Inside <=> x \in Held \/ \E c \in Channels : x \in Items(c)
  /\ \A x : x \in Inside' <=>
               x \in Held' \/ \E c \in Channels : x \in Items(c)'
BY DEF Inside, Items, Held

\* Where an item is after it was sent on a channel, ...
LEMMA SentItems ==
  ASSUME TypeInv, OnePlace, NEW c \in Channels, NEW t \in Txs,
         queue' = [queue EXCEPT ![c] = Append(@, t)]
  PROVE  /\ Items(c)' = Items(c) \cup {t}
         /\ \A d \in Channels \ {c} : Items(d)' = Items(d)
         /\ t \notin Items(c) =>
              \A d \in Channels : Distinct(queue'[d])
<1>1. queue[c] \in Seq(Txs) /\ queue'[c] = Append(queue[c], t)
  BY DEF TypeInv
<1>2. \A d \in Channels \ {c} : queue'[d] = queue[d]
  BY DEF TypeInv
<1>3. Items(c)' = Items(c) \cup {t}
  BY <1>1, AppendRange DEF Items
<1>4. t \notin Items(c) => Distinct(queue'[c])
  BY <1>1, AppendRange DEF Items, OnePlace
<1>5. QED
  BY <1>2, <1>3, <1>4 DEF Items, OnePlace

\* ... and after it was taken from one.
LEMMA TakenItems ==
  ASSUME TypeInv, OnePlace, NEW w \in Tasks, Takes(w)
  PROVE  /\ Head(queue[Source(w)]) \in Items(Source(w))
         /\ Items(Source(w))' = Items(Source(w)) \ {Head(queue[Source(w)])}
         /\ \A d \in Channels \ {Source(w)} : Items(d)' = Items(d)
         /\ \A d \in Channels : Distinct(queue'[d])
<1>1. Source(w) \in Channels
  BY Ends
<1>2. /\ queue[Source(w)] \in Seq(Txs) /\ queue[Source(w)] # <<>>
      /\ queue'[Source(w)] = Tail(queue[Source(w)])
      /\ Distinct(queue[Source(w)])
  BY <1>1 DEF TypeInv, Takes, OnePlace
<1>3. \A d \in Channels \ {Source(w)} : queue'[d] = queue[d]
  BY <1>1 DEF TypeInv, Takes
<1>4. /\ Head(queue[Source(w)]) \in Items(Source(w))
      /\ Items(Source(w))' = Items(Source(w)) \ {Head(queue[Source(w)])}
      /\ Distinct(queue'[Source(w)])
  BY <1>2, TailRange DEF Items
<1>5. QED
  BY <1>3, <1>4 DEF Items, OnePlace

\* Nothing moves.
LEMMA SameItems ==
  ASSUME UNCHANGED <<queue, hand>>
  PROVE  /\ \A c \in Channels : Items(c)' = Items(c) /\ queue'[c] = queue[c]
         /\ Held' = Held /\ Inside' = Inside
BY DEF Items, Held, Inside

\* A worker with empty hands takes up an item, or lets go of the one it has.
LEMMA HeldMoves ==
  ASSUME TypeInv, OnePlace, NEW w \in Stages, NEW x \in Txs \cup {None},
         hand' = [hand EXCEPT ![w] = x]
  PROVE  /\ hand[w] = None /\ x # None => Held' = Held \cup {x}
         /\ hand[w] # None /\ x = None => Held' = Held \ {hand[w]}
         /\ hand[w] # None => hand[w] \in Held
<1>1. hand'[w] = x /\ \A v \in Stages \ {w} : hand'[v] = hand[v]
  BY DEF TypeInv
<1>2. ASSUME hand[w] = None, x # None PROVE Held' = Held \cup {x}
  BY <1>1, <1>2 DEF Held
<1>3. ASSUME hand[w] # None, x = None PROVE Held' = Held \ {hand[w]}
  BY <1>1, <1>3 DEF Held, OnePlace
<1>4. QED
  BY <1>2, <1>3 DEF Held

\* What a step may do to the transactions of the pipeline, in the terms of
\* module Pipeline.
Admits(t) ==
  /\ t \in Txs /\ t \notin offered /\ ~Full("filter")
  /\ Inside' = Inside \cup {t}
  /\ offered' = offered \cup {t} /\ delivered' = delivered
Refuses(t) ==
  /\ t \in Txs /\ t \notin offered
  /\ Inside' = Inside
  /\ offered' = offered \cup {t} /\ delivered' = delivered
Delivers(t) ==
  /\ t \in Txs /\ t \in Inside
  /\ Inside' = Inside \ {t}
  /\ offered' = offered /\ delivered' = delivered \cup {t}
Discards(t) ==
  /\ t \in Txs /\ t \in Inside
  /\ Inside' = Inside \ {t}
  /\ offered' = offered /\ delivered' = delivered
Keeps ==
  Inside' = Inside /\ offered' = offered /\ delivered' = delivered

Moves ==
  \/ Keeps
  \/ \E t \in Txs : Admits(t) \/ Refuses(t) \/ Delivers(t) \/ Discards(t)

\* A step that moves no item.
LEMMA QuietStep ==
  ASSUME OnePlace, UNCHANGED <<queue, hand, offered, delivered>>,
         \A c \in Callers : call'[c] \notin offered,
         \A c, d \in Callers : call'[c] = call'[d] /\ call'[c] \in Txs => c = d
  PROVE  OnePlace' /\ Moves
<1>1. OnePlace'
  BY SameItems DEF OnePlace
<1>2. Keeps
  BY SameItems DEF Keeps
<1>3. QED
  BY <1>1, <1>2 DEF Moves

\* process_transaction: the transaction enters the first channel, or is
\* dropped before it.
LEMMA SendMoves ==
  ASSUME TypeInv, OnePlace, NEW c \in Callers, Send(c)
  PROVE  OnePlace' /\ Moves
<1> DEFINE t == call[c]
<1>1. t \in Txs /\ t \notin offered /\ offered' = offered \cup {t}
  BY DEF Send, TypeInv, OnePlace
<1>2. /\ \A d \in Callers : call'[d] \notin offered'
      /\ \A d, e \in Callers : call'[d] = call'[e] /\ call'[d] \in Txs => d = e
  <2>1. /\ call'[c] = Sent /\ \A d \in Callers \ {c} : call'[d] = call[d]
        /\ Sent \notin Txs /\ offered \subseteq Txs
    BY <1>1, DecisionPathConstants DEF DecisionPathConstants, Send, TypeInv
  <2>2. QED
    BY <1>1, <2>1 DEF OnePlace
<1>3. hand' = hand /\ Held' = Held /\ delivered' = delivered
  BY DEF Send, Held
<1> HIDE DEF t
<1>4. CASE UNCHANGED queue
  <2>1. Refuses(t) /\ OnePlace'
    BY <1>1, <1>2, <1>3, <1>4, SameItems DEF Refuses, OnePlace
  <2>2. QED
    BY <1>1, <2>1 DEF Moves
<1>5. CASE /\ ~Full("filter")
           /\ queue' = [queue EXCEPT !["filter"] = Append(@, t)]
  <2>1. t \notin Inside /\ t \notin delivered
    BY <1>1 DEF OnePlace
  <2>2. /\ Items("filter")' = Items("filter") \cup {t}
        /\ \A d \in Channels \ {"filter"} : Items(d)' = Items(d)
        /\ \A d \in Channels : Distinct(queue'[d])
    BY <1>1, <1>5, <2>1, SentItems, InsideHas DEF Channels
  <2>3. Inside' = Inside \cup {t}
    BY <2>2, <1>3, InsideHas DEF Channels
  <2>4. \A d, e \in Channels : d # e => Items(d)' \cap Items(e)' = {}
    BY <2>1, <2>2, InsideHas DEF OnePlace
  <2>5. \A d \in Channels : Items(d)' \cap Held' = {}
    BY <1>3, <2>1, <2>2, InsideHas DEF OnePlace
  <2>6. OnePlace'
    BY <1>1, <1>2, <1>3, <2>1, <2>2, <2>3, <2>4, <2>5 DEF OnePlace
  <2>7. Admits(t)
    BY <1>1, <1>3, <1>5, <2>3 DEF Admits
  <2>8. QED
    BY <1>1, <2>6, <2>7 DEF Moves
<1>6. QED
  BY <1>4, <1>5 DEF Send, t

\* A stage worker takes an item from its channel into its hand.
LEMMA RecvItemMoves ==
  ASSUME TypeInv, HandsMatch, OnePlace, NEW w \in Tasks, RecvItem(w)
  PROVE  OnePlace' /\ Moves
<1> DEFINE c == Source(w)
           t == Head(queue[c])
<1>1. c \in Channels /\ w \in Stages /\ t \in Txs /\ t # None
  BY Ends, TakenIsTx, DecisionPathConstants
     DEF DecisionPathConstants, RecvItem, Takes
<1>2. hand[w] = None /\ hand' = [hand EXCEPT ![w] = t]
  BY <1>1 DEF RecvItem, Takes, HandsMatch
<1>3. /\ t \in Items(c) /\ Items(c)' = Items(c) \ {t}
      /\ \A d \in Channels \ {c} : Items(d)' = Items(d)
      /\ \A d \in Channels : Distinct(queue'[d])
  BY TakenItems DEF RecvItem
<1>4. UNCHANGED <<offered, delivered, call>>
  BY DEF RecvItem, Takes
<1> HIDE DEF c, t
<1>5. Held' = Held \cup {t} /\ t \notin Held
  BY <1>1, <1>2, <1>3, HeldMoves DEF OnePlace
<1>6. Inside' = Inside
  <2>1. ASSUME NEW x \in Inside' PROVE x \in Inside
    BY <1>1, <1>3, <1>5, <2>1, InsideHas
  <2>2. ASSUME NEW x \in Inside PROVE x \in Inside'
    <3>1. CASE x = t
      BY <1>5, <3>1, InsideHas
    <3>2. CASE x # t /\ x \in Held
      BY <1>5, <3>2, InsideHas
    <3>3. ASSUME x # t, NEW d \in Channels, x \in Items(d)
          PROVE  x \in Inside'
      BY <1>3, <3>3, InsideHas
    <3>4. QED
      BY <2>2, <3>1, <3>2, <3>3, InsideHas
  <2>3. QED
    BY <2>1, <2>2
<1>7. \A u, v \in Stages : hand'[u] = hand'[v] /\ hand'[u] # None => u = v
  <2>1. \A v \in Stages : hand[v] # t
    BY <1>1, <1>5 DEF Held
  <2>2. hand'[w] = t /\ \A v \in Stages \ {w} : hand'[v] = hand[v]
    BY <1>1, <1>2 DEF TypeInv
  <2>3. QED
    BY <2>1, <2>2 DEF OnePlace
<1>8. \A d, e \in Channels : d # e => Items(d)' \cap Items(e)' = {}
  BY <1>3 DEF OnePlace
<1>9. \A d \in Channels : Items(d)' \cap Held' = {}
  BY <1>1, <1>3, <1>5 DEF OnePlace
<1>10. OnePlace' /\ Keeps
  BY <1>3, <1>4, <1>6, <1>7, <1>8, <1>9 DEF OnePlace, Keeps
<1>11. QED
  BY <1>10 DEF Moves

\* A stage worker lets go of its item, ...
LEMMA LetGo ==
  ASSUME TypeInv, OnePlace, NEW w \in Stages, hand[w] \in Txs,
         hand' = [hand EXCEPT ![w] = None]
  PROVE  /\ Held' = Held \ {hand[w]} /\ hand[w] \in Held
         /\ hand[w] \in Inside /\ hand[w] \in offered
         /\ \A u, v \in Stages :
              hand'[u] = hand'[v] /\ hand'[u] # None => u = v
<1>1. hand[w] # None
  BY DecisionPathConstants DEF DecisionPathConstants
<1>2. Held' = Held \ {hand[w]} /\ hand[w] \in Held
  BY <1>1, HeldMoves
<1>3. hand'[w] = None /\ \A v \in Stages \ {w} : hand'[v] = hand[v]
  BY DEF TypeInv
<1>4. QED
  BY <1>2, <1>3, InsideHas DEF OnePlace

\* ... which is lost, ...
LEMMA DropMoves ==
  ASSUME TypeInv, OnePlace, NEW w \in Stages, hand[w] \in Txs,
         hand' = [hand EXCEPT ![w] = None],
         UNCHANGED <<queue, offered, delivered, call>>
  PROVE  OnePlace' /\ Moves
<1> DEFINE t == hand[w]
<1>1. /\ Held' = Held \ {t} /\ t \in Held /\ t \in Inside /\ t \in offered
      /\ \A u, v \in Stages : hand'[u] = hand'[v] /\ hand'[u] # None => u = v
  BY LetGo
<1>2. \A c \in Channels : Items(c)' = Items(c) /\ queue'[c] = queue[c]
  BY DEF Items
<1> HIDE DEF t
<1>3. Inside' = Inside \ {t}
  BY <1>1, <1>2, InsideHas DEF OnePlace
<1>4. OnePlace'
  BY <1>1, <1>2, <1>3 DEF OnePlace
<1>5. Discards(t)
  BY <1>1, <1>3 DEF Discards, t
<1>6. QED
  BY <1>4, <1>5 DEF Moves, Discards

\* ... or sent on the next channel.
LEMMA HandOnMoves ==
  ASSUME TypeInv, OnePlace, NEW w \in Stages, hand[w] \in Txs,
         hand' = [hand EXCEPT ![w] = None], NEW c \in Channels,
         queue' = [queue EXCEPT ![c] = Append(@, hand[w])],
         UNCHANGED <<offered, delivered, call>>
  PROVE  OnePlace' /\ Moves
<1> DEFINE t == hand[w]
<1>1. /\ Held' = Held \ {t} /\ t \in Held /\ t \in Inside
      /\ \A u, v \in Stages : hand'[u] = hand'[v] /\ hand'[u] # None => u = v
  BY LetGo
<1>2. \A d \in Channels : t \notin Items(d)
  BY <1>1 DEF OnePlace
<1>3. /\ Items(c)' = Items(c) \cup {t}
      /\ \A d \in Channels \ {c} : Items(d)' = Items(d)
      /\ \A d \in Channels : Distinct(queue'[d])
  BY <1>2, SentItems
<1> HIDE DEF t
<1>4. Inside' = Inside
  <2>1. ASSUME NEW x \in Inside' PROVE x \in Inside
    BY <1>1, <1>3, <2>1, InsideHas
  <2>2. ASSUME NEW x \in Inside PROVE x \in Inside'
    <3>1. CASE x = t
      BY <1>3, <3>1, InsideHas
    <3>2. CASE x # t /\ x \in Held
      BY <1>1, <3>2, InsideHas
    <3>3. ASSUME x # t, NEW d \in Channels, x \in Items(d)
          PROVE  x \in Inside'
      BY <1>3, <3>3, InsideHas
    <3>4. QED
      BY <2>2, <3>1, <3>2, <3>3, InsideHas
  <2>3. QED
    BY <2>1, <2>2
<1>5. \A d, e \in Channels : d # e => Items(d)' \cap Items(e)' = {}
  BY <1>2, <1>3 DEF OnePlace
<1>6. \A d \in Channels : Items(d)' \cap Held' = {}
  BY <1>1, <1>2, <1>3 DEF OnePlace
<1>7. OnePlace' /\ Keeps
  BY <1>1, <1>3, <1>4, <1>5, <1>6 DEF OnePlace, Keeps
<1>8. QED
  BY <1>7 DEF Moves

\* A transaction that is passed on is in the next channel, or dropped
\* (try_send).
LEMMA PassOnMoves ==
  ASSUME TypeInv, OnePlace, NEW w \in Stages, hand[w] \in Txs,
         hand' = [hand EXCEPT ![w] = None], PassOn(w),
         UNCHANGED <<offered, delivered, call>>
  PROVE  OnePlace' /\ Moves
<1>1. Target(w) \in Channels
  BY Ends DEF Tasks
<1>2. CASE UNCHANGED queue
  BY <1>2, DropMoves
<1>3. CASE queue' = [queue EXCEPT ![Target(w)] = Append(@, hand[w])]
  BY <1>1, <1>3, HandOnMoves
<1>4. QED
  BY <1>2, <1>3 DEF PassOn

\* The processor takes a decision out of the pipeline.
LEMMA RecvDecisionMoves ==
  ASSUME TypeInv, OnePlace, NEW w \in Tasks, RecvDecision(w)
  PROVE  OnePlace' /\ Moves
<1> DEFINE t == Head(queue["output"])
<1>1. Source(w) = "output" /\ "output" \in Channels
  BY Ends DEF RecvDecision, Channels
<1>2. t \in Txs
  BY <1>1, TakenIsTx DEF RecvDecision, Takes
<1>3. /\ t \in Items("output") /\ Items("output")' = Items("output") \ {t}
      /\ \A d \in Channels \ {"output"} : Items(d)' = Items(d)
      /\ \A d \in Channels : Distinct(queue'[d])
  BY <1>1, TakenItems DEF RecvDecision
<1>4. /\ UNCHANGED <<offered, call, hand>> /\ Held' = Held
      /\ delivered' = delivered \cup {t}
  BY DEF RecvDecision, Takes, Held
<1> HIDE DEF t
<1>5. t \in Inside /\ t \notin Held /\ Inside' = Inside \ {t}
  BY <1>1, <1>3, <1>4, InsideHas DEF OnePlace
<1>6. \A d, e \in Channels : d # e => Items(d)' \cap Items(e)' = {}
  BY <1>1, <1>3 DEF OnePlace
<1>7. \A d \in Channels : Items(d)' \cap Held' = {}
  BY <1>1, <1>3, <1>4 DEF OnePlace
<1>8. OnePlace'
  BY <1>3, <1>4, <1>5, <1>6, <1>7 DEF OnePlace
<1>9. Delivers(t)
  BY <1>2, <1>4, <1>5 DEF Delivers
<1>10. QED
  BY <1>2, <1>8, <1>9 DEF Moves

\* No step of the path copies a transaction.
LEMMA MovesStep ==
  ASSUME TypeInv, HandsMatch, OnePlace, [Next]_vars
  PROVE  OnePlace' /\ Moves
<1>1. ASSUME NEW c \in Callers, NEW t \in Txs, Receive(c, t)
      PROVE  OnePlace' /\ Moves
  <2>1. /\ call'[c] = t /\ \A d \in Callers \ {c} : call'[d] = call[d]
        /\ t \notin offered /\ \A d \in Callers : call[d] # t
        /\ UNCHANGED <<queue, hand, offered, delivered>>
    BY <1>1 DEF Receive, TypeInv, history
  <2>2. QED
    BY <2>1, QuietStep DEF OnePlace
<1>2. ASSUME UNCHANGED <<queue, hand, offered, delivered, call>>
      PROVE  OnePlace' /\ Moves
  BY <1>2, QuietStep DEF OnePlace
<1>3. ASSUME NEW c \in Callers, Send(c) PROVE OnePlace' /\ Moves
  BY <1>3, SendMoves
<1>4. ASSUME NEW c \in Callers, CountSent(c) PROVE OnePlace' /\ Moves
  <2>1. /\ call'[c] = None /\ \A d \in Callers \ {c} : call'[d] = call[d]
        /\ None \notin Txs /\ offered \subseteq Txs
        /\ UNCHANGED <<queue, hand, offered, delivered>>
    BY <1>4, DecisionPathConstants
       DEF DecisionPathConstants, CountSent, TypeInv, history
  <2>2. QED
    BY <2>1, QuietStep DEF OnePlace
<1>5. ASSUME NEW w \in Tasks,
             \/ Schedule(w) \/ CheckShutdown(w) \/ RecvTimeout(w)
             \/ CountDecision(w) \/ ProcessDecision(w) \/ AwaitLock(w)
      PROVE  OnePlace' /\ Moves
  BY <1>2, <1>5 DEF Schedule, CheckShutdown, RecvTimeout, CountDecision,
     ProcessDecision, AwaitLock, history
<1>6. ASSUME NEW w \in Tasks, RecvItem(w) PROVE OnePlace' /\ Moves
  BY <1>6, RecvItemMoves
<1>7. ASSUME NEW w \in Tasks, RecvDecision(w) PROVE OnePlace' /\ Moves
  BY <1>7, RecvDecisionMoves
<1>8. ASSUME NEW w \in Stages, NEW next, Works(w, next)
      PROVE  /\ hand[w] \in Txs /\ hand' = [hand EXCEPT ![w] = None]
             /\ UNCHANGED <<offered, delivered, call>>
  BY <1>8, HeldIsTx DEF Works
<1>9. ASSUME NEW w \in Tasks, Filter(w) PROVE OnePlace' /\ Moves
  BY <1>8, <1>9, PassOnMoves, DropMoves DEF Filter, Stages
<1>10. ASSUME NEW w \in Tasks, Simulate(w) PROVE OnePlace' /\ Moves
  BY <1>8, <1>10, PassOnMoves DEF Simulate, Stages
<1>11. ASSUME NEW w \in Tasks, SendDecision(w) PROVE OnePlace' /\ Moves
  BY <1>8, <1>11, HandOnMoves, DropMoves DEF SendDecision, Stages, Channels
<1>12. CASE Shutdown \/ UNCHANGED vars
  BY <1>2, <1>12 DEF Shutdown, vars, history
<1>13. QED
  BY <1>1, <1>3, <1>5, <1>6, <1>7, <1>9, <1>10, <1>11, <1>12, <1>4,
     StepKinds

-----------------------------------------------------------------------------
(* How many transactions are inside                                        *)

\* The size of a union.
LEMMA UnionBound ==
  ASSUME NEW A, NEW B, IsFiniteSet(A), IsFiniteSet(B)
  PROVE  /\ IsFiniteSet(A \cup B)
         /\ Cardinality(A) \in Nat /\ Cardinality(B) \in Nat
         /\ Cardinality(A \cup B) \in Nat
         /\ Cardinality(A \cup B) <= Cardinality(A) + Cardinality(B)
<1>1. IsFiniteSet(A \cap B) /\ IsFiniteSet(A \cup B)
  BY FS_Union, FS_Subset
<1>2. /\ Cardinality(A) \in Nat /\ Cardinality(B) \in Nat
      /\ Cardinality(A \cup B) \in Nat /\ Cardinality(A \cap B) \in Nat
  BY <1>1, FS_CardinalityType
<1>3. Cardinality(A \cup B)
        = Cardinality(A) + Cardinality(B) - Cardinality(A \cap B)
  BY FS_Union
<1>4. QED
  BY <1>1, <1>2, <1>3

\* Each stage worker holds one item at most.
LEMMA HeldBound ==
  ASSUME TypeInv
  PROVE  /\ IsFiniteSet(Held)
         /\ Cardinality(Held) \in Nat /\ Cardinality(Stages) \in Nat
         /\ Cardinality(Held) <= Cardinality(Stages)
<1> DEFINE T == {hand[w] : w \in Stages}
<1>1. hand \in Surjection(Stages, T)
  BY DEF TypeInv, Surjection
<1>2. IsFiniteSet(T) /\ Cardinality(T) <= Cardinality(Stages)
  BY <1>1, FiniteWorkers, FS_Surjection
<1>3. Held \subseteq T
  BY DEF Held
<1> HIDE DEF T
<1>4. IsFiniteSet(Held) /\ Cardinality(Held) <= Cardinality(T)
  BY <1>2, <1>3, FS_Subset
<1>5. /\ Cardinality(Held) \in Nat /\ Cardinality(T) \in Nat
      /\ Cardinality(Stages) \in Nat
  BY <1>2, <1>4, FiniteWorkers, FS_CardinalityType
<1>6. QED
  BY <1>2, <1>4, <1>5

\* A channel holds as many transactions as it has places at most, and fewer
\* when it is not full (the bounded channels of DecisionPath::new).
LEMMA ItemsBound ==
  ASSUME TypeInv, Bounded, NEW c \in Channels
  PROVE  /\ IsFiniteSet(Items(c)) /\ Cardinality(Items(c)) \in Nat
         /\ Size[c] \in Nat
         /\ Cardinality(Items(c)) <= Size[c]
         /\ ~Full(c) => Cardinality(Items(c)) < Size[c]
<1>1. queue[c] \in Seq(Txs)
  BY DEF TypeInv
<1>2. /\ IsFiniteSet(Items(c)) /\ Cardinality(Items(c)) \in Nat
      /\ Cardinality(Items(c)) <= Len(queue[c])
  BY <1>1, RangeBound DEF Items
<1>3. Size[c] \in Nat
  BY DecisionPathConstants DEF DecisionPathConstants, Size, Channels
<1>4. Len(queue[c]) \in Nat /\ Len(queue[c]) <= Size[c]
  BY <1>1 DEF Bounded
<1>5. QED
  BY <1>2, <1>3, <1>4 DEF Full

\* A transaction is admitted only when there is room for it.
LEMMA RoomLeft ==
  ASSUME TypeInv, Bounded, ~Full("filter")
  PROVE  Cardinality(Inside) <
           filter_input + simulation_input + bundle_input + output
             + Cardinality(Stages)
<1> DEFINE F == Items("filter")
           S == Items("simulation")
           B == Items("bundle")
           O == Items("output")
<1>1. /\ IsFiniteSet(F) /\ IsFiniteSet(S) /\ IsFiniteSet(B) /\ IsFiniteSet(O)
      /\ Cardinality(F) \in Nat /\ Cardinality(S) \in Nat
      /\ Cardinality(B) \in Nat /\ Cardinality(O) \in Nat
      /\ filter_input \in Nat /\ simulation_input \in Nat
      /\ bundle_input \in Nat /\ output \in Nat
      /\ Cardinality(F) < filter_input
      /\ Cardinality(S) <= simulation_input
      /\ Cardinality(B) <= bundle_input
      /\ Cardinality(O) <= output
  BY ItemsBound DEF Channels, Size
<1>2. Inside = (((F \cup S) \cup B) \cup O) \cup Held
  BY InsideHas DEF Channels
<1> HIDE DEF F, S, B, O
<1>3. /\ IsFiniteSet(F \cup S) /\ Cardinality(F \cup S) \in Nat
      /\ Cardinality(F \cup S) <= Cardinality(F) + Cardinality(S)
  BY <1>1, UnionBound
<1>4. /\ IsFiniteSet((F \cup S) \cup B)
      /\ Cardinality((F \cup S) \cup B) \in Nat
      /\ Cardinality((F \cup S) \cup B)
           <= Cardinality(F \cup S) + Cardinality(B)
  BY <1>1, <1>3, UnionBound
<1>5. /\ IsFiniteSet(((F \cup S) \cup B) \cup O)
      /\ Cardinality(((F \cup S) \cup B) \cup O) \in Nat
      /\ Cardinality(((F \cup S) \cup B) \cup O)
           <= Cardinality((F \cup S) \cup B) + Cardinality(O)
  BY <1>1, <1>4, UnionBound
<1>6. /\ Cardinality(Inside) \in Nat
      /\ Cardinality(Inside)
           <= Cardinality(((F \cup S) \cup B) \cup O) + Cardinality(Held)
  BY <1>2, <1>5, HeldBound, UnionBound
<1>7. QED
  BY <1>1, <1>3, <1>4, <1>5, <1>6, HeldBound

-----------------------------------------------------------------------------
(* The pipeline implements its abstract specification                      *)

\* The path starts empty.
LEMMA OnePlaceInit == Init => OnePlace /\ Inside = {}
<1> SUFFICES ASSUME Init PROVE OnePlace /\ Inside = {}
  OBVIOUS
<1>1. \A c \in Channels : queue[c] = <<>> /\ Items(c) = {}
  BY DEF Init, Items, Range
<1>2. Held = {}
  BY DEF Init, Held
<1>3. Inside = {}
  BY <1>1, <1>2, InsideHas
<1>4. \A v \in Stages : hand[v] = None
  BY DEF Init
<1>5. \A c \in Channels : Distinct(queue[c])
  BY <1>1 DEF Distinct
<1>6. offered = {} /\ delivered = {} /\ \A c \in Callers : call[c] = None
  BY DEF Init
<1>7. QED
  BY <1>1, <1>2, <1>3, <1>4, <1>5, <1>6, DecisionPathConstants
     DEF OnePlace, DecisionPathConstants

\* Module Pipeline counts as this one does.
LEMMA SameCount == \A S : Promise!Cardinality(S) = Cardinality(S)
BY DEF Promise!Cardinality, Cardinality

\* Wherever a step moves a transaction, module Pipeline allows it.
LEMMA PromisedStep ==
  ASSUME TypeInv, Bounded, OnePlace, OnePlace', Moves
  PROVE  [Promise!Next]_(Promise!pipeline)
<1> DEFINE lost == offered \ (Inside \cup delivered)
<1>1. /\ Inside \cup delivered \subseteq offered
      /\ Inside' \cup delivered' \subseteq offered'
      /\ Inside \cap delivered = {} /\ Inside' \cap delivered' = {}
  BY DEF OnePlace
<1>2. Promise!Known = offered
  BY <1>1 DEF Promise!Known
<1>3. CASE Keeps
  BY <1>3 DEF Keeps, Promise!pipeline
<1>4. ASSUME NEW t \in Txs, Admits(t) PROVE Promise!Admit(t)
  <2>1. lost' = lost
    BY <1>1, <1>4 DEF Admits
  <2>2. QED
    BY <1>2, <1>4, <2>1, RoomLeft, SameCount DEF Admits, Promise!Admit
<1>5. ASSUME NEW t \in Txs, Refuses(t) PROVE Promise!Refuse(t)
  <2>1. lost' = lost \cup {t}
    BY <1>1, <1>5 DEF Refuses
  <2>2. QED
    BY <1>2, <1>5, <2>1 DEF Refuses, Promise!Refuse
<1>6. ASSUME NEW t \in Txs, Delivers(t) PROVE Promise!Deliver(t)
  <2>1. lost' = lost
    BY <1>1, <1>6 DEF Delivers
  <2>2. QED
    BY <1>6, <2>1 DEF Delivers, Promise!Deliver
<1>7. ASSUME NEW t \in Txs, Discards(t) PROVE Promise!Discard(t)
  <2>1. lost' = lost \cup {t}
    BY <1>1, <1>7 DEF Discards
  <2>2. QED
    BY <1>7, <2>1 DEF Discards, Promise!Discard
<1>8. QED
  BY <1>3, <1>4, <1>5, <1>6, <1>7 DEF Moves, Promise!Next

\* The channels, the workers and the processor together keep the promise of
\* module Pipeline: a transaction enters once, leaves once, as a decision or
\* discarded, is never delivered after it was lost, and no more are inside than
\* the channels and the hands of the workers have places for.
THEOREM PipelineImplemented == Spec => ImplementsPipeline
<1>1. Init => Promise!Init
  BY OnePlaceInit DEF Init, Promise!Init
<1>2. OnePlace /\ PathInv /\ [Next]_vars => OnePlace'
  BY MovesStep DEF PathInv
<1>3. OnePlace /\ PathInv /\ OnePlace' /\ [Next]_vars
        => [Promise!Next]_(Promise!pipeline)
  BY MovesStep, PromisedStep DEF PathInv
<1>4. Init => OnePlace
  BY OnePlaceInit
<1>5. QED
  BY <1>1, <1>2, <1>3, <1>4, PathInvariant, PTL
     DEF Spec, ImplementsPipeline, Promise!Spec
=============================================================================
