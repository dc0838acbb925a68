---------------------------- MODULE StrategyEngine ----------------------------
(***************************************************************************)
(* The strategy engine of mev-strategies: evaluations, bundle plans, the   *)
(* clean-up task and the calls that change the set of strategies run       *)
(* concurrently over maps with a lock each.  A write lock is taken and     *)
(* given back in one step; the read lock of the strategies is held over    *)
(* the awaits of an evaluation.                                            *)
(***************************************************************************)
EXTENDS Integers, FiniteSets, FiniteSetsExt

CONSTANTS
  Strategies, Evaluators, Planners,
  CACHE_SIZE,              \* opportunity_cache_size
  Stamps,                  \* the start of a hash with a millisecond of a second
  LIFETIME,                \* what a strategy adds to the time for the expiry
  MAX_EVALUATIONS, MAX_PLANS, MAX_RESETS, MAX_SECONDS   \* bounds

ASSUME EngineConstants ==
  /\ {CACHE_SIZE, LIFETIME} \subseteq Nat
  /\ {MAX_EVALUATIONS, MAX_PLANS, MAX_RESETS, MAX_SECONDS} \subseteq Nat

VARIABLES
  parallel,                \* enable_parallel_evaluation
  strategies,              \* name -> "absent", "enabled" or "disabled"
  opportunities,           \* set of [id, strategy, expiry]
  bundle_plans,            \* set of [id, deadline]
  transactions_evaluated, opportunities_found, bundles_created,
  average_defined,         \* average_evaluation_time_ms is a number
  evaluation,              \* per evaluator: where it is and what it found
  planning,                \* per planner: where it is and its opportunity
  cleanup,                 \* idle, or the time the clean-up task works with
  second,
  begun, finished,         \* history: evaluations, and those since the last reset
  resets                   \* history: resets so far

engineVars ==
  <<parallel, strategies, opportunities, bundle_plans, transactions_evaluated,
    opportunities_found, bundles_created, average_defined, evaluation, planning,
    cleanup, second, begun, finished, resets>>
tables == <<parallel, strategies, opportunities, bundle_plans>>
counters == <<transactions_evaluated, opportunities_found, bundles_created,
              average_defined>>
ghosts == <<begun, finished, resets>>

NotEvaluating == [at |-> "idle", todo |-> {}, found |-> {}, epoch |-> 0]
NotPlanning == [at |-> "idle"]
NotCleaning == -1

EngineInit ==
  /\ parallel \in BOOLEAN
  /\ strategies = [s \in Strategies |-> "absent"]
  /\ opportunities = {} /\ bundle_plans = {}
  /\ transactions_evaluated = 0 /\ opportunities_found = 0 /\ bundles_created = 0
  /\ average_defined = TRUE
  /\ evaluation = [e \in Evaluators |-> NotEvaluating]
  /\ planning = [p \in Planners |-> NotPlanning]
  /\ cleanup = NotCleaning /\ second = 0 /\ begun = 0 /\ finished = 0 /\ resets = 0

-----------------------------------------------------------------------------

\* The tasks that hold the read lock of the strategies.
Reading ==
  {e \in Evaluators : evaluation[e].at \in {"strategies", "stats"}}
    \cup {p \in Planners : planning[p].at \in {"store", "count"}}

\* register_strategy and unregister_strategy; a strategy is replaced by one of
\* the same name.
SetStrategy(s, how) ==
  /\ Reading = {}
  /\ how = "absent" => strategies[s] # "absent"
  /\ strategies' = [strategies EXCEPT ![s] = how]
  /\ UNCHANGED <<parallel, opportunities, bundle_plans, counters, evaluation,
                 planning, second, ghosts, cleanup>>

\* evaluate_transaction counts first ...
BeginEvaluation(e) ==
  /\ evaluation[e].at = "idle" /\ begun < MAX_EVALUATIONS
  /\ transactions_evaluated' = transactions_evaluated + 1
  /\ evaluation' = [evaluation EXCEPT
       ![e] = [NotEvaluating EXCEPT !.at = "lock", !.epoch = resets]]
  /\ begun' = begun + 1
  /\ UNCHANGED <<tables, opportunities_found, bundles_created, average_defined,
                 planning, second, finished, resets, cleanup>>

\* ... then takes the read lock, and returns when no strategy is enabled.
LockStrategies(e) ==
  LET enabledOnes == {s \in Strategies : strategies[s] = "enabled"} IN
  /\ evaluation[e].at = "lock"
  /\ evaluation' = [evaluation EXCEPT
       ![e] = IF enabledOnes = {} THEN NotEvaluating
              ELSE [@ EXCEPT !.at = "strategies", !.todo = enabledOnes]]
  /\ UNCHANGED <<tables, counters, planning, second, ghosts, cleanup>>

\* One strategy after the other, in the order of the hash map.  A timeout, an
\* error and NoOpportunity look alike.  The spawned tasks of the parallel mode
\* do not call the strategy and find nothing.  The id has the strategy, the
\* transaction and the time (generate_opportunity_id).
EvaluateOne(e, s) ==
  /\ evaluation[e].at = "strategies" /\ s \in evaluation[e].todo
  /\ \/ evaluation' = [evaluation EXCEPT ![e].todo = @ \ {s}]
     \/ /\ ~parallel
        /\ \E stamp \in Stamps :
             evaluation' = [evaluation EXCEPT
               ![e].todo = @ \ {s},
               ![e].found = @ \cup {[id |-> <<s, stamp, second>>, strategy |-> s,
                                     expiry |-> second + LIFETIME]}]
  /\ UNCHANGED <<tables, counters, planning, second, ghosts, cleanup>>

\* cache_opportunities: insert, drop the expired ones, then any excess.
Cached(new, kept) ==
  LET all == {o \in {q \in opportunities : \A n \in new : n.id # q.id} \cup new :
                o.expiry > second}
      excess == Max({0, Cardinality(all) - CACHE_SIZE})
  IN kept \in {all \ gone : gone \in kSubset(excess, all)}

CacheOpportunities(e) ==
  /\ evaluation[e].at = "strategies" /\ evaluation[e].todo = {}
  /\ \E kept \in SUBSET (opportunities \cup evaluation[e].found) :
       Cached(evaluation[e].found, kept) /\ opportunities' = kept
  /\ evaluation' = [evaluation EXCEPT ![e].at = "stats"]
  /\ UNCHANGED <<parallel, strategies, bundle_plans, counters, planning, second,
                 ghosts, cleanup>>

\* The average divides by the number of evaluated transactions.
FinishEvaluation(e) ==
  LET count == Cardinality(evaluation[e].found) IN
  /\ evaluation[e].at = "stats"
  /\ opportunities_found' = opportunities_found + count
  /\ average_defined' = (transactions_evaluated > 0)
  /\ evaluation' = [evaluation EXCEPT ![e] = NotEvaluating]
  /\ finished' = IF evaluation[e].epoch = resets THEN finished + 1 ELSE finished
  /\ UNCHANGED <<tables, transactions_evaluated, bundles_created, planning, second,
                 begun, resets, cleanup>>

-----------------------------------------------------------------------------
\* create_bundle_plan reads the opportunity and checks that it has not expired.
FindOpportunity(p, o) ==
  /\ planning[p].at = "idle" /\ bundles_created < MAX_PLANS
  /\ o \in opportunities /\ second < o.expiry
  /\ planning' = [planning EXCEPT ![p] = [at |-> "lock", opp |-> o]]
  /\ UNCHANGED <<tables, counters, evaluation, second, ghosts, cleanup>>

\* Then it asks the strategy, which may be gone or fail.
AskStrategy(p) ==
  /\ planning[p].at = "lock"
  /\ \/ planning' = [planning EXCEPT ![p] = NotPlanning]
     \/ strategies[planning[p].opp.strategy] # "absent"
        /\ planning' = [planning EXCEPT ![p].at = "store"]
  /\ UNCHANGED <<tables, counters, evaluation, second, ghosts, cleanup>>

StorePlan(p) ==
  LET o == planning[p].opp IN
  /\ planning[p].at = "store"
  /\ bundle_plans' = {b \in bundle_plans : b.id # o.id}
                       \cup {[id |-> o.id, deadline |-> o.expiry]}
  /\ planning' = [planning EXCEPT ![p].at = "count"]
  /\ UNCHANGED <<parallel, strategies, opportunities, counters, evaluation, second,
                 ghosts, cleanup>>

CountPlan(p) ==
  /\ planning[p].at = "count"
  /\ bundles_created' = bundles_created + 1
  /\ planning' = [planning EXCEPT ![p] = NotPlanning]
  /\ UNCHANGED <<tables, transactions_evaluated, opportunities_found,
                 average_defined, evaluation, second, ghosts, cleanup>>

-----------------------------------------------------------------------------
\* reset_stats; it also resets the statistics of the strategies, which nothing
\* ever records.
ResetStats ==
  /\ resets < MAX_RESETS
  /\ transactions_evaluated' = 0 /\ opportunities_found' = 0
  /\ bundles_created' = 0 /\ average_defined' = TRUE
  /\ finished' = 0 /\ resets' = resets + 1
  /\ UNCHANGED <<tables, evaluation, planning, second, begun, cleanup>>

\* cleanup_expired, called by the clean-up task every 30 s, reads the time and
\* cleans the opportunities ...
CleanupOpportunities ==
  /\ cleanup = NotCleaning
  /\ opportunities' = {o \in opportunities : o.expiry > second}
  /\ cleanup' = second
  /\ UNCHANGED <<parallel, strategies, bundle_plans, counters, evaluation, planning,
                 second, ghosts>>

\* ... then the plans, with the time read before.
CleanupPlans ==
  /\ cleanup # NotCleaning /\ cleanup' = NotCleaning
  /\ bundle_plans' = {b \in bundle_plans : b.deadline > cleanup}
  /\ UNCHANGED <<parallel, strategies, opportunities, counters, evaluation, planning,
                 second, ghosts>>

Second ==
  /\ second < MAX_SECONDS /\ second' = second + 1
  /\ UNCHANGED <<tables, counters, evaluation, planning, ghosts, cleanup>>

EvaluatorStep(e) ==
  \/ BeginEvaluation(e) \/ LockStrategies(e)
  \/ \E s \in Strategies : EvaluateOne(e, s)
  \/ CacheOpportunities(e) \/ FinishEvaluation(e)
PlannerStep(p) ==
  \/ \E o \in opportunities : FindOpportunity(p, o)
  \/ AskStrategy(p) \/ StorePlan(p) \/ CountPlan(p)

EngineNext ==
  \/ \E e \in Evaluators : EvaluatorStep(e)
  \/ \E p \in Planners : PlannerStep(p)
  \/ \E s \in Strategies, how \in {"absent", "enabled", "disabled"} :
       SetStrategy(s, how)
  \/ ResetStats \/ CleanupOpportunities \/ CleanupPlans \/ Second

-----------------------------------------------------------------------------
(* Properties                                                              *)

\* Between any two calls the cache holds at most opportunity_cache_size
\* opportunities, whatever the evaluations in progress add (cache_opportunities
\* cuts it after the insertion, under the same lock).
CacheBounded == Cardinality(opportunities) <= CACHE_SIZE

\* A reset in the middle of an evaluation makes the average a division by zero;
\* it is a number again once an evaluation that began after the reset is done
\* (evaluate_transaction, reset_stats).
AverageRecovers == finished > 0 => average_defined

\* While an evaluation has strategies to ask, or a plan is being stored, the
\* strategies concerned stay registered and enabled: the read lock keeps
\* register_strategy and unregister_strategy waiting.
StrategiesPinned ==
  /\ \A e \in Evaluators : \A s \in evaluation[e].todo : strategies[s] = "enabled"
  /\ \A p \in Planners : planning[p].at \in {"store", "count"}
       => strategies[planning[p].opp.strategy] # "absent"

\* A plan can be stored after its deadline, when its opportunity expired while
\* create_bundle_plan waited; the clean-up task removes every expired plan and
\* opportunity for good.
ExpiredPlansGo ==
  \A id \in Strategies \X Stamps \X (0..MAX_SECONDS) :
    (\E b \in bundle_plans : b.id = id /\ b.deadline <= second)
      ~> (\A b \in bundle_plans : b.id # id)
=============================================================================
