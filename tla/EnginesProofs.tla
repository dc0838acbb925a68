---------------------------- MODULE EnginesProofs ----------------------------
(***************************************************************************)
(* Proofs about the engines and the services around them, for any          *)
(* strategies, tasks, requests and limits.  MCEngines lets one of them act *)
(* in a behaviour; each follows its own specification in it.               *)
(***************************************************************************)
EXTENDS MCEngines, FiniteSetTheorems, SequenceTheorems, TLAPS

-----------------------------------------------------------------------------
(* The configuration of the strategies                                     *)

ConfigSpec == ConfigInit /\ [][ConfigNext]_configVars

\* The listeners have configuration c, or c is the defaults, in force without
\* their knowing since a write that failed.
Known(c) == listener = c \/ (unwritten /\ c = DefaultConfig)

\* While a reload is under way the listeners have what was in force before it,
\* which is what it will compare with.
ConfigInv ==
  /\ manager # "compare" => Known(config_file)
  /\ watched /\ manager # "idle" => Known(old_config)

\* Wherever an editor comes in between, a reload that fails leaves the listeners
\* with the configuration in force, except one whose write of the defaults
\* failed (hot_reload, load_from_file, create_default_config).
THEOREM ConfigInvariant == ConfigSpec => []ConfigInv
<1>1. ConfigInit => ConfigInv
  BY DEF ConfigInit, ConfigInv, Known
<1>2. ConfigInv /\ [ConfigNext]_configVars => ConfigInv'
  <2> SUFFICES ASSUME ConfigInv, [ConfigNext]_configVars PROVE ConfigInv'
    OBVIOUS
  <2> USE DEF ConfigInv, Known
  <2>1. ASSUME NEW content, Edit(content) PROVE ConfigInv'
    BY <2>1 DEF Edit
  <2>2. ASSUME NEW c, UpdateInMemory(c) PROVE ConfigInv'
    BY <2>2 DEF UpdateInMemory
  <2>3. CASE StartLoad \/ SaveToFile \/ StartWatching
    BY <2>3 DEF StartLoad, SaveToFile, WriteFails, StartWatching
  <2>4. CASE HotReload \/ CheckExists
    BY <2>4 DEF HotReload, CheckExists
  <2>5. CASE CreateDefault \/ ReadAndParse
    BY <2>5 DEF CreateDefault, ReadAndParse
  <2>6. CASE Compare
    BY <2>6 DEF Compare, Tell
  <2>7. CASE UNCHANGED configVars
    BY <2>7 DEF configVars
  <2>8. QED
    BY <2>1, <2>2, <2>3, <2>4, <2>5, <2>6, <2>7 DEF ConfigNext, ManagerStep
<1>3. QED
  BY <1>1, <1>2, PTL DEF ConfigSpec

\* A watcher's reload puts the defaults in force when it read or wrote them on
\* disk, or when it found no file and the write failed: never because the file
\* could not be read or parsed (load_from_file, create_default_config).
THEOREM DefaultsAreNotSilent == ConfigSpec => NoSilentDefaults
<1> DEFINE Found == \/ config_on_disk' = DefaultConfig
                   \/ /\ manager = "create" /\ unwritten'
                      /\ config_on_disk' \in {config_on_disk, Partial}
<1>1. ASSUME ConfigNext, watched, config_file' = DefaultConfig,
             config_file # DefaultConfig
      PROVE  Found
  BY <1>1 DEF ConfigNext, ManagerStep, Edit, StartLoad, SaveToFile, WriteFails,
    StartWatching, UpdateInMemory, HotReload, CheckExists, CreateDefault,
    ReadAndParse, Compare, Tell
<1>2. [ConfigNext]_configVars =>
        [watched /\ config_file' = DefaultConfig /\ config_file # DefaultConfig
           => \/ config_on_disk' = DefaultConfig
              \/ /\ manager = "create" /\ unwritten'
                 /\ config_on_disk' \in {config_on_disk, Partial}]_configVars
  BY <1>1 DEF configVars
<1>3. QED
  BY <1>2, PTL DEF ConfigSpec, NoSilentDefaults

\* In every behaviour the configuration manager takes its own steps, or none.
LEMMA ConfigPart == Spec => ConfigSpec
<1>1. Init => ConfigInit
  BY DEF Init
<1>2. [Next]_vars => [ConfigNext]_configVars
  BY DEF Next, vars, Engine, Config, Health, Simulator, Optimizer,
         Client, Latency, configVars
<1>3. QED
  BY <1>1, <1>2, PTL DEF Spec, ConfigSpec

-----------------------------------------------------------------------------
(* The strategy engine                                                     *)

EngineSpec == EngineInit /\ [][EngineNext]_engineVars

Opportunities == [id : Strategies \X Stamps \X Nat, strategy : Strategies,
                  expiry : Nat]
Evaluations == [at : {"idle", "lock", "strategies", "stats"},
                todo : SUBSET Strategies, found : SUBSET Opportunities,
                epoch : Nat]
Plannings == {NotPlanning} \cup
             [at : {"lock", "store", "count"}, opp : Opportunities]

EngineTypes ==
  /\ strategies \in [Strategies -> {"absent", "enabled", "disabled"}]
  /\ opportunities \subseteq Opportunities
  /\ transactions_evaluated \in Nat /\ second \in Nat
  /\ finished \in Nat /\ resets \in Nat
  /\ evaluation \in [Evaluators -> Evaluations]
  /\ planning \in [Planners -> Plannings]

CacheFinite ==
  /\ IsFiniteSet(opportunities) /\ CacheBounded
  /\ \A e \in Evaluators : IsFiniteSet(evaluation[e].found)

\* What was begun since the last reset is counted, so the division of the one
\* who ends is defined.
Averages ==
  /\ AverageRecovers
  /\ finished > 0 => transactions_evaluated > 0
  /\ \A e \in Evaluators :
       /\ evaluation[e].epoch <= resets
       /\ evaluation[e].at # "idle" /\ evaluation[e].epoch = resets
            => transactions_evaluated > 0

\* Only under the read lock are there strategies to ask.
Pinned ==
  /\ StrategiesPinned
  /\ \A e \in Evaluators :
       evaluation[e].at # "strategies" => evaluation[e].todo = {}

EngineInv == EngineTypes /\ CacheFinite /\ Averages /\ Pinned

\* The constants, as the provers use them.
LEMMA EngineValues == CACHE_SIZE \in Nat /\ LIFETIME \in Nat
  BY EngineConstants

\* A new engine has no strategy and nothing under way.
LEMMA EngineInitially == EngineInit => EngineInv
<1> SUFFICES ASSUME EngineInit PROVE EngineInv
  OBVIOUS
<1> USE DEF EngineInit
<1>1. NotEvaluating \in Evaluations /\ NotPlanning \in Plannings
  BY DEF NotEvaluating, Evaluations, Plannings
<1>2. EngineTypes
  BY <1>1 DEF EngineTypes
<1>3. CacheFinite
  <2>1. IsFiniteSet({}) /\ Cardinality({}) = 0
    BY FS_EmptySet
  <2>2. \A e \in Evaluators : evaluation[e].found = {}
    BY DEF NotEvaluating
  <2>3. CacheBounded
    BY <2>1, EngineValues DEF CacheBounded
  <2>4. QED
    BY <2>1, <2>2, <2>3 DEF CacheFinite
<1>4. Averages
  BY DEF Averages, AverageRecovers, NotEvaluating
<1>5. Pinned
  BY DEF Pinned, StrategiesPinned, NotEvaluating, NotPlanning
<1>6. QED
  BY <1>2, <1>3, <1>4, <1>5 DEF EngineInv

\* What is left of the cache after the excess is dropped fits.
LEMMA CutFits ==
  ASSUME NEW all, IsFiniteSet(all), NEW gone \in SUBSET all,
         Cardinality(gone) = Max({0, Cardinality(all) - CACHE_SIZE})
  PROVE  IsFiniteSet(all \ gone) /\ Cardinality(all \ gone) <= CACHE_SIZE
<1>1. /\ IsFiniteSet(gone) /\ IsFiniteSet(all \ gone)
      /\ Cardinality(all) \in Nat /\ Cardinality(gone) \in Nat
  BY FS_Subset, FS_CardinalityType, FS_Difference
<1>2. Cardinality(all \ gone) = Cardinality(all) - Cardinality(gone)
  <2>1. all \cap gone = gone
    OBVIOUS
  <2>2. QED
    BY <2>1, FS_Difference
<1>3. PICK n \in Int : n = Cardinality(all) - CACHE_SIZE
  BY <1>1, EngineValues
<1>4. Max({0, n}) >= n
  <2>1. CASE n >= 0
    <3>1. n \in {0, n} /\ \A y \in {0, n} : n >= y
      BY <2>1
    <3>2. \A y \in {0, n} : Max({0, n}) >= y
      BY <3>1 DEF Max
    <3>3. QED
      BY <3>2
  <2>2. CASE n < 0
    <3>1. 0 \in {0, n} /\ \A y \in {0, n} : 0 >= y
      BY <2>2
    <3>2. \A y \in {0, n} : Max({0, n}) >= y
      BY <3>1 DEF Max
    <3>3. QED
      BY <3>2
  <2>3. QED
    BY <2>1, <2>2
<1>5. Cardinality(gone) >= n
  BY <1>3, <1>4
<1>6. QED
  BY <1>1, <1>2, <1>3, <1>5, EngineValues

\* A step of an evaluator that touches neither the counters, nor the cache,
\* nor the strategies: it keeps its epoch or ends, finds finitely many and asks
\* enabled strategies only.
LEMMA EvaluatorMoves ==
  ASSUME EngineInv, NEW e \in Evaluators, NEW new \in Evaluations,
         evaluation' = [evaluation EXCEPT ![e] = new],
         IsFiniteSet(new.found),
         new.epoch <= resets,
         new.at # "idle" =>
           new.epoch = evaluation[e].epoch /\ evaluation[e].at # "idle",
         new.at # "strategies" => new.todo = {},
         \A s \in new.todo : strategies[s] = "enabled",
         UNCHANGED <<tables, counters, planning, second, ghosts>>
  PROVE  EngineInv'
<1>1. /\ \A x \in Evaluators : x # e => evaluation'[x] = evaluation[x]
      /\ evaluation'[e] = new
      /\ evaluation' \in [Evaluators -> Evaluations]
  BY DEF EngineInv, EngineTypes
<1>2. EngineTypes'
  BY <1>1 DEF EngineInv, EngineTypes, tables, counters, ghosts
<1>3. CacheFinite'
  BY <1>1 DEF EngineInv, CacheFinite, CacheBounded, tables
<1>4. Averages'
  BY <1>1 DEF EngineInv, Averages, AverageRecovers, counters, ghosts
<1>5. Pinned'
  BY <1>1 DEF EngineInv, Pinned, StrategiesPinned, tables
<1>6. QED
  BY <1>2, <1>3, <1>4, <1>5 DEF EngineInv

\* A step of a planner: a plan is stored only for a strategy that is there.
LEMMA PlannerMoves ==
  ASSUME EngineInv, NEW p \in Planners, NEW new \in Plannings,
         planning' = [planning EXCEPT ![p] = new],
         new.at \in {"store", "count"} =>
           strategies[new.opp.strategy] # "absent",
         UNCHANGED <<strategies, opportunities, transactions_evaluated,
                     average_defined, evaluation, second, ghosts>>
  PROVE  EngineInv'
<1>1. /\ \A x \in Planners : x # p => planning'[x] = planning[x]
      /\ planning'[p] = new
      /\ planning' \in [Planners -> Plannings]
  BY DEF EngineInv, EngineTypes
<1>2. EngineTypes'
  BY <1>1 DEF EngineInv, EngineTypes, ghosts
<1>3. CacheFinite'
  BY DEF EngineInv, CacheFinite, CacheBounded
<1>4. Averages'
  BY DEF EngineInv, Averages, AverageRecovers, ghosts
<1>5. Pinned'
  BY <1>1 DEF EngineInv, Pinned, StrategiesPinned
<1>6. QED
  BY <1>2, <1>3, <1>4, <1>5 DEF EngineInv

\* evaluate_transaction counts before it does anything else.
LEMMA BeginEvaluationKeeps ==
  ASSUME EngineInv, NEW e \in Evaluators, BeginEvaluation(e) PROVE EngineInv'
<1> DEFINE new == [NotEvaluating EXCEPT !.at = "lock", !.epoch = resets]
<1>1. /\ evaluation' = [evaluation EXCEPT ![e] = new]
      /\ transactions_evaluated' = transactions_evaluated + 1
      /\ UNCHANGED <<tables, average_defined, planning, second, finished,
                     resets>>
  BY DEF BeginEvaluation
<1>2. /\ new \in Evaluations /\ new.todo = {} /\ new.found = {}
      /\ new.epoch = resets /\ new.at = "lock"
  BY DEF EngineInv, EngineTypes, NotEvaluating, Evaluations
<1> HIDE DEF new
<1>3. /\ \A x \in Evaluators : x # e => evaluation'[x] = evaluation[x]
      /\ evaluation'[e] = new
      /\ evaluation' \in [Evaluators -> Evaluations]
  BY <1>1, <1>2 DEF EngineInv, EngineTypes
<1>4. transactions_evaluated' \in Nat /\ transactions_evaluated' > 0
      /\ resets \in Nat
  BY <1>1 DEF EngineInv, EngineTypes
<1>5. EngineTypes'
  BY <1>1, <1>3, <1>4 DEF EngineInv, EngineTypes, tables
<1>6. CacheFinite'
  BY <1>1, <1>2, <1>3, FS_EmptySet DEF EngineInv, CacheFinite, CacheBounded,
    tables
<1>7. Averages'
  BY <1>1, <1>2, <1>3, <1>4 DEF EngineInv, Averages, AverageRecovers
<1>8. Pinned'
  BY <1>1, <1>2, <1>3 DEF EngineInv, Pinned, StrategiesPinned, tables
<1>9. QED
  BY <1>5, <1>6, <1>7, <1>8 DEF EngineInv

\* An evaluation asks the strategies that it found enabled under the lock, one
\* after the other.
LEMMA AskingKeeps ==
  ASSUME EngineInv, NEW e \in Evaluators,
         \/ LockStrategies(e)
         \/ \E s \in Strategies : EvaluateOne(e, s)
  PROVE  EngineInv'
<1>1. /\ evaluation \in [Evaluators -> Evaluations]
      /\ evaluation[e] \in Evaluations
      /\ IsFiniteSet(evaluation[e].found) /\ evaluation[e].epoch <= resets
      /\ resets \in Nat /\ second \in Nat
  BY DEF EngineInv, EngineTypes, CacheFinite, Averages
<1>2. CASE LockStrategies(e)
  <2> DEFINE on == {s \in Strategies : strategies[s] = "enabled"}
             asking == [evaluation[e] EXCEPT !.at = "strategies", !.todo = on]
  <2>1. /\ evaluation[e].at = "lock"
        /\ evaluation' = [evaluation EXCEPT
             ![e] = IF on = {} THEN NotEvaluating ELSE asking]
        /\ UNCHANGED <<tables, counters, planning, second, ghosts>>
    BY <1>2 DEF LockStrategies
  <2>2. CASE on = {}
    <3>1. evaluation' = [evaluation EXCEPT ![e] = NotEvaluating]
      BY <2>1, <2>2
    <3>2. /\ NotEvaluating \in Evaluations /\ NotEvaluating.found = {}
          /\ NotEvaluating.todo = {} /\ NotEvaluating.epoch <= resets
          /\ NotEvaluating.at = "idle"
      BY <1>1 DEF NotEvaluating, Evaluations
    <3>3. PICK new \in Evaluations : new = NotEvaluating
      BY <3>2
    <3>4. /\ evaluation' = [evaluation EXCEPT ![e] = new]
          /\ IsFiniteSet(new.found) /\ new.epoch <= resets
          /\ new.at = "idle" /\ new.todo = {}
      BY <3>1, <3>2, <3>3, FS_EmptySet
    <3>5. QED
      BY <2>1, <3>4, EvaluatorMoves
  <2>3. CASE on # {}
    <3>1. evaluation' = [evaluation EXCEPT ![e] = asking]
      BY <2>1, <2>3
    <3>2. /\ asking \in Evaluations /\ asking.found = evaluation[e].found
          /\ asking.todo = on /\ asking.epoch = evaluation[e].epoch
          /\ asking.at = "strategies"
      BY <1>1 DEF Evaluations
    <3> HIDE DEF asking
    <3>3. QED
      BY <1>1, <2>1, <3>1, <3>2, EvaluatorMoves
  <2>4. QED
    BY <2>2, <2>3
<1>3. ASSUME NEW s \in Strategies, EvaluateOne(e, s) PROVE EngineInv'
  <2> DEFINE opp(stamp) == [id |-> <<s, stamp, second>>, strategy |-> s,
                            expiry |-> second + LIFETIME]
             rest == evaluation[e].todo \ {s}
             asked == [evaluation[e] EXCEPT !.todo = rest]
  <2>1. /\ evaluation[e].at = "strategies"
        /\ UNCHANGED <<tables, counters, planning, second, ghosts>>
        /\ \/ evaluation' = [evaluation EXCEPT ![e] = asked]
           \/ \E stamp \in Stamps : evaluation' = [evaluation EXCEPT
                ![e] = [evaluation[e] EXCEPT
                          !.todo = rest,
                          !.found = evaluation[e].found \cup {opp(stamp)}]]
    BY <1>1, <1>3 DEF EvaluateOne
  <2>2. \A x \in rest : strategies[x] = "enabled"
    BY DEF EngineInv, Pinned, StrategiesPinned
  <2>3. rest \subseteq Strategies
    BY <1>1 DEF Evaluations
  <2>4. \A stamp \in Stamps : opp(stamp) \in Opportunities
    BY <1>1, EngineValues DEF Opportunities
  <2> HIDE DEF opp, rest
  <2>5. CASE evaluation' = [evaluation EXCEPT ![e] = asked]
    <3>1. /\ asked \in Evaluations /\ asked.found = evaluation[e].found
          /\ asked.todo = rest /\ asked.epoch = evaluation[e].epoch
          /\ asked.at = "strategies"
      BY <1>1, <2>1, <2>3 DEF Evaluations
    <3> HIDE DEF asked
    <3>2. QED
      BY <1>1, <2>1, <2>2, <2>5, <3>1, EvaluatorMoves
  <2>6. ASSUME NEW stamp \in Stamps,
               evaluation' = [evaluation EXCEPT
                 ![e] = [evaluation[e] EXCEPT
                           !.todo = rest,
                           !.found = evaluation[e].found \cup {opp(stamp)}]]
        PROVE  EngineInv'
    <3> DEFINE more == evaluation[e].found \cup {opp(stamp)}
               hit == [evaluation[e] EXCEPT !.todo = rest, !.found = more]
    <3>1. more \subseteq Opportunities /\ IsFiniteSet(more)
      BY <1>1, <2>4, FS_AddElement DEF Evaluations
    <3>2. evaluation' = [evaluation EXCEPT ![e] = hit]
      BY <2>6
    <3> HIDE DEF more
    <3>3. /\ hit \in Evaluations /\ hit.found = more
          /\ hit.todo = rest /\ hit.epoch = evaluation[e].epoch
          /\ hit.at = "strategies"
      BY <1>1, <2>1, <2>3, <3>1 DEF Evaluations
    <3> HIDE DEF hit
    <3>4. QED
      BY <1>1, <2>1, <2>2, <3>1, <3>2, <3>3, EvaluatorMoves
  <2>7. QED
    BY <2>1, <2>5, <2>6
<1>4. QED
  BY <1>2, <1>3

\* cache_opportunities cuts the cache under the lock that it inserts under.
LEMMA CacheKeeps ==
  ASSUME EngineInv, NEW e \in Evaluators, CacheOpportunities(e)
  PROVE  EngineInv'
<1> DEFINE found == evaluation[e].found
           kept == {q \in opportunities : \A n \in found : n.id # q.id}
           all == {o \in kept \cup found : o.expiry > second}
<1>1. /\ evaluation[e].at = "strategies" /\ evaluation[e].todo = {}
      /\ Cached(found, opportunities')
      /\ evaluation' = [evaluation EXCEPT ![e].at = "stats"]
      /\ UNCHANGED <<strategies, counters, planning, second, ghosts>>
  BY DEF CacheOpportunities
<1>2. /\ evaluation[e] \in Evaluations /\ IsFiniteSet(found)
      /\ IsFiniteSet(opportunities) /\ opportunities \subseteq Opportunities
      /\ found \subseteq Opportunities
  BY DEF EngineInv, EngineTypes, CacheFinite, Evaluations
<1>3. IsFiniteSet(all) /\ all \subseteq Opportunities
  <2>1. IsFiniteSet(opportunities \cup found)
    BY <1>2, FS_Union
  <2>2. all \subseteq opportunities \cup found
    OBVIOUS
  <2>3. QED
    BY <1>2, <2>1, <2>2, FS_Subset
<1>4. PICK gone \in SUBSET all :
        /\ Cardinality(gone) = Max({0, Cardinality(all) - CACHE_SIZE})
        /\ opportunities' = all \ gone
  BY <1>1 DEF Cached, kSubset
<1> HIDE DEF all
<1>5. /\ IsFiniteSet(opportunities') /\ CacheBounded'
      /\ opportunities' \subseteq Opportunities
  <2>1. IsFiniteSet(all \ gone) /\ Cardinality(all \ gone) <= CACHE_SIZE
    BY <1>3, <1>4, CutFits
  <2>2. QED
    BY <1>3, <1>4, <2>1 DEF CacheBounded
<1> DEFINE new == [evaluation[e] EXCEPT !.at = "stats"]
<1>6. /\ new \in Evaluations /\ new.found = found /\ new.todo = {}
      /\ new.epoch = evaluation[e].epoch /\ new.at = "stats"
      /\ evaluation' = [evaluation EXCEPT ![e] = new]
  BY <1>1, <1>2 DEF Evaluations
<1> HIDE DEF new
<1>7. /\ \A x \in Evaluators : x # e => evaluation'[x] = evaluation[x]
      /\ evaluation'[e] = new
      /\ evaluation' \in [Evaluators -> Evaluations]
  BY <1>6 DEF EngineInv, EngineTypes
<1>8. EngineTypes'
  BY <1>1, <1>5, <1>7 DEF EngineInv, EngineTypes, counters, ghosts
<1>9. CacheFinite'
  BY <1>2, <1>5, <1>6, <1>7 DEF EngineInv, CacheFinite
<1>10. Averages'
  BY <1>1, <1>6, <1>7 DEF EngineInv, Averages, AverageRecovers, counters,
    ghosts
<1>11. Pinned'
  BY <1>1, <1>6, <1>7 DEF EngineInv, Pinned, StrategiesPinned
<1>12. QED
  BY <1>8, <1>9, <1>10, <1>11 DEF EngineInv

\* The average of an evaluation that began after the last reset is defined.
LEMMA FinishKeeps ==
  ASSUME EngineInv, NEW e \in Evaluators, FinishEvaluation(e) PROVE EngineInv'
<1>1. /\ evaluation[e].at = "stats"
      /\ average_defined' = (transactions_evaluated > 0)
      /\ evaluation' = [evaluation EXCEPT ![e] = NotEvaluating]
      /\ finished' =
           IF evaluation[e].epoch = resets THEN finished + 1 ELSE finished
      /\ UNCHANGED <<tables, transactions_evaluated, planning, second, resets>>
  BY DEF FinishEvaluation
<1>2. /\ NotEvaluating \in Evaluations /\ NotEvaluating.todo = {}
      /\ NotEvaluating.found = {} /\ NotEvaluating.epoch = 0
      /\ NotEvaluating.at = "idle"
  BY DEF NotEvaluating, Evaluations
<1>3. /\ \A x \in Evaluators : x # e => evaluation'[x] = evaluation[x]
      /\ evaluation'[e] = NotEvaluating
      /\ evaluation' \in [Evaluators -> Evaluations]
  BY <1>1, <1>2 DEF EngineInv, EngineTypes
<1>4. finished' \in Nat /\ resets \in Nat /\ transactions_evaluated \in Nat
  BY <1>1 DEF EngineInv, EngineTypes
<1>5. finished' > 0 => transactions_evaluated > 0
  <2>1. CASE evaluation[e].epoch = resets
    BY <1>1, <2>1 DEF EngineInv, Averages
  <2>2. CASE evaluation[e].epoch # resets
    BY <1>1, <2>2 DEF EngineInv, Averages
  <2>3. QED
    BY <2>1, <2>2
<1>6. EngineTypes'
  BY <1>1, <1>3, <1>4 DEF EngineInv, EngineTypes, tables
<1>7. CacheFinite'
  BY <1>1, <1>2, <1>3, FS_EmptySet DEF EngineInv, CacheFinite, CacheBounded,
    tables
<1>8. Averages'
  <2>1. AverageRecovers'
    BY <1>1, <1>5 DEF AverageRecovers
  <2>2. \A x \in Evaluators :
          /\ evaluation'[x].epoch <= resets
          /\ evaluation'[x].at # "idle" /\ evaluation'[x].epoch = resets
               => transactions_evaluated > 0
    BY <1>2, <1>3, <1>4 DEF EngineInv, Averages
  <2>3. QED
    BY <1>1, <1>5, <2>1, <2>2 DEF Averages
<1>9. Pinned'
  BY <1>1, <1>2, <1>3 DEF EngineInv, Pinned, StrategiesPinned, tables
<1>10. QED
  BY <1>6, <1>7, <1>8, <1>9 DEF EngineInv

\* create_bundle_plan stores a plan only while it holds the read lock.
LEMMA PlannerKeeps ==
  ASSUME EngineInv, NEW p \in Planners, PlannerStep(p) PROVE EngineInv'
<1>1. planning[p] \in Plannings /\ planning \in [Planners -> Plannings]
  BY DEF EngineInv, EngineTypes
<1>2. ASSUME NEW o \in opportunities, FindOpportunity(p, o) PROVE EngineInv'
  <2>1. PICK new \in Plannings : new = [at |-> "lock", opp |-> o]
    BY DEF EngineInv, EngineTypes, Plannings
  <2>2. new.at = "lock" /\ planning' = [planning EXCEPT ![p] = new]
    BY <1>2, <2>1 DEF FindOpportunity
  <2>3. QED
    BY <1>2, <2>2, PlannerMoves DEF FindOpportunity, tables, counters
<1>3. NotPlanning \in Plannings /\ NotPlanning.at = "idle"
  BY DEF NotPlanning, Plannings
<1>4. CASE planning' = [planning EXCEPT ![p] = NotPlanning]
           /\ (AskStrategy(p) \/ CountPlan(p))
  <2>1. PICK new \in Plannings : new = NotPlanning
    BY <1>3
  <2>2. new.at = "idle" /\ planning' = [planning EXCEPT ![p] = new]
    BY <1>3, <1>4, <2>1
  <2>3. UNCHANGED <<strategies, opportunities, transactions_evaluated,
                    average_defined, evaluation, second, ghosts>>
    BY <1>4 DEF AskStrategy, CountPlan, tables, counters
  <2>4. QED
    BY <2>2, <2>3, PlannerMoves
<1>5. ASSUME planning[p].at \in {"lock", "store"}, NEW place,
             place \in {"store", "count"},
             planning' = [planning EXCEPT ![p].at = place],
             strategies[planning[p].opp.strategy] # "absent",
             UNCHANGED <<strategies, opportunities, transactions_evaluated,
                         average_defined, evaluation, second, ghosts>>
      PROVE  EngineInv'
  <2>1. planning[p] \in [at : {"lock", "store", "count"}, opp : Opportunities]
    BY <1>1, <1>5 DEF Plannings, NotPlanning
  <2> DEFINE new == [planning[p] EXCEPT !.at = place]
  <2>2. new \in Plannings /\ new.opp = planning[p].opp /\ new.at = place
    BY <1>5, <2>1 DEF Plannings
  <2>3. planning' = [planning EXCEPT ![p] = new]
    BY <1>5
  <2> HIDE DEF new
  <2>4. QED
    BY <1>5, <2>2, <2>3, PlannerMoves, ZenonT(40)
<1>6. CASE AskStrategy(p)
  <2>1. CASE planning' = [planning EXCEPT ![p] = NotPlanning]
    BY <1>4, <1>6, <2>1
  <2>2. CASE /\ strategies[planning[p].opp.strategy] # "absent"
             /\ planning' = [planning EXCEPT ![p].at = "store"]
    BY <1>5, <1>6, <2>2 DEF AskStrategy, tables, counters
  <2>3. QED
    BY <1>6, <2>1, <2>2 DEF AskStrategy
<1>7. CASE StorePlan(p)
  <2>1. /\ planning[p].at = "store"
        /\ planning' = [planning EXCEPT ![p].at = "count"]
        /\ UNCHANGED <<strategies, opportunities, counters, evaluation, second,
                       ghosts>>
    BY <1>7 DEF StorePlan
  <2>2. strategies[planning[p].opp.strategy] # "absent"
    BY <2>1 DEF EngineInv, Pinned, StrategiesPinned
  <2>3. QED
    BY <1>5, <2>1, <2>2 DEF counters
<1>8. CASE CountPlan(p)
  BY <1>4, <1>8 DEF CountPlan
<1>9. QED
  BY <1>2, <1>6, <1>7, <1>8 DEF PlannerStep

\* Strategies change only while nobody reads them; a reset leaves behind the
\* evaluations that began before it.
LEMMA EngineOthersKeep ==
  ASSUME EngineInv,
         \/ \E s \in Strategies, how \in {"absent", "enabled", "disabled"} :
              SetStrategy(s, how)
         \/ ResetStats \/ CleanupOpportunities \/ CleanupPlans \/ Second
         \/ UNCHANGED engineVars
  PROVE  EngineInv'
<1>1. ASSUME NEW s \in Strategies, NEW how \in {"absent", "enabled", "disabled"},
             SetStrategy(s, how)
      PROVE  EngineInv'
  <2>1. /\ strategies' = [strategies EXCEPT ![s] = how]
        /\ UNCHANGED <<opportunities, counters, evaluation, planning, second,
                       ghosts>>
        /\ Reading = {}
    BY <1>1 DEF SetStrategy
  <2>2. /\ \A e \in Evaluators : evaluation[e].at # "strategies"
        /\ \A p \in Planners : planning[p].at \notin {"store", "count"}
    BY <2>1 DEF Reading
  <2>3. Pinned'
    BY <2>1, <2>2 DEF EngineInv, Pinned, StrategiesPinned
  <2>4. EngineTypes'
    BY <2>1 DEF EngineInv, EngineTypes, counters, ghosts
  <2>5. CacheFinite' /\ Averages'
    BY <2>1 DEF EngineInv, CacheFinite, CacheBounded, Averages,
      AverageRecovers, counters, ghosts
  <2>6. QED
    BY <2>3, <2>4, <2>5 DEF EngineInv
<1>2. CASE ResetStats
  <2>1. /\ transactions_evaluated' = 0 /\ finished' = 0
        /\ resets' = resets + 1
        /\ UNCHANGED <<tables, evaluation, planning, second>>
    BY <1>2 DEF ResetStats
  <2>2. EngineTypes'
    BY <2>1 DEF EngineInv, EngineTypes, tables
  <2>3. \A e \in Evaluators : evaluation[e].epoch \in Nat
    BY DEF EngineInv, EngineTypes, Evaluations
  <2>4. \A e \in Evaluators : evaluation[e].epoch < resets'
    BY <2>1, <2>3 DEF EngineInv, EngineTypes, Averages
  <2>5. \A e \in Evaluators :
          evaluation[e].epoch <= resets' /\ evaluation[e].epoch # resets'
    BY <2>1, <2>3, <2>4 DEF EngineInv, EngineTypes
  <2>6. Averages'
    BY <2>1, <2>5 DEF Averages, AverageRecovers
  <2>7. CacheFinite' /\ Pinned'
    BY <2>1 DEF EngineInv, CacheFinite, CacheBounded, Pinned,
      StrategiesPinned, tables
  <2>8. QED
    BY <2>2, <2>6, <2>7 DEF EngineInv
<1>3. CASE CleanupOpportunities
  <2>1. /\ opportunities' \subseteq opportunities
        /\ UNCHANGED <<strategies, counters, evaluation, planning, second,
                       ghosts>>
    BY <1>3 DEF CleanupOpportunities
  <2>2. IsFiniteSet(opportunities') /\ CacheBounded'
    <3>1. /\ IsFiniteSet(opportunities')
          /\ Cardinality(opportunities') <= Cardinality(opportunities)
      BY <2>1, FS_Subset DEF EngineInv, CacheFinite
    <3>2. /\ Cardinality(opportunities') \in Nat
          /\ Cardinality(opportunities) \in Nat
      BY <3>1, FS_CardinalityType DEF EngineInv, CacheFinite
    <3>3. QED
      BY <3>1, <3>2, EngineValues DEF EngineInv, CacheFinite, CacheBounded
  <2>3. EngineTypes'
    BY <2>1 DEF EngineInv, EngineTypes, counters, ghosts
  <2>4. CacheFinite' /\ Averages' /\ Pinned'
    BY <2>1, <2>2 DEF EngineInv, CacheFinite, Averages,
      AverageRecovers, Pinned, StrategiesPinned, counters, ghosts
  <2>5. QED
    BY <2>3, <2>4 DEF EngineInv
<1>4. CASE CleanupPlans \/ Second \/ UNCHANGED engineVars
  <2>1. /\ UNCHANGED <<strategies, opportunities, counters, evaluation,
                       planning, ghosts>>
        /\ second' = second \/ second' = second + 1
    BY <1>4 DEF CleanupPlans, Second, engineVars, tables, counters, ghosts
  <2>2. EngineTypes'
    BY <2>1 DEF EngineInv, EngineTypes, counters, ghosts
  <2>3. CacheFinite' /\ Averages' /\ Pinned'
    BY <2>1 DEF EngineInv, CacheFinite, CacheBounded, Averages,
      AverageRecovers, Pinned, StrategiesPinned, counters, ghosts
  <2>4. QED
    BY <2>2, <2>3 DEF EngineInv
<1>5. QED
  BY <1>1, <1>2, <1>3, <1>4

\* The cache stays within its size, the average recovers from a reset and the
\* strategies in use stay registered, however evaluations, plans, resets,
\* registrations and the clean-up task overlap (evaluate_transaction,
\* create_bundle_plan, reset_stats, register_strategy).
THEOREM EngineInvariant == EngineSpec => []EngineInv
<1>1. EngineInv /\ [EngineNext]_engineVars => EngineInv'
  BY BeginEvaluationKeeps, AskingKeeps, CacheKeeps, FinishKeeps, PlannerKeeps,
    EngineOthersKeep DEF EngineNext, EvaluatorStep
<1>2. QED
  BY <1>1, EngineInitially, PTL DEF EngineSpec

\* In every behaviour the strategy engine takes its own steps, or none.
LEMMA EnginePart == Spec => EngineSpec
<1>1. Init => EngineInit
  BY DEF Init
<1>2. [Next]_vars => [EngineNext]_engineVars
  BY DEF Next, vars, Engine, Config, Health, Simulator, Optimizer,
         Client, Latency, engineVars
<1>3. QED
  BY <1>1, <1>2, PTL DEF Spec, EngineSpec

\* The cache of opportunities stays within its bound, an average recovers from
\* a reset, a strategy keeps its place while it is asked, and the listeners
\* have the configuration that was published last (evaluate_transaction,
\* reset_stats, register_strategy, hot_reload).
THEOREM StrategiesAreSafe == Spec => []StrategiesSafe
<1>1. EngineInv /\ ConfigInv => StrategiesSafe
  BY DEF EngineInv, CacheFinite, Averages, Pinned, ConfigInv, Known,
         ListenersCurrent, StrategiesSafe
<1>2. QED
  BY <1>1, EnginePart, EngineInvariant, ConfigPart, ConfigInvariant, PTL

-----------------------------------------------------------------------------
(* The health checks                                                       *)

HealthSpec == HealthInit /\ [][HealthNext]_healthVars

Waiters == [task : Tasks, how : {"read", "write"}]
Locks == [readers : SUBSET Tasks, writer : Tasks \cup {None},
          queue : Seq(Waiters)]
TaskPlaces == {"idle", "insert", "result", "names", "next", "check", "store",
               "ready", "both", "health"}
TaskStates ==
  {s \in [at : TaskPlaces, name : Names \cup {None}, todo : SUBSET Names] :
     s.at = "insert" => s.name \in Names}

Queued(lock) == {lock.queue[i].task : i \in 1..Len(lock.queue)}
Holders(lock) == {t \in Tasks : Holds(lock, t)}
WantWrite(lock) ==
  {lock.queue[i].task : i \in {k \in 1..Len(lock.queue) :
                                 lock.queue[k].how = "write"}}

\* A task waits for a lock once, and not while it holds it.
LockOk(lock) ==
  /\ lock \in Locks
  /\ \A i, j \in 1..Len(lock.queue) :
       lock.queue[i].task = lock.queue[j].task => i = j
  /\ Queued(lock) \cap Holders(lock) = {}

\* Where the tasks are that wait for a lock or hold it.
ChecksAsked == {"insert", "names", "check", "both"}
ChecksHeld == ChecksAsked \cup {"result", "store"}
ResultsAsked == {"result", "store", "ready", "health"}
ResultsHeld == ResultsAsked \cup {"both"}

Standing(f) ==
  /\ \A t \in Queued(checks_lock) : f[t].at \in ChecksAsked
  /\ \A t \in Holders(checks_lock) : f[t].at \in ChecksHeld
  /\ \A t \in Queued(results_lock) : f[t].at \in ResultsAsked
  /\ \A t \in Holders(results_lock) : f[t].at \in ResultsHeld

HealthInv ==
  /\ task \in [Tasks -> TaskStates] /\ checks \subseteq Names
  /\ LockOk(checks_lock) /\ LockOk(results_lock)
  /\ Standing(task)
  /\ WantWrite(checks_lock) \subseteq Registrars
  /\ checks_lock.writer \in Registrars \cup {None}

\* The constants, as the provers use them.
LEMMA HealthValues ==
  /\ None \notin Tasks /\ Monitor \in Tasks /\ Monitor \notin Registrars
  /\ Probes \subseteq Tasks /\ Registrars \subseteq Tasks
  /\ Probes \cap Registrars = {} /\ Monitor \notin Probes
  BY HealthConstants DEF None, Tasks, Monitor

\* A request enters the line once.
LEMMA AskOk ==
  ASSUME NEW lock, LockOk(lock), NEW t \in Tasks, NEW how \in {"read", "write"},
         t \notin Queued(lock), t \notin Holders(lock)
  PROVE  /\ LockOk(Ask(lock, t, how))
         /\ Queued(Ask(lock, t, how)) = Queued(lock) \cup {t}
         /\ Holders(Ask(lock, t, how)) = Holders(lock)
         /\ Ask(lock, t, how).writer = lock.writer
         /\ how = "read" => WantWrite(Ask(lock, t, how)) = WantWrite(lock)
         /\ how = "write" =>
              WantWrite(Ask(lock, t, how)) = WantWrite(lock) \cup {t}
<1> DEFINE new == Ask(lock, t, how)
           w == Waiter(t, how)
<1>1. lock \in Locks /\ w \in Waiters /\ w.task = t /\ w.how = how
  BY DEF LockOk, Waiter, Waiters
<1>2. PICK q \in Seq(Waiters) : q = lock.queue
  BY <1>1 DEF Locks
<1>3. /\ new \in Locks /\ new.readers = lock.readers
      /\ new.writer = lock.writer /\ new.queue = Append(q, w)
  BY <1>1, <1>2 DEF Ask, Locks
<1> HIDE DEF w, new
<1>4. PICK r \in Seq(Waiters) : r = new.queue
  BY <1>3 DEF Locks
<1>5. /\ Len(r) = Len(q) + 1 /\ Len(q) \in Nat
      /\ \A i \in 1..Len(q) : r[i] = q[i]
      /\ r[Len(q) + 1] = w
  BY <1>1, <1>2, <1>3, <1>4, AppendProperties, LenProperties
<1>6. Queued(new) = Queued(lock) \cup {t}
  <2>1. Queued(new) = {r[i].task : i \in 1..Len(r)}
    BY <1>4 DEF Queued
  <2>2. Queued(lock) = {q[i].task : i \in 1..Len(q)} /\ w.task = t
    BY <1>1, <1>2 DEF Queued
  <2>3. {r[i].task : i \in 1..Len(r)} = {q[i].task : i \in 1..Len(q)} \cup {w.task}
    BY ONLY <1>5
  <2>4. QED
    BY <2>1, <2>2, <2>3
<1>7. Holders(new) = Holders(lock)
  BY <1>3 DEF Holders, Holds
<1>8. ASSUME NEW i \in 1..Len(r), NEW j \in 1..Len(r), r[i].task = r[j].task
      PROVE  i = j
  <2>1. \A k \in 1..Len(q) : q[k].task # t
    BY <1>2 DEF Queued
  <2>2. CASE i <= Len(q) /\ j <= Len(q)
    BY <1>2, <1>5, <1>8, <2>2 DEF LockOk
  <2>3. CASE i = Len(q) + 1 \/ j = Len(q) + 1
    BY <1>1, <1>5, <1>8, <2>1, <2>3
  <2>4. QED
    BY <1>5, <2>2, <2>3
<1>9. LockOk(new)
  BY <1>3, <1>4, <1>6, <1>7, <1>8 DEF LockOk
<1>10. how = "read" => WantWrite(new) = WantWrite(lock)
  BY <1>1, <1>2, <1>4, <1>5, SMTT(30) DEF WantWrite
<1>11. how = "write" => WantWrite(new) = WantWrite(lock) \cup {t}
  BY <1>1, <1>2, <1>4, <1>5, SMTT(30) DEF WantWrite
<1>12. QED
  BY <1>3, <1>6, <1>7, <1>9, <1>10, <1>11 DEF new

\* The first in the line gets the lock and leaves the line.
LEMMA GrantOk ==
  ASSUME NEW lock, LockOk(lock), Grantable(lock)
  PROVE  /\ LockOk(Grant(lock))
         /\ \E t \in Queued(lock) :
              /\ Holders(Grant(lock)) \subseteq Holders(lock) \cup {t}
              /\ Grant(lock).writer \in {t, None}
              /\ Grant(lock).writer = t => t \in WantWrite(lock)
         /\ Queued(Grant(lock)) \subseteq Queued(lock)
         /\ WantWrite(Grant(lock)) \subseteq WantWrite(lock)
<1> DEFINE new == Grant(lock)
<1>1. lock \in Locks /\ lock.queue # <<>> /\ lock.writer = None
  BY DEF LockOk, Grantable
<1>2. PICK q \in Seq(Waiters) : q = lock.queue
  BY <1>1 DEF Locks
<1>3. /\ Len(q) \in Nat /\ Len(q) > 0 /\ Head(q) = q[1] /\ q[1] \in Waiters
      /\ Tail(q) \in Seq(Waiters) /\ Len(Tail(q)) = Len(q) - 1
      /\ \A i \in 1..Len(q) - 1 : Tail(q)[i] = q[i + 1]
  BY <1>1, <1>2, EmptySeq, HeadTailProperties
<1>4. PICK t \in Tasks : t = q[1].task
  BY <1>3 DEF Waiters
<1>5. /\ new.readers \subseteq lock.readers \cup {t}
      /\ new.writer = IF q[1].how = "write" THEN t ELSE None
      /\ new.queue = Tail(q)
      /\ new \in Locks
  <2>1. lock.readers \subseteq Tasks
    BY <1>1 DEF Locks
  <2>2. new = [readers |-> IF q[1].how = "read" THEN lock.readers \cup {t}
                           ELSE lock.readers,
               writer |-> IF q[1].how = "write" THEN t ELSE None,
               queue |-> Tail(q)]
    BY <1>2, <1>3, <1>4 DEF Grant
  <2>3. QED
    BY <1>3, <2>1, <2>2 DEF Locks
<1> HIDE DEF new
<1>6. PICK r \in Seq(Waiters) : r = new.queue
  BY <1>3, <1>5
<1>7. Len(r) = Len(q) - 1 /\ \A i \in 1..Len(q) - 1 : r[i] = q[i + 1]
  BY <1>3, <1>5, <1>6
<1>8. t \in Queued(lock)
  BY <1>2, <1>3, <1>4 DEF Queued
<1>9. \A i \in 1..Len(r) : r[i].task \in Queued(lock) /\ r[i].task # t
  <2>1. SUFFICES ASSUME NEW i \in 1..Len(r)
                 PROVE  r[i].task \in Queued(lock) /\ r[i].task # t
    OBVIOUS
  <2>2. i + 1 \in 1..Len(q) /\ 1 \in 1..Len(q) /\ i + 1 # 1 /\ r[i] = q[i + 1]
    BY <1>3, <1>7
  <2>3. QED
    BY <1>2, <1>4, <2>2 DEF Queued, LockOk
<1>10. Queued(new) \subseteq Queued(lock) /\ t \notin Queued(new)
  BY <1>6, <1>9 DEF Queued
<1>11. WantWrite(new) \subseteq WantWrite(lock)
  <2>1. SUFFICES ASSUME NEW i \in 1..Len(r), r[i].how = "write"
                 PROVE  r[i].task \in WantWrite(lock)
    BY <1>6 DEF WantWrite
  <2>2. i + 1 \in 1..Len(q) /\ r[i] = q[i + 1]
    BY <1>3, <1>7
  <2>3. QED
    BY <1>2, <2>1, <2>2 DEF WantWrite
<1>12. Holders(new) \subseteq Holders(lock) \cup {t}
  BY <1>1, <1>5, HealthValues DEF Holders, Holds
<1>13. \A i, j \in 1..Len(r) : r[i].task = r[j].task => i = j
  <2>1. SUFFICES ASSUME NEW i \in 1..Len(r), NEW j \in 1..Len(r),
                        r[i].task = r[j].task
                 PROVE  i = j
    OBVIOUS
  <2>2. /\ i + 1 \in 1..Len(q) /\ j + 1 \in 1..Len(q)
        /\ r[i] = q[i + 1] /\ r[j] = q[j + 1]
    BY <1>3, <1>7
  <2>3. i + 1 = j + 1
    BY <1>2, <2>1, <2>2 DEF LockOk
  <2>4. QED
    BY <1>3, <1>7, <2>3
<1>14. LockOk(new)
  BY <1>5, <1>6, <1>10, <1>12, <1>13 DEF LockOk
<1>15. new.writer \in {t, None} /\ (new.writer = t => t \in WantWrite(lock))
  BY <1>2, <1>3, <1>4, <1>5, HealthValues DEF WantWrite
<1>16. QED
  BY <1>8, <1>10, <1>11, <1>12, <1>14, <1>15 DEF new

\* Who gives a lock back does not hold it any more.
LEMMA ReleaseOk ==
  ASSUME NEW lock, LockOk(lock), NEW t \in Tasks
  PROVE  /\ LockOk(Release(lock, t))
         /\ Holders(Release(lock, t)) = Holders(lock) \ {t}
         /\ Queued(Release(lock, t)) = Queued(lock)
         /\ WantWrite(Release(lock, t)) = WantWrite(lock)
         /\ Release(lock, t).writer \in {lock.writer, None}
<1> DEFINE new == Release(lock, t)
<1>1. lock \in Locks
  BY DEF LockOk
<1>2. /\ new \in Locks /\ new.readers = lock.readers \ {t}
      /\ new.writer = IF lock.writer = t THEN None ELSE lock.writer
      /\ new.queue = lock.queue
  BY <1>1 DEF Release, Locks
<1> HIDE DEF new
<1>3. Holders(new) = Holders(lock) \ {t}
  BY <1>2, HealthValues DEF Holders, Holds
<1>4. Queued(new) = Queued(lock) /\ WantWrite(new) = WantWrite(lock)
  BY <1>2 DEF Queued, WantWrite
<1>5. LockOk(new)
  BY <1>2, <1>3, <1>4 DEF LockOk
<1>6. QED
  BY <1>2, <1>3, <1>4, <1>5 DEF new

\* Where a task is once it asks for a lock.
LEMMA NewState ==
  ASSUME NEW place \in TaskPlaces, NEW n \in Names \cup {None},
         place = "insert" => n \in Names
  PROVE  At(place, n) \in TaskStates /\ At(place, n).at = place
  BY DEF At, TaskStates

\* Nobody waits for a lock or holds one at first.
LEMMA HealthInitially == HealthInit => HealthInv
<1> SUFFICES ASSUME HealthInit PROVE HealthInv
  OBVIOUS
<1>1. /\ Free \in Locks /\ Free.queue = <<>> /\ Free.readers = {}
      /\ Free.writer = None
  BY EmptySeq DEF Free, Locks
<1>2. Queued(Free) = {} /\ WantWrite(Free) = {} /\ Holders(Free) = {}
  BY <1>1, HealthValues DEF Queued, WantWrite, Holders, Holds
<1>3. LockOk(Free)
  BY <1>1, <1>2 DEF LockOk
<1>4. At("idle", None) \in TaskStates
  BY DEF At, TaskStates, TaskPlaces
<1>5. checks_lock = Free /\ results_lock = Free /\ checks = {}
      /\ task \in [Tasks -> TaskStates]
  BY <1>4 DEF HealthInit
<1>6. QED
  BY <1>1, <1>2, <1>3, <1>5 DEF HealthInv, Standing

\* Only tasks wait.
LEMMA TasksWait ==
  ASSUME NEW lock, LockOk(lock) PROVE Queued(lock) \subseteq Tasks
<1>1. PICK q \in Seq(Waiters) : q = lock.queue
  BY DEF LockOk, Locks
<1>2. \A i \in 1..Len(q) : q[i] \in Waiters
  BY ElementOfSeq
<1>3. \A i \in 1..Len(q) : q[i].task \in Tasks
  BY <1>2 DEF Waiters
<1>4. QED
  BY <1>1, <1>3 DEF Queued

\* One task moves: for the others nothing changes but that somebody else may
\* leave.
LEMMA TaskMoves ==
  ASSUME HealthInv, NEW t \in Tasks, NEW new \in TaskStates,
         task' = [task EXCEPT ![t] = new],
         checks' \subseteq Names,
         LockOk(checks_lock'), LockOk(results_lock'),
         Queued(checks_lock') \subseteq Queued(checks_lock) \cup {t},
         Holders(checks_lock') \subseteq Holders(checks_lock),
         Queued(results_lock') \subseteq Queued(results_lock) \cup {t},
         Holders(results_lock') \subseteq Holders(results_lock),
         t \in Queued(checks_lock') => new.at \in ChecksAsked,
         t \in Holders(checks_lock') => new.at \in ChecksHeld,
         t \in Queued(results_lock') => new.at \in ResultsAsked,
         t \in Holders(results_lock') => new.at \in ResultsHeld,
         WantWrite(checks_lock') \subseteq Registrars,
         checks_lock'.writer \in Registrars \cup {None}
  PROVE  HealthInv'
<1>1. /\ task' \in [Tasks -> TaskStates] /\ task'[t] = new
      /\ \A u \in Tasks : u # t => task'[u] = task[u]
  BY DEF HealthInv
<1>2. /\ Queued(checks_lock') \subseteq Tasks
      /\ Queued(results_lock') \subseteq Tasks
  BY TasksWait
<1>3. Holders(checks_lock') \subseteq Tasks /\ Holders(results_lock') \subseteq Tasks
  BY DEF Holders
<1>4. \A u \in Queued(checks_lock') : task'[u].at \in ChecksAsked
  BY <1>1, <1>2 DEF HealthInv, Standing
<1>5. \A u \in Holders(checks_lock') : task'[u].at \in ChecksHeld
  BY <1>1, <1>3 DEF HealthInv, Standing
<1>6. \A u \in Queued(results_lock') : task'[u].at \in ResultsAsked
  BY <1>1, <1>2 DEF HealthInv, Standing
<1>7. \A u \in Holders(results_lock') : task'[u].at \in ResultsHeld
  BY <1>1, <1>3 DEF HealthInv, Standing
<1>8. Standing(task)'
  BY <1>4, <1>5, <1>6, <1>7 DEF Standing
<1>9. QED
  BY <1>1, <1>8 DEF HealthInv

\* The locks and the places of the tasks, as the steps use them.
LEMMA HealthFacts ==
  ASSUME HealthInv, NEW t \in Tasks
  PROVE  /\ LockOk(checks_lock) /\ LockOk(results_lock)
         /\ task[t] \in TaskStates
         /\ t \in Queued(checks_lock) => task[t].at \in ChecksAsked
         /\ t \in Holders(checks_lock) => task[t].at \in ChecksHeld
         /\ t \in Queued(results_lock) => task[t].at \in ResultsAsked
         /\ t \in Holders(results_lock) => task[t].at \in ResultsHeld
         /\ Holds(checks_lock, t) =>
              t \in Holders(checks_lock) /\ t \notin Queued(checks_lock)
         /\ Holds(results_lock, t) =>
              t \in Holders(results_lock) /\ t \notin Queued(results_lock)
         /\ WantWrite(checks_lock) \subseteq Registrars
         /\ checks_lock.writer \in Registrars \cup {None}
         /\ checks \subseteq Names
  BY DEF HealthInv, Standing, LockOk, Holders

\* A task that comes to rest, or to a place of its own, has given back what it
\* held.
LEMMA TaskReleases ==
  ASSUME HealthInv, NEW t \in Tasks, NEW new \in TaskStates,
         new.at \in {"idle", "next"},
         task' = [task EXCEPT ![t] = new], checks' \subseteq Names,
         t \notin Queued(checks_lock), t \notin Queued(results_lock),
         \/ checks_lock' = Release(checks_lock, t)
         \/ checks_lock' = checks_lock /\ t \notin Holders(checks_lock),
         \/ results_lock' = Release(results_lock, t)
         \/ results_lock' = results_lock /\ t \notin Holders(results_lock)
  PROVE  HealthInv'
<1>1. /\ LockOk(checks_lock) /\ LockOk(results_lock)
      /\ WantWrite(checks_lock) \subseteq Registrars
      /\ checks_lock.writer \in Registrars \cup {None}
  BY HealthFacts
<1>2. /\ LockOk(checks_lock') /\ Queued(checks_lock') = Queued(checks_lock)
      /\ Holders(checks_lock') = Holders(checks_lock) \ {t}
      /\ WantWrite(checks_lock') = WantWrite(checks_lock)
      /\ checks_lock'.writer \in Registrars \cup {None}
  BY <1>1, ReleaseOk
<1>3. /\ LockOk(results_lock') /\ Queued(results_lock') = Queued(results_lock)
      /\ Holders(results_lock') = Holders(results_lock) \ {t}
  BY <1>1, ReleaseOk
<1>4. QED
  BY <1>1, <1>2, <1>3, TaskMoves

\* A task that asks for the checks.
LEMMA TaskAsksChecks ==
  ASSUME HealthInv, NEW t \in Tasks, NEW new \in TaskStates,
         NEW how \in {"read", "write"}, how = "write" => t \in Registrars,
         new.at \in ChecksAsked,
         t \in Holders(results_lock) => new.at \in ResultsHeld,
         task' = [task EXCEPT ![t] = new], checks' = checks,
         t \notin Queued(checks_lock), t \notin Queued(results_lock),
         t \notin Holders(checks_lock),
         checks_lock' = Ask(checks_lock, t, how), results_lock' = results_lock
  PROVE  HealthInv'
<1>1. /\ LockOk(checks_lock) /\ LockOk(results_lock)
      /\ WantWrite(checks_lock) \subseteq Registrars
      /\ checks_lock.writer \in Registrars \cup {None}
      /\ checks \subseteq Names
  BY HealthFacts
<1>2. /\ LockOk(checks_lock')
      /\ Queued(checks_lock') = Queued(checks_lock) \cup {t}
      /\ Holders(checks_lock') = Holders(checks_lock)
      /\ WantWrite(checks_lock') \subseteq Registrars
      /\ checks_lock'.writer = checks_lock.writer
  BY <1>1, AskOk
<1>3. QED
  BY <1>1, <1>2, TaskMoves

\* A task that asks for the results.
LEMMA TaskAsksResults ==
  ASSUME HealthInv, NEW t \in Tasks, NEW new \in TaskStates,
         NEW how \in {"read", "write"},
         new.at \in ResultsAsked,
         t \in Holders(checks_lock) => new.at \in ChecksHeld,
         task' = [task EXCEPT ![t] = new], checks' \subseteq Names,
         t \notin Queued(checks_lock), t \notin Queued(results_lock),
         t \notin Holders(results_lock),
         results_lock' = Ask(results_lock, t, how), checks_lock' = checks_lock
  PROVE  HealthInv'
<1>1. /\ LockOk(checks_lock) /\ LockOk(results_lock)
      /\ WantWrite(checks_lock) \subseteq Registrars
      /\ checks_lock.writer \in Registrars \cup {None}
  BY HealthFacts
<1>2. /\ LockOk(results_lock')
      /\ Queued(results_lock') = Queued(results_lock) \cup {t}
      /\ Holders(results_lock') = Holders(results_lock)
  BY <1>1, AskOk
<1>3. QED
  BY <1>1, <1>2, TaskMoves

\* The lock goes to the first in line.
LEMMA GrantKeeps ==
  ASSUME HealthInv, GrantChecks \/ GrantResults PROVE HealthInv'
<1>1. LockOk(checks_lock) /\ LockOk(results_lock)
  BY DEF HealthInv
<1>2. CASE GrantChecks
  <2>1. /\ Grantable(checks_lock) /\ checks_lock' = Grant(checks_lock)
        /\ UNCHANGED <<checks, results_lock, task>>
    BY <1>2 DEF GrantChecks
  <2>2. /\ LockOk(checks_lock')
        /\ Queued(checks_lock') \subseteq Queued(checks_lock)
        /\ WantWrite(checks_lock') \subseteq WantWrite(checks_lock)
    BY <1>1, <2>1, GrantOk
  <2>3. PICK t \in Queued(checks_lock) :
          /\ Holders(checks_lock') \subseteq Holders(checks_lock) \cup {t}
          /\ checks_lock'.writer \in {t, None}
          /\ checks_lock'.writer = t => t \in WantWrite(checks_lock)
    BY <1>1, <2>1, GrantOk
  <2>4. task[t].at \in ChecksHeld
    BY DEF HealthInv, Standing, ChecksHeld
  <2>5. Standing(task)'
    BY <2>1, <2>2, <2>3, <2>4 DEF HealthInv, Standing
  <2>6. QED
    BY <2>1, <2>2, <2>3, <2>5 DEF HealthInv
<1>3. CASE GrantResults
  <2>1. /\ Grantable(results_lock) /\ results_lock' = Grant(results_lock)
        /\ UNCHANGED <<checks, checks_lock, task>>
    BY <1>3 DEF GrantResults
  <2>2. /\ LockOk(results_lock')
        /\ Queued(results_lock') \subseteq Queued(results_lock)
    BY <1>1, <2>1, GrantOk
  <2>3. PICK t \in Queued(results_lock) :
          Holders(results_lock') \subseteq Holders(results_lock) \cup {t}
    BY <1>1, <2>1, GrantOk
  <2>4. task[t].at \in ResultsHeld
    BY DEF HealthInv, Standing, ResultsHeld
  <2>5. Standing(task)'
    BY <2>1, <2>2, <2>3, <2>4 DEF HealthInv, Standing
  <2>6. QED
    BY <2>1, <2>2, <2>5 DEF HealthInv
<1>4. QED
  BY <1>2, <1>3

\* register_check holds the checks while it waits for the results.
LEMMA RegistrarKeeps ==
  ASSUME HealthInv, NEW t \in Registrars,
         \/ InsertCheck(t) \/ InsertResult(t)
         \/ \E n \in Names : BeginRegister(t, n)
  PROVE  HealthInv'
<1> USE DEF ChecksAsked, ChecksHeld, ResultsAsked, ResultsHeld
<1>1. t \in Tasks /\ task[t] \in TaskStates
  BY HealthValues, HealthFacts
<1>2. ASSUME NEW n \in Names, BeginRegister(t, n) PROVE HealthInv'
  <2>1. PICK new \in TaskStates : new = At("insert", n) /\ new.at = "insert"
    BY NewState DEF TaskPlaces
  <2>2. /\ task[t].at = "idle" /\ task' = [task EXCEPT ![t] = new]
        /\ checks_lock' = Ask(checks_lock, t, "write")
        /\ checks' = checks /\ results_lock' = results_lock
    BY <1>2, <2>1 DEF BeginRegister
  <2>3. /\ t \notin Queued(checks_lock) /\ t \notin Holders(checks_lock)
        /\ t \notin Queued(results_lock) /\ t \notin Holders(results_lock)
    BY <1>1, <2>2, HealthFacts
  <2>4. QED
    BY <1>1, <2>1, <2>2, <2>3, TaskAsksChecks
<1>3. CASE InsertCheck(t)
  <2> DEFINE new == [task[t] EXCEPT !.at = "result"]
  <2>1. new \in TaskStates /\ new.at = "result"
    BY <1>1 DEF TaskStates, TaskPlaces
  <2>2. /\ task[t].at = "insert" /\ Holds(checks_lock, t)
        /\ task' = [task EXCEPT ![t] = new]
        /\ checks' = checks \cup {task[t].name}
        /\ results_lock' = Ask(results_lock, t, "write")
        /\ checks_lock' = checks_lock
    BY <1>3 DEF InsertCheck
  <2> HIDE DEF new
  <2>3. /\ t \notin Queued(checks_lock)
        /\ t \notin Queued(results_lock) /\ t \notin Holders(results_lock)
    BY <1>1, <2>2, HealthFacts
  <2>4. checks' \subseteq Names
    BY <2>2, <1>1 DEF HealthInv, TaskStates
  <2>5. QED
    BY <1>1, <2>1, <2>2, <2>3, <2>4, TaskAsksResults
<1>4. CASE InsertResult(t)
  <2>1. PICK new \in TaskStates : new = At("idle", None) /\ new.at = "idle"
    BY NewState DEF TaskPlaces
  <2>2. /\ task[t].at = "result" /\ Holds(results_lock, t)
        /\ task' = [task EXCEPT ![t] = new]
        /\ checks_lock' = Release(checks_lock, t)
        /\ results_lock' = Release(results_lock, t) /\ checks' = checks
    BY <1>4, <2>1 DEF InsertResult
  <2>3. /\ t \notin Queued(checks_lock) /\ t \notin Queued(results_lock)
        /\ checks \subseteq Names
    BY <1>1, <2>2, HealthFacts
  <2>4. QED
    BY <1>1, <2>1, <2>2, <2>3, TaskReleases
<1>5. QED
  BY <1>2, <1>3, <1>4

\* The monitor holds the checks while it waits for the results.
LEMMA MonitorKeeps ==
  ASSUME HealthInv, Tick \/ MonitorStep PROVE HealthInv'
<1> USE DEF ChecksAsked, ChecksHeld, ResultsAsked, ResultsHeld
<1>1. PICK t \in Tasks : t = Monitor
  BY HealthValues
<1>2. /\ task[t] \in TaskStates /\ checks \subseteq Names
  BY HealthFacts
<1>3. CASE Tick
  <2>1. PICK new \in TaskStates : new = At("names", None) /\ new.at = "names"
    BY NewState DEF TaskPlaces
  <2>2. /\ task[t].at = "idle" /\ task' = [task EXCEPT ![t] = new]
        /\ checks_lock' = Ask(checks_lock, t, "read")
        /\ checks' = checks /\ results_lock' = results_lock
    BY <1>1, <1>3, <2>1 DEF Tick
  <2>3. /\ t \notin Queued(checks_lock) /\ t \notin Holders(checks_lock)
        /\ t \notin Queued(results_lock) /\ t \notin Holders(results_lock)
    BY <2>2, HealthFacts
  <2>4. QED
    BY <2>1, <2>2, <2>3, TaskAsksChecks
<1>4. CASE ReadNames
  <2> DEFINE new == [At("next", None) EXCEPT !.todo = checks]
  <2>1. new \in TaskStates /\ new.at = "next"
    BY <1>2 DEF At, TaskStates, TaskPlaces
  <2>2. /\ task[t].at = "names" /\ Holds(checks_lock, t)
        /\ task' = [task EXCEPT ![t] = new]
        /\ checks_lock' = Release(checks_lock, t)
        /\ results_lock' = results_lock /\ checks' = checks
    BY <1>1, <1>4 DEF ReadNames
  <2> HIDE DEF new
  <2>3. /\ t \notin Queued(checks_lock) /\ t \notin Queued(results_lock)
        /\ t \notin Holders(results_lock)
    BY <2>2, HealthFacts
  <2>4. QED
    BY <1>2, <2>1, <2>2, <2>3, TaskReleases
<1>5. CASE NextCheck
  <2>1. /\ task[t].at = "next" /\ checks' = checks
        /\ results_lock' = results_lock
    BY <1>1, <1>5 DEF NextCheck
  <2>2. /\ t \notin Queued(checks_lock) /\ t \notin Holders(checks_lock)
        /\ t \notin Queued(results_lock) /\ t \notin Holders(results_lock)
    BY <2>1, HealthFacts
  <2>3. CASE /\ task' = [task EXCEPT ![t] = At("idle", None)]
             /\ UNCHANGED checks_lock
    <3>1. PICK new \in TaskStates : new = At("idle", None) /\ new.at = "idle"
      BY NewState DEF TaskPlaces
    <3>2. task' = [task EXCEPT ![t] = new]
      BY <2>3, <3>1
    <3>3. QED
      BY <1>2, <2>1, <2>2, <2>3, <3>1, <3>2, TaskReleases
  <2>4. ASSUME NEW n \in task[t].todo,
               task' = [task EXCEPT ![t] =
                 [at |-> "check", name |-> n, todo |-> task[t].todo \ {n}]],
               checks_lock' = Ask(checks_lock, t, "read")
        PROVE  HealthInv'
    <3> DEFINE new == [at |-> "check", name |-> n, todo |-> task[t].todo \ {n}]
    <3>1. new \in TaskStates /\ new.at = "check"
      BY <1>2 DEF TaskStates, TaskPlaces
    <3>2. task' = [task EXCEPT ![t] = new]
      BY <2>4
    <3> HIDE DEF new
    <3>3. QED
      BY <2>1, <2>2, <2>4, <3>1, <3>2, TaskAsksChecks
  <2>5. QED
    BY <1>1, <1>5, <2>3, <2>4 DEF NextCheck
<1>6. CASE RunCheck
  <2> DEFINE new == [task[t] EXCEPT !.at = "store"]
  <2>1. new \in TaskStates /\ new.at = "store"
    BY <1>2 DEF TaskStates, TaskPlaces
  <2>2. /\ task[t].at = "check" /\ Holds(checks_lock, t)
        /\ task' = [task EXCEPT ![t] = new]
        /\ results_lock' = Ask(results_lock, t, "write")
        /\ checks_lock' = checks_lock /\ checks' = checks
    BY <1>1, <1>6 DEF RunCheck
  <2> HIDE DEF new
  <2>3. /\ t \notin Queued(checks_lock)
        /\ t \notin Queued(results_lock) /\ t \notin Holders(results_lock)
    BY <2>2, HealthFacts
  <2>4. QED
    BY <1>2, <2>1, <2>2, <2>3, TaskAsksResults
<1>7. CASE StoreResult
  <2> DEFINE new == [task[t] EXCEPT !.at = "next", !.name = None]
  <2>1. new \in TaskStates /\ new.at = "next"
    BY <1>2 DEF TaskStates, TaskPlaces
  <2>2. /\ task[t].at = "store" /\ Holds(results_lock, t)
        /\ task' = [task EXCEPT ![t] = new]
        /\ checks_lock' = Release(checks_lock, t)
        /\ results_lock' = Release(results_lock, t) /\ checks' = checks
    BY <1>1, <1>7 DEF StoreResult
  <2> HIDE DEF new
  <2>3. t \notin Queued(checks_lock) /\ t \notin Queued(results_lock)
    BY <2>2, HealthFacts
  <2>4. QED
    BY <1>2, <2>1, <2>2, <2>3, TaskReleases
<1>8. QED
  BY <1>3, <1>4, <1>5, <1>6, <1>7 DEF MonitorStep

\* is_ready holds the results while it waits for the checks.
LEMMA ProbeKeeps ==
  ASSUME HealthInv, NEW t \in Probes,
         BeginReady(t) \/ BeginHealth(t) \/ ProbeStep(t)
  PROVE  HealthInv'
<1> USE DEF ChecksAsked, ChecksHeld, ResultsAsked, ResultsHeld
<1>1. t \in Tasks /\ task[t] \in TaskStates /\ checks \subseteq Names
  BY HealthValues, HealthFacts
<1>2. CASE BeginReady(t) \/ BeginHealth(t)
  <2>1. /\ At("ready", None) \in TaskStates /\ At("ready", None).at = "ready"
        /\ At("health", None) \in TaskStates
        /\ At("health", None).at = "health"
    BY DEF At, TaskStates, TaskPlaces
  <2>2. PICK new \in TaskStates :
          /\ new.at \in {"ready", "health"}
          /\ task' = [task EXCEPT ![t] = new]
    BY <1>2, <2>1 DEF BeginReady, BeginHealth
  <2>3. /\ task[t].at = "idle" /\ checks' = checks
        /\ results_lock' = Ask(results_lock, t, "read")
        /\ checks_lock' = checks_lock
    BY <1>2 DEF BeginReady, BeginHealth
  <2>4. /\ t \notin Queued(checks_lock) /\ t \notin Holders(checks_lock)
        /\ t \notin Queued(results_lock) /\ t \notin Holders(results_lock)
    BY <1>1, <2>3, HealthFacts
  <2>5. QED
    BY <1>1, <2>2, <2>3, <2>4, TaskAsksResults
<1>3. CASE ReadyResults(t)
  <2> DEFINE new == [task[t] EXCEPT !.at = "both"]
  <2>1. new \in TaskStates /\ new.at = "both"
    BY <1>1 DEF TaskStates, TaskPlaces
  <2>2. /\ task[t].at = "ready" /\ Holds(results_lock, t)
        /\ task' = [task EXCEPT ![t] = new]
        /\ checks_lock' = Ask(checks_lock, t, "read")
        /\ results_lock' = results_lock /\ checks' = checks
    BY <1>3 DEF ReadyResults
  <2> HIDE DEF new
  <2>3. /\ t \notin Queued(checks_lock) /\ t \notin Holders(checks_lock)
        /\ t \notin Queued(results_lock)
    BY <1>1, <2>2, HealthFacts
  <2>4. QED
    BY <1>1, <2>1, <2>2, <2>3, TaskAsksChecks
<1>4. CASE IsReady(t) \/ GetHealthStatus(t)
  <2>1. PICK new \in TaskStates : new = At("idle", None) /\ new.at = "idle"
    BY NewState DEF TaskPlaces
  <2>2. task' = [task EXCEPT ![t] = new] /\ checks' = checks
    BY <1>4, <2>1 DEF IsReady, GetHealthStatus
  <2>3. CASE IsReady(t)
    <3>1. /\ task[t].at = "both" /\ Holds(checks_lock, t)
          /\ checks_lock' = Release(checks_lock, t)
          /\ results_lock' = Release(results_lock, t)
      BY <2>3 DEF IsReady
    <3>2. t \notin Queued(checks_lock) /\ t \notin Queued(results_lock)
      BY <1>1, <3>1, HealthFacts
    <3>3. QED
      BY <1>1, <2>1, <2>2, <3>1, <3>2, TaskReleases
  <2>4. CASE GetHealthStatus(t)
    <3>1. /\ task[t].at = "health" /\ Holds(results_lock, t)
          /\ checks_lock' = checks_lock
          /\ results_lock' = Release(results_lock, t)
      BY <2>4 DEF GetHealthStatus
    <3>2. /\ t \notin Queued(checks_lock) /\ t \notin Queued(results_lock)
          /\ t \notin Holders(checks_lock)
      BY <1>1, <3>1, HealthFacts
    <3>3. QED
      BY <1>1, <2>1, <2>2, <3>1, <3>2, TaskReleases
  <2>5. QED
    BY <1>4, <2>3, <2>4
<1>5. QED
  BY <1>2, <1>3, <1>4 DEF ProbeStep

\* Where a task waits and what it holds is known from where it is, and only
\* registrations ask to write the checks (register_check, run_single_check,
\* is_ready, get_health_status).
THEOREM HealthInvariant == HealthSpec => []HealthInv
<1>1. ASSUME HealthInv, UNCHANGED healthVars PROVE HealthInv'
  BY <1>1 DEF healthVars, HealthInv, Standing
<1>2. HealthInv /\ [HealthNext]_healthVars => HealthInv'
  BY <1>1, GrantKeeps, RegistrarKeeps, MonitorKeeps, ProbeKeeps DEF HealthNext
<1>3. QED
  BY <1>2, HealthInitially, PTL DEF HealthSpec

\* Without a registration everybody who waits for the checks wants to read
\* them, and nobody who holds the results waits for them: somebody can go on.
LEMMA BlockedByRegistration == HealthInv => OnlyRegistrationBlocks
<1> SUFFICES ASSUME HealthInv, NEW t \in Tasks, Stuck(t), ~Registering
             PROVE  FALSE
  BY DEF OnlyRegistrationBlocks
<1>1. PICK q \in Seq(Waiters), r \in Seq(Waiters) :
        q = checks_lock.queue /\ r = results_lock.queue
  BY DEF HealthInv, LockOk, Locks
<1> DEFINE blocked == {u \in Tasks : \/ \E i \in 1..Len(q) : q[i].task = u
                                     \/ \E i \in 1..Len(r) : r[i].task = u}
<1>2. /\ t \in blocked /\ ~Grantable(checks_lock) /\ ~Grantable(results_lock)
      /\ \A u \in Tasks : Holds(checks_lock, u) \/ Holds(results_lock, u)
           => u \in blocked
  BY <1>1 DEF Stuck
<1>3. q = <<>>
  <2>1. SUFFICES ASSUME q # <<>> PROVE FALSE
    OBVIOUS
  <2>2. /\ Len(q) \in Nat /\ Len(q) > 0 /\ Head(q) = q[1] /\ q[1] \in Waiters
    BY <2>1, EmptySeq, HeadTailProperties
  <2>3. checks_lock.writer = None
    <3>1. SUFFICES ASSUME checks_lock.writer # None PROVE FALSE
      OBVIOUS
    <3>2. PICK w \in Registrars : w = checks_lock.writer
      BY <3>1 DEF HealthInv
    <3>3. w \in Holders(checks_lock)
      BY <3>2, HealthValues DEF Holders, Holds
    <3>4. task[w].at \in ChecksHeld
      BY <3>3 DEF HealthInv, Standing
    <3>5. QED
      BY <3>4 DEF Registering, ChecksHeld, ChecksAsked
  <2>4. Head(q).how # "write"
    <3>1. SUFFICES ASSUME q[1].how = "write" PROVE FALSE
      BY <2>2
    <3>2. /\ q[1].task \in WantWrite(checks_lock)
          /\ q[1].task \in Queued(checks_lock)
      BY <1>1, <2>2, <3>1 DEF WantWrite, Queued
    <3>3. q[1].task \in Registrars /\ task[q[1].task].at \in ChecksAsked
      BY <3>2 DEF HealthInv, Standing
    <3>4. QED
      BY <3>3 DEF Registering, ChecksAsked
  <2>5. QED
    BY <1>1, <1>2, <2>1, <2>3, <2>4 DEF Grantable
<1>4. ASSUME NEW u \in Tasks, Holds(results_lock, u) PROVE FALSE
  <2>1. u \in Queued(results_lock)
    <3>1. Len(q) = 0
      BY <1>3
    <3>2. \E i \in 1..Len(r) : r[i].task = u
      BY <1>2, <1>4, <3>1
    <3>3. QED
      BY <1>1, <3>2 DEF Queued
  <2>2. u \in Holders(results_lock)
    BY <1>4 DEF Holders
  <2>3. QED
    BY <2>1, <2>2 DEF HealthInv, LockOk
<1>5. results_lock.writer = None /\ results_lock.readers = {}
  <2>1. results_lock \in Locks
    BY DEF HealthInv, LockOk
  <2>2. QED
    BY <1>4, <2>1 DEF Locks, Holds
<1>6. r # <<>>
  BY <1>2, <1>3
<1>7. QED
  BY <1>1, <1>2, <1>5, <1>6 DEF Grantable

Statuses == {None, "Unknown", "Healthy", "Warning", "Critical"}
Answers == {None, "ready", "not ready", "healthy", "unhealthy"}

\* The monitor only runs checks that are registered, and a critical check that
\* failed is critical until it succeeds or is registered again.
ReadyInv ==
  /\ results \in [Names -> [status : Statuses, failures : Nat]]
  /\ \A n \in CriticalNames :
       results[n].failures # 0 => n \in checks /\ results[n].status = "Critical"
  /\ task[Monitor].todo \subseteq checks
  /\ task[Monitor].at \in {"check", "store"} => task[Monitor].name \in checks
  /\ \A t \in Registrars : task[t].at = "result" => task[t].name \in Names

\* No check has failed at first.
LEMMA ReadyInitially == HealthInit => ReadyInv
<1> SUFFICES ASSUME HealthInit PROVE ReadyInv
  OBVIOUS
<1>1. /\ At("idle", None).at = "idle" /\ At("idle", None).todo = {}
      /\ [status |-> None, failures |-> 0] \in [status : Statuses, failures : Nat]
  BY DEF At, Statuses
<1>2. /\ results \in [Names -> [status : Statuses, failures : Nat]]
      /\ \A n \in Names : results[n].failures = 0
  BY <1>1 DEF HealthInit
<1>3. \A t \in Tasks : task[t].at = "idle" /\ task[t].todo = {}
  BY <1>1 DEF HealthInit
<1>4. QED
  BY <1>2, <1>3, HealthValues, HealthConstants DEF ReadyInv

\* What a step of another task does not touch.
LEMMA ReadyAside ==
  ASSUME HealthInv, ReadyInv, NEW t \in Tasks, NEW new \in TaskStates,
         task' = [task EXCEPT ![t] = new], checks \subseteq checks',
         results' = results,
         t = Monitor => new.todo \subseteq checks,
         t = Monitor /\ new.at \in {"check", "store"} => new.name \in checks,
         t \in Registrars /\ new.at = "result" => new.name \in Names
  PROVE  ReadyInv'
<1>1. /\ task'[t] = new /\ \A u \in Tasks : u # t => task'[u] = task[u]
  BY DEF HealthInv
<1>2. task'[Monitor].todo \subseteq checks'
  BY <1>1, HealthValues DEF ReadyInv
<1>3. task'[Monitor].at \in {"check", "store"} => task'[Monitor].name \in checks'
  BY <1>1, HealthValues DEF ReadyInv
<1>4. \A u \in Registrars : task'[u].at = "result" => task'[u].name \in Names
  BY <1>1, HealthValues DEF ReadyInv
<1>5. QED
  BY <1>2, <1>3, <1>4 DEF ReadyInv

\* A registration forgets earlier results of the name (register_check).
LEMMA ReadyInsert ==
  ASSUME HealthInv, ReadyInv, NEW t \in Registrars, InsertResult(t)
  PROVE  ReadyInv'
<1>1. t \in Tasks /\ t # Monitor
  BY HealthValues
<1>2. PICK n \in Names : n = task[t].name
  BY DEF InsertResult, ReadyInv
<1> DEFINE r == [status |-> "Unknown", failures |-> 0]
<1>3. r \in [status : Statuses, failures : Nat] /\ r.failures = 0
  BY DEF Statuses
<1>4. results' = [results EXCEPT ![n] = r] /\ checks' = checks
  BY <1>2 DEF InsertResult
<1> HIDE DEF r
<1>5. /\ results' \in [Names -> [status : Statuses, failures : Nat]]
      /\ results'[n] = r /\ \A m \in Names : m # n => results'[m] = results[m]
  BY <1>3, <1>4 DEF ReadyInv
<1>6. PICK new \in TaskStates : new = At("idle", None) /\ new.at = "idle"
  BY NewState DEF TaskPlaces
<1>7. /\ task' = [task EXCEPT ![t] = new] /\ task \in [Tasks -> TaskStates]
  BY <1>6 DEF InsertResult, HealthInv
<1>8. /\ task'[t].at = "idle" /\ \A u \in Tasks : u # t => task'[u] = task[u]
  BY <1>1, <1>6, <1>7
<1>9. \A m \in CriticalNames : results'[m].failures # 0 =>
        m \in checks' /\ results'[m].status = "Critical"
  BY <1>3, <1>4, <1>5, HealthConstants DEF ReadyInv
<1>10. task'[Monitor] = task[Monitor]
  BY <1>1, <1>8, HealthValues
<1>11. \A u \in Registrars : task'[u].at = "result" => task'[u].name \in Names
  BY <1>8, HealthValues DEF ReadyInv
<1>12. QED
  BY <1>4, <1>5, <1>9, <1>10, <1>11 DEF ReadyInv

\* A critical check that fails is critical (run_single_check).
LEMMA ReadyStore ==
  ASSUME HealthInv, ReadyInv, StoreResult PROVE ReadyInv'
<1>1. PICK n \in Names : n = task[Monitor].name /\ n \in checks
  BY DEF StoreResult, ReadyInv, HealthInv
<1>2. /\ results \in [Names -> [status : Statuses, failures : Nat]]
      /\ results[n].failures \in Nat
  BY DEF ReadyInv
<1>3. PICK o \in Outcomes(n) : results' = [results EXCEPT ![n] =
        [status |-> o.status,
         failures |-> IF o.failed THEN results[n].failures + 1 ELSE 0]]
  BY <1>1 DEF StoreResult
<1>4. /\ o.status \in Statuses /\ o.failed \in BOOLEAN
      /\ n \in CriticalNames /\ o.failed => o.status = "Critical"
  <2>1. CASE \E s \in {"Healthy", "Warning", "Critical"} :
               o = [status |-> s, failed |-> FALSE]
    BY <2>1 DEF Statuses
  <2>2. CASE o = [status |-> IF n \in CriticalNames THEN "Critical"
                             ELSE "Warning", failed |-> TRUE]
    BY <2>2 DEF Statuses
  <2>3. CASE o = [status |-> "Critical", failed |-> TRUE]
    BY <2>3 DEF Statuses
  <2>4. QED
    BY <2>1, <2>2, <2>3 DEF Outcomes
<1> DEFINE r == [status |-> o.status,
                 failures |-> IF o.failed THEN results[n].failures + 1 ELSE 0]
<1>5. /\ r \in [status : Statuses, failures : Nat] /\ r.status = o.status
      /\ r.failures # 0 => o.failed
  BY <1>2, <1>4
<1>6. results' = [results EXCEPT ![n] = r] /\ checks' = checks
  BY <1>3 DEF StoreResult
<1> HIDE DEF r
<1>7. /\ results' \in [Names -> [status : Statuses, failures : Nat]]
      /\ results'[n] = r /\ \A m \in Names : m # n => results'[m] = results[m]
  BY <1>2, <1>5, <1>6
<1>8. \A m \in CriticalNames : results'[m].failures # 0 =>
        m \in checks' /\ results'[m].status = "Critical"
  <2>1. SUFFICES ASSUME NEW m \in CriticalNames, results'[m].failures # 0
                 PROVE  m \in checks' /\ results'[m].status = "Critical"
    OBVIOUS
  <2>2. CASE m = n
    BY <1>1, <1>4, <1>5, <1>6, <1>7, <2>1, <2>2
  <2>3. CASE m # n
    BY <1>6, <1>7, <2>1, <2>3, HealthConstants DEF ReadyInv
  <2>4. QED
    BY <2>2, <2>3
<1> DEFINE new == [task[Monitor] EXCEPT !.at = "next", !.name = None]
<1>9. task[Monitor] \in TaskStates
  BY HealthValues DEF HealthInv
<1>10. new \in TaskStates /\ new.at = "next" /\ new.todo = task[Monitor].todo
  BY <1>9 DEF TaskStates, TaskPlaces
<1>11. task' = [task EXCEPT ![Monitor] = new]
  BY DEF StoreResult
<1> HIDE DEF new
<1>12. /\ task'[Monitor] = new
       /\ \A u \in Tasks : u # Monitor => task'[u] = task[u]
  BY <1>11, HealthValues DEF HealthInv
<1>13. \A u \in Registrars : task'[u].at = "result" => task'[u].name \in Names
  BY <1>12, HealthValues DEF ReadyInv
<1>14. /\ task'[Monitor].todo \subseteq checks'
       /\ task'[Monitor].at \notin {"check", "store"}
  BY <1>6, <1>10, <1>12 DEF ReadyInv
<1>15. QED
  BY <1>7, <1>8, <1>13, <1>14 DEF ReadyInv

\* The other steps leave the results alone.
LEMMA ReadyKeeps ==
  ASSUME HealthInv, ReadyInv, HealthNext PROVE ReadyInv'
<1>1. ASSUME GrantChecks \/ GrantResults PROVE ReadyInv'
  BY <1>1 DEF GrantChecks, GrantResults, ReadyInv
<1>2. ASSUME NEW t \in Registrars, NEW n \in Names, BeginRegister(t, n)
      PROVE  ReadyInv'
  <2>1. PICK new \in TaskStates : new = At("insert", n) /\ new.at = "insert"
    BY NewState DEF TaskPlaces
  <2>2. /\ task' = [task EXCEPT ![t] = new] /\ checks' = checks
        /\ results' = results
    BY <1>2, <2>1 DEF BeginRegister
  <2>3. QED
    BY <2>1, <2>2, ReadyAside, HealthValues
<1>3. ASSUME NEW t \in Registrars, InsertCheck(t) PROVE ReadyInv'
  <2> DEFINE new == [task[t] EXCEPT !.at = "result"]
  <2>1. task[t] \in TaskStates /\ task[t].at = "insert"
    BY <1>3, HealthValues DEF HealthInv, InsertCheck
  <2>2. new \in TaskStates /\ new.at = "result" /\ new.name \in Names
    BY <2>1 DEF TaskStates, TaskPlaces
  <2>3. /\ task' = [task EXCEPT ![t] = new] /\ checks \subseteq checks'
        /\ results' = results
    BY <1>3 DEF InsertCheck
  <2> HIDE DEF new
  <2>4. QED
    BY <2>2, <2>3, ReadyAside, HealthValues
<1>4. ASSUME Tick PROVE ReadyInv'
  <2>1. PICK new \in TaskStates : new = At("names", None) /\ new.at = "names"
    BY NewState DEF TaskPlaces
  <2>2. new.todo = {}
    BY <2>1 DEF At
  <2>3. /\ task' = [task EXCEPT ![Monitor] = new] /\ checks' = checks
        /\ results' = results
    BY <1>4, <2>1 DEF Tick
  <2>4. QED
    BY <2>1, <2>2, <2>3, ReadyAside, HealthValues
<1>5. ASSUME ReadNames PROVE ReadyInv'
  <2> DEFINE new == [At("next", None) EXCEPT !.todo = checks]
  <2>1. new \in TaskStates /\ new.at = "next" /\ new.todo = checks
    BY DEF At, TaskStates, TaskPlaces, HealthInv
  <2>2. /\ task' = [task EXCEPT ![Monitor] = new] /\ checks' = checks
        /\ results' = results
    BY <1>5 DEF ReadNames
  <2> HIDE DEF new
  <2>3. QED
    BY <2>1, <2>2, ReadyAside, HealthValues
<1>6. ASSUME NextCheck PROVE ReadyInv'
  <2>1. checks' = checks /\ results' = results
    BY <1>6 DEF NextCheck
  <2>2. task[Monitor] \in TaskStates /\ task[Monitor].todo \subseteq checks
    BY HealthValues DEF HealthInv, ReadyInv
  <2>3. CASE task' = [task EXCEPT ![Monitor] = At("idle", None)]
    <3>1. PICK new \in TaskStates : new = At("idle", None) /\ new.at = "idle"
      BY NewState DEF TaskPlaces
    <3>2. new.todo = {}
      BY <3>1 DEF At
    <3>3. QED
      BY <2>1, <2>3, <3>1, <3>2, ReadyAside, HealthValues
  <2>4. ASSUME NEW n \in task[Monitor].todo,
               task' = [task EXCEPT ![Monitor] = [at |-> "check", name |-> n,
                                    todo |-> task[Monitor].todo \ {n}]]
        PROVE  ReadyInv'
    <3> DEFINE new == [at |-> "check", name |-> n,
                       todo |-> task[Monitor].todo \ {n}]
    <3>1. /\ new \in TaskStates /\ new.name \in checks
          /\ new.todo \subseteq checks
      BY <2>2 DEF TaskStates, TaskPlaces
    <3>2. task' = [task EXCEPT ![Monitor] = new]
      BY <2>4
    <3> HIDE DEF new
    <3>3. QED
      BY <2>1, <3>1, <3>2, ReadyAside, HealthValues
  <2>5. QED
    BY <1>6, <2>3, <2>4 DEF NextCheck
<1>7. ASSUME RunCheck PROVE ReadyInv'
  <2> DEFINE new == [task[Monitor] EXCEPT !.at = "store"]
  <2>1. task[Monitor] \in TaskStates /\ task[Monitor].at = "check"
    BY <1>7, HealthValues DEF HealthInv, RunCheck
  <2>2. /\ new \in TaskStates /\ new.name = task[Monitor].name
        /\ new.todo = task[Monitor].todo
    BY <2>1 DEF TaskStates, TaskPlaces
  <2>3. /\ task' = [task EXCEPT ![Monitor] = new] /\ checks' = checks
        /\ results' = results
    BY <1>7 DEF RunCheck
  <2> HIDE DEF new
  <2>4. task[Monitor].name \in checks /\ task[Monitor].todo \subseteq checks
    BY <2>1 DEF ReadyInv
  <2>5. QED
    BY <2>2, <2>3, <2>4, ReadyAside, HealthValues
<1>8. ASSUME NEW p \in Probes, BeginReady(p) \/ BeginHealth(p) \/ ProbeStep(p)
      PROVE  ReadyInv'
  <2>1. p \in Tasks /\ p # Monitor /\ p \notin Registrars
    BY HealthValues
  <2>2. checks' = checks /\ results' = results
    BY <1>8 DEF BeginReady, BeginHealth, ProbeStep, ReadyResults, IsReady,
                GetHealthStatus
  <2>3. /\ At("ready", None) \in TaskStates /\ At("health", None) \in TaskStates
        /\ At("idle", None) \in TaskStates
        /\ [task[p] EXCEPT !.at = "both"] \in TaskStates
    BY <2>1 DEF At, TaskStates, TaskPlaces, HealthInv
  <2>4. PICK new \in TaskStates : task' = [task EXCEPT ![p] = new]
    BY <1>8, <2>3 DEF BeginReady, BeginHealth, ProbeStep, ReadyResults,
       IsReady,
                      GetHealthStatus
  <2>5. QED
    BY <2>1, <2>2, <2>4, ReadyAside
<1>9. QED
  BY <1>1, <1>2, <1>3, <1>4, <1>5, <1>6, <1>7, <1>8, ReadyInsert, ReadyStore
     DEF HealthNext, MonitorStep

\* A failed critical check is known as critical, and registered
\* (run_single_check).
THEOREM ReadyInvariant == HealthSpec => []ReadyInv
<1>1. ASSUME ReadyInv, UNCHANGED healthVars PROVE ReadyInv'
  BY <1>1 DEF healthVars, ReadyInv
<1>2. HealthInv /\ ReadyInv /\ [HealthNext]_healthVars => ReadyInv'
  BY <1>1, ReadyKeeps
<1>3. QED
  BY <1>2, ReadyInitially, HealthInvariant, PTL DEF HealthSpec

\* An answer of "ready" or "healthy" hides no failure: at the moment it is
\* given no critical check has failed last and no check is still unknown
\* (is_ready, get_health_status).
THEOREM ReadyHidesNothing == HealthSpec => NotReadyIsRight
<1>1. ASSUME HealthInv, ReadyInv, HealthNext, NEW p \in Probes,
             answer'[p] # answer[p], answer \in [Probes -> Answers]
      PROVE  /\ answer'[p] = "ready" =>
                  \A n \in CriticalNames : results[n].failures = 0
             /\ answer'[p] = "healthy" =>
                  \A n \in Names : results[n].status # "Unknown"
  <2>1. PICK u \in Probes : IsReady(u) \/ GetHealthStatus(u)
                              \/ BeginReady(u) \/ BeginHealth(u)
    BY <1>1 DEF HealthNext, GrantChecks, GrantResults, InsertCheck,
       InsertResult, BeginRegister, Tick, MonitorStep, ReadNames, NextCheck,
       RunCheck, StoreResult, ProbeStep, ReadyResults
  <2>2. u = p
    BY <1>1, <2>1 DEF IsReady, GetHealthStatus, BeginReady, BeginHealth
  <2>3. CASE BeginReady(p) \/ BeginHealth(p)
    BY <1>1, <2>3 DEF BeginReady, BeginHealth, None
  <2>4. CASE IsReady(p)
    <3>1. answer'[p] = IF \E n \in checks \cap CriticalNames :
                            results[n].status = "Critical"
                       THEN "not ready" ELSE "ready"
      BY <1>1, <2>4 DEF IsReady
    <3>2. QED
      BY <1>1, <3>1 DEF ReadyInv
  <2>5. CASE GetHealthStatus(p)
    <3>1. answer'[p] = IF \A n \in Names :
                            results[n].status \in {"Healthy", "Warning", None}
                       THEN "healthy" ELSE "unhealthy"
      BY <1>1, <2>5 DEF GetHealthStatus
    <3>2. QED
      BY <1>1, <3>1 DEF None
  <2>6. QED
    BY <2>1, <2>2, <2>3, <2>4, <2>5
<1> DEFINE Told == answer \in [Probes -> Answers]
<1>2. HealthInit => Told
  BY DEF HealthInit, Answers
<1>3. ASSUME Told, [HealthNext]_healthVars PROVE Told'
  <2>1. CASE UNCHANGED healthVars
    BY <1>3, <2>1 DEF healthVars
  <2>2. CASE HealthNext
    <3>1. \/ answer' = answer
          \/ \E u \in Probes, a \in Answers :
               answer' = [answer EXCEPT ![u] = a]
      BY <2>2 DEF HealthNext, Answers, GrantChecks, GrantResults, InsertCheck,
         InsertResult, BeginRegister, Tick, MonitorStep, ReadNames, NextCheck,
         RunCheck, StoreResult, ProbeStep, ReadyResults, IsReady,
         GetHealthStatus, BeginReady, BeginHealth, None
    <3>2. QED
      BY <1>3, <3>1
  <2>3. QED
    BY <1>3, <2>1, <2>2
<1> DEFINE Right == \A p \in Probes : answer'[p] # answer[p] =>
       /\ answer'[p] = "ready" => \A n \in CriticalNames : results[n].failures = 0
       /\ answer'[p] = "healthy" => \A n \in Names :
            results[n].status # "Unknown"
<1>4. HealthInv /\ ReadyInv /\ Told /\ [HealthNext]_healthVars => [Right]_healthVars
  BY <1>1
<1> HIDE DEF Told, Right
<1>5. HealthSpec => []Told
  BY <1>2, <1>3, PTL DEF HealthSpec
<1>6. HealthSpec => [][Right]_healthVars
  BY <1>4, <1>5, HealthInvariant, ReadyInvariant, PTL DEF HealthSpec
<1>7. QED
  BY <1>6 DEF NotReadyIsRight, Right

\* In every behaviour the health checker takes its own steps, or none.
LEMMA HealthPart == Spec => HealthSpec
<1>1. Init => HealthInit
  BY DEF Init
<1>2. [Next]_vars => [HealthNext]_healthVars
  BY DEF Next, vars, Engine, Config, Health, Simulator, Optimizer,
         Client, Latency, healthVars
<1>3. QED
  BY <1>1, <1>2, PTL DEF Spec, HealthSpec

-----------------------------------------------------------------------------
(* The latency monitor                                                     *)

LatencySpec == LatencyInit /\ [][LatencyNext]_latVars

RecorderStates == [at : {"idle", "target", "total"}, latency : Nat]

LatencyTypes ==
  /\ samples \in Seq(Nat) /\ recent \in Seq(Nat)
  /\ recorder \in [Recorders -> RecorderStates]
  /\ initialized \in BOOLEAN /\ early \in BOOLEAN
  /\ violations \in Nat /\ recorded \in Nat /\ clears \in Nat

\* The samples recorded last are the last ones of a window.
Kept(window, last) ==
  /\ Len(window) <= HISTOGRAM_SIZE
  /\ \A k \in Nat : k < Len(last) /\ k < HISTOGRAM_SIZE =>
       k < Len(window) /\ window[Len(window) - k] = last[Len(last) - k]

OverTarget(window) == {i \in DOMAIN window : window[i] > TARGET}
Late(f) == {t \in Recorders : f[t].at = "target" /\ f[t].latency > TARGET}

\* A window never holds more than was recorded, so nothing is pushed out of it
\* before HISTOGRAM_SIZE records; and who records after the maps were there
\* finds them there for the counter too.
Counted ==
  /\ Len(samples) <= recorded
  /\ \A t \in Recorders : recorder[t].at # "idle" => early \/ initialized
  /\ clears = 0 /\ ~early /\ recorded <= HISTOGRAM_SIZE =>
       violations + Cardinality(Late(recorder)) = Cardinality(OverTarget(samples))

LatencyInv == LatencyTypes /\ Kept(samples, recent) /\ Counted

\* A sample is put at the end of the window and the sample pushed out is none
\* of the HISTOGRAM_SIZE - 1 recorded last (LatencyHistogram::record).
LEMMA PushKeeps ==
  ASSUME NEW s \in Seq(Nat), NEW r \in Seq(Nat), NEW x \in Nat, Kept(s, r)
  PROVE  /\ Push(s, x) \in Seq(Nat)
         /\ Len(Push(s, x)) <= Len(s) + 1
         /\ Kept(Push(s, x), Append(r, x))
         /\ Len(s) < HISTOGRAM_SIZE => Push(s, x) = Append(s, x)
<1>1. PICK a \in Nat, b \in Nat, h \in Nat :
        a = Len(s) /\ b = Len(r) /\ h = HISTOGRAM_SIZE
  BY LenProperties, LatencyConstants
<1>2. h > 0 /\ a <= h
  BY <1>1, LatencyConstants DEF Kept
<1>3. PICK q \in Seq(Nat) : q = Append(r, x)
  BY AppendProperties
<1>4. Len(q) = b + 1 /\ q[b + 1] = x /\ \A i \in 1..b : q[i] = r[i]
  BY <1>1, <1>3, AppendProperties
<1>5. \A k \in Nat : k < b /\ k < h => k < a /\ s[a - k] = r[b - k]
  BY <1>1 DEF Kept
<1>6. CASE a < h
  <2>1. PICK w \in Seq(Nat) : w = Append(s, x)
    BY AppendProperties
  <2>2. Len(w) = a + 1 /\ w[a + 1] = x /\ \A i \in 1..a : w[i] = s[i]
    BY <1>1, <2>1, AppendProperties
  <2>3. Push(s, x) = w
    BY <1>1, <1>6, <2>1 DEF Push
  <2>4. ASSUME NEW k \in Nat, k < b + 1, k < h
        PROVE  k < a + 1 /\ w[a + 1 - k] = q[b + 1 - k]
    <3>1. CASE k = 0
      BY <1>4, <2>2, <3>1
    <3>2. CASE k > 0
      <4>1. PICK j \in Nat : k = j + 1
        BY <3>2
      <4>2. j < b /\ j < h
        BY <2>4, <4>1
      <4>3. j < a /\ s[a - j] = r[b - j]
        BY <1>5, <4>2
      <4>4. /\ a - j \in 1..a /\ b - j \in 1..b
            /\ a + 1 - k = a - j /\ b + 1 - k = b - j
        BY <4>1, <4>2, <4>3, SMTT(30)
      <4>5. w[a - j] = s[a - j] /\ q[b - j] = r[b - j]
        BY <1>4, <2>2, <4>4
      <4>6. QED
        BY <4>1, <4>3, <4>4, <4>5
    <3>3. QED
      BY <3>1, <3>2
  <2>5. Kept(w, q)
    BY <1>1, <1>4, <1>6, <2>2, <2>4 DEF Kept
  <2>6. QED
    BY <1>1, <1>3, <2>1, <2>2, <2>3, <2>5
<1>7. CASE a = h
  <2>1. s # <<>>
    <3>1. Len(s) # 0
      BY <1>1, <1>2, <1>7
    <3>2. QED
      BY <3>1
  <2>2. PICK u \in Seq(Nat) : u = Tail(s)
    BY <2>1, HeadTailProperties
  <2>3. Len(u) = a - 1 /\ \A i \in 1..a - 1 : u[i] = s[i + 1]
    BY <1>1, <2>1, <2>2, HeadTailProperties
  <2>4. PICK c \in Nat : c = a - 1 /\ a = c + 1
    BY <1>2, <1>7
  <2>5. PICK w \in Seq(Nat) : w = Append(u, x)
    BY AppendProperties
  <2>6. Len(w) = a /\ w[a] = x /\ \A i \in 1..c : w[i] = s[i + 1]
    BY <2>3, <2>4, <2>5, AppendProperties
  <2>7. Push(s, x) = w
    BY <1>1, <1>7, <2>2, <2>5 DEF Push
  <2>8. ASSUME NEW k \in Nat, k < b + 1, k < h
        PROVE  k < a /\ w[a - k] = q[b + 1 - k]
    <3>1. CASE k = 0
      BY <1>4, <1>7, <2>6, <2>8, <3>1
    <3>2. CASE k > 0
      <4>1. PICK j \in Nat : k = j + 1
        BY <3>2
      <4>2. j < b /\ j < h /\ k < a
        BY <1>7, <2>8, <4>1
      <4>3. s[a - j] = r[b - j]
        BY <1>5, <4>2
      <4>4. /\ a - k \in 1..c /\ b - j \in 1..b
            /\ a - k + 1 = a - j /\ b + 1 - k = b - j
        BY <2>4, <4>1, <4>2
      <4>5. w[a - k] = s[a - k + 1] /\ q[b - j] = r[b - j]
        BY <1>4, <2>6, <4>4
      <4>6. QED
        BY <4>2, <4>3, <4>4, <4>5
    <3>3. QED
      BY <3>1, <3>2
  <2>9. Kept(w, q)
    BY <1>1, <1>4, <1>7, <2>6, <2>8 DEF Kept
  <2>10. QED
    BY <1>1, <1>3, <1>7, <2>5, <2>6, <2>7, <2>9
<1>8. QED
  BY <1>2, <1>6, <1>7

\* As many samples are over the target after sorting.
LEMMA SortedAsMany ==
  ASSUME NEW s \in Seq(Nat), NEW w \in Sorts(s)
  PROVE  /\ w \in Seq(Nat) /\ Len(w) = Len(s)
         /\ Cardinality(OverTarget(w)) = Cardinality(OverTarget(s))
<1>1. PICK n \in Nat : n = Len(s) /\ DOMAIN s = 1..n
  BY LenProperties
<1>2. PICK p \in Bijection(1..n, 1..n) : w = [i \in 1..n |-> s[p[i]]]
  BY <1>1 DEF Sorts
<1>3. /\ p \in [1..n -> 1..n]
      /\ \A i, j \in 1..n : p[i] = p[j] => i = j
      /\ \A j \in 1..n : \E i \in 1..n : p[i] = j
  BY <1>2 DEF Bijection, Injection, Surjection, IsInjective
<1>4. \A i \in 1..n : s[i] \in Nat
  BY <1>1, ElementOfSeq
<1>5. w \in [1..n -> Nat] /\ \A i \in 1..n : w[i] = s[p[i]]
  BY <1>2, <1>3, <1>4
<1>6. w \in Seq(Nat) /\ Len(w) = n /\ DOMAIN w = 1..n
  BY <1>5, SeqDef, LenProperties, SMTT(30)
<1>7. OverTarget(w) = {i \in 1..n : w[i] > TARGET}
  BY <1>6 DEF OverTarget
<1>8. OverTarget(s) = {i \in 1..n : s[i] > TARGET}
  BY <1>1 DEF OverTarget
<1> DEFINE g == [i \in OverTarget(w) |-> p[i]]
<1>9. g \in [OverTarget(w) -> OverTarget(s)] /\ \A i \in OverTarget(w) : g[i] = p[i]
  BY <1>3, <1>5, <1>7, <1>8
<1> HIDE DEF g
<1>10. \A i, j \in OverTarget(w) : g[i] = g[j] => i = j
  BY <1>3, <1>7, <1>9
<1>11. \A j \in OverTarget(s) : \E i \in OverTarget(w) : g[i] = j
  <2>1. SUFFICES ASSUME NEW j \in OverTarget(s) PROVE \E i \in OverTarget(w) : g[i] = j
    OBVIOUS
  <2>2. PICK i \in 1..n : p[i] = j
    BY <1>3, <1>8
  <2>3. w[i] > TARGET
    BY <1>5, <1>8, <2>1, <2>2
  <2>4. QED
    BY <1>7, <1>9, <2>2, <2>3
<1>12. g \in Bijection(OverTarget(w), OverTarget(s))
  BY <1>9, <1>10, <1>11 DEF Bijection, Injection, Surjection, IsInjective
<1>13. IsFiniteSet(OverTarget(w))
  BY <1>7, FS_Interval, FS_Subset
<1>14. QED
  BY <1>1, <1>6, <1>12, <1>13, FS_Bijection DEF ExistsBijection

\* Nothing was recorded at first (new).
LEMMA LatencyInitially == LatencyInit => LatencyInv
<1> SUFFICES ASSUME LatencyInit PROVE LatencyInv
  OBVIOUS
<1>1. LatencyTypes
  <2>1. [at |-> "idle", latency |-> 0] \in RecorderStates
    BY DEF RecorderStates
  <2>2. samples \in Seq(Nat) /\ recent \in Seq(Nat)
    BY EmptySeq DEF LatencyInit
  <2>3. recorder \in [Recorders -> RecorderStates]
    BY <2>1 DEF LatencyInit
  <2>4. QED
    BY <2>2, <2>3 DEF LatencyInit, LatencyTypes
<1>2. Len(samples) = 0 /\ Len(recent) = 0 /\ DOMAIN samples = {}
  BY DEF LatencyInit
<1>3. OverTarget(samples) = {} /\ Late(recorder) = {}
  BY <1>2 DEF LatencyInit, OverTarget, Late
<1>4. Cardinality(OverTarget(samples)) = 0 /\ Cardinality(Late(recorder)) = 0
  BY <1>3, FS_EmptySet
<1>5. Kept(samples, recent)
  BY <1>2, LatencyConstants DEF Kept
<1>6. Counted
  BY <1>2, <1>4 DEF LatencyInit, Counted
<1>7. QED
  BY <1>1, <1>5, <1>6 DEF LatencyInv

\* The sets counted are finite.
LEMMA CountsFinite ==
  ASSUME LatencyInv
  PROVE  /\ IsFiniteSet(OverTarget(samples)) /\ Cardinality(OverTarget(samples)) \in Nat
         /\ IsFiniteSet(Late(recorder)) /\ Cardinality(Late(recorder)) \in Nat
<1>1. PICK n \in Nat : DOMAIN samples = 1..n
  BY LenProperties DEF LatencyInv, LatencyTypes
<1>2. IsFiniteSet(OverTarget(samples))
  BY <1>1, FS_Interval, FS_Subset DEF OverTarget
<1>3. IsFiniteSet(Late(recorder))
  BY LatencyConstants, FS_Subset DEF Late
<1>4. QED
  BY <1>2, <1>3, FS_CardinalityType

\* record_latency takes its sample to the window before it counts it.
LEMMA RecordKeeps ==
  ASSUME LatencyInv, NEW t \in Recorders, NEW x \in Latencies,
         RecordInHistogram(t, x)
  PROVE  LatencyInv'
<1>1. x \in Nat
  BY LatencyConstants
<1> DEFINE new == [at |-> "target", latency |-> x]
<1>2. new \in RecorderStates /\ new.at = "target" /\ new.latency = x
  BY <1>1 DEF RecorderStates
<1>3. /\ recorder[t].at = "idle" /\ recorder' = [recorder EXCEPT ![t] = new]
      /\ samples' = IF initialized THEN Push(samples, x) ELSE samples
      /\ recent' = IF initialized THEN Append(recent, x) ELSE recent
      /\ early' = (early \/ ~initialized) /\ recorded' = recorded + 1
      /\ initialized' = initialized /\ violations' = violations
      /\ clears' = clears
  BY DEF RecordInHistogram
<1> HIDE DEF new
<1>4. /\ samples \in Seq(Nat) /\ recent \in Seq(Nat) /\ Kept(samples, recent)
      /\ recorder \in [Recorders -> RecorderStates] /\ recorded \in Nat
      /\ initialized \in BOOLEAN /\ early \in BOOLEAN /\ violations \in Nat
      /\ clears \in Nat /\ Len(samples) <= recorded /\ Len(samples) \in Nat
  BY LenProperties DEF LatencyInv, LatencyTypes, Counted
<1>5. /\ samples' \in Seq(Nat) /\ recent' \in Seq(Nat)
      /\ Kept(samples', recent') /\ Len(samples') <= recorded'
  <2>1. CASE initialized
    <3>1. samples' = Push(samples, x) /\ recent' = Append(recent, x)
      BY <1>3, <2>1
    <3>2. recent' \in Seq(Nat)
      BY <1>1, <1>4, <3>1, AppendProperties
    <3>3. /\ samples' \in Seq(Nat) /\ Kept(samples', recent')
          /\ Len(samples') <= Len(samples) + 1
      BY <1>1, <1>4, <3>1, PushKeeps
    <3>4. Len(samples') \in Nat
      BY <3>3, LenProperties
    <3>5. QED
      BY <1>3, <1>4, <3>2, <3>3, <3>4
  <2>2. CASE ~initialized
    BY <1>3, <1>4, <2>2
  <2>3. QED
    BY <2>1, <2>2
<1>6. /\ recorder' \in [Recorders -> RecorderStates] /\ recorder'[t] = new
      /\ \A u \in Recorders : u # t => recorder'[u] = recorder[u]
  BY <1>2, <1>3, <1>4
<1>7. LatencyTypes'
  BY <1>3, <1>4, <1>5, <1>6 DEF LatencyTypes
<1>8. \A u \in Recorders : recorder'[u].at # "idle" => early' \/ initialized'
  BY <1>3, <1>4, <1>6 DEF LatencyInv, Counted
<1>9. ASSUME clears' = 0, ~early', recorded' <= HISTOGRAM_SIZE
      PROVE  violations' + Cardinality(Late(recorder)')
               = Cardinality(OverTarget(samples)')
  <2>1. clears = 0 /\ ~early /\ initialized /\ recorded < HISTOGRAM_SIZE
    <3>1. recorded < HISTOGRAM_SIZE
      BY <1>3, <1>4, <1>9, LatencyConstants
    <3>2. clears = 0 /\ ~early /\ initialized
      BY <1>3, <1>9, Zenon
    <3>3. QED
      BY <3>1, <3>2
  <2>2. samples' = Append(samples, x)
    <3>1. Len(samples) < HISTOGRAM_SIZE
      BY <1>4, <2>1, LatencyConstants
    <3>2. QED
      BY <1>1, <1>3, <1>4, <2>1, <3>1, PushKeeps
  <2>3. violations + Cardinality(Late(recorder)) = Cardinality(OverTarget(samples))
    BY <1>4, <2>1, LatencyConstants DEF LatencyInv, Counted
  <2>4. PICK n \in Nat : n = Len(samples) /\ DOMAIN samples = 1..n
    BY <1>4, LenProperties
  <2>5. /\ DOMAIN samples' = 1..(n + 1) /\ samples'[n + 1] = x
        /\ \A i \in 1..n : samples'[i] = samples[i]
    BY <1>1, <1>4, <1>5, <2>2, <2>4, AppendProperties, LenProperties
  <2>6. n + 1 \notin OverTarget(samples) /\ t \notin Late(recorder)
    BY <1>3, <2>4 DEF OverTarget, Late
  <2>7. CASE x > TARGET
    <3>1. OverTarget(samples)' = OverTarget(samples) \cup {n + 1}
      BY <2>4, <2>5, <2>7 DEF OverTarget
    <3>2. Late(recorder)' = Late(recorder) \cup {t}
      BY <1>2, <1>6, <2>7 DEF Late
    <3>3. /\ Cardinality(OverTarget(samples)') = Cardinality(OverTarget(samples)) + 1
          /\ Cardinality(Late(recorder)') = Cardinality(Late(recorder)) + 1
      BY <2>6, <3>1, <3>2, CountsFinite, FS_AddElement
    <3>4. QED
      BY <1>3, <1>4, <2>3, <3>3, CountsFinite
  <2>8. CASE ~(x > TARGET)
    <3>1. OverTarget(samples)' = OverTarget(samples)
      BY <2>4, <2>5, <2>8 DEF OverTarget
    <3>2. Late(recorder)' = Late(recorder)
      BY <1>2, <1>6, <2>6, <2>8 DEF Late
    <3>3. QED
      BY <1>3, <2>3, <3>1, <3>2
  <2>9. QED
    BY <2>7, <2>8
<1>10. Counted'
  BY <1>5, <1>8, <1>9 DEF Counted
<1>11. QED
  BY <1>5, <1>7, <1>10 DEF LatencyInv

\* The counter follows the window, one record at a time.
LEMMA CheckKeeps ==
  ASSUME LatencyInv, NEW t \in Recorders, CheckTarget(t) \/ CountMeasurement(t)
  PROVE  LatencyInv'
<1>1. /\ samples \in Seq(Nat) /\ recorder \in [Recorders -> RecorderStates]
      /\ violations \in Nat /\ clears \in Nat /\ recorded \in Nat
      /\ Len(samples) <= recorded /\ TARGET \in Nat
  BY LatencyConstants DEF LatencyInv, LatencyTypes, Counted
<1>2. /\ samples' = samples /\ recent' = recent /\ early' = early
      /\ recorded' = recorded /\ clears' = clears
      /\ initialized' = initialized
  BY DEF CheckTarget, CountMeasurement, latHistory
<1>3. PICK new \in RecorderStates :
        /\ recorder' = [recorder EXCEPT ![t] = new] /\ new.at # "target"
  <2> DEFINE total == [recorder[t] EXCEPT !.at = "total"]
             idle == [recorder[t] EXCEPT !.at = "idle"]
  <2>1. /\ total \in RecorderStates /\ idle \in RecorderStates
        /\ total.at = "total" /\ idle.at = "idle"
    BY <1>1 DEF RecorderStates
  <2>2. \/ recorder' = [recorder EXCEPT ![t] = total]
        \/ recorder' = [recorder EXCEPT ![t] = idle]
    BY DEF CheckTarget, CountMeasurement
  <2> HIDE DEF total, idle
  <2>3. QED
    BY <2>1, <2>2
<1>4. /\ recorder' \in [Recorders -> RecorderStates] /\ recorder'[t] = new
      /\ \A u \in Recorders : u # t => recorder'[u] = recorder[u]
  BY <1>1, <1>3
<1>5. recorder[t].at # "idle"
  BY DEF CheckTarget, CountMeasurement
<1>6. violations' \in Nat
  BY <1>1 DEF CheckTarget, CountMeasurement
<1>7. LatencyTypes'
  BY <1>2, <1>4, <1>6 DEF LatencyInv, LatencyTypes
<1>8. \A u \in Recorders : recorder'[u].at # "idle" => early' \/ initialized'
  BY <1>2, <1>4, <1>5 DEF LatencyInv, Counted
<1>9. Late(recorder)' = Late(recorder) \ {t}
  BY <1>3, <1>4 DEF Late
<1>10. ASSUME clears' = 0, ~early', recorded' <= HISTOGRAM_SIZE
       PROVE  violations' + Cardinality(Late(recorder)')
                = Cardinality(OverTarget(samples)')
  <2>1. violations + Cardinality(Late(recorder)) = Cardinality(OverTarget(samples))
    BY <1>2, <1>10 DEF LatencyInv, Counted
  <2>2. OverTarget(samples)' = OverTarget(samples)
    BY <1>2 DEF OverTarget
  <2>3. initialized
    BY <1>2, <1>5, <1>10 DEF LatencyInv, Counted
  <2>4. CASE t \in Late(recorder)
    <3>1. violations' = violations + 1
      BY <2>3, <2>4 DEF Late, CheckTarget, CountMeasurement
    <3>2. Cardinality(Late(recorder)') = Cardinality(Late(recorder)) - 1
      BY <1>9, <2>4, CountsFinite, FS_RemoveElement
    <3>3. QED
      BY <1>1, <2>1, <2>2, <3>1, <3>2, CountsFinite
  <2>5. CASE t \notin Late(recorder)
    <3>1. violations' = violations
      BY <2>5 DEF Late, CheckTarget, CountMeasurement
    <3>2. Late(recorder)' = Late(recorder)
      BY <1>9, <2>5
    <3>3. QED
      BY <2>1, <2>2, <3>1, <3>2
  <2>6. QED
    BY <2>4, <2>5
<1>11. Counted'
  BY <1>1, <1>2, <1>8, <1>10 DEF Counted
<1>12. QED
  BY <1>2, <1>7, <1>11 DEF LatencyInv, Kept

\* Sorting moves samples and loses none (get_stats).
LEMMA GetStatsKeeps == ASSUME LatencyInv, GetStats PROVE LatencyInv'
<1>1. /\ samples' \in Sorts(samples) /\ recent' = <<>>
      /\ UNCHANGED <<initialized, violations, recorder, early, recorded, clears>>
  BY DEF GetStats
<1>2. /\ samples \in Seq(Nat) /\ Len(samples) <= HISTOGRAM_SIZE
  BY DEF LatencyInv, LatencyTypes, Kept
<1>3. /\ samples' \in Seq(Nat) /\ Len(samples') = Len(samples)
      /\ Cardinality(OverTarget(samples')) = Cardinality(OverTarget(samples))
  BY <1>1, <1>2, SortedAsMany
<1>4. LatencyTypes'
  BY <1>1, <1>3 DEF LatencyInv, LatencyTypes
<1>5. Len(recent') = 0
  BY <1>1
<1>6. Kept(samples, recent)'
  BY <1>2, <1>3, <1>5 DEF Kept
<1>7. Late(recorder)' = Late(recorder)
  BY <1>1 DEF Late
<1>8. Counted'
  BY <1>1, <1>3, <1>7 DEF LatencyInv, Counted
<1>9. QED
  BY <1>4, <1>6, <1>8 DEF LatencyInv

\* What was recorded last is in the window, and as long as nothing was reset or
\* pushed out, and the maps were there, the counter of violations agrees with
\* it (record_latency, get_stats, reset_stats, LatencyHistogram).
THEOREM LatencyInvariant == LatencySpec => []LatencyInv
<1>1. ASSUME LatencyInv, UNCHANGED latVars PROVE LatencyInv'
  BY <1>1 DEF latVars, LatencyInv, LatencyTypes, Kept, Counted, OverTarget,
     Late
<1>2. ASSUME LatencyInv, Initialize \/ ResetTotal PROVE LatencyInv'
  BY <1>2 DEF Initialize, ResetTotal, latHistory, LatencyInv, LatencyTypes,
              Kept, Counted, OverTarget, Late
<1>3. ASSUME LatencyInv, ResetViolations PROVE LatencyInv'
  <2>1. clears \in Nat /\ clears' = clears + 1
    BY <1>3 DEF LatencyInv, LatencyTypes, ResetViolations
  <2>2. clears' \in Nat /\ clears' # 0
    BY <2>1
  <2>3. LatencyTypes' /\ Kept(samples, recent)'
    BY <1>3, <2>2 DEF LatencyInv, LatencyTypes, Kept, ResetViolations
  <2>4. Counted'
    BY <1>3, <2>2 DEF LatencyInv, Counted, ResetViolations
  <2>5. QED
    BY <2>3, <2>4 DEF LatencyInv
<1>4. LatencyInv /\ [LatencyNext]_latVars => LatencyInv'
  BY <1>1, <1>2, <1>3, RecordKeeps, CheckKeeps, GetStatsKeeps DEF LatencyNext
<1>5. QED
  BY <1>4, LatencyInitially, PTL DEF LatencySpec

\* The last samples of the window and the counter, as MonitoringSafe states
\* them.
LEMMA WindowByInv ==
  LatencyInv => NewSamplesStay /\ CounterMatchesWindow
<1> SUFFICES ASSUME LatencyInv PROVE NewSamplesStay /\ CounterMatchesWindow
  OBVIOUS
<1>1. CounterMatchesWindow
  BY DEF LatencyInv, Counted, Late, OverTarget, CounterMatchesWindow
<1>2. PICK a \in Nat, b \in Nat, h \in Nat :
        a = Len(samples) /\ b = Len(recent) /\ h = HISTOGRAM_SIZE
  BY LenProperties, LatencyConstants DEF LatencyInv, LatencyTypes
<1>3. PICK n \in Nat : /\ n = Min({Len(recent), HISTOGRAM_SIZE})
                       /\ n <= b /\ n <= h /\ (n = b \/ n = h)
  BY <1>2 DEF Min
<1>4. /\ samples \in Seq(Nat) /\ recent \in Seq(Nat)
      /\ \A i \in 1..a : samples[i] \in Nat
      /\ \A i \in 1..b : recent[i] \in Nat
  BY <1>2, ElementOfSeq DEF LatencyInv, LatencyTypes
<1>5. \A k \in Nat : k < b /\ k < h => k < a /\ samples[a - k] = recent[b - k]
  BY <1>2 DEF LatencyInv, Kept
<1>6. n <= a
  <2>1. CASE n = 0
    BY <2>1
  <2>2. CASE n > 0
    <3>1. n - 1 \in Nat /\ n - 1 < b /\ n - 1 < h
      BY <1>3, <2>2
    <3>2. n - 1 < a
      BY <1>5, <3>1
    <3>3. QED
      BY <3>2
  <2>3. QED
    BY <2>1, <2>2
<1>7. \A i \in a - n + 1..a : samples[i] \in Nat
  BY <1>4, <1>6
<1>8. \A i \in b - n + 1..b : recent[i] \in Nat
  BY <1>3, <1>4
<1>9. PICK p \in Seq(Nat) : p = SubSeq(samples, a - n + 1, a)
  <2>1. a - n + 1 \in Int /\ a \in Int
    OBVIOUS
  <2>2. SubSeq(samples, a - n + 1, a) \in Seq(Nat)
    BY <1>7, <2>1, SubSeqProperties
  <2>3. QED
    BY <2>2
<1>10. PICK q \in Seq(Nat) : q = SubSeq(recent, b - n + 1, b)
  <2>1. b - n + 1 \in Int /\ b \in Int
    OBVIOUS
  <2>2. SubSeq(recent, b - n + 1, b) \in Seq(Nat)
    BY <1>8, <2>1, SubSeqProperties
  <2>3. QED
    BY <2>2
<1>11. Len(p) = n /\ \A i \in 1..n : p[i] = samples[a - n + i]
  <2>1. /\ Len(p) = IF a - n + 1 <= a THEN a - (a - n + 1) + 1 ELSE 0
        /\ \A i \in 1..a - (a - n + 1) + 1 : p[i] = samples[a - n + 1 + i - 1]
    BY <1>7, <1>9, SubSeqProperties
  <2>2. a - (a - n + 1) + 1 = n /\ (~(a - n + 1 <= a) => n = 0)
    OBVIOUS
  <2>3. \A i \in 1..n : a - n + 1 + i - 1 = a - n + i
    OBVIOUS
  <2>4. QED
    BY <2>1, <2>2, <2>3
<1>12. Len(q) = n /\ \A i \in 1..n : q[i] = recent[b - n + i]
  <2>1. /\ Len(q) = IF b - n + 1 <= b THEN b - (b - n + 1) + 1 ELSE 0
        /\ \A i \in 1..b - (b - n + 1) + 1 : q[i] = recent[b - n + 1 + i - 1]
    BY <1>8, <1>10, SubSeqProperties
  <2>2. b - (b - n + 1) + 1 = n /\ (~(b - n + 1 <= b) => n = 0)
    OBVIOUS
  <2>3. \A i \in 1..n : b - n + 1 + i - 1 = b - n + i
    OBVIOUS
  <2>4. QED
    BY <2>1, <2>2, <2>3
<1>13. ASSUME NEW i \in 1..n PROVE p[i] = q[i]
  <2>1. PICK k \in Nat : k = n - i /\ k < b /\ k < h
    BY <1>3
  <2>2. samples[a - k] = recent[b - k]
    BY <1>5, <2>1
  <2>3. a - k = a - n + i /\ b - k = b - n + i
    BY <2>1
  <2>4. QED
    BY <1>11, <1>12, <2>2, <2>3
<1>14. p = q
  BY <1>11, <1>12, <1>13, SeqEqual
<1>15. a <= h
  BY <1>2 DEF LatencyInv, Kept
<1>16. NewSamplesStay
  BY <1>2, <1>3, <1>9, <1>10, <1>14, <1>15 DEF NewSamplesStay
<1>17. QED
  BY <1>1, <1>16

\* In every behaviour the latency monitor takes its own steps, or none.
LEMMA LatencyPart == Spec => LatencySpec
<1>1. Init => LatencyInit
  BY DEF Init
<1>2. [Next]_vars => [LatencyNext]_latVars
  BY DEF Next, vars, Engine, Config, Health, Simulator, Optimizer,
         Client, Latency, latVars
<1>3. QED
  BY <1>1, <1>2, PTL DEF Spec, LatencySpec

\* Probes and the monitor alone never block one another, the window holds what
\* was recorded last, and the counter agrees with it (is_ready,
\* run_single_check, record_latency).
THEOREM MonitoringIsSafe == Spec => []MonitoringSafe
<1>1. HealthInv /\ LatencyInv => MonitoringSafe
  BY BlockedByRegistration, WindowByInv DEF MonitoringSafe
<1>2. QED
  BY <1>1, HealthPart, HealthInvariant, LatencyPart, LatencyInvariant, PTL

-----------------------------------------------------------------------------
(* The fork simulator                                                      *)

SimulatorSpec == SimulatorInit /\ [][SimulatorNext]_simVars

Simulations ==
  [at : {"new", "queued", "rejected", "block", "txs", "done"},
   done : Seq(BOOLEAN), cost : Nat]

SimulatorTypes ==
  /\ simulation \in [Jobs -> Simulations] /\ permit_queue \in Seq(Jobs)
  /\ counts \in [attempted : Nat, success : Nat, error : Nat, timeout : Nat]
  /\ DOMAIN simulated = Jobs /\ DOMAIN response = Clients
  /\ answered \subseteq Clients

\* A job waits for one permit, and only bundles that were converted wait.
LineOk ==
  /\ \A k \in 1..Len(permit_queue) : simulation[permit_queue[k]].at = "queued"
  /\ \A k, m \in 1..Len(permit_queue) :
       permit_queue[k] = permit_queue[m] => k = m
  /\ \A j \in Jobs :
       simulation[j].at # "new" => (simulation[j].at = "rejected" <=> ~Converted(j))

\* The jobs that hold a permit.
Holding(f) == {j \in Jobs : f[j].at \in {"block", "txs"}}

AttemptsCounted ==
  /\ IsFiniteSet(Holding(simulation))
  /\ Cardinality(Holding(simulation)) <= MAX_CONCURRENT
  /\ counts.attempted = counts.success + counts.error + counts.timeout
                          + Cardinality(Holding(simulation))

\* What a result may say of its bundle.
Honest(j, r) ==
  /\ r.bundle = j[2]
  /\ r.success => /\ r.error = "none"
                  /\ r.confidence = <<Len(BundleOf(j).txs), Len(BundleOf(j).txs)>>
  /\ r.error # "none" => r.net = 0
  /\ r.net <= r.gross /\ (r.gas_cost >= r.gross => r.net = 0)

ResultsKept ==
  /\ \A j \in Jobs : simulation[j].at = "done" => Honest(j, simulated[j])
  /\ BatchAligned

SimulatorInv == SimulatorTypes /\ LineOk /\ AttemptsCounted /\ ResultsKept

\* The parts of a request.
LEMMA RequestParts ==
  /\ \A c \in Clients : Len(BatchRequests[c].bundles) \in Nat
  /\ \A j \in Jobs : /\ j[1] \in Clients /\ j[2] \in Numbers(j[1])
                     /\ j = <<j[1], j[2]>>
                     /\ BundleOf(j).txs \in Seq([gas_limit : Nat, gas_price : Nat])
  /\ \A c \in Clients : \A i \in Numbers(c) : <<c, i>> \in Jobs
<1>1. \A c \in Clients :
        BatchRequests[c].bundles \in
          Seq([valid : BOOLEAN, txs : Seq([gas_limit : Nat, gas_price : Nat])])
  BY SimulatorConstants
<1>2. \A c \in Clients : \A i \in Numbers(c) :
        BatchRequests[c].bundles[i] \in
          [valid : BOOLEAN, txs : Seq([gas_limit : Nat, gas_price : Nat])]
  BY <1>1, ElementOfSeq DEF Numbers
<1>3. \A c \in Clients : \A i \in Numbers(c) :
        /\ <<c, i>> \in Jobs
        /\ BundleOf(<<c, i>>).txs \in Seq([gas_limit : Nat, gas_price : Nat])
  BY <1>2 DEF Jobs, BundleOf
<1>4. \A j \in Jobs : \E c \in Clients : \E i \in Numbers(c) : j = <<c, i>>
  BY DEF Jobs
<1>5. QED
  BY <1>1, <1>3, <1>4, LenProperties

\* An ascending sequence lists each member once.
LEMMA Ascending ==
  ASSUME NEW n \in Nat, NEW S \in SUBSET (1..n), NEW q \in InOrder(S)
  PROVE  /\ Cardinality(S) \in Nat /\ q \in [1..Cardinality(S) -> S]
         /\ q \in Seq(S) /\ Len(q) = Cardinality(S)
         /\ \A k, m \in 1..Cardinality(S) : q[k] = q[m] => k = m
<1>1. Cardinality(S) \in Nat
  <2>1. 1 \in Int /\ n \in Int
    OBVIOUS
  <2>2. IsFiniteSet(1..n)
    BY <2>1, FS_Interval
  <2>3. IsFiniteSet(S)
    BY <2>2, FS_Subset
  <2>4. QED
    BY <2>3, FS_CardinalityType
<1>2. PICK a \in Nat : a = Cardinality(S)
  BY <1>1
<1>3. /\ q \in [1..a -> S]
      /\ \A k, m \in 1..a : k < m => q[k] < q[m]
  BY <1>2 DEF InOrder
<1>4. q \in Seq(S) /\ Len(q) = a
  BY <1>3, SeqDef, LenProperties
<1>5. ASSUME NEW k \in 1..a, NEW m \in 1..a, q[k] = q[m] PROVE k = m
  <2>1. q[k] \in 1..n /\ q[m] \in 1..n
    BY <1>3
  <2>2. ~(k < m) /\ ~(m < k)
    BY <1>3, <1>5, <2>1
  <2>3. QED
    BY <2>2
<1>6. QED
  BY <1>2, <1>3, <1>4, <1>5

\* No request has come in at first.
LEMMA SimulatorInitially == SimulatorInit => SimulatorInv
<1> SUFFICES ASSUME SimulatorInit PROVE SimulatorInv
  OBVIOUS
<1>1. AtRest \in Simulations /\ AtRest.at = "new"
  BY EmptySeq DEF AtRest, Simulations
<1>2. /\ simulation = [j \in Jobs |-> AtRest] /\ permit_queue = <<>>
      /\ counts = [attempted |-> 0, success |-> 0, error |-> 0, timeout |-> 0]
      /\ simulated = [j \in Jobs |-> NoResult]
      /\ response = [c \in Clients |-> <<>>] /\ answered = {}
  BY DEF SimulatorInit
<1>3. SimulatorTypes
  BY <1>1, <1>2, EmptySeq DEF SimulatorTypes
<1>4. \A j \in Jobs : simulation[j].at = "new"
  BY <1>1, <1>2
<1>5. Len(permit_queue) = 0
  BY <1>2
<1>6. LineOk
  BY <1>4, <1>5 DEF LineOk
<1>7. Holding(simulation) = {}
  BY <1>4 DEF Holding
<1>8. IsFiniteSet(Holding(simulation)) /\ Cardinality(Holding(simulation)) = 0
  BY <1>7, FS_EmptySet
<1>9. AttemptsCounted
  BY <1>2, <1>8, SimulatorConstants DEF AttemptsCounted
<1>10. ResultsKept
  BY <1>2, <1>4 DEF ResultsKept, BatchAligned
<1>11. QED
  BY <1>3, <1>6, <1>9, <1>10 DEF SimulatorInv

\* The bundles of a request line up for their permits, once each
\* (simulate_bundles_batch, simulate_bundles).
LEMMA SubmitKeeps ==
  ASSUME SimulatorInv, NEW c \in Clients, Submit(c) PROVE SimulatorInv'
<1> DEFINE S == {i \in Numbers(c) : Converted(<<c, i>>)}
<1>1. PICK good \in InOrder(S) :
        permit_queue' = permit_queue \o [k \in DOMAIN good |-> <<c, good[k]>>]
  BY DEF Submit
<1>2. PICK n \in Nat : n = Len(BatchRequests[c].bundles) /\ Numbers(c) = 1..n
  BY RequestParts DEF Numbers
<1>3. /\ \A i \in S : i \in Numbers(c) /\ Converted(<<c, i>>)
      /\ S \subseteq 1..n
  BY <1>2
<1> HIDE DEF S
<1>4. PICK b \in Nat : b = Cardinality(S)
  BY <1>1, <1>3, Ascending
<1>5. /\ good \in [1..b -> S]
      /\ \A k, m \in 1..b : good[k] = good[m] => k = m
  <2>1. S \in SUBSET (1..n)
    BY <1>3
  <2>2. /\ good \in [1..Cardinality(S) -> S]
        /\ \A k, m \in 1..Cardinality(S) : good[k] = good[m] => k = m
    BY <2>1, Ascending
  <2>3. QED
    BY <1>4, <2>2
<1> DEFINE more == [k \in 1..b |-> <<c, good[k]>>]
<1>6. more \in [1..b -> Jobs] /\ \A k \in 1..b : more[k] = <<c, good[k]>>
  BY <1>3, <1>5, RequestParts
<1>7. permit_queue' = permit_queue \o more
  BY <1>1, <1>5
<1> HIDE DEF more
<1>8. more \in Seq(Jobs) /\ Len(more) = b
  BY <1>6, SeqDef, LenProperties
<1>9. PICK q \in Seq(Jobs) : q = permit_queue
  BY DEF SimulatorInv, SimulatorTypes
<1>10. PICK a \in Nat : a = Len(q)
  BY LenProperties
<1>11. PICK r \in Seq(Jobs) : r = q \o more
  BY <1>8, <1>9, ConcatProperties
<1>12. /\ Len(r) = a + b /\ \A k \in 1..a : r[k] = q[k]
       /\ \A k \in a + 1..a + b : r[k] = more[k - a]
  BY <1>8, <1>9, <1>10, <1>11, ConcatProperties
<1>13. /\ simulation' = [j \in Jobs |-> IF j[1] # c THEN simulation[j]
            ELSE [AtRest EXCEPT !.at = IF Converted(j) THEN "queued"
                                       ELSE "rejected"]]
       /\ UNCHANGED <<simulated, counts, answered, response>>
       /\ \A i \in Numbers(c) : simulation[<<c, i>>].at = "new"
  BY DEF Submit
<1>14. \A j \in Jobs : j[1] = c => simulation[j].at = "new"
  BY <1>13, RequestParts
<1>15. \A j \in Jobs : j[1] # c => simulation'[j] = simulation[j]
  BY <1>13
<1>16. \A j \in Jobs : j[1] = c =>
         /\ simulation'[j] \in Simulations
         /\ simulation'[j].at = IF Converted(j) THEN "queued" ELSE "rejected"
  <2>1. /\ [AtRest EXCEPT !.at = "queued"] \in Simulations
        /\ [AtRest EXCEPT !.at = "rejected"] \in Simulations
        /\ [AtRest EXCEPT !.at = "queued"].at = "queued"
        /\ [AtRest EXCEPT !.at = "rejected"].at = "rejected"
    BY EmptySeq DEF AtRest, Simulations
  <2>2. QED
    BY <1>13, <2>1
<1>17. SimulatorTypes'
  <2>1. simulation' \in [Jobs -> Simulations]
    BY <1>13, <1>15, <1>16 DEF SimulatorInv, SimulatorTypes
  <2>2. QED
    BY <1>7, <1>9, <1>11, <1>13, <2>1 DEF SimulatorInv, SimulatorTypes
<1>18. /\ \A k \in 1..a : q[k] \in Jobs /\ simulation[q[k]].at = "queued"
       /\ \A k \in 1..a : (q[k])[1] # c
  <2>1. \A k \in 1..a : q[k] \in Jobs /\ simulation[q[k]].at = "queued"
    BY <1>9, <1>10, ElementOfSeq DEF SimulatorInv, LineOk
  <2>2. QED
    BY <1>14, <2>1
<1>19. ASSUME NEW k \in a + 1..a + b
       PROVE  /\ k - a \in 1..b /\ r[k] = <<c, good[k - a]>> /\ r[k] \in Jobs
              /\ (r[k])[1] = c /\ Converted(r[k])
  <2>1. k - a \in 1..b
    OBVIOUS
  <2>2. r[k] = <<c, good[k - a]>> /\ r[k] \in Jobs /\ good[k - a] \in S
    BY <1>5, <1>6, <1>12, <2>1
  <2>3. Converted(r[k])
    BY <1>3, <2>2
  <2>4. (r[k])[1] = c
    BY <2>2
  <2>5. QED
    BY <2>1, <2>2, <2>3, <2>4
<1>20. LineOk'
  <2>1. ASSUME NEW k \in 1..a + b PROVE simulation'[r[k]].at = "queued"
    <3>1. CASE k \in 1..a
      BY <1>12, <1>15, <1>18, <3>1
    <3>2. CASE k \in a + 1..a + b
      BY <1>16, <1>19, <3>2
    <3>3. QED
      BY <3>1, <3>2
  <2>2. ASSUME NEW k \in 1..a + b, NEW m \in 1..a + b, r[k] = r[m] PROVE k = m
    <3>1. CASE k \in 1..a /\ m \in 1..a
      BY <1>9, <1>10, <1>12, <2>2, <3>1 DEF SimulatorInv, LineOk
    <3>2. CASE k \in a + 1..a + b /\ m \in a + 1..a + b
      <4>1. good[k - a] = good[m - a]
        BY <1>19, <2>2, <3>2
      <4>2. k - a = m - a
        BY <1>5, <1>19, <3>2, <4>1
      <4>3. QED
        BY <4>2
    <3>3. CASE k \in 1..a /\ m \in a + 1..a + b
      BY <1>12, <1>18, <1>19, <2>2, <3>3
    <3>4. CASE m \in 1..a /\ k \in a + 1..a + b
      BY <1>12, <1>18, <1>19, <2>2, <3>4
    <3>5. QED
      BY <3>1, <3>2, <3>3, <3>4
  <2>3. \A j \in Jobs : simulation'[j].at # "new" =>
          (simulation'[j].at = "rejected" <=> ~Converted(j))
    BY <1>15, <1>16 DEF SimulatorInv, LineOk
  <2>4. permit_queue' = r
    BY <1>7, <1>9, <1>11
  <2>5. QED
    BY <1>12, <2>1, <2>2, <2>3, <2>4 DEF LineOk
<1>21. Holding(simulation)' = Holding(simulation)
  BY <1>14, <1>15, <1>16 DEF Holding
<1>22. AttemptsCounted'
  BY <1>13, <1>21 DEF SimulatorInv, AttemptsCounted
<1>23. ResultsKept'
  BY <1>13, <1>15, <1>16, SMTT(30) DEF SimulatorInv, ResultsKept, BatchAligned
<1>24. QED
  BY <1>17, <1>20, <1>22, <1>23 DEF SimulatorInv

\* The first in the line gets a permit, and its attempt is counted.
LEMMA AcquireKeeps == ASSUME SimulatorInv, Acquire PROVE SimulatorInv'
<1>1. PICK q \in Seq(Jobs) : q = permit_queue /\ q # <<>>
  BY DEF SimulatorInv, SimulatorTypes, Acquire
<1>2. PICK a \in Nat : a = Len(q) /\ a > 0
  <2>1. Len(q) \in Nat /\ Len(q) # 0
    BY <1>1, EmptySeq, LenProperties
  <2>2. QED
    BY <2>1
<1>3. PICK j \in Jobs : j = Head(q) /\ j = q[1]
  BY <1>1, HeadTailProperties, ElementOfSeq
<1>4. PICK r \in Seq(Jobs) : r = Tail(q)
  BY <1>1, HeadTailProperties
<1>5. Len(r) = a - 1 /\ \A k \in 1..a - 1 : r[k] = q[k + 1]
  BY <1>1, <1>2, <1>4, HeadTailProperties
<1> DEFINE new == [simulation[j] EXCEPT !.at = "block"]
<1>6. /\ simulation \in [Jobs -> Simulations]
      /\ counts \in [attempted : Nat, success : Nat, error : Nat, timeout : Nat]
  BY DEF SimulatorInv, SimulatorTypes
<1>7. new \in Simulations /\ new.at = "block"
  <2>1. PICK old \in Simulations : old = simulation[j]
    BY <1>6
  <2>2. /\ [old EXCEPT !.at = "block"] \in Simulations
        /\ [old EXCEPT !.at = "block"].at = "block"
    BY ONLY old \in Simulations DEF Simulations
  <2>3. QED
    BY <2>1, <2>2
<1>8. /\ simulation' = [simulation EXCEPT ![j] = new] /\ permit_queue' = r
      /\ counts' = [counts EXCEPT !.attempted = counts.attempted + 1]
      /\ UNCHANGED <<simulated, answered, response>>
      /\ Cardinality(Holding(simulation)) < MAX_CONCURRENT
  BY <1>1, <1>3, <1>4 DEF Acquire, Active, InProgress, Holding
<1> HIDE DEF new
<1>9. /\ simulation' \in [Jobs -> Simulations] /\ simulation'[j] = new
      /\ \A i \in Jobs : i # j => simulation'[i] = simulation[i]
  BY <1>6, <1>7, <1>8
<1>10. /\ counts' \in [attempted : Nat, success : Nat, error : Nat, timeout : Nat]
       /\ counts'.attempted = counts.attempted + 1
       /\ counts'.success = counts.success /\ counts'.error = counts.error
       /\ counts'.timeout = counts.timeout
  BY <1>6, <1>8, SMTT(30)
<1>11. SimulatorTypes'
  BY <1>8, <1>9, <1>10 DEF SimulatorInv, SimulatorTypes
<1>12. \A k \in 1..a : q[k] \in Jobs /\ simulation[q[k]].at = "queued"
  BY <1>1, <1>2, ElementOfSeq DEF SimulatorInv, LineOk
<1>13. \A k, m \in 1..a : q[k] = q[m] => k = m
  BY <1>1, <1>2 DEF SimulatorInv, LineOk
<1>14. simulation[j].at = "queued"
  BY <1>2, <1>3, <1>12
<1>15. LineOk'
  <2>1. ASSUME NEW k \in 1..a - 1
        PROVE  k + 1 \in 1..a /\ r[k] = q[k + 1] /\ r[k] # j
    <3>1. k + 1 \in 1..a /\ 1 \in 1..a /\ k + 1 # 1
      BY <1>2
    <3>2. QED
      BY <1>3, <1>5, <1>13, <3>1
  <2>2. \A k \in 1..a - 1 : simulation'[r[k]].at = "queued"
    BY <1>9, <1>12, <2>1
  <2>3. ASSUME NEW k \in 1..a - 1, NEW m \in 1..a - 1, r[k] = r[m] PROVE k = m
    <3>1. k + 1 = m + 1
      BY <1>13, <2>1, <2>3
    <3>2. QED
      BY <3>1
  <2>4. \A i \in Jobs : simulation'[i].at # "new" =>
          (simulation'[i].at = "rejected" <=> ~Converted(i))
    BY <1>7, <1>9, <1>14 DEF SimulatorInv, LineOk
  <2>5. QED
    BY <1>5, <1>8, <2>2, <2>3, <2>4 DEF LineOk
<1>16. j \notin Holding(simulation)
  BY <1>14 DEF Holding
<1>17. Holding(simulation)' = Holding(simulation) \cup {j}
  BY <1>7, <1>9 DEF Holding
<1>18. PICK h \in Nat : h = Cardinality(Holding(simulation)) /\ h < MAX_CONCURRENT
  BY <1>8, FS_CardinalityType DEF SimulatorInv, AttemptsCounted
<1>19. /\ IsFiniteSet(Holding(simulation)')
       /\ Cardinality(Holding(simulation)') = h + 1
  BY <1>16, <1>17, <1>18, FS_AddElement DEF SimulatorInv, AttemptsCounted
<1>20. AttemptsCounted'
  <2>1. counts.attempted = counts.success + counts.error + counts.timeout + h
    BY <1>18 DEF SimulatorInv, AttemptsCounted
  <2>2. /\ counts.attempted \in Nat /\ counts.success \in Nat
        /\ counts.error \in Nat /\ counts.timeout \in Nat
    BY <1>6
  <2>3. h + 1 <= MAX_CONCURRENT
    BY <1>18, SimulatorConstants
  <2>4. counts.attempted + 1
          = counts.success + counts.error + counts.timeout + (h + 1)
    BY <2>1, <2>2
  <2>5. QED
    BY <1>10, <1>19, <2>3, <2>4 DEF AttemptsCounted
<1>21. ResultsKept'
  BY <1>7, <1>8, <1>9 DEF SimulatorInv, ResultsKept, BatchAligned
<1>22. QED
  BY <1>11, <1>15, <1>20, <1>21 DEF SimulatorInv

\* A result gives the permit back and is counted under one name
\* (simulate_bundle).
LEMMA EndKeeps ==
  ASSUME SimulatorInv, NEW j \in Jobs, simulation[j].at \in {"block", "txs"},
         NEW result, Honest(j, result),
         NEW counter \in {"success", "error", "timeout"},
         End(j, result, counter)
  PROVE  SimulatorInv'
<1>1. /\ simulation \in [Jobs -> Simulations] /\ permit_queue \in Seq(Jobs)
      /\ counts \in [attempted : Nat, success : Nat, error : Nat, timeout : Nat]
      /\ DOMAIN simulated = Jobs
  BY DEF SimulatorInv, SimulatorTypes
<1> DEFINE new == [simulation[j] EXCEPT !.at = "done"]
<1>2. new \in Simulations /\ new.at = "done"
  BY <1>1 DEF Simulations
<1>3. /\ simulation' = [simulation EXCEPT ![j] = new]
      /\ simulated' = [simulated EXCEPT ![j] = result]
      /\ counts' = [counts EXCEPT ![counter] = counts[counter] + 1]
      /\ UNCHANGED <<permit_queue, answered, response>>
  BY DEF End
<1> HIDE DEF new
<1>4. /\ simulation' \in [Jobs -> Simulations] /\ simulation'[j] = new
      /\ \A i \in Jobs : i # j => simulation'[i] = simulation[i]
  BY <1>1, <1>2, <1>3
<1>5. /\ DOMAIN simulated' = Jobs /\ simulated'[j] = result
      /\ \A i \in Jobs : i # j => simulated'[i] = simulated[i]
  BY <1>1, <1>3
<1>6. PICK x \in Nat, y \in Nat, z \in Nat, w \in Nat :
        /\ x = counts.attempted /\ y = counts.success
        /\ z = counts.error /\ w = counts.timeout
  BY <1>1
<1>7. /\ counts' \in [attempted : Nat, success : Nat, error : Nat, timeout : Nat]
      /\ counts'.attempted = x
      /\ counts'.success + counts'.error + counts'.timeout = y + z + w + 1
  <2>1. CASE counter = "success"
    <3>1. counts' = [counts EXCEPT !.success = y + 1]
      BY <1>3, <1>6, <2>1
    <3>2. /\ counts' \in [attempted : Nat, success : Nat, error : Nat, timeout : Nat]
          /\ counts'.attempted = x /\ counts'.success = y + 1
          /\ counts'.error = z /\ counts'.timeout = w
      BY <1>1, <1>6, <3>1
    <3>3. QED
      BY <3>2
  <2>2. CASE counter = "error"
    <3>1. counts' = [counts EXCEPT !.error = z + 1]
      BY <1>3, <1>6, <2>2
    <3>2. /\ counts' \in [attempted : Nat, success : Nat, error : Nat, timeout : Nat]
          /\ counts'.attempted = x /\ counts'.success = y
          /\ counts'.error = z + 1 /\ counts'.timeout = w
      BY <1>1, <1>6, <3>1
    <3>3. QED
      BY <3>2
  <2>3. CASE counter = "timeout"
    <3>1. counts' = [counts EXCEPT !.timeout = w + 1]
      BY <1>3, <1>6, <2>3
    <3>2. /\ counts' \in [attempted : Nat, success : Nat, error : Nat, timeout : Nat]
          /\ counts'.attempted = x /\ counts'.success = y
          /\ counts'.error = z /\ counts'.timeout = w + 1
      BY <1>1, <1>6, <3>1
    <3>3. QED
      BY <3>2
  <2>4. QED
    BY <2>1, <2>2, <2>3
<1>8. SimulatorTypes'
  BY <1>1, <1>3, <1>4, <1>5, <1>7 DEF SimulatorInv, SimulatorTypes
<1>9. LineOk'
  <2>1. \A k \in 1..Len(permit_queue) :
          permit_queue[k] \in Jobs /\ permit_queue[k] # j
    BY <1>1, ElementOfSeq DEF SimulatorInv, LineOk
  <2>2. \A k \in 1..Len(permit_queue) : simulation'[permit_queue[k]].at = "queued"
    BY <1>4, <2>1 DEF SimulatorInv, LineOk
  <2>3. \A i \in Jobs : simulation'[i].at # "new" =>
          (simulation'[i].at = "rejected" <=> ~Converted(i))
    BY <1>2, <1>4 DEF SimulatorInv, LineOk
  <2>4. QED
    BY <1>3, <2>2, <2>3 DEF SimulatorInv, LineOk
<1>10. Holding(simulation)' = Holding(simulation) \ {j}
  BY <1>2, <1>4 DEF Holding
<1>11. IsFiniteSet(Holding(simulation)) /\ j \in Holding(simulation)
  BY DEF SimulatorInv, AttemptsCounted, Holding
<1>12. PICK h \in Nat : h = Cardinality(Holding(simulation))
  BY <1>11, FS_CardinalityType
<1>13. /\ IsFiniteSet(Holding(simulation)')
       /\ Cardinality(Holding(simulation)') = h - 1
  BY <1>10, <1>11, <1>12, FS_RemoveElement
<1>14. AttemptsCounted'
  <2>1. x = y + z + w + h /\ h <= MAX_CONCURRENT
    BY <1>6, <1>12 DEF SimulatorInv, AttemptsCounted
  <2>2. h - 1 <= MAX_CONCURRENT
    BY <2>1, SimulatorConstants
  <2>3. x = (y + z + w + 1) + (h - 1)
    BY <2>1
  <2>4. counts'.attempted = counts'.success + counts'.error + counts'.timeout
                              + (h - 1)
    BY <1>7, <2>3
  <2>5. QED
    BY <1>13, <2>2, <2>4 DEF AttemptsCounted
<1>15. ResultsKept'
  <2>1. \A i \in Jobs : simulation'[i].at = "done" => Honest(i, simulated'[i])
    BY <1>4, <1>5 DEF SimulatorInv, ResultsKept
  <2>2. BatchAligned'
    BY <1>3 DEF SimulatorInv, ResultsKept, BatchAligned
  <2>3. QED
    BY <2>1, <2>2 DEF ResultsKept, Honest
<1>16. QED
  BY <1>8, <1>9, <1>14, <1>15 DEF SimulatorInv

\* A result that ended early claims nothing.
LEMMA FailedIsHonest ==
  ASSUME NEW j \in Jobs, NEW error \in {"provider", "timeout"}
  PROVE  Honest(j, Failed(j, error))
<1>1. /\ Failed(j, error).success = FALSE /\ Failed(j, error).error = error
      /\ Failed(j, error).bundle = j[2] /\ Failed(j, error).net = 0
      /\ Failed(j, error).gross = 0 /\ Failed(j, error).gas_cost = 0
  BY DEF Failed
<1>2. QED
  BY <1>1 DEF Honest

\* One simulation goes on: the others are not touched.
LEMMA SimulationGoesOn ==
  ASSUME SimulatorInv, NEW j \in Jobs, simulation[j].at \in {"block", "txs"},
         NEW new \in Simulations, new.at \in {"block", "txs"},
         simulation' = [simulation EXCEPT ![j] = new],
         UNCHANGED <<permit_queue, simulated, counts, answered, response>>
  PROVE  SimulatorInv'
<1>1. simulation \in [Jobs -> Simulations] /\ permit_queue \in Seq(Jobs)
  BY DEF SimulatorInv, SimulatorTypes
<1>2. /\ simulation' \in [Jobs -> Simulations] /\ simulation'[j] = new
      /\ \A i \in Jobs : i # j => simulation'[i] = simulation[i]
  BY <1>1
<1>3. SimulatorTypes'
  BY <1>2 DEF SimulatorInv, SimulatorTypes
<1>4. LineOk'
  <2>1. \A k \in 1..Len(permit_queue) :
          permit_queue[k] \in Jobs /\ permit_queue[k] # j
    BY <1>1, ElementOfSeq DEF SimulatorInv, LineOk
  <2>2. \A k \in 1..Len(permit_queue) : simulation'[permit_queue[k]].at = "queued"
    BY <1>2, <2>1 DEF SimulatorInv, LineOk
  <2>3. \A i \in Jobs : simulation'[i].at # "new" =>
          (simulation'[i].at = "rejected" <=> ~Converted(i))
    BY <1>2 DEF SimulatorInv, LineOk
  <2>4. QED
    BY <2>2, <2>3 DEF SimulatorInv, LineOk
<1>5. Holding(simulation)' = Holding(simulation)
  BY <1>2 DEF Holding
<1>6. AttemptsCounted'
  BY <1>5 DEF SimulatorInv, AttemptsCounted
<1>7. ResultsKept'
  BY <1>2 DEF SimulatorInv, ResultsKept, BatchAligned
<1>8. QED
  BY <1>3, <1>4, <1>6, <1>7 DEF SimulatorInv

\* What calculate_profit_estimate and the loop before it come to.
LEMMA FinishedIsHonest ==
  ASSUME NEW j \in Jobs, NEW oks \in Seq(BOOLEAN), NEW cost \in Nat,
         Len(oks) = Len(BundleOf(j).txs)
  PROVE  Honest(j, [success |-> AllSuccess(oks), error |-> "none",
                    bundle |-> j[2], gas_cost |-> cost,
                    gross |-> Profit(oks, cost).gross,
                    net |-> Profit(oks, cost).net,
                    confidence |-> Profit(oks, cost).confidence])
<1>1. PICK n \in Nat : n = Len(oks)
  BY LenProperties
<1> DEFINE good == {i \in 1..n : oks[i]}
<1>2. IsFiniteSet(1..n) /\ Cardinality(1..n) = n
  <2>1. 1 \in Int /\ n \in Int
    OBVIOUS
  <2>2. IsFiniteSet(1..n) /\ Cardinality(1..n) = IF 1 > n THEN 0 ELSE n - 1 + 1
    BY <2>1, FS_Interval
  <2>3. QED
    BY <2>2
<1>3. IsFiniteSet(good)
  BY <1>2, FS_Subset
<1>4. PICK m \in Nat : m = Cardinality(good)
  BY <1>3, FS_CardinalityType
<1>5. AllSuccess(oks) => m = n
  BY <1>1, <1>2, <1>4 DEF AllSuccess
<1> DEFINE profit == Profit(oks, cost)
<1>6. PICK g \in Nat : g = m * PROFIT
  BY SimulatorConstants
<1>7. PICK d \in Nat : /\ d = Max({0, g - cost})
                       /\ d = IF g - cost > 0 THEN g - cost ELSE 0
  <2>1. PICK z \in Int : z = g - cost
    OBVIOUS
  <2>2. \E d \in Nat : d = Max({0, z}) /\ d = IF z > 0 THEN z ELSE 0
    BY DEF Max
  <2>3. QED
    BY <2>1, <2>2
<1>8. profit.gross = g /\ profit.net = d /\ profit.confidence = <<m, n>>
  BY <1>1, <1>4, <1>6, <1>7 DEF Profit
<1>9. d <= g /\ (cost >= g => d = 0)
  BY <1>7
<1> DEFINE r == [success |-> AllSuccess(oks), error |-> "none",
                 bundle |-> j[2], gas_cost |-> cost, gross |-> profit.gross,
                 net |-> profit.net, confidence |-> profit.confidence]
<1>10. /\ r.success = AllSuccess(oks) /\ r.error = "none"
       /\ r.bundle = j[2] /\ r.gas_cost = cost /\ r.gross = g /\ r.net = d
       /\ r.confidence = <<m, n>>
  BY <1>8
<1> HIDE DEF r
<1>11. Honest(j, r)
  BY <1>1, <1>5, <1>9, <1>10 DEF Honest
<1>12. QED
  BY <1>11 DEF r

\* The simulation of a bundle: the block, the transactions, the result
\* (simulate_bundle, simulate_bundle_internal).
LEMMA JobKeeps ==
  ASSUME SimulatorInv, NEW j \in Jobs,
         \/ GetBlock(j) \/ SimulateTransaction(j) \/ FinishSimulation(j)
         \/ Timeout(j)
  PROVE  SimulatorInv'
<1>1. PICK s \in Simulations : s = simulation[j]
  BY DEF SimulatorInv, SimulatorTypes
<1>2. CASE GetBlock(j)
  <2>1. CASE End(j, Failed(j, "provider"), "error")
    <3>1. simulation[j].at \in {"block", "txs"}
      BY <1>2 DEF GetBlock
    <3>2. QED
      BY <2>1, <3>1, FailedIsHonest, EndKeeps
  <2>2. CASE ~End(j, Failed(j, "provider"), "error")
    <3> DEFINE new == [s EXCEPT !.at = "txs"]
    <3>1. new \in Simulations /\ new.at = "txs"
      BY DEF Simulations
    <3>2. /\ simulation[j].at = "block"
          /\ simulation' = [simulation EXCEPT ![j] = new]
          /\ UNCHANGED <<permit_queue, simulated, counts, answered, response>>
      BY <1>1, <1>2, <2>2 DEF GetBlock
    <3> HIDE DEF new
    <3>3. QED
      BY <3>1, <3>2, SimulationGoesOn
  <2>3. QED
    BY <2>1, <2>2
<1>3. CASE SimulateTransaction(j)
  <2>1. PICK txs \in Seq([gas_limit : Nat, gas_price : Nat]) :
          txs = BundleOf(j).txs
    BY RequestParts
  <2>2. PICK n \in Nat : n = Len(s.done)
    BY LenProperties DEF Simulations
  <2>3. s.at = "txs" /\ n < Len(txs) /\ Len(txs) \in Nat
    BY <1>1, <1>3, <2>1, <2>2, LenProperties DEF SimulateTransaction
  <2>4. PICK tx \in [gas_limit : Nat, gas_price : Nat] : tx = txs[n + 1]
    <3>1. n + 1 \in 1..Len(txs)
      BY <2>3
    <3>2. QED
      BY <3>1, ElementOfSeq
  <2>5. PICK ok \in BOOLEAN, gas \in Nat :
          simulation' = [simulation EXCEPT
            ![j] = [s EXCEPT !.done = Append(s.done, ok),
                             !.cost = s.cost + tx.gas_price * gas]]
    <3>1. PICK r \in {[success |-> FALSE, gas_used |-> 0],
                      [success |-> TRUE, gas_used |-> 1],
                      [success |-> TRUE, gas_used |-> tx.gas_limit]} :
            simulation' = [simulation EXCEPT
              ![j].done = Append(@, r.success),
              ![j].cost = @ + tx.gas_price * r.gas_used]
      BY <1>1, <1>3, <2>1, <2>2, <2>4 DEF SimulateTransaction
    <3>2. r.success \in BOOLEAN /\ r.gas_used \in Nat
      <4>1. tx.gas_limit \in Nat
        OBVIOUS
      <4>2. CASE r = [success |-> FALSE, gas_used |-> 0]
        BY <4>2
      <4>3. CASE r = [success |-> TRUE, gas_used |-> 1]
        BY <4>3
      <4>4. CASE r = [success |-> TRUE, gas_used |-> tx.gas_limit]
        BY <4>1, <4>4
      <4>5. QED
        BY <4>2, <4>3, <4>4
    <3>3. simulation' = [simulation EXCEPT
            ![j] = [s EXCEPT !.done = Append(s.done, r.success),
                             !.cost = s.cost + tx.gas_price * r.gas_used]]
      BY <1>1, <3>1 DEF SimulatorInv, SimulatorTypes
    <3>4. QED
      BY <3>2, <3>3
  <2>6. PICK done \in Seq(BOOLEAN), cost \in Nat :
          done = Append(s.done, ok) /\ cost = s.cost + tx.gas_price * gas
    <3>1. Append(s.done, ok) \in Seq(BOOLEAN)
      BY AppendProperties DEF Simulations
    <3>2. tx.gas_price * gas \in Nat
      BY <2>4
    <3>3. s.cost + tx.gas_price * gas \in Nat
      BY <3>2 DEF Simulations
    <3>4. QED
      BY <3>1, <3>3
  <2> DEFINE new == [s EXCEPT !.done = done, !.cost = cost]
  <2>7. new \in Simulations /\ new.at = "txs"
    BY <2>3 DEF Simulations
  <2>8. simulation' = [simulation EXCEPT ![j] = new]
    BY <2>5, <2>6
  <2> HIDE DEF new
  <2>9. UNCHANGED <<permit_queue, simulated, counts, answered, response>>
    BY <1>3 DEF SimulateTransaction
  <2>10. QED
    BY <1>1, <2>3, <2>7, <2>8, <2>9, SimulationGoesOn
<1>4. CASE FinishSimulation(j)
  <2>1. PICK oks \in Seq(BOOLEAN), cost \in Nat :
          oks = s.done /\ cost = s.cost
    BY DEF Simulations
  <2> DEFINE r == [success |-> AllSuccess(oks), error |-> "none",
                   bundle |-> j[2], gas_cost |-> cost,
                   gross |-> Profit(oks, cost).gross,
                   net |-> Profit(oks, cost).net,
                   confidence |-> Profit(oks, cost).confidence]
  <2>2. /\ simulation[j].at = "txs" /\ Len(oks) = Len(BundleOf(j).txs)
        /\ End(j, r, "success")
    BY <1>1, <1>4, <2>1 DEF FinishSimulation
  <2>3. Honest(j, r)
    BY <2>2, FinishedIsHonest
  <2> HIDE DEF r
  <2>4. QED
    BY <2>2, <2>3, EndKeeps
<1>5. CASE Timeout(j)
  <2>1. /\ simulation[j].at \in {"block", "txs"}
        /\ End(j, Failed(j, "timeout"), "timeout")
    BY <1>5 DEF Timeout, InProgress
  <2>2. QED
    BY <2>1, FailedIsHonest, EndKeeps
<1>6. QED
  BY <1>2, <1>3, <1>4, <1>5

\* The answer lists the results of the converted bundles, in their order
\* (simulate_bundles_batch_internal).
LEMMA RespondKeeps ==
  ASSUME SimulatorInv, NEW c \in Clients, Respond(c) PROVE SimulatorInv'
<1> DEFINE S == {i \in Numbers(c) : simulation[<<c, i>>].at = "done"}
           T == {i \in Numbers(c) : BatchRequests[c].api = "http"
                                      \/ BundleOf(<<c, i>>).valid}
<1>1. ASSUME NEW i \in Numbers(c) PROVE i \in S <=> i \in T
  <2>1. PICK j \in Jobs : j = <<c, i>> /\ j[1] = c
    BY RequestParts
  <2>2. simulation[j].at \in {"done", "rejected"}
    BY <2>1 DEF Respond, Over
  <2>3. simulation[j].at = "rejected" <=> ~Converted(j)
    BY <2>2 DEF SimulatorInv, LineOk
  <2>4. Converted(j) <=> BatchRequests[c].api = "http"
                           \/ BundleOf(<<c, i>>).valid
    BY <2>1 DEF Converted
  <2>5. QED
    BY <2>1, <2>2, <2>3, <2>4
<1>2. S = T
  BY <1>1
<1>3. PICK n \in Nat : Numbers(c) = 1..n
  BY RequestParts DEF Numbers
<1>4. S \in SUBSET (1..n) /\ \A i \in S : i \in Numbers(c)
                               /\ simulation[<<c, i>>].at = "done"
  BY <1>3
<1>5. PICK kept \in InOrder(S) : response' = [response EXCEPT ![c] =
        [k \in DOMAIN kept |-> simulated[<<c, kept[k]>>]]]
  BY DEF Respond
<1> HIDE DEF S
<1>6. PICK b \in Nat : b = Cardinality(S) /\ kept \in [1..b -> S]
  BY <1>4, Ascending
<1> DEFINE line == [k \in 1..b |-> simulated[<<c, kept[k]>>]]
<1>7. /\ response' = [response EXCEPT ![c] = line]
      /\ UNCHANGED <<simulation, permit_queue, simulated, counts>>
      /\ answered' = answered \cup {c} /\ c \notin answered
  BY <1>5, <1>6 DEF Respond
<1>8. \A k \in 1..b : line[k].bundle = kept[k]
  <2>1. SUFFICES ASSUME NEW k \in 1..b
                 PROVE  simulated[<<c, kept[k]>>].bundle = kept[k]
    OBVIOUS
  <2>2. kept[k] \in S
    BY <1>6
  <2>3. PICK j \in Jobs : j = <<c, kept[k]>> /\ j[2] = kept[k]
    BY <1>4, <2>2, RequestParts
  <2>4. simulation[j].at = "done"
    BY <1>4, <2>2, <2>3
  <2>5. QED
    BY <2>3, <2>4 DEF SimulatorInv, ResultsKept, Honest
<1>9. DOMAIN line = 1..b
  OBVIOUS
<1> HIDE DEF line
<1>10. [k \in DOMAIN line |-> line[k].bundle] = kept
  BY <1>6, <1>8, <1>9
<1>11. /\ response'[c] = line /\ DOMAIN response' = Clients
       /\ \A d \in Clients : d # c => response'[d] = response[d]
  BY <1>7 DEF SimulatorInv, SimulatorTypes
<1>12. answered \subseteq Clients
  BY DEF SimulatorInv, SimulatorTypes
<1>13. [k \in DOMAIN response'[c] |-> response'[c][k].bundle] \in InOrder(T)
  BY <1>2, <1>5, <1>10, <1>11
<1>14. BatchAligned'
  <2>1. SUFFICES ASSUME NEW d \in answered'
                 PROVE  [k \in DOMAIN response'[d] |-> response'[d][k].bundle]
                          \in InOrder({i \in Numbers(d) :
                                         BatchRequests[d].api = "http"
                                           \/ BundleOf(<<d, i>>).valid})
    BY DEF BatchAligned
  <2>2. CASE d = c
    BY <1>13, <2>2
  <2>3. CASE d # c
    <3>1. d \in answered /\ response'[d] = response[d]
      BY <1>7, <1>11, <1>12, <2>3
    <3>2. QED
      BY <3>1 DEF SimulatorInv, ResultsKept, BatchAligned
  <2>4. QED
    BY <2>2, <2>3
<1>15. SimulatorTypes'
  BY <1>7, <1>11, <1>12 DEF SimulatorInv, SimulatorTypes
<1>16. LineOk' /\ AttemptsCounted'
  BY <1>7 DEF SimulatorInv, LineOk, AttemptsCounted, Holding
<1>17. ResultsKept'
  BY <1>7, <1>14 DEF SimulatorInv, ResultsKept
<1>18. QED
  BY <1>15, <1>16, <1>17 DEF SimulatorInv

\* However the bundles of several requests are simulated, time out or lose
\* their provider, each attempt is counted once, each result is that of its
\* bundle, and each answer lists them in order (simulate_bundle,
\* simulate_bundles_batch, simulate_bundles).
THEOREM SimulatorInvariant == SimulatorSpec => []SimulatorInv
<1>1. ASSUME SimulatorInv, UNCHANGED simVars PROVE SimulatorInv'
  BY <1>1 DEF simVars, SimulatorInv, SimulatorTypes, LineOk, AttemptsCounted,
              Holding, ResultsKept, BatchAligned
<1>2. SimulatorInv /\ [SimulatorNext]_simVars => SimulatorInv'
  BY <1>1, SubmitKeeps, RespondKeeps, AcquireKeeps, JobKeeps DEF SimulatorNext
<1>3. QED
  BY <1>2, SimulatorInitially, PTL DEF SimulatorSpec

\* The properties of the simulator that SimulationSafe states.
LEMMA SimulatorByInv ==
  SimulatorInv => SimulationsCounted /\ ResultsHonest /\ BatchAligned
<1> SUFFICES ASSUME SimulatorInv
             PROVE  SimulationsCounted /\ ResultsHonest /\ BatchAligned
  OBVIOUS
<1>1. Active = Cardinality(Holding(simulation))
  BY DEF Active, InProgress, Holding
<1>2. SimulationsCounted
  BY <1>1 DEF SimulatorInv, AttemptsCounted, SimulationsCounted
<1>3. ResultsHonest
  BY DEF SimulatorInv, ResultsKept, Honest, ResultsHonest
<1>4. QED
  BY <1>2, <1>3 DEF SimulatorInv, ResultsKept

\* In every behaviour the fork simulator takes its own steps, or none.
LEMMA SimulatorPart == Spec => SimulatorSpec
<1>1. Init => SimulatorInit
  BY DEF Init
<1>2. [Next]_vars => [SimulatorNext]_simVars
  BY DEF Next, vars, Engine, Config, Health, Simulator, Optimizer,
         Client, Latency, simVars
<1>3. QED
  BY <1>1, <1>2, PTL DEF Spec, SimulatorSpec

-----------------------------------------------------------------------------
(* The batching simulation engine                                          *)

OptimizerSpec == OptimizerInit /\ [][OptimizerNext]_optVars

Batches == [at : {"new", "run", "collect", "sent", "lost"},
            left : Nat, results : Nat]

OptimizerTypes ==
  /\ caller \in [Callers -> [at : {"idle", "send", "wait"}, id : Nat]]
  /\ simulation_counter \in Nat
  /\ batch_channel \in Seq(Ids) /\ pending_batches \in Seq(Ids)
  /\ batch \in [Ids -> Batches]

Waiting == {d \in Callers : caller[d].at \in {"send", "wait"}}

\* A number has one owner: a caller under way, or one that gave up.
Entries ==
  /\ OnlyTimeoutsLeak
  /\ \A c, d \in Waiting : caller[c].id = caller[d].id => c = d
  /\ \A c \in Waiting :
       /\ caller[c].id \in Ids /\ caller[c].id < simulation_counter
       /\ caller[c].id \notin gaveUp
  /\ \A id \in gaveUp : id < simulation_counter /\ id \in Ids

Elems(q) == {q[k] : k \in 1..Len(q)}
Once(q) == \A k, m \in 1..Len(q) : q[k] = q[m] => k = m
InLine == Elems(batch_channel) \cup Elems(pending_batches)

\* A batch is in the line at most once and not started there, and its entry is
\* there from before it is sent until its result is.
Lines ==
  /\ Once(batch_channel) /\ Once(pending_batches)
  /\ Elems(batch_channel) \cap Elems(pending_batches) = {}
  /\ \A id \in InLine : batch[id].at = "new" /\ id \in result_receivers
  /\ \A c \in Callers : caller[c].at = "send" =>
       batch[caller[c].id].at = "new" /\ caller[c].id \notin InLine
  /\ \A id \in Ids : /\ Running(id) => id \in result_receivers
                     /\ id >= simulation_counter => batch[id].at = "new"
  /\ LostOnlyLate

OptimizerInv == OptimizerTypes /\ Entries /\ Lines

\* At the end of the line.
LEMMA AppendOnce ==
  ASSUME NEW S, NEW q \in Seq(S), NEW x \in S, Once(q), x \notin Elems(q)
  PROVE  /\ Append(q, x) \in Seq(S) /\ Once(Append(q, x))
         /\ Elems(Append(q, x)) = Elems(q) \cup {x}
<1>1. PICK n \in Nat : n = Len(q)
  BY LenProperties
<1>2. PICK r \in Seq(S) : r = Append(q, x)
  BY AppendProperties
<1>3. Len(r) = n + 1 /\ r[n + 1] = x /\ \A k \in 1..n : r[k] = q[k]
  BY <1>1, <1>2, AppendProperties
<1>4. Elems(r) = Elems(q) \cup {x}
  BY <1>1, <1>3 DEF Elems
<1>5. ASSUME NEW k \in 1..n + 1, NEW m \in 1..n + 1, r[k] = r[m] PROVE k = m
  <2>1. CASE k \in 1..n /\ m \in 1..n
    BY <1>1, <1>3, <1>5, <2>1 DEF Once
  <2>2. CASE k = n + 1 /\ m \in 1..n
    BY <1>1, <1>3, <1>5, <2>2 DEF Elems
  <2>3. CASE m = n + 1 /\ k \in 1..n
    BY <1>1, <1>3, <1>5, <2>3 DEF Elems
  <2>4. QED
    BY <2>1, <2>2, <2>3
<1>6. QED
  BY <1>2, <1>3, <1>4, <1>5 DEF Once

\* The first leaves the line.
LEMMA TailOnce ==
  ASSUME NEW S, NEW q \in Seq(S), q # <<>>, Once(q)
  PROVE  /\ Head(q) \in S /\ Head(q) \in Elems(q)
         /\ Tail(q) \in Seq(S) /\ Once(Tail(q))
         /\ Elems(Tail(q)) = Elems(q) \ {Head(q)}
<1>1. PICK n \in Nat : n = Len(q) /\ n > 0
  <2>1. Len(q) \in Nat /\ Len(q) # 0
    BY EmptySeq, LenProperties
  <2>2. QED
    BY <2>1
<1>2. PICK r \in Seq(S) : r = Tail(q)
  BY HeadTailProperties
<1>3. Len(r) = n - 1 /\ \A k \in 1..n - 1 : r[k] = q[k + 1]
  BY <1>1, <1>2, HeadTailProperties
<1>4. PICK x \in S : x = Head(q) /\ x = q[1]
  BY HeadTailProperties
<1>5. x \in Elems(q)
  BY <1>1, <1>4 DEF Elems
<1>6. ASSUME NEW k \in 1..n - 1
      PROVE  k + 1 \in 1..n /\ r[k] = q[k + 1] /\ r[k] # x
  <2>1. k + 1 \in 1..n /\ 1 \in 1..n /\ k + 1 # 1
    BY <1>1
  <2>2. QED
    BY <1>1, <1>3, <1>4, <2>1 DEF Once
<1>7. Elems(r) = Elems(q) \ {x}
  <2>1. Elems(r) \subseteq Elems(q) \ {x}
    BY <1>1, <1>3, <1>6 DEF Elems
  <2>2. ASSUME NEW y \in Elems(q), y # x PROVE y \in Elems(r)
    <3>1. PICK k \in 1..n : y = q[k]
      BY <1>1 DEF Elems
    <3>2. k # 1
      BY <1>4, <2>2, <3>1
    <3>3. k - 1 \in 1..n - 1 /\ (k - 1) + 1 = k
      BY <3>2
    <3>4. r[k - 1] = y
      BY <1>3, <3>1, <3>3
    <3>5. QED
      BY <1>3, <3>3, <3>4 DEF Elems
  <2>3. QED
    BY <2>1, <2>2
<1>8. Once(r)
  <2>1. SUFFICES ASSUME NEW k \in 1..n - 1, NEW m \in 1..n - 1, r[k] = r[m]
                 PROVE  k = m
    BY <1>3 DEF Once
  <2>2. k + 1 = m + 1
    BY <1>1, <1>6, <2>1 DEF Once
  <2>3. QED
    BY <2>2
<1>9. QED
  BY <1>2, <1>4, <1>5, <1>7, <1>8

\* Nothing has been asked for at first.
LEMMA OptimizerInitially == OptimizerInit => OptimizerInv
<1> SUFFICES ASSUME OptimizerInit PROVE OptimizerInv
  OBVIOUS
<1>1. /\ \A c \in Callers : caller[c] = [at |-> "idle", id |-> 0]
      /\ caller \in [Callers -> [at : {"idle", "send", "wait"}, id : Nat]]
  BY DEF OptimizerInit
<1>2. NewBatch \in Batches /\ NewBatch.at = "new"
  BY DEF NewBatch, Batches
<1>3. batch \in [Ids -> Batches] /\ \A id \in Ids : batch[id].at = "new"
  BY <1>2 DEF OptimizerInit
<1>4. OptimizerTypes
  BY <1>1, <1>3, EmptySeq DEF OptimizerInit, OptimizerTypes
<1>5. Waiting = {}
  BY <1>1 DEF Waiting
<1>6. Entries
  <2>1. {caller[c].id : c \in Waiting} = {}
    BY <1>5
  <2>2. OnlyTimeoutsLeak
    BY <2>1 DEF OptimizerInit, OnlyTimeoutsLeak, Waiting
  <2>3. QED
    BY <1>5, <2>2 DEF OptimizerInit, Entries
<1>7. Len(batch_channel) = 0 /\ Len(pending_batches) = 0
  BY DEF OptimizerInit
<1>8. /\ Elems(batch_channel) = {} /\ Elems(pending_batches) = {}
      /\ Once(batch_channel) /\ Once(pending_batches)
  BY <1>7 DEF Elems, Once
<1>9. Lines
  BY <1>1, <1>3, <1>8 DEF Lines, InLine, Running, LostOnlyLate
<1>10. QED
  BY <1>4, <1>6, <1>9 DEF OptimizerInv

\* OnlyTimeoutsLeak in the words of the invariant.
LEMMA EntriesAre ==
  OnlyTimeoutsLeak <=> result_receivers = gaveUp \cup {caller[c].id : c \in Waiting}
  BY DEF OnlyTimeoutsLeak, Waiting

\* simulate_batch enters its sender under a number nobody has.
LEMMA EnterKeeps ==
  ASSUME OptimizerInv, NEW c \in Callers, EnterReceiver(c) PROVE OptimizerInv'
<1>1. PICK n \in Nat : n = simulation_counter
  BY DEF OptimizerInv, OptimizerTypes
<1>2. n \in Ids
  BY <1>1, OptimizerConstants DEF EnterReceiver, Ids
<1> DEFINE new == [at |-> "send", id |-> n]
<1>3. /\ new \in [at : {"idle", "send", "wait"}, id : Nat]
      /\ new.at = "send" /\ new.id = n
  OBVIOUS
<1>4. /\ caller[c].at = "idle" /\ caller' = [caller EXCEPT ![c] = new]
      /\ simulation_counter' = n + 1
      /\ result_receivers' = result_receivers \cup {n}
      /\ UNCHANGED <<batch_channel, pending_batches, batch, gaveUp>>
  BY <1>1 DEF EnterReceiver, work
<1> HIDE DEF new
<1>5. /\ caller' \in [Callers -> [at : {"idle", "send", "wait"}, id : Nat]]
      /\ caller'[c] = new /\ \A d \in Callers : d # c => caller'[d] = caller[d]
  BY <1>3, <1>4 DEF OptimizerInv, OptimizerTypes
<1>6. OptimizerTypes'
  BY <1>1, <1>4, <1>5 DEF OptimizerInv, OptimizerTypes
<1>7. Waiting' = Waiting \cup {c} /\ c \notin Waiting
  BY <1>3, <1>4, <1>5 DEF Waiting
<1>8. /\ \A d \in Waiting : /\ d \in Callers /\ d # c
                            /\ caller[d].id \in Nat /\ caller[d].id < n
                            /\ caller[d].id \in Ids /\ caller[d].id \notin gaveUp
      /\ \A id \in gaveUp : id < n
  BY <1>1, <1>7 DEF OptimizerInv, OptimizerTypes, Entries, Waiting
<1>9. n \notin gaveUp
  BY <1>8
<1>10. gaveUp \subseteq Int
  <2>1. gaveUp \subseteq Ids
    BY DEF OptimizerInv, Entries
  <2>2. QED
    BY <2>1 DEF Ids
<1>11. Entries'
  <2>1. result_receivers' = gaveUp' \cup {caller'[d].id : d \in Waiting'}
    <3>1. result_receivers = gaveUp \cup {caller[d].id : d \in Waiting}
      BY EntriesAre DEF OptimizerInv, Entries
    <3>2. {caller'[d].id : d \in Waiting'} = {caller[d].id : d \in Waiting} \cup {n}
      BY <1>3, <1>5, <1>7, <1>8
    <3>3. QED
      BY <1>4, <3>1, <3>2
  <2>2. OnlyTimeoutsLeak'
    BY <2>1 DEF OnlyTimeoutsLeak, Waiting
  <2>3. \A d, w \in Waiting' : caller'[d].id = caller'[w].id => d = w
    BY <1>3, <1>5, <1>7, <1>8 DEF OptimizerInv, Entries
  <2>4. \A d \in Waiting' : /\ caller'[d].id \in Ids /\ caller'[d].id < n + 1
                            /\ caller'[d].id \notin gaveUp
    BY <1>2, <1>3, <1>5, <1>7, <1>8, <1>9
  <2>5. \A id \in gaveUp : id < n + 1 /\ id \in Ids
    <3>1. \A id \in gaveUp : id < n + 1
      BY <1>8, <1>10
    <3>2. QED
      BY <3>1 DEF OptimizerInv, Entries
  <2>6. QED
    BY <1>4, <2>2, <2>3, <2>4, <2>5 DEF Entries
<1>12. n \notin result_receivers
  BY <1>8, <1>9, EntriesAre DEF OptimizerInv, Entries
<1>13. n \notin InLine /\ batch[n].at = "new"
  BY <1>1, <1>2, <1>12 DEF OptimizerInv, Lines
<1>14. Lines'
  <2>1. InLine' = InLine
    BY <1>4 DEF InLine, Elems
  <2>2. \A id \in InLine' : batch'[id].at = "new" /\ id \in result_receivers'
    BY <1>4, <2>1 DEF OptimizerInv, Lines
  <2>3. \A d \in Callers : caller'[d].at = "send" =>
          batch'[caller'[d].id].at = "new" /\ caller'[d].id \notin InLine'
    BY <1>3, <1>4, <1>5, <1>13, <2>1 DEF OptimizerInv, Lines
  <2>4. ASSUME NEW id \in Ids
        PROVE  /\ Running(id)' => id \in result_receivers'
               /\ id >= simulation_counter' => batch'[id].at = "new"
    <3>1. Running(id)' = Running(id)
      BY <1>4 DEF Running
    <3>2. id \in Int /\ (id >= n + 1 => id >= n)
      BY DEF Ids
    <3>3. QED
      BY <1>1, <1>4, <3>1, <3>2 DEF OptimizerInv, Lines
  <2>5. QED
    BY <1>4, <2>2, <2>3, <2>4
       DEF OptimizerInv, Lines, LostOnlyLate, Once, Elems
<1>15. QED
  BY <1>6, <1>11, <1>14 DEF OptimizerInv

\* The request goes to the end of the channel.
LEMMA SendKeeps ==
  ASSUME OptimizerInv, NEW c \in Callers, SendRequest(c) PROVE OptimizerInv'
<1>1. /\ caller[c].at = "send" /\ c \in Waiting
      /\ caller[c] \in [at : {"idle", "send", "wait"}, id : Nat]
  BY DEF SendRequest, Waiting, OptimizerInv, OptimizerTypes
<1>2. PICK n \in Ids : n = caller[c].id
  BY <1>1 DEF OptimizerInv, Entries
<1> DEFINE new == [caller[c] EXCEPT !.at = "wait"]
<1>3. /\ new \in [at : {"idle", "send", "wait"}, id : Nat]
      /\ new.at = "wait" /\ new.id = n
  BY <1>1, <1>2
<1>4. /\ caller' = [caller EXCEPT ![c] = new]
      /\ batch_channel' = Append(batch_channel, n)
      /\ UNCHANGED <<simulation_counter, result_receivers, pending_batches,
                     batch, gaveUp>>
  BY <1>2 DEF SendRequest, work
<1> HIDE DEF new
<1>5. /\ caller' \in [Callers -> [at : {"idle", "send", "wait"}, id : Nat]]
      /\ caller'[c] = new /\ \A d \in Callers : d # c => caller'[d] = caller[d]
  BY <1>3, <1>4 DEF OptimizerInv, OptimizerTypes
<1>6. Waiting' = Waiting
  BY <1>1, <1>3, <1>5 DEF Waiting
<1>7. \A d \in Waiting : d \in Callers /\ caller'[d].id = caller[d].id
  BY <1>2, <1>3, <1>5 DEF Waiting
<1>8. Entries'
  <2>1. {caller'[d].id : d \in Waiting} = {caller[d].id : d \in Waiting}
    BY <1>7
  <2>2. result_receivers' = gaveUp' \cup {caller'[d].id : d \in Waiting'}
    BY <1>4, <1>6, <2>1, EntriesAre DEF OptimizerInv, Entries
  <2>3. OnlyTimeoutsLeak'
    BY <2>2 DEF OnlyTimeoutsLeak, Waiting
  <2>4. QED
    BY <1>4, <1>6, <1>7, <2>3 DEF OptimizerInv, Entries
<1>9. n \notin InLine /\ batch[n].at = "new" /\ n \in result_receivers
  <2>1. n \notin InLine /\ batch[n].at = "new"
    BY <1>1, <1>2 DEF OptimizerInv, Lines
  <2>2. n \in result_receivers
    BY <1>1, <1>2, EntriesAre DEF OptimizerInv, Entries
  <2>3. QED
    BY <2>1, <2>2
<1>10. /\ batch_channel' \in Seq(Ids) /\ Once(batch_channel')
       /\ Elems(batch_channel') = Elems(batch_channel) \cup {n}
  <2>1. batch_channel \in Seq(Ids) /\ Once(batch_channel)
        /\ n \notin Elems(batch_channel)
    BY <1>9 DEF OptimizerInv, OptimizerTypes, Lines, InLine
  <2>2. QED
    BY <1>4, <2>1, AppendOnce
<1>11. OptimizerTypes'
  BY <1>4, <1>5, <1>10 DEF OptimizerInv, OptimizerTypes
<1>12. Lines'
  <2>1. InLine' = InLine \cup {n}
    BY <1>4, <1>10 DEF InLine, Elems
  <2>2. \A id \in InLine' : batch'[id].at = "new" /\ id \in result_receivers'
    BY <1>4, <1>9, <2>1 DEF OptimizerInv, Lines
  <2>3. ASSUME NEW d \in Callers, caller'[d].at = "send"
        PROVE  batch'[caller'[d].id].at = "new" /\ caller'[d].id \notin InLine'
    <3>1. d # c /\ caller'[d] = caller[d]
      BY <1>3, <1>5, <2>3
    <3>2. caller[d].id # n
      BY <1>1, <1>2, <2>3, <3>1 DEF OptimizerInv, Entries, Waiting
    <3>3. QED
      BY <1>4, <2>1, <2>3, <3>1, <3>2 DEF OptimizerInv, Lines
  <2>4. Elems(batch_channel') \cap Elems(pending_batches') = {}
    BY <1>4, <1>9, <1>10 DEF OptimizerInv, Lines, InLine
  <2>5. \A id \in Ids : Running(id)' = Running(id)
    BY <1>4 DEF Running
  <2>6. Once(batch_channel)' /\ Once(pending_batches)'
    BY <1>4, <1>10 DEF OptimizerInv, Lines, Once
  <2>7. LostOnlyLate'
    BY <1>4 DEF OptimizerInv, Lines, LostOnlyLate
  <2>8. (Elems(batch_channel) \cap Elems(pending_batches) = {})'
    BY <2>4 DEF Elems
  <2>9. QED
    BY <1>4, <2>2, <2>3, <2>5, <2>6, <2>7, <2>8 DEF OptimizerInv, Lines
<1>13. QED
  BY <1>8, <1>11, <1>12 DEF OptimizerInv

\* A caller leaves, with its result or without.
LEMMA LeaveKeeps ==
  ASSUME OptimizerInv, NEW c \in Callers, TakeResult(c) \/ GiveUp(c)
  PROVE  OptimizerInv'
<1>1. /\ caller[c].at = "wait" /\ c \in Waiting
      /\ caller[c] \in [at : {"idle", "send", "wait"}, id : Nat]
  BY DEF TakeResult, GiveUp, Waiting, OptimizerInv, OptimizerTypes
<1>2. PICK n \in Ids : n = caller[c].id
  BY <1>1 DEF OptimizerInv, Entries
<1> DEFINE new == [caller[c] EXCEPT !.at = "idle"]
<1>3. /\ new \in [at : {"idle", "send", "wait"}, id : Nat] /\ new.at = "idle"
  BY <1>1
<1>4. /\ caller' = [caller EXCEPT ![c] = new]
      /\ UNCHANGED <<simulation_counter, batch_channel, pending_batches, batch>>
      /\ \/ /\ result_receivers' = result_receivers \ {n} /\ gaveUp' = gaveUp
            /\ batch[n].at = "sent"
         \/ result_receivers' = result_receivers /\ gaveUp' = gaveUp \cup {n}
  BY <1>2 DEF TakeResult, GiveUp, work
<1> HIDE DEF new
<1>5. /\ caller' \in [Callers -> [at : {"idle", "send", "wait"}, id : Nat]]
      /\ caller'[c] = new /\ \A d \in Callers : d # c => caller'[d] = caller[d]
  BY <1>3, <1>4 DEF OptimizerInv, OptimizerTypes
<1>6. Waiting' = Waiting \ {c}
  BY <1>3, <1>5 DEF Waiting
<1>7. OptimizerTypes'
  BY <1>4, <1>5 DEF OptimizerInv, OptimizerTypes
<1>8. \A d \in Waiting' : /\ d \in Waiting /\ d # c /\ caller'[d] = caller[d]
                          /\ caller[d].id # n
  BY <1>1, <1>2, <1>5, <1>6 DEF OptimizerInv, Entries, Waiting
<1>9. n < simulation_counter /\ n \notin gaveUp
  BY <1>1, <1>2 DEF OptimizerInv, Entries
<1>10. Entries'
  <2>1. result_receivers = gaveUp \cup {caller[d].id : d \in Waiting}
    BY EntriesAre DEF OptimizerInv, Entries
  <2>2. /\ {caller[d].id : d \in Waiting} = {caller[d].id : d \in Waiting'} \cup {n}
        /\ {caller'[d].id : d \in Waiting'} = {caller[d].id : d \in Waiting'}
        /\ n \notin {caller[d].id : d \in Waiting'}
    BY <1>1, <1>2, <1>6, <1>8
  <2>3. result_receivers' = gaveUp' \cup {caller'[d].id : d \in Waiting'}
    BY <1>4, <1>9, <2>1, <2>2
  <2>4. OnlyTimeoutsLeak'
    BY <2>3 DEF OnlyTimeoutsLeak, Waiting
  <2>5. \A id \in gaveUp' : id < simulation_counter /\ id \in Ids
    BY <1>4, <1>9 DEF OptimizerInv, Entries
  <2>6. \A d \in Waiting' : caller'[d].id \notin gaveUp'
    BY <1>4, <1>8 DEF OptimizerInv, Entries
  <2>7. QED
    BY <1>4, <1>8, <2>4, <2>5, <2>6 DEF OptimizerInv, Entries
<1>11. Lines'
  <2>1. InLine' = InLine
    BY <1>4 DEF InLine, Elems
  <2>2. ASSUME NEW id, id \in result_receivers,
               id \in InLine \/ (id \in Ids /\ Running(id))
        PROVE  id \in result_receivers'
    <3>1. batch[id].at # "sent"
      BY <2>2 DEF OptimizerInv, Lines, Running
    <3>2. QED
      BY <1>4, <2>2, <3>1
  <2>3. \A id \in InLine' : batch'[id].at = "new" /\ id \in result_receivers'
    BY <1>4, <2>1, <2>2 DEF OptimizerInv, Lines
  <2>4. \A d \in Callers : caller'[d].at = "send" =>
          batch'[caller'[d].id].at = "new" /\ caller'[d].id \notin InLine'
    BY <1>3, <1>4, <1>5, <2>1 DEF OptimizerInv, Lines
  <2>5. \A id \in Ids : Running(id)' = Running(id)
    BY <1>4 DEF Running
  <2>6. \A id \in Ids : Running(id)' => id \in result_receivers'
    BY <2>2, <2>5 DEF OptimizerInv, Lines
  <2>7. LostOnlyLate'
    BY <1>4 DEF OptimizerInv, Lines, LostOnlyLate
  <2>8. QED
    BY <1>4, <2>3, <2>4, <2>6, <2>7, SMTT(30) DEF OptimizerInv, Lines, Once, Elems
<1>12. QED
  BY <1>7, <1>10, <1>11 DEF OptimizerInv

\* The processor takes a request from the channel.
LEMMA ReceiveKeeps == ASSUME OptimizerInv, ReceiveRequest PROVE OptimizerInv'
<1>1. /\ batch_channel \in Seq(Ids) /\ pending_batches \in Seq(Ids)
      /\ Once(batch_channel) /\ Once(pending_batches) /\ batch_channel # <<>>
      /\ Elems(batch_channel) \cap Elems(pending_batches) = {}
  BY DEF OptimizerInv, OptimizerTypes, Lines, ReceiveRequest
<1>2. PICK n \in Ids : n = Head(batch_channel) /\ n \in Elems(batch_channel)
  BY <1>1, TailOnce
<1>3. /\ batch_channel' = Tail(batch_channel)
      /\ pending_batches' = Append(pending_batches, n)
      /\ UNCHANGED <<caller, simulation_counter, result_receivers, batch, gaveUp>>
  BY <1>2 DEF ReceiveRequest
<1>4. /\ batch_channel' \in Seq(Ids) /\ Once(batch_channel')
      /\ Elems(batch_channel') = Elems(batch_channel) \ {n}
  BY <1>1, <1>2, <1>3, TailOnce
<1>5. n \notin Elems(pending_batches)
  BY <1>1, <1>2
<1>6. /\ pending_batches' \in Seq(Ids) /\ Once(pending_batches')
      /\ Elems(pending_batches') = Elems(pending_batches) \cup {n}
  BY <1>1, <1>3, <1>5, AppendOnce
<1>7. OptimizerTypes'
  BY <1>3, <1>4, <1>6 DEF OptimizerInv, OptimizerTypes
<1>8. Entries'
  BY <1>3 DEF OptimizerInv, Entries, Waiting, OnlyTimeoutsLeak
<1>9. Lines'
  <2>1. InLine' = InLine
    BY <1>2, <1>4, <1>6 DEF InLine, Elems
  <2>2. (Elems(batch_channel) \cap Elems(pending_batches) = {})'
    BY <1>1, <1>4, <1>6 DEF Elems
  <2>3. Once(batch_channel)' /\ Once(pending_batches)'
    BY <1>4, <1>6 DEF Once
  <2>4. QED
    BY <1>3, <2>1, <2>2, <2>3 DEF OptimizerInv, Lines, Running, LostOnlyLate
<1>10. QED
  BY <1>7, <1>8, <1>9 DEF OptimizerInv

\* process_pending_batches starts the first of the batches that wait.
LEMMA StartKeeps == ASSUME OptimizerInv, StartBatch PROVE OptimizerInv'
<1>1. /\ pending_batches \in Seq(Ids) /\ Once(pending_batches)
      /\ pending_batches # <<>> /\ batch \in [Ids -> Batches]
      /\ Elems(batch_channel) \cap Elems(pending_batches) = {}
  BY DEF OptimizerInv, OptimizerTypes, Lines, StartBatch
<1>2. PICK n \in Ids : n = Head(pending_batches) /\ n \in Elems(pending_batches)
  BY <1>1, TailOnce
<1> DEFINE new == [at |-> "run", left |-> BUNDLES, results |-> 0]
<1>3. new \in Batches /\ new.at = "run"
  BY OptimizerConstants DEF Batches
<1>4. /\ batch' = [batch EXCEPT ![n] = new]
      /\ pending_batches' = Tail(pending_batches)
      /\ UNCHANGED <<caller, simulation_counter, result_receivers,
                     batch_channel, gaveUp>>
  BY <1>2 DEF StartBatch
<1> HIDE DEF new
<1>5. /\ batch' \in [Ids -> Batches] /\ batch'[n] = new
      /\ \A id \in Ids : id # n => batch'[id] = batch[id]
  BY <1>1, <1>3, <1>4
<1>6. /\ pending_batches' \in Seq(Ids) /\ Once(pending_batches')
      /\ Elems(pending_batches') = Elems(pending_batches) \ {n}
  BY <1>1, <1>2, <1>4, TailOnce
<1>7. OptimizerTypes'
  BY <1>4, <1>5, <1>6 DEF OptimizerInv, OptimizerTypes
<1>8. Entries'
  BY <1>4 DEF OptimizerInv, Entries, Waiting, OnlyTimeoutsLeak
<1>9. n \in InLine /\ n \in result_receivers /\ batch[n].at = "new"
  BY <1>2 DEF OptimizerInv, Lines, InLine
<1>10. Lines'
  <2>1. InLine' = InLine \ {n}
    BY <1>1, <1>2, <1>4, <1>6 DEF InLine, Elems
  <2>2. InLine \subseteq Ids
    BY ElementOfSeq DEF InLine, Elems, OptimizerInv, OptimizerTypes
  <2>3. \A id \in InLine' : batch'[id].at = "new" /\ id \in result_receivers'
    BY <1>4, <1>5, <2>1, <2>2 DEF OptimizerInv, Lines
  <2>4. ASSUME NEW c \in Callers, caller'[c].at = "send"
        PROVE  batch'[caller'[c].id].at = "new" /\ caller'[c].id \notin InLine'
    <3>1. /\ caller[c].at = "send" /\ caller[c].id \notin InLine
          /\ batch[caller[c].id].at = "new"
      BY <1>4, <2>4 DEF OptimizerInv, Lines
    <3>2. caller[c].id \in Ids
      BY <3>1 DEF OptimizerInv, Entries, Waiting
    <3>3. QED
      BY <1>4, <1>5, <1>9, <2>1, <3>1, <3>2
  <2>5. ASSUME NEW id \in Ids
        PROVE  /\ Running(id)' => id \in result_receivers'
               /\ id >= simulation_counter' => batch'[id].at = "new"
               /\ batch'[id].at = "lost" => id \in gaveUp'
    <3>1. CASE id # n
      BY <1>4, <1>5, <3>1 DEF OptimizerInv, Lines, Running, LostOnlyLate
    <3>2. CASE id = n
      <4>1. n < simulation_counter
        BY <1>9, EntriesAre DEF OptimizerInv, Entries
      <4>2. ~(n >= simulation_counter)
        BY <4>1 DEF Ids, OptimizerInv, OptimizerTypes
      <4>3. QED
        BY <1>3, <1>4, <1>5, <1>9, <3>2, <4>2
    <3>3. QED
      BY <3>1, <3>2
  <2>6. (Elems(batch_channel) \cap Elems(pending_batches) = {})'
    BY <1>1, <1>4, <1>6 DEF Elems
  <2>7. Once(batch_channel)' /\ Once(pending_batches)'
    BY <1>4, <1>6 DEF OptimizerInv, Lines, Once
  <2>8. LostOnlyLate'
    BY <2>5 DEF LostOnlyLate
  <2>9. QED
    BY <2>3, <2>4, <2>5, <2>6, <2>7, <2>8 DEF Lines
<1>11. QED
  BY <1>7, <1>8, <1>10 DEF OptimizerInv

\* The task of a batch goes on and ends.
LEMMA TaskKeeps ==
  ASSUME OptimizerInv, NEW id \in Ids, BatchTask(id) PROVE OptimizerInv'
<1>1. /\ batch \in [Ids -> Batches] /\ Running(id)
      /\ UNCHANGED <<caller, simulation_counter, result_receivers,
                     batch_channel, pending_batches, gaveUp>>
  BY DEF OptimizerInv, OptimizerTypes, BatchTask, SimulateOne, UpdatePnl,
         SendResult, Running
<1>2. PICK b \in Batches : b = batch[id]
  BY <1>1
<1>3. PICK new \in Batches :
        /\ batch' = [batch EXCEPT ![id] = new] /\ new.at # "new"
        /\ new.at = "lost" => id \in gaveUp
  <2>1. CASE SimulateOne(id)
    <3>1. PICK result \in {0, 1} : batch' =
            [batch EXCEPT ![id].left = @ - 1, ![id].results = @ + result]
      BY <2>1 DEF SimulateOne
    <3> DEFINE new == [b EXCEPT !.left = b.left - 1, !.results = b.results + result]
    <3>2. b.left \in Nat /\ b.left > 0 /\ b.results \in Nat /\ b.at = "run"
      BY <1>2, <2>1 DEF SimulateOne, Batches
    <3>3. b.left - 1 \in Nat /\ b.results + result \in Nat
      BY <3>2
    <3>4. new \in Batches /\ new.at = "run"
      BY <3>2, <3>3 DEF Batches
    <3>5. batch' = [batch EXCEPT ![id] = new]
      BY <1>1, <1>2, <3>1
    <3> HIDE DEF new
    <3>6. QED
      BY <3>4, <3>5
  <2>2. CASE UpdatePnl(id)
    <3> DEFINE new == [b EXCEPT !.at = "collect"]
    <3>1. new \in Batches /\ new.at = "collect"
      BY DEF Batches
    <3>2. batch' = [batch EXCEPT ![id] = new]
      BY <1>1, <1>2, <2>2 DEF UpdatePnl
    <3> HIDE DEF new
    <3>3. QED
      BY <3>1, <3>2
  <2>3. CASE SendResult(id)
    <3>1. id \in result_receivers
      BY <1>1 DEF OptimizerInv, Lines
    <3>2. PICK at \in {"sent", "lost"} :
            /\ batch' = [batch EXCEPT ![id].at = at]
            /\ at = "lost" => id \in gaveUp
      BY <2>3, <3>1 DEF SendResult
    <3> DEFINE new == [b EXCEPT !.at = at]
    <3>3. new \in Batches /\ new.at = at
      BY DEF Batches
    <3>4. batch' = [batch EXCEPT ![id] = new]
      BY <1>1, <1>2, <3>2
    <3> HIDE DEF new
    <3>5. QED
      BY <3>2, <3>3, <3>4
  <2>4. QED
    BY <2>1, <2>2, <2>3 DEF BatchTask
<1>4. /\ batch' \in [Ids -> Batches] /\ batch'[id] = new
      /\ \A i \in Ids : i # id => batch'[i] = batch[i]
  BY <1>1, <1>3
<1>5. OptimizerTypes' /\ Entries'
  BY <1>1, <1>4
     DEF OptimizerInv, OptimizerTypes, Entries, Waiting, OnlyTimeoutsLeak
<1>6. batch[id].at # "new" /\ id \in result_receivers
  BY <1>1 DEF Running, OptimizerInv, Lines
<1>7. Lines'
  <2>1. InLine' = InLine
    BY <1>1 DEF InLine, Elems
  <2>2. InLine \subseteq Ids
    BY ElementOfSeq DEF InLine, Elems, OptimizerInv, OptimizerTypes
  <2>3. \A i \in InLine' : batch'[i].at = "new" /\ i \in result_receivers'
    BY <1>1, <1>4, <1>6, <2>1, <2>2 DEF OptimizerInv, Lines
  <2>4. ASSUME NEW c \in Callers, caller'[c].at = "send"
        PROVE  batch'[caller'[c].id].at = "new" /\ caller'[c].id \notin InLine'
    <3>1. /\ caller[c].at = "send" /\ caller[c].id \notin InLine
          /\ batch[caller[c].id].at = "new"
      BY <1>1, <2>4 DEF OptimizerInv, Lines
    <3>2. caller[c].id \in Ids
      BY <3>1 DEF OptimizerInv, Entries, Waiting
    <3>3. QED
      BY <1>1, <1>4, <1>6, <2>1, <3>1, <3>2
  <2>5. ASSUME NEW i \in Ids
        PROVE  /\ Running(i)' => i \in result_receivers'
               /\ i >= simulation_counter' => batch'[i].at = "new"
               /\ batch'[i].at = "lost" => i \in gaveUp'
    <3>1. CASE i # id
      BY <1>1, <1>4, <3>1 DEF OptimizerInv, Lines, Running, LostOnlyLate
    <3>2. CASE i = id
      <4>1. ~(id >= simulation_counter)
        BY <1>6 DEF OptimizerInv, Lines
      <4>2. QED
        BY <1>1, <1>3, <1>4, <1>6, <3>2, <4>1
    <3>3. QED
      BY <3>1, <3>2
  <2>6. QED
    BY <1>1, <2>3, <2>4, <2>5, SMTT(30) DEF OptimizerInv, Lines, LostOnlyLate, Once,
       Elems
<1>8. QED
  BY <1>5, <1>7 DEF OptimizerInv

\* An entry is there from before the request is sent until the result is taken,
\* or for good when the caller gives up (simulate_batch,
\* process_pending_batches).
THEOREM OptimizerInvariant == OptimizerSpec => []OptimizerInv
<1>1. ASSUME OptimizerInv, BatchTick \/ JoinBatches \/ UNCHANGED optVars
      PROVE  OptimizerInv'
  <2>1. UNCHANGED <<caller, simulation_counter, result_receivers, batch,
                    batch_channel, pending_batches, gaveUp>>
    BY <1>1 DEF BatchTick, JoinBatches, optVars
  <2>2. OptimizerTypes'
    BY <1>1, <2>1 DEF OptimizerInv, OptimizerTypes
  <2>3. Entries'
    BY <1>1, <2>1 DEF OptimizerInv, Entries, Waiting, OnlyTimeoutsLeak
  <2>4. Lines'
    BY <1>1, <2>1 DEF OptimizerInv, Lines, InLine, Elems, Once, Running,
                      LostOnlyLate
  <2>5. QED
    BY <2>2, <2>3, <2>4 DEF OptimizerInv
<1>2. OptimizerInv /\ [OptimizerNext]_optVars => OptimizerInv'
  BY <1>1, EnterKeeps, SendKeeps, LeaveKeeps, ReceiveKeeps, StartKeeps,
     TaskKeeps DEF OptimizerNext, Processor
<1>3. QED
  BY <1>2, OptimizerInitially, PTL DEF OptimizerSpec

RunningIn(b) == {id \in Ids : b[id].at \in {"run", "collect"}}

\* The permits taken.
RoundsInv ==
  /\ Cardinality(RunningIn(batch)) <= BATCH_PERMITS
  /\ processor = "select" => RunningIn(batch) = {}

\* There are finitely many numbers.
LEMMA NumbersFinite ==
  ASSUME NEW S \in SUBSET Ids
  PROVE  IsFiniteSet(S) /\ Cardinality(S) \in Nat
<1>1. 0 \in Int /\ MAX_BATCHES - 1 \in Int
  BY OptimizerConstants
<1>2. IsFiniteSet(Ids)
  BY <1>1, FS_Interval DEF Ids
<1>3. IsFiniteSet(S)
  BY <1>2, FS_Subset
<1>4. QED
  BY <1>3, FS_CardinalityType

\* A round ends before the next one starts, and takes no more permits than
\* there are (process_pending_batches).
THEOREM RoundsInvariant == OptimizerSpec => []RoundsInv
<1>1. OptimizerInit => RoundsInv
  <2> SUFFICES ASSUME OptimizerInit PROVE RoundsInv
    OBVIOUS
  <2>1. RunningIn(batch) = {}
    BY DEF OptimizerInit, NewBatch, RunningIn
  <2>2. QED
    BY <2>1, FS_EmptySet, OptimizerConstants DEF RoundsInv
<1>2. OptimizerInv /\ RoundsInv /\ [OptimizerNext]_optVars => RoundsInv'
  <2> SUFFICES ASSUME OptimizerInv, RoundsInv, [OptimizerNext]_optVars
               PROVE  RoundsInv'
    OBVIOUS
  <2>1. batch \in [Ids -> Batches]
    BY DEF OptimizerInv, OptimizerTypes
  <2>2. CASE /\ batch' = batch
             /\ processor' = "select" => processor = "select" \/ JoinBatches
    <3>1. RunningIn(batch)' = RunningIn(batch)
      BY <2>2 DEF RunningIn
    <3>2. JoinBatches => RunningIn(batch) = {}
      BY DEF JoinBatches, Running, RunningIn
    <3>3. QED
      BY <2>2, <3>1, <3>2 DEF RoundsInv
  <2>3. CASE StartBatch
    <3>1. PICK n : /\ n = Head(pending_batches)
                   /\ batch' = [batch EXCEPT ![n] =
                        [at |-> "run", left |-> BUNDLES, results |-> 0]]
                   /\ processor' # "select"
                   /\ Cardinality(RunningIn(batch)) < BATCH_PERMITS
      BY <2>3 DEF StartBatch, Running, RunningIn
    <3>2. RunningIn(batch)' \subseteq RunningIn(batch) \cup {n}
      BY <2>1, <3>1 DEF RunningIn
    <3>3. /\ IsFiniteSet(RunningIn(batch)) /\ Cardinality(RunningIn(batch)) \in Nat
          /\ Cardinality(RunningIn(batch)') \in Nat
      BY NumbersFinite DEF RunningIn
    <3>4. /\ IsFiniteSet(RunningIn(batch) \cup {n})
          /\ Cardinality(RunningIn(batch) \cup {n})
               <= Cardinality(RunningIn(batch)) + 1
          /\ Cardinality(RunningIn(batch) \cup {n}) \in Nat
      <4>1. /\ IsFiniteSet(RunningIn(batch) \cup {n})
            /\ \/ Cardinality(RunningIn(batch) \cup {n})
                    = Cardinality(RunningIn(batch))
               \/ Cardinality(RunningIn(batch) \cup {n})
                    = Cardinality(RunningIn(batch)) + 1
        BY <3>3, FS_AddElement
      <4>2. PICK k \in Nat : k = Cardinality(RunningIn(batch))
        BY <3>3
      <4>3. QED
        BY <4>1, <4>2
    <3>5. Cardinality(RunningIn(batch)')
            <= Cardinality(RunningIn(batch) \cup {n})
      BY <3>2, <3>4, FS_Subset
    <3>6. Cardinality(RunningIn(batch)') <= BATCH_PERMITS
      BY <3>1, <3>3, <3>4, <3>5, OptimizerConstants
    <3>7. QED
      BY <3>1, <3>6 DEF RoundsInv
  <2>4. ASSUME NEW id \in Ids, BatchTask(id) PROVE RoundsInv'
    <3>1. processor' = processor /\ batch[id].at \in {"run", "collect"}
      BY <2>4 DEF BatchTask, SimulateOne, UpdatePnl, SendResult
    <3>2. \A i \in Ids : i # id => batch'[i] = batch[i]
      BY <2>1, <2>4 DEF BatchTask, SimulateOne, UpdatePnl, SendResult
    <3>3. RunningIn(batch)' \subseteq RunningIn(batch)
      BY <3>1, <3>2 DEF RunningIn
    <3>4. /\ IsFiniteSet(RunningIn(batch)) /\ Cardinality(RunningIn(batch)) \in Nat
          /\ Cardinality(RunningIn(batch)') \in Nat
      BY NumbersFinite DEF RunningIn
    <3>5. Cardinality(RunningIn(batch)') <= Cardinality(RunningIn(batch))
      BY <3>3, <3>4, FS_Subset
    <3>6. Cardinality(RunningIn(batch)') <= BATCH_PERMITS
      BY <3>4, <3>5, OptimizerConstants DEF RoundsInv
    <3>7. QED
      BY <3>1, <3>3, <3>6 DEF RoundsInv
  <2>5. ASSUME \/ \E c \in Callers : EnterReceiver(c) \/ SendRequest(c)
                                       \/ TakeResult(c) \/ GiveUp(c)
               \/ ReceiveRequest \/ BatchTick \/ JoinBatches \/ UNCHANGED optVars
        PROVE  /\ batch' = batch
               /\ processor' = "select" => processor = "select" \/ JoinBatches
    BY <2>5 DEF EnterReceiver, SendRequest, TakeResult, GiveUp, ReceiveRequest,
       BatchTick, optVars, work, JoinBatches
  <2>6. QED
    BY <2>2, <2>3, <2>4, <2>5 DEF OptimizerNext, Processor
<1>3. QED
  BY <1>1, <1>2, OptimizerInvariant, PTL DEF OptimizerSpec

\* The accounts handed out last are the last ones of the queue.
AccountsInv ==
  /\ account_pool.queue \in Seq(1..ACCOUNTS) /\ Len(account_pool.queue) = ACCOUNTS
  /\ Once(account_pool.queue)
  /\ lastAccounts \in Seq(1..ACCOUNTS) /\ Len(lastAccounts) <= ACCOUNTS
  /\ \A i \in 1..Len(lastAccounts) :
       lastAccounts[i] = account_pool.queue[ACCOUNTS - Len(lastAccounts) + i]

\* An account goes from the front of the queue to its end (get_account).
LEMMA AccountGoesRound ==
  ASSUME AccountsInv, NEW id \in Ids, SimulateOne(id) PROVE AccountsInv'
<1>1. PICK n \in Nat \ {0} : n = ACCOUNTS
  BY OptimizerConstants
<1>2. PICK q \in Seq(1..n) : q = account_pool.queue
  BY <1>1 DEF AccountsInv
<1>3. Len(q) = n /\ Once(q) /\ q # <<>>
  <2>1. Len(q) = n /\ Once(q)
    BY <1>1, <1>2 DEF AccountsInv
  <2>2. QED
    BY <1>1, <2>1
<1>4. PICK x \in 1..n : x = Head(q) /\ x = q[1]
  BY <1>3, HeadTailProperties
<1>5. /\ Tail(q) \in Seq(1..n) /\ Once(Tail(q)) /\ x \notin Elems(Tail(q))
      /\ Len(Tail(q)) = n - 1
      /\ \A k \in 1..n - 1 : Tail(q)[k] = q[k + 1]
  BY <1>3, <1>4, TailOnce, HeadTailProperties
<1>6. PICK r \in Seq(1..n) : r = Append(Tail(q), x) /\ Once(r)
  BY <1>5, AppendOnce
<1>7. PICK p \in Nat : p = n - 1 /\ p + 1 = n
  BY <1>1
<1>8. Len(r) = n /\ r[n] = x /\ \A k \in 1..p : r[k] = q[k + 1]
  BY <1>5, <1>6, <1>7, AppendProperties
<1>9. account_pool'.queue = r
  BY <1>2, <1>4, <1>6 DEF SimulateOne, GetAccount
<1>10. PICK s \in Seq(1..n) : s = lastAccounts
  BY <1>1 DEF AccountsInv
<1>11. PICK a \in Nat : a = Len(s) /\ a <= n
  BY <1>1, <1>10, LenProperties DEF AccountsInv
<1>12. \A i \in 1..a : s[i] = q[n - a + i]
  BY <1>1, <1>2, <1>10, <1>11 DEF AccountsInv
<1>13. PICK all \in Seq(1..n) : all = Append(s, x)
  BY AppendProperties
<1>14. Len(all) = a + 1 /\ all[a + 1] = x /\ \A i \in 1..a : all[i] = s[i]
  BY <1>11, <1>13, AppendProperties
<1>15. lastAccounts' = SubSeq(all, Max({1, a + 1 - n + 1}), a + 1)
  <2>1. Append(lastAccounts, Head(account_pool.queue)) = all
    BY <1>2, <1>4, <1>10, <1>13
  <2>2. lastAccounts' = SubSeq(all, Max({1, Len(all) - ACCOUNTS + 1}), Len(all))
    BY <2>1 DEF SimulateOne
  <2>3. Len(all) - ACCOUNTS + 1 = a + 1 - n + 1 /\ Len(all) = a + 1
    BY <1>1, <1>14
  <2>4. QED
    BY <2>2, <2>3
<1>16. ASSUME NEW t \in Seq(1..n), NEW b \in Nat, lastAccounts' = t,
              Len(t) = b, b <= n, \A i \in 1..b : t[i] = r[n - b + i]
       PROVE  AccountsInv'
  <2>1. /\ account_pool'.queue \in Seq(1..ACCOUNTS)
        /\ Len(account_pool'.queue) = ACCOUNTS /\ Once(account_pool'.queue)
    BY <1>1, <1>6, <1>8, <1>9
  <2>2. lastAccounts' \in Seq(1..ACCOUNTS) /\ Len(lastAccounts') <= ACCOUNTS
    BY <1>1, <1>16
  <2>3. \A i \in 1..Len(lastAccounts') : lastAccounts'[i]
           = account_pool'.queue[ACCOUNTS - Len(lastAccounts') + i]
    BY <1>1, <1>9, <1>16
  <2>4. QED
    BY <2>1, <2>2, <2>3 DEF AccountsInv, Once
<1>17. CASE a < n
  <2>1. Max({1, a + 1 - n + 1}) = 1
    <3>1. PICK z \in Int : z = a + 1 - n + 1 /\ z <= 1
      BY <1>1, <1>17
    <3>2. Max({1, z}) = 1
      BY <3>1 DEF Max
    <3>3. QED
      BY <3>1, <3>2
  <2>2. lastAccounts' = SubSeq(all, 1, Len(all))
    BY <1>14, <1>15, <2>1
  <2>3. lastAccounts' = all
    BY <2>2, SubSeqFull
  <2>4. ASSUME NEW i \in 1..a + 1 PROVE all[i] = r[n - (a + 1) + i]
    <3>1. CASE i = a + 1
      <4>1. n - (a + 1) + i = n
        BY <3>1
      <4>2. QED
        BY <1>8, <1>14, <3>1, <4>1
    <3>2. CASE i \in 1..a
      <4>1. /\ n - (a + 1) + i \in 1..p
            /\ n - (a + 1) + i + 1 = n - a + i
        BY <1>7, <1>17, <3>2
      <4>2. r[n - (a + 1) + i] = q[n - a + i]
        BY <1>8, <4>1
      <4>3. QED
        BY <1>12, <1>14, <3>2, <4>2
    <3>3. QED
      BY <3>1, <3>2
  <2>5. a + 1 <= n
    BY <1>17
  <2>6. a + 1 \in Nat /\ \A i \in 1..a + 1 : all[i] = r[n - (a + 1) + i]
    <3>1. a + 1 \in Nat
      OBVIOUS
    <3>2. QED
      BY <2>4, <3>1
  <2>7. QED
    BY <1>14, <1>16, <2>3, <2>5, <2>6
<1>18. CASE a = n
  <2>1. Max({1, a + 1 - n + 1}) = 2
    <3>1. a + 1 - n + 1 = 2
      BY <1>18
    <3>2. Max({1, 2}) = 2
      BY DEF Max
    <3>3. QED
      BY <3>1, <3>2
  <2>2. lastAccounts' = SubSeq(all, 2, n + 1)
    BY <1>15, <1>18, <2>1
  <2>3. \A i \in 2..n + 1 : all[i] \in 1..n
    <3>1. \A i \in 2..n + 1 : i \in 1..Len(all)
      BY <1>14, <1>18
    <3>2. QED
      BY <3>1, ElementOfSeq
  <2>4. 2 \in Int /\ n + 1 \in Int /\ 2 <= n + 1
    BY <1>1
  <2>5. PICK t \in Seq(1..n) : t = lastAccounts'
    BY <2>2, <2>3, <2>4, SubSeqProperties
  <2>6. /\ Len(t) = (n + 1) - 2 + 1
        /\ \A i \in 1..(n + 1) - 2 + 1 : t[i] = all[2 + i - 1]
    BY <2>2, <2>3, <2>4, <2>5, SubSeqProperties
  <2>7. Len(t) = n /\ \A i \in 1..n : t[i] = all[i + 1]
    <3>1. (n + 1) - 2 + 1 = n /\ \A i \in 1..n : 2 + i - 1 = i + 1
      OBVIOUS
    <3>2. QED
      BY <2>6, <3>1
  <2>8. ASSUME NEW i \in 1..n PROVE t[i] = r[n - n + i]
    <3>1. n - n + i = i
      OBVIOUS
    <3>2. CASE i = n
      BY <1>8, <1>14, <1>18, <2>7, <3>1, <3>2
    <3>3. CASE i \in 1..p
      <4>1. i + 1 \in 1..n /\ n - a + (i + 1) = i + 1
        BY <1>7, <1>18, <3>3
      <4>2. /\ \A k \in 1..n : all[k] = s[k]
            /\ \A k \in 1..n : s[k] = q[n - a + k]
        BY ONLY <1>12, <1>14, <1>18
      <4>3. i \in 1..n
        OBVIOUS
      <4>4. t[i] = q[i + 1]
        <5>1. t[i] = all[i + 1]
          BY ONLY <2>7, <4>3
        <5>2. all[i + 1] = s[i + 1] /\ s[i + 1] = q[n - a + (i + 1)]
          BY ONLY <4>1, <4>2
        <5>3. QED
          BY ONLY <4>1, <5>1, <5>2
      <4>5. QED
        BY ONLY <1>8, <3>1, <3>3, <4>4
    <3>4. i = n \/ i \in 1..p
      BY ONLY <1>7, n \in Nat, i \in 1..n
    <3>5. QED
      BY ONLY <3>2, <3>3, <3>4
  <2>9. n \in Nat /\ n <= n /\ \A i \in 1..n : t[i] = r[n - n + i]
    BY <2>8
  <2>10. QED
    BY <1>16, <2>5, <2>7, <2>9
<1>19. QED
  BY <1>11, <1>17, <1>18

\* However the tasks of the batches interleave, an account comes again only
\* after all the others (AccountPool::get_account).
THEOREM AccountsInvariant == OptimizerSpec => []AccountsInv
<1>1. OptimizerInit => AccountsInv
  <2> SUFFICES ASSUME OptimizerInit PROVE AccountsInv
    OBVIOUS
  <2>1. PICK n \in Nat : n = ACCOUNTS
    BY OptimizerConstants
  <2>2. PICK q \in [1..n -> 1..n] : /\ q = account_pool.queue
                                    /\ \A i \in 1..n : q[i] = i
    BY <2>1 DEF OptimizerInit
  <2>3. q \in Seq(1..n) /\ Len(q) = n
    BY <2>2, SeqDef, LenProperties
  <2>4. Once(q)
    BY <2>2, <2>3 DEF Once
  <2>5. lastAccounts \in Seq(1..n) /\ Len(lastAccounts) = 0
    BY EmptySeq DEF OptimizerInit
  <2>6. QED
    BY <2>1, <2>2, <2>3, <2>4, <2>5 DEF AccountsInv
<1>2. ASSUME AccountsInv, UNCHANGED <<account_pool, lastAccounts>>
      PROVE  AccountsInv'
  BY <1>2 DEF AccountsInv, Once
<1>3. AccountsInv /\ [OptimizerNext]_optVars => AccountsInv'
  <2> SUFFICES ASSUME AccountsInv, [OptimizerNext]_optVars PROVE AccountsInv'
    OBVIOUS
  <2>1. \/ \E id \in Ids : SimulateOne(id)
        \/ UNCHANGED <<account_pool, lastAccounts>>
    BY DEF OptimizerNext, Processor, BatchTask, EnterReceiver, SendRequest,
       TakeResult, GiveUp, ReceiveRequest, BatchTick, StartBatch, JoinBatches,
       UpdatePnl, SendResult, optVars, work
  <2>2. QED
    BY <1>2, <2>1, AccountGoesRound
<1>4. QED
  BY <1>1, <1>3, PTL DEF OptimizerSpec

Done == {"collect", "sent", "lost"}
CountedIn(b) ==
  {r \in Ids \X (1..BUNDLES) : b[r[1]].at \in Done /\ r[2] <= b[r[1]].results}

\* The tracker, and what a batch has still to add to it.
PnlInv ==
  /\ pnl \in [successful : Nat, failed : Nat]
  /\ \A id \in Ids : batch[id].at = "run" =>
       batch[id].results + batch[id].left <= BUNDLES
  /\ pnl.successful + pnl.failed = Cardinality(CountedIn(batch))

\* Results that nobody counts yet leave the count alone.
LEMMA CountedStays ==
  ASSUME \A id \in Ids : /\ batch'[id].at \in Done <=> batch[id].at \in Done
                         /\ batch[id].at \in Done =>
                              batch'[id].results = batch[id].results
  PROVE  CountedIn(batch') = CountedIn(batch)
  BY DEF CountedIn

\* The pairs counted are finitely many.
LEMMA CountedFinite ==
  IsFiniteSet(CountedIn(batch)) /\ Cardinality(CountedIn(batch)) \in Nat
<1>1. IsFiniteSet(Ids)
  BY NumbersFinite
<1>2. 1 \in Int /\ BUNDLES \in Int
  BY OptimizerConstants
<1>3. IsFiniteSet(1..BUNDLES)
  BY <1>2, FS_Interval
<1>4. IsFiniteSet(Ids \X (1..BUNDLES))
  BY <1>1, <1>3, FS_Product
<1>5. CountedIn(batch) \subseteq Ids \X (1..BUNDLES)
  BY DEF CountedIn
<1>6. QED
  BY <1>4, <1>5, FS_Subset, FS_CardinalityType

\* update_pnl_tracking counts each result of a batch, once.
LEMMA UpdateCounts ==
  ASSUME OptimizerInv, PnlInv, NEW id \in Ids, UpdatePnl(id) PROVE PnlInv'
<1>1. batch \in [Ids -> Batches] /\ batch[id] \in Batches
  BY DEF OptimizerInv, OptimizerTypes
<1>2. PICK k \in Nat : k = batch[id].results
  BY <1>1 DEF Batches
<1>3. k <= BUNDLES /\ batch[id].at = "run"
  BY <1>2, OptimizerConstants DEF UpdatePnl, PnlInv
<1>4. batch' = [batch EXCEPT ![id].at = "collect"]
  BY DEF UpdatePnl
<1>5. /\ batch'[id].at = "collect" /\ batch'[id].results = k
      /\ \A i \in Ids : i # id => batch'[i] = batch[i]
  BY <1>1, <1>2, <1>4 DEF Batches
<1> DEFINE new == {id} \X (1..k)
<1>6. CountedIn(batch') = CountedIn(batch) \cup new
  <2>1. ASSUME NEW i \in Ids, NEW j \in 1..BUNDLES
        PROVE  <<i, j>> \in CountedIn(batch') <=>
                 <<i, j>> \in CountedIn(batch) \/ <<i, j>> \in new
    <3>1. CASE i = id
      BY <1>2, <1>3, <1>5, <3>1 DEF CountedIn, Done
    <3>2. CASE i # id
      BY <1>5, <3>2 DEF CountedIn, Done
    <3>3. QED
      BY <3>1, <3>2
  <2>2. new \subseteq Ids \X (1..BUNDLES)
    <3>1. 1..k \subseteq 1..BUNDLES
      BY <1>3, OptimizerConstants
    <3>2. QED
      BY <3>1
  <2>3. /\ CountedIn(batch') \subseteq Ids \X (1..BUNDLES)
        /\ CountedIn(batch) \subseteq Ids \X (1..BUNDLES)
    BY DEF CountedIn
  <2> HIDE DEF new
  <2>4. QED
    BY <2>1, <2>2, <2>3
<1>7. CountedIn(batch) \cap new = {}
  BY <1>3 DEF CountedIn, Done
<1>8. IsFiniteSet(new) /\ Cardinality(new) = k
  <2>1. IsFiniteSet({id}) /\ Cardinality({id}) = 1
    BY FS_Singleton
  <2>2. 1 \in Int /\ k \in Int
    OBVIOUS
  <2>3. IsFiniteSet(1..k) /\ Cardinality(1..k) = k
    BY <2>2, FS_Interval
  <2>4. PICK one, all : one = {id} /\ all = 1..k
    OBVIOUS
  <2>5. IsFiniteSet(one) /\ IsFiniteSet(all)
    BY ONLY <2>1, <2>3, <2>4
  <2>6. /\ IsFiniteSet(one \X all)
        /\ Cardinality(one \X all) = Cardinality(one) * Cardinality(all)
    BY ONLY <2>5, FS_Product
  <2>7. IsFiniteSet(new) /\ Cardinality(new) = 1 * k
    BY ONLY <2>1, <2>3, <2>4, <2>6 DEF new
  <2>8. QED
    BY <2>7
<1> HIDE DEF new
<1>9. Cardinality(CountedIn(batch')) = Cardinality(CountedIn(batch)) + k
  <2>1. Cardinality(CountedIn(batch) \cap new) = 0
    BY <1>7, FS_EmptySet
  <2>2. Cardinality(CountedIn(batch) \cup new)
          = Cardinality(CountedIn(batch)) + Cardinality(new)
              - Cardinality(CountedIn(batch) \cap new)
    BY <1>8, CountedFinite, FS_Union
  <2>3. PICK c \in Nat : c = Cardinality(CountedIn(batch))
    BY CountedFinite
  <2>4. QED
    BY <1>6, <1>8, <2>1, <2>2, <2>3
<1>10. PICK s \in Nat, f \in Nat : s = pnl.successful /\ f = pnl.failed
  BY DEF PnlInv
<1>11. PICK good \in 0..k :
         pnl' = [successful |-> s + good, failed |-> f + k - good]
  BY <1>2, <1>10 DEF UpdatePnl
<1>12. s + good \in Nat /\ f + k - good \in Nat
  BY <1>2, <1>10, <1>11
<1>13. /\ pnl' \in [successful : Nat, failed : Nat]
       /\ pnl'.successful + pnl'.failed = Cardinality(CountedIn(batch'))
  <2>1. pnl'.successful = s + good /\ pnl'.failed = f + k - good
    BY <1>11
  <2>2. (s + good) + (f + k - good) = (s + f) + k
    <3>1. good \in Int
      OBVIOUS
    <3>2. QED
      BY <3>1
  <2>3. Cardinality(CountedIn(batch)) = s + f
    BY <1>10 DEF PnlInv
  <2>4. QED
    BY <1>9, <1>11, <1>12, <2>1, <2>2, <2>3
<1>14. \A i \in Ids : batch'[i].at = "run" =>
         batch'[i].results + batch'[i].left <= BUNDLES
  BY <1>5 DEF PnlInv
<1>15. QED
  BY <1>13, <1>14 DEF PnlInv, CountedIn

\* A batch starts with no results, and every simulation adds at most one
\* (process_single_batch).
LEMMA SimulateCounts ==
  ASSUME OptimizerInv, PnlInv, NEW id \in Ids, SimulateOne(id) PROVE PnlInv'
<1>1. batch \in [Ids -> Batches] /\ batch[id] \in Batches
  BY DEF OptimizerInv, OptimizerTypes
<1>2. PICK k \in Nat, n \in Nat \ {0} :
        k = batch[id].results /\ n = batch[id].left /\ k + n <= BUNDLES
  <2>1. PICK k \in Nat, n \in Nat : k = batch[id].results /\ n = batch[id].left
    BY <1>1 DEF Batches
  <2>2. n > 0 /\ k + n <= BUNDLES
    BY <2>1 DEF SimulateOne, PnlInv
  <2>3. n \in Nat \ {0}
    BY <2>2
  <2>4. QED
    BY <2>1, <2>2, <2>3
<1>3. PICK e \in {0, 1} :
        batch' = [batch EXCEPT ![id].left = @ - 1, ![id].results = @ + e]
  BY DEF SimulateOne
<1>4. /\ batch'[id].at = "run" /\ batch[id].at = "run"
      /\ batch'[id].results = k + e /\ batch'[id].left = n - 1
      /\ \A i \in Ids : i # id => batch'[i] = batch[i]
  BY <1>1, <1>2, <1>3 DEF Batches, SimulateOne
<1>5. (k + e) + (n - 1) <= BUNDLES
  BY <1>2, <1>3, OptimizerConstants
<1>6. CountedIn(batch') = CountedIn(batch)
  BY <1>4, CountedStays DEF Done
<1>7. \A i \in Ids : batch'[i].at = "run" =>
        batch'[i].results + batch'[i].left <= BUNDLES
  BY <1>4, <1>5 DEF PnlInv
<1>8. pnl' = pnl
  BY DEF SimulateOne
<1>9. QED
  BY <1>6, <1>7, <1>8 DEF PnlInv, CountedIn

\* Only a batch of the line is started, and none of those has been counted.
LEMMA StartCounts ==
  ASSUME OptimizerInv, PnlInv, StartBatch PROVE PnlInv'
<1>1. batch \in [Ids -> Batches]
  BY DEF OptimizerInv, OptimizerTypes
<1>2. PICK n \in Ids : n = Head(pending_batches) /\ batch[n].at = "new"
  <2>1. /\ pending_batches \in Seq(Ids) /\ pending_batches # <<>>
        /\ Once(pending_batches)
    BY DEF OptimizerInv, OptimizerTypes, Lines, StartBatch
  <2>2. Head(pending_batches) \in Ids
        /\ Head(pending_batches) \in Elems(pending_batches)
    BY <2>1, TailOnce
  <2>3. QED
    BY <2>2 DEF OptimizerInv, Lines, InLine
<1> DEFINE new == [at |-> "run", left |-> BUNDLES, results |-> 0]
<1>3. new.at = "run" /\ new.left = BUNDLES /\ new.results = 0
  OBVIOUS
<1>4. batch' = [batch EXCEPT ![n] = new] /\ pnl' = pnl
  BY <1>2 DEF StartBatch
<1> HIDE DEF new
<1>5. batch'[n] = new /\ \A i \in Ids : i # n => batch'[i] = batch[i]
  BY <1>1, <1>4
<1>6. CountedIn(batch') = CountedIn(batch)
  BY <1>2, <1>3, <1>5, CountedStays DEF Done
<1>7. \A i \in Ids : batch'[i].at = "run" =>
        batch'[i].results + batch'[i].left <= BUNDLES
  BY <1>3, <1>5, OptimizerConstants DEF PnlInv
<1>8. QED
  BY <1>4, <1>6, <1>7 DEF PnlInv, CountedIn

\* The result has been counted when it is sent.
LEMMA SendCounts ==
  ASSUME OptimizerInv, PnlInv, NEW id \in Ids, SendResult(id) PROVE PnlInv'
<1>1. batch \in [Ids -> Batches] /\ batch[id] \in Batches
  BY DEF OptimizerInv, OptimizerTypes
<1>2. PICK s \in {"sent", "lost"} : batch' = [batch EXCEPT ![id].at = s]
  BY DEF SendResult
<1>3. /\ batch'[id].at = s /\ batch'[id].results = batch[id].results
      /\ batch[id].at = "collect"
      /\ \A i \in Ids : i # id => batch'[i] = batch[i]
  BY <1>1, <1>2 DEF Batches, SendResult
<1>4. CountedIn(batch') = CountedIn(batch)
  BY <1>2, <1>3, CountedStays DEF Done
<1>5. \A i \in Ids : batch'[i].at = "run" =>
        batch'[i].results + batch'[i].left <= BUNDLES
  BY <1>2, <1>3 DEF PnlInv
<1>6. pnl' = pnl
  BY DEF SendResult
<1>7. QED
  BY <1>4, <1>5, <1>6 DEF PnlInv, CountedIn

\* However the batches interleave, the tracker counts every result of every
\* finished batch exactly once (update_pnl_tracking).
THEOREM PnlInvariant == OptimizerSpec => []PnlInv
<1>1. OptimizerInit => PnlInv
  <2> SUFFICES ASSUME OptimizerInit PROVE PnlInv
    OBVIOUS
  <2>1. \A id \in Ids : batch[id].at = "new"
    BY DEF OptimizerInit, NewBatch
  <2>2. CountedIn(batch) = {}
    BY <2>1 DEF CountedIn, Done
  <2>3. Cardinality(CountedIn(batch)) = 0
    BY <2>2, FS_EmptySet
  <2>4. pnl = [successful |-> 0, failed |-> 0]
    BY DEF OptimizerInit
  <2>5. QED
    BY <2>1, <2>3, <2>4 DEF PnlInv
<1>2. OptimizerInv /\ PnlInv /\ [OptimizerNext]_optVars => PnlInv'
  <2> SUFFICES ASSUME OptimizerInv, PnlInv, [OptimizerNext]_optVars
               PROVE  PnlInv'
    OBVIOUS
  <2>1. \/ StartBatch
        \/ \E id \in Ids : SimulateOne(id) \/ UpdatePnl(id) \/ SendResult(id)
        \/ UNCHANGED <<batch, pnl>>
    BY DEF OptimizerNext, Processor, BatchTask, EnterReceiver, SendRequest,
       TakeResult, GiveUp, ReceiveRequest, BatchTick, JoinBatches, optVars, work
  <2>2. UNCHANGED <<batch, pnl>> => PnlInv'
    BY DEF PnlInv, CountedIn
  <2>3. QED
    BY <2>1, <2>2, StartCounts, SimulateCounts, UpdateCounts, SendCounts
<1>3. QED
  BY <1>1, <1>2, OptimizerInvariant, PTL DEF OptimizerSpec

\* The properties of the optimizer follow from its invariants.
LEMMA OptimizerByInv ==
  ASSUME OptimizerInv, RoundsInv, AccountsInv, PnlInv
  PROVE  /\ OnlyTimeoutsLeak /\ LostOnlyLate /\ RoundsDoNotMix
         /\ AccountsRotate /\ PnlCounts
<1>1. OnlyTimeoutsLeak /\ LostOnlyLate
  BY DEF OptimizerInv, Entries, Lines
<1>2. RoundsDoNotMix
  <2>1. RunningIn(batch) = {id \in Ids : Running(id)}
    BY DEF RunningIn, Running
  <2>2. QED
    BY <2>1 DEF RoundsInv, RoundsDoNotMix, Running
<1>3. AccountsRotate
  <2>1. PICK n \in Nat : n = ACCOUNTS
    BY OptimizerConstants
  <2>2. PICK s \in Seq(1..n) : s = lastAccounts
    BY <2>1 DEF AccountsInv
  <2>3. PICK a \in Nat : a = Len(s) /\ a <= n /\ DOMAIN s = 1..a
    BY <2>1, <2>2, LenProperties DEF AccountsInv
  <2>4. PICK q \in Seq(1..n) : q = account_pool.queue
    BY <2>1 DEF AccountsInv
  <2>5. Len(q) = n /\ Once(q) /\ \A i \in 1..a : s[i] = q[n - a + i]
    BY <2>1, <2>2, <2>3, <2>4 DEF AccountsInv
  <2>6. ASSUME NEW i \in 1..a, NEW j \in 1..a, s[i] = s[j] PROVE i = j
    <3>1. n - a + i \in 1..n /\ n - a + j \in 1..n
      BY <2>3
    <3>2. n - a + i = n - a + j
      BY <2>5, <2>6, <3>1 DEF Once
    <3>3. QED
      BY <2>3, <3>2
  <2>7. \A i, j \in DOMAIN s : s[i] = s[j] => i = j
    BY <2>3, <2>6
  <2>8. QED
    BY <2>2, <2>7 DEF AccountsRotate, IsInjective
<1>4. PnlCounts
  BY DEF PnlInv, PnlCounts, CountedIn, Done
<1>5. QED
  BY <1>1, <1>2, <1>3, <1>4

\* In every behaviour the batching engine takes its own steps, or none.
LEMMA OptimizerPart == Spec => OptimizerSpec
<1>1. Init => OptimizerInit
  BY DEF Init
<1>2. [Next]_vars => [OptimizerNext]_optVars
  BY DEF Next, vars, Engine, Config, Health, Simulator, Optimizer,
         Client, Latency, optVars
<1>3. QED
  BY <1>1, <1>2, PTL DEF Spec, OptimizerSpec

-----------------------------------------------------------------------------
(* The RPC client                                                          *)

ClientSpec == ClientInit /\ [][ClientNext]_clientVars

Healths == [is_healthy : BOOLEAN, response_time : Nat,
            error_count : 0..ERRORS_TO_UNHEALTHY]

ClientInv == endpoint_health \in [Endpoints -> Healths] /\ UnhealthyFailedLast

\* A success brings an endpoint back (record_success).
LEMMA HealthRecorded ==
  ASSUME NEW h \in Healths, NEW s \in Speeds
  PROVE  RecordSuccess(h, s) \in Healths /\ RecordSuccess(h, s).is_healthy
  BY RpcClientConstants DEF RecordSuccess, Healths

\* An error counts up to the limit and takes the endpoint out of use at it
\* (record_error).
LEMMA HealthErrors ==
  ASSUME NEW h \in Healths,
         ~h.is_healthy => h.error_count = ERRORS_TO_UNHEALTHY
  PROVE  /\ RecordError(h) \in Healths
         /\ ~RecordError(h).is_healthy
              <=> RecordError(h).error_count = ERRORS_TO_UNHEALTHY
<1>1. PICK limit \in Nat \ {0} : limit = ERRORS_TO_UNHEALTHY
  BY RpcClientConstants
<1>2. PICK k \in 0..limit : k = h.error_count
  BY <1>1 DEF Healths
<1>3. PICK n \in 0..limit : /\ n = Min({k + 1, limit})
                            /\ n = IF k < limit THEN k + 1 ELSE limit
  BY <1>1 DEF Min
<1>4. /\ n < limit \/ n = limit
      /\ k = limit => n = limit
      /\ ~(n = limit /\ n < limit)
  BY <1>3
<1>5. PICK ok \in BOOLEAN : ok = (h.is_healthy /\ n < limit)
  OBVIOUS
<1>6. RecordError(h) = [h EXCEPT !.error_count = n, !.is_healthy = ok]
  BY <1>1, <1>2, <1>3, <1>5 DEF RecordError
<1>7. /\ RecordError(h) \in Healths /\ RecordError(h).error_count = n
      /\ RecordError(h).is_healthy = ok
  BY <1>1, <1>6 DEF Healths
<1>8. ~ok <=> n = limit
  BY <1>1, <1>2, <1>4, <1>5
<1>9. QED
  BY <1>1, <1>7, <1>8

\* Whoever records an outcome, a call or a probe.
LEMMA RecordOutcomeKeeps ==
  ASSUME ClientInv, NEW i, NEW ok \in BOOLEAN, Record(i, ok)
  PROVE  ClientInv'
<1>1. CASE i \notin Endpoints
  <2>1. endpoint_health' = endpoint_health
    BY <1>1 DEF Record, ClientInv
  <2>2. \A j \in Endpoints : j \in failedLast' <=> j \in failedLast
    BY <1>1 DEF Record
  <2>3. QED
    BY <2>1, <2>2 DEF ClientInv, UnhealthyFailedLast
<1>2. CASE i \in Endpoints
  <2>1. PICK h \in Healths : h = endpoint_health[i]
    BY <1>2 DEF ClientInv
  <2>2. /\ ~h.is_healthy <=> /\ i \in failedLast
                             /\ h.error_count = ERRORS_TO_UNHEALTHY
    BY <1>2, <2>1 DEF ClientInv, UnhealthyFailedLast
  <2>3. PICK new \in Healths :
          /\ endpoint_health' = [endpoint_health EXCEPT ![i] = new]
          /\ ~new.is_healthy <=> /\ i \in failedLast'
                                 /\ new.error_count = ERRORS_TO_UNHEALTHY
    <3>1. CASE ok
      <4>1. PICK s \in Speeds : endpoint_health' =
              [endpoint_health EXCEPT ![i] = RecordSuccess(h, s)]
        BY <2>1, <3>1 DEF Record
      <4>2. RecordSuccess(h, s) \in Healths /\ RecordSuccess(h, s).is_healthy
        BY HealthRecorded
      <4>3. i \notin failedLast'
        BY <3>1 DEF Record
      <4>4. QED
        BY <4>1, <4>2, <4>3
    <3>2. CASE ~ok
      <4>1. endpoint_health' = [endpoint_health EXCEPT ![i] = RecordError(h)]
        BY <2>1, <3>2 DEF Record
      <4>2. i \in failedLast'
        BY <3>2 DEF Record
      <4>3. RecordError(h) \in Healths
            /\ (~RecordError(h).is_healthy
                  <=> RecordError(h).error_count = ERRORS_TO_UNHEALTHY)
        BY <2>2, HealthErrors
      <4>4. QED
        BY <4>1, <4>2, <4>3
    <3>3. QED
      BY <3>1, <3>2
  <2>4. /\ endpoint_health' \in [Endpoints -> Healths]
        /\ endpoint_health'[i] = new
        /\ \A j \in Endpoints : j # i => endpoint_health'[j] = endpoint_health[j]
    BY <1>2, <2>3 DEF ClientInv
  <2>5. \A j \in Endpoints : j # i => (j \in failedLast' <=> j \in failedLast)
    BY DEF Record
  <2>6. QED
    BY <2>3, <2>4, <2>5 DEF ClientInv, UnhealthyFailedLast
<1>3. QED
  BY <1>1, <1>2

\* However outcomes of calls and probes are recorded, an endpoint out of use
\* failed last (call_with_retry, start_health_check_task).
THEOREM ClientInvariant == ClientSpec => []ClientInv
<1>1. ClientInit => ClientInv
  <2> SUFFICES ASSUME ClientInit PROVE ClientInv
    OBVIOUS
  <2> DEFINE fresh == [is_healthy |-> TRUE, response_time |-> 0,
                       error_count |-> 0]
  <2>1. fresh \in Healths /\ fresh.is_healthy
    BY RpcClientConstants DEF Healths
  <2>2. endpoint_health = [i \in Endpoints |-> fresh] /\ failedLast = {}
    BY DEF ClientInit
  <2> HIDE DEF fresh
  <2>3. QED
    BY <2>1, <2>2 DEF ClientInv, UnhealthyFailedLast
<1>2. ASSUME ClientInv, UNCHANGED <<endpoint_health, failedLast>>
      PROVE  ClientInv'
  BY <1>2 DEF ClientInv, UnhealthyFailedLast
<1>3. ClientInv /\ [ClientNext]_clientVars => ClientInv'
  <2> SUFFICES ASSUME ClientInv, [ClientNext]_clientVars PROVE ClientInv'
    OBVIOUS
  <2>1. ASSUME NEW c \in RpcCallers, RecordOutcome(c) PROVE ClientInv'
    <3>1. CASE request[c].ok
      <4>1. Record(request[c].provider, TRUE)
        BY <2>1, <3>1 DEF RecordOutcome, Record
      <4>2. QED
        BY <4>1, RecordOutcomeKeeps
    <3>2. CASE ~request[c].ok
      <4>1. Record(request[c].provider, FALSE)
        BY <2>1, <3>2 DEF RecordOutcome, Record
      <4>2. QED
        BY <4>1, RecordOutcomeKeeps
    <3>3. QED
      BY <3>1, <3>2
  <2>2. CASE ProbeEndpoint
    <3>1. Record(health_check, TRUE) \/ Record(health_check, FALSE)
      BY <2>2 DEF ProbeEndpoint, Record
    <3>2. QED
      BY <3>1, RecordOutcomeKeeps
  <2>3. ASSUME \/ \E c \in RpcCallers :
                    BeginCall(c) \/ CallEnds(c) \/ RetryDelay(c)
               \/ AcquirePermit \/ UNCHANGED clientVars
               \/ \E up \in SUBSET Endpoints : EndpointsChange(up)
        PROVE  UNCHANGED <<endpoint_health, failedLast>>
    BY <2>3 DEF BeginCall, CallEnds, RetryDelay, AcquirePermit, clientVars,
                EndpointsChange
  <2>4. QED
    BY <1>2, <2>1, <2>2, <2>3 DEF ClientNext, CallStep
<1>4. QED
  BY <1>1, <1>3, PTL DEF ClientSpec

\* In every behaviour the RPC client takes its own steps, or none.
LEMMA ClientPart == Spec => ClientSpec
<1>1. Init => ClientInit
  BY DEF Init
<1>2. [Next]_vars => [ClientNext]_clientVars
  BY DEF Next, vars, Engine, Config, Health, Simulator, Optimizer,
         Client, Latency, clientVars
<1>3. QED
  BY <1>1, <1>2, PTL DEF Spec, ClientSpec

\* However simulations, batches and RPC calls overlap and time out, each
\* result belongs to its request, claims no more than was simulated, and is
\* counted once (simulate_bundle, simulate_batch, process_pending_batches,
\* record_error).
THEOREM SimulationIsSafe == Spec => []SimulationSafe
<1>1. SimulatorInv /\ OptimizerInv /\ RoundsInv /\ AccountsInv /\ PnlInv
        /\ ClientInv => SimulationSafe
  BY SimulatorByInv, OptimizerByInv DEF ClientInv, SimulationSafe
<1>2. QED
  BY <1>1, SimulatorPart, SimulatorInvariant, OptimizerPart,
     OptimizerInvariant,
     RoundsInvariant, AccountsInvariant, PnlInvariant, ClientPart,
     ClientInvariant, PTL
==============================================================================
