---------------------------- MODULE FilterEngine ----------------------------
(***************************************************************************)
(* The filters of mev-mempool: FilterConfigManager (filter_config.rs) with *)
(* the configured rules and FilterEngine (filters.rs) with the sorted ones,*)
(* their rate limiters and the statistics.  Time is in ticks.              *)
(***************************************************************************)
EXTENDS Integers, FiniteSets, Subsequences

CONSTANTS
  ConfigFiles,             \* contents of the file: sequences of rules
  NewRules,                \* rules add_rule is called with
  FilterTxs,               \* parsed transactions
  Hours,                   \* hours of the clock
  SECOND,                  \* ticks per second
  MAX_TIME, MAX_FILTERED, MAX_CHANGES,  \* bounds
  NoFile                   \* no configuration was loaded

Rules == NewRules \cup UNION {Items(f) : f \in ConfigFiles}

\* FilterRule: a rate or a priority that an action sets is unsigned.
RuleRecords ==
  {r \in [name : {r.name : r \in Rules}, enabled : BOOLEAN, priority : Int,
          conditions : {r.conditions : r \in Rules},
          action : {"Accept", "Reject", "SetPriority", "Tag", "RateLimit"},
          arg : {r.arg : r \in Rules}] :
     r.action \in {"SetPriority", "RateLimit"} => r.arg \in Nat}

ASSUME FilterConstants ==
  /\ SECOND \in Nat \ {0} /\ MAX_TIME \in Nat /\ MAX_FILTERED \in Nat
  /\ MAX_CHANGES \in Nat
  /\ NoFile \notin ConfigFiles
  /\ Rules \subseteq RuleRecords
  /\ \A f \in ConfigFiles : f \in Seq(Rules)

SIZE_BITS == 16            \* bound: width of usize

VARIABLES
  current_config,          \* FilterConfigManager::current_config (the rules)
  filter_rules,            \* FilterEngine::rules
  rate_limiters,           \* rule name |-> limiter
  filter_stats,            \* FilterStats
  clock,                   \* time passed
  allowed,                 \* history: what passed a limiter in the last second, as
                           \* <<rule name, time, how many before it at that time>>
  changes,                 \* number of changes to the configuration, for the bound
  verdict                  \* history: the result of the step, if it filtered one

filterVars == <<current_config, filter_rules, rate_limiters, filter_stats, clock,
                allowed, changes, verdict>>

NoVerdict == [tx |-> NoFile]

FilterInit ==
  /\ current_config = NoFile /\ filter_rules = <<>>
  /\ rate_limiters = [n \in {} |-> 0]
  /\ filter_stats = [total |-> 0, accepted |-> 0, rejected |-> 0, rate_limited |-> 0]
  /\ clock = 0 /\ allowed = {} /\ changes = 0 /\ verdict = NoVerdict

-----------------------------------------------------------------------------
(* FilterConfigManager                                                     *)

\* The part of validate_config that refuses: a name used twice, hours past 23.
ValidConfig(rules) ==
  /\ \A i, j \in DOMAIN rules : rules[i].name = rules[j].name => i = j
  /\ \A i \in DOMAIN rules : \A c \in rules[i].conditions :
       c.type = "TimeOfDay" => c.start_hour <= 23 /\ c.end_hour <= 23

LoadConfig(rules) ==
  /\ current_config' = IF ValidConfig(rules) THEN rules ELSE current_config
  /\ UNCHANGED <<filter_rules, rate_limiters, filter_stats, clock, allowed>>

UpdateRule(i, enabled) ==
  /\ current_config # NoFile /\ i \in DOMAIN current_config
  /\ current_config' = [current_config EXCEPT ![i].enabled = enabled]
  /\ UNCHANGED <<filter_rules, rate_limiters, filter_stats, clock, allowed>>

AddRule(rule) ==
  /\ current_config # NoFile
  /\ \A i \in DOMAIN current_config : current_config[i].name # rule.name
  /\ current_config' = Append(current_config, rule)
  /\ UNCHANGED <<filter_rules, rate_limiters, filter_stats, clock, allowed>>

RemoveRule(name) ==
  /\ current_config # NoFile
  /\ \E i \in DOMAIN current_config : current_config[i].name = name
  /\ current_config' = Only(current_config,
                          {r \in Items(current_config) : r.name # name})
  /\ UNCHANGED <<filter_rules, rate_limiters, filter_stats, clock, allowed>>

-----------------------------------------------------------------------------
(* FilterEngine                                                            *)

\* The stable sort of load_rules, highest priority first.
Before(rules, i, j) ==
  \/ rules[i].priority > rules[j].priority
  \/ rules[i].priority = rules[j].priority /\ i < j
Sorted(rules) ==
  LET at(k) == CHOOSE i \in DOMAIN rules :
                 Cardinality({j \in DOMAIN rules : Before(rules, j, i)}) = k - 1
  IN [k \in DOMAIN rules |-> rules[at(k)]]

Limited(rules) == {i \in DOMAIN rules : rules[i].action = "RateLimit"}

\* Variant: a limiter that exists is kept.
KeptLimiters(rules) ==
  LET new == {rules[i].name : i \in Limited(rules)} IN
  [n \in DOMAIN rate_limiters \cup new |->
     IF n \in DOMAIN rate_limiters THEN rate_limiters[n]
     ELSE [max_per_second |-> rules[CHOOSE i \in Limited(rules) : rules[i].name = n].arg,
           tokens |-> rules[CHOOSE i \in Limited(rules) : rules[i].name = n].arg,
           last_refill |-> clock]]

\* New limiters replace those of the same name; the others stay.
LimitersFor(rules) ==
  LET new == {rules[i].name : i \in Limited(rules)} IN
  [n \in DOMAIN rate_limiters \cup new |->
     IF n \notin new THEN rate_limiters[n]
     ELSE LET i == CHOOSE k \in Limited(rules) :
                     /\ rules[k].name = n
                     /\ \A l \in Limited(rules) : rules[l].name = n => l <= k
          IN [max_per_second |-> rules[i].arg, tokens |-> rules[i].arg,
              last_refill |-> clock]]

\* load_rules with the rules of the configuration in force (to_filter_rules).
LoadRules ==
  /\ current_config # NoFile
  /\ filter_rules' = Sorted(current_config)
  /\ rate_limiters' = LimitersFor(Sorted(current_config))
  /\ allowed' = {}
  /\ UNCHANGED <<current_config, filter_stats, clock>>

SetRuleEnabled(i, enabled) ==
  /\ i \in DOMAIN filter_rules
  /\ filter_rules' = [filter_rules EXCEPT ![i].enabled = enabled]
  /\ UNCHANGED <<current_config, rate_limiters, filter_stats, clock, allowed>>

InRange(v, c) == v >= c.min /\ v <= c.max

\* Half of the characters without the prefix; nothing at all wraps around.
DataSize(chars) == (chars \div 2 - 1) % 2^SIZE_BITS

InHours(c, hour) ==
  IF c.start_hour <= c.end_hour THEN c.start_hour <= hour /\ hour <= c.end_hour
  ELSE c.start_hour <= hour \/ hour <= c.end_hour

\* evaluate_condition.  `value' is what the decimal parser makes of the text.
EvaluateCondition(c, tx, hour) ==
  CASE c.type = "ValueRange" -> InRange(tx.value, c)
    [] c.type = "GasPriceRange" -> InRange(tx.gas_gwei, c)
    [] c.type = "TargetType" -> tx.target \in c.types
    [] c.type = "FunctionSignature" -> tx.selector \in c.types
    [] c.type = "ContractAddress" -> (tx.to \in c.types) = c.whitelist
    [] c.type = "SenderAddress" -> (tx.from \in c.types) = c.whitelist
    [] c.type = "DataSize" -> InRange(DataSize(tx.chars), c)
    [] c.type = "TimeOfDay" -> InHours(c, hour)
    [] c.type = "DataPattern" -> tx.pattern \in c.types

EvaluateRule(rule, tx, hour) ==
  \A c \in rule.conditions : EvaluateCondition(c, tx, hour)

\* refill_tokens: a full bucket once a second has passed since the last one.
RefillTokens(l) ==
  IF clock - l.last_refill >= SECOND
  THEN [l EXCEPT !.tokens = l.max_per_second, !.last_refill = clock] ELSE l

\* A transaction that passes the limiter of a rule
Passed(before, name) ==
  before \cup
    {<<name, clock, Cardinality({a \in before : a[1] = name /\ a[2] = clock})>>}

\* The action of a rule that matches; s is what the rules before it left.  The
\* last one overwrites the priority.
ApplyAction(s, rule) ==
  CASE rule.action = "Accept" -> [s EXCEPT !.priority = 255]
    [] rule.action = "SetPriority" -> [s EXCEPT !.priority = rule.arg]
    [] rule.action = "Tag" -> [s EXCEPT !.tags = @ \cup {rule.arg}]
    [] rule.action = "Reject" -> [s EXCEPT !.result = "rejected"]
    [] rule.action = "RateLimit" ->
         LET l == RefillTokens(s.limiters[rule.name]) IN
         IF l.tokens > 0
         THEN [s EXCEPT !.limiters = [@ EXCEPT ![rule.name] = [l EXCEPT !.tokens = @ - 1]],
                        !.allowed = Passed(@, rule.name)]
         ELSE [s EXCEPT !.limiters = [@ EXCEPT ![rule.name] = l],
                        !.result = "rate_limited"]

ApplyRule(s, rule, tx, hour) ==
  IF s.result = "accepted" /\ rule.enabled /\ EvaluateRule(rule, tx, hour)
  THEN ApplyAction(s, rule) ELSE s

\* One rule after the other
Filtered(tx, hour) ==
  LET after[n \in 0..Len(filter_rules)] ==
        IF n = 0
        THEN [result |-> "accepted", priority |-> 128, tags |-> {},
              limiters |-> rate_limiters, allowed |-> allowed]
        ELSE ApplyRule(after[n - 1], filter_rules[n], tx, hour)
  IN after[Len(filter_rules)]

CountResult(result) ==
  [filter_stats EXCEPT
     !.total = @ + 1,
     !.accepted = IF result = "accepted" THEN @ + 1 ELSE @,
     !.rejected = IF result = "rejected" THEN @ + 1 ELSE @,
     !.rate_limited = IF result = "rate_limited" THEN @ + 1 ELSE @]

FilterTransaction(tx, hour) ==
  LET s == Filtered(tx, hour) IN
  /\ filter_stats.total < MAX_FILTERED
  /\ filter_stats' = CountResult(s.result)
  /\ rate_limiters' = s.limiters
  /\ allowed' = {a \in s.allowed : clock - a[2] < SECOND}
  /\ verdict' = [tx |-> tx, hour |-> hour, rules |-> filter_rules, result |-> s.result,
                 priority |-> s.priority]
  /\ UNCHANGED <<current_config, filter_rules, clock, changes>>

ResetFilterStats ==
  /\ filter_stats' = [total |-> 0, accepted |-> 0, rejected |-> 0, rate_limited |-> 0]
  /\ UNCHANGED <<current_config, filter_rules, rate_limiters, clock, allowed>>

TimePasses ==
  /\ clock < MAX_TIME /\ clock' = clock + 1
  /\ UNCHANGED <<current_config, filter_rules, rate_limiters, filter_stats, allowed>>

FilterNext ==
  \/ /\ \/ \E rules \in ConfigFiles : LoadConfig(rules)
        \/ \E i \in 1..3, b \in BOOLEAN : UpdateRule(i, b) \/ SetRuleEnabled(i, b)
        \/ \E rule \in NewRules : AddRule(rule) \/ RemoveRule(rule.name)
     /\ changes < MAX_CHANGES /\ changes' = changes + 1
     /\ verdict' = NoVerdict
  \/ /\ LoadRules \/ ResetFilterStats \/ TimePasses
     /\ verdict' = NoVerdict /\ UNCHANGED changes
  \/ \E tx \in FilterTxs, hour \in Hours : FilterTransaction(tx, hour)

-----------------------------------------------------------------------------
(* Properties                                                              *)

\* Every transaction since the last reset is counted under exactly one result
\* (filter_transaction returns early in two places).
FilterCountsAddUp ==
  filter_stats.total = filter_stats.accepted + filter_stats.rejected
                         + filter_stats.rate_limited

\* Whatever is loaded, added and removed in between, no two rules share a
\* limiter, and the limiter of a rule has the rate the rule was loaded with
\* (validate_config, add_rule and load_rules, which keeps old limiters).
LimiterPerRule ==
  \A i \in Limited(filter_rules) :
    /\ filter_rules[i].name \in DOMAIN rate_limiters
    /\ rate_limiters[filter_rules[i].name].max_per_second = filter_rules[i].arg
    /\ \A j \in DOMAIN filter_rules :
         filter_rules[j].name = filter_rules[i].name => j = i

\* In less than a second a limiter lets at most twice its rate pass: the bucket
\* is filled up whole, but not twice within a second (refill_tokens).
AtMostTwiceTheRate ==
  \A n \in {a[1] : a \in allowed} :
    Cardinality({a \in allowed : a[1] = n}) <= 2 * rate_limiters[n].max_per_second

\* An accepted transaction has the priority the last matching rule gave it, in
\* the order of the configured priorities, and no enabled rule that matches it
\* rejects; the reference looks at the rules as a set (sort, loop and early
\* return of filter_transaction).
VerdictIsRight ==
  verdict # NoVerdict /\ verdict.result = "accepted" =>
    LET R == {i \in DOMAIN verdict.rules : verdict.rules[i].enabled
                /\ EvaluateRule(verdict.rules[i], verdict.tx, verdict.hour)}
        setters == {i \in R : verdict.rules[i].action \in {"Accept", "SetPriority"}}
        level(i) == IF verdict.rules[i].action = "Accept" THEN 255
                    ELSE verdict.rules[i].arg
    IN /\ \A i \in R : verdict.rules[i].action # "Reject"
       /\ setters = {} => verdict.priority = 128
       /\ setters # {} => \E i \in setters :
            /\ verdict.priority = level(i)
            /\ \A j \in setters : verdict.rules[i].priority <= verdict.rules[j].priority

\* The verdict on a transaction depends on the rules as they are configured,
\* not on what was loaded, counted or limited before (filter_transaction,
\* load_rules).
FiltersSafe ==
  /\ FilterCountsAddUp
  /\ LimiterPerRule
  /\ AtMostTwiceTheRate
  /\ VerdictIsRight
=============================================================================
