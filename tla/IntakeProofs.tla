---------------------------- MODULE IntakeProofs ----------------------------
(***************************************************************************)
(* Proofs about what happens to a transaction between the mempool and a    *)
(* bundle plan (MCIntake), about the bot that runs it all, and about the   *)
(* manager of the services it starts (ServiceManager), for any rules,      *)
(* transactions, configurations, messages and bounds.                      *)
(***************************************************************************)
EXTENDS MCIntake, ServiceManager, SubsequenceProofs, FiniteSetTheorems,
        SequenceTheorems, TLAPS

-----------------------------------------------------------------------------
(* The decoders                                                            *)

\* The calls that took the way of a hit and have not returned their decoder.
Decoders == {t \in Decoding : decode[t] \in {"hit", "decoding"}}

\* Each decoder in the pool, and each one a call still has to return, is a
\* call of its own.
PoolInv ==
  /\ decode \in [Decoding -> {"idle", "hit", "miss", "decoding", "ok", "error"}]
  /\ decoder_pool \in Nat /\ decodes \in Nat
  /\ decoder_pool <= POOL_LIMIT
  /\ IsFiniteSet(Decoders)
  /\ decoder_pool + Cardinality(Decoders) <= decodes

CountsInv ==
  /\ decoder_stats \in [total_decodes : Nat, successful_decodes : Nat,
                        cache_hits : Nat, cache_misses : Nat]
  /\ DecodesAddUp

\* A step that changes one task adds it to the decoders, or takes it out, or
\* leaves it where it was.
LEMMA DecodersChange ==
  ASSUME NEW D, IsFiniteSet(D), NEW t, NEW E
  PROVE  /\ E = D \cup {t} =>
              IsFiniteSet(E) /\ Cardinality(E) <= Cardinality(D) + 1
         /\ t \in D /\ E = D \ {t} =>
              IsFiniteSet(E) /\ Cardinality(E) = Cardinality(D) - 1
<1>1. Cardinality(D) \in Nat
  BY FS_CardinalityType
<1>2. IsFiniteSet(D \cup {t}) /\ Cardinality(D \cup {t}) <= Cardinality(D) + 1
  <2>1. Cardinality(D \cup {t}) = IF t \in D THEN Cardinality(D) ELSE Cardinality(D) + 1
    BY FS_AddElement
  <2>2. QED
    BY <1>1, <2>1, FS_AddElement
<1>3. t \in D => IsFiniteSet(D \ {t}) /\ Cardinality(D \ {t}) = Cardinality(D) - 1
  BY FS_RemoveElement
<1>4. QED
  BY <1>2, <1>3

\* Every step of the shared decoder keeps the pool and its calls in step
\* (get_decoder_from_pool, return_decoder_to_pool).
LEMMA PoolStep ==
  ASSUME PoolInv, DecoderNext
  PROVE  PoolInv'
<1> DEFINE Steps == {"idle", "hit", "miss", "decoding", "ok", "error"}
<1>1. PICK p \in Nat, d \in Nat, c \in Nat :
        p = decoder_pool /\ d = decodes /\ c = Cardinality(Decoders)
  BY FS_CardinalityType DEF PoolInv
<1>2. p + c <= d /\ p <= POOL_LIMIT /\ POOL_LIMIT \in Nat
  BY <1>1, DecoderConstants DEF PoolInv
<1>3. decode \in [Decoding -> Steps] /\ IsFiniteSet(Decoders)
  BY DEF PoolInv
<1> DEFINE Goal(q, e) == /\ decoder_pool' = q /\ decodes' = e /\ q \in Nat /\ e \in Nat
                         /\ q <= POOL_LIMIT /\ decode' \in [Decoding -> Steps]
<1>4. ASSUME NEW q, NEW e, Goal(q, e), IsFiniteSet(Decoders'),
             q + Cardinality(Decoders') <= e
      PROVE  PoolInv'
  BY <1>4 DEF PoolInv
<1>5. ASSUME NEW t \in Decoding, NEW s, LookUp(t, s) PROVE PoolInv'
  <2>1. Goal(p, d + 1)
    BY <1>1, <1>2, <1>3, <1>5 DEF LookUp
  <2>2. Decoders' = Decoders \cup {t} \/ Decoders' = Decoders
    <3>1. \A u \in Decoding : u # t => decode'[u] = decode[u]
      BY <1>3, <1>5 DEF LookUp
    <3>2. decode[t] = "idle" /\ decode'[t] \in {"idle", "hit", "miss"}
      BY <1>3, <1>5 DEF LookUp
    <3>3. QED
      BY <3>1, <3>2 DEF Decoders
  <2>3. IsFiniteSet(Decoders') /\ Cardinality(Decoders') <= c + 1
    <3>1. CASE Decoders' = Decoders \cup {t}
      <4>1. IsFiniteSet(Decoders') /\ Cardinality(Decoders') <= Cardinality(Decoders) + 1
        BY ONLY <1>3, <3>1, DecodersChange, Zenon
      <4>2. QED
        BY <1>1, <4>1
    <3>2. CASE Decoders' = Decoders
      BY <1>1, <1>3, <3>2
    <3>3. QED
      BY <2>2, <3>1, <3>2
  <2>4. Cardinality(Decoders') \in Nat
    BY <2>3, FS_CardinalityType
  <2>5. QED
    BY <1>2, <1>4, <2>1, <2>3, <2>4
<1>6. ASSUME NEW t \in Decoding, GetDecoder(t) PROVE PoolInv'
  <2>1. PICK q \in Nat : q <= p /\ decoder_pool' = q
    BY <1>1, <1>6 DEF GetDecoder
  <2>2. Goal(q, d)
    BY <1>1, <1>2, <1>3, <1>6, <2>1 DEF GetDecoder
  <2>3. Decoders' = Decoders
    BY <1>3, <1>6 DEF GetDecoder, Decoders
  <2>4. QED
    BY <1>1, <1>2, <1>3, <1>4, <2>1, <2>2, <2>3
<1>7. ASSUME NEW t \in Decoding, ReturnDecoder(t) PROVE PoolInv'
  <2>1. PICK q \in Nat : q <= p + 1 /\ q <= POOL_LIMIT /\ decoder_pool' = q
    BY <1>1, <1>2, <1>7 DEF ReturnDecoder
  <2>2. Goal(q, d)
    BY <1>1, <1>2, <1>3, <1>7, <2>1 DEF ReturnDecoder
  <2>3. t \in Decoders /\ Decoders' = Decoders \ {t}
    BY <1>3, <1>7 DEF ReturnDecoder, Decoders
  <2>4. IsFiniteSet(Decoders') /\ Cardinality(Decoders') = c - 1
    BY <1>1, <1>3, <2>3, DecodersChange
  <2>5. QED
    BY <1>2, <1>4, <2>1, <2>2, <2>4
<1>8. ASSUME NEW t \in Decoding, RecordDecode(t) PROVE PoolInv'
  <2>1. Goal(p, d)
    BY <1>1, <1>2, <1>3, <1>8 DEF RecordDecode
  <2>2. Decoders' = Decoders
    BY <1>3, <1>8 DEF RecordDecode, Decoders
  <2>3. QED
    BY <1>1, <1>2, <1>3, <1>4, <2>1, <2>2
<1>9. CASE AddFunctionSignature \/ ResetDecoderStats
  <2>1. Goal(p, d) /\ Decoders' = Decoders
    BY <1>1, <1>2, <1>3, <1>9 DEF AddFunctionSignature, ResetDecoderStats, Decoders
  <2>2. QED
    BY <1>1, <1>2, <1>3, <1>4, <2>1
<1>10. QED
  BY <1>5, <1>6, <1>7, <1>8, <1>9 DEF DecoderNext

\* Every step keeps the statistics of the decoders in step with each other
\* (record_decode).
LEMMA CountsStep ==
  ASSUME PoolInv, CountsInv, DecoderNext
  PROVE  CountsInv'
<1>1. PICK n, k, h, m \in Nat :
        decoder_stats = [total_decodes |-> n, successful_decodes |-> k,
                         cache_hits |-> h, cache_misses |-> m]
  BY DEF CountsInv
<1>2. n = h + m /\ k <= h
  BY <1>1 DEF CountsInv, DecodesAddUp
<1>3. ASSUME NEW t \in Decoding, RecordDecode(t) PROVE CountsInv'
  <2>1. CASE decode[t] = "ok"
    <3>1. decoder_stats' = [total_decodes |-> n + 1, successful_decodes |-> k + 1,
                            cache_hits |-> h + 1, cache_misses |-> m]
      BY <1>1, <1>3, <2>1 DEF RecordDecode
    <3>2. QED
      BY <1>2, <3>1 DEF CountsInv, DecodesAddUp
  <2>2. CASE decode[t] = "error"
    <3>1. decoder_stats' = [total_decodes |-> n + 1, successful_decodes |-> k,
                            cache_hits |-> h + 1, cache_misses |-> m]
      BY <1>1, <1>3, <2>2 DEF RecordDecode
    <3>2. QED
      BY <1>2, <3>1 DEF CountsInv, DecodesAddUp
  <2>3. CASE decode[t] = "miss"
    <3>1. decoder_stats' = [total_decodes |-> n + 1, successful_decodes |-> k,
                            cache_hits |-> h, cache_misses |-> m + 1]
      BY <1>1, <1>3, <2>3 DEF RecordDecode
    <3>2. QED
      BY <1>2, <3>1 DEF CountsInv, DecodesAddUp
  <2>4. QED
    BY <1>3, <2>1, <2>2, <2>3 DEF RecordDecode
<1>4. CASE ResetDecoderStats
  BY <1>4 DEF ResetDecoderStats, NoStats, CountsInv, DecodesAddUp
<1>5. CASE UNCHANGED decoder_stats
  BY <1>5 DEF CountsInv, DecodesAddUp
<1>6. QED
  BY <1>3, <1>4, <1>5
  DEF DecoderNext, LookUp, GetDecoder, ReturnDecoder, AddFunctionSignature

\* What the table of the mempool's decoder has for one of its selectors is an
\* exchange (AbiDecoder::load_precompiled_abis).
LEMMA EntryIsDex ==
  ASSUME NEW s \in Selectors(PrecompiledAbis)
  PROVE  Entry(PrecompiledAbis, s)[2] \in DexTypes
<1> DEFINE T == PrecompiledAbis
<1>1. DOMAIN T = 1..10 /\ Len(T) = 10
  BY DEF PrecompiledAbis
<1>2. \A i \in 1..10 : T[i][2] \in DexTypes
  <2>1. \A i \in 1..10 : i \in {1, 2, 3, 4, 5, 6, 7, 8, 9, 10}
    OBVIOUS
  <2>2. QED
    BY <2>1 DEF PrecompiledAbis, DexTypes
<1> HIDE DEF T
<1> DEFINE Last(i) == T[i][1] = s /\ \A j \in i + 1..Len(T) : T[j][1] # s
<1>3. \E i \in 1..10 : Last(i)
  <2> DEFINE S == {n \in 0..9 : T[10 - n][1] = s}
  <2>1. PICK i \in 1..10 : T[i][1] = s
    BY <1>1 DEF Selectors, T
  <2>2. 10 - i \in 0..9 /\ 10 - (10 - i) = i
    OBVIOUS
  <2>3. 10 - i \in S
    BY <2>1, <2>2
  <2>4. \A n : n \in S <=> n \in 0..9 /\ T[10 - n][1] = s
    OBVIOUS
  <2> HIDE DEF S
  <2>5. S \in SUBSET Nat /\ S # {}
    BY <2>3, <2>4
  <2>6. PICK n \in S : \A m \in S : n <= m
    BY <2>5, LeastNatural
  <2>7. n \in 0..9 /\ 10 - n \in 1..10 /\ T[10 - n][1] = s
    BY <2>4
  <2>8. ASSUME NEW j \in 10 - n + 1..10, T[j][1] = s PROVE FALSE
    <3>1. 10 - j \in 0..9 /\ 10 - (10 - j) = j /\ 10 - j < n
      BY <2>7
    <3>2. 10 - j \in S
      BY <2>4, <2>8, <3>1
    <3>3. n <= 10 - j
      BY ONLY <2>6, <3>2
    <3>4. QED
      BY <2>7, <3>1, <3>3
  <2>9. QED
    BY <1>1, <2>7, <2>8
<1>4. Entry(T, s) = T[CHOOSE i \in DOMAIN T : Last(i)]
  BY DEF Entry
<1>5. (CHOOSE i \in DOMAIN T : Last(i)) \in 1..10
  BY <1>1, <1>3
<1>6. QED
  BY <1>2, <1>4, <1>5 DEF T

ParserInv == SlicesInBounds /\ RoutersInteresting

\* What the parser makes of a transaction is read within it and interesting
\* when it should be (decode_parameters, decode_function_simple,
\* is_interesting_transaction).
LEMMA ParserStep ==
  ASSUME ParserInv, ParserNext
  PROVE  ParserInv'
<1>1. PICK raw \in RawTxs : ParseTransaction(raw)
  BY DEF ParserNext
<1>2. /\ parsed'.raw = raw
      /\ parsed'.interesting = Interesting(raw)
      /\ parsed'.mempool = MempoolSlices(raw.selector, raw.chars)
      /\ parsed'.core = CoreDecode(raw.selector, Bytes(raw.chars))
  BY <1>1 DEF ParseTransaction
<1>3. PICK n \in Nat : raw.chars = n
  <2>1. \A r \in RawTxs : r.chars \in InputLengths
    BY DEF RawTxs
  <2>2. raw.chars \in Nat
    BY <2>1, DecoderConstants
  <2>3. QED
    BY <2>2
<1>4. Bytes(n) \in Nat
  BY DEF Bytes
<1>5. \A end \in MempoolSlices(raw.selector, n) : end <= n
  BY DEF MempoolSlices, TransferSlices
<1>6. \A end \in CoreDecode(raw.selector, Bytes(n)) : end <= Bytes(n)
  <2>1. PICK b \in Nat : b = Bytes(n)
    BY <1>4
  <2>2. ASSUME b >= 4, NEW end \in CoreSlices(raw.selector, b - 4)
        PROVE  end \in Nat /\ end <= b - 4
    BY <2>2 DEF CoreSlices
  <2>3. QED
    BY <2>1, <2>2 DEF CoreDecode
<1>7. ASSUME raw.to # Missing, n >= 10
      PROVE  Interesting(raw) <=> \/ raw.to \in RouterTypes
                                  \/ raw.selector \in Selectors(PrecompiledAbis)
  <2>1. Interesting(raw) <=> TargetType(raw) \in DexTypes
    BY <1>3, <1>7 DEF Interesting
  <2>2. DecodedSelector(raw) = raw.selector
    BY <1>3, <1>7 DEF DecodedSelector
  <2>3. CASE raw.selector \in Selectors(PrecompiledAbis)
    BY <2>1, <2>2, <2>3, EntryIsDex DEF TargetType
  <2>4. CASE raw.selector \notin Selectors(PrecompiledAbis)
    BY <2>1, <2>2, <2>4 DEF TargetType, RouterTypes, DexTypes
  <2>5. QED
    BY <2>3, <2>4
<1>8. SlicesInBounds'
  BY <1>2, <1>3, <1>5, <1>6 DEF SlicesInBounds
<1>9. RoutersInteresting'
  BY <1>2, <1>3, <1>7 DEF RoutersInteresting
<1>10. QED
  BY <1>8, <1>9 DEF ParserInv

DecodersInv == PoolInv /\ CountsInv /\ ParserInv

\* The decoders start without a decoder, a count or an input (AbiDecoder::new).
LEMMA DecodersStart ==
  ASSUME DecoderInit, ParserInit
  PROVE  DecodersInv
<1>1. Decoders = {}
  BY DEF Decoders, DecoderInit
<1>2. PoolInv
  BY <1>1, DecoderConstants, FS_EmptySet DEF PoolInv, DecoderInit
<1>3. CountsInv
  BY DEF CountsInv, DecodesAddUp, DecoderInit, NoStats
<1>4. ParserInv
  BY DEF ParserInv, SlicesInBounds, RoutersInteresting, ParserInit
<1>5. QED
  BY <1>2, <1>3, <1>4 DEF DecodersInv

\* No other component touches the decoders (mev-mempool abi_decoder.rs).
LEMMA DecodersKept ==
  ASSUME DecodersInv, UNCHANGED <<decoderVars, parsed>>
  PROVE  DecodersInv'
BY DEF DecodersInv, PoolInv, Decoders, CountsInv, DecodesAddUp, ParserInv,
       SlicesInBounds, RoutersInteresting, decoderVars

\* Every step of a decoding or of the parser (decode_function_call,
\* parse_transaction).
LEMMA DecodersStep ==
  ASSUME DecodersInv,
         (DecoderNext /\ UNCHANGED parsed) \/ (ParserNext /\ UNCHANGED decoderVars)
  PROVE  DecodersInv'
<1>1. CASE DecoderNext /\ UNCHANGED parsed
  <2>1. ParserInv'
    BY <1>1 DEF DecodersInv, ParserInv, SlicesInBounds, RoutersInteresting
  <2>2. QED
    BY <1>1, <2>1, PoolStep, CountsStep DEF DecodersInv
<1>2. CASE ParserNext /\ UNCHANGED decoderVars
  <2>1. PoolInv' /\ CountsInv'
    BY <1>2 DEF DecodersInv, PoolInv, Decoders, CountsInv, DecodesAddUp, decoderVars
  <2>2. QED
    BY <1>2, <2>1, ParserStep DEF DecodersInv
<1>3. QED
  BY <1>1, <1>2

\* The pool is within its limit, which the bound on the counts says
\* (return_decoder_to_pool).
LEMMA DecodersInvGives ==
  ASSUME DecodersInv
  PROVE  DecodersSafe
<1>1. decoder_pool <= decodes
  BY FS_CardinalityType DEF DecodersInv, PoolInv
<1>2. QED
  BY <1>1 DEF DecodersInv, PoolInv, CountsInv, ParserInv, DecodersSafe, PoolBounded

-----------------------------------------------------------------------------
(* The strategies                                                          *)

\* What is known of an opportunity when its plan is made.
OpportunityInv ==
  opportunity # Nothing =>
    LET s == opportunity.strategy
        tx == opportunity.tx
    IN /\ s \in {"arbitrage", "backrun", "sandwich"}
       /\ tx \in StrategyTxs /\ tx.decimal
       /\ opportunity.multiple \in Int
       /\ opportunity.profit = Profit(s, tx.target, tx.value, opportunity.multiple)
       /\ s = "backrun" =>
            tx.target \in {"UniswapV2", "UniswapV3", "SushiSwap", "Curve"}
       /\ s = "sandwich" => tx.target \in {"UniswapV2", "UniswapV3", "SushiSwap"}

\* A plan is that of an opportunity.
PlanInv ==
  plan # Nothing =>
    /\ opportunity # Nothing
    /\ PlannableUnlessCurve /\ WithinGasCap /\ LegsOutbid

SettingsInv ==
  /\ DOMAIN settings = Names
  /\ \A s \in Names :
       /\ settings[s].max_gas_price \in Nat
       /\ FrontRunMultiple(s) \in Int /\ GasPremium(s) \in Int

StrategiesInv == SettingsInv /\ OpportunityInv /\ PlanInv

\* Products and quotients of amounts keep their order.
LEMMA ProductsInOrder ==
  ASSUME NEW a \in Nat, NEW b \in Nat, NEW c \in Nat, NEW d \in Nat, a <= b, c <= d
  PROVE  a * c <= b * d /\ a * c \in Nat
<1>1. a * c <= b * c
  OBVIOUS
<1>2. b * c <= b * d
  OBVIOUS
<1>3. a * c \in Nat /\ b * c \in Nat /\ b * d \in Nat
  OBVIOUS
<1>4. QED
  BY ONLY <1>1, <1>2, <1>3

\* Fees in per mille keep the order of the amounts (backrun.rs, sandwich.rs).
LEMMA QuotientsInOrder ==
  ASSUME NEW a \in Nat, NEW b \in Nat, a <= b
  PROVE  a \div 1000 <= b \div 1000 /\ a \div 1000 \in Nat /\ b \div 1000 \in Nat
OBVIOUS

\* So do the sizes of front-runs, a multiple of the victim's (sandwich.rs).
LEMMA SizesInOrder ==
  ASSUME NEW a \in Nat, NEW b \in Nat, a <= b
  PROVE  a \div 20 <= b \div 20 /\ a \div 20 \in Nat /\ b \div 20 \in Nat
OBVIOUS

\* The impact of a trade is capped, and below the cap grows with the trade
\* (analyze_price_impact, estimate_price_impact).
Scaled(value, k, cap) == Capped((value * k) \div 1000, cap)
\* An impact that is capped keeps the order of the amounts (price impact of
\* the strategies).
LEMMA CappedInOrder ==
  ASSUME NEW a \in Nat, NEW b \in Nat, a <= b, NEW k \in Nat, NEW cap \in Nat
  PROVE  /\ Scaled(a, k, cap) <= Scaled(b, k, cap)
         /\ Scaled(a, k, cap) \in Nat /\ Scaled(b, k, cap) \in Nat
<1>1. PICK x \in Nat, y \in Nat : x = a * k /\ y = b * k /\ x <= y
  BY ProductsInOrder
<1>2. PICK u \in Nat, v \in Nat : u = x \div 1000 /\ v = y \div 1000 /\ u <= v
  BY ONLY <1>1, QuotientsInOrder
<1>3. Capped(u, cap) <= Capped(v, cap) /\ Capped(u, cap) \in Nat /\ Capped(v, cap) \in Nat
  BY ONLY <1>2, cap \in Nat DEF Capped, AtMost
<1>4. QED
  BY <1>1, <1>2, <1>3 DEF Scaled

\* So is that of the trade a back-run follows (analyze_price_impact).
LEMMA BackrunImpactInOrder ==
  ASSUME NEW a \in Nat, NEW b \in Nat, a <= b,
         NEW t \in {"UniswapV2", "UniswapV3", "SushiSwap", "Curve"}
  PROVE  /\ BackrunImpact(t, a) <= BackrunImpact(t, b)
         /\ BackrunImpact(t, a) \in Nat /\ BackrunImpact(t, b) \in Nat
<1>1. PICK k \in Nat, cap \in Nat : \A v : BackrunImpact(t, v) = Scaled(v, k, cap)
  <2>1. \/ \A v : BackrunImpact(t, v) = Scaled(v, 30, 500)
        \/ \A v : BackrunImpact(t, v) = Scaled(v, 20, 300)
        \/ \A v : BackrunImpact(t, v) = Scaled(v, 10, 100)
    BY DEF BackrunImpact, Scaled
  <2>2. QED
    BY <2>1
<1>2. /\ Scaled(a, k, cap) <= Scaled(b, k, cap)
      /\ Scaled(a, k, cap) \in Nat /\ Scaled(b, k, cap) \in Nat
  BY CappedInOrder
<1>3. QED
  BY ONLY <1>1, <1>2

\* The estimate of a back-run grows with the trade it follows
\* (calculate_backrun_profit).
LEMMA BackrunInOrder ==
  ASSUME NEW a \in Nat, NEW b \in Nat, a <= b,
         NEW t \in {"UniswapV2", "UniswapV3", "SushiSwap", "Curve"}
  PROVE  BackrunProfit(t, a) <= BackrunProfit(t, b)
<1>1. PICK i \in Nat, j \in Nat :
        i = BackrunImpact(t, a) /\ j = BackrunImpact(t, b) /\ i <= j
  BY BackrunImpactInOrder
<1>2. PICK r \in Nat : r = BackrunRate(t)
  BY DEF BackrunRate
<1>3. a * i \in Nat /\ b * j \in Nat /\ a * i <= b * j
  BY <1>1, ProductsInOrder
<1>4. PICK x \in Nat, y \in Nat : x = a * i * r /\ y = b * j * r /\ x <= y
  BY ONLY <1>3, r \in Nat, ProductsInOrder
<1>5. PICK u \in Nat, v \in Nat : u = x \div 1000 /\ v = y \div 1000 /\ u <= v
  BY ONLY <1>4, QuotientsInOrder
<1>6. GasCost(150, 50000) = 7500
  BY DEF GasCost
<1>7. SaturatingSub(u, 7500) <= SaturatingSub(v, 7500)
  BY ONLY <1>5 DEF SaturatingSub
<1>8. /\ BackrunProfit(t, a) = SaturatingSub(u, 7500)
      /\ BackrunProfit(t, b) = SaturatingSub(v, 7500)
  BY <1>1, <1>2, <1>4, <1>5, <1>6 DEF BackrunProfit
<1>9. QED
  BY ONLY <1>7, <1>8

\* So does that of a sandwich (calculate_sandwich_profit).
LEMMA SandwichInOrder ==
  ASSUME NEW a \in Nat, NEW b \in Nat, a <= b, NEW t, NEW m \in Int
  PROVE  /\ SandwichProfit(t, a, m) <= SandwichProfit(t, b, m)
         /\ SandwichGross(t, a, m) \in Nat
<1>1. PICK f \in Nat, g \in Nat :
        f = FrontRunSize(a, m) /\ g = FrontRunSize(b, m) /\ f <= g
  <2>1. PICK k \in Nat : k = AsUnsigned(m)
    BY DEF AsUnsigned
  <2>2. PICK x \in Nat, y \in Nat : x = a * k /\ y = b * k /\ x <= y
    BY ProductsInOrder
  <2>3. x \div 20 <= y \div 20 /\ x \div 20 \in Nat /\ y \div 20 \in Nat
    BY <2>2, SizesInOrder
  <2>4. FrontRunSize(a, m) = x \div 20 /\ FrontRunSize(b, m) = y \div 20
    BY <2>1, <2>2 DEF FrontRunSize
  <2>5. QED
    BY ONLY <2>3, <2>4
<1>2. PICK i \in Nat, j \in Nat :
        i = SandwichImpact(t, a + f) /\ j = SandwichImpact(t, b + g) /\ i <= j
  <2>1. PICK x \in Nat, y \in Nat : x = a + f /\ y = b + g /\ x <= y
    BY <1>1
  <2>2. PICK k \in Nat, cap \in Nat : \A v : SandwichImpact(t, v) = Scaled(v, k, cap)
    <3>1. \/ \A v : SandwichImpact(t, v) = Scaled(v, 30, 1000)
          \/ \A v : SandwichImpact(t, v) = Scaled(v, 50, 1500)
      BY DEF SandwichImpact, Scaled
    <3>2. QED
      BY <3>1
  <2>3. /\ Scaled(x, k, cap) <= Scaled(y, k, cap)
        /\ Scaled(x, k, cap) \in Nat /\ Scaled(y, k, cap) \in Nat
    BY <2>1, CappedInOrder
  <2>4. QED
    BY <2>1, <2>2, <2>3
<1>3. PICK k \in Nat : k = IF t = "UniswapV3" THEN 50 ELSE 40
  OBVIOUS
<1>4. f * i \in Nat /\ g * j \in Nat /\ f * i <= g * j
  BY <1>1, <1>2, ProductsInOrder
<1>5. PICK x \in Nat, y \in Nat : x = f * i * k /\ y = g * j * k /\ x <= y
  BY ONLY <1>4, k \in Nat, ProductsInOrder
<1>6. PICK u \in Nat, v \in Nat : u = x \div 1000 /\ v = y \div 1000 /\ u <= v
  BY ONLY <1>5, QuotientsInOrder
<1>7. SandwichGross(t, a, m) = u /\ SandwichGross(t, b, m) = v
  BY <1>1, <1>2, <1>3, <1>5, <1>6 DEF SandwichGross
<1>8. GasCost(400, 100000) = 40000
  BY DEF GasCost
<1>9. SaturatingSub(u, 40000) <= SaturatingSub(v, 40000)
  BY ONLY <1>6 DEF SaturatingSub
<1>10. QED
  BY ONLY <1>6, <1>7, <1>8, <1>9 DEF SandwichProfit

\* An opportunity is found with a profit that is one, and that a larger trade
\* does not make less (evaluate_transaction, min_profit_wei).
LEMMA OpportunityWorth ==
  ASSUME OpportunityInv
  PROVE  NoLossReported /\ LargerNotWorse
<1> SUFFICES ASSUME opportunity # Nothing PROVE NoLossReported /\ LargerNotWorse
  BY DEF NoLossReported, LargerNotWorse
<1> DEFINE s == opportunity.strategy
           tx == opportunity.tx
<1>1. /\ s \in {"arbitrage", "backrun", "sandwich"}
      /\ opportunity.multiple \in Int
      /\ opportunity.profit = Profit(s, tx.target, tx.value, opportunity.multiple)
      /\ s = "backrun" => tx.target \in {"UniswapV2", "UniswapV3", "SushiSwap", "Curve"}
  BY DEF OpportunityInv
<1>2. PICK x \in Nat : x = tx.value
  <2>1. tx \in StrategyTxs
    BY DEF OpportunityInv
  <2>2. \A y \in StrategyTxs : y.value \in TxValues
    BY DEF StrategyTxs
  <2>3. tx.value \in Nat
    BY <2>1, <2>2, StrategyConstants
  <2>4. QED
    BY <2>3
<1>3. PICK t : t = tx.target
  OBVIOUS
<1>4. PICK m \in Int : m = opportunity.multiple
  BY <1>1
<1> HIDE DEF s, tx
<1>5. CASE s = "arbitrage"
  <2>1. ArbitrageProfit([target |-> t]) \in Nat
    BY DEF ArbitrageProfit, SaturatingSub, GasCost
  <2>2. \A v : Profit(s, t, v, m) = ArbitrageProfit([target |-> t])
    BY <1>5 DEF Profit
  <2>3. LargerNotWorse
    BY <1>1, <1>3, <1>4, <2>1, <2>2 DEF LargerNotWorse, s, tx
  <2>4. QED
    BY <1>5, <2>3 DEF NoLossReported, s
<1>6. CASE s = "backrun"
  <2>1. \A v : Profit(s, t, v, m) = BackrunProfit(t, v)
    BY <1>6 DEF Profit
  <2>2. LargerNotWorse
    BY <1>1, <1>2, <1>3, <1>4, <1>6, <2>1, BackrunInOrder, StrategyConstants
    DEF LargerNotWorse, s, tx
  <2>3. opportunity.profit > 0 => x * BackrunImpact(t, x) * BackrunRate(t) > 7500 * 1000
    <3> DEFINE y == x * BackrunImpact(t, x) * BackrunRate(t)
    <3>1. opportunity.profit = SaturatingSub(y \div 1000, 7500)
      BY <1>1, <1>2, <1>3, <1>4, <2>1 DEF BackrunProfit, GasCost
    <3>2. y \in Nat
      <4>1. BackrunRate(t) \in Nat
        BY <1>1, <1>3, <1>6 DEF BackrunRate
      <4>2. BackrunImpact(t, x) \in Nat
        <5>1. t \in {"UniswapV2", "UniswapV3", "SushiSwap", "Curve"}
          BY <1>1, <1>3, <1>6
        <5>2. x <= x
          OBVIOUS
        <5>3. QED
          BY <5>1, <5>2, BackrunImpactInOrder
      <4>3. QED
        BY <4>1, <4>2
    <3> HIDE DEF y
    <3>3. SaturatingSub(y \div 1000, 7500) > 0 => y > 7500 * 1000
      BY <3>2 DEF SaturatingSub
    <3>4. QED
      BY <3>1, <3>3 DEF y
  <2>4. NoLossReported
    BY <1>2, <1>3, <1>6, <2>3 DEF NoLossReported, s, tx
  <2>5. QED
    BY <2>2, <2>4
<1>7. CASE s = "sandwich"
  <2>1. \A v : Profit(s, t, v, m) = SandwichProfit(t, v, m)
    BY <1>7 DEF Profit
  <2>2. LargerNotWorse
    BY <1>1, <1>2, <1>3, <1>4, <2>1, SandwichInOrder, StrategyConstants
    DEF LargerNotWorse, s, tx
  <2>3. opportunity.profit > 0 => SandwichGross(t, x, m) > 40000
    <3>1. opportunity.profit = SaturatingSub(SandwichGross(t, x, m), 40000)
      BY <1>1, <1>2, <1>3, <1>4, <2>1 DEF SandwichProfit, GasCost
    <3>2. PICK g \in Nat : g = SandwichGross(t, x, m)
      BY SandwichInOrder
    <3>3. SaturatingSub(g, 40000) > 0 => g > 40000
      BY DEF SaturatingSub
    <3>4. QED
      BY <3>1, <3>2, <3>3
  <2>4. NoLossReported
    BY <1>2, <1>3, <1>7, <1>4, <2>3 DEF NoLossReported, s, tx
  <2>5. QED
    BY <2>2, <2>4
<1>8. QED
  BY <1>1, <1>5, <1>6, <1>7

\* An opportunity that is found has what its plan will need
\* (is_backrun_candidate, is_sandwich_victim).
LEMMA EvaluateStep ==
  ASSUME StrategiesInv, NEW s \in Names, NEW tx \in StrategyTxs, EvaluateTransaction(s, tx)
  PROVE  StrategiesInv'
<1>1. SettingsInv' /\ PlanInv'
  BY DEF StrategiesInv, SettingsInv, FrontRunMultiple, GasPremium, PlanInv,
         EvaluateTransaction
<1>2. CASE ~Finds(s, tx)
  BY <1>1, <1>2 DEF EvaluateTransaction, StrategiesInv, OpportunityInv
<1>3. CASE Finds(s, tx)
  <2>1. /\ opportunity'.strategy = s /\ opportunity'.tx = tx
        /\ opportunity'.multiple = FrontRunMultiple(s)
        /\ opportunity'.profit = Profit(s, tx.target, tx.value, FrontRunMultiple(s))
        /\ FrontRunMultiple(s) \in Int
    BY <1>3 DEF EvaluateTransaction, ProfitNow, StrategiesInv, SettingsInv
  <2>2. CASE s = "arbitrage"
    <3>1. tx.decimal
      BY <1>3, <2>2 DEF Finds, IsArbitrage, AtLeast, Value
    <3>2. QED
      BY <1>1, <2>1, <2>2, <3>1 DEF StrategiesInv, OpportunityInv
  <2>3. CASE s = "backrun"
    <3>1. tx.decimal /\ tx.target \in {"UniswapV2", "UniswapV3", "SushiSwap", "Curve"}
      BY <1>3, <2>3 DEF Finds, IsBackrun, AtLeast, Value
    <3>2. QED
      BY <1>1, <2>1, <2>3, <3>1 DEF StrategiesInv, OpportunityInv
  <2>4. CASE s = "sandwich"
    <3>1. tx.decimal /\ tx.target \in {"UniswapV2", "UniswapV3", "SushiSwap"}
      BY <1>3, <2>4 DEF Finds, IsVictim, AtLeast, Value
    <3>2. QED
      BY <1>1, <2>1, <2>4, <3>1 DEF StrategiesInv, OpportunityInv
  <2>5. QED
    BY <1>3, <2>2, <2>3, <2>4 DEF Names, Finds
<1>4. QED
  BY <1>2, <1>3

\* A premium of one percent or more raises a price (create_sandwich_transactions).
LEMMA PremiumOutbids ==
  ASSUME NEW g \in Nat, g >= 100, NEW k \in Nat
  PROVE  /\ k >= 100 => (g * k) \div 100 >= g
         /\ k >= 101 => (g * k) \div 100 > g
<1>1. PICK x \in Nat : x = g * k
  OBVIOUS
<1>2. k >= 100 => x >= g * 100
  BY <1>1, ProductsInOrder
<1>3. k >= 101 => x >= g * 101
  BY <1>1, ProductsInOrder
<1>4. (x >= g * 100 => x \div 100 >= g) /\ (x >= g * 101 => x \div 100 > g)
  OBVIOUS
<1>5. QED
  BY <1>1, <1>2, <1>3, <1>4

\* A plan keeps to the cap and outbids its target, or is refused on Curve
\* (create_bundle_plan).
LEMMA PlanStep ==
  ASSUME StrategiesInv, CreatePlan
  PROVE  StrategiesInv'
<1> DEFINE s == opportunity.strategy
           tx == opportunity.tx
           made == [gas_prices |-> PlannedGas(s, tx), profit |-> opportunity.profit,
                    cap |-> settings[s].max_gas_price, premium |-> GasPremium(s)]
           refused == s # "arbitrage" /\ RouterAddress(tx.target) = Nothing
<1>1. opportunity # Nothing /\ UNCHANGED <<settings, opportunity>>
  BY DEF CreatePlan
<1>2. plan' = IF refused THEN Refused ELSE made
  BY DEF CreatePlan
<1>3. /\ s \in {"arbitrage", "backrun", "sandwich"}
      /\ tx \in StrategyTxs /\ tx.decimal
      /\ s = "backrun" => tx.target \in {"UniswapV2", "UniswapV3", "SushiSwap", "Curve"}
      /\ s = "sandwich" => tx.target \in {"UniswapV2", "UniswapV3", "SushiSwap"}
  BY <1>1 DEF StrategiesInv, OpportunityInv
<1>4. PICK cap \in Nat : cap = settings[s].max_gas_price
  BY <1>3 DEF StrategiesInv, SettingsInv, Names
<1>5. PICK g \in Nat : g = tx.gas_price /\ g >= 100
  <2>1. \A y \in StrategyTxs : y.gas_price \in TxGasPrices
    BY DEF StrategyTxs
  <2>2. tx.gas_price \in TxGasPrices
    BY <1>3, <2>1
  <2>3. QED
    BY <2>2, StrategyConstants
<1>6. refused <=> s = "backrun" /\ tx.target = "Curve"
  BY <1>3, StrategyConstants DEF RouterAddress, Targets
<1>7. made # Refused
  <2>1. "cap" \in DOMAIN made /\ "cap" \notin DOMAIN Refused
    BY DEF Refused
  <2>2. QED
    BY <2>1
<1>8. /\ made.gas_prices = PlannedGas(s, tx) /\ made.cap = cap
      /\ made.premium = GasPremium(s)
  BY <1>4
<1>9. s # "sandwich" => \A i \in DOMAIN PlannedGas(s, tx) : PlannedGas(s, tx)[i] <= cap
  <2>1. CASE s = "arbitrage"
    <3>1. PlannedGas(s, tx) = <<AtMost(60000, cap), AtMost(60000, cap)>>
      BY <1>4, <2>1 DEF PlannedGas, MaxGasPrice
    <3>2. AtMost(60000, cap) <= cap
      BY DEF AtMost
    <3>3. QED
      BY <3>1, <3>2
  <2>2. CASE s = "backrun"
    <3>1. PICK y \in Nat : y = g + g \div 20
      OBVIOUS
    <3>2. PlannedGas(s, tx) = <<AtMost(y, cap)>>
      BY <1>3, <1>4, <1>5, <2>2, <3>1 DEF PlannedGas, MaxGasPrice, TargetGasPrice
    <3>3. AtMost(y, cap) <= cap
      BY DEF AtMost
    <3>4. QED
      BY <3>2, <3>3
  <2>3. QED
    BY <1>3, <2>1, <2>2
<1>10. s = "sandwich" =>
         /\ PlannedGas(s, tx)[1] > PlannedGas(s, tx)[2]
         /\ GasPremium(s) >= 0 => PlannedGas(s, tx)[1] > g
         /\ GasPremium(s) > 0 => PlannedGas(s, tx)[2] > g
  <2>1. PICK p \in Int : p = GasPremium(s)
    BY <1>3 DEF StrategiesInv, SettingsInv, Names
  <2>2. PICK k \in Nat : k = AsUnsigned(100 + p)
    BY DEF AsUnsigned
  <2>3. (p >= 0 => k >= 100) /\ (p > 0 => k >= 101)
    BY <2>2 DEF AsUnsigned
  <2>4. PICK y \in Nat : y = (g * k) \div 100
    <3>1. PICK x \in Nat : x = g * k
      OBVIOUS
    <3>2. x \div 100 \in Nat
      OBVIOUS
    <3>3. QED
      BY <3>1, <3>2
  <2>5. (k >= 100 => y >= g) /\ (k >= 101 => y > g)
    BY <1>5, <2>4, PremiumOutbids
  <2>6. s = "sandwich" => PlannedGas(s, tx) = <<y + 1000, y>>
    BY <1>3, <1>5, <2>1, <2>2, <2>4 DEF PlannedGas, SandwichGas, TargetGasPrice
  <2>7. y + 1000 > y /\ (y >= g => y + 1000 > g)
    OBVIOUS
  <2>8. QED
    BY <2>1, <2>3, <2>5, <2>6, <2>7
<1> HIDE DEF made, refused
<1>11. PlannableUnlessCurve'
  BY <1>1, <1>2, <1>6, <1>7 DEF PlannableUnlessCurve
<1>12. WithinGasCap'
  BY <1>1, <1>2, <1>8, <1>9 DEF WithinGasCap
<1>13. LegsOutbid'
  BY <1>1, <1>2, <1>5, <1>8, <1>10 DEF LegsOutbid
<1>14. QED
  BY <1>1, <1>11, <1>12, <1>13
  DEF StrategiesInv, SettingsInv, FrontRunMultiple, GasPremium, OpportunityInv, PlanInv

\* Every step of the strategies keeps what their plans rest on.
LEMMA StrategiesStep ==
  ASSUME StrategiesInv, StrategiesNext
  PROVE  StrategiesInv'
<1>1. ASSUME NEW s \in Names, NEW c \in Settings, UpdateConfig(s, c)
      PROVE  StrategiesInv'
  <2>1. settings' = [settings EXCEPT ![s] = c] /\ UNCHANGED <<opportunity, plan>>
    BY <1>1 DEF UpdateConfig
  <2>2. /\ c.max_gas_price \in Nat
        /\ c.parameters.max_front_run_multiple \in Int
        /\ c.parameters.gas_price_premium_percent \in Int
    BY StrategyConstants
  <2>3. \A n \in Names : settings'[n] = IF n = s THEN c ELSE settings[n]
    BY <2>1 DEF StrategiesInv, SettingsInv
  <2>4. DOMAIN settings' = Names
    BY <2>1 DEF StrategiesInv, SettingsInv
  <2>5. SettingsInv'
    BY <2>2, <2>3, <2>4 DEF StrategiesInv, SettingsInv, FrontRunMultiple, GasPremium
  <2>6. QED
    BY <2>1, <2>5 DEF StrategiesInv, OpportunityInv, PlanInv, PlannableUnlessCurve,
                      WithinGasCap, LegsOutbid
<1>2. QED
  BY <1>1, EvaluateStep, PlanStep DEF StrategiesNext

\* No other component touches the strategies (mev-strategies).
LEMMA StrategiesKept ==
  ASSUME StrategiesInv, UNCHANGED strategyVars
  PROVE  StrategiesInv'
BY DEF StrategiesInv, SettingsInv, FrontRunMultiple, GasPremium, OpportunityInv,
       PlanInv, PlannableUnlessCurve, WithinGasCap, LegsOutbid, strategyVars

\* The strategies start with their default settings and no plan.
LEMMA StrategiesStart ==
  ASSUME StrategiesInit
  PROVE  StrategiesInv
<1>1. SettingsInv
  BY DEF StrategiesInit, SettingsInv, DefaultSettings, Setting, DefaultParameters,
         FrontRunMultiple, GasPremium, Names
<1>2. QED
  BY <1>1 DEF StrategiesInit, StrategiesInv, OpportunityInv, PlanInv

\* What a plan is made of is what the caller is promised (create_bundle_plan).
LEMMA StrategiesInvGives ==
  ASSUME StrategiesInv
  PROVE  PlansSafe
<1>1. PlannableUnlessCurve /\ WithinGasCap /\ LegsOutbid
  BY DEF StrategiesInv, PlanInv, PlannableUnlessCurve, WithinGasCap, LegsOutbid
<1>2. QED
  BY <1>1, OpportunityWorth DEF StrategiesInv, PlansSafe

-----------------------------------------------------------------------------
(* The statistics of the decision path                                     *)

\* 1 while a result is counted and not yet in the statistics
Pending == IF result = NoResult THEN 0 ELSE 1

StatsTypeOK ==
  /\ mempool_rx_count \in Nat /\ results_count \in Nat /\ processed_count \in Nat
  /\ output \in Seq(DecisionResults)
  /\ result \in DecisionResults \cup {NoResult}
  /\ manager_stats \in [received : Nat, sent : Nat, processed : Nat,
                        opportunities : Nat, sum : Nat, weight : Nat]
  /\ decision_tx_count \in Nat
  /\ report \in [step : {"tick", "mempool", "decision", "write"}, mempool : Nat,
                 decision : Nat, results : Nat, last : Nat, first : BOOLEAN]
  /\ collect \in [last : Nat, first : BOOLEAN]
  /\ history \in [opportunities : Nat, slowest : Nat, mempool_rate : Nat,
                  processed_rate : Nat]

\* What was reported last is at most what the reporter read, and that at most
\* what is counted; a result that is pending is not in the statistics.
CountsKept ==
  /\ manager_stats.opportunities = history.opportunities
  /\ manager_stats.processed + Pending <= results_count + 1
  /\ report.results <= results_count
  /\ history.mempool_rate <= report.last
  /\ report.last <= report.mempool
  /\ report.mempool <= mempool_rx_count
  /\ history.processed_rate <= collect.last
  /\ collect.last <= processed_count

StatsInv == StatsTypeOK /\ CountsKept /\ AverageBelowSlowest

\* An average of values up to a bound and one more value stays within both
\* (process_decision_result).
LEMMA AverageBounded ==
  ASSUME NEW s \in Nat, NEW w \in Nat, NEW p \in Nat, NEW b \in Nat, NEW m \in Nat,
         NEW c \in Nat, s <= b * w, b <= c, m <= c
  PROVE  s * p + m * w <= c * (w * (p + 1))
<1>1. PICK x \in Nat, y \in Nat : x = b * w /\ y = c * w
  OBVIOUS
<1>2. x <= y
  <2>1. b * w <= c * w
    OBVIOUS
  <2>2. QED
    BY ONLY <1>1, <2>1
<1>3. s <= y
  BY ONLY <1>1, <1>2, s <= b * w, s \in Nat
<1>4. PICK u \in Nat, v \in Nat, z \in Nat : u = s * p /\ v = y * p /\ z = m * w
  BY ONLY <1>1, s \in Nat, p \in Nat, m \in Nat, w \in Nat
<1>5. u <= v
  <2>1. s * p <= y * p
    BY ONLY <1>1, <1>3, s \in Nat, p \in Nat
  <2>2. QED
    BY ONLY <1>4, <2>1
<1>6. z <= y
  <2>1. m * w <= c * w
    OBVIOUS
  <2>2. QED
    BY ONLY <1>1, <1>4, <2>1
<1>7. v + y = c * (w * (p + 1))
  <2>1. v + y = y * (p + 1)
    BY ONLY <1>1, <1>4, p \in Nat
  <2>2. (c * w) * (p + 1) = c * (w * (p + 1))
    BY ONLY c \in Nat, w \in Nat, p \in Nat
  <2>3. QED
    BY ONLY <1>1, <2>1, <2>2
<1>8. u + z <= v + y
  BY ONLY <1>1, <1>4, <1>5, <1>6
<1>9. QED
  BY ONLY <1>4, <1>7, <1>8

\* A result that is added to the statistics is no longer pending, and bends the
\* average by its weight only (process_decision_result).
LEMMA UpdateStatsStep ==
  ASSUME StatsInv, UpdateStats
  PROVE  StatsInv'
<1>1. PICK p \in Nat, o \in Nat, s \in Nat, w \in Nat, b \in Nat, ho \in Nat :
        /\ p = manager_stats.processed /\ o = manager_stats.opportunities
        /\ s = manager_stats.sum /\ w = manager_stats.weight
        /\ b = history.slowest /\ ho = history.opportunities
  BY DEF StatsInv, StatsTypeOK
<1>2. PICK m \in Nat, k \in Nat : m = result.ms /\ k = result.opportunities
  BY DecisionStatsConstants DEF StatsInv, StatsTypeOK, UpdateStats
<1>3. s * p + m * w \in Nat /\ w * (p + 1) \in Nat /\ (p + 1) - 1 = p
  BY ONLY <1>1, <1>2
<1>4. manager_stats' = [manager_stats EXCEPT !.processed = p + 1, !.opportunities = o + k,
                          !.sum = s * p + m * w, !.weight = w * (p + 1)]
  BY <1>1, <1>2, <1>3 DEF UpdateStats, Average
<1>5. PICK c \in Nat : c = IF m > b THEN m ELSE b
  OBVIOUS
<1>6. history' = [history EXCEPT !.opportunities = ho + k, !.slowest = c]
  BY <1>1, <1>2, <1>5 DEF UpdateStats
<1>7. UNCHANGED <<mempool_rx_count, results_count, processed_count, output,
                  decision_tx_count, report, collect>> /\ result' = NoResult
  BY DEF UpdateStats, counters, reporters
<1>8. p + 1 <= results_count + 1
  BY <1>1 DEF UpdateStats, Pending, StatsInv, CountsKept
<1>9. StatsTypeOK'
  <2>1. PICK x \in Nat, y \in Nat : x = s * p + m * w /\ y = w * (p + 1)
    BY <1>3
  <2>2. manager_stats' = [manager_stats EXCEPT !.processed = p + 1, !.opportunities = o + k,
                            !.sum = x, !.weight = y]
    BY <1>4, <2>1
  <2>3. p + 1 \in Nat /\ o + k \in Nat /\ ho + k \in Nat
    BY ONLY <1>1, <1>2
  <2>4. manager_stats' \in [received : Nat, sent : Nat, processed : Nat,
                            opportunities : Nat, sum : Nat, weight : Nat]
    BY <2>2, <2>3 DEF StatsInv, StatsTypeOK
  <2>5. history' \in [opportunities : Nat, slowest : Nat, mempool_rate : Nat,
                      processed_rate : Nat]
    BY <1>5, <1>6, <2>3 DEF StatsInv, StatsTypeOK
  <2>6. QED
    BY <1>7, <2>4, <2>5 DEF StatsInv, StatsTypeOK
<1>10. /\ manager_stats'.processed = p + 1 /\ manager_stats'.opportunities = o + k
       /\ manager_stats'.sum = s * p + m * w /\ manager_stats'.weight = w * (p + 1)
  BY <1>4 DEF StatsInv, StatsTypeOK
<1>11. /\ history'.opportunities = ho + k /\ history'.slowest = c
       /\ history'.mempool_rate = history.mempool_rate
       /\ history'.processed_rate = history.processed_rate
  BY <1>6 DEF StatsInv, StatsTypeOK
<1>12. Pending' = 0
  BY <1>7 DEF Pending
<1>13. o = ho
  BY <1>1 DEF StatsInv, CountsKept
<1>14. results_count \in Nat
  BY DEF StatsInv, StatsTypeOK
<1>15. CountsKept'
  BY <1>7, <1>8, <1>10, <1>11, <1>12, <1>13, <1>14 DEF StatsInv, CountsKept
<1>16. AverageBelowSlowest'
  <2>1. s <= b * w
    BY <1>1 DEF StatsInv, AverageBelowSlowest
  <2>2. b <= c /\ m <= c
    BY <1>5
  <2>3. s * p + m * w <= c * (w * (p + 1))
    BY ONLY <1>1, <1>2, <1>5, <2>1, <2>2, AverageBounded
  <2>4. QED
    BY <1>10, <1>11, <2>3 DEF AverageBelowSlowest
<1>17. QED
  BY <1>9, <1>15, <1>16 DEF StatsInv

\* A report replaces the counts by ones that were read before, and its rates by
\* what was not reported yet (start_stats_reporting).
LEMMA WriteReportStep ==
  ASSUME StatsInv, NEW elapsed \in BOOLEAN, WriteReport(elapsed)
  PROVE  StatsInv'
<1>1. PICK m \in Nat, l \in Nat, r \in Nat, d \in Nat, rate \in Nat :
        /\ m = report.mempool /\ l = report.last /\ r = report.results
        /\ d = report.decision /\ rate = history.mempool_rate
  BY DEF StatsInv, StatsTypeOK
<1>2. rate <= l /\ l <= m /\ m <= mempool_rx_count /\ r <= results_count
  BY <1>1 DEF StatsInv, CountsKept
<1>3. report' = [report EXCEPT !.step = "tick", !.first = FALSE, !.last = m]
  BY <1>1 DEF WriteReport, NewLast
<1>4. UNCHANGED <<mempool_rx_count, results_count, processed_count, output,
                  decision_tx_count, result, collect>>
  BY DEF WriteReport, counters, pipeline
<1>5. results_count \in Nat /\ Pending \in {0, 1} /\ Pending' = Pending
  BY <1>4 DEF Pending, StatsInv, StatsTypeOK
<1>6. CASE elapsed
  <2>1. PICK x \in Nat : x = rate + (m - l) /\ x <= m
    BY ONLY <1>1, <1>2
  <2>2. history' = [history EXCEPT !.mempool_rate = x]
    BY <1>1, <1>6, <2>1 DEF WriteReport
  <2>3. manager_stats' = [manager_stats EXCEPT !.received = m, !.sent = d, !.processed = r]
    BY <1>1, <1>6 DEF WriteReport, Reported
  <2>4. StatsTypeOK'
    BY <1>1, <1>3, <1>4, <2>1, <2>2, <2>3 DEF StatsInv, StatsTypeOK
  <2>5. r + Pending <= results_count + 1
    BY <1>1, <1>2, <1>5
  <2>6. /\ history'.opportunities = history.opportunities /\ history'.mempool_rate = x
        /\ history'.processed_rate = history.processed_rate
        /\ history'.slowest = history.slowest
        /\ manager_stats'.opportunities = manager_stats.opportunities
        /\ manager_stats'.processed = r
        /\ manager_stats'.sum = manager_stats.sum
        /\ manager_stats'.weight = manager_stats.weight
        /\ report'.results = report.results /\ report'.last = m
        /\ report'.mempool = report.mempool
    BY <2>2, <2>3, <1>3 DEF StatsInv, StatsTypeOK
  <2>7. CountsKept'
    BY <1>1, <1>2, <1>4, <1>5, <2>1, <2>5, <2>6 DEF StatsInv, CountsKept
  <2>8. AverageBelowSlowest'
    BY <2>6 DEF StatsInv, AverageBelowSlowest
  <2>9. QED
    BY <2>4, <2>7, <2>8 DEF StatsInv
<1>7. CASE ~elapsed
  <2>1. UNCHANGED <<history, manager_stats>>
    BY <1>7 DEF WriteReport
  <2>2. StatsTypeOK'
    BY <1>1, <1>3, <1>4, <2>1 DEF StatsInv, StatsTypeOK
  <2>3. /\ report'.results = report.results /\ report'.last = m
        /\ report'.mempool = report.mempool
    BY <1>3 DEF StatsInv, StatsTypeOK
  <2>4. CountsKept'
    BY <1>1, <1>2, <1>4, <1>5, <2>1, <2>3 DEF StatsInv, CountsKept
  <2>5. AverageBelowSlowest'
    BY <2>1 DEF StatsInv, AverageBelowSlowest
  <2>6. QED
    BY <2>2, <2>4, <2>5 DEF StatsInv
<1>8. QED
  BY <1>6, <1>7

\* The reporter reads one counter at a time (start_stats_reporting).
LEMMA ReadCounterStep ==
  ASSUME StatsInv, ReadCounter
  PROVE  StatsInv'
<1>1. UNCHANGED <<mempool_rx_count, results_count, processed_count, output,
                  decision_tx_count, result, collect, manager_stats, history>>
  BY DEF ReadCounter, counters, pipeline
<1>2. /\ report' \in [step : {"tick", "mempool", "decision", "write"}, mempool : Nat,
                      decision : Nat, results : Nat, last : Nat, first : BOOLEAN]
      /\ report'.last = report.last
      /\ report'.results \in {report.results, results_count}
      /\ report'.mempool \in {report.mempool, mempool_rx_count}
  BY DEF ReadCounter, StatsInv, StatsTypeOK
<1>3. StatsTypeOK' /\ AverageBelowSlowest' /\ Pending' = Pending
  BY <1>1, <1>2 DEF StatsInv, StatsTypeOK, AverageBelowSlowest, Pending
<1>4. PICK m \in Nat, l \in Nat, r \in Nat, a \in Nat, b \in Nat :
        /\ m = report.mempool /\ l = report.last /\ r = report.results
        /\ a = mempool_rx_count /\ b = results_count
  BY DEF StatsInv, StatsTypeOK
<1>5. l <= m /\ m <= a /\ r <= b
  BY <1>4 DEF StatsInv, CountsKept
<1>6. l <= report'.mempool /\ report'.mempool <= a /\ report'.results <= b
  BY <1>2, <1>4, <1>5
<1>7. CountsKept'
  BY <1>1, <1>2, <1>3, <1>4, <1>6 DEF StatsInv, CountsKept
<1>8. QED
  BY <1>3, <1>7 DEF StatsInv

\* The collector of the decision path rates what was processed since the last
\* time (start_metrics_collection).
LEMMA CollectMetricsStep ==
  ASSUME StatsInv, NEW elapsed \in BOOLEAN, CollectMetrics(elapsed)
  PROVE  StatsInv'
<1>1. UNCHANGED <<mempool_rx_count, results_count, processed_count, output,
                  decision_tx_count, result, report, manager_stats>>
  BY DEF CollectMetrics, counters, pipeline
<1>2. PICK c \in Nat, l \in Nat, rate \in Nat :
        c = processed_count /\ l = collect.last /\ rate = history.processed_rate
  BY DEF StatsInv, StatsTypeOK
<1>3. rate <= l /\ l <= c
  BY <1>2 DEF StatsInv, CountsKept
<1>4. collect' = [last |-> c, first |-> FALSE]
  BY <1>2 DEF CollectMetrics, NewLast
<1>5. PICK x \in Nat : x <= c /\ history' = [history EXCEPT !.processed_rate = x]
  <2>1. CASE elapsed
    <3>1. history' = [history EXCEPT !.processed_rate = rate + (c - l)]
      BY <1>2, <2>1 DEF CollectMetrics
    <3>2. rate + (c - l) \in Nat /\ rate + (c - l) <= c
      BY ONLY <1>2, <1>3
    <3>3. QED
      BY <3>1, <3>2
  <2>2. CASE ~elapsed
    <3>1. history' = [history EXCEPT !.processed_rate = rate]
      BY <1>2, <2>2 DEF CollectMetrics, StatsInv, StatsTypeOK
    <3>2. rate <= c
      BY ONLY <1>2, <1>3
    <3>3. QED
      BY <3>1, <3>2
  <2>3. QED
    BY <2>1, <2>2
<1>6. StatsTypeOK' /\ Pending' = Pending
  BY <1>1, <1>2, <1>4, <1>5 DEF StatsInv, StatsTypeOK, Pending
<1>7. /\ history'.opportunities = history.opportunities
      /\ history'.mempool_rate = history.mempool_rate
      /\ history'.processed_rate = x /\ history'.slowest = history.slowest
  BY <1>5 DEF StatsInv, StatsTypeOK
<1>8. CountsKept' /\ AverageBelowSlowest'
  BY <1>1, <1>2, <1>4, <1>5, <1>6, <1>7 DEF StatsInv, CountsKept, AverageBelowSlowest
<1>9. QED
  BY <1>6, <1>8 DEF StatsInv

\* The steps that only count.
LEMMA CountingStep ==
  ASSUME StatsInv,
         \/ StartDecisionPath \/ CountReceived \/ CountSent \/ RecvResult
         \/ \E r \in DecisionResults : OutputResult(r)
  PROVE  StatsInv'
<1>1. /\ UNCHANGED <<manager_stats, report, collect, history>>
      /\ mempool_rx_count' \in {mempool_rx_count, mempool_rx_count + 1}
      /\ decision_tx_count' \in {decision_tx_count, decision_tx_count + 1}
      /\ processed_count' \in {processed_count, processed_count + 1}
  BY DEF StartDecisionPath, StartStage, CountReceived, CountSent, RecvResult,
         OutputResult, counters, pipeline, reporters
<1>2. /\ output' \in Seq(DecisionResults)
      /\ result' \in DecisionResults \cup {NoResult}
  <2>1. CASE RecvResult
    BY <2>1, HeadTailProperties DEF RecvResult, StatsInv, StatsTypeOK
  <2>2. ASSUME NEW r \in DecisionResults, OutputResult(r)
        PROVE  output' \in Seq(DecisionResults) /\ result' = result
    BY <2>2, AppendProperties DEF OutputResult, StatsInv, StatsTypeOK
  <2>3. CASE UNCHANGED <<output, result>>
    BY <2>3 DEF StatsInv, StatsTypeOK
  <2>4. QED
    BY <2>1, <2>2, <2>3
    DEF StatsInv, StatsTypeOK, StartDecisionPath, StartStage, CountReceived, CountSent,
        pipeline
<1>3. \/ results_count' = results_count /\ result' = result
      \/ results_count' = results_count + 1 /\ result = NoResult
  BY DEF StartDecisionPath, StartStage, CountReceived, CountSent, RecvResult,
         OutputResult, pipeline
<1>4. PICK c \in Nat, m \in Nat, p \in Nat :
        c = results_count /\ m = mempool_rx_count /\ p = processed_count
  BY DEF StatsInv, StatsTypeOK
<1>5. PICK k \in Nat : k = manager_stats.processed
  BY DEF StatsInv, StatsTypeOK
<1>6. StatsTypeOK' /\ AverageBelowSlowest'
  <2>1. /\ mempool_rx_count' \in Nat /\ results_count' \in Nat
        /\ processed_count' \in Nat /\ decision_tx_count' \in Nat
    <3>1. decision_tx_count \in Nat
      BY DEF StatsInv, StatsTypeOK
    <3>2. decision_tx_count' \in Nat
      BY ONLY <1>1, <3>1
    <3>3. results_count' \in Nat
      BY ONLY <1>3, <1>4
    <3>4. mempool_rx_count' \in Nat /\ processed_count' \in Nat
      BY ONLY <1>1, <1>4
    <3>5. QED
      BY <3>2, <3>3, <3>4
  <2>2. StatsTypeOK'
    BY <1>1, <1>2, <2>1 DEF StatsInv, StatsTypeOK
  <2>3. AverageBelowSlowest'
    BY <1>1 DEF StatsInv, AverageBelowSlowest
  <2>4. QED
    BY <2>2, <2>3
<1>7. k + Pending' <= results_count' + 1
  <2>1. k + Pending <= c + 1
    BY <1>4, <1>5 DEF StatsInv, CountsKept
  <2>2. QED
    BY <1>3, <1>4, <2>1 DEF Pending
<1>8. results_count' \in Nat /\ c <= results_count'
      /\ m <= mempool_rx_count' /\ p <= processed_count'
      /\ mempool_rx_count' \in Nat /\ processed_count' \in Nat
  BY <1>1, <1>3, <1>4
<1>9. CountsKept'
  <2>1. report.results \in Nat /\ report.mempool \in Nat /\ collect.last \in Nat
    BY DEF StatsInv, StatsTypeOK
  <2>2. report.results <= c /\ report.mempool <= m /\ collect.last <= p
    BY <1>4 DEF StatsInv, CountsKept
  <2>3. /\ report.results <= results_count' /\ report.mempool <= mempool_rx_count'
        /\ collect.last <= processed_count'
    BY ONLY <1>4, <1>8, <2>1, <2>2
  <2>4. QED
    BY <1>1, <1>5, <1>7, <2>3 DEF StatsInv, CountsKept
<1>10. QED
  BY <1>6, <1>9 DEF StatsInv

\* Every step of the decision path's counters and their reporters keeps the
\* statistics right.
LEMMA StatsStep ==
  ASSUME StatsInv, StatsNext
  PROVE  StatsInv'
BY CountingStep, UpdateStatsStep, ReadCounterStep, WriteReportStep, CollectMetricsStep
DEF StatsNext, Process, Report

\* No other component touches the statistics (decision_path_manager.rs).
LEMMA StatsKept ==
  ASSUME StatsInv, UNCHANGED statsVars
  PROVE  StatsInv'
BY DEF StatsInv, StatsTypeOK, CountsKept, AverageBelowSlowest, Pending, statsVars

\* The statistics start at zero (DecisionPathManager::new).
LEMMA StatsStart ==
  ASSUME StatsInit
  PROVE  StatsInv
BY DEF StatsInit, StatsInv, StatsTypeOK, CountsKept, AverageBelowSlowest, Pending

\* What is kept of every count bounds what is reported (get_stats).
LEMMA StatsInvGives ==
  ASSUME StatsInv
  PROVE  AverageBelowSlowest /\ OpportunitiesKept /\ RatesCountOnce
<1>1. PICK k \in Nat, p \in Nat, c \in Nat :
        k = manager_stats.processed /\ p = Pending /\ c = results_count
  BY DEF StatsInv, StatsTypeOK, Pending
<1>2. k <= c + 1
  BY <1>1 DEF StatsInv, CountsKept
<1>3. RatesCountOnce
  BY DEF StatsInv, StatsTypeOK, CountsKept, RatesCountOnce
<1>4. QED
  BY <1>1, <1>2, <1>3 DEF StatsInv, CountsKept, OpportunitiesKept

-----------------------------------------------------------------------------
(* The filters                                                             *)

Rank(rules, i) == Cardinality({j \in DOMAIN rules : Before(rules, j, i)})

\* The rules before a rule are fewer than those before a later one
\* (sort_by in load_rules).
LEMMA RankGrows ==
  ASSUME NEW rules \in Seq(RuleRecords), NEW i \in DOMAIN rules, NEW j \in DOMAIN rules,
         Before(rules, i, j)
  PROVE  Rank(rules, i) < Rank(rules, j)
<1>1. PICK N \in Nat : N = Len(rules) /\ DOMAIN rules = 1..N
  BY LenProperties
<1>2. \A k \in 1..N : rules[k].priority \in Int
  BY <1>1, ElementOfSeq DEF RuleRecords
<1> DEFINE A == {k \in 1..N : Before(rules, k, i)}
           B == {k \in 1..N : Before(rules, k, j)}
<1>3. IsFiniteSet(B)
  <2>1. IsFiniteSet(1..N) /\ B \in SUBSET (1..N)
    BY FS_Interval
  <2> HIDE DEF B
  <2>2. QED
    BY <2>1, FS_Subset
<1>4. A \in SUBSET B
  <2>1. ASSUME NEW k \in 1..N, Before(rules, k, i) PROVE Before(rules, k, j)
    <3>1. PICK a \in Int, b \in Int, c \in Int :
            a = rules[k].priority /\ b = rules[i].priority /\ c = rules[j].priority
      BY <1>1, <1>2
    <3>2. k \in Int /\ i \in Int /\ j \in Int
      BY <1>1
    <3>3. (a > b \/ (a = b /\ k < i)) /\ (b > c \/ (b = c /\ i < j))
      BY <2>1, <3>1 DEF Before
    <3>4. a > c \/ (a = c /\ k < j)
      BY ONLY <3>1, <3>2, <3>3
    <3>5. QED
      BY <3>1, <3>4 DEF Before
  <2>2. QED
    BY <2>1
<1>5. i \in B /\ i \notin A
  <2>1. ~Before(rules, i, i)
    <3>1. rules[i].priority \in Int /\ i \in Int
      BY <1>1, <1>2
    <3>2. QED
      BY <3>1 DEF Before
  <2>2. QED
    BY <1>1, <2>1
<1>6. Rank(rules, i) = Cardinality(A) /\ Rank(rules, j) = Cardinality(B)
  BY <1>1 DEF Rank
<1> HIDE DEF A, B
<1>7. /\ IsFiniteSet(A) /\ Cardinality(A) \in Nat /\ Cardinality(B) \in Nat
      /\ Cardinality(A) <= Cardinality(B)
      /\ (Cardinality(B) = Cardinality(A) => A = B)
  BY <1>3, <1>4, FS_Subset, FS_CardinalityType
<1>8. QED
  BY <1>5, <1>6, <1>7

\* Two different rules are ordered.
LEMMA RulesOrdered ==
  ASSUME NEW rules \in Seq(RuleRecords), NEW i \in DOMAIN rules, NEW j \in DOMAIN rules,
         i # j
  PROVE  Before(rules, i, j) \/ Before(rules, j, i)
<1>1. PICK N \in Nat : N = Len(rules) /\ DOMAIN rules = 1..N
  BY LenProperties
<1>2. \A k \in 1..N : rules[k].priority \in Int
  BY <1>1, ElementOfSeq DEF RuleRecords
<1>3. PICK a \in Int, b \in Int : a = rules[i].priority /\ b = rules[j].priority
  BY <1>1, <1>2
<1>4. i \in Int /\ j \in Int
  BY <1>1
<1>5. i # j
  OBVIOUS
<1>6. (a > b \/ (a = b /\ i < j)) \/ (b > a \/ (b = a /\ j < i))
  BY ONLY <1>3, <1>4, <1>5
<1>7. QED
  BY <1>3, <1>6 DEF Before

\* There is a rule for every rank.
LEMMA RankTaken ==
  ASSUME NEW rules \in Seq(RuleRecords), NEW k \in DOMAIN rules
  PROVE  \E i \in DOMAIN rules : Rank(rules, i) = k - 1
<1>1. PICK N \in Nat : N = Len(rules) /\ DOMAIN rules = 1..N
  BY LenProperties
<1> SUFFICES ASSUME \A i \in 1..N : Rank(rules, i) # k - 1 PROVE FALSE
  BY <1>1
<1> DEFINE f == [i \in 1..N |-> Rank(rules, i)]
           T == (0..N - 1) \ {k - 1}
<1>2. ASSUME NEW i \in 1..N PROVE f[i] \in T
  <2> DEFINE A == {j \in 1..N : Before(rules, j, i)}
  <2>1. Rank(rules, i) = Cardinality(A)
    BY <1>1 DEF Rank
  <2> DEFINE D == 1..N
             W == D \ {i}
  <2>2. IsFiniteSet(W) /\ Cardinality(W) = N - 1
    <3>1. IsFiniteSet(D) /\ Cardinality(D) = N /\ i \in D
      <4>1. 1 \in Int /\ N \in Int /\ ~(1 > N) /\ N - 1 + 1 = N
        OBVIOUS
      <4>2. IsFiniteSet(1..N) /\ Cardinality(1..N) = N
        BY <4>1, FS_Interval
      <4>3. QED
        BY <4>2
    <3> HIDE DEF D
    <3>2. Cardinality(W) = Cardinality(D) - 1 /\ IsFiniteSet(W)
      BY <3>1, FS_RemoveElement
    <3>3. QED
      BY <3>1, <3>2
  <2>3. A \in SUBSET W
    <3>1. rules[i].priority \in Int /\ i \in Int
      BY <1>1, ElementOfSeq DEF RuleRecords
    <3>2. ~Before(rules, i, i)
      BY <3>1 DEF Before
    <3>3. QED
      BY <3>2
  <2> HIDE DEF A, W
  <2>4. Cardinality(A) \in Nat /\ Cardinality(A) <= N - 1
    BY <2>2, <2>3, FS_Subset, FS_CardinalityType
  <2>5. Cardinality(A) \in 0..N - 1 /\ Cardinality(A) # k - 1
    BY <2>1, <2>4
  <2>6. QED
    BY <2>1, <2>5
<1>3. IsFiniteSet(1..N) /\ Cardinality(1..N) = N
  BY FS_Interval
<1>4. IsFiniteSet(T) /\ Cardinality(T) = N - 1
  <2>1. IsFiniteSet(0..N - 1) /\ Cardinality(0..N - 1) = N
    <3>1. 0 \in Int /\ N - 1 \in Int /\ ~(0 > N - 1) /\ N - 1 - 0 + 1 = N
      BY <1>1
    <3>2. QED
      BY <3>1, FS_Interval
  <2>2. k - 1 \in 0..N - 1
    BY <1>1
  <2>3. QED
    BY <2>1, <2>2, FS_RemoveElement
<1>5. f \in [1..N -> T]
  BY <1>2
<1>6. N - 1 < N
  OBVIOUS
<1> HIDE DEF f, T
<1>7. PICK i \in 1..N, j \in 1..N : i # j /\ f[i] = f[j]
  BY <1>3, <1>4, <1>5, <1>6, FS_PigeonHole
<1>8. Rank(rules, i) = Rank(rules, j) /\ Rank(rules, i) \in Int
  BY <1>2, <1>7 DEF f, T
<1>9. Rank(rules, i) < Rank(rules, j) \/ Rank(rules, j) < Rank(rules, i)
  BY <1>1, <1>7, RankGrows, RulesOrdered
<1>10. QED
  BY <1>8, <1>9

Unique(rules) ==
  \A i, j \in DOMAIN rules : rules[i].name = rules[j].name => i = j
Descending(rules) ==
  \A i, j \in DOMAIN rules : i < j => rules[i].priority >= rules[j].priority

\* load_rules sorts: the same rules, by their priority.
LEMMA SortedRules ==
  ASSUME NEW rules \in Seq(RuleRecords), Unique(rules)
  PROVE  /\ Sorted(rules) \in Seq(RuleRecords) /\ Unique(Sorted(rules))
         /\ Descending(Sorted(rules))
<1>1. PICK N \in Nat : N = Len(rules) /\ DOMAIN rules = 1..N
  BY LenProperties
<1> DEFINE at(k) == CHOOSE i \in DOMAIN rules : Rank(rules, i) = k - 1
<1>2. Sorted(rules) = [k \in 1..N |-> rules[at(k)]]
  BY <1>1 DEF Sorted, Rank
<1>3. ASSUME NEW k \in 1..N PROVE at(k) \in 1..N /\ Rank(rules, at(k)) = k - 1
  BY <1>1, RankTaken
<1> HIDE DEF at
<1> DEFINE s == [k \in 1..N |-> rules[at(k)]]
<1>4. s \in Seq(RuleRecords) /\ DOMAIN s = 1..N
  <2>1. \A k \in 1..N : s[k] \in RuleRecords
    BY <1>1, <1>3, ElementOfSeq
  <2>2. s \in [1..N -> RuleRecords]
    BY <2>1
  <2>3. QED
    BY <2>2
<1>5. Unique(s)
  <2>1. ASSUME NEW k \in 1..N, NEW l \in 1..N, s[k].name = s[l].name PROVE k = l
    <3>1. at(k) = at(l)
      BY <1>1, <1>3, <2>1 DEF Unique
    <3>2. k - 1 = l - 1
      BY <1>3, <3>1
    <3>3. QED
      BY <3>2
  <2>2. QED
    BY <1>4, <2>1 DEF Unique
<1>6. Descending(s)
  <2>1. ASSUME NEW k \in 1..N, NEW l \in 1..N, k < l
        PROVE  s[k].priority >= s[l].priority
    <3>1. PICK i \in 1..N, j \in 1..N : i = at(k) /\ j = at(l)
      BY <1>3
    <3>2. rules[i].priority \in Int /\ rules[j].priority \in Int
      BY <1>1, ElementOfSeq DEF RuleRecords
    <3>3. ~Before(rules, j, i)
      <4>1. Rank(rules, i) = k - 1 /\ Rank(rules, j) = l - 1
        BY <1>3, <3>1
      <4>2. ~(Rank(rules, j) < Rank(rules, i))
        BY <2>1, <4>1
      <4>3. QED
        BY <1>1, <4>2, RankGrows
    <3>4. QED
      BY <3>1, <3>2, <3>3 DEF Before
  <2>2. QED
    BY <1>4, <2>1 DEF Descending
<1>7. QED
  BY <1>2, <1>4, <1>5, <1>6

Limiter == [max_per_second : Nat, tokens : Nat, last_refill : Nat]

Of(A, n) == {a \in A : a[1] = n}
Since(A, n, t) == {a \in Of(A, n) : a[2] >= t}
Earlier(A, n, t) == {a \in Of(A, n) : a[2] < t /\ clock - a[2] < SECOND}

\* What a limiter l named n let pass since it was filled up is what its bucket
\* lacks, and of the second before that it was a bucket at most.
Within(l, A, n) ==
  /\ l.tokens <= l.max_per_second /\ l.last_refill <= clock
  /\ \A a \in Of(A, n) : a[2] <= clock /\ a[2] < l.last_refill + SECOND
  /\ Cardinality(Since(A, n, l.last_refill)) <= l.max_per_second - l.tokens
  /\ Cardinality(Earlier(A, n, l.last_refill)) <= l.max_per_second

Passes(D) == {A \in SUBSET (D \X Nat \X Nat) : IsFiniteSet(A)}

\* What passed a limiter can be counted (allow).
LEMMA PassesFinite ==
  ASSUME NEW D, NEW A \in Passes(D), NEW n, NEW t
  PROVE  /\ Since(A, n, t) \in SUBSET A /\ Earlier(A, n, t) \in SUBSET A
         /\ Of(A, n) \in SUBSET A
         /\ IsFiniteSet(Since(A, n, t)) /\ IsFiniteSet(Earlier(A, n, t))
         /\ IsFiniteSet(Of(A, n))
         /\ Cardinality(Since(A, n, t)) \in Nat /\ Cardinality(Earlier(A, n, t)) \in Nat
         /\ Cardinality(Of(A, n)) \in Nat
         /\ \A a \in Of(A, n) : a[1] = n /\ a[2] \in Nat
<1>1. /\ Since(A, n, t) \in SUBSET A /\ Earlier(A, n, t) \in SUBSET A
      /\ Of(A, n) \in SUBSET A
  BY DEF Since, Earlier, Of
<1>2. IsFiniteSet(A)
  BY DEF Passes
<1>3. \A a \in Of(A, n) : a[1] = n /\ a[2] \in Nat
  BY DEF Passes, Of
<1>4. QED
  BY <1>1, <1>2, <1>3, FS_Subset, FS_CardinalityType

\* Filling the bucket up makes what passed since the last time what passed
\* before, and nothing passed just now (refill_tokens).
LEMMA RefillKeeps ==
  ASSUME NEW D, NEW A \in Passes(D), NEW n, NEW l \in Limiter, Within(l, A, n),
         clock \in Nat
  PROVE  /\ RefillTokens(l) \in Limiter
         /\ Within(RefillTokens(l), A, n)
         /\ clock < RefillTokens(l).last_refill + SECOND
         /\ RefillTokens(l).max_per_second = l.max_per_second
<1>1. PICK m \in Nat, k \in Nat, t \in Nat, c \in Nat, d \in Nat :
        /\ l = [max_per_second |-> m, tokens |-> k, last_refill |-> t]
        /\ c = clock /\ d = SECOND /\ d # 0
  BY FilterConstants DEF Limiter
<1>2. k <= m /\ t <= c
  BY <1>1 DEF Within
<1>3. CASE c - t < d
  <2>1. RefillTokens(l) = l
    BY <1>1, <1>3 DEF RefillTokens
  <2>2. c < t + d
    BY ONLY <1>1, <1>3
  <2>3. QED
    BY <1>1, <2>1, <2>2
<1>4. CASE ~(c - t < d)
  <2> DEFINE r == [max_per_second |-> m, tokens |-> m, last_refill |-> c]
  <2>1. c - t >= d
    BY ONLY <1>1, <1>4
  <2>2. RefillTokens(l) = r
    BY <1>1, <2>1 DEF RefillTokens
  <2>3. \A a \in Of(A, n) : a[2] \in Nat /\ a[2] < t + d
    BY <1>1, PassesFinite DEF Within
  <2>4. \A a \in Of(A, n) : a[2] < c /\ a[2] <= c /\ a[2] < c + d
    <3>1. ASSUME NEW a \in Of(A, n) PROVE a[2] < c /\ a[2] <= c /\ a[2] < c + d
      <4>1. PICK x \in Nat : x = a[2]
        BY <2>3
      <4>2. x < t + d
        BY <2>3, <4>1
      <4>3. x < c /\ x <= c /\ x < c + d
        BY ONLY <1>1, <2>1, <4>1, <4>2
      <4>4. QED
        BY <4>1, <4>3
    <3>2. QED
      BY <3>1
  <2>5. Since(A, n, c) = {}
    <3>1. \A a \in Of(A, n) : a[2] \in Nat /\ ~(a[2] >= c)
      BY <2>3, <2>4
    <3>2. QED
      BY <3>1 DEF Since
  <2>6. Earlier(A, n, c) \in SUBSET Since(A, n, t)
    <3>1. ASSUME NEW a \in Of(A, n), c - a[2] < d PROVE a[2] >= t
      <4>1. PICK x \in Nat : x = a[2]
        BY <2>3
      <4>2. c - x < d
        BY <3>1, <4>1
      <4>3. x >= t
        BY ONLY <1>1, <2>1, <4>1, <4>2
      <4>4. QED
        BY <4>1, <4>3
    <3>2. QED
      BY <1>1, <3>1 DEF Earlier, Since
  <2>7. PICK s \in Nat : s = Cardinality(Since(A, n, t)) /\ s <= m - k
    BY <1>1, PassesFinite DEF Within
  <2>8. Cardinality(Earlier(A, n, c)) <= m
    <3>1. PICK e \in Nat : e = Cardinality(Earlier(A, n, c))
      BY PassesFinite
    <3>2. IsFiniteSet(Since(A, n, t))
      BY PassesFinite
    <3>3. Cardinality(Earlier(A, n, c)) <= Cardinality(Since(A, n, t))
      BY ONLY <2>6, <3>2, FS_Subset
    <3>4. e <= s
      BY <2>7, <3>1, <3>3
    <3>5. e <= m
      BY ONLY <1>1, <1>2, <2>7, <3>1, <3>4
    <3>6. QED
      BY <3>1, <3>5
  <2>9. Cardinality(Since(A, n, c)) <= m - m
    BY <2>5, FS_EmptySet
  <2>10. Within(r, A, n)
    BY <1>1, <2>4, <2>8, <2>9 DEF Within
  <2>11. r \in Limiter /\ c < c + d /\ r.max_per_second = m
    BY <1>1 DEF Limiter
  <2>12. QED
    BY <1>1, <2>2, <2>10, <2>11
<1>5. QED
  BY <1>3, <1>4

\* A transaction that passes takes a token (allow).
LEMMA PassKeeps ==
  ASSUME NEW D, NEW A \in Passes(D), NEW n \in D, NEW l \in Limiter, Within(l, A, n),
         clock \in Nat, clock < l.last_refill + SECOND, l.tokens > 0
  PROVE  /\ [l EXCEPT !.tokens = @ - 1] \in Limiter
         /\ Within([l EXCEPT !.tokens = @ - 1], Passed(A, n), n)
         /\ Passed(A, n) \in Passes(D)
         /\ \A o \in D : o # n => Of(Passed(A, n), o) = Of(A, o)
<1>1. PICK m \in Nat, k \in Nat, t \in Nat, c \in Nat, d \in Nat :
        /\ l = [max_per_second |-> m, tokens |-> k, last_refill |-> t]
        /\ c = clock /\ d = SECOND /\ d # 0
  BY FilterConstants DEF Limiter
<1>2. k <= m /\ t <= c /\ k > 0 /\ c < t + d
  BY <1>1 DEF Within
<1>3. PICK y \in Nat : y = Cardinality({a \in A : a[1] = n /\ a[2] = clock})
  <2>1. IsFiniteSet(A)
    BY DEF Passes
  <2>2. {a \in A : a[1] = n /\ a[2] = clock} \in SUBSET A
    OBVIOUS
  <2>3. QED
    BY <2>1, <2>2, FS_Subset, FS_CardinalityType
<1> DEFINE x == <<n, c, y>>
           B == A \cup {x}
           r == [max_per_second |-> m, tokens |-> k - 1, last_refill |-> t]
<1>4. Passed(A, n) = B
  BY <1>1, <1>3 DEF Passed
<1>5. [l EXCEPT !.tokens = @ - 1] = r /\ r \in Limiter
  BY <1>1, <1>2 DEF Limiter
<1>6. x[1] = n /\ x[2] = c /\ x \in D \X Nat \X Nat
  OBVIOUS
<1> HIDE DEF x
<1>7. B \in Passes(D)
  <2>1. IsFiniteSet(A) /\ A \in SUBSET (D \X Nat \X Nat)
    BY DEF Passes
  <2>2. IsFiniteSet(B)
    BY <2>1, FS_AddElement
  <2>3. QED
    BY <1>6, <2>1, <2>2 DEF Passes
<1>8. \A o \in D : o # n => Of(B, o) = Of(A, o)
  BY <1>6 DEF Of
<1>9. Of(B, n) = Of(A, n) \cup {x}
  BY <1>6 DEF Of
<1>10. Since(B, n, t) = Since(A, n, t) \cup {x}
  BY <1>1, <1>2, <1>6, <1>9 DEF Since
<1>11. Earlier(B, n, t) = Earlier(A, n, t)
  <2>1. ~(x[2] < t)
    BY <1>2, <1>6
  <2>2. QED
    BY <1>9, <2>1 DEF Earlier
<1> HIDE DEF B
<1>12. Cardinality(Since(B, n, t)) <= m - (k - 1)
  <2>1. PICK s \in Nat : s = Cardinality(Since(A, n, t)) /\ s <= m - k
    BY <1>1, PassesFinite DEF Within
  <2>2. IsFiniteSet(Since(A, n, t))
    BY PassesFinite
  <2>3. Cardinality(Since(B, n, t)) \in {s, s + 1}
    BY <1>10, <2>1, <2>2, FS_AddElement
  <2>4. QED
    BY <1>1, <1>2, <2>1, <2>3
<1>13. \A a \in Of(B, n) : a[2] <= c /\ a[2] < t + d
  <2>1. \A a \in Of(A, n) : a[2] <= c /\ a[2] < t + d
    BY <1>1 DEF Within
  <2>2. QED
    BY <1>2, <1>6, <1>9, <2>1
<1>14. Cardinality(Earlier(B, n, t)) <= m
  BY <1>1, <1>11 DEF Within
<1>15. k - 1 <= m
  BY <1>2
<1>16. Within(r, B, n)
  BY <1>1, <1>2, <1>12, <1>13, <1>14, <1>15 DEF Within
<1>17. QED
  BY <1>4, <1>5, <1>7, <1>8, <1>16

\* What another limiter lets pass is nothing to a limiter.
LEMMA OthersWithin ==
  ASSUME NEW A, NEW B, NEW o, Of(A, o) = Of(B, o), NEW l, Within(l, A, o)
  PROVE  Within(l, B, o)
BY DEF Within, Since, Earlier

Results == {"accepted", "rejected", "rate_limited"}
Args == {r.arg : r \in Rules}

\* What the rules may leave of the limiters L: buckets of the same rates, and
\* what passed them.
FoldStates(L) ==
  {s \in [result : Results, priority : Nat, tags : SUBSET Args,
          limiters : [DOMAIN L -> Limiter], allowed : Passes(DOMAIN L)] :
     \A n \in DOMAIN L : /\ Within(s.limiters[n], s.allowed, n)
                         /\ s.limiters[n].max_per_second = L[n].max_per_second}

\* Every action of a rule keeps the limiters within their rates
\* (filter_transaction, allow).
LEMMA ApplyRuleKeeps ==
  ASSUME NEW L, NEW s \in FoldStates(L), NEW rule \in RuleRecords, NEW tx, NEW hour,
         clock \in Nat, rule.action = "RateLimit" => rule.name \in DOMAIN L
  PROVE  ApplyRule(s, rule, tx, hour) \in FoldStates(L)
<1> DEFINE D == DOMAIN L
           T == [result : Results, priority : Nat, tags : SUBSET Args,
                 limiters : [D -> Limiter], allowed : Passes(D)]
<1>1. s \in T
  BY DEF FoldStates
<1>2. \A n \in D : /\ Within(s.limiters[n], s.allowed, n)
                   /\ s.limiters[n].max_per_second = L[n].max_per_second
  BY DEF FoldStates
<1>3. ASSUME NEW r \in T, r.limiters = s.limiters, r.allowed = s.allowed
      PROVE  r \in FoldStates(L)
  BY <1>2, <1>3 DEF FoldStates
<1>4. rule.action \in {"Accept", "SetPriority", "Tag", "Reject", "RateLimit"}
        /\ rule.arg \in Args
        /\ (rule.action = "SetPriority" => rule.arg \in Nat)
  BY DEF RuleRecords, Args
<1>5. CASE rule.action # "RateLimit"
  <2>1. ApplyAction(s, rule) \in T /\ ApplyAction(s, rule).limiters = s.limiters
          /\ ApplyAction(s, rule).allowed = s.allowed
    <3>1. CASE rule.action = "Accept"
      <4>1. ApplyAction(s, rule) = [s EXCEPT !.priority = 255]
        BY <3>1 DEF ApplyAction
      <4>2. QED
        BY <1>1, <4>1
    <3>2. CASE rule.action = "SetPriority"
      <4>1. ApplyAction(s, rule) = [s EXCEPT !.priority = rule.arg]
        BY <3>2 DEF ApplyAction
      <4>2. QED
        BY <1>1, <1>4, <3>2, <4>1
    <3>3. CASE rule.action = "Tag"
      <4>1. ApplyAction(s, rule) = [s EXCEPT !.tags = s.tags \cup {rule.arg}]
        BY <1>1, <3>3 DEF ApplyAction
      <4>2. QED
        BY <1>1, <1>4, <4>1
    <3>4. CASE rule.action = "Reject"
      <4>1. ApplyAction(s, rule) = [s EXCEPT !.result = "rejected"]
        BY <3>4 DEF ApplyAction
      <4>2. QED
        BY <1>1, <4>1 DEF Results
    <3>5. QED
      BY <1>4, <1>5, <3>1, <3>2, <3>3, <3>4
  <2>2. ApplyAction(s, rule) \in FoldStates(L)
    BY <1>3, <2>1
  <2>3. QED
    BY <2>2 DEF ApplyRule
<1>6. CASE rule.action = "RateLimit"
  <2> DEFINE n == rule.name
             l == RefillTokens(s.limiters[n])
  <2>1. n \in D /\ s.limiters[n] \in Limiter /\ s.allowed \in Passes(D)
          /\ Within(s.limiters[n], s.allowed, n)
          /\ s.limiters[n].max_per_second = L[n].max_per_second
    BY <1>1, <1>2, <1>6
  <2>2. /\ l \in Limiter /\ Within(l, s.allowed, n)
        /\ clock < l.last_refill + SECOND
        /\ l.max_per_second = L[n].max_per_second
    <3>1. /\ RefillTokens(s.limiters[n]) \in Limiter
          /\ Within(RefillTokens(s.limiters[n]), s.allowed, n)
          /\ clock < RefillTokens(s.limiters[n]).last_refill + SECOND
          /\ RefillTokens(s.limiters[n]).max_per_second = s.limiters[n].max_per_second
      <4>1. PICK A \in Passes(D), i \in Limiter : A = s.allowed /\ i = s.limiters[n]
        BY <2>1
      <4>2. Within(i, A, n)
        BY <2>1, <4>1
      <4>3. /\ RefillTokens(i) \in Limiter /\ Within(RefillTokens(i), A, n)
            /\ clock < RefillTokens(i).last_refill + SECOND
            /\ RefillTokens(i).max_per_second = i.max_per_second
        BY <4>2, RefillKeeps, Zenon
      <4>4. QED
        BY <4>1, <4>3
    <3>2. QED
      BY <2>1, <3>1
  <2> HIDE DEF l
  <2>3. CASE l.tokens > 0
    <3> DEFINE k == [l EXCEPT !.tokens = @ - 1]
               B == Passed(s.allowed, n)
               r == [s EXCEPT !.limiters = [s.limiters EXCEPT ![n] = k], !.allowed = B]
    <3>1. ApplyAction(s, rule) = r
      BY <1>1, <1>6, <2>3 DEF ApplyAction, l
    <3>2. /\ k \in Limiter /\ Within(k, B, n) /\ B \in Passes(D)
          /\ \A o \in D : o # n => Of(B, o) = Of(s.allowed, o)
      BY <2>1, <2>2, <2>3, PassKeeps
    <3>3. k.max_per_second = l.max_per_second
      BY <2>2 DEF Limiter
    <3> HIDE DEF k, B
    <3>4. r \in T /\ r.limiters = [s.limiters EXCEPT ![n] = k] /\ r.allowed = B
      BY <1>1, <3>2
    <3>5. r.limiters[n] = k /\ \A o \in D : o # n => r.limiters[o] = s.limiters[o]
      BY <1>1, <2>1, <3>4
    <3> HIDE DEF r
    <3>6. ASSUME NEW o \in D
          PROVE  /\ Within(r.limiters[o], r.allowed, o)
                 /\ r.limiters[o].max_per_second = L[o].max_per_second
      <4>1. CASE o = n
        BY <2>2, <3>2, <3>3, <3>4, <3>5, <4>1
      <4>2. CASE o # n
        <5>1. Of(s.allowed, o) = Of(B, o) /\ Within(s.limiters[o], s.allowed, o)
          BY <1>2, <3>2, <4>2
        <5>2. Within(s.limiters[o], B, o)
          BY <5>1, OthersWithin
        <5>3. QED
          BY <1>2, <3>4, <3>5, <4>2, <5>2
      <4>3. QED
        BY <4>1, <4>2
    <3>7. r \in FoldStates(L)
      BY <3>4, <3>6 DEF FoldStates
    <3>8. QED
      BY <3>1, <3>7 DEF ApplyRule
  <2>4. CASE ~(l.tokens > 0)
    <3> DEFINE r == [s EXCEPT !.limiters = [s.limiters EXCEPT ![n] = l],
                              !.result = "rate_limited"]
    <3>1. ApplyAction(s, rule) = r
      BY <1>1, <1>6, <2>4 DEF ApplyAction, l
    <3>2. r \in T /\ r.limiters = [s.limiters EXCEPT ![n] = l] /\ r.allowed = s.allowed
      BY <1>1, <2>2 DEF Results
    <3>3. r.limiters[n] = l /\ \A o \in D : o # n => r.limiters[o] = s.limiters[o]
      BY <1>1, <2>1, <3>2
    <3> HIDE DEF r
    <3>4. ASSUME NEW o \in D
          PROVE  /\ Within(r.limiters[o], r.allowed, o)
                 /\ r.limiters[o].max_per_second = L[o].max_per_second
      <4>1. CASE o = n
        BY <2>2, <3>2, <3>3, <4>1
      <4>2. CASE o # n
        BY <1>2, <3>2, <3>3, <4>2
      <4>3. QED
        BY <4>1, <4>2
    <3>5. r \in FoldStates(L)
      BY <3>2, <3>4 DEF FoldStates
    <3>6. QED
      BY <3>1, <3>5 DEF ApplyRule
  <2>5. QED
    BY <2>3, <2>4
<1>7. QED
  BY <1>5, <1>6

\* What the rules up to each one make of a transaction
Filtering(after, tx, hour) ==
  /\ after \in [0..Len(filter_rules) -> FoldStates(rate_limiters)]
  /\ after[0] = [result |-> "accepted", priority |-> 128, tags |-> {},
                 limiters |-> rate_limiters, allowed |-> allowed]
  /\ \A n \in 1..Len(filter_rules) :
       after[n] = ApplyRule(after[n - 1], filter_rules[n], tx, hour)

\* The result of a transaction is computed rule by rule (the loop of
\* filter_transaction).
LEMMA FilteredRecursive ==
  ASSUME NEW tx, NEW hour, filter_rules \in Seq(RuleRecords), clock \in Nat,
         rate_limiters \in [DOMAIN rate_limiters -> Limiter],
         allowed \in Passes(DOMAIN rate_limiters),
         \A n \in DOMAIN rate_limiters : Within(rate_limiters[n], allowed, n),
         \A i \in Limited(filter_rules) : filter_rules[i].name \in DOMAIN rate_limiters
  PROVE  \E after : /\ Filtering(after, tx, hour)
                    /\ Filtered(tx, hour) = after[Len(filter_rules)]
<1>1. PICK N \in Nat : N = Len(filter_rules) /\ DOMAIN filter_rules = 1..N
  BY LenProperties
<1> DEFINE V == FoldStates(rate_limiters)
           a == [result |-> "accepted", priority |-> 128, tags |-> {},
                 limiters |-> rate_limiters, allowed |-> allowed]
           Next1(n, s) == ApplyRule(s, filter_rules[n], tx, hour)
           g == [p \in (1..N) \X V |-> Next1(p[1], p[2])]
<1>2. a \in V
  BY DEF FoldStates, Results
<1>3. ASSUME NEW n \in 1..N, NEW s \in V PROVE Next1(n, s) \in V
  <2>1. filter_rules[n] \in RuleRecords
    BY <1>1, ElementOfSeq
  <2>2. filter_rules[n].action = "RateLimit" => filter_rules[n].name \in DOMAIN rate_limiters
    BY <1>1 DEF Limited
  <2>3. QED
    BY <2>1, <2>2, ApplyRuleKeeps
<1> DEFINE body(k, n) == IF n = 0 THEN a
                         ELSE ApplyRule(k[n - 1], filter_rules[n], tx, hour)
           rec(k) == k = [n \in 0..Len(filter_rules) |-> body(k, n)]
           after == CHOOSE k : rec(k)
<1> HIDE DEF V
<1>4. \E f : rec(f)
  <2> HIDE DEF Next1, a
  <2>1. ASSUME NEW p \in (1..N) \X V PROVE g[p] \in V
    BY <1>3
  <2>2. g \in [(1..N) \X V -> V]
    BY <2>1
  <2>3. \A n \in 1..N : \A k \in V : g[<<n, k>>] = Next1(n, k)
    OBVIOUS
  <2> HIDE DEF g
  <2>4. PICK f : Computes(f, V, a, N, g)
    <3>1. N \in Nat
      OBVIOUS
    <3>2. QED
      BY ONLY <1>2, <2>2, <3>1, Recursion
  <2>5. ASSUME NEW n \in 1..N PROVE f[n] = Next1(n, f[n - 1])
    <3>1. n - 1 \in 0..N /\ f[n - 1] \in V
      BY <2>4 DEF Computes
    <3>2. QED
      BY <2>3, <2>4, <3>1 DEF Computes
  <2>6. ASSUME NEW n \in 0..N PROVE f[n] = body(f, n)
    <3>1. CASE n = 0
      BY <2>4, <3>1 DEF Computes
    <3>2. CASE n # 0
      <4>1. n \in 1..N
        BY <3>2
      <4>2. QED
        BY <2>5, <4>1, <3>2 DEF Next1
    <3>3. QED
      BY <3>1, <3>2
  <2>7. f = [n \in 0..N |-> f[n]]
    BY <2>4 DEF Computes
  <2> HIDE DEF body
  <2>8. [n \in 0..N |-> f[n]] = [n \in 0..N |-> body(f, n)]
    BY <2>6
  <2>9. QED
    BY <1>1, <2>7, <2>8
<1>5. rec(after)
  <2> HIDE DEF rec
  <2> QED
    BY <1>4, Zenon
<1>6. Filtered(tx, hour) = after[Len(filter_rules)]
  BY DEF Filtered
<1> HIDE DEF after, a
<1>7. DOMAIN after = 0..N /\ \A n \in 0..N : after[n] = body(after, n)
  <2> HIDE DEF body
  <2> QED
    BY <1>1, <1>5
<1>8. after = [n \in 0..N |-> after[n]]
  <2>1. after = [n \in 0..N |-> body(after, n)]
    BY <1>1, <1>5
  <2> HIDE DEF body, rec
  <2>2. QED
    BY ONLY <2>1
<1>9. after[0] = a /\ \A n \in 1..N : after[n] = Next1(n, after[n - 1])
  <2>1. 0 \in 0..N /\ \A n \in 1..N : n \in 0..N /\ n # 0
    OBVIOUS
  <2>2. QED
    BY <1>7, <2>1
<1> HIDE DEF body, rec
<1> DEFINE Typed == {n \in 0..N : after[n] \in V}
<1> HIDE DEF Next1
<1>10. Typed = 0..N
  <2>1. 0 \in Typed
    <3>1. 0 \in 0..N /\ after[0] \in V
      BY <1>2, <1>9
    <3>2. QED
      BY <3>1
  <2>2. ASSUME NEW n \in 1..N, n - 1 \in Typed PROVE n \in Typed
    <3>1. after[n - 1] \in V
      BY <2>2
    <3>2. QED
      BY <1>3, <1>9, <3>1
  <2>3. Typed \in SUBSET (0..N)
    OBVIOUS
  <2> HIDE DEF Typed
  <2>4. QED
    BY <2>1, <2>2, <2>3, UpToPlace
<1>11. after \in [0..N -> V]
  BY <1>8, <1>10
<1>12. \A n \in 1..N : after[n] = ApplyRule(after[n - 1], filter_rules[n], tx, hour)
  BY <1>9 DEF Next1
<1>13. Filtering(after, tx, hour)
  BY <1>1, <1>9, <1>11, <1>12 DEF Filtering, V, a
<1>14. QED
  BY <1>6, <1>13

Matching(tx, hour) ==
  {i \in DOMAIN filter_rules :
     filter_rules[i].enabled /\ EvaluateRule(filter_rules[i], tx, hour)}
Setters(tx, hour) ==
  {i \in Matching(tx, hour) : filter_rules[i].action \in {"Accept", "SetPriority"}}
Level(i) == IF filter_rules[i].action = "Accept" THEN 255 ELSE filter_rules[i].arg

\* What is true of an accepted transaction once it has passed the first n rules.
AcceptedSoFar(s, n, tx, hour) ==
  s.result = "accepted" =>
    /\ \A i \in Matching(tx, hour) : i <= n => filter_rules[i].action # "Reject"
    /\ (\A i \in Setters(tx, hour) : i > n) => s.priority = 128
    /\ (\E i \in Setters(tx, hour) : i <= n) =>
         \E i \in Setters(tx, hour) :
           /\ i <= n /\ s.priority = Level(i)
           /\ \A j \in Setters(tx, hour) : j <= n => j <= i

\* One more rule (filter_transaction).
LEMMA AcceptedGoesOn ==
  ASSUME NEW tx, NEW hour, filter_rules \in Seq(RuleRecords),
         NEW n \in 1..Len(filter_rules), NEW L, NEW s \in FoldStates(L),
         AcceptedSoFar(s, n - 1, tx, hour)
  PROVE  AcceptedSoFar(ApplyRule(s, filter_rules[n], tx, hour), n, tx, hour)
<1> DEFINE rule == filter_rules[n]
           r == ApplyRule(s, rule, tx, hour)
           M == Matching(tx, hour)
           P == Setters(tx, hour)
<1>1. PICK N \in Nat : N = Len(filter_rules) /\ DOMAIN filter_rules = 1..N
  BY LenProperties
<1>2. rule \in RuleRecords
  BY <1>1, ElementOfSeq
<1>3. rule.action \in {"Accept", "SetPriority", "Tag", "Reject", "RateLimit"}
  BY <1>2 DEF RuleRecords
<1>4. M \in SUBSET (1..N) /\ P = {i \in M : filter_rules[i].action \in {"Accept", "SetPriority"}}
  BY <1>1 DEF Matching, Setters
<1>5. n \in M <=> rule.enabled /\ EvaluateRule(rule, tx, hour)
  BY <1>1 DEF Matching
<1>6. n \in Int /\ \A i \in 1..N : /\ i <= n <=> i = n \/ i <= n - 1
                                   /\ i > n <=> i # n /\ i > n - 1
                                   /\ i <= n - 1 => i # n /\ i <= n
  BY <1>1
<1>7. s \in [result : Results, priority : Nat, tags : SUBSET Args,
             limiters : [DOMAIN L -> Limiter], allowed : Passes(DOMAIN L)]
  BY DEF FoldStates
<1>8. CASE ~(s.result = "accepted" /\ n \in M)
  <2>1. r = s
    BY <1>5, <1>8 DEF ApplyRule
  <2>2. CASE s.result # "accepted"
    BY <2>1, <2>2 DEF AcceptedSoFar
  <2>3. CASE n \notin M
    <3>1. \A i \in M : (i <= n <=> i <= n - 1) /\ (i > n <=> i > n - 1)
      BY <1>4, <1>6, <2>3
    <3>2. \A i \in P : (i <= n <=> i <= n - 1) /\ (i > n <=> i > n - 1)
      BY <1>4, <3>1
    <3> HIDE DEF M, P, r
    <3>3. QED
      BY <2>1, <3>1, <3>2 DEF AcceptedSoFar, M, P, r
  <2>4. QED
    BY <1>8, <2>2, <2>3
<1>9. CASE s.result = "accepted" /\ n \in M
  <2>1. r = ApplyAction(s, rule)
    BY <1>5, <1>9 DEF ApplyRule
  <2>2. SUFFICES ASSUME r.result = "accepted"
                 PROVE  AcceptedSoFar(r, n, tx, hour)
    BY DEF AcceptedSoFar
  <2>3. /\ rule.action # "Reject"
        /\ rule.action \in {"Accept", "SetPriority"} => r.priority = Level(n)
        /\ rule.action \in {"Tag", "RateLimit"} => r.priority = s.priority
    <3>1. CASE rule.action = "Accept"
      BY <1>7, <2>1, <3>1 DEF ApplyAction, Level
    <3>2. CASE rule.action = "SetPriority"
      BY <1>7, <2>1, <3>2 DEF ApplyAction, Level
    <3>3. CASE rule.action = "Tag"
      BY <1>7, <2>1, <3>3 DEF ApplyAction
    <3>4. CASE rule.action = "Reject"
      BY <1>7, <2>1, <2>2, <3>4 DEF ApplyAction
    <3>5. CASE rule.action = "RateLimit"
      BY <1>7, <2>1, <2>2, <3>5 DEF ApplyAction
    <3>6. QED
      BY <1>3, <3>1, <3>2, <3>3, <3>4, <3>5
  <2>4. /\ \A i \in M : i <= n - 1 => filter_rules[i].action # "Reject"
        /\ (\A i \in P : i > n - 1) => s.priority = 128
        /\ (\E i \in P : i <= n - 1) =>
             \E i \in P : /\ i <= n - 1 /\ s.priority = Level(i)
                          /\ \A j \in P : j <= n - 1 => j <= i
    BY <1>9 DEF AcceptedSoFar
  <2>5. P \in SUBSET (1..N) /\ (n \in P <=> rule.action \in {"Accept", "SetPriority"})
    BY <1>4, <1>9
  <2> HIDE DEF r, M, P
  <2>6. \A i \in M : i <= n => filter_rules[i].action # "Reject"
    BY <1>4, <1>6, <2>3, <2>4
  <2>7. CASE n \in P
    <3>1. r.priority = Level(n) /\ n <= n
      BY <1>6, <2>3, <2>5, <2>7
    <3>2. ~(\A i \in P : i > n)
      BY <1>6, <2>7
    <3>3. QED
      BY <2>6, <2>7, <3>1, <3>2 DEF AcceptedSoFar, M, P
  <2>8. CASE n \notin P
    <3>1. \A i \in P : (i <= n <=> i <= n - 1) /\ (i > n <=> i > n - 1)
      BY <1>6, <2>5, <2>8
    <3>2. r.priority = s.priority
      BY <1>3, <2>3, <2>5, <2>8
    <3>3. QED
      BY <2>4, <2>6, <3>1, <3>2 DEF AcceptedSoFar, M, P
  <2>9. QED
    BY <2>7, <2>8 DEF r
<1>10. QED
  BY <1>8, <1>9

\* The verdict: of the setters that match, the last one is that of the lowest
\* priority.
LEMMA VerdictByRules ==
  ASSUME NEW tx, NEW hour, filter_rules \in Seq(RuleRecords), Descending(filter_rules),
         NEW after, Filtering(after, tx, hour)
  PROVE  LET s == after[Len(filter_rules)] IN
         s.result = "accepted" =>
           /\ \A i \in Matching(tx, hour) : filter_rules[i].action # "Reject"
           /\ Setters(tx, hour) = {} => s.priority = 128
           /\ Setters(tx, hour) # {} =>
                \E i \in Setters(tx, hour) :
                  /\ s.priority = Level(i)
                  /\ \A j \in Setters(tx, hour) :
                       filter_rules[i].priority <= filter_rules[j].priority
<1>1. PICK N \in Nat : N = Len(filter_rules) /\ DOMAIN filter_rules = 1..N
  BY LenProperties
<1> DEFINE M == Matching(tx, hour)
           P == Setters(tx, hour)
           Good == {n \in 0..N : AcceptedSoFar(after[n], n, tx, hour)}
<1>2. M \in SUBSET (1..N) /\ P \in SUBSET (1..N)
  BY <1>1 DEF Matching, Setters
<1>3. Good = 0..N
  <2>1. 0 \in Good
    <3>1. 0 \in 0..N /\ after[0].priority = 128
      BY DEF Filtering
    <3>2. \A i \in 1..N : ~(i <= 0)
      OBVIOUS
    <3> HIDE DEF M, P
    <3>3. AcceptedSoFar(after[0], 0, tx, hour)
      BY <1>2, <3>1, <3>2 DEF AcceptedSoFar, M, P
    <3>4. QED
      BY <3>1, <3>3
  <2>2. ASSUME NEW n \in 1..N, n - 1 \in Good PROVE n \in Good
    <3>1. n - 1 \in 0..N /\ n \in 0..N
      OBVIOUS
    <3>2. after[n - 1] \in FoldStates(rate_limiters)
            /\ after[n] = ApplyRule(after[n - 1], filter_rules[n], tx, hour)
      BY <1>1, <3>1 DEF Filtering
    <3>3. AcceptedSoFar(after[n - 1], n - 1, tx, hour)
      BY <2>2
    <3>4. AcceptedSoFar(after[n], n, tx, hour)
      BY <1>1, <3>2, <3>3, AcceptedGoesOn
    <3>5. QED
      BY <3>1, <3>4
  <2>3. Good \in SUBSET (0..N)
    OBVIOUS
  <2> HIDE DEF Good
  <2>4. QED
    BY <2>1, <2>2, <2>3, UpToPlace
<1>4. AcceptedSoFar(after[N], N, tx, hour)
  <2>1. N \in 0..N
    OBVIOUS
  <2>2. QED
    BY <1>3, <2>1
<1>5. \A i \in 1..N : i <= N /\ ~(i > N) /\ filter_rules[i].priority \in Int
  <2>1. \A i \in 1..N : filter_rules[i] \in RuleRecords
    BY <1>1, ElementOfSeq
  <2>2. QED
    BY <2>1 DEF RuleRecords
<1>6. ASSUME NEW i \in P, NEW j \in P, j <= i
      PROVE  filter_rules[i].priority <= filter_rules[j].priority
  <2>1. i \in 1..N /\ j \in 1..N
    BY <1>2
  <2>2. CASE i = j
    BY <1>5, <2>1, <2>2
  <2>3. CASE j < i
    <3>1. filter_rules[j].priority >= filter_rules[i].priority
      BY <1>1, <2>1, <2>3 DEF Descending
    <3>2. QED
      BY <1>5, <2>1, <3>1
  <2>4. QED
    BY <1>6, <2>1, <2>2, <2>3
<1> HIDE DEF M, P
<1> DEFINE s == after[N]
<1> HIDE DEF s
<1>7. ASSUME s.result = "accepted"
      PROVE  /\ \A i \in M : filter_rules[i].action # "Reject"
             /\ P = {} => s.priority = 128
             /\ P # {} => \E i \in P :
                  /\ s.priority = Level(i)
                  /\ \A j \in P : filter_rules[i].priority <= filter_rules[j].priority
  <2>1. /\ \A i \in M : i <= N => filter_rules[i].action # "Reject"
        /\ (\A i \in P : i > N) => s.priority = 128
        /\ (\E i \in P : i <= N) =>
             \E i \in P : /\ i <= N /\ s.priority = Level(i)
                          /\ \A j \in P : j <= N => j <= i
    BY <1>4, <1>7 DEF AcceptedSoFar, M, P, s
  <2>2. \A i \in M : filter_rules[i].action # "Reject"
    BY <1>2, <1>5, <2>1
  <2>3. P = {} => s.priority = 128
    BY <2>1
  <2>4. ASSUME P # {}
        PROVE  \E i \in P : /\ s.priority = Level(i)
                            /\ \A j \in P : filter_rules[i].priority <= filter_rules[j].priority
    <3>1. PICK i \in P : /\ s.priority = Level(i)
                         /\ \A j \in P : j <= N => j <= i
      <4>1. \A i \in P : i <= N
        BY <1>2, <1>5
      <4>2. \E i \in P : i <= N
        BY <2>4, <4>1
      <4>3. QED
        BY <2>1, <4>2
    <3>2. \A j \in P : j <= i
      BY <1>2, <1>5, <3>1
    <3>3. QED
      BY <1>6, <3>1, <3>2
  <2>5. QED
    BY <2>2, <2>3, <2>4
<1>8. QED
  BY <1>1, <1>7 DEF M, P, s

ConfigInv ==
  current_config # NoFile => current_config \in Seq(RuleRecords) /\ Unique(current_config)

RulesInv ==
  /\ filter_rules \in Seq(RuleRecords) /\ Unique(filter_rules) /\ Descending(filter_rules)

LimitersInv ==
  /\ clock \in Nat
  /\ rate_limiters \in [DOMAIN rate_limiters -> Limiter]
  /\ allowed \in Passes(DOMAIN rate_limiters)
  /\ \A n \in DOMAIN rate_limiters : Within(rate_limiters[n], allowed, n)
  /\ \A i \in Limited(filter_rules) :
       /\ filter_rules[i].name \in DOMAIN rate_limiters
       /\ rate_limiters[filter_rules[i].name].max_per_second = filter_rules[i].arg
  /\ AtMostTwiceTheRate

FilterCounts ==
  /\ filter_stats \in [total : Nat, accepted : Nat, rejected : Nat, rate_limited : Nat]
  /\ FilterCountsAddUp

FiltersInv == ConfigInv /\ RulesInv /\ LimitersInv /\ FilterCounts /\ VerdictIsRight

\* Whatever is changed in the configuration, no two rules share a name
\* (validate_config, add_rule).
LEMMA ConfigStep ==
  ASSUME ConfigInv,
         \/ \E rules \in ConfigFiles : LoadConfig(rules)
         \/ \E i \in 1..3, b \in BOOLEAN : UpdateRule(i, b)
         \/ \E rule \in NewRules : AddRule(rule) \/ RemoveRule(rule.name)
  PROVE  /\ ConfigInv'
         /\ UNCHANGED <<filter_rules, rate_limiters, filter_stats, clock, allowed>>
<1>1. ASSUME NEW rules \in ConfigFiles, LoadConfig(rules)
      PROVE  ConfigInv'
  <2>1. ValidConfig(rules) => rules \in Seq(RuleRecords) /\ Unique(rules)
    <3>1. rules \in Seq(Rules) /\ Rules \subseteq RuleRecords
      BY FilterConstants
    <3>2. rules \in Seq(RuleRecords)
      BY <3>1, SeqMonotonic
    <3>3. QED
      BY <3>2 DEF ValidConfig, Unique
  <2>2. QED
    BY <1>1, <2>1 DEF LoadConfig, ConfigInv
<1>2. ASSUME current_config # NoFile
      PROVE  current_config \in Seq(RuleRecords) /\ Unique(current_config)
  BY <1>2 DEF ConfigInv
<1>3. ASSUME NEW i, NEW b \in BOOLEAN, UpdateRule(i, b)
      PROVE  ConfigInv'
  <2>1. /\ current_config \in Seq(RuleRecords) /\ Unique(current_config)
        /\ i \in DOMAIN current_config
        /\ current_config' = [current_config EXCEPT ![i].enabled = b]
    BY <1>2, <1>3 DEF UpdateRule
  <2> DEFINE r == [current_config[i] EXCEPT !.enabled = b]
  <2>2. current_config' = [current_config EXCEPT ![i] = r]
    BY <2>1
  <2>3. PICK N \in Nat : N = Len(current_config) /\ DOMAIN current_config = 1..N
    BY <2>1, LenProperties
  <2>4. current_config[i] \in RuleRecords
    BY <2>1, <2>3, ElementOfSeq
  <2>5. r \in RuleRecords /\ r.name = current_config[i].name
    BY <2>4 DEF RuleRecords
  <2> HIDE DEF r
  <2>6. current_config' \in Seq(RuleRecords)
    BY <2>1, <2>2, <2>3, <2>5, ExceptSeq
  <2>7. DOMAIN current_config' = DOMAIN current_config
          /\ \A k \in DOMAIN current_config : current_config'[k].name = current_config[k].name
    BY <2>1, <2>2, <2>5
  <2>8. Unique(current_config)'
    BY <2>1, <2>7 DEF Unique
  <2>9. QED
    BY <2>6, <2>8 DEF ConfigInv
<1>4. ASSUME NEW rule \in NewRules, AddRule(rule)
      PROVE  ConfigInv'
  <2>1. /\ current_config \in Seq(RuleRecords) /\ Unique(current_config)
        /\ \A i \in DOMAIN current_config : current_config[i].name # rule.name
        /\ current_config' = Append(current_config, rule)
    BY <1>2, <1>4 DEF AddRule
  <2>2. rule \in RuleRecords
    BY FilterConstants DEF Rules
  <2>3. PICK N \in Nat : N = Len(current_config) /\ DOMAIN current_config = 1..N
    BY <2>1, LenProperties
  <2>4. /\ current_config' \in Seq(RuleRecords)
        /\ DOMAIN current_config' = 1..N + 1
        /\ \A k \in 1..N : current_config'[k] = current_config[k]
        /\ current_config'[N + 1] = rule
    BY <2>1, <2>2, <2>3, AppendProperties
  <2>5. \A k \in 1..N + 1 : k \in 1..N \/ k = N + 1
    BY <2>3
  <2>6. Unique(current_config)'
    BY <2>1, <2>3, <2>4, <2>5 DEF Unique
  <2>7. QED
    BY <2>4, <2>6 DEF ConfigInv
<1>5. ASSUME NEW name, RemoveRule(name)
      PROVE  ConfigInv'
  <2>1. current_config \in Seq(RuleRecords) /\ Unique(current_config)
    BY <1>2, <1>5 DEF RemoveRule
  <2> DEFINE P == {r \in Items(current_config) : r.name # name}
             o == Only(current_config, P)
  <2>2. current_config' = o
    BY <1>5 DEF RemoveRule
  <2>3. PICK N \in Nat : N = Len(current_config) /\ DOMAIN current_config = 1..N
    BY <2>1, LenProperties
  <2>4. o \in Seq(RuleRecords)
    BY <2>1, OnlyPlaces
  <2>5. PICK p \in [1..Len(o) -> 1..N] :
                 /\ \A k \in 1..Len(o) : o[k] = current_config[p[k]]
                 /\ \A k, l \in 1..Len(o) : k < l => p[k] < p[l]
    <3> HIDE DEF P
    <3>1. PICK p : KeptFrom(p, Only(current_config, P), current_config, P)
      BY <2>1, OnlyPlaces
    <3>2. KeptFrom(p, o, current_config, P)
      BY <3>1
    <3> HIDE DEF o
    <3>3. QED
      BY <2>3, <3>2 DEF KeptFrom
  <2> HIDE DEF o, P
  <2>6. PICK m \in Nat : m = Len(o) /\ DOMAIN o = 1..m
    BY <2>4, LenProperties
  <2>7. Unique(o)
    <3>1. ASSUME NEW k \in 1..m, NEW l \in 1..m, o[k].name = o[l].name PROVE k = l
      <4>1. p[k] \in 1..N /\ p[l] \in 1..N /\ p[k] = p[l]
        BY <2>1, <2>3, <2>5, <2>6, <3>1 DEF Unique
      <4>2. ~(p[k] < p[l]) /\ ~(p[l] < p[k])
        BY <4>1
      <4>3. ~(k < l) /\ ~(l < k)
        BY <2>5, <2>6, <4>2
      <4>4. QED
        BY <4>3
    <3>2. QED
      BY <2>6, <3>1 DEF Unique
  <2>8. QED
    BY <2>2, <2>4, <2>7 DEF ConfigInv
<1>6. UNCHANGED <<filter_rules, rate_limiters, filter_stats, clock, allowed>>
  BY DEF LoadConfig, UpdateRule, AddRule, RemoveRule
<1>7. QED
  BY <1>1, <1>3, <1>4, <1>5, <1>6

\* The limiters stay within their rates while they, the rules and the time stand
\* still (update_rule, add_rule, remove_rule).
LEMMA LimitersAside ==
  ASSUME LimitersInv, UNCHANGED <<filter_rules, rate_limiters, clock, allowed>>
  PROVE  LimitersInv'
BY DEF LimitersInv, Within, Since, Earlier, Of, Limited, AtMostTwiceTheRate

\* The counts add up while nothing is counted (FilterStats).
LEMMA CountsAside ==
  ASSUME FilterCounts, UNCHANGED filter_stats
  PROVE  FilterCounts'
BY DEF FilterCounts, FilterCountsAddUp

\* A step that filters nothing gives no verdict (filter_transaction).
LEMMA NoVerdictIsRight ==
  ASSUME verdict' = NoVerdict
  PROVE  VerdictIsRight'
BY DEF VerdictIsRight

\* Switching a rule on or off changes neither its place nor its limiter.
LEMMA EnableStep ==
  ASSUME RulesInv, LimitersInv, NEW i, NEW b \in BOOLEAN, SetRuleEnabled(i, b)
  PROVE  RulesInv' /\ LimitersInv'
<1>1. /\ filter_rules \in Seq(RuleRecords) /\ i \in DOMAIN filter_rules
      /\ filter_rules' = [filter_rules EXCEPT ![i].enabled = b]
      /\ UNCHANGED <<rate_limiters, clock, allowed>>
  BY DEF RulesInv, SetRuleEnabled
<1> DEFINE r == [filter_rules[i] EXCEPT !.enabled = b]
<1>2. filter_rules' = [filter_rules EXCEPT ![i] = r]
  BY <1>1
<1>3. PICK N \in Nat : N = Len(filter_rules) /\ DOMAIN filter_rules = 1..N
  BY <1>1, LenProperties
<1>4. filter_rules[i] \in RuleRecords
  BY <1>1, <1>3, ElementOfSeq
<1>5. /\ r \in RuleRecords /\ r.name = filter_rules[i].name
      /\ r.priority = filter_rules[i].priority
      /\ r.action = filter_rules[i].action /\ r.arg = filter_rules[i].arg
  BY <1>4 DEF RuleRecords
<1> HIDE DEF r
<1>6. filter_rules' \in Seq(RuleRecords)
  BY <1>1, <1>2, <1>3, <1>5, ExceptSeq
<1>7. /\ DOMAIN filter_rules' = DOMAIN filter_rules
      /\ \A k \in DOMAIN filter_rules :
           /\ filter_rules'[k].name = filter_rules[k].name
           /\ filter_rules'[k].priority = filter_rules[k].priority
           /\ filter_rules'[k].action = filter_rules[k].action
           /\ filter_rules'[k].arg = filter_rules[k].arg
  BY <1>1, <1>2, <1>5
<1>8. Unique(filter_rules)' /\ Descending(filter_rules)'
  BY <1>7 DEF RulesInv, Unique, Descending
<1>9. Limited(filter_rules)' = Limited(filter_rules)
  BY <1>7 DEF Limited
<1>10. \A k \in Limited(filter_rules) :
         /\ filter_rules'[k].name \in DOMAIN rate_limiters
         /\ rate_limiters[filter_rules'[k].name].max_per_second = filter_rules'[k].arg
  BY <1>7 DEF LimitersInv, Limited
<1>11. LimitersInv'
  BY <1>1, <1>9, <1>10 DEF LimitersInv, Within, Since, Earlier, Of, AtMostTwiceTheRate
<1>12. QED
  BY <1>6, <1>8, <1>11 DEF RulesInv

\* A limiter that is made anew has the rate of its rule (load_rules).
LEMMA LimitersLoaded ==
  ASSUME NEW rules \in Seq(RuleRecords), Unique(rules), clock \in Nat,
         rate_limiters \in [DOMAIN rate_limiters -> Limiter],
         \A n \in DOMAIN rate_limiters :
           /\ rate_limiters[n].tokens <= rate_limiters[n].max_per_second
           /\ rate_limiters[n].last_refill <= clock
  PROVE  /\ LimitersFor(rules) \in [DOMAIN LimitersFor(rules) -> Limiter]
         /\ \A n \in DOMAIN LimitersFor(rules) :
              /\ LimitersFor(rules)[n].tokens <= LimitersFor(rules)[n].max_per_second
              /\ LimitersFor(rules)[n].last_refill <= clock
         /\ \A i \in Limited(rules) :
              /\ rules[i].name \in DOMAIN LimitersFor(rules)
              /\ LimitersFor(rules)[rules[i].name].max_per_second = rules[i].arg
<1>1. PICK N \in Nat : N = Len(rules) /\ DOMAIN rules = 1..N
  BY LenProperties
<1> DEFINE new == {rules[i].name : i \in Limited(rules)}
           Sole(n, k) == /\ rules[k].name = n
                         /\ \A l \in Limited(rules) : rules[l].name = n => l <= k
           of(n) == CHOOSE k \in Limited(rules) : Sole(n, k)
           fresh(n) == [max_per_second |-> rules[of(n)].arg, tokens |-> rules[of(n)].arg,
                        last_refill |-> clock]
           F == LimitersFor(rules)
<1>2. F = [n \in DOMAIN rate_limiters \cup new |->
             IF n \notin new THEN rate_limiters[n] ELSE fresh(n)]
  BY DEF LimitersFor
<1>3. ASSUME NEW i \in Limited(rules)
      PROVE  rules[i].name \in new /\ of(rules[i].name) = i /\ rules[i].arg \in Nat
  <2>1. i \in 1..N /\ rules[i] \in RuleRecords /\ rules[i].action = "RateLimit"
    BY <1>1, ElementOfSeq DEF Limited
  <2>2. \A l \in Limited(rules) : rules[l].name = rules[i].name => l = i
    BY <2>1, <1>1 DEF Unique, Limited
  <2>3. i <= i
    BY <2>1
  <2>4. \A k \in Limited(rules) : Sole(rules[i].name, k) <=> k = i
    BY <2>2, <2>3
  <2> HIDE DEF Sole
  <2>5. of(rules[i].name) = i
    BY <2>4
  <2>6. QED
    BY <2>1, <2>5 DEF RuleRecords
<1> HIDE DEF of, F
<1>4. ASSUME NEW n \in new
      PROVE  /\ fresh(n) \in Limiter /\ fresh(n).tokens <= fresh(n).max_per_second
             /\ fresh(n).last_refill <= clock
  BY <1>3, <1>4 DEF Limiter
<1>5. \A i \in Limited(rules) : fresh(rules[i].name).max_per_second = rules[i].arg
  BY <1>3
<1> HIDE DEF fresh, new
<1>6. DOMAIN F = DOMAIN rate_limiters \cup new
        /\ \A n \in DOMAIN F : F[n] = IF n \notin new THEN rate_limiters[n] ELSE fresh(n)
  BY <1>2
<1>7. ASSUME NEW n \in DOMAIN F
      PROVE  F[n] \in Limiter /\ F[n].tokens <= F[n].max_per_second /\ F[n].last_refill <= clock
  BY <1>4, <1>6
<1>8. F \in [DOMAIN F -> Limiter]
  <2>1. F = [n \in DOMAIN F |-> F[n]]
    BY <1>2
  <2>2. QED
    BY <1>7, <2>1
<1>9. \A i \in Limited(rules) : rules[i].name \in DOMAIN F
                                  /\ F[rules[i].name].max_per_second = rules[i].arg
  BY <1>3, <1>5, <1>6
<1>10. QED
  BY <1>7, <1>8, <1>9 DEF F

\* Rules that are loaded are sorted, and have limiters of their rates (load_rules).
LEMMA LoadRulesStep ==
  ASSUME ConfigInv, LimitersInv, LoadRules
  PROVE  RulesInv' /\ LimitersInv'
<1> DEFINE rules == Sorted(current_config)
           F == LimitersFor(rules)
<1>1. /\ filter_rules' = rules /\ rate_limiters' = F /\ allowed' = {} /\ clock' = clock
  BY DEF LoadRules
<1>2. rules \in Seq(RuleRecords) /\ Unique(rules) /\ Descending(rules)
  BY SortedRules DEF LoadRules, ConfigInv
<1> HIDE DEF rules
<1>3. /\ clock \in Nat /\ rate_limiters \in [DOMAIN rate_limiters -> Limiter]
      /\ \A n \in DOMAIN rate_limiters :
           /\ rate_limiters[n].tokens <= rate_limiters[n].max_per_second
           /\ rate_limiters[n].last_refill <= clock
  BY DEF LimitersInv, Within
<1>4. PICK G : /\ G = F /\ G \in [DOMAIN G -> Limiter]
               /\ \A n \in DOMAIN G :
                    G[n].tokens <= G[n].max_per_second /\ G[n].last_refill <= clock
               /\ \A i \in Limited(rules) :
                    rules[i].name \in DOMAIN G /\ G[rules[i].name].max_per_second = rules[i].arg
  BY <1>2, <1>3, LimitersLoaded
<1> HIDE DEF F
<1>5. RulesInv'
  BY <1>1, <1>2 DEF RulesInv
<1>6. allowed' \in Passes(DOMAIN G) /\ rate_limiters' = G
  BY <1>1, <1>4, FS_EmptySet DEF Passes
<1>7. ASSUME NEW n \in DOMAIN G PROVE Within(rate_limiters[n], allowed, n)'
  <2>1. PICK l \in Limiter : l = G[n]
    BY <1>4
  <2>2. l.max_per_second \in Nat /\ l.tokens \in Nat
    BY <2>1 DEF Limiter
  <2>3. l.tokens <= l.max_per_second /\ l.last_refill <= clock
    BY <1>4, <2>1
  <2>4. Cardinality({}) = 0
    BY FS_EmptySet
  <2>5. 0 <= l.max_per_second - l.tokens /\ 0 <= l.max_per_second
    BY <2>2, <2>3
  <2>6. (rate_limiters[n])' = l /\ allowed' = {} /\ clock' = clock
    BY <1>1, <1>6, <2>1
  <2>7. QED
    BY <2>3, <2>4, <2>5, <2>6 DEF Within, Of, Since, Earlier
<1>8. AtMostTwiceTheRate'
  BY <1>1 DEF AtMostTwiceTheRate
<1>9. \A i \in Limited(filter_rules)' :
        /\ filter_rules'[i].name \in DOMAIN rate_limiters'
        /\ rate_limiters'[filter_rules'[i].name].max_per_second = filter_rules'[i].arg
  BY <1>1, <1>4, <1>6
<1>10. /\ clock' \in Nat /\ rate_limiters' \in [DOMAIN rate_limiters' -> Limiter]
       /\ allowed' \in Passes(DOMAIN rate_limiters')
       /\ \A n \in DOMAIN rate_limiters' : Within(rate_limiters[n], allowed, n)'
  BY <1>1, <1>3, <1>4, <1>6, <1>7
<1>11. QED
  BY <1>5, <1>8, <1>9, <1>10 DEF LimitersInv

\* Time only makes what passed before older.
LEMMA TimeStep ==
  ASSUME LimitersInv, TimePasses
  PROVE  LimitersInv'
<1>1. PICK c \in Nat : c = clock /\ clock' = c + 1
  BY DEF LimitersInv, TimePasses
<1>2. UNCHANGED <<filter_rules, rate_limiters, allowed>>
  BY DEF TimePasses
<1>3. ASSUME NEW n \in DOMAIN rate_limiters PROVE Within(rate_limiters[n], allowed, n)'
  <2>1. PICK l \in Limiter : l = rate_limiters[n] /\ Within(l, allowed, n)
    BY DEF LimitersInv
  <2>2. allowed \in Passes(DOMAIN rate_limiters)
    BY DEF LimitersInv
  <2>3. l.last_refill \in Nat /\ l.last_refill <= c /\ l.max_per_second \in Nat
    BY <1>1, <2>1 DEF Within, Limiter
  <2>4. \A a \in Of(allowed, n) : a[2] \in Nat /\ a[2] <= c
    BY <1>1, <2>1, <2>2, PassesFinite DEF Within
  <2> DEFINE E == Earlier(allowed, n, l.last_refill)
             G == {a \in Of(allowed, n) : a[2] < l.last_refill /\ (c + 1) - a[2] < SECOND}
  <2>5. G \in SUBSET E
    <3>1. \A a \in Of(allowed, n) : (c + 1) - a[2] < SECOND => clock - a[2] < SECOND
      BY <1>1, <2>4, FilterConstants
    <3>2. QED
      BY <3>1 DEF Earlier
  <2>6. IsFiniteSet(E) /\ Cardinality(E) \in Nat
    BY <2>2, PassesFinite
  <2>7. Cardinality(E) <= l.max_per_second
    BY <2>1 DEF Within
  <2> HIDE DEF E, G
  <2>8. Cardinality(G) \in Nat /\ Cardinality(G) <= Cardinality(E)
    BY <2>5, <2>6, FS_Subset, FS_CardinalityType
  <2>9. Cardinality(G) <= l.max_per_second
    BY <2>3, <2>6, <2>7, <2>8
  <2>10. \A a \in Of(allowed, n) : a[2] <= c + 1 /\ a[2] < l.last_refill + SECOND
    BY <2>1, <2>4 DEF Within
  <2>11. Earlier(allowed, n, l.last_refill)' = G
    BY <1>1, <1>2 DEF Earlier, Of, G
  <2>12. l.last_refill <= c + 1
    BY <2>3
  <2>13. QED
    BY <1>1, <1>2, <2>1, <2>9, <2>10, <2>11, <2>12 DEF Within, Of, Since
<1>4. AtMostTwiceTheRate'
  BY <1>2 DEF LimitersInv, AtMostTwiceTheRate
<1>5. QED
  BY <1>1, <1>2, <1>3, <1>4 DEF LimitersInv, Limited

\* Forgetting what passed a second ago or more keeps a limiter within its rate,
\* and what is left is at most two buckets (refill_tokens).
LEMMA RecentWithin ==
  ASSUME NEW D, NEW A \in Passes(D), NEW B, B = {a \in A : clock - a[2] < SECOND},
         NEW n, NEW l \in Limiter, Within(l, A, n), clock \in Nat
  PROVE  /\ B \in Passes(D) /\ Within(l, B, n)
         /\ Cardinality(Of(B, n)) <= 2 * l.max_per_second
<1>1. PICK t \in Nat, m \in Nat, k \in Nat :
        t = l.last_refill /\ m = l.max_per_second /\ k = l.tokens /\ k <= m
  BY DEF Limiter, Within
<1>2. B \in SUBSET A /\ IsFiniteSet(A)
  BY DEF Passes
<1>3. B \in Passes(D)
  <2>1. IsFiniteSet(B)
    BY <1>2, FS_Subset
  <2>2. QED
    BY <1>2, <2>1 DEF Passes
<1>4. Earlier(B, n, t) = Earlier(A, n, t) /\ Since(B, n, t) \in SUBSET Since(A, n, t)
  BY DEF Earlier, Since, Of
<1>5. Of(B, n) \in SUBSET (Earlier(A, n, t) \cup Since(A, n, t))
  <2>1. \A a \in Of(A, n) : a[2] \in Nat
    BY PassesFinite
  <2>2. ASSUME NEW a \in Of(B, n) PROVE a \in Earlier(A, n, t) \cup Since(A, n, t)
    <3>1. a \in Of(A, n) /\ a[2] \in Nat /\ clock - a[2] < SECOND
      BY <2>1, <2>2 DEF Of
    <3>2. a[2] < t \/ a[2] >= t
      BY <3>1
    <3>3. QED
      BY <3>1, <3>2 DEF Earlier, Since
  <2>3. QED
    BY <2>2
<1> DEFINE E == Earlier(A, n, t)
           S == Since(A, n, t)
           T == Since(B, n, t)
           O == Of(B, n)
<1>6. IsFiniteSet(E) /\ IsFiniteSet(S)
  BY PassesFinite
<1>7. PICK e \in Nat, s \in Nat : e = Cardinality(E) /\ s = Cardinality(S)
  BY PassesFinite
<1>8. s <= m - k /\ e <= m
  BY <1>1, <1>7 DEF Within
<1>9. T \in SUBSET S /\ O \in SUBSET (E \cup S)
  BY <1>4, <1>5
<1> HIDE DEF E, S, T, O
<1>10. PICK u \in Nat : u = Cardinality(T) /\ u <= s
  BY <1>6, <1>7, <1>9, FS_Subset, FS_CardinalityType
<1>11. PICK v \in Nat : v = Cardinality(E \cup S) /\ v <= e + s /\ IsFiniteSet(E \cup S)
  <2>1. IsFiniteSet(E \cup S)
    BY <1>6, FS_Union
  <2>2. Cardinality(E \cup S) = Cardinality(E) + Cardinality(S) - Cardinality(E \cap S)
    BY <1>6, FS_Union
  <2>3. Cardinality(E \cap S) \in Nat
    BY <1>6, FS_Intersection, FS_CardinalityType
  <2>4. Cardinality(E \cup S) \in Nat
    BY <2>1, FS_CardinalityType
  <2>5. Cardinality(E \cup S) <= e + s
    BY <1>7, <2>2, <2>3, <2>4
  <2>6. QED
    BY <2>1, <2>4, <2>5
<1>12. PICK w \in Nat : w = Cardinality(O) /\ w <= v
  <2>1. PICK U : U = E \cup S
    OBVIOUS
  <2>2. IsFiniteSet(U) /\ O \in SUBSET U
    BY <1>9, <1>11, <2>1
  <2>3. IsFiniteSet(O) /\ Cardinality(O) <= Cardinality(U)
    BY <2>2, FS_Subset
  <2>4. QED
    BY <1>11, <2>1, <2>3, FS_CardinalityType
<1>13. w <= 2 * m /\ u <= m - k
  BY ONLY <1>1, <1>7, <1>8, <1>10, <1>11, <1>12
<1>14. \A a \in Of(B, n) : a \in Of(A, n)
  BY <1>2 DEF Of
<1>15. Within(l, B, n)
  BY <1>1, <1>4, <1>10, <1>13, <1>14 DEF Within, T
<1>16. QED
  BY <1>1, <1>3, <1>12, <1>13, <1>15 DEF O

\* A transaction is counted once, leaves the limiters within their rates and
\* gets the verdict of the rules (filter_transaction).
LEMMA FilterStep ==
  ASSUME RulesInv, LimitersInv, FilterCounts, NEW tx, NEW hour, FilterTransaction(tx, hour)
  PROVE  LimitersInv' /\ FilterCounts' /\ VerdictIsRight'
<1>1. PICK after : Filtering(after, tx, hour)
                   /\ Filtered(tx, hour) = after[Len(filter_rules)]
  BY FilteredRecursive DEF RulesInv, LimitersInv
<1>2. PICK s : s = Filtered(tx, hour)
  OBVIOUS
<1>3. s \in FoldStates(rate_limiters) /\ s = after[Len(filter_rules)]
  <2>1. PICK N \in Nat : N = Len(filter_rules)
    BY LenProperties DEF RulesInv
  <2>2. N \in 0..N
    OBVIOUS
  <2>3. QED
    BY <1>1, <1>2, <2>1, <2>2 DEF Filtering
<1>4. /\ filter_stats' = CountResult(s.result)
      /\ rate_limiters' = s.limiters
      /\ allowed' = {a \in s.allowed : clock - a[2] < SECOND}
      /\ verdict' = [tx |-> tx, hour |-> hour, rules |-> filter_rules, result |-> s.result,
                     priority |-> s.priority]
      /\ UNCHANGED <<filter_rules, clock>>
  BY <1>2 DEF FilterTransaction
<1> DEFINE D == DOMAIN rate_limiters
<1>5. /\ s.result \in Results
      /\ s.limiters \in [D -> Limiter] /\ s.allowed \in Passes(D)
      /\ \A n \in D : /\ Within(s.limiters[n], s.allowed, n)
                      /\ s.limiters[n].max_per_second = rate_limiters[n].max_per_second
  BY <1>3 DEF FoldStates
<1>6. FilterCounts'
  <2>1. PICK t \in Nat, a \in Nat, r \in Nat, l \in Nat :
          /\ filter_stats = [total |-> t, accepted |-> a, rejected |-> r, rate_limited |-> l]
          /\ t = a + r + l
    BY DEF FilterCounts, FilterCountsAddUp
  <2>2. CASE s.result = "accepted"
    <3>1. filter_stats' = [total |-> t + 1, accepted |-> a + 1, rejected |-> r,
                           rate_limited |-> l]
      BY <1>4, <2>1, <2>2 DEF CountResult
    <3>2. QED
      BY <2>1, <3>1 DEF FilterCounts, FilterCountsAddUp
  <2>3. CASE s.result = "rejected"
    <3>1. filter_stats' = [total |-> t + 1, accepted |-> a, rejected |-> r + 1,
                           rate_limited |-> l]
      BY <1>4, <2>1, <2>3 DEF CountResult
    <3>2. QED
      BY <2>1, <3>1 DEF FilterCounts, FilterCountsAddUp
  <2>4. CASE s.result = "rate_limited"
    <3>1. filter_stats' = [total |-> t + 1, accepted |-> a, rejected |-> r,
                           rate_limited |-> l + 1]
      BY <1>4, <2>1, <2>4 DEF CountResult
    <3>2. QED
      BY <2>1, <3>1 DEF FilterCounts, FilterCountsAddUp
  <2>5. QED
    BY <1>5, <2>2, <2>3, <2>4 DEF Results
<1>7. LimitersInv'
  <2>1. PICK L, A, B : /\ L = s.limiters /\ A = s.allowed
                       /\ B = {a \in A : clock - a[2] < SECOND}
    OBVIOUS
  <2>2. clock \in Nat
    BY DEF LimitersInv
  <2>3. rate_limiters' = L /\ allowed' = B /\ clock' = clock /\ L \in [D -> Limiter]
          /\ A \in Passes(D)
    BY <1>4, <1>5, <2>1
  <2>4. ASSUME NEW n \in D
        PROVE  /\ B \in Passes(D) /\ Within(L[n], B, n)
               /\ Cardinality(Of(B, n)) <= 2 * L[n].max_per_second
    <3>1. PICK l \in Limiter : l = L[n]
      BY <2>3
    <3>2. Within(l, A, n)
      BY <1>5, <2>1, <3>1
    <3>3. B \in Passes(D) /\ Within(l, B, n) /\ Cardinality(Of(B, n)) <= 2 * l.max_per_second
      BY <2>1, <2>2, <2>3, <3>2, RecentWithin
    <3>4. QED
      BY <3>1, <3>3
  <2>5. B \in Passes(D)
    <3>1. A \in SUBSET (D \X Nat \X Nat) /\ IsFiniteSet(A) /\ B \in SUBSET A
      BY <2>1, <2>3 DEF Passes
    <3>2. IsFiniteSet(B)
      BY <3>1, FS_Subset
    <3>3. QED
      BY <3>1, <3>2 DEF Passes
  <2>6. AtMostTwiceTheRate'
    <3>1. ASSUME NEW n \in {a[1] : a \in B}
          PROVE  Cardinality({a \in B : a[1] = n}) <= 2 * L[n].max_per_second
      <4>1. n \in D
        BY <2>5 DEF Passes
      <4>2. QED
        BY <2>4, <4>1 DEF Of
    <3>2. QED
      BY <2>3, <3>1 DEF AtMostTwiceTheRate
  <2>7. \A n \in DOMAIN L : Within(L[n], B, n)
    BY <2>3, <2>4
  <2>8. \A n \in DOMAIN rate_limiters' : Within(rate_limiters[n], allowed, n)'
    BY <2>3, <2>7 DEF Within, Of, Since, Earlier
  <2>9. \A i \in Limited(filter_rules) :
          /\ filter_rules[i].name \in D
          /\ L[filter_rules[i].name].max_per_second = filter_rules[i].arg
    BY <1>5, <2>1 DEF LimitersInv
  <2>10. filter_rules' = filter_rules
    BY <1>4
  <2>11. QED
    BY <2>2, <2>3, <2>5, <2>6, <2>8, <2>9, <2>10 DEF LimitersInv, Limited
<1>8. VerdictIsRight'
  <2>1. s.result = "accepted" =>
           /\ \A i \in Matching(tx, hour) : filter_rules[i].action # "Reject"
           /\ Setters(tx, hour) = {} => s.priority = 128
           /\ Setters(tx, hour) # {} =>
                \E i \in Setters(tx, hour) :
                  /\ s.priority = Level(i)
                  /\ \A j \in Setters(tx, hour) :
                       filter_rules[i].priority <= filter_rules[j].priority
    BY <1>1, <1>3, VerdictByRules DEF RulesInv
  <2>2. PICK v : v = [tx |-> tx, hour |-> hour, rules |-> filter_rules, result |-> s.result,
                      priority |-> s.priority]
    OBVIOUS
  <2>3. v.tx = tx /\ v.hour = hour /\ v.rules = filter_rules /\ v.result = s.result
          /\ v.priority = s.priority /\ verdict' = v
    BY <1>4, <2>2
  <2> DEFINE R == {i \in DOMAIN v.rules : v.rules[i].enabled
                                            /\ EvaluateRule(v.rules[i], v.tx, v.hour)}
             Q == {i \in R : v.rules[i].action \in {"Accept", "SetPriority"}}
  <2>4. R = Matching(tx, hour)
    BY <2>3 DEF Matching
  <2>5. Q = Setters(tx, hour)
    BY <2>3, <2>4 DEF Setters
  <2> HIDE DEF R, Q
  <2>6. \A i : Level(i) = IF v.rules[i].action = "Accept" THEN 255 ELSE v.rules[i].arg
    BY <2>3 DEF Level
  <2>7. v.result = "accepted" =>
           /\ \A i \in R : v.rules[i].action # "Reject"
           /\ Q = {} => v.priority = 128
           /\ Q # {} => \E i \in Q :
                /\ v.priority = IF v.rules[i].action = "Accept" THEN 255 ELSE v.rules[i].arg
                /\ \A j \in Q : v.rules[i].priority <= v.rules[j].priority
    BY <2>1, <2>3, <2>4, <2>5, <2>6
  <2>8. QED
    BY <2>3, <2>7 DEF VerdictIsRight, R, Q
<1>9. QED
  BY <1>6, <1>7, <1>8

\* The filters start without rules, limiters and counts.
LEMMA FiltersStart ==
  ASSUME FilterInit
  PROVE  FiltersInv
<1>1. RulesInv
  BY DEF FilterInit, RulesInv, Unique, Descending
<1>2. LimitersInv
  <2>1. allowed \in Passes(DOMAIN rate_limiters)
    BY FS_EmptySet DEF FilterInit, Passes
  <2>2. DOMAIN rate_limiters = {} /\ rate_limiters \in [DOMAIN rate_limiters -> Limiter]
    BY DEF FilterInit
  <2>3. Limited(filter_rules) = {}
    BY DEF FilterInit, Limited
  <2>4. QED
    BY <2>1, <2>2, <2>3 DEF FilterInit, LimitersInv, AtMostTwiceTheRate
<1>3. FilterCounts
  BY DEF FilterInit, FilterCounts, FilterCountsAddUp
<1>4. QED
  BY <1>1, <1>2, <1>3 DEF FilterInit, FiltersInv, ConfigInv, VerdictIsRight

\* No other component touches the filters (filters.rs, filter_config.rs).
LEMMA FiltersKept ==
  ASSUME FiltersInv, UNCHANGED filterVars
  PROVE  FiltersInv'
<1>1. ConfigInv' /\ RulesInv' /\ FilterCounts'
  BY DEF FiltersInv, filterVars, ConfigInv, RulesInv, Unique, Descending, FilterCounts,
         FilterCountsAddUp
<1>2. LimitersInv'
  BY LimitersAside DEF FiltersInv, filterVars
<1>3. VerdictIsRight'
  BY DEF FiltersInv, filterVars, VerdictIsRight
<1>4. QED
  BY <1>1, <1>2, <1>3 DEF FiltersInv

\* Whatever is configured, loaded and filtered, in whatever order.
LEMMA FiltersStep ==
  ASSUME FiltersInv, FilterNext
  PROVE  FiltersInv'
<1>1. ConfigInv /\ RulesInv /\ LimitersInv /\ FilterCounts
  BY DEF FiltersInv
<1>2. ASSUME verdict' = NoVerdict,
             \/ \E rules \in ConfigFiles : LoadConfig(rules)
             \/ \E i \in 1..3, b \in BOOLEAN : UpdateRule(i, b)
             \/ \E rule \in NewRules : AddRule(rule) \/ RemoveRule(rule.name)
      PROVE  FiltersInv'
  <2>1. ConfigInv' /\ UNCHANGED <<filter_rules, rate_limiters, filter_stats, clock, allowed>>
    BY <1>1, <1>2, ConfigStep
  <2>2. RulesInv'
    BY <1>1, <2>1 DEF RulesInv, Unique, Descending
  <2>3. QED
    BY <1>1, <1>2, <2>1, <2>2, LimitersAside, CountsAside, NoVerdictIsRight DEF FiltersInv
<1>3. ASSUME verdict' = NoVerdict, NEW i \in 1..3, NEW b \in BOOLEAN, SetRuleEnabled(i, b)
      PROVE  FiltersInv'
  <2>1. RulesInv' /\ LimitersInv'
    BY <1>1, <1>3, EnableStep
  <2>2. UNCHANGED <<current_config, filter_stats>>
    BY <1>3 DEF SetRuleEnabled
  <2>3. ConfigInv'
    BY <1>1, <2>2 DEF ConfigInv, Unique
  <2>4. QED
    BY <1>1, <1>3, <2>1, <2>2, <2>3, CountsAside, NoVerdictIsRight DEF FiltersInv
<1>4. ASSUME verdict' = NoVerdict, LoadRules
      PROVE  FiltersInv'
  <2>1. RulesInv' /\ LimitersInv'
    BY <1>1, <1>4, LoadRulesStep
  <2>2. UNCHANGED <<current_config, filter_stats>>
    BY <1>4 DEF LoadRules
  <2>3. ConfigInv'
    BY <1>1, <2>2 DEF ConfigInv, Unique
  <2>4. QED
    BY <1>1, <1>4, <2>1, <2>2, <2>3, CountsAside, NoVerdictIsRight DEF FiltersInv
<1>5. ASSUME verdict' = NoVerdict, ResetFilterStats
      PROVE  FiltersInv'
  <2>1. UNCHANGED <<current_config, filter_rules, rate_limiters, clock, allowed>>
    BY <1>5 DEF ResetFilterStats
  <2>2. FilterCounts'
    BY <1>5 DEF ResetFilterStats, FilterCounts, FilterCountsAddUp
  <2>3. ConfigInv' /\ RulesInv'
    BY <1>1, <2>1 DEF ConfigInv, RulesInv, Unique, Descending
  <2>4. QED
    BY <1>1, <1>5, <2>1, <2>2, <2>3, LimitersAside, NoVerdictIsRight DEF FiltersInv
<1>6. ASSUME verdict' = NoVerdict, TimePasses
      PROVE  FiltersInv'
  <2>1. LimitersInv'
    BY <1>1, <1>6, TimeStep
  <2>2. UNCHANGED <<current_config, filter_rules, filter_stats>>
    BY <1>6 DEF TimePasses
  <2>3. ConfigInv' /\ RulesInv'
    BY <1>1, <2>2 DEF ConfigInv, RulesInv, Unique, Descending
  <2>4. QED
    BY <1>1, <1>6, <2>1, <2>2, <2>3, CountsAside, NoVerdictIsRight DEF FiltersInv
<1>7. ASSUME NEW tx \in FilterTxs, NEW hour \in Hours, FilterTransaction(tx, hour)
      PROVE  FiltersInv'
  <2>1. LimitersInv' /\ FilterCounts' /\ VerdictIsRight'
    BY <1>1, <1>7, FilterStep
  <2>2. UNCHANGED <<current_config, filter_rules>>
    BY <1>7 DEF FilterTransaction
  <2>3. ConfigInv' /\ RulesInv'
    BY <1>1, <2>2 DEF ConfigInv, RulesInv, Unique, Descending
  <2>4. QED
    BY <2>1, <2>3 DEF FiltersInv
<1>8. QED
  BY <1>2, <1>3, <1>4, <1>5, <1>6, <1>7 DEF FilterNext

\* Names that differ are limiters that differ (load_rules).
LEMMA FiltersInvGives ==
  ASSUME FiltersInv
  PROVE  FiltersSafe
<1>1. LimiterPerRule
  BY DEF FiltersInv, RulesInv, LimitersInv, Unique, Limited, LimiterPerRule
<1>2. QED
  BY <1>1 DEF FiltersInv, FilterCounts, LimitersInv, FiltersSafe

-----------------------------------------------------------------------------
(* The bot                                                                 *)

\* Where main() is tells what has been started, and the configuration whose
\* services run was validated.
MainInv ==
  /\ main \in {"load", "monitor", "manager"} => services = "none"
  /\ main = "start" => services = "created" /\ Validate(bot_config)
  /\ main = "adapter" => Validate(bot_config)
  /\ NoAbandonedServices

\* Every step of the startup (main).
LEMMA MainInvStep ==
  ASSUME MainInv, BotNext
  PROVE  MainInv'
<1>1. CASE \E c \in Configs : LoadBotConfig(c)
  BY <1>1 DEF LoadBotConfig, MainInv, NoAbandonedServices
<1>2. CASE SpawnMonitor
  BY <1>2 DEF SpawnMonitor, MainInv, NoAbandonedServices
<1>3. CASE CreateManager
  <2>1. UNCHANGED bot_config /\ services = "none"
    BY <1>3 DEF CreateManager, MainInv
  <2>2. \/ main' = "running" /\ services' = "none"
        \/ main' = "start" /\ services' = "created" /\ Validate(bot_config)
        \/ main' = "failed" /\ services' = "none"
    BY <1>3, <2>1 DEF CreateManager
  <2>3. (Validate(bot_config))' <=> Validate(bot_config)
    BY <2>1 DEF Validate, WsUrl, HttpUrl
  <2>4. QED
    BY <2>2, <2>3 DEF MainInv, NoAbandonedServices
<1>4. CASE StartServices
  <2>1. UNCHANGED bot_config /\ main = "start" /\ main' = "adapter" /\ services' = "running"
    BY <1>4 DEF StartServices
  <2>2. (Validate(bot_config))' <=> Validate(bot_config)
    BY <2>1 DEF Validate, WsUrl, HttpUrl
  <2>3. QED
    BY <2>1, <2>2 DEF MainInv, NoAbandonedServices
<1>5. CASE CreateAdapter
  <2>1. \A coin \in DOMAIN bot_config.token_mapping : Parses(bot_config.token_mapping[coin])
    BY <1>5 DEF CreateAdapter, MainInv, Validate, Parses
  <2>2. main' = "running"
    BY <1>5, <2>1 DEF CreateAdapter
  <2>3. QED
    BY <2>2 DEF MainInv, NoAbandonedServices
<1>6. CASE UNCHANGED <<main, bot_config, services>>
  BY <1>6 DEF MainInv, NoAbandonedServices, Validate, WsUrl, HttpUrl
<1>7. CASE main' \in {"stopping", "exited", "killed"}
  BY <1>7 DEF MainInv, NoAbandonedServices
<1>8. \/ UNCHANGED <<main, bot_config, services>> \/ main' \in {"stopping", "exited", "killed"}
      \/ \E c \in Configs : LoadBotConfig(c)
      \/ SpawnMonitor \/ CreateManager \/ StartServices \/ CreateAdapter
  BY DEF BotNext, MainStep, Deliver, ConvertMessage, ProcessEvent, BindMonitor, Interrupt,
         MonitorEnded, Shutdown
<1>9. QED
  BY <1>1, <1>2, <1>3, <1>4, <1>5, <1>6, <1>7, <1>8

\* 10 to a positive power is a positive multiple of 10 (10.0.powi(decimals)).
LEMMA PowersOfTen ==
  ASSUME NEW N \in Nat \ {0}
  PROVE  \E m \in Nat \ {0} : PowerOfTen(N) = 10 * m
<1> DEFINE S == Nat \ {0}
           Next1(n, x) == 10 * x
           g == [p \in (1..N) \X S |-> Next1(p[1], p[2])]
           body(p, k) == IF k = 0 THEN 1 ELSE 10 * p[k - 1]
           rec(p) == p = [k \in 0..N |-> body(p, k)]
           p10 == CHOOSE p : rec(p)
<1>1. 1 \in S /\ g \in [(1..N) \X S -> S]
        /\ \A n \in 1..N : \A x \in S : g[<<n, x>>] = 10 * x
  OBVIOUS
<1> HIDE DEF g, S
<1>2. PICK f : Computes(f, S, 1, N, g)
  <2>1. PICK a : a = 1 /\ a \in S
    BY <1>1
  <2>2. g \in [(1..N) \X S -> S] /\ N \in Nat
    BY <1>1
  <2>3. \E f : Computes(f, S, a, N, g)
    BY ONLY <2>1, <2>2, Recursion
  <2>4. QED
    BY <2>1, <2>3
<1>3. \E p : rec(p)
  <2>1. ASSUME NEW n \in 0..N PROVE f[n] = body(f, n)
    <3>1. CASE n = 0
      BY <1>2, <3>1 DEF Computes
    <3>2. CASE n # 0
      <4>1. n \in 1..N /\ n - 1 \in 0..N
        BY <3>2
      <4>2. f[n - 1] \in S /\ f[n] = g[<<n, f[n - 1]>>]
        BY <1>2, <4>1 DEF Computes
      <4>3. QED
        BY <1>1, <3>2, <4>1, <4>2
    <3>3. QED
      BY <3>1, <3>2
  <2>2. f = [n \in 0..N |-> f[n]]
    BY <1>2 DEF Computes
  <2> HIDE DEF body
  <2>3. QED
    BY <2>1, <2>2
<1>4. rec(p10)
  <2> HIDE DEF rec
  <2> QED
    BY <1>3, Zenon
<1>5. PowerOfTen(N) = p10[N]
  BY DEF PowerOfTen
<1> HIDE DEF p10
<1>6. \A n \in 0..N : p10[n] = IF n = 0 THEN 1 ELSE 10 * p10[n - 1]
  BY <1>4
<1> HIDE DEF rec, body
<1> DEFINE Typed == {n \in 0..N : p10[n] \in S}
<1>7. Typed = 0..N
  <2>1. 0 \in Typed
    BY <1>1, <1>6
  <2>2. ASSUME NEW n \in 1..N, n - 1 \in Typed PROVE n \in Typed
    <3>1. n \in 0..N /\ n # 0 /\ p10[n - 1] \in S
      BY <2>2
    <3>2. p10[n] = 10 * p10[n - 1]
      BY <1>6, <3>1
    <3>3. 10 * p10[n - 1] \in S
      BY <3>1 DEF S
    <3>4. QED
      BY <3>1, <3>2, <3>3
  <2>3. Typed \in SUBSET (0..N)
    OBVIOUS
  <2> HIDE DEF Typed
  <2>4. QED
    BY <2>1, <2>2, <2>3, UpToPlace
<1>8. N \in 0..N /\ N - 1 \in 0..N /\ N # 0
  OBVIOUS
<1>9. p10[N] = 10 * p10[N - 1] /\ p10[N - 1] \in S
  BY <1>6, <1>7, <1>8
<1>10. QED
  BY <1>5, <1>9 DEF S

\* An amount that is not refused is rounded down (float_to_u256).
LEMMA UnitsRoundedDown ==
  ASSUME NEW v \in Int \cup {NaN}, NEW s \in Nat \ {0}, NEW d \in Nat \ {0},
         ToUnits(v, s, d) # Error
  PROVE  /\ ToUnits(v, s, d) \in Nat
         /\ v # NaN => v \in Nat /\ ToUnits(v, s, d) = (v * PowerOfTen(d)) \div s
<1>1. PICK m \in Nat \ {0} : PowerOfTen(d) = 10 * m
  BY PowersOfTen
<1>2. CASE v = NaN
  BY <1>2 DEF ToUnits
<1>3. CASE v # NaN
  <2>1. v \in Nat
    BY <1>3 DEF ToUnits
  <2>2. PICK x \in Nat : x = v * PowerOfTen(d)
    <3>1. PICK y \in Nat : y = PowerOfTen(d)
      BY <1>1
    <3>2. v * y \in Nat
      BY <2>1
    <3>3. QED
      BY <3>1, <3>2
  <2>3. ToUnits(v, s, d) = x \div s
    BY <1>3, <2>1, <2>2 DEF ToUnits, Error
  <2>4. x \div s \in Nat
    OBVIOUS
  <2>5. QED
    BY <1>3, <2>1, <2>2, <2>3, <2>4
<1>4. QED
  BY <1>2, <1>3

\* The body of SwapAtPrice
PriceKept(e) ==
  LET t == e.trade
      usdc == IF e.token_in = "USDC" THEN e.in ELSE e.out
      coins == IF e.token_in = "USDC" THEN e.out ELSE e.in
      exact == t.price * coins * PowerOfTen(USDC_DECIMALS)
      unit == 10 * PowerOfTen(Decimals(t.coin))
  IN e.ok /\ UsdcValue(t) # NaN /\ t.coin # "USDC" =>
       usdc * unit <= exact /\ exact < (usdc + 1) * unit

\* Products keep the order of the amounts (calculate_swap_amounts).
LEMMA ProductGrows ==
  ASSUME NEW a \in Int, NEW b \in Int, NEW m \in Nat, a <= b
  PROVE  a * m <= b * m
OBVIOUS

\* Rounding the leg in USDC down costs less than one of its units
\* (calculate_swap_amounts).
LEMMA LegsAtPrice ==
  ASSUME NEW price \in Int, NEW size \in Nat, NEW p \in Nat \ {0}, NEW m \in Nat \ {0},
         NEW x \in Nat, x = price * size
  PROVE  LET usdc == (x * p) \div 100
             coins == (size * (10 * m)) \div 10
             exact == price * coins * p
             unit == 10 * (10 * m)
         IN usdc * unit <= exact /\ exact < (usdc + 1) * unit
<1>1. PICK y \in Nat : y = x * p
  OBVIOUS
<1>2. PICK u \in Nat : u = y \div 100
  OBVIOUS
<1>3. 100 * u <= y /\ y + 1 <= 100 * (u + 1)
  BY ONLY <1>1, <1>2
<1>4. PICK c \in Nat : c = size * m
  OBVIOUS
<1>5. (size * (10 * m)) \div 10 = c
  <2>1. size * (10 * m) = 10 * c
    BY <1>4
  <2>2. (10 * c) \div 10 = c
    OBVIOUS
  <2>3. QED
    BY <2>1, <2>2
<1>6. price * c * p = y * m
  <2>1. price * c = x * m
    BY <1>4
  <2>2. PICK z \in Int : z = x * m
    OBVIOUS
  <2>3. z * p = y * m
    BY <1>1, <2>2
  <2>4. QED
    BY <2>1, <2>2, <2>3
<1>7. (100 * u) * m <= y * m /\ (y + 1) * m <= (100 * (u + 1)) * m
  BY <1>3, ProductGrows
<1>8. /\ u * (10 * (10 * m)) = (100 * u) * m
      /\ (u + 1) * (10 * (10 * m)) = (100 * (u + 1)) * m
      /\ (y + 1) * m = y * m + m
  OBVIOUS
<1>9. y * m \in Int /\ (100 * u) * m \in Int /\ (100 * (u + 1)) * m \in Int
  OBVIOUS
<1>10. u * (10 * (10 * m)) <= price * c * p /\ price * c * p < (u + 1) * (10 * (10 * m))
  BY <1>6, <1>7, <1>8, <1>9
<1>11. QED
  BY <1>1, <1>2, <1>5, <1>10

Coins == {m.coin : m \in Trades} \cup {"USDC"}

\* What becomes of a trade
Outcomes ==
  [ok : {FALSE}, trade : Trades]
    \cup {e \in [ok : {TRUE}, trade : Trades, in : Nat, out : Nat, token_in : Coins,
                 token_out : Coins] : PriceKept(e)}

\* A trade is adapted at its price or not at all (create_swap_data).
LEMMA AdaptedAtPrice ==
  ASSUME NEW t \in Trades
  PROVE  AdaptTrade(t) \in Outcomes /\ AdaptTrade(t).trade = t
<1> DEFINE u == ToUnits(UsdcValue(t), 100, Decimals("USDC"))
           c == ToUnits(t.size, 10, Decimals(t.coin))
<1>1. [ok |-> FALSE, trade |-> t] \in [ok : {FALSE}, trade : Trades]
  OBVIOUS
<1>2. CASE ~AdaptTrade(t).ok
  <2>1. AdaptTrade(t) = [ok |-> FALSE, trade |-> t]
    BY <1>2 DEF AdaptTrade
  <2> HIDE DEF u, c
  <2>2. [ok |-> FALSE, trade |-> t] \in Outcomes
    BY <1>1 DEF Outcomes
  <2>3. QED
    BY <2>1, <2>2
<1>3. CASE AdaptTrade(t).ok
  <2>1. u # Error /\ c # Error
    BY <1>3 DEF AdaptTrade, SwapAmounts
  <2>2. AdaptTrade(t) =
          IF t.side = "buy"
          THEN [ok |-> TRUE, trade |-> t, in |-> u, out |-> c,
                token_in |-> "USDC", token_out |-> t.coin]
          ELSE [ok |-> TRUE, trade |-> t, in |-> c, out |-> u,
                token_in |-> t.coin, token_out |-> "USDC"]
    BY <1>3 DEF AdaptTrade, SwapAmounts
  <2>3. t.price \in Int \cup {NaN} /\ t.size \in Int \cup {NaN}
    BY BotConstants
  <2>4. UsdcValue(t) \in Int \cup {NaN}
    BY <2>3 DEF UsdcValue
  <2>5. /\ Decimals("USDC") = USDC_DECIMALS /\ USDC_DECIMALS \in Nat \ {0}
        /\ Decimals(t.coin) \in Nat \ {0}
    BY BotConstants DEF Decimals
  <2>6. /\ u \in Nat
        /\ UsdcValue(t) # NaN =>
             /\ UsdcValue(t) \in Nat
             /\ u = (UsdcValue(t) * PowerOfTen(USDC_DECIMALS)) \div 100
    <3>1. PICK v \in Int \cup {NaN} : v = UsdcValue(t)
      BY <2>4
    <3>2. PICK s \in Nat \ {0} : s = 100
      OBVIOUS
    <3>3. PICK d \in Nat \ {0} : d = USDC_DECIMALS
      BY <2>5
    <3>4. u = ToUnits(v, s, d)
      BY <2>5, <3>1, <3>2, <3>3
    <3>5. ToUnits(v, s, d) # Error
      BY <2>1, <3>4
    <3> HIDE DEF u, c
    <3>6. /\ ToUnits(v, s, d) \in Nat
          /\ v # NaN => v \in Nat /\ ToUnits(v, s, d) = (v * PowerOfTen(d)) \div s
      BY ONLY <3>1, <3>2, <3>3, <3>5, UnitsRoundedDown
    <3>7. QED
      BY <3>1, <3>2, <3>3, <3>4, <3>6
  <2>7. /\ c \in Nat
        /\ t.size # NaN =>
             t.size \in Nat /\ c = (t.size * PowerOfTen(Decimals(t.coin))) \div 10
    <3>1. PICK v \in Int \cup {NaN} : v = t.size
      BY <2>3
    <3>2. PICK s \in Nat \ {0} : s = 10
      OBVIOUS
    <3>3. PICK d \in Nat \ {0} : d = Decimals(t.coin)
      BY <2>5
    <3>4. c = ToUnits(v, s, d)
      BY <3>1, <3>2, <3>3
    <3>5. ToUnits(v, s, d) # Error
      BY <2>1, <3>4
    <3> HIDE DEF u, c
    <3>6. /\ ToUnits(v, s, d) \in Nat
          /\ v # NaN => v \in Nat /\ ToUnits(v, s, d) = (v * PowerOfTen(d)) \div s
      BY ONLY <3>1, <3>2, <3>3, <3>5, UnitsRoundedDown
    <3>7. QED
      BY <3>1, <3>2, <3>3, <3>4, <3>6
  <2>8. ASSUME UsdcValue(t) # NaN
        PROVE  LET exact == t.price * c * PowerOfTen(USDC_DECIMALS)
                   unit == 10 * PowerOfTen(Decimals(t.coin))
               IN u * unit <= exact /\ exact < (u + 1) * unit
    <3>1. t.price # NaN /\ t.size # NaN /\ UsdcValue(t) = t.price * t.size
      BY <2>8 DEF UsdcValue
    <3>2. PICK a \in Int, s \in Nat, x \in Nat :
            a = t.price /\ s = t.size /\ x = UsdcValue(t) /\ x = a * s
      BY <2>3, <2>6, <2>7, <2>8, <3>1
    <3>3. PICK m \in Nat \ {0} : PowerOfTen(Decimals(t.coin)) = 10 * m
      BY <2>5, PowersOfTen
    <3>4. PICK p \in Nat \ {0} : PowerOfTen(USDC_DECIMALS) = p
      <4>1. PICK n \in Nat \ {0} : PowerOfTen(USDC_DECIMALS) = 10 * n
        BY <2>5, PowersOfTen
      <4>2. 10 * n \in Nat \ {0}
        OBVIOUS
      <4>3. QED
        BY <4>1, <4>2
    <3>5. u = (x * p) \div 100 /\ c = (s * (10 * m)) \div 10
      BY <2>6, <2>7, <2>8, <3>1, <3>2, <3>3, <3>4
    <3> HIDE DEF u, c
    <3>6. /\ ((x * p) \div 100) * (10 * (10 * m)) <= a * ((s * (10 * m)) \div 10) * p
          /\ a * ((s * (10 * m)) \div 10) * p < ((x * p) \div 100 + 1) * (10 * (10 * m))
      BY ONLY <3>2, <3>3, <3>4, LegsAtPrice, SMTT(30)
    <3>7. QED
      BY <3>2, <3>3, <3>4, <3>5, <3>6
  <2> HIDE DEF u, c
  <2>9. t.coin \in Coins /\ "USDC" \in Coins
    BY DEF Coins
  <2>10. CASE t.side = "buy"
    <3> DEFINE e == [ok |-> TRUE, trade |-> t, in |-> u, out |-> c,
                     token_in |-> "USDC", token_out |-> t.coin]
    <3>1. PriceKept(e)
      BY <2>8 DEF PriceKept
    <3>2. e \in [ok : {TRUE}, trade : Trades, in : Nat, out : Nat, token_in : Coins,
                 token_out : Coins]
      BY <2>6, <2>7, <2>9
    <3>3. AdaptTrade(t) = e /\ e.trade = t
      BY <2>2, <2>10
    <3> HIDE DEF e
    <3>4. e \in Outcomes
      BY <3>1, <3>2 DEF Outcomes
    <3>5. QED
      BY <3>3, <3>4
  <2>11. CASE t.side # "buy"
    <3> DEFINE e == [ok |-> TRUE, trade |-> t, in |-> c, out |-> u,
                     token_in |-> t.coin, token_out |-> "USDC"]
    <3>1. PriceKept(e)
      BY <2>8 DEF PriceKept
    <3>2. e \in [ok : {TRUE}, trade : Trades, in : Nat, out : Nat, token_in : Coins,
                 token_out : Coins]
      BY <2>6, <2>7, <2>9
    <3>3. AdaptTrade(t) = e /\ e.trade = t
      BY <2>2, <2>11
    <3> HIDE DEF e
    <3>4. e \in Outcomes
      BY <3>1, <3>2 DEF Outcomes
    <3>5. QED
      BY <3>3, <3>4
  <2>12. QED
    BY <2>10, <2>11
<1>4. QED
  BY <1>2, <1>3

Adapted == [i \in DOMAIN adapted |-> adapted[i].trade]

TradesInv ==
  /\ ws_messages \in Seq(Messages) /\ market_data \in Seq(Messages)
  /\ arrived \in Seq(Messages) /\ adapted \in Seq(Outcomes)
  /\ TradesKeptInOrder

BotInv == MainInv /\ TradesInv

\* The trades that were adapted are messages of the feed (adapt_trade).
LEMMA AdaptedSeq ==
  ASSUME adapted \in Seq(Outcomes)
  PROVE  /\ Adapted \in Seq(Messages)
         /\ Len(Adapted) = Len(adapted)
<1>1. PICK N \in Nat : N = Len(adapted) /\ DOMAIN adapted = 1..N
  BY LenProperties
<1>2. ASSUME NEW i \in 1..N PROVE adapted[i].trade \in Messages
  <2>1. adapted[i] \in Outcomes
    BY <1>1, ElementOfSeq
  <2>2. QED
    BY <2>1 DEF Outcomes, Trades
<1>3. Adapted = [i \in 1..N |-> adapted[i].trade]
  BY <1>1 DEF Adapted
<1>4. QED
  BY <1>1, <1>2, <1>3

\* A message arrives behind the others (Deliver).
LEMMA ArrivedBehind ==
  ASSUME NEW T, NEW a \in Seq(T), NEW m \in Seq(T), NEW w \in Seq(T), NEW x \in T
  PROVE  a \o m \o Append(w, x) = Append(a \o m \o w, x)
<1> DEFINE b == <<x>>
<1>1. b \in Seq(T)
  OBVIOUS
<1>2. PICK c \in Seq(T) : c = a \o m
  BY ConcatProperties
<1>3. c \o w \in Seq(T)
  BY ConcatProperties
<1>4. Append(w, x) = w \o b /\ Append(c \o w, x) = (c \o w) \o b
  BY <1>3, AppendIsConcat
<1> HIDE DEF b
<1>5. (c \o w) \o b = c \o (w \o b)
  BY <1>1, ConcatAssociative
<1>6. QED
  BY <1>2, <1>4, <1>5

\* A message goes from the front of one channel behind the other.
LEMMA HandedOn ==
  ASSUME NEW T, NEW m \in Seq(T), NEW w \in Seq(T), NEW x \in T
  PROVE  Append(m, x) \o w = m \o (<<x>> \o w)
<1> DEFINE b == <<x>>
<1>1. b \in Seq(T)
  OBVIOUS
<1>2. Append(m, x) = m \o b
  BY AppendIsConcat
<1> HIDE DEF b
<1>3. (m \o b) \o w = m \o (b \o w)
  BY <1>1, ConcatAssociative
<1>4. QED
  BY <1>2, <1>3 DEF b

\* No step of the tasks loses, repeats or overtakes a trade
\* (process_ws_messages and the market data processor).
LEMMA TradesStep ==
  ASSUME TradesInv, BotNext
  PROVE  TradesInv'
<1> DEFINE A == Adapted
           M == Only(market_data, Trades)
           W == Only(ws_messages, Trades)
           R == Only(arrived, Trades)
<1>1. /\ ws_messages \in Seq(Messages) /\ market_data \in Seq(Messages)
      /\ arrived \in Seq(Messages) /\ adapted \in Seq(Outcomes) /\ A \o M \o W = R
  BY DEF TradesInv, TradesKeptInOrder, Adapted
<1>2. A \in Seq(Messages) /\ M \in Seq(Messages) /\ W \in Seq(Messages)
        /\ R \in Seq(Messages)
  BY <1>1, AdaptedSeq, OnlyPlaces
<1>3. ASSUME UNCHANGED <<ws_messages, market_data, arrived, adapted>>
      PROVE  TradesInv'
  BY <1>1, <1>3 DEF TradesInv, TradesKeptInOrder
<1> HIDE DEF A, M, W, R
<1>4. ASSUME NEW m \in Messages, Deliver(m)
      PROVE  TradesInv'
  <2>1. /\ ws_messages' = Append(ws_messages, m) /\ arrived' = Append(arrived, m)
        /\ market_data' = market_data /\ adapted' = adapted
    BY <1>4 DEF Deliver
  <2>2. ws_messages' \in Seq(Messages) /\ arrived' \in Seq(Messages)
    BY <1>1, <2>1, AppendProperties
  <2>3. /\ W' = IF m \in Trades THEN Append(W, m) ELSE W
        /\ R' = IF m \in Trades THEN Append(R, m) ELSE R
    BY <1>1, <2>1, OnlyAppend DEF W, R
  <2>4. A' = A /\ M' = M
    BY <2>1 DEF A, M, Adapted
  <2>5. A \o M \o Append(W, m) = Append(A \o M \o W, m)
    BY <1>2, ArrivedBehind
  <2>6. A' \o M' \o W' = R'
    BY <1>1, <2>3, <2>4, <2>5
  <2>7. QED
    BY <1>1, <2>1, <2>2, <2>6 DEF TradesInv, TradesKeptInOrder, A, M, W, R, Adapted
<1>5. ASSUME ConvertMessage
      PROVE  TradesInv'
  <2>1. PICK h \in Messages : h = Head(ws_messages) /\ Tail(ws_messages) \in Seq(Messages)
    BY <1>1, <1>5, HeadTailProperties DEF ConvertMessage
  <2>2. /\ ws_messages # <<>> /\ ws_messages' = Tail(ws_messages)
        /\ arrived' = arrived /\ adapted' = adapted
        /\ market_data' = IF h.kind \in {"trade", "orderbook"}
                          THEN Append(market_data, h) ELSE market_data
    BY <1>5, <2>1 DEF ConvertMessage
  <2>3. ws_messages' \in Seq(Messages) /\ market_data' \in Seq(Messages)
    BY <1>1, <2>1, <2>2, AppendProperties
  <2>4. W = IF h \in Trades THEN <<h>> \o W' ELSE W'
    BY <1>1, <2>1, <2>2, OnlyHead DEF W
  <2>5. W' \in Seq(Messages)
    BY <2>3, OnlyPlaces DEF W
  <2>6. M' = IF h \in Trades THEN Append(M, h) ELSE M
    <3>1. h \in Trades <=> h.kind = "trade"
      BY DEF Trades
    <3>2. Only(Append(market_data, h), Trades) = IF h \in Trades THEN Append(M, h) ELSE M
      BY <1>1, OnlyAppend DEF M
    <3>3. QED
      BY <2>2, <3>1, <3>2 DEF M
  <2>7. A' = A /\ R' = R
    BY <2>2 DEF A, R, Adapted
  <2>8. A' \o M' \o W' = R'
    <3>1. PICK w \in Seq(Messages) : w = W'
      BY <2>5
    <3>2. CASE h \notin Trades
      BY <1>1, <2>4, <2>6, <2>7, <3>2
    <3>3. CASE h \in Trades
      <4>1. W = <<h>> \o w /\ M' = Append(M, h)
        BY <2>4, <2>6, <3>1, <3>3
      <4>2. Append(M, h) \o w = M \o W
        BY <1>2, <4>1, HandedOn
      <4>3. PICK n \in Seq(Messages) : n = Append(M, h)
        BY <1>2, AppendProperties
      <4>4. (A \o n) \o w = A \o (n \o w)
        <5>1. A \in Seq(Messages) /\ n \in Seq(Messages) /\ w \in Seq(Messages)
          BY <1>2, <3>1, <4>3
        <5>2. QED
          BY ONLY <5>1, ConcatAssociative
      <4>5. (A \o M) \o W = A \o (M \o W)
        BY <1>2, ConcatAssociative
      <4>6. QED
        BY <1>1, <2>7, <3>1, <4>1, <4>2, <4>3, <4>4, <4>5
    <3>4. QED
      BY <3>2, <3>3
  <2>9. QED
    BY <1>1, <2>2, <2>3, <2>8 DEF TradesInv, TradesKeptInOrder, A, M, W, R, Adapted
<1>6. ASSUME ProcessEvent
      PROVE  TradesInv'
  <2>1. PICK h \in Messages : h = Head(market_data) /\ Tail(market_data) \in Seq(Messages)
    BY <1>1, <1>6, HeadTailProperties DEF ProcessEvent
  <2>2. /\ market_data # <<>> /\ market_data' = Tail(market_data)
        /\ arrived' = arrived /\ ws_messages' = ws_messages
        /\ adapted' = IF h.kind = "trade" THEN Append(adapted, AdaptTrade(h)) ELSE adapted
    BY <1>6, <2>1 DEF ProcessEvent
  <2>3. h \in Trades <=> h.kind = "trade"
    BY DEF Trades
  <2>4. M = IF h \in Trades THEN <<h>> \o M' ELSE M'
    BY <1>1, <2>1, <2>2, OnlyHead DEF M
  <2>5. market_data' \in Seq(Messages) /\ M' \in Seq(Messages)
    BY <2>1, <2>2, OnlyPlaces DEF M
  <2>6. W' = W /\ R' = R
    BY <2>2 DEF W, R
  <2>7. CASE h \notin Trades
    <3>1. A' = A /\ adapted' = adapted /\ M' = M
      BY <2>2, <2>3, <2>4, <2>7 DEF A, Adapted
    <3>2. QED
      BY <1>1, <2>2, <2>5, <2>6, <3>1 DEF TradesInv, TradesKeptInOrder, A, M, W, R, Adapted
  <2>8. CASE h \in Trades
    <3>1. PICK e \in Outcomes : e = AdaptTrade(h) /\ e.trade = h
      BY <2>8, AdaptedAtPrice
    <3>2. adapted' = Append(adapted, e)
      BY <2>2, <2>3, <2>8, <3>1
    <3>3. PICK N \in Nat : N = Len(adapted) /\ DOMAIN adapted = 1..N
      BY <1>1, LenProperties
    <3>4. /\ adapted' \in Seq(Outcomes) /\ Len(adapted') = N + 1
          /\ adapted'[N + 1] = e /\ \A i \in 1..N : adapted'[i] = adapted[i]
      BY <1>1, <3>2, <3>3, AppendProperties
    <3>5. DOMAIN adapted' = 1..N + 1
      BY <3>4, LenProperties
    <3>6. A' = Append(A, h)
      <4>1. PICK a \in Seq(Messages) : a = Append(A, h)
        BY <1>2, AppendProperties
      <4>2. Len(A) = N /\ \A i \in 1..N : A[i] = adapted[i].trade
        BY <1>1, <3>3, AdaptedSeq DEF A, Adapted
      <4>3. /\ Len(a) = N + 1 /\ a[N + 1] = h
            /\ \A i \in 1..N : a[i] = adapted[i].trade
        BY <1>2, <4>1, <4>2, AppendProperties
      <4>4. PICK b : b = [i \in 1..N + 1 |-> adapted'[i].trade]
        OBVIOUS
      <4>5. \A i \in 1..N + 1 : i = N + 1 \/ i \in 1..N
        OBVIOUS
      <4>6. \A i \in 1..N + 1 : b[i] = a[i]
        BY <3>1, <3>4, <4>3, <4>4, <4>5
      <4>7. a = [i \in 1..N + 1 |-> a[i]]
        BY <4>3
      <4>8. a = b
        BY <4>4, <4>6, <4>7
      <4>9. A' = b
        BY <3>5, <4>4 DEF A, Adapted
      <4>10. QED
        BY <4>1, <4>8, <4>9
    <3>7. A' \o M' \o W' = R'
      <4>1. PICK m \in Seq(Messages) : m = M'
        BY <2>5
      <4>2. M = <<h>> \o m
        BY <2>4, <2>8, <4>1
      <4>3. Append(A, h) \o m = A \o M
        BY <1>2, <4>2, HandedOn
      <4>4. QED
        BY <1>1, <2>6, <3>6, <4>1, <4>3
    <3>8. QED
      BY <1>1, <2>2, <2>5, <3>4, <3>7 DEF TradesInv, TradesKeptInOrder, A, M, W, R, Adapted
  <2>9. QED
    BY <2>7, <2>8
<1>7. \/ UNCHANGED <<ws_messages, market_data, arrived, adapted>>
      \/ \E m \in Messages : Deliver(m)
      \/ ConvertMessage \/ ProcessEvent
  <2>1. CASE MainStep
    BY <2>1 DEF MainStep, SpawnMonitor, CreateManager, StartServices, CreateAdapter,
                MonitorEnded, Shutdown
  <2>2. CASE \E c \in Configs : LoadBotConfig(c)
    BY <2>2 DEF LoadBotConfig
  <2>3. CASE (\E ok \in BOOLEAN : BindMonitor(ok)) \/ Interrupt
    BY <2>3 DEF BindMonitor, Interrupt
  <2>4. QED
    BY <2>1, <2>2, <2>3 DEF BotNext
<1>8. QED
  BY <1>3, <1>4, <1>5, <1>6, <1>7

\* Nothing is started, sent or adapted when main() begins.
LEMMA BotStart ==
  ASSUME BotInit
  PROVE  BotInv
<1>1. Only(<<>>, Trades) = <<>>
  BY OnlyEmpty
<1>2. TradesKeptInOrder
  <2>1. adapted \in Seq(Outcomes) /\ Len(adapted) = 0
    BY DEF BotInit
  <2>2. Adapted = <<>>
    BY <2>1, AdaptedSeq
  <2>3. <<>> \o <<>> \o <<>> = <<>>
    OBVIOUS
  <2>4. QED
    BY <1>1, <2>2, <2>3 DEF BotInit, TradesKeptInOrder, Adapted
<1>3. QED
  BY <1>2 DEF BotInit, BotInv, MainInv, TradesInv, NoAbandonedServices

\* Every step of main() and of the tasks it starts (main, process_ws_messages).
LEMMA BotStep ==
  ASSUME BotInv, BotNext
  PROVE  BotInv'
BY MainInvStep, TradesStep DEF BotInv

\* No other component touches the bot (main.rs).
LEMMA BotKept ==
  ASSUME BotInv, UNCHANGED botVars
  PROVE  BotInv'
BY DEF BotInv, MainInv, TradesInv, botVars, NoAbandonedServices, TradesKeptInOrder, Validate,
       WsUrl, HttpUrl

\* What is kept of each adapted trade is its price (create_swap_data).
LEMMA BotInvGives ==
  ASSUME BotInv
  PROVE  BotSafe
<1>1. SwapAtPrice
  <2>1. PICK N \in Nat : N = Len(adapted) /\ DOMAIN adapted = 1..N
    BY LenProperties DEF BotInv, TradesInv
  <2>2. \A i \in 1..N : adapted[i] \in Outcomes
    BY <2>1, ElementOfSeq DEF BotInv, TradesInv
  <2>3. \A e \in Outcomes : PriceKept(e)
    BY DEF Outcomes, PriceKept
  <2>4. \A i \in DOMAIN adapted : PriceKept(adapted[i])
    BY <2>1, <2>2, <2>3
  <2>5. QED
    BY <2>4 DEF SwapAtPrice, PriceKept
<1>2. QED
  BY <1>1 DEF BotInv, MainInv, TradesInv, BotSafe

-----------------------------------------------------------------------------
(* The components together                                                 *)

\* A step is one of one component, or of none.
LEMMA IntakeMoves ==
  ASSUME [IntakeNext]_intakeVars
  PROVE  /\ FilterNext \/ UNCHANGED filterVars
         /\ \/ DecoderNext /\ UNCHANGED parsed
            \/ ParserNext /\ UNCHANGED decoderVars
            \/ UNCHANGED <<decoderVars, parsed>>
         /\ StrategiesNext \/ UNCHANGED strategyVars
         /\ BotNext \/ UNCHANGED botVars
         /\ StatsNext \/ UNCHANGED statsVars
<1>1. CASE UNCHANGED intakeVars
  BY <1>1 DEF intakeVars
<1>2. CASE IntakeNext
  BY <1>2 DEF IntakeNext, Filter, Decoder, Parser, Strategy, MevBot, Stats
<1>3. QED
  BY <1>1, <1>2

\* Whatever is configured, loaded, filtered and however time passes, the filters
\* judge by the configured rules and the limiters keep their rates
\* (FilterConfigManager, FilterEngine).
THEOREM FiltersAreSafe == IntakeSpec => []FiltersSafe
<1>1. IntakeInit => FiltersInv
  BY FiltersStart DEF IntakeInit
<1>2. FiltersInv /\ [IntakeNext]_intakeVars => FiltersInv'
  BY IntakeMoves, FiltersStep, FiltersKept
<1>3. FiltersInv => FiltersSafe
  BY FiltersInvGives
<1>4. QED
  BY <1>1, <1>2, <1>3, PTL DEF IntakeSpec

\* However decodings overlap, the pool keeps its limit and the counts add up; no
\* input makes them read past its end, and calls to known routers are let through
\* (AbiDecoder, TransactionParser).
THEOREM DecodersAreSafe == IntakeSpec => []DecodersSafe
<1>1. IntakeInit => DecodersInv
  BY DecodersStart DEF IntakeInit
<1>2. DecodersInv /\ [IntakeNext]_intakeVars => DecodersInv'
  BY IntakeMoves, DecodersStep, DecodersKept
<1>3. DecodersInv => DecodersSafe
  BY DecodersInvGives
<1>4. QED
  BY <1>1, <1>2, <1>3, PTL DEF IntakeSpec

\* Whatever the settings are changed to between an evaluation and its plan, no
\* opportunity loses, a larger one is worth no less, and a plan surrounds its
\* target within the gas cap (BackrunStrategy, SandwichStrategy).
THEOREM PlansAreSafe == IntakeSpec => []PlansSafe
<1>1. IntakeInit => StrategiesInv
  BY StrategiesStart DEF IntakeInit
<1>2. StrategiesInv /\ [IntakeNext]_intakeVars => StrategiesInv'
  BY IntakeMoves, StrategiesStep, StrategiesKept
<1>3. StrategiesInv => PlansSafe
  BY StrategiesInvGives
<1>4. QED
  BY <1>1, <1>2, <1>3, PTL DEF IntakeSpec

\* Wherever main() fails or is interrupted and however its tasks interleave, no
\* services are abandoned, and no trade is lost, reordered or adapted at another
\* price (main, process_ws_messages, TradeDataAdapter).
THEOREM BotIsSafe == IntakeSpec => []BotSafe
<1>1. IntakeInit => BotInv
  BY BotStart DEF IntakeInit
<1>2. BotInv /\ [IntakeNext]_intakeVars => BotInv'
  BY IntakeMoves, BotStep, BotKept
<1>3. BotInv => BotSafe
  BY BotInvGives
<1>4. QED
  BY <1>1, <1>2, <1>3, PTL DEF IntakeSpec

\* However counting and reporting race, the average stays below the slowest
\* result, no opportunity is lost and no transaction is in two reported rates:
\* what StatsSound says of every state
\* (process_decision_result, start_stats_reporting).
THEOREM StatsAreSafe ==
  IntakeSpec => [](AverageBelowSlowest /\ OpportunitiesKept /\ RatesCountOnce)
<1>1. IntakeInit => StatsInv
  BY StatsStart DEF IntakeInit
<1>2. StatsInv /\ [IntakeNext]_intakeVars => StatsInv'
  BY IntakeMoves, StatsStep, StatsKept
<1>3. StatsInv => AverageBelowSlowest /\ OpportunitiesKept /\ RatesCountOnce
  BY StatsInvGives
<1>4. QED
  BY <1>1, <1>2, <1>3, PTL DEF IntakeSpec


-----------------------------------------------------------------------------
(* The service manager.  The inductive invariant says which task handle    *)
(* accounts for every task that is still at work: while stop() waits, the  *)
(* handle has moved from the manager to the call.                          *)

RpcLocations == {"off", "check", "poll", "done"}

Handles == Services \cup {None}

ManagerTypeOK ==
  /\ stopFlag \in BOOLEAN
  /\ wsTask \in Handles /\ rpcTask \in Handles /\ joining \in Handles
  /\ owner \in {"free", "rpc", "ws"}
  /\ rpc \in [Services -> RpcLocations]
  /\ pc \in [Services -> Ws!Locations]
  /\ asked \subseteq Services

Polls(s) == rpc[s] \in {"check", "poll"}
Feeds(s) == pc[s] \notin {"off", "stopped"}

\* stop() takes the handle of the polling loop first, then the feed's.
HandlesMatch ==
  /\ owner = "free" => wsTask = rpcTask
  /\ owner = "rpc" => rpcTask = None /\ joining = wsTask
  /\ owner = "ws" => rpcTask = None /\ wsTask = None

\* A task at work is held by the manager, or by the stop() that waits for it.
TasksAreHeld ==
  \A s \in Services :
    /\ Polls(s) => s = rpcTask \/ (owner = "rpc" /\ joining = s)
    /\ Feeds(s) => s = wsTask \/ (owner = "ws" /\ joining = s)

\* The tasks that were stopped are not those that run now: each start() has
\* tasks of its own.
StoppedStayStopped ==
  /\ \A s \in asked : rpc[s] # "off"
  /\ owner = "free" => wsTask \notin asked

ManagerInv ==
  /\ ManagerTypeOK
  /\ HandlesMatch
  /\ TasksAreHeld
  /\ StoppedStayStopped

\* What a service's connection loop does by itself neither begins it nor
\* brings it back once it has ended (start() of websocket.rs).
LEMMA FeedSteps ==
  ASSUME pc \in [Services -> Ws!Locations], NEW s \in Services,
         Ws!Proceed(s) \/ Ws!RetryTick(s) \/ Ws!HandleReply(s)
  PROVE  /\ pc' \in [Services -> Ws!Locations]
         /\ \A t \in Services : Feeds(t)' => Feeds(t)
<1> USE DEF Feeds, Ws!Goto, Ws!Locations
<1>1. CASE Ws!Top(s)
  BY <1>1 DEF Ws!Top
<1>2. CASE Ws!ConnectOk(s) \/ Ws!ConnectFails(s)
  BY <1>2 DEF Ws!ConnectOk, Ws!ConnectFails
<1>3. CASE Ws!SendRequest(s)
  BY <1>3 DEF Ws!SendRequest
<1>4. CASE Ws!StreamEnds(s) \/ Ws!StreamFails(s) \/ Ws!ShutdownTick(s)
  BY <1>4 DEF Ws!StreamEnds, Ws!StreamFails, Ws!ShutdownTick
<1>5. CASE Ws!RecordOk(s) \/ Ws!RecordErr(s)
  BY <1>5 DEF Ws!RecordOk, Ws!RecordErr
<1>6. CASE Ws!Check(s) \/ Ws!Wait(s)
  BY <1>6 DEF Ws!Check, Ws!Wait
<1>7. CASE Ws!RetryTick(s)
  BY <1>7 DEF Ws!RetryTick
<1>8. CASE Ws!HandleReply(s)
  BY <1>8 DEF Ws!HandleReply
<1>9. QED
  BY <1>1, <1>2, <1>3, <1>4, <1>5, <1>6, <1>7, <1>8 DEF Ws!Proceed

\* The exchange, the network and shutdown() move no task.
LEMMA OutsideSteps ==
  ASSUME Ws!Environment \/ Ws!Shutdown
  PROVE  pc' = pc
BY DEF Ws!Environment, Ws!Answer, Ws!LinkLost, Ws!FiveSeconds, Ws!Outside,
       Ws!Shutdown

\* start() and stop() (service_manager.rs) keep the account of the handles,
\* through every interleaving with the tasks they spawned.
THEOREM ManagerInvariant == Spec => []ManagerInv
<1> USE ManagerConstants DEF ManagerConstants, ManagerTypeOK, Handles,
      RpcLocations,
                             HandlesMatch, TasksAreHeld, StoppedStayStopped
<1>1. Init => ManagerInv
  <2> SUFFICES ASSUME Init PROVE ManagerInv
    OBVIOUS
  <2>1. ManagerTypeOK
    BY DEF Init, Ws!Init, Ws!Locations
  <2>2. TasksAreHeld
    BY DEF Init, Ws!Init, Polls, Feeds
  <2>3. HandlesMatch /\ StoppedStayStopped
    BY DEF Init
  <2>4. QED
    BY <2>1, <2>2, <2>3 DEF ManagerInv
<1>2. ManagerInv /\ [Next]_vars => ManagerInv'
  <2> SUFFICES ASSUME ManagerInv, [Next]_vars PROVE ManagerInv'
    OBVIOUS
  <2> USE DEF ManagerInv
  <2>1. ASSUME NEW s \in Services, StartAll(s) PROVE ManagerInv'
    BY <2>1 DEF StartAll, Idle, Polls, Feeds, Ws!Start, Ws!Goto, Ws!Locations
  <2>2. ASSUME NEW s \in Services, PollCheck(s) \/ Poll(s) PROVE ManagerInv'
    BY <2>2 DEF PollCheck, Poll, Polls, Feeds, manager, ws
  <2>3. ASSUME NEW s \in Services,
               Ws!Proceed(s) \/ Ws!RetryTick(s) \/ Ws!HandleReply(s),
               UNCHANGED <<manager, rpc>>
        PROVE  ManagerInv'
    BY <2>3, FeedSteps DEF Polls, manager
  <2>4. CASE Stop
    BY <2>4 DEF Stop, Polls, Feeds, ws
  <2>5. CASE JoinRpc
    BY <2>5 DEF JoinRpc, Polls, Feeds, ws
  <2>6. CASE JoinWs
    BY <2>6 DEF JoinWs, Polls, Feeds, ws
  <2>7. CASE StopFeed
    BY <2>7, OutsideSteps DEF StopFeed, Polls, Feeds, manager
  <2>8. CASE Ws!Environment /\ UNCHANGED <<manager, rpc>>
    BY <2>8, OutsideSteps DEF Polls, Feeds, manager
  <2>9. CASE UNCHANGED vars
    BY <2>9 DEF vars, manager, ws, Polls, Feeds
  <2>10. QED
    BY <2>1, <2>2, <2>3, <2>4, <2>5, <2>6, <2>7, <2>8, <2>9 DEF Next
<1>3. QED
  BY <1>1, <1>2, PTL DEF Spec

\* Two tasks at work are one: the manager owns one service at a time, and
\* stop() has taken its handles in the same order.
LEMMA OneAlive ==
  ASSUME ManagerInv, NEW s \in Services, NEW t \in Services, Alive(s), Alive(t)
  PROVE  s = t
BY ManagerConstants DEF ManagerConstants, ManagerInv, ManagerTypeOK,
   HandlesMatch, TasksAreHeld,
                        Alive, Polls, Feeds

\* Through any sequence of start() and stop() there is one service at most,
\* and none of those that were running when stop() was called once it has
\* returned.
THEOREM CleanlyRestarted == Spec => []CleanRestarts
<1>1. ManagerInv => OneAtATime
  <2> SUFFICES ASSUME ManagerInv PROVE OneAtATime
    OBVIOUS
  <2> DEFINE A == {s \in Services : Alive(s)}
  <2>1. CASE A = {}
    BY <2>1, FS_EmptySet DEF OneAtATime
  <2>2. CASE A # {}
    <3>1. PICK s \in A : TRUE
      BY <2>2
    <3>2. A = {s}
      BY <3>1, OneAlive
    <3>3. Cardinality(A) = 1
      BY <3>2, FS_Singleton
    <3>4. QED
      BY <3>3 DEF OneAtATime
  <2>3. QED
    BY <2>1, <2>2
<1>2. ManagerInv => StopLeavesNothing
  BY ManagerConstants DEF ManagerConstants, ManagerInv, ManagerTypeOK, Handles,
     HandlesMatch,
     TasksAreHeld, StoppedStayStopped, StopLeavesNothing, Alive, Polls, Feeds
<1>3. QED
  BY <1>1, <1>2, ManagerInvariant, PTL DEF CleanRestarts

\* The manager only starts, stops and shuts down its feed: what happens to
\* the feed under it is what happens to a WsService on its own.
THEOREM ManagedFeedIsAFeed == Spec => Ws!Spec
<1>1. Init => Ws!Init
  BY DEF Init
<1>2. [Next]_vars => [Ws!Next]_(Ws!vars)
  <2>1. ASSUME NEW s \in Services, StartAll(s) PROVE Ws!Next
    BY <2>1 DEF StartAll, Ws!Next
  <2>2. ASSUME NEW s \in Services, PollCheck(s) \/ Poll(s)
        PROVE  UNCHANGED ws
    BY <2>2 DEF PollCheck, Poll
  <2>3. ASSUME NEW s \in Services,
               Ws!Proceed(s) \/ Ws!RetryTick(s) \/ Ws!HandleReply(s)
        PROVE  Ws!Next
    BY <2>3 DEF Ws!Next
  <2>4. ASSUME Stop \/ JoinRpc \/ JoinWs PROVE UNCHANGED ws
    BY <2>4 DEF Stop, JoinRpc, JoinWs
  <2>5. ASSUME StopFeed \/ Ws!Environment PROVE Ws!Next
    BY <2>5 DEF StopFeed, Ws!Next
  <2>6. UNCHANGED ws => UNCHANGED Ws!vars
    BY DEF ws, Ws!vars, Ws!reconnection, Ws!subscriptions, Ws!network,
           Ws!outside
  <2>7. UNCHANGED vars => UNCHANGED ws
    BY DEF vars
  <2>8. QED
    BY <2>1, <2>2, <2>3, <2>4, <2>5, <2>6, <2>7 DEF Next
<1>3. QED
  BY <1>1, <1>2, PTL DEF Spec, Ws!Spec
=============================================================================
