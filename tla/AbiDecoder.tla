----------------------------- MODULE AbiDecoder -----------------------------
(***************************************************************************)
(* From a transaction as the node reports it to what the bot makes of it:  *)
(* the parser and the three ABI decoders (mev-mempool parser.rs,           *)
(* abi_decoder.rs and optimized_abi_decoder.rs, mev-core abi_decoder.rs).  *)
(* A selector is named by its function.  The optimized decoder is shared   *)
(* by tasks: its signature cache, pool and statistics have a lock each.    *)
(***************************************************************************)
EXTENDS Naturals, Sequences, FiniteSets

CONSTANTS
  Decoding,                \* tasks that use the shared decoder
  POOL_LIMIT,              \* 10 in return_decoder_to_pool
  MAX_DECODES,             \* bound: calls
  CustomSelector,          \* a selector add_function_signature may add
  InputLengths,            \* lengths of calldata, in characters with the prefix
  Missing                  \* an absent field

ASSUME DecoderConstants ==
  /\ POOL_LIMIT \in Nat /\ MAX_DECODES \in Nat
  /\ InputLengths \subseteq Nat

-----------------------------------------------------------------------------
(* The tables: later entries replace earlier ones                          *)

\* AbiDecoder::load_precompiled_abis
PrecompiledAbis ==
  << <<"transfer", "UniswapV2">>, <<"swapExactETHForTokens", "UniswapV2">>,
     <<"swapExactTokensForTokens", "UniswapV2">>,
     <<"swapExactTokensForETH", "UniswapV2">>, <<"exactInputSingle", "UniswapV3">>,
     <<"exactInput", "UniswapV3">>, <<"swapExactTokensForTokens", "SushiSwap">>,
     <<"exchange", "Curve">>, <<"exchange_underlying", "Curve">>,
     <<"swap", "Balancer">> >>

\* OptimizedAbiDecoder::initialize_mev_signatures, with is_mev_relevant
MevSignatures ==
  << <<"swapExactTokensForTokens", "UniswapV2", TRUE>>,
     <<"swapTokensForExactTokens", "UniswapV2", TRUE>>,
     <<"swapExactETHForTokens", "UniswapV2", TRUE>>,
     <<"exactInputSingle", "UniswapV3", TRUE>>, <<"transfer", "Unknown", FALSE>>,
     <<"transferFrom", "Unknown", FALSE>>, <<"approve", "Unknown", FALSE>> >>

\* The signatures of mev-core's OptimizedAbiDecoder
CoreSignatures ==
  {"swapExactETHForTokens", "swapETHForExactTokens", "swapExactTokensForETH",
   "swapTokensForExactETH", "swapExactTokensForTokens", "swapTokensForExactTokens",
   "addLiquidity", "addLiquidityETH", "removeLiquidity", "removeLiquidityETH",
   "exactInputSingle", "exactInput", "exactOutputSingle", "exactOutput", "multicall",
   "mint", "increaseLiquidity", "decreaseLiquidity", "collect", "burn", "transfer",
   "transferFrom", "approve", "balanceOf", "allowance", "totalSupply", "exchange",
   "exchange_underlying", "add_liquidity", "remove_liquidity",
   "remove_liquidity_one_coin", "get_dy", "get_dy_underlying"}

Selectors(table) == {table[i][1] : i \in DOMAIN table}

\* HashMap::insert replaces.
Entry(table, selector) ==
  table[CHOOSE i \in DOMAIN table : /\ table[i][1] = selector
                                    /\ \A j \in i + 1..Len(table) : table[j][1] # selector]

-----------------------------------------------------------------------------
(* TransactionParser                                                       *)

\* A raw transaction: `to' is the router of a protocol, another address or
\* Missing; `chars' is the length of the input with its prefix.
RouterTypes == {"UniswapV2", "UniswapV3", "SushiSwap"}
DexTypes == {"UniswapV2", "UniswapV3", "SushiSwap", "Curve", "Balancer"}

\* decode_input: any input with a selector is decoded, a known one by its name.
DecodedSelector(raw) == IF raw.chars < 10 THEN Missing ELSE raw.selector

\* determine_target_type: the selector first, then the address.
TargetType(raw) ==
  LET s == DecodedSelector(raw) IN
  IF s \in Selectors(PrecompiledAbis) THEN Entry(PrecompiledAbis, s)[2]
  ELSE IF raw.to \in RouterTypes THEN raw.to ELSE "Unknown"

\* parse_batch drops what has no hash or sender, and keeps the order.
ParseBatch(raws) == SelectSeq(raws, LAMBDA raw : raw.hash /\ raw.from)

\* is_interesting_transaction
Interesting(raw) ==
  /\ raw.to # Missing /\ raw.chars > 2
  /\ TargetType(raw) \in DexTypes

-----------------------------------------------------------------------------
(* What the decoders read of an input, as the end of each slice            *)

\* AbiDecoder::decode_parameters for transfer, in characters
TransferSlices(chars) == IF chars >= 74 THEN {34, 74, chars} ELSE {}

\* AbiDecoder::decode_input, decode_parameters and decode_generic_function
MempoolSlices(selector, chars) ==
  IF chars < 10 THEN {}
  ELSE {10} \cup (IF selector = "transfer" THEN TransferSlices(chars) ELSE {})

\* mev-core decode_function_simple, in bytes after the selector
CoreSlices(selector, len) ==
  CASE selector = "transfer" -> IF len >= 64 THEN {32, 64} ELSE {}
    [] selector \in {"swap", "swapExactTokensForTokens"}
         -> IF len >= 64 THEN {32, 64} ELSE {}
    [] OTHER -> IF len >= 32 THEN {32} ELSE {}

\* Bytes of a hex text with its prefix.
Bytes(chars) == IF chars < 2 THEN 0 ELSE (chars - 2) \div 2

\* mev-core decode_input, in bytes: nothing is decoded of a short input or of a
\* selector that is not in the map.
CoreDecode(selector, len) ==
  CASE len < 4 -> {}
    [] len >= 4 /\ selector \notin CoreSignatures -> {4}
    [] OTHER -> {4} \cup {4 + end : end \in CoreSlices(selector, len - 4)}

\* What parse_batch makes of a transaction, the decoded slices included.
VARIABLE parsed

ParseTransaction(raw) ==
  parsed' = [raw |-> raw, kept |-> ParseBatch(<<raw>>) # <<>>,
             target |-> TargetType(raw), interesting |-> Interesting(raw),
             mempool |-> MempoolSlices(raw.selector, raw.chars),
             core |-> CoreDecode(raw.selector, Bytes(raw.chars))]

RawTxs ==
  {[to |-> to, selector |-> s, chars |-> n, hash |-> h, from |-> TRUE] :
     to \in {Missing, "UniswapV2", "UniswapV3", "SushiSwap", "token"},
     s \in Selectors(PrecompiledAbis) \cup {"approve", CustomSelector},
     n \in InputLengths, h \in BOOLEAN}

ParserInit == parsed = [raw |-> Missing]
\* Transactions are parsed independently: one is followed.
ParserNext == parsed.raw = Missing /\ \E raw \in RawTxs : ParseTransaction(raw)

-----------------------------------------------------------------------------
(* The shared decoder                                                      *)

VARIABLES
  signature_cache,         \* selectors in the cache
  decoder_pool,            \* number of decoders in the pool
  decode,                  \* task |-> the step of its decode_function_call
  decoder_stats,           \* DecoderStats
  decodes                  \* number of calls, for the bound

decoderVars == <<signature_cache, decoder_pool, decode, decoder_stats, decodes>>

NoStats == [total_decodes |-> 0, successful_decodes |-> 0, cache_hits |-> 0,
            cache_misses |-> 0]

DecoderInit ==
  /\ signature_cache = Selectors(MevSignatures)
  /\ decoder_pool = 0 /\ decode = [t \in Decoding |-> "idle"]
  /\ decoder_stats = NoStats /\ decodes = 0

\* Less than a selector is no call; otherwise look it up.
LookUp(t, selector) ==
  /\ decode[t] = "idle" /\ decodes < MAX_DECODES /\ decodes' = decodes + 1
  /\ decode' = [decode EXCEPT ![t] =
       IF selector = Missing THEN "idle"
       ELSE IF selector \in signature_cache THEN "hit" ELSE "miss"]
  /\ UNCHANGED <<signature_cache, decoder_pool, decoder_stats>>

\* get_decoder_from_pool: an empty pool gives a new decoder.
GetDecoder(t) ==
  /\ decode[t] = "hit"
  /\ decoder_pool' = IF decoder_pool > 0 THEN decoder_pool - 1 ELSE 0
  /\ decode' = [decode EXCEPT ![t] = "decoding"]
  /\ UNCHANGED <<signature_cache, decoder_stats, decodes>>

\* Variant: the size was compared before the lock.
ReturnUnlimited(t) ==
  /\ decode[t] = "decoding"
  /\ decoder_pool' = decoder_pool + 1
  /\ \E ok \in BOOLEAN : decode' = [decode EXCEPT ![t] = IF ok THEN "ok" ELSE "error"]
  /\ UNCHANGED <<signature_cache, decoder_stats, decodes>>

\* decode_parameters and return_decoder_to_pool, also after an error.
ReturnDecoder(t) ==
  /\ decode[t] = "decoding"
  /\ decoder_pool' = IF decoder_pool < POOL_LIMIT THEN decoder_pool + 1
                     ELSE decoder_pool
  /\ \E ok \in BOOLEAN : decode' = [decode EXCEPT ![t] = IF ok THEN "ok" ELSE "error"]
  /\ UNCHANGED <<signature_cache, decoder_stats, decodes>>

\* record_decode, in one critical section.
RecordDecode(t) ==
  /\ decode[t] \in {"ok", "error", "miss"}
  /\ decoder_stats' = [decoder_stats EXCEPT
       !.total_decodes = @ + 1,
       !.successful_decodes = IF decode[t] = "ok" THEN @ + 1 ELSE @,
       !.cache_hits = IF decode[t] = "miss" THEN @ ELSE @ + 1,
       !.cache_misses = IF decode[t] = "miss" THEN @ + 1 ELSE @]
  /\ decode' = [decode EXCEPT ![t] = "idle"]
  /\ UNCHANGED <<signature_cache, decoder_pool, decodes>>

AddFunctionSignature ==
  /\ signature_cache' = signature_cache \cup {CustomSelector}
  /\ UNCHANGED <<decoder_pool, decode, decoder_stats, decodes>>

ResetDecoderStats ==
  /\ decoder_stats' = NoStats
  /\ UNCHANGED <<signature_cache, decoder_pool, decode, decodes>>

DecoderNext ==
  \/ \E t \in Decoding :
       \/ \E s \in {"transfer", CustomSelector, Missing} : LookUp(t, s)
       \/ GetDecoder(t) \/ ReturnDecoder(t) \/ RecordDecode(t)
  \/ AddFunctionSignature \/ ResetDecoderStats

-----------------------------------------------------------------------------
(* Properties                                                              *)

\* The pool keeps at most POOL_LIMIT decoders however many tasks found it empty
\* and return theirs at once, and a decoder that fails is returned as well
\* (return_decoder_to_pool compares and pushes under one lock).
PoolBounded ==
  /\ decoder_pool <= POOL_LIMIT
  /\ decoder_pool <= decodes

\* Through resets and signatures added in between, every recorded call is a hit
\* or a miss of its own lookup, and only hits succeed (record_decode).
DecodesAddUp ==
  /\ decoder_stats.total_decodes = decoder_stats.cache_hits + decoder_stats.cache_misses
  /\ decoder_stats.successful_decodes <= decoder_stats.cache_hits

\* Whatever the length of the calldata, a decoder slices within it: the guards
\* on the lengths are the ones the slices need (decode_parameters in characters,
\* decode_function_simple in bytes).
SlicesInBounds ==
  parsed.raw # Missing =>
    /\ \A end \in parsed.mempool : end <= parsed.raw.chars
    /\ \A end \in parsed.core : end <= Bytes(parsed.raw.chars)

\* With calldata, whatever is sent to a known router is interesting; sent
\* elsewhere, it is interesting exactly when its selector is in the table, a
\* plain token transfer too (determine_target_type, is_interesting_transaction).
RoutersInteresting ==
  parsed.raw # Missing /\ parsed.raw.to # Missing /\ parsed.raw.chars >= 10 =>
    (parsed.interesting <=> \/ parsed.raw.to \in RouterTypes
                            \/ parsed.raw.selector \in Selectors(PrecompiledAbis))

\* The decoders share a bounded pool and their statistics, read no byte that
\* is not there, and let every call to a known router through
\* (decode_function_call, return_decoder_to_pool, determine_target_type).
DecodersSafe ==
  /\ PoolBounded
  /\ DecodesAddUp
  /\ SlicesInBounds
  /\ RoutersInteresting
=============================================================================
