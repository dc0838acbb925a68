-------------------------- MODULE MCServiceManager --------------------------
(***************************************************************************)
(* Instances of ServiceManager for TLC.                                    *)
(***************************************************************************)
EXTENDS ServiceManager

CONSTANTS first, second, BTC

OneStart == {first}
TwoStarts == {first, second}
TradesOnly == {<<BTC, "trades">>}
=============================================================================
