---------------------------- MODULE MCWsService ----------------------------
(***************************************************************************)
(* Instances of WsService for TLC.                                         *)
(***************************************************************************)
EXTENDS WsService

CONSTANTS service, BTC

OneService == {service}

\* One coin with its order book
TradesAndBook == {<<BTC, "trades">>, <<BTC, "l2Book">>}
=============================================================================
