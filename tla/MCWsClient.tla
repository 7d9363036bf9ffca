------------------------------ MODULE MCWsClient ------------------------------
(* Small instances of WsClient for TLC.                                    *)
EXTENDS WsClient

CONSTANT m1
=============================================================================
