---------------------------- MODULE MCPyWsClient ----------------------------
(* Model values of the instances of PyWsClient that TLC checks.            *)
EXTENDS PyWsClient

CONSTANTS k1, h1, x1, acc, tick, book

AutoSubscribed == <<acc, tick>>
OneTopic == <<acc>>
=============================================================================
