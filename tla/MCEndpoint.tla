----------------------------- MODULE MCEndpoint -----------------------------
(* Model-checking instances of Endpoint.                                   *)
EXTENDS Endpoint

TwoServers == {0, 1}
OneServer == {0}
TheOthers == 1 .. NProcs - 1   \* the second server is a client too
=============================================================================
