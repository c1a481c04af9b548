-------------------------------- MODULE Rpc --------------------------------
(***************************************************************************)
(* What Endpoint RPC promises, without rings, capabilities or reply slots  *)
(* (platform/abi/bmo-abi/src/ENDPOINT_RPC.md, obj/endpoint.rs): a call     *)
(* that is accepted waits in line, is delivered once and in order, and is  *)
(* answered at most once; a caller has one call outstanding; closing an    *)
(* endpoint empties its line.                                              *)
(***************************************************************************)
EXTENDS Naturals, Sequences

CONSTANTS Endpoints, Callers, LineMax

VARIABLES
  open,      \* endpoints that have a server
  line,      \* calls accepted and not yet delivered, oldest first
  serving    \* callers whose call was delivered and not yet answered

vars == <<open, line, serving>>

InLine(c) == \E e \in Endpoints : \E k \in 1 .. Len(line[e]) : line[e][k] = c

Init ==
  /\ open = {}
  /\ line = [e \in Endpoints |-> << >>]
  /\ serving = {}

Open(e) ==
  /\ e \notin open
  /\ open' = open \cup {e}
  /\ UNCHANGED <<line, serving>>

Enter(e, c) ==
  /\ e \in open
  /\ Len(line[e]) < LineMax
  /\ c \notin serving /\ ~InLine(c)
  /\ line' = [line EXCEPT ![e] = Append(@, c)]
  /\ UNCHANGED <<open, serving>>

Deliver(e) ==
  /\ line[e] # << >>
  /\ line' = [line EXCEPT ![e] = Tail(@)]
  /\ serving' = serving \cup {Head(line[e])}
  /\ UNCHANGED open

\* The server has no room for a reply capability: the call is refused.
Refuse(e) ==
  /\ line[e] # << >>
  /\ line' = [line EXCEPT ![e] = Tail(@)]
  /\ UNCHANGED <<open, serving>>

Answer(c) ==
  /\ c \in serving
  /\ serving' = serving \ {c}
  /\ UNCHANGED <<open, line>>

Close(S) ==
  /\ open' = open \ S
  /\ line' = [e \in Endpoints |-> IF e \in S THEN << >> ELSE line[e]]
  /\ UNCHANGED serving

Next ==
  \/ \E e \in Endpoints : Open(e) \/ Deliver(e) \/ Refuse(e)
  \/ \E e \in Endpoints, c \in Callers : Enter(e, c)
  \/ \E c \in Callers : Answer(c)
  \/ \E S \in SUBSET open : Close(S)

Spec == Init /\ [][Next]_vars
=============================================================================
