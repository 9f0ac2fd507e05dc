-------------------------------- MODULE Bff --------------------------------
(***************************************************************************)
(* The two edges of one BFF process: HTTP (BffHttp, with Microservices     *)
(* behind it) and websockets (RealtimeGateway). main.ts starts both; they  *)
(* share no state, so a behaviour is about one of them.                    *)
(***************************************************************************)
EXTENDS BffHttp, RealtimeGateway

VARIABLE edge  \* what the behaviour is about

bffVars == <<edge, httpVars, gatewayVars>>

BffInit ==
  /\ HttpInit /\ GatewayInit
  /\ edge \in {"http", "websocket"}
  /\ edge = "websocket" => serving = {}

BffNext ==
  /\ UNCHANGED edge
  /\ \/ edge = "http" /\ HttpNext /\ UNCHANGED gatewayVars
     \/ edge = "websocket" /\ GatewayNext /\ UNCHANGED httpVars

BffSpec == BffInit /\ [][BffNext]_bffVars
=============================================================================
