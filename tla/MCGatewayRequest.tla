--------------------------- MODULE MCGatewayRequest ---------------------------
(* One request on each wrapper method.  A delegated handler chooses 200 or *)
(* 404 and makes up to five calls, enough for WriteHeader, Flushes and     *)
(* Writes in every order; a Write passes 0 to 2 bytes and may be cut short.*)
(* 501 is the code of the NotImplemented answer.                           *)
EXTENDS GatewayRequest

MCCodes == {200, 404, 501}
MCMaxCalls == 5
MCMaxLen == 2
=============================================================================
