------------------------- MODULE MCFlusherDelegator -------------------------
(* One response: the handler chooses between 200 and 404 and makes up to   *)
(* five calls, enough for WriteHeader, Flushes and Writes in every order;  *)
(* a Write passes 0 to 2 bytes and may be cut short.                       *)
EXTENDS FlusherDelegator

MCCodes == {200, 404}
MCMaxCalls == 5
MCMaxLen == 2
=============================================================================
