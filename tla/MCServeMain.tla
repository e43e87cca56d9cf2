----------------------------- MODULE MCServeMain -----------------------------
(* Both commands, the linksharing one with and without a geolocation       *)
(* database, or the gateway alone.                                          *)
EXTENDS ServeMain

MCBoth == {"gateway", "linksharing"}
MCGateway == {"gateway"}
====
