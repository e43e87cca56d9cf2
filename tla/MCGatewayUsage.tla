---------------------------- MODULE MCGatewayUsage ----------------------------
(* Command lines of up to five arguments: a flag with its separate value, *)
(* a second use of it with a value, and another argument before, between  *)
(* or after them.                                                          *)
EXTENDS GatewayUsage

MCMaxArgs == 5
====
