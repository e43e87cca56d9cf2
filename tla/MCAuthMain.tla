------------------------------ MODULE MCAuthMain ------------------------------
(* Every configuration: with and without the migration, with a KV that     *)
(* does or does not implement MigrateToLatest.                             *)
EXTENDS AuthMain
====
