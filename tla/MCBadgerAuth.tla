---------------------------- MODULE MCBadgerAuth ----------------------------
(* Model-checking instance of BadgerAuth: three nodes, so that an admin    *)
(* entry can reach a node before the Put it targets; one KeyHash; two      *)
(* reasons, so that concurrent invalidations can disagree.                 *)
EXTENDS BadgerAuth

CONSTANTS k1, r1, r2

MCNode == {1, 2, 3}
MCNodeTwo == {1, 2}
MCKey == {k1}
MCReason == {r1, r2}
MCReasonOne == {r1}
=============================================================================
