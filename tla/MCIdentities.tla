---------------------------- MODULE MCIdentities ----------------------------
(* Identities on a small instance: one account with two characters. *)
EXTENDS Identities

CONSTANTS c1, c2
=============================================================================
