--------------------------- MODULE MCClientSession ---------------------------
(* Every launch, and one connection after another. *)
EXTENDS ClientSession

MCLaunches == {"list", "server", "account"}
=============================================================================
