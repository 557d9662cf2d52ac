--------------------------- MODULE MCPlayerTrade ---------------------------
(* PlayerTrade on a small instance: one-slot packs, so that a player can     *)
(* only receive into what is given, something lying between them to pick up, *)
(* and a coin that fills a purse.                                            *)
EXTENDS PlayerTrade

CONSTANTS ana, bo, sword, shield

MCPacks0 == [p \in Players |-> [s \in Slots |-> IF p = ana THEN sword ELSE Empty]]
MCPurses0 == [p \in Players |-> IF p = ana THEN 0 ELSE 1]
=============================================================================
