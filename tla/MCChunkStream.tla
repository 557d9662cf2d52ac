---------------------------- MODULE MCChunkStream ----------------------------
(* Two chunks: here sees both, beyond only the far one. *)
EXTENDS ChunkStream

CONSTANTS near, far, here, beyond, air, stone, swimmer

MCNearest == here :> <<near, far>> @@ beyond :> <<far>>
MCPristine == <<air, stone>>
=============================================================================
