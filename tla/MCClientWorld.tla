---------------------------- MODULE MCClientWorld ----------------------------
(* Three chunks of one voxel: one, the one beside it and the one over that. *)
EXTENDS ClientWorld

here == <<0, 0, 0>>
beside == <<1, 0, 0>>
over == <<1, 1, 0>>

MCCoords == {here, beside, over}
MCArrival == {here}
MCSupport == here
=============================================================================
