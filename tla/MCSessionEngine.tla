--------------------------- MODULE MCSessionEngine ---------------------------
(* Small instances of SessionEngine. *)
EXTENDS SessionEngine

CONSTANTS r1, r2

MCReader == {r1, r2}
MCOneReader == {r1}
=============================================================================
