---------------------------- MODULE MCBlockReplay ----------------------------
(* Small instances of BlockReplay. *)
EXTENDS BlockReplay

CONSTANT chunk

MCText == {chunk}
MCOption == {0}
MCKinds == {"Markdown", "Menu", "Input"}
MCOneKind == {"Markdown"}
=============================================================================
