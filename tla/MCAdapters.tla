----------------------------- MODULE MCAdapters -----------------------------
(* Small instances of Adapters: a line's text is its number. *)
EXTENDS Adapters

MCText == 1 .. FloorMax
MCOption == {}
=============================================================================
