---------------------------- MODULE MCSessionUi ----------------------------
(* Small instances of SessionUi: a message carries the numbers of its keys. *)
EXTENDS SessionUi

MCByte == UNION {[1 .. n -> 1 .. MaxKeys] : n \in 0 .. MaxKeys}
=============================================================================
