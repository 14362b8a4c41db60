------------------------------ MODULE MCClient ------------------------------
(* Small instances of Client.                                              *)
EXTENDS Client, TLC

Flags(skip, mrtds, tcb) ==
  [insecure_skip_quote_verify |-> skip, expected_mrtd |-> mrtds, expected_tcb |-> tcb]

MCArgs == {Flags(TRUE, {"aa"}, ""), Flags(FALSE, {""}, "UpToDate"),
           Flags(FALSE, {"AA", ""}, "UpToDate")}

Symmetry == Permutations(Process)
=============================================================================
