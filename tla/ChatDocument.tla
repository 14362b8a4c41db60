---------------------------- MODULE ChatDocument ----------------------------
(***************************************************************************)
(* What every adapter makes of a session, as a reader of the block log     *)
(* sees it: a document that grows at its end only.  At most one block is   *)
(* open, the last; text is only added to it; a block once closed never     *)
(* changes and never goes away.                                            *)
(***************************************************************************)
EXTENDS Integers, Sequences

CONSTANTS Kind, Chunk

VARIABLE doc    \* sequence of [kind, text, complete]

Last == doc[Len(doc)]

Init == doc = <<>>

Open(kind) ==
  /\ doc # <<>> => Last.complete
  /\ doc' = Append(doc, [kind |-> kind, text |-> <<>>, complete |-> FALSE])

Extend(chunk) ==
  /\ doc # <<>> /\ ~Last.complete
  /\ doc' = [doc EXCEPT ![Len(doc)].text = Append(@, chunk)]

Close ==
  /\ doc # <<>> /\ ~Last.complete
  /\ doc' = [doc EXCEPT ![Len(doc)].complete = TRUE]

Next ==
  \/ \E kind \in Kind : Open(kind)
  \/ \E chunk \in Chunk : Extend(chunk)
  \/ Close

Spec == Init /\ [][Next]_doc
=============================================================================
