------------------------------ MODULE Document ------------------------------
(***************************************************************************)
(* What a session engine promises its renderers, whatever locks, broadcast *)
(* channel and lag lie in between: a renderer that joins gets a version of *)
(* the document that existed, afterwards its version never goes back, and  *)
(* as long as it stays it is brought up to date again.  Versions of the    *)
(* document are numbers: the count of edits made.                          *)
(***************************************************************************)
EXTENDS Integers

CONSTANT Reader

VARIABLES doc,    \* the current version
          seen    \* the version each renderer holds, or Absent

Absent == -1

Init ==
  /\ doc = 0
  /\ seen = [r \in Reader |-> Absent]

Edit ==
  /\ doc' = doc + 1
  /\ UNCHANGED seen

(* A renderer joins, or catches up, with the current version. *)
Refresh(r) ==
  /\ seen[r] # doc
  /\ seen' = [seen EXCEPT ![r] = doc]
  /\ UNCHANGED doc

Leave(r) ==
  /\ seen[r] # Absent
  /\ seen' = [seen EXCEPT ![r] = Absent]
  /\ UNCHANGED doc

Next == Edit \/ \E r \in Reader : Refresh(r) \/ Leave(r)

CatchUp(r) == seen[r] # Absent /\ Refresh(r)

SafeSpec == Init /\ [][Next]_<<doc, seen>>

Spec ==
  /\ SafeSpec
  /\ \A r \in Reader : WF_<<doc, seen>>(CatchUp(r))
=============================================================================
