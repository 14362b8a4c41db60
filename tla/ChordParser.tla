----------------------------- MODULE ChordParser -----------------------------
(***************************************************************************)
(* The Raw mode's parser of escape chords (input.rs).  Ctrl-] is a prefix: *)
(* Ctrl-] Tab leaves Raw, Ctrl-] Ctrl-] and Ctrl-] d detach; Ctrl-D sends  *)
(* EOF and stops; the rest is forwarded.  A read may end between the two   *)
(* bytes of a chord: the parser's only state, `armed`, outlives the read.  *)
(*                                                                         *)
(* A byte is a record whose field `key` says what it is; the callers add   *)
(* where it comes from.  `armed` holds the Ctrl-] that is held back, as a  *)
(* sequence of one byte, or is empty.                                      *)
(***************************************************************************)
EXTENDS Integers, SequencesExt

CONSTANT Key            \* classes of keys the user types

CtrlRightBracket == "ctrl_]"
CtrlD == "ctrl_d"
TabKey == "tab"

Forward(bytes) == [type |-> "Forward", bytes |-> bytes]
ForwardThenStop(bytes) == [type |-> "ForwardThenStop", bytes |-> bytes]
ExitToStructured == [type |-> "ExitToStructured"]
Detach == [type |-> "Detach"]

(* The parser in the middle of a read. *)
Parser(armed, pending, actions) ==
  [armed |-> armed, pending |-> pending, actions |-> actions]

FlushPending(p) ==
  IF p.pending = <<>> THEN p
  ELSE Parser(p.armed, <<>>, Append(p.actions, Forward(p.pending)))

Push(p, action) ==
  LET flushed == FlushPending(p)
  IN Parser(flushed.armed, flushed.pending, Append(flushed.actions, action))

ConsumePlain(p, b) ==
  CASE b.key = CtrlRightBracket -> Parser(<<b>>, p.pending, p.actions)
    [] b.key = CtrlD -> Push(p, ForwardThenStop(<<b>>))
    [] OTHER -> Parser(p.armed, Append(p.pending, b), p.actions)

ConsumeArmed_Swallows(p, b) ==
  LET disarmed == Parser(<<>>, p.pending, p.actions)
  IN CASE b.key = TabKey -> Push(disarmed, ExitToStructured)
       [] b.key \in {CtrlRightBracket, "d"} -> Push(disarmed, Detach)
       [] OTHER -> ConsumePlain(disarmed, b)

ConsumeArmed_BracketLast(p, b) ==
  LET disarmed == Parser(<<>>, p.pending, p.actions)
  IN CASE b.key = TabKey -> Push(disarmed, ExitToStructured)
       [] b.key \in {CtrlRightBracket, "d"} -> Push(disarmed, Detach)
       [] OTHER -> LET plain == ConsumePlain(disarmed, b)
                   IN Parser(plain.armed, plain.pending \o p.armed, plain.actions)

(* What is no chord was literal input, the Ctrl-] included.                *)
ConsumeArmed(p, b) ==
  LET disarmed == Parser(<<>>, p.pending, p.actions)
  IN CASE b.key = TabKey -> Push(disarmed, ExitToStructured)
       [] b.key \in {CtrlRightBracket, "d"} -> Push(disarmed, Detach)
       [] OTHER -> ConsumePlain(Parser(<<>>, p.pending \o p.armed, p.actions), b)

ConsumeByte(p, b) == IF p.armed # <<>> THEN ConsumeArmed(p, b) ELSE ConsumePlain(p, b)

Feed(armed, bytes) ==
  FlushPending(FoldLeft(ConsumeByte, Parser(armed, <<>>, <<>>), bytes))
=============================================================================
