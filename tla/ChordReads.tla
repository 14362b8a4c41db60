----------------------------- MODULE ChordReads -----------------------------
(***************************************************************************)
(* ChordParser against its definition: bytes arrive in reads of any size.  *)
(***************************************************************************)
EXTENDS ChordParser

CONSTANT MaxBytes     \* bound on the number of bytes typed

ASSUME MaxBytesAssumption == MaxBytes \in Nat

VARIABLES prefix,     \* the parser's state between two reads, its `armed`
          input,      \* auxiliary: all bytes read
          obeyed      \* auxiliary: all actions returned

reads == <<prefix, input, obeyed>>

ReadsInit ==
  /\ prefix = <<>>
  /\ input = <<>>
  /\ obeyed = <<>>

Read(bytes) ==
  LET p == Feed(prefix, bytes)
  IN /\ prefix' = p.armed
     /\ obeyed' = obeyed \o p.actions
     /\ input' = input \o bytes

ReadsNext ==
  \E n \in 1 .. MaxBytes - Len(input) : \E k \in [1 .. n -> Key] :
    Read([i \in 1 .. n |-> [key |-> k[i], at |-> Len(input) + i]])

ReadsSpec == ReadsInit /\ [][ReadsNext]_reads

-----------------------------------------------------------------------------
(* The definition, without a state, over the bytes t: a byte is the second *)
(* of a chord when an odd number of Ctrl-] comes right before it and it    *)
(* completes one.                                                          *)
IsBracket(t, i) == t[i].key = CtrlRightBracket

IsRun(t, i, n) ==
  /\ \A j \in i - n .. i - 1 : IsBracket(t, j)
  /\ n < i - 1 => ~IsBracket(t, i - n - 1)

Brackets(t, i) == CHOOSE n \in 0 .. i - 1 : IsRun(t, i, n)

Prefixed(t, i) == Brackets(t, i) % 2 = 1
EndsChord(t, i) == Prefixed(t, i) /\ t[i].key \in {TabKey, CtrlRightBracket, "d"}

Effect(t, i) ==
  CASE EndsChord(t, i) -> <<IF t[i].key = TabKey THEN "leave" ELSE "detach">>
    [] ~EndsChord(t, i) /\ IsBracket(t, i) -> <<>>
    [] ~EndsChord(t, i) /\ ~IsBracket(t, i) ->
         (IF Prefixed(t, i) THEN <<i - 1, i>> ELSE <<i>>)
           \o (IF t[i].key = CtrlD THEN <<"stop">> ELSE <<>>)

(* What the first n bytes ask for.                                         *)
Meaning(t, n) == FlattenSeq([i \in 1 .. n |-> Effect(t, i)])

Positions(bytes) == [i \in 1 .. Len(bytes) |-> bytes[i].at]

Effects(action) ==
  CASE action.type = "Forward" -> Positions(action.bytes)
    [] action.type = "ForwardThenStop" -> Append(Positions(action.bytes), "stop")
    [] action.type = "ExitToStructured" -> <<"leave">>
    [] action.type = "Detach" -> <<"detach">>

(* What the actions do.                                                    *)
Doing(actions) == FlattenSeq([i \in 1 .. Len(actions) |-> Effects(actions[i])])

(* "Everything else is forwarded verbatim" (input.rs:3-6): whatever the    *)
(* sizes of the reads, the bytes forwarded and the chords obeyed are those *)
(* the whole input defines, in its order; only a Ctrl-] that ends the      *)
(* input so far is held back.                                              *)
Verbatim == Doing(obeyed) = Meaning(input, Len(input))
=============================================================================
