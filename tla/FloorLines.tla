------------------------------ MODULE FloorLines ------------------------------
(***************************************************************************)
(* How the floor adapter turns output bytes into lines (derive/floor.rs,   *)
(* feed and flush): escape sequences are dropped, a carriage return lets   *)
(* what follows rewrite the line, a backspace removes the last byte.       *)
(*                                                                         *)
(* All state outlives a call of feed, so that frames do not show: bytes    *)
(* come one by one.  A byte is represented by its class, and kept in a     *)
(* line as its position in the output:                                     *)
(*   "esc" "nl" "cr" "bs" "tab"   these control bytes                      *)
(*   "bel"                        BEL; outside an escape sequence, any     *)
(*                                other control byte                       *)
(*   "[" "]"                      these brackets                           *)
(*   "letter"                     any other byte that ends a CSI sequence  *)
(*   "digit"                      any other byte                           *)
(***************************************************************************)
EXTENDS Integers, SequencesExt, FiniteSetsExt

CONSTANT MaxOutput      \* bound on the number of bytes

VARIABLES ansi,         \* where in an escape sequence the output is
          line,         \* the line under construction
          pending_cr,   \* a carriage return has not been acted on
          lines,        \* the lines given to emit_line
          ended,        \* flush has been called
          bytes         \* auxiliary: the output so far

machine == <<ansi, line, pending_cr, lines, ended, bytes>>

Final == {"[", "]", "letter"}       \* 0x40 to 0x7e
Printed == Final \cup {"digit", "tab"}
Class == Printed \cup {"esc", "nl", "cr", "bs", "bel"}

LinesInit ==
  /\ ansi = "Normal"
  /\ line = <<>>
  /\ pending_cr = FALSE
  /\ lines = <<>>
  /\ ended = FALSE
  /\ bytes = <<>>

-----------------------------------------------------------------------------
Output(b) ==
  /\ ~ended
  /\ Len(bytes) < MaxOutput
  /\ bytes' = Append(bytes, b)
  /\ UNCHANGED ended

NextAnsi(b) ==
  CASE ansi = "Esc" /\ b = "[" -> "Csi"
    [] ansi = "Esc" /\ b = "]" -> "Osc"
    [] ansi = "Csi" /\ b \notin Final -> "Csi"
    [] ansi = "Osc" /\ b \notin {"bel", "esc"} -> "Osc"
    [] ansi = "Osc" /\ b = "esc" -> "OscEsc"
    [] OTHER -> "Normal"

(* Inside an escape sequence every byte is dropped. *)
InEscape(b) ==
  /\ Output(b)
  /\ ansi # "Normal"
  /\ ansi' = NextAnsi(b)
  /\ UNCHANGED <<line, pending_cr, lines>>

Visible(b) ==
  /\ Output(b)
  /\ ansi = "Normal"
  /\ UNCHANGED ansi

StartEscape ==
  /\ Output("esc")
  /\ ansi = "Normal"
  /\ ansi' = "Esc"
  /\ UNCHANGED <<line, pending_cr, lines>>

Newline ==
  /\ Visible("nl")
  /\ pending_cr' = FALSE
  /\ lines' = Append(lines, line)
  /\ line' = <<>>

CarriageReturn ==
  /\ Visible("cr")
  /\ pending_cr' = TRUE
  /\ UNCHANGED <<line, lines>>

(* rewrite_if_pending_cr: what is left of the line for what comes. *)
Rewritten == IF pending_cr THEN <<>> ELSE line

Backspace_IgnoresCr ==
  /\ Visible("bs")
  /\ line' = IF line = <<>> THEN <<>> ELSE Front(line)
  /\ UNCHANGED <<pending_cr, lines>>

Backspace ==
  /\ Visible("bs")
  /\ line' = IF Rewritten = <<>> THEN <<>> ELSE Front(Rewritten)
  /\ pending_cr' = FALSE
  /\ UNCHANGED lines

PutByte(b) ==
  /\ Visible(b)
  /\ line' = Append(Rewritten, Len(bytes'))
  /\ pending_cr' = FALSE
  /\ UNCHANGED lines

OtherControl ==
  /\ Visible("bel")
  /\ UNCHANGED <<line, pending_cr, lines>>

(* The output has ended. *)
Flush ==
  /\ ~ended
  /\ ended' = TRUE
  /\ lines' = IF line = <<>> THEN lines ELSE Append(lines, line)
  /\ line' = <<>>
  /\ UNCHANGED <<ansi, pending_cr, bytes>>

LinesNext ==
  \/ \E b \in Class : InEscape(b)
  \/ StartEscape \/ Newline \/ CarriageReturn \/ Backspace \/ OtherControl
  \/ \E b \in Printed : PutByte(b)
  \/ Flush

LinesSpec == LinesInit /\ [][LinesNext]_machine

-----------------------------------------------------------------------------
(***************************************************************************)
(* The definition, over the whole output t.                                *)
(***************************************************************************)
(* Where what ends at the first of these positions does end; at the byte   *)
(* still to come if there is none.                                         *)
FirstOf(t, ends) == IF ends = {} THEN Len(t) + 1 ELSE Min(ends)

(* The last position of the escape sequence that starts at i. *)
EscapeEnd(t, i) ==
  CASE i = Len(t) -> Len(t) + 1
    [] i < Len(t) /\ t[i + 1] = "[" -> FirstOf(t, {j \in i + 2 .. Len(t) : t[j] \in Final})
    [] i < Len(t) /\ t[i + 1] = "]" ->
         FirstOf(t, {j \in i + 2 .. Len(t) : t[j] = "bel"}
                      \cup {j + 1 : j \in {k \in i + 2 .. Len(t) : t[k] = "esc"}})
    [] OTHER -> i + 1

(* The end of the sequence a position is part of, or 0. *)
Covers(t) ==
  LET end[k \in 0 .. Len(t)] ==
        IF k = 0 THEN 0
        ELSE IF end[k - 1] >= k THEN end[k - 1]
        ELSE IF t[k] = "esc" THEN EscapeEnd(t, k) ELSE 0
  IN end

At(t, class) == LET end == Covers(t) IN {k \in 1 .. Len(t) : end[k] = 0 /\ t[k] \in class}

Newlines(t) == At(t, {"nl"})

(* The positions of S on the line that so many newlines precede.           *)
Row(t, S, before) == {k \in S : Cardinality({j \in Newlines(t) : j < k}) = before}

Between(S, k, j) == Cardinality({i \in S : k < i /\ i =< j})

(* The bytes shown of a line of n bytes with this text: those after the    *)
(* last carriage return that something follows, without those that a       *)
(* backspace takes back.                                                   *)
Kept(text, backspaces, returns, n) ==
  {k \in text :
     /\ \A c \in returns : (\E m \in text \cup backspaces : m > c) => c < k
     /\ \A j \in k .. n : Between(backspaces, k, j) =< Between(text, k, j)}

Ascending(S) ==
  [i \in 1 .. Cardinality(S) |-> CHOOSE k \in S : Cardinality({j \in S : j =< k}) = i]

Shown(t, before) ==
  Ascending(Kept(Row(t, At(t, Printed), before), Row(t, At(t, {"bs"}), before),
                 Row(t, At(t, {"cr"}), before), Len(t)))

-----------------------------------------------------------------------------
(* Each line, and the one not yet ended, is what the whole output defines  *)
(* it to be, however rewrites, backspaces and escape sequences mix         *)
(* (floor.rs:71-76, 145-185).                                              *)
LinesExact ==
  LET count == Cardinality(Newlines(bytes))
      complete == [i \in 1 .. count |-> Shown(bytes, i - 1)]
      last == Shown(bytes, count)
  IN lines \o (IF ended \/ line = <<>> THEN <<>> ELSE <<line>>)
       = complete \o (IF last = <<>> THEN <<>> ELSE <<last>>)
=============================================================================
