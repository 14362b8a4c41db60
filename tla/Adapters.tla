------------------------------- MODULE Adapters -------------------------------
(***************************************************************************)
(* A session's adapter over the engine's log: the frontend picks one of    *)
(* the two when it attaches (session_ui.rs, run), and from then on nothing *)
(* else writes the log.  The two share no state of their own.              *)
(***************************************************************************)
EXTENDS BlockSink

CONSTANTS FloorMax,     \* bound on the lines of plain output
          JsonMax,      \* bound on the items of stream-json
          ContentMax    \* bound on the items of one message

(* The text of a line, or an item, is a chunk of text: its number.         *)
ASSUME LinesAssumption ==
  /\ FloorMax \in Nat /\ JsonMax \in Nat /\ ContentMax \in Nat
  /\ 1 .. FloorMax \cup 1 .. JsonMax \subseteq Text

VARIABLES adapter,                      \* "floor" or "claude"
          in_code, in_diff, current,    \* FloorAdapter's
          buf, content, text_block,     \* ClaudeCodeAdapter's
          flushed, fed                  \* of the one picked

floor == <<in_code, in_diff, current>>
claude == <<buf, content, text_block>>
vars == <<sink, adapter, floor, claude, flushed, fed>>

Floor == INSTANCE FloorAdapter WITH MaxLines <- FloorMax
Claude == INSTANCE ClaudeCodeAdapter WITH MaxItems <- JsonMax, MaxContent <- ContentMax

(* Anything but "claude" and "claude-code" means the floor.                *)
Init ==
  /\ adapter \in {"floor", "claude"}
  /\ Floor!Init /\ Claude!Init

Next ==
  \/ adapter = "floor" /\ Floor!Next /\ UNCHANGED <<adapter, claude>>
  \/ adapter = "claude" /\ Claude!Next /\ UNCHANGED <<adapter, floor>>

Spec == Init /\ [][Next]_vars

-----------------------------------------------------------------------------
(* Whichever adapter was picked, a reader sees, between any two calls, a   *)
(* document that grows at its end only: "a block is complete; no more      *)
(* edits" (block.rs:151-152).                                              *)
ImplementsChat == Chat!Spec

(* Between two lines the floor's `current` is exactly the open block, the  *)
(* last one, of the kind recorded (floor.rs:56-68, 90-106, 120-126).       *)
CurrentIsOpen == adapter = "floor" => Floor!CurrentIsOpen

(* The floor loses, doubles and moves no line (floor.rs:79-129).           *)
NothingLost == adapter = "floor" => Floor!NothingLost

(* Every line is in a block of the kind that all the lines before it       *)
(* determine (floor.rs:85-129).                                            *)
LinesRouted == adapter = "floor" => Floor!LinesRouted

(* The floor never splits prose (floor.rs:58-68).                          *)
ProseInOneBlock == adapter = "floor" => Floor!ProseInOneBlock

(* Between two items the Claude adapter's open text block is the log's     *)
(* only open block, and at the end there is none: no tool output leaves    *)
(* one open (claude_code.rs:37-78, 160).                                   *)
TextBlockIsOpen == adapter = "claude" => Claude!TextBlockIsOpen

(* Its blocks show the items of the stream in order, a tool's input or     *)
(* output in a block by itself (claude_code.rs:55-121).                    *)
InOrder == adapter = "claude" => Claude!InOrder

(* Every item that has something to show, and every line that cannot be    *)
(* parsed, is shown, each part in a block of its kind, as soon as its      *)
(* newline has come; an event without a newline is at the end              *)
(* (claude_code.rs:63-161).                                                *)
ItemsShown == adapter = "claude" => Claude!ItemsShown
=============================================================================
