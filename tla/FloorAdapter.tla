----------------------------- MODULE FloorAdapter -----------------------------
(***************************************************************************)
(* The floor adapter's grouping of output lines into blocks (derive/       *)
(* floor.rs, emit_line and what it calls).  A line arrives whole: how      *)
(* bytes become lines is in FloorLines.                                    *)
(*                                                                         *)
(* A line is the number of its arrival together with its class, which is   *)
(* all emit_line looks at:                                                 *)
(*   "fence"   its text starts, after blanks, with three backquotes        *)
(*   "hunk"    it starts a diff ("@@ " after blanks, or "diff --git ") and *)
(*             its first byte is that of a diff line                       *)
(*   "strange" "@@ " after blanks whose first byte is not a diff line's    *)
(*             (trim_start also skips blanks outside ASCII)                *)
(*   "diff"    its first byte is one of + - space @ \                      *)
(*   "plain"   anything else                                               *)
(***************************************************************************)
EXTENDS BlockSink, FiniteSets

CONSTANT MaxLines      \* bound on the number of lines

VARIABLES in_code, in_diff,
          current,      \* the open block, or NoBlock
          flushed,      \* flush has been called
          fed           \* auxiliary: the classes of the lines so far

adapter == <<in_code, in_diff, current, flushed, fed>>
vars == <<sink, adapter>>

Class == {"fence", "hunk", "strange", "diff", "plain"}
StartsDiff == {"hunk", "strange"}
IsDiffLine == {"hunk", "diff"}

NoBlock == [id |-> -1, kind |-> "None"]
OpenBlock(id, kind) == [id |-> id, kind |-> kind]

Init ==
  /\ SinkInit
  /\ in_code = FALSE
  /\ in_diff = FALSE
  /\ current = NoBlock
  /\ flushed = FALSE
  /\ fed = <<>>

-----------------------------------------------------------------------------
CloseCalls(open) == IF open = NoBlock THEN <<>> ELSE <<FinalizeCall(open.id)>>

(* ensure: keep the open block if it is of this kind, else replace it.     *)
EnsureCalls(open, kind) ==
  IF open # NoBlock /\ open.kind = kind THEN <<>>
  ELSE CloseCalls(open) \o <<AppendCall(kind)>>

Ensured(open, kind) ==
  IF open # NoBlock /\ open.kind = kind THEN open ELSE OpenBlock(log.next_id, kind)

(* The state of the adapter when append_line returns; `before` are the     *)
(* calls made earlier for the same line and `open` the block they leave.   *)
AppendLine(before, open, kind) ==
  /\ current' = Ensured(open, kind)
  /\ todo' = before \o EnsureCalls(open, kind)
                   \o <<TextCall(Ensured(open, kind).id, Len(fed) + 1)>>

(* A newline has completed a line of class c.                              *)
Line(c) ==
  /\ Idle /\ ~flushed
  /\ Len(fed) < MaxLines
  /\ fed' = Append(fed, c)
  /\ UNCHANGED <<log, flushed>>

CloseFence_LeavesOpen ==
  /\ Line("fence")
  /\ in_code
  /\ in_code' = FALSE
  /\ todo' = <<>>
  /\ current' = NoBlock
  /\ UNCHANGED in_diff

CloseFence ==
  /\ Line("fence")
  /\ in_code
  /\ in_code' = FALSE
  /\ todo' = CloseCalls(current)
  /\ current' = NoBlock
  /\ UNCHANGED in_diff

OpenFence_KeepsPrevious ==
  /\ Line("fence")
  /\ ~in_code
  /\ in_code' = TRUE
  /\ todo' = <<AppendCall("Code")>>
  /\ current' = OpenBlock(log.next_id, "Code")
  /\ UNCHANGED in_diff

OpenFence ==
  /\ Line("fence")
  /\ ~in_code
  /\ in_code' = TRUE
  /\ todo' = CloseCalls(current) \o <<AppendCall("Code")>>
  /\ current' = OpenBlock(log.next_id, "Code")
  /\ UNCHANGED in_diff

CodeLine(c) ==
  /\ Line(c)
  /\ in_code
  /\ AppendLine(<<>>, current, "Code")
  /\ UNCHANGED <<in_code, in_diff>>

DiffLine(c) ==
  /\ Line(c)
  /\ ~in_code
  /\ in_diff \/ c \in StartsDiff
  /\ c \in IsDiffLine
  /\ in_diff' = TRUE
  /\ AppendLine(<<>>, current, "Diff")
  /\ UNCHANGED in_code

EndDiffLine_DropsLine(c) ==
  /\ Line(c)
  /\ ~in_code
  /\ in_diff \/ c \in StartsDiff
  /\ c \notin IsDiffLine
  /\ in_diff' = FALSE
  /\ todo' = CloseCalls(current)
  /\ current' = NoBlock
  /\ UNCHANGED in_code

EndDiffLine_StaysInDiff(c) ==
  /\ Line(c)
  /\ ~in_code
  /\ in_diff \/ c \in StartsDiff
  /\ c \notin IsDiffLine
  /\ IF current.kind = "Diff"
       THEN AppendLine(CloseCalls(current), NoBlock, "Markdown")
       ELSE AppendLine(<<>>, current, "Markdown")
  /\ UNCHANGED <<in_code, in_diff>>

EndDiffLine_ClosesAny(c) ==
  /\ Line(c)
  /\ ~in_code
  /\ in_diff \/ c \in StartsDiff
  /\ c \notin IsDiffLine
  /\ in_diff' = FALSE
  /\ AppendLine(CloseCalls(current), NoBlock, "Markdown")
  /\ UNCHANGED in_code

(* The first line after a diff ends it.                                    *)
EndDiffLine(c) ==
  /\ Line(c)
  /\ ~in_code
  /\ in_diff \/ c \in StartsDiff
  /\ c \notin IsDiffLine
  /\ in_diff' = FALSE
  /\ IF current.kind = "Diff"
       THEN AppendLine(CloseCalls(current), NoBlock, "Markdown")
       ELSE AppendLine(<<>>, current, "Markdown")
  /\ UNCHANGED in_code

ProseLine(c) ==
  /\ Line(c)
  /\ ~in_code /\ ~in_diff /\ c \notin StartsDiff
  /\ AppendLine(<<>>, current, "Markdown")
  /\ UNCHANGED <<in_code, in_diff>>

(* The output has ended.  A last line without a newline has been emitted   *)
(* like any other before the open block is closed.                         *)
Flush ==
  /\ Idle /\ ~flushed
  /\ flushed' = TRUE
  /\ todo' = CloseCalls(current)
  /\ current' = NoBlock
  /\ UNCHANGED <<log, in_code, in_diff, fed>>

Next ==
  \/ CloseFence \/ OpenFence
  \/ \E c \in Class \ {"fence"} :
       CodeLine(c) \/ DiffLine(c) \/ EndDiffLine(c) \/ ProseLine(c)
  \/ Flush
  \/ SinkStep /\ UNCHANGED adapter

Spec == Init /\ [][Next]_vars

-----------------------------------------------------------------------------
(* Between two lines `current` is exactly the open block: the last one of  *)
(* the log, of the kind recorded; every other block is complete            *)
(* (floor.rs:56-68, 90-106, 120-126).                                      *)
CurrentIsOpen ==
  Idle =>
    /\ \A i \in 1 .. Len(log.blocks) :
         log.blocks[i].block.complete <=> current.id # log.blocks[i].id
    /\ current # NoBlock =>
         /\ log.blocks # <<>>
         /\ log.blocks[Len(log.blocks)].id = current.id
         /\ log.blocks[Len(log.blocks)].block.kind = current.kind

ContentLines == {i \in 1 .. Len(fed) : fed[i] # "fence"}
TextOf(b) == Document[b].text
LinesOf(b) == {TextOf(b)[k] : k \in 1 .. Len(TextOf(b))}

(* No line is lost, doubled or moved: the blocks hold the lines that are   *)
(* not fences, in the order they came (floor.rs:79-129).                   *)
NothingLost ==
  Idle =>
    /\ UNION {LinesOf(b) : b \in 1 .. Len(Document)} = ContentLines
    /\ \A b \in 1 .. Len(Document) :
         \A j, k \in 1 .. Len(TextOf(b)) : j < k => TextOf(b)[j] < TextOf(b)[k]
    /\ \A b, c \in 1 .. Len(Document) :
         b < c => \A i \in LinesOf(b), j \in LinesOf(c) : i < j

Fenced(i) == Cardinality({j \in 1 .. i - 1 : fed[j] = "fence"}) % 2 = 1

(* A line belongs to a hunk when a hunk header comes before it, outside    *)
(* any fence, and nothing outside a fence ended the hunk in between.       *)
InHunk(i) ==
  \E h \in 1 .. i :
    /\ fed[h] = "hunk" /\ ~Fenced(h)
    /\ \A j \in h .. i : fed[j] = "fence" \/ Fenced(j) \/ fed[j] \in IsDiffLine

KindOf(i) == IF Fenced(i) THEN "Code" ELSE IF InHunk(i) THEN "Diff" ELSE "Markdown"

(* Every line is in a block of the kind that all the lines before it       *)
(* determine, whatever blocks were opened and closed on the way            *)
(* (floor.rs:85-129).                                                      *)
LinesRouted ==
  \A b \in 1 .. Len(Document) : \A i \in LinesOf(b) : Document[b].kind = KindOf(i)

(* Prose is never split: neighbours of one kind are two fenced blocks      *)
(* (floor.rs:58-68).                                                       *)
ProseInOneBlock ==
  \A b \in 1 .. Len(Document) - 1 :
    Document[b].kind = Document[b + 1].kind => Document[b].kind = "Code"
=============================================================================
