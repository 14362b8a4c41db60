-------------------------- MODULE ClaudeCodeAdapter --------------------------
(***************************************************************************)
(* The adapter for Claude Code's stream-json output (derive/               *)
(* claude_code.rs): newline-delimited JSON events become blocks.           *)
(*                                                                         *)
(* A line is the sequence of items the adapter's loops go through.  Those  *)
(* of an assistant message are texts, and tool uses with or without an     *)
(* input; those of a user message are tool results; in any number and      *)
(* order.  An item is represented by what is done with it:                 *)
(*   "text"      text of the assistant                                     *)
(*   "tool"      a tool use with its input                                 *)
(*   "header"    a tool use without an input                               *)
(*   "output"    a tool result                                             *)
(*   "answer"    the final result, with its text                           *)
(*   "close"     a final result without a text; the end of the session     *)
(*   "skipped"   any other item, or an event that has none                 *)
(*   "garbage"   a line that is not JSON: a torn event, or plain output    *)
(*   "blank"     a line of white space                                     *)
(* What an item shows is its number in the stream; a tool use with an      *)
(* input shows its name and the input, both under that number.             *)
(***************************************************************************)
EXTENDS BlockSink, FiniteSets

CONSTANTS MaxItems,     \* bound on the number of items
          MaxContent    \* bound on the items of a message

VARIABLES buf,          \* the bytes after the last newline, as a line
          content,      \* the items of the line in hand not yet reached
          text_block,   \* the open Markdown block's id, or NoId
          flushed,
          fed           \* auxiliary: the items so far, those in hand included

adapter == <<buf, content, text_block, flushed, fed>>
vars == <<sink, adapter>>

Array(Items) == UNION {[1 .. n -> Items] : n \in 1 .. MaxContent}

Json == Array({"text", "tool", "header", "skipped"})
          \cup Array({"output", "skipped"})
          \cup {<<"answer">>, <<"close">>, <<"skipped">>}
Line == Json \cup {<<"garbage">>, <<"blank">>}
Item == {"text", "tool", "header", "output", "answer", "close", "skipped",
         "garbage", "blank"}
Nothing == <<>>         \* the buffer is empty
NoId == -1

Init ==
  /\ SinkInit
  /\ buf = Nothing
  /\ content = <<>>
  /\ text_block = NoId
  /\ flushed = FALSE
  /\ fed = <<>>

-----------------------------------------------------------------------------
(* Calls are built from left to right; `next` is the id that the next      *)
(* append will return.                                                     *)
State(calls, open, next) == [calls |-> calls, open |-> open, next |-> next]

Append1(st, kind) ==
  State(Append(st.calls, AppendCall(kind)), st.next, st.next + 1)

Call(st, call) == [st EXCEPT !.calls = Append(@, call)]

CloseText_KeepsId(st) ==
  IF st.open = NoId THEN st
  ELSE State(Append(st.calls, FinalizeCall(st.open)), st.open, st.next)

CloseText(st) ==
  IF st.open = NoId THEN st
  ELSE State(Append(st.calls, FinalizeCall(st.open)), NoId, st.next)

PushMarkdown(st, chunk) ==
  LET opened == IF st.open = NoId THEN Append1(st, "Markdown") ELSE st
  IN Call(opened, TextCall(opened.open, chunk))

PushWhole_LeavesOpen(st, kind, chunk) ==
  LET opened == Append1(CloseText(st), kind)
  IN State(Append(opened.calls, TextCall(opened.open, chunk)), NoId, opened.next)

(* A block of its own: opened, filled and closed.                          *)
PushWhole(st, kind, chunk) ==
  LET opened == Append1(CloseText(st), kind)
      filled == Call(opened, TextCall(opened.open, chunk))
  IN CloseText(filled)

PushCode(st, chunk) == PushWhole(st, "Code", chunk)

HandleItem(st, item, chunk) ==
  CASE item \in {"text", "garbage", "header"} -> PushMarkdown(st, chunk)
    [] item = "tool" -> PushCode(PushMarkdown(st, chunk), chunk)
    [] item = "output" -> PushCode(st, chunk)
    [] item = "answer" -> PushWhole(st, "Markdown", chunk)
    [] item = "close" -> CloseText(st)
    [] item \in {"skipped", "blank"} -> st

Start == State(<<>>, text_block, log.next_id)

Become(st) ==
  /\ todo' = st.calls
  /\ text_block' = st.open

-----------------------------------------------------------------------------
Reading == Idle /\ content = <<>> /\ ~flushed

Fits(line) == Len(fed) + Len(line) < MaxItems

(* More bytes of a line limit what it can be: they make JSON of a torn     *)
(* event, or spoil it.                                                     *)
CanBecome(line) ==
  \/ buf \in {Nothing, <<"blank">>, line}
  \/ buf = <<"garbage">> /\ line # <<"blank">>
  \/ buf \in Json /\ line = <<"garbage">>

(* A frame ends in the middle of a line.                                   *)
FeedPart(line) ==
  /\ Reading /\ Fits(line)
  /\ CanBecome(line)
  /\ buf' = line
  /\ UNCHANGED <<sink, content, text_block, flushed, fed>>

(* A newline completes a line.                                             *)
FeedLine(line) ==
  /\ Reading /\ Fits(line)
  /\ CanBecome(line)
  /\ buf' = Nothing
  /\ content' = line
  /\ fed' = fed \o line
  /\ UNCHANGED <<sink, text_block, flushed>>

HandleNext_StopsAtSkipped ==
  /\ Idle /\ content # <<>>
  /\ content' = IF Head(content) = "skipped" THEN <<>> ELSE Tail(content)
  /\ Become(HandleItem(Start, Head(content), Len(fed) - Len(content) + 1))
  /\ UNCHANGED <<log, buf, flushed, fed>>

(* The loop's next item: all calls made for it.                            *)
HandleNext ==
  /\ Idle /\ content # <<>>
  /\ content' = Tail(content)
  /\ Become(HandleItem(Start, Head(content), Len(fed) - Len(content) + 1))
  /\ UNCHANGED <<log, buf, flushed, fed>>

(* The session has ended: what is left in the buffer is an event, or it is *)
(* dropped, and is not among the items.  Then the text is closed.          *)
Flush ==
  /\ Reading
  /\ flushed' = TRUE
  /\ buf' = Nothing
  /\ content' = (IF buf \in Json THEN buf ELSE <<>>) \o <<"close">>
  /\ fed' = fed \o content'
  /\ UNCHANGED <<sink, text_block>>

Next ==
  \/ \E line \in Line : FeedPart(line) \/ FeedLine(line)
  \/ HandleNext
  \/ Flush
  \/ SinkStep /\ UNCHANGED adapter

Spec == Init /\ [][Next]_vars

-----------------------------------------------------------------------------
(* Between two items the open text block is the log's only open block: no  *)
(* tool output leaves one open (claude_code.rs:37-78), and none is left    *)
(* when the session has ended (160).                                       *)
TextBlockIsOpen ==
  Idle =>
    /\ \A i \in 1 .. Len(log.blocks) :
         /\ log.blocks[i].block.complete <=> log.blocks[i].id # text_block
         /\ log.blocks[i].id = text_block => log.blocks[i].block.kind = "Markdown"
    /\ flushed /\ content = <<>> => text_block = NoId

TextOf(b) == Document[b].text
ShownIn(b) == {TextOf(b)[k] : k \in 1 .. Len(TextOf(b))}

(* Blocks show the items of the stream in order, however they are spread   *)
(* over events, and a tool's input or output is one block by itself        *)
(* (claude_code.rs:55-121).                                                *)
InOrder ==
  Idle =>
    /\ \A b \in 1 .. Len(Document) :
         /\ \A j, k \in 1 .. Len(TextOf(b)) : j < k => TextOf(b)[j] < TextOf(b)[k]
         /\ Document[b].kind = "Code" => Len(TextOf(b)) = 1
    /\ \A b, c \in 1 .. Len(Document) :
         b < c => \A i \in ShownIn(b), j \in ShownIn(c) : i =< j

(* The kinds of blocks in which an item is shown.                          *)
KindsOf(item) ==
  CASE item \in {"text", "header", "answer", "garbage"} -> {"Markdown"}
    [] item = "tool" -> {"Markdown", "Code"}
    [] item = "output" -> {"Code"}
    [] item \in {"close", "skipped", "blank"} -> {}

(* Every item that has something to show, and every line that cannot be    *)
(* parsed, is shown as soon as its newline has come, each part of it in a  *)
(* block of its kind, and nothing else is (claude_code.rs:63-161).         *)
ItemsShown ==
  Idle /\ content = <<>> =>
    UNION {{<<Document[b].kind, i>> : i \in ShownIn(b)} : b \in 1 .. Len(Document)}
      = UNION {{<<kind, i>> : kind \in KindsOf(fed[i])} : i \in 1 .. Len(fed)}
=============================================================================
