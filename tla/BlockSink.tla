------------------------------ MODULE BlockSink ------------------------------
(***************************************************************************)
(* The BlockSink trait (derive/mod.rs) over the engine's log (engine.rs):  *)
(* the calls an adapter makes while it handles one piece of output.  The   *)
(* log is locked for one call at a time, so other tasks see it between any *)
(* two of them: an adapter's calls are queued and performed one by one.    *)
(***************************************************************************)
EXTENDS BlockLog

VARIABLES log,      \* the engine's block log
          todo      \* the sink calls the adapter still has to make

sink == <<log, todo>>

AppendCall(kind) == [call |-> "append", kind |-> kind]
TextCall(id, chunk) ==
  [call |-> "patch", id |-> id, patch |-> [op |-> "AppendText", arg |-> chunk]]
FinalizeCall(id) == [call |-> "finalize", id |-> id]

SinkInit == log = EmptyLog /\ todo = <<>>

(* EngineSink: a call that names an unknown id changes nothing.            *)
Perform(l, call) ==
  CASE call.call = "append" -> LogAppend(l, call.kind)
    [] call.call = "patch" /\ Known(l, call.id) -> LogPatch(l, call.id, call.patch)
    [] call.call = "finalize" /\ Known(l, call.id) -> LogFinalize(l, call.id)
    [] OTHER -> l

SinkStep ==
  /\ todo # <<>>
  /\ log' = Perform(log, Head(todo))
  /\ todo' = Tail(todo)

Idle == todo = <<>>     \* the adapter is between two lines

(* The log as a reader sees it, without ids and revisions.                 *)
Document ==
  [i \in 1 .. Len(log.blocks) |->
     [kind |-> log.blocks[i].block.kind, text |-> log.blocks[i].block.text,
      complete |-> log.blocks[i].block.complete]]

Chat == INSTANCE ChatDocument WITH Kind <- BlockKind, Chunk <- Text, doc <- Document
=============================================================================
