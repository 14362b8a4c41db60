------------------------------ MODULE BlockLog ------------------------------
(***************************************************************************)
(* The authoritative block log and the consumer's view of it               *)
(* (dd-client-session: block.rs, stream.rs), as operators on values.       *)
(*                                                                         *)
(* A log or a view is a record with the fields of the Rust struct.         *)
(* Positions are counted from 1 here and from 0 there.  A text is the      *)
(* sequence of the chunks pushed into it: the properties tell apart which  *)
(* chunks a block holds and in which order, never their characters.  The   *)
(* fields of a block no operation of stream.rs writes (a code block's      *)
(* language, a menu's title and options, a prompt) are left out.           *)
(***************************************************************************)
EXTENDS Integers, Sequences
LOCAL INSTANCE Functions

CONSTANTS Text,     \* the chunks of text a patch may carry
          Option    \* the menu rows a patch may name

ASSUME OptionAssumption == Option \subseteq Nat

NoOption == -1      \* None: no row selected, no row chosen

BlockId == Nat
BlockKind == {"Markdown", "Code", "Diff", "Menu", "Input", "RawTerminal"}
TextKind == {"Markdown", "Code", "Diff", "RawTerminal"}
ClosableKind == {"Markdown", "Code", "Diff"}

Block == [kind : BlockKind, text : Seq(Text), complete : BOOLEAN,
          selected : Option \cup {NoOption}, chosen : Option \cup {NoOption},
          submitted : BOOLEAN]

EmptyBlock(kind) ==
  [kind |-> kind, text |-> <<>>, complete |-> FALSE,
   selected |-> NoOption, chosen |-> NoOption, submitted |-> FALSE]

TextPatch == [op : {"AppendText", "ReplaceText"}, arg : Text]
MenuPatch == [op : {"MenuSelect", "MenuResolve"}, arg : Option]
InputPatch == [op : {"InputSubmit"}]
BlockPatch == TextPatch \cup MenuPatch \cup InputPatch

(***************************************************************************)
(* apply_patch: a patch of another kind than the block's changes nothing.  *)
(***************************************************************************)
ApplyPatch(block, patch) ==
  CASE patch.op = "AppendText" /\ block.kind \in TextKind ->
         [block EXCEPT !.text = Append(@, patch.arg)]
    [] patch.op = "ReplaceText" /\ block.kind \in TextKind ->
         [block EXCEPT !.text = <<patch.arg>>]
    [] patch.op = "MenuSelect" /\ block.kind = "Menu" ->
         [block EXCEPT !.selected = patch.arg]
    [] patch.op = "MenuResolve" /\ block.kind = "Menu" ->
         [block EXCEPT !.chosen = patch.arg]
    [] patch.op = "InputSubmit" /\ block.kind = "Input" ->
         [block EXCEPT !.submitted = TRUE]
    [] OTHER -> block

SetComplete(block) ==
  IF block.kind \in ClosableKind THEN [block EXCEPT !.complete = TRUE] ELSE block

-----------------------------------------------------------------------------
(***************************************************************************)
(* BlockEvent.                                                             *)
(***************************************************************************)
AppendEvent(id, kind) == [type |-> "Append", id |-> id, kind |-> kind]
UpdateEvent(id, rev, patch) ==
  [type |-> "Update", id |-> id, rev |-> rev, patch |-> patch]
FinalizeEvent(id, rev) == [type |-> "Finalize", id |-> id, rev |-> rev]
TruncateEvent(from) == [type |-> "Truncate", id |-> from]

BlockEvent ==
       [type : {"Append"}, id : BlockId, kind : BlockKind]
  \cup [type : {"Update"}, id : BlockId, rev : Nat, patch : BlockPatch]
  \cup [type : {"Finalize"}, id : BlockId, rev : Nat]
  \cup [type : {"Truncate"}, id : BlockId]

(* HashMap::insert *)
Put(map, key, value) ==
  [k \in DOMAIN map \cup {key} |-> IF k = key THEN value ELSE map[k]]

-----------------------------------------------------------------------------
(***************************************************************************)
(* BlockLog.  Patch, Finalize and Truncate do nothing on an id the index   *)
(* does not hold; their callers test Known first, as the early return `?`  *)
(* does.                                                                   *)
(***************************************************************************)
Entry == [id : BlockId, rev : Nat, block : Block]

EmptyLog == [blocks |-> <<>>, index |-> <<>>, next_id |-> 0]

Known(log, id) == id \in DOMAIN log.index

LogAppend_CountsFromZero(log, kind) ==
  [blocks |-> Append(log.blocks, [id |-> log.next_id, rev |-> 0, block |-> EmptyBlock(kind)]),
   index |-> Put(log.index, log.next_id, Len(log.blocks)),
   next_id |-> log.next_id + 1]

LogAppend_IdIsPosition(log, kind) ==
  LET id == Len(log.blocks)
  IN [blocks |-> Append(log.blocks,
                        [id |-> id, rev |-> 0, block |-> EmptyBlock(kind)]),
      index |-> Put(log.index, id, Len(log.blocks) + 1),
      next_id |-> id]

LogAppend(log, kind) ==
  LET id == log.next_id
  IN [blocks |-> Append(log.blocks,
                        [id |-> id, rev |-> 0, block |-> EmptyBlock(kind)]),
      index |-> Put(log.index, id, Len(log.blocks) + 1),
      next_id |-> id + 1]

BlockAt(log, id) == log.blocks[log.index[id]].block

Rev(log, id) == log.blocks[log.index[id]].rev

(* The block of `id` becomes `block`, one revision later. *)
Edit(log, id, block) ==
  LET entry == [id |-> id, rev |-> Rev(log, id) + 1, block |-> block]
  IN [log EXCEPT !.blocks = [@ EXCEPT ![log.index[id]] = entry]]

LogPatch(log, id, patch) == Edit(log, id, ApplyPatch(BlockAt(log, id), patch))

LogFinalize_SameRevision(log, id) ==
  LET entry == [id |-> id, rev |-> Rev(log, id), block |-> SetComplete(BlockAt(log, id))]
  IN [log EXCEPT !.blocks = [@ EXCEPT ![log.index[id]] = entry]]

LogFinalize(log, id) == Edit(log, id, SetComplete(BlockAt(log, id)))

LogTruncate_ForgetsOne(log, from) ==
  LET first == log.index[from]
  IN [blocks |-> SubSeq(log.blocks, 1, first - 1),
      index |-> Restrict(log.index, DOMAIN log.index \ {from}),
      next_id |-> log.next_id]

LogTruncate(log, from) ==
  LET first == log.index[from]
      dropped == {log.blocks[i].id : i \in first .. Len(log.blocks)}
  IN [blocks |-> SubSeq(log.blocks, 1, first - 1),
      index |-> Restrict(log.index, DOMAIN log.index \ dropped),
      next_id |-> log.next_id]

Snapshot(log) == [i \in 1 .. Len(log.blocks) |-> log.blocks[i].block]

-----------------------------------------------------------------------------
(***************************************************************************)
(* BlockView.                                                              *)
(***************************************************************************)
DefaultView == [blocks |-> <<>>, index |-> <<>>, order |-> <<>>]

FromSnapshot(snapshot) == [blocks |-> snapshot, index |-> <<>>, order |-> <<>>]

(***************************************************************************)
(* apply indexes `order` with a position in `blocks`: drain(idx..) panics  *)
(* when the position lies beyond the end of `order`.                       *)
(***************************************************************************)
ViewPanics(view, event) ==
  /\ event.type = "Truncate"
  /\ event.id \in DOMAIN view.index
  /\ view.index[event.id] - 1 > Len(view.order)

ViewAppend_IndexesOrder(view, id, kind) ==
  [blocks |-> Append(view.blocks, EmptyBlock(kind)),
   index |-> Put(view.index, id, Len(view.order) + 1),
   order |-> Append(view.order, id)]

ViewAppend(view, id, kind) ==
  [blocks |-> Append(view.blocks, EmptyBlock(kind)),
   index |-> Put(view.index, id, Len(view.blocks) + 1),
   order |-> Append(view.order, id)]

ViewAt(view, id) == view.blocks[view.index[id]]

ViewEdit(view, id, block) ==
  [blocks |-> [view.blocks EXCEPT ![view.index[id]] = block],
   index |-> view.index, order |-> view.order]

ViewTruncate_KeepsOrder(view, from) ==
  LET first == view.index[from]
      dropped == {view.order[i] : i \in first .. Len(view.order)}
  IN [blocks |-> SubSeq(view.blocks, 1, first - 1),
      index |-> Restrict(view.index, DOMAIN view.index \ dropped),
      order |-> view.order]

ViewTruncate(view, from) ==
  LET first == view.index[from]
      dropped == {view.order[i] : i \in first .. Len(view.order)}
  IN [blocks |-> SubSeq(view.blocks, 1, first - 1),
      index |-> Restrict(view.index, DOMAIN view.index \ dropped),
      order |-> SubSeq(view.order, 1, first - 1)]

ViewApply(view, event) ==
  CASE event.type = "Append" -> ViewAppend(view, event.id, event.kind)
    [] event.type # "Append" /\ event.id \notin DOMAIN view.index -> view
    [] event.type = "Update" /\ event.id \in DOMAIN view.index ->
         ViewEdit(view, event.id, ApplyPatch(ViewAt(view, event.id), event.patch))
    [] event.type = "Finalize" /\ event.id \in DOMAIN view.index ->
         ViewEdit(view, event.id, SetComplete(ViewAt(view, event.id)))
    [] event.type = "Truncate" /\ event.id \in DOMAIN view.index ->
         ViewTruncate(view, event.id)

-----------------------------------------------------------------------------
(* The shapes of the Rust values. *)
IsIndex(index) ==
  DOMAIN index \subseteq BlockId /\ index \in [DOMAIN index -> Nat \ {0}]

IsLog(l) ==
  /\ IsIndex(l.index)
  /\ l \in [blocks : Seq(Entry), index : {l.index}, next_id : Nat]

IsView(v) ==
  /\ IsIndex(v.index)
  /\ v \in [blocks : Seq(Block), index : {v.index}, order : Seq(BlockId)]

-----------------------------------------------------------------------------
(***************************************************************************)
(* What a log is in every reachable state: the index inverts the order of  *)
(* the blocks, and ids grow along it, all below next_id.                   *)
(***************************************************************************)
WellFormed(log) ==
  /\ DOMAIN log.index = {log.blocks[i].id : i \in 1 .. Len(log.blocks)}
  /\ \A i \in 1 .. Len(log.blocks) : log.index[log.blocks[i].id] = i
  /\ \A i \in 1 .. Len(log.blocks) : log.blocks[i].id < log.next_id
  /\ \A i, j \in 1 .. Len(log.blocks) : i < j => log.blocks[i].id < log.blocks[j].id

(* The view a consumer should hold of a log. *)
ViewOf(log) ==
  [blocks |-> Snapshot(log), index |-> log.index,
   order |-> [i \in 1 .. Len(log.blocks) |-> log.blocks[i].id]]
=============================================================================
