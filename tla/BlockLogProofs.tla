---------------------------- MODULE BlockLogProofs ----------------------------
(***************************************************************************)
(* What the operations of BlockLog do to a log and to a view, for every    *)
(* set of texts and options: facts about values, which the proofs about    *)
(* the modules that hold such values cite.                                 *)
(***************************************************************************)
EXTENDS BlockLog, TLAPS
LOCAL INSTANCE Functions

-----------------------------------------------------------------------------
(* Blocks keep their type under every edit. *)

LEMMA EmptyBlockType ==
  ASSUME NEW kind \in BlockKind
  PROVE  EmptyBlock(kind) \in Block
  BY DEF EmptyBlock, Block, NoOption

LEMMA ApplyPatchType ==
  ASSUME NEW block \in Block, NEW patch \in BlockPatch
  PROVE  ApplyPatch(block, patch) \in Block
<1>1. CASE patch \in TextPatch
  <2>1. patch.arg \in Text /\ patch.op \in {"AppendText", "ReplaceText"}
    BY <1>1 DEF TextPatch
  <2>2. Append(block.text, patch.arg) \in Seq(Text) /\ <<patch.arg>> \in Seq(Text)
    BY <2>1 DEF Block
  <2> QED BY <2>1, <2>2 DEF ApplyPatch, Block
<1>2. CASE patch \in MenuPatch
  BY <1>2 DEF MenuPatch, ApplyPatch, Block
<1>3. CASE patch \in InputPatch
  BY <1>3 DEF InputPatch, ApplyPatch, Block
<1> QED BY <1>1, <1>2, <1>3 DEF BlockPatch

LEMMA SetCompleteType ==
  ASSUME NEW block \in Block
  PROVE  SetComplete(block) \in Block
  BY DEF SetComplete, Block

-----------------------------------------------------------------------------
(* Each operation of the log keeps it a well-formed log. *)

LEMMA EmptyLogSound == IsLog(EmptyLog) /\ WellFormed(EmptyLog)
  BY DEF EmptyLog, IsLog, IsIndex, WellFormed, BlockId

LEMMA AppendSound ==
  ASSUME NEW l, IsLog(l), WellFormed(l), NEW kind \in BlockKind
  PROVE  IsLog(LogAppend(l, kind)) /\ WellFormed(LogAppend(l, kind))
<1> DEFINE m == LogAppend(l, kind)
           n == Len(l.blocks)
<1>1. /\ l.blocks \in Seq(Entry)
      /\ n \in Nat
      /\ l.next_id \in Nat
      /\ l.index \in [DOMAIN l.index -> Nat \ {0}]
      /\ DOMAIN l.index \subseteq Nat
  BY DEF IsLog, IsIndex, BlockId
<1>2. [id |-> l.next_id, rev |-> 0, block |-> EmptyBlock(kind)] \in Entry
  BY <1>1, EmptyBlockType DEF Entry, BlockId
<1>3. /\ m.blocks \in Seq(Entry)
      /\ Len(m.blocks) = n + 1
      /\ m.blocks[n + 1].id = l.next_id
      /\ \A i \in 1 .. n : m.blocks[i] = l.blocks[i]
  BY <1>1, <1>2 DEF LogAppend
<1>4. /\ DOMAIN m.index = DOMAIN l.index \cup {l.next_id}
      /\ m.index[l.next_id] = n + 1
      /\ \A id \in DOMAIN l.index : id # l.next_id => m.index[id] = l.index[id]
      /\ m.index \in [DOMAIN m.index -> Nat \ {0}]
      /\ m.next_id = l.next_id + 1
  BY <1>1 DEF LogAppend, Put
<1>5. IsLog(m)
  BY <1>1, <1>3, <1>4 DEF IsLog, IsIndex, LogAppend, BlockId
<1>6. \A i \in 1 .. n : l.blocks[i].id \in Nat /\ l.blocks[i].id < l.next_id
  BY <1>1 DEF WellFormed, Entry, BlockId
<1>7. WellFormed(m)
  <2>1. \A i \in 1 .. n + 1 :
          m.blocks[i].id = IF i = n + 1 THEN l.next_id ELSE l.blocks[i].id
    BY <1>1, <1>3
  <2>2. DOMAIN m.index = {m.blocks[i].id : i \in 1 .. n + 1}
    <3>1. DOMAIN l.index = {l.blocks[i].id : i \in 1 .. n}
      BY DEF WellFormed
    <3> HIDE DEF m, n
    <3> QED BY <1>1, <1>4, <2>1, <3>1, SMTT(30)
  <2>3. \A i \in 1 .. n + 1 : m.index[m.blocks[i].id] = i
    <3>1. \A i \in 1 .. n : l.blocks[i].id \in DOMAIN l.index
                           /\ l.index[l.blocks[i].id] = i
      BY DEF WellFormed
    <3>2. TAKE i \in 1 .. n + 1
    <3>3. CASE i = n + 1
      BY <1>4, <2>1, <3>3
    <3>4. CASE i \in 1 .. n
      <4>1. m.blocks[i].id = l.blocks[i].id /\ l.blocks[i].id # l.next_id
        BY <1>1, <1>6, <2>1, <3>4
      <4> QED BY <1>4, <3>1, <3>4, <4>1
    <3> QED BY <1>1, <3>3, <3>4
  <2>4. \A i \in 1 .. n + 1 : m.blocks[i].id < m.next_id
    BY <1>1, <1>4, <1>6, <2>1
  <2>5. \A i, j \in 1 .. n + 1 : i < j => m.blocks[i].id < m.blocks[j].id
    <3>1. \A i, j \in 1 .. n : i < j => l.blocks[i].id < l.blocks[j].id
      BY DEF WellFormed
    <3>2. TAKE i, j \in 1 .. n + 1
    <3>3. HAVE i < j
    <3>4. i \in 1 .. n /\ m.blocks[i].id = l.blocks[i].id
      BY <1>1, <2>1, <3>3
    <3>5. CASE j = n + 1
      BY <1>6, <2>1, <3>4, <3>5
    <3>6. CASE j \in 1 .. n
      BY <1>1, <2>1, <3>1, <3>3, <3>4, <3>6
    <3> QED BY <1>1, <3>5, <3>6
  <2> QED BY <1>3, <2>2, <2>3, <2>4, <2>5 DEF WellFormed
<1> QED BY <1>5, <1>7

(* An edit replaces the entry of one position and leaves its id. *)

LEMMA EditShape ==
  ASSUME NEW l, IsLog(l), WellFormed(l), NEW id \in DOMAIN l.index,
         NEW block \in Block
  PROVE  /\ l.index[id] \in 1 .. Len(l.blocks)
         /\ l.blocks[l.index[id]].id = id
         /\ Edit(l, id, block) = [blocks |-> Edit(l, id, block).blocks,
                                  index |-> l.index, next_id |-> l.next_id]
         /\ Edit(l, id, block).blocks \in Seq(Entry)
         /\ Len(Edit(l, id, block).blocks) = Len(l.blocks)
         /\ Edit(l, id, block).blocks[l.index[id]].id = id
         /\ Edit(l, id, block).blocks[l.index[id]].block = block
         /\ \A i \in 1 .. Len(l.blocks) :
              i # l.index[id] => Edit(l, id, block).blocks[i] = l.blocks[i]
<1> DEFINE m == Edit(l, id, block)
           k == l.index[id]
           e == [id |-> id, rev |-> l.blocks[k].rev + 1, block |-> block]
<1>1. /\ l.blocks \in Seq(Entry)
      /\ id \in BlockId
      /\ l = [blocks |-> l.blocks, index |-> l.index, next_id |-> l.next_id]
  BY DEF IsLog, IsIndex
<1>2. k \in 1 .. Len(l.blocks) /\ l.blocks[k].id = id
  BY DEF WellFormed
<1>3. l.blocks[k] \in Entry /\ e \in Entry
  <2>1. l.blocks[k] \in Entry
    BY <1>1, <1>2
  <2> QED BY <1>1, <2>1 DEF Entry
<1>4. /\ m.blocks = [l.blocks EXCEPT ![k] = e]
      /\ m.index = l.index
      /\ m.next_id = l.next_id
      /\ m = [blocks |-> m.blocks, index |-> m.index, next_id |-> m.next_id]
  BY <1>1 DEF Edit, Rev
<1> HIDE DEF m, e
<1>5. /\ m.blocks \in Seq(Entry)
      /\ Len(m.blocks) = Len(l.blocks)
      /\ m.blocks[k] = e
      /\ \A i \in 1 .. Len(l.blocks) : i # k => m.blocks[i] = l.blocks[i]
  BY <1>1, <1>2, <1>3, <1>4
<1> QED BY <1>2, <1>3, <1>4, <1>5 DEF m, e

LEMMA EditSound ==
  ASSUME NEW l, IsLog(l), WellFormed(l), NEW id \in DOMAIN l.index,
         NEW block \in Block
  PROVE  IsLog(Edit(l, id, block)) /\ WellFormed(Edit(l, id, block))
<1> DEFINE m == Edit(l, id, block)
<1>1. /\ m = [blocks |-> m.blocks, index |-> l.index, next_id |-> l.next_id]
      /\ m.blocks \in Seq(Entry)
      /\ Len(m.blocks) = Len(l.blocks)
  BY EditShape
<1>2. \A i \in 1 .. Len(l.blocks) : m.blocks[i].id = l.blocks[i].id
  <2>1. /\ l.blocks[l.index[id]].id = id
        /\ m.blocks[l.index[id]].id = id
        /\ \A i \in 1 .. Len(l.blocks) : i # l.index[id] => m.blocks[i] = l.blocks[i]
    BY EditShape
  <2> QED BY <2>1
<1> HIDE DEF m
<1>3. IsLog(m)
  BY <1>1 DEF IsLog
<1>4. WellFormed(m)
  BY <1>1, <1>2, SMTT(30) DEF WellFormed
<1> QED BY <1>3, <1>4 DEF m

LEMMA BlockAtType ==
  ASSUME NEW l, IsLog(l), WellFormed(l), NEW id \in DOMAIN l.index
  PROVE  BlockAt(l, id) \in Block
<1>1. l.blocks \in Seq(Entry) /\ l.index[id] \in 1 .. Len(l.blocks)
  BY DEF IsLog, WellFormed
<1>2. l.blocks[l.index[id]] \in Entry
  BY <1>1
<1> QED BY <1>2 DEF BlockAt, Entry

LEMMA PatchSound ==
  ASSUME NEW l, IsLog(l), WellFormed(l), NEW id \in DOMAIN l.index,
         NEW patch \in BlockPatch
  PROVE  IsLog(LogPatch(l, id, patch)) /\ WellFormed(LogPatch(l, id, patch))
  BY BlockAtType, ApplyPatchType, EditSound DEF LogPatch

LEMMA FinalizeSound ==
  ASSUME NEW l, IsLog(l), WellFormed(l), NEW id \in DOMAIN l.index
  PROVE  IsLog(LogFinalize(l, id)) /\ WellFormed(LogFinalize(l, id))
  BY BlockAtType, SetCompleteType, EditSound DEF LogFinalize

(* What truncation leaves: the blocks before the first one, and their ids. *)
LEMMA TruncateShape ==
  ASSUME NEW l, IsLog(l), NEW from
  PROVE  /\ LogTruncate(l, from).blocks = SubSeq(l.blocks, 1, l.index[from] - 1)
         /\ LogTruncate(l, from).index =
              [x \in DOMAIN l.index \ {l.blocks[i].id : i \in l.index[from] .. Len(l.blocks)}
                 |-> l.index[x]]
         /\ LogTruncate(l, from).next_id = l.next_id
         /\ LogTruncate(l, from) = [blocks |-> LogTruncate(l, from).blocks,
                                    index |-> LogTruncate(l, from).index,
                                    next_id |-> LogTruncate(l, from).next_id]
<1> DEFINE m == LogTruncate(l, from)
           dropped == {l.blocks[i].id : i \in l.index[from] .. Len(l.blocks)}
<1>1. l = [blocks |-> l.blocks, index |-> l.index, next_id |-> l.next_id]
  BY DEF IsLog
<1>2. m = [blocks |-> SubSeq(l.blocks, 1, l.index[from] - 1),
           index |-> [x \in DOMAIN l.index \ dropped |-> l.index[x]],
           next_id |-> l.next_id]
  BY <1>1, Zenon DEF LogTruncate, Restrict
<1> HIDE DEF m
<1>3. /\ m.blocks = SubSeq(l.blocks, 1, l.index[from] - 1)
      /\ m.index = [x \in DOMAIN l.index \ dropped |-> l.index[x]]
      /\ m.next_id = l.next_id
      /\ m = [blocks |-> m.blocks, index |-> m.index, next_id |-> m.next_id]
  BY <1>2
<1> QED BY <1>3 DEF m

LEMMA TruncateSound ==
  ASSUME NEW l, IsLog(l), WellFormed(l), NEW from \in DOMAIN l.index
  PROVE  IsLog(LogTruncate(l, from)) /\ WellFormed(LogTruncate(l, from))
<1> DEFINE m == LogTruncate(l, from)
           n == Len(l.blocks)
           first == l.index[from]
           dropped == {l.blocks[i].id : i \in first .. n}
<1>1. /\ l.blocks \in Seq(Entry)
      /\ n \in Nat
      /\ first \in 1 .. n
      /\ l.index \in [DOMAIN l.index -> Nat \ {0}]
  BY DEF IsLog, IsIndex, WellFormed
<1>2. /\ m.blocks = SubSeq(l.blocks, 1, first - 1)
      /\ m.index = [x \in DOMAIN l.index \ dropped |-> l.index[x]]
      /\ m.next_id = l.next_id
      /\ m = [blocks |-> m.blocks, index |-> m.index, next_id |-> m.next_id]
  BY TruncateShape
<1>3. /\ m.blocks \in Seq(Entry)
      /\ Len(m.blocks) = first - 1
      /\ \A i \in 1 .. (first - 1) : m.blocks[i] = l.blocks[i]
  BY <1>1, <1>2
<1>4. DOMAIN m.index = {l.blocks[i].id : i \in 1 .. (first - 1)}
  <2>1. \A i, j \in 1 .. n : l.blocks[i].id = l.blocks[j].id => i = j
    BY DEF WellFormed
  <2>2. DOMAIN l.index = {l.blocks[i].id : i \in 1 .. n}
    BY DEF WellFormed
  <2>3. DOMAIN m.index = DOMAIN l.index \ dropped
    BY <1>2
  <2>4. n \in Nat /\ first \in 1 .. n
    BY <1>1
  <2>5. {l.blocks[i].id : i \in 1 .. n} \ dropped = {l.blocks[i].id : i \in 1 .. (first - 1)}
    <3> HIDE DEF n, first
    <3> QED BY <2>1, <2>4
  <2> QED BY <2>2, <2>3, <2>5
<1>5. m.index \in [DOMAIN m.index -> Nat \ {0}] /\ DOMAIN m.index \subseteq DOMAIN l.index
  BY <1>1, <1>2
<1> HIDE DEF m
<1>6. IsLog(m)
  BY <1>1, <1>2, <1>3, <1>5 DEF IsLog, IsIndex
<1>7. WellFormed(m)
  <2>1. \A i \in 1 .. (first - 1) : i \in 1 .. n /\ m.blocks[i].id = l.blocks[i].id
    BY <1>1, <1>3
  <2>2. \A id \in DOMAIN m.index : m.index[id] = l.index[id]
    BY <1>2
  <2>3. \A i \in 1 .. (first - 1) : m.index[m.blocks[i].id] = i
    BY <1>4, <2>1, <2>2 DEF WellFormed
  <2>4. DOMAIN m.index = {m.blocks[i].id : i \in 1 .. (first - 1)}
    BY <1>4, <2>1
  <2>5. \A i \in 1 .. (first - 1) : m.blocks[i].id < m.next_id
    BY <1>2, <2>1 DEF WellFormed
  <2>6. \A i, j \in 1 .. (first - 1) : i < j => m.blocks[i].id < m.blocks[j].id
    BY <2>1 DEF WellFormed
  <2> QED BY <1>3, <2>3, <2>4, <2>5, <2>6 DEF WellFormed
<1> QED BY <1>6, <1>7 DEF m

-----------------------------------------------------------------------------
(***************************************************************************)
(* Replaying the event of an operation onto the view of a log gives the    *)
(* view of the log after the operation, and does not panic.                *)
(***************************************************************************)
Mirrors(l, event, m) ==
  ~ViewPanics(ViewOf(l), event) /\ ViewApply(ViewOf(l), event) = ViewOf(m)

LEMMA AppendMirrors ==
  ASSUME NEW l, IsLog(l), WellFormed(l), NEW kind \in BlockKind
  PROVE  Mirrors(l, AppendEvent(l.next_id, kind), LogAppend(l, kind))
<1> DEFINE m == LogAppend(l, kind)
           n == Len(l.blocks)
           new == [id |-> l.next_id, rev |-> 0, block |-> EmptyBlock(kind)]
<1>1. l.blocks \in Seq(Entry) /\ n \in Nat /\ new \in Entry
  BY EmptyBlockType DEF IsLog, Entry, BlockId
<1>2. /\ m.blocks = Append(l.blocks, new)
      /\ m.index = Put(l.index, l.next_id, n + 1)
  BY DEF LogAppend
<1>3. /\ Len(m.blocks) = n + 1
      /\ m.blocks[n + 1] = new
      /\ \A i \in 1 .. n : m.blocks[i] = l.blocks[i]
  BY <1>1, <1>2
<1>4. Snapshot(m) = Append(Snapshot(l), EmptyBlock(kind))
  <2>1. Len(Snapshot(l)) = n
    BY <1>1 DEF Snapshot
  <2> QED BY <1>1, <1>3, <2>1 DEF Snapshot
<1>5. ViewOf(m).order = Append(ViewOf(l).order, l.next_id)
  BY <1>1, <1>3 DEF ViewOf
<1>6. ViewApply(ViewOf(l), AppendEvent(l.next_id, kind))
        = ViewAppend(ViewOf(l), l.next_id, kind)
  BY DEF ViewApply, AppendEvent
<1>7. ViewAppend(ViewOf(l), l.next_id, kind) = ViewOf(m)
  <2>1. Len(Snapshot(l)) = n
    BY <1>1 DEF Snapshot
  <2> QED BY <1>2, <1>4, <1>5, <2>1 DEF ViewAppend, ViewOf
<1> QED BY <1>6, <1>7 DEF Mirrors, ViewPanics, AppendEvent

LEMMA EditMirrors ==
  ASSUME NEW l, IsLog(l), WellFormed(l), NEW id \in DOMAIN l.index,
         NEW block \in Block
  PROVE  ViewOf(Edit(l, id, block))
           = ViewEdit(ViewOf(l), id, block)
<1> DEFINE m == Edit(l, id, block)
<1>1. /\ l.index[id] \in 1 .. Len(l.blocks)
      /\ m.index = l.index
      /\ Len(m.blocks) = Len(l.blocks)
      /\ m.blocks[l.index[id]].block = block
      /\ \A i \in 1 .. Len(l.blocks) : m.blocks[i].id = l.blocks[i].id
      /\ \A i \in 1 .. Len(l.blocks) :
           i # l.index[id] => m.blocks[i].block = l.blocks[i].block
  <2>1. /\ l.blocks[l.index[id]].id = id
        /\ m.blocks[l.index[id]].id = id
        /\ \A i \in 1 .. Len(l.blocks) : i # l.index[id] => m.blocks[i] = l.blocks[i]
    BY EditShape
  <2> QED BY <2>1, EditShape
<1> HIDE DEF m
<1>2. Snapshot(m) = [Snapshot(l) EXCEPT ![l.index[id]] = block]
  BY <1>1 DEF Snapshot
<1>3. ViewOf(m).order = ViewOf(l).order
  BY <1>1 DEF ViewOf
<1>4. ViewOf(l) = [blocks |-> Snapshot(l), index |-> l.index, order |-> ViewOf(l).order]
  BY DEF ViewOf
<1>5. ViewOf(m) = [blocks |-> Snapshot(m), index |-> l.index, order |-> ViewOf(l).order]
  BY <1>1, <1>3 DEF ViewOf
<1> QED BY <1>2, <1>4, <1>5 DEF ViewEdit, m

LEMMA ViewAtIsBlockAt ==
  ASSUME NEW l, IsLog(l), WellFormed(l), NEW id \in DOMAIN l.index
  PROVE  /\ ViewOf(l).index = l.index
         /\ ViewAt(ViewOf(l), id) = BlockAt(l, id)
<1>1. l.index[id] \in 1 .. Len(l.blocks)
  BY DEF IsLog, WellFormed
<1> QED BY <1>1 DEF ViewOf, Snapshot, BlockAt, ViewAt

LEMMA PatchMirrors ==
  ASSUME NEW l, IsLog(l), WellFormed(l), NEW id \in DOMAIN l.index,
         NEW patch \in BlockPatch, NEW rev
  PROVE  Mirrors(l, UpdateEvent(id, rev, patch), LogPatch(l, id, patch))
<1> DEFINE new == ApplyPatch(BlockAt(l, id), patch)
<1>1. new \in Block
  BY BlockAtType, ApplyPatchType
<1>2. ViewApply(ViewOf(l), UpdateEvent(id, rev, patch))
        = ViewEdit(ViewOf(l), id, new)
  <2>1. /\ ViewOf(l).index = l.index
        /\ ViewAt(ViewOf(l), id) = BlockAt(l, id)
    BY ViewAtIsBlockAt
  <2>2. /\ UpdateEvent(id, rev, patch).type = "Update"
        /\ UpdateEvent(id, rev, patch).id = id
        /\ UpdateEvent(id, rev, patch).patch = patch
    BY DEF UpdateEvent
  <2> QED BY <2>1, <2>2 DEF ViewApply
<1>3. ~ViewPanics(ViewOf(l), UpdateEvent(id, rev, patch))
  BY DEF ViewPanics, UpdateEvent
<1> QED BY <1>1, <1>2, <1>3, EditMirrors DEF Mirrors, LogPatch

LEMMA FinalizeMirrors ==
  ASSUME NEW l, IsLog(l), WellFormed(l), NEW id \in DOMAIN l.index, NEW rev
  PROVE  Mirrors(l, FinalizeEvent(id, rev), LogFinalize(l, id))
<1> DEFINE new == SetComplete(BlockAt(l, id))
<1>1. new \in Block
  BY BlockAtType, SetCompleteType
<1>2. ViewApply(ViewOf(l), FinalizeEvent(id, rev))
        = ViewEdit(ViewOf(l), id, new)
  <2>1. /\ ViewOf(l).index = l.index
        /\ ViewAt(ViewOf(l), id) = BlockAt(l, id)
    BY ViewAtIsBlockAt
  <2>2. /\ FinalizeEvent(id, rev).type = "Finalize"
        /\ FinalizeEvent(id, rev).id = id
    BY DEF FinalizeEvent
  <2> QED BY <2>1, <2>2 DEF ViewApply
<1>3. ~ViewPanics(ViewOf(l), FinalizeEvent(id, rev))
  BY DEF ViewPanics, FinalizeEvent
<1> QED BY <1>1, <1>2, <1>3, EditMirrors DEF Mirrors, LogFinalize

LEMMA TruncateMirrors ==
  ASSUME NEW l, IsLog(l), WellFormed(l), NEW from \in DOMAIN l.index
  PROVE  Mirrors(l, TruncateEvent(from), LogTruncate(l, from))
<1> DEFINE m == LogTruncate(l, from)
           v == ViewOf(l)
           n == Len(l.blocks)
           first == l.index[from]
           dropped == {l.blocks[i].id : i \in first .. n}
<1>1. /\ l.blocks \in Seq(Entry)
      /\ n \in Nat
      /\ first \in 1 .. n
  BY DEF IsLog, WellFormed
<1>2. /\ m.blocks = SubSeq(l.blocks, 1, first - 1)
      /\ m.index = Restrict(l.index, DOMAIN l.index \ dropped)
  BY DEF LogTruncate
<1>3. /\ Len(m.blocks) = first - 1
      /\ \A i \in 1 .. (first - 1) : m.blocks[i] = l.blocks[i]
  BY <1>1, <1>2
<1>4. /\ v.index = l.index
      /\ v.blocks = Snapshot(l)
      /\ v.order = [i \in 1 .. n |-> l.blocks[i].id]
      /\ Len(v.order) = n
      /\ {v.order[i] : i \in first .. Len(v.order)} = dropped
  <2>1. v.order = [i \in 1 .. n |-> l.blocks[i].id] /\ Len(v.order) = n
    BY <1>1 DEF ViewOf
  <2>2. \A i \in first .. n : v.order[i] = l.blocks[i].id
    BY <1>1, <2>1
  <2>3. v.index = l.index /\ v.blocks = Snapshot(l)
    BY DEF ViewOf
  <2> HIDE DEF v
  <2> QED BY <2>1, <2>2, <2>3
<1>5. Snapshot(m) = SubSeq(Snapshot(l), 1, first - 1)
  BY <1>1, <1>3 DEF Snapshot
<1>6. ViewOf(m).order = SubSeq(v.order, 1, first - 1)
  BY <1>1, <1>3 DEF ViewOf
<1>7. ViewApply(v, TruncateEvent(from)) = ViewTruncate(v, from)
  BY <1>4 DEF ViewApply, TruncateEvent
<1>8. ViewTruncate(v, from) = ViewOf(m)
  BY <1>2, <1>4, <1>5, <1>6 DEF ViewTruncate, ViewOf
<1>9. ~ViewPanics(v, TruncateEvent(from))
  BY <1>1, <1>4 DEF ViewPanics, TruncateEvent
<1> QED BY <1>7, <1>8, <1>9 DEF Mirrors

-----------------------------------------------------------------------------
(* Any view, seeded or not, keeps its type as long as apply does not panic. *)
ViewSound(v) == IsView(v) /\ Len(v.order) =< Len(v.blocks)

LEMMA SeedSound ==
  ASSUME NEW l, IsLog(l)
  PROVE  ViewSound(FromSnapshot(Snapshot(l)))
<1>1. l.blocks \in Seq(Entry)
  BY DEF IsLog
<1>2. \A i \in 1 .. Len(l.blocks) : l.blocks[i].block \in Block
  <2>1. \A i \in 1 .. Len(l.blocks) : l.blocks[i] \in Entry
    BY <1>1
  <2> QED BY <2>1 DEF Entry
<1>3. Snapshot(l) \in Seq(Block) /\ Len(Snapshot(l)) \in Nat
  BY <1>1, <1>2 DEF Snapshot
<1> QED BY <1>3 DEF FromSnapshot, ViewSound, IsView, IsIndex, BlockId

LEMMA ViewEditSound ==
  ASSUME NEW v, ViewSound(v), NEW id \in DOMAIN v.index, NEW block,
         v.index[id] \in 1 .. Len(v.blocks) => block \in Block
  PROVE  ViewSound(ViewEdit(v, id, block))
<1> DEFINE w == ViewEdit(v, id, block)
<1>1. /\ v.blocks \in Seq(Block)
      /\ v = [blocks |-> v.blocks, index |-> v.index, order |-> v.order]
      /\ v.order \in Seq(BlockId)
      /\ IsIndex(v.index)
  BY DEF ViewSound, IsView
<1>2. w = [blocks |-> [v.blocks EXCEPT ![v.index[id]] = block],
           index |-> v.index, order |-> v.order]
  BY DEF ViewEdit
<1> HIDE DEF w
<1>3. w.blocks \in Seq(Block) /\ Len(w.blocks) = Len(v.blocks)
  <2>1. CASE v.index[id] \in 1 .. Len(v.blocks)
    BY <1>1, <1>2, <2>1
  <2>2. CASE v.index[id] \notin 1 .. Len(v.blocks)
    <3>1. w.blocks = v.blocks
      BY <1>1, <1>2, <2>2
    <3> QED BY <1>1, <3>1
  <2> QED BY <2>1, <2>2
<1> QED BY <1>1, <1>2, <1>3 DEF ViewSound, IsView, w

LEMMA ViewApplySound ==
  ASSUME NEW v, ViewSound(v), NEW event \in BlockEvent, ~ViewPanics(v, event)
  PROVE  ViewSound(ViewApply(v, event))
<1>1. /\ v.blocks \in Seq(Block)
      /\ v.order \in Seq(BlockId)
      /\ DOMAIN v.index \subseteq BlockId
      /\ v.index \in [DOMAIN v.index -> Nat \ {0}]
      /\ Len(v.order) =< Len(v.blocks)
  BY DEF ViewSound, IsView, IsIndex
<1>2. event.id \in BlockId /\ event.type \in {"Append", "Update", "Finalize", "Truncate"}
  BY DEF BlockEvent
<1>3. CASE event.type = "Append"
  <2> DEFINE w == ViewAppend(v, event.id, event.kind)
             index == Put(v.index, event.id, Len(v.blocks) + 1)
  <2>1. event.kind \in BlockKind
    BY <1>3 DEF BlockEvent
  <2>2. EmptyBlock(event.kind) \in Block
    BY <2>1, EmptyBlockType
  <2>3. IsIndex(index)
    BY <1>1, <1>2 DEF Put, IsIndex, BlockId
  <2> HIDE DEF index
  <2>4. /\ w = [blocks |-> w.blocks, index |-> index, order |-> w.order]
        /\ w.blocks \in Seq(Block) /\ Len(w.blocks) = Len(v.blocks) + 1
        /\ w.order \in Seq(BlockId) /\ Len(w.order) = Len(v.order) + 1
    BY <1>1, <1>2, <2>2 DEF ViewAppend, index
  <2> HIDE DEF w
  <2>5. ViewSound(w)
    BY <1>1, <2>3, <2>4 DEF ViewSound, IsView
  <2> QED BY <1>3, <2>5 DEF ViewApply, w
<1>4. CASE event.type # "Append" /\ event.id \notin DOMAIN v.index
  BY <1>4 DEF ViewApply
<1>5. ASSUME event.type # "Append", event.id \in DOMAIN v.index,
             v.index[event.id] \in 1 .. Len(v.blocks)
      PROVE  ViewAt(v, event.id) \in Block
  BY <1>1, <1>5 DEF ViewAt
<1>6. CASE event.type = "Update" /\ event.id \in DOMAIN v.index
  <2> DEFINE new == ApplyPatch(ViewAt(v, event.id), event.patch)
  <2>1. event.patch \in BlockPatch
    BY <1>6 DEF BlockEvent
  <2>2. v.index[event.id] \in 1 .. Len(v.blocks) => new \in Block
    BY <1>5, <1>6, <2>1, ApplyPatchType
  <2> HIDE DEF new
  <2>3. ViewSound(ViewEdit(v, event.id, new))
    BY <1>6, <2>2, ViewEditSound
  <2> QED BY <1>6, <2>3 DEF ViewApply, new
<1>7. CASE event.type = "Finalize" /\ event.id \in DOMAIN v.index
  <2> DEFINE new == SetComplete(ViewAt(v, event.id))
  <2>1. v.index[event.id] \in 1 .. Len(v.blocks) => new \in Block
    BY <1>5, <1>7, SetCompleteType
  <2> HIDE DEF new
  <2>2. ViewSound(ViewEdit(v, event.id, new))
    BY <1>7, <2>1, ViewEditSound
  <2> QED BY <1>7, <2>2 DEF ViewApply, new
<1>8. CASE event.type = "Truncate" /\ event.id \in DOMAIN v.index
  <2> DEFINE w == ViewTruncate(v, event.id)
             first == v.index[event.id]
             dropped == {v.order[i] : i \in first .. Len(v.order)}
             index == Restrict(v.index, DOMAIN v.index \ dropped)
  <2>1. first \in Nat \ {0} /\ first - 1 =< Len(v.order)
    BY <1>1, <1>8 DEF ViewPanics
  <2>2. IsIndex(index)
    BY <1>1 DEF IsIndex, Restrict
  <2> HIDE DEF index
  <2>3. w = [blocks |-> SubSeq(v.blocks, 1, first - 1), index |-> index,
             order |-> SubSeq(v.order, 1, first - 1)]
    BY DEF ViewTruncate, index
  <2> HIDE DEF w, first
  <2>4. /\ w.blocks \in Seq(Block) /\ Len(w.blocks) = first - 1
        /\ w.order \in Seq(BlockId) /\ Len(w.order) = first - 1
    BY <1>1, <2>1, <2>3
  <2>5. ViewSound(w)
    BY <2>1, <2>2, <2>3, <2>4 DEF ViewSound, IsView
  <2> QED BY <1>8, <2>5 DEF ViewApply, w
<1> QED BY <1>2, <1>3, <1>4, <1>6, <1>7, <1>8

(* The view of the empty log is the view built from nothing. *)
LEMMA EmptyViews ==
  /\ ViewOf(EmptyLog) = DefaultView
  /\ \A l : IsLog(l) /\ WellFormed(l) /\ Len(l.blocks) = 0
        => FromSnapshot(Snapshot(l)) = ViewOf(l)
<1>1. ViewOf(EmptyLog) = DefaultView
  BY DEF ViewOf, EmptyLog, DefaultView, Snapshot
<1>2. ASSUME NEW l, IsLog(l), WellFormed(l), Len(l.blocks) = 0
      PROVE  FromSnapshot(Snapshot(l)) = ViewOf(l)
  <2>1. DOMAIN l.index = {} /\ l.index \in [DOMAIN l.index -> Nat \ {0}]
    BY <1>2 DEF WellFormed, IsLog, IsIndex
  <2>2. l.index = <<>>
    BY <2>1
  <2>3. [i \in 1 .. Len(l.blocks) |-> l.blocks[i].id] = <<>>
    BY <1>2
  <2> QED BY <2>2, <2>3 DEF FromSnapshot, ViewOf
<1> QED BY <1>1, <1>2

-----------------------------------------------------------------------------
(***************************************************************************)
(* Ids and revisions.                                                      *)
(***************************************************************************)
IsEditOf(event, id) == event.type \in {"Update", "Finalize"} /\ event.id = id

(* What an operation does to ids and revisions, and what its event says:   *)
(* a block keeps its revision, gains one by its edit, or begins with 0.    *)
Advances(l, event, m) ==
  /\ l.next_id <= m.next_id /\ event.id < m.next_id
  /\ event.type = "Append" => event.id = l.next_id
  /\ \A id \in DOMAIN m.index :
       \/ id \in DOMAIN l.index /\ Rev(m, id) = Rev(l, id) /\ ~IsEditOf(event, id)
       \/ id \in DOMAIN l.index /\ Rev(m, id) = Rev(l, id) + 1 /\ IsEditOf(event, id)
       \/ id = l.next_id /\ Rev(m, id) = 0 /\ ~IsEditOf(event, id)
  /\ event.type \in {"Update", "Finalize"} =>
       event.id \in DOMAIN m.index /\ event.rev = Rev(m, event.id)

LEMMA IndexShape ==
  ASSUME NEW l, IsLog(l), WellFormed(l), NEW id \in DOMAIN l.index
  PROVE  /\ l.blocks \in Seq(Entry)
         /\ l.index[id] \in 1 .. Len(l.blocks)
         /\ l.blocks[l.index[id]].id = id
         /\ l.next_id \in Nat /\ id \in Nat /\ id < l.next_id
         /\ Rev(l, id) \in Nat
<1>1. /\ l.blocks \in Seq(Entry) /\ l.index[id] \in 1 .. Len(l.blocks)
      /\ l.blocks[l.index[id]].id = id
      /\ id < l.next_id
  BY DEF IsLog, WellFormed
<1>2. l.blocks[l.index[id]] \in Entry
  BY <1>1
<1> QED BY <1>1, <1>2 DEF IsLog, IsIndex, BlockId, Rev, Entry

LEMMA AppendAdvances ==
  ASSUME NEW l, IsLog(l), WellFormed(l), NEW kind \in BlockKind
  PROVE  Advances(l, AppendEvent(l.next_id, kind), LogAppend(l, kind))
<1> DEFINE m == LogAppend(l, kind)
           n == Len(l.blocks)
           e == [id |-> l.next_id, rev |-> 0, block |-> EmptyBlock(kind)]
<1>1. l.blocks \in Seq(Entry) /\ n \in Nat /\ l.next_id \in Nat
  BY DEF IsLog
<1>2. e \in Entry
  BY <1>1, EmptyBlockType DEF Entry, BlockId
<1>3. /\ m.blocks = Append(l.blocks, e)
      /\ m.index = Put(l.index, l.next_id, n + 1)
      /\ m.next_id = l.next_id + 1
  BY DEF LogAppend
<1> HIDE DEF m, e
<1>4. m.blocks[n + 1] = e /\ \A i \in 1 .. n : m.blocks[i] = l.blocks[i]
  BY <1>1, <1>2, <1>3
<1>5. Rev(m, l.next_id) = 0 /\ l.next_id \in DOMAIN m.index
  BY <1>3, <1>4 DEF Rev, Put, e
<1>6. ASSUME NEW id \in DOMAIN m.index, id # l.next_id
      PROVE  id \in DOMAIN l.index /\ Rev(m, id) = Rev(l, id)
  <2>1. id \in DOMAIN l.index /\ m.index[id] = l.index[id]
    BY <1>3, <1>6 DEF Put
  <2>2. l.index[id] \in 1 .. n
    BY <2>1, IndexShape
  <2> QED BY <1>4, <2>1, <2>2 DEF Rev
<1> QED BY <1>1, <1>3, <1>5, <1>6 DEF Advances, AppendEvent, IsEditOf, m

LEMMA EditAdvances ==
  ASSUME NEW l, IsLog(l), WellFormed(l), NEW id \in DOMAIN l.index,
         NEW block \in Block, NEW event,
         event.type \in {"Update", "Finalize"}, event.id = id,
         event.rev = Rev(Edit(l, id, block), id)
  PROVE  Advances(l, event, Edit(l, id, block))
<1> DEFINE m == Edit(l, id, block)
<1>1. /\ l.index[id] \in 1 .. Len(l.blocks)
      /\ m = [blocks |-> m.blocks, index |-> l.index, next_id |-> l.next_id]
      /\ \A i \in 1 .. Len(l.blocks) : i # l.index[id] => m.blocks[i] = l.blocks[i]
  BY EditShape
<1>2. l.next_id \in Nat /\ id \in Nat /\ id < l.next_id
  BY IndexShape
<1>3. m.blocks[l.index[id]].rev = Rev(l, id) + 1
  <2> DEFINE e == [id |-> id, rev |-> Rev(l, id) + 1, block |-> block]
  <2>1. /\ l = [blocks |-> l.blocks, index |-> l.index, next_id |-> l.next_id]
        /\ l.blocks \in Seq(Entry)
    BY DEF IsLog
  <2>2. m.blocks = [l.blocks EXCEPT ![l.index[id]] = e]
    BY <2>1 DEF Edit
  <2> HIDE DEF m, e
  <2>3. m.blocks[l.index[id]] = e
    BY <1>1, <2>1, <2>2
  <2> QED BY <2>3 DEF e
<1> HIDE DEF m
<1>4. Rev(m, id) = Rev(l, id) + 1
  BY <1>1, <1>3 DEF Rev
<1>5. ASSUME NEW x \in DOMAIN l.index, x # id
      PROVE  Rev(m, x) = Rev(l, x)
  <2>1. l.index[x] \in 1 .. Len(l.blocks) /\ l.index[x] # l.index[id]
    BY <1>5, IndexShape
  <2> QED BY <1>1, <2>1 DEF Rev
<1>6. m.index = l.index /\ m.next_id = l.next_id
  BY <1>1
<1> QED BY <1>2, <1>4, <1>5, <1>6 DEF Advances, IsEditOf, m

LEMMA TruncateAdvances ==
  ASSUME NEW l, IsLog(l), WellFormed(l), NEW from \in DOMAIN l.index
  PROVE  Advances(l, TruncateEvent(from), LogTruncate(l, from))
<1> DEFINE m == LogTruncate(l, from)
           n == Len(l.blocks)
           first == l.index[from]
           dropped == {l.blocks[i].id : i \in first .. n}
<1>1. /\ l.blocks \in Seq(Entry) /\ n \in Nat /\ first \in 1 .. n
      /\ l.next_id \in Nat /\ from \in Nat /\ from < l.next_id
  BY IndexShape
<1>2. /\ m.blocks = SubSeq(l.blocks, 1, first - 1)
      /\ m.index = [x \in DOMAIN l.index \ dropped |-> l.index[x]]
      /\ m.next_id = l.next_id
  BY TruncateShape
<1> HIDE DEF m
<1>3. \A i \in 1 .. (first - 1) : m.blocks[i] = l.blocks[i]
  BY <1>1, <1>2
<1>4. ASSUME NEW id \in DOMAIN m.index
      PROVE  id \in DOMAIN l.index /\ Rev(m, id) = Rev(l, id)
  <2>1. id \in DOMAIN l.index /\ id \notin dropped /\ m.index[id] = l.index[id]
    BY <1>2
  <2>2. l.index[id] \in 1 .. n /\ l.blocks[l.index[id]].id = id
    BY <2>1, IndexShape
  <2>3. l.index[id] \in 1 .. (first - 1)
    BY <1>1, <2>1, <2>2
  <2> QED BY <1>3, <2>1, <2>3 DEF Rev
<1> QED BY <1>1, <1>2, <1>4 DEF Advances, TruncateEvent, IsEditOf, m
=============================================================================
