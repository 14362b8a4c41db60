-------------------------- MODULE BlockReplayProofs --------------------------
(***************************************************************************)
(* Proofs about BlockReplay, for every set of texts and options, every set *)
(* of block kinds and every length of the event stream.                    *)
(***************************************************************************)
EXTENDS BlockReplay, BlockLogProofs, FiniteSetTheorems

-----------------------------------------------------------------------------
(***************************************************************************)
(* The inductive invariant.  What makes the mirror inductive is the        *)
(* history: every event of the stream, replayed or still to come, turns    *)
(* the view of one version of the log into the view of the next.           *)
(***************************************************************************)
EventsMirror ==
  \A k \in 1 .. Len(events) : Mirrors(hist[k], events[k], hist[k + 1])

IInv ==
  /\ TypeOK
  /\ ViewSound(view)
  /\ hist[Len(events) + 1] = log
  /\ \A k \in DOMAIN hist : WellFormed(hist[k])
  /\ EventsMirror
  /\ FreshViewMirrors

LEMMA InitIInv == Init => IInv
<1> SUFFICES ASSUME Init PROVE IInv
  OBVIOUS
<1>1. ViewSound(DefaultView)
  BY DEF DefaultView, ViewSound, IsView, IsIndex, BlockId
<1>2. TypeOK
  <2>1. hist = <<EmptyLog>> /\ Len(events) = 0 /\ events \in Seq(BlockEvent)
    BY DEF Init
  <2>2. DOMAIN hist = 1 .. Len(events) + 1 /\ hist[1] = EmptyLog
    BY <2>1
  <2>3. \A k \in DOMAIN hist : IsLog(hist[k])
    BY <2>1, <2>2, EmptyLogSound
  <2>4. IsLog(log) /\ IsView(view)
    BY <1>1, EmptyLogSound DEF Init, ViewSound
  <2>5. pos \in 0 .. Len(events) /\ joined \in 0 .. pos /\ base \in Nat
    BY <2>1 DEF Init
  <2>6. panicked \in BOOLEAN
    BY DEF Init
  <2> QED BY <2>1, <2>2, <2>3, <2>4, <2>5, <2>6, Zenon DEF TypeOK
<1> QED BY <1>1, <1>2, EmptyLogSound, EmptyViews DEF Init, IInv, EventsMirror, FreshViewMirrors

(* Publishing an event that mirrors the step of the log keeps IInv.        *)
LEMMA PublishIInv ==
  ASSUME IInv, NEW event \in BlockEvent, NEW after,
         IsLog(after), WellFormed(after), Mirrors(log, event, after),
         Publish(event, after)
  PROVE  IInv'
<1> DEFINE n == Len(events)
<1>1. /\ events \in Seq(BlockEvent) /\ n \in Nat
      /\ DOMAIN hist = 1 .. n + 1
      /\ pos \in 0 .. n /\ joined \in 0 .. pos /\ base \in Nat /\ panicked \in BOOLEAN
      /\ hist[n + 1] = log
  BY DEF IInv, TypeOK
<1>2. /\ log' = after
      /\ events' = Append(events, event)
      /\ hist' = Append(hist, after)
      /\ view' = view /\ pos' = pos /\ joined' = joined /\ base' = base
      /\ panicked' = panicked
  BY DEF Publish, consumer
<1>3. /\ events' \in Seq(BlockEvent)
      /\ Len(events') = n + 1
      /\ events'[n + 1] = event
      /\ \A k \in 1 .. n : events'[k] = events[k]
  BY <1>1, <1>2
<1>4. /\ DOMAIN hist' = 1 .. n + 2
      /\ hist'[n + 2] = after
      /\ \A k \in 1 .. n + 1 : hist'[k] = hist[k]
  BY <1>1, <1>2
<1>5. TypeOK'
  BY <1>1, <1>2, <1>3, <1>4 DEF IInv, TypeOK
<1>6. \A k \in DOMAIN hist' : WellFormed(hist'[k])
  BY <1>1, <1>4 DEF IInv
<1>7. EventsMirror'
  BY <1>1, <1>3, <1>4 DEF IInv, EventsMirror
<1>8. FreshViewMirrors'
  BY <1>1, <1>2, <1>4 DEF IInv, FreshViewMirrors
<1> QED BY <1>2, <1>3, <1>4, <1>5, <1>6, <1>7, <1>8 DEF IInv

LEMMA ProduceIInv == IInv /\ Produce => IInv'
<1> SUFFICES ASSUME IInv, Produce PROVE IInv'
  OBVIOUS
<1>1. IsLog(log) /\ WellFormed(log)
  BY DEF IInv, TypeOK
<1>2. log.next_id \in Nat /\ \A id \in DOMAIN log.index : id \in BlockId
  BY <1>1 DEF IsLog, IsIndex
<1>3. ASSUME NEW l, IsLog(l), WellFormed(l), NEW id \in DOMAIN l.index
      PROVE  Rev(l, id) \in Nat
  <2>1. l.blocks \in Seq(Entry) /\ l.index[id] \in 1 .. Len(l.blocks)
    BY <1>3 DEF IsLog, WellFormed
  <2>2. l.blocks[l.index[id]] \in Entry
    BY <2>1
  <2> QED BY <2>2 DEF Rev, Entry
<1>4. ASSUME NEW id \in DOMAIN log.index, NEW block \in Block
      PROVE  id \in DOMAIN Edit(log, id, block).index
  BY <1>1, EditShape
<1>5. ASSUME NEW kind \in Kinds, AppendBlock(kind)
      PROVE  IInv'
  <2>1. kind \in BlockKind
    BY KindsAssumption
  <2>2. AppendEvent(log.next_id, kind) \in BlockEvent
    BY <1>2, <2>1 DEF AppendEvent, BlockEvent, BlockId
  <2> QED BY <1>1, <1>5, <2>1, <2>2, AppendSound, AppendMirrors, PublishIInv DEF AppendBlock
<1>6. ASSUME NEW id \in DOMAIN log.index, NEW patch \in BlockPatch, PatchBlock(id, patch)
      PROVE  IInv'
  <2> DEFINE after == LogPatch(log, id, patch)
             event == UpdateEvent(id, Rev(after, id), patch)
  <2>1. IsLog(after) /\ WellFormed(after) /\ Mirrors(log, event, after)
    BY <1>1, PatchSound, PatchMirrors
  <2>2. id \in DOMAIN after.index
    BY <1>1, <1>4, BlockAtType, ApplyPatchType DEF LogPatch
  <2>3. event \in BlockEvent
    BY <1>2, <1>3, <2>1, <2>2 DEF UpdateEvent, BlockEvent
  <2> QED BY <1>6, <2>1, <2>3, PublishIInv DEF PatchBlock
<1>7. ASSUME NEW id \in DOMAIN log.index, FinalizeBlock(id)
      PROVE  IInv'
  <2> DEFINE after == LogFinalize(log, id)
             event == FinalizeEvent(id, Rev(after, id))
  <2>1. IsLog(after) /\ WellFormed(after) /\ Mirrors(log, event, after)
    BY <1>1, FinalizeSound, FinalizeMirrors
  <2>2. id \in DOMAIN after.index
    BY <1>1, <1>4, BlockAtType, SetCompleteType DEF LogFinalize
  <2>3. event \in BlockEvent
    BY <1>2, <1>3, <2>1, <2>2 DEF FinalizeEvent, BlockEvent
  <2> QED BY <1>7, <2>1, <2>3, PublishIInv DEF FinalizeBlock
<1>8. ASSUME NEW id \in DOMAIN log.index, TruncateFrom(id)
      PROVE  IInv'
  <2>1. TruncateEvent(id) \in BlockEvent
    BY <1>2 DEF TruncateEvent, BlockEvent
  <2> QED BY <1>1, <1>8, <2>1, TruncateSound, TruncateMirrors, PublishIInv DEF TruncateFrom
<1> QED BY <1>5, <1>6, <1>7, <1>8 DEF Produce

LEMMA SeedIInv == IInv /\ Seed => IInv'
<1> SUFFICES ASSUME IInv, Seed PROVE IInv'
  OBVIOUS
<1>1. /\ IsLog(log) /\ WellFormed(log)
      /\ events \in Seq(BlockEvent) /\ Len(events) \in Nat
      /\ log.blocks \in Seq(Entry)
  BY DEF IInv, TypeOK, IsLog
<1>2. /\ view' = FromSnapshot(Snapshot(log))
      /\ pos' = Len(events) /\ joined' = Len(events)
      /\ base' = Len(log.blocks) /\ panicked' = FALSE
      /\ log' = log /\ events' = events /\ hist' = hist
  BY DEF Seed, producer
<1>3. ViewSound(view')
  BY <1>1, <1>2, SeedSound
<1>4. TypeOK'
  <2>1. IsLog(log') /\ IsView(view')
    BY <1>1, <1>2, <1>3 DEF ViewSound
  <2>2. DOMAIN hist' = 1 .. Len(events') + 1 /\ \A k \in DOMAIN hist' : IsLog(hist'[k])
    BY <1>2 DEF IInv, TypeOK
  <2>3. pos' \in 0 .. Len(events') /\ joined' \in 0 .. pos' /\ base' \in Nat
    BY <1>1, <1>2
  <2> QED BY <1>1, <1>2, <2>1, <2>2, <2>3 DEF TypeOK
<1>5. FreshViewMirrors'
  BY <1>1, <1>2, EmptyViews DEF IInv, FreshViewMirrors
<1> QED BY <1>2, <1>3, <1>4, <1>5 DEF IInv, EventsMirror

LEMMA ReplayIInv == IInv /\ Replay => IInv'
<1> SUFFICES ASSUME IInv, Replay PROVE IInv'
  OBVIOUS
<1> DEFINE event == events[pos + 1]
<1>1. /\ events \in Seq(BlockEvent) /\ pos \in 0 .. Len(events)
      /\ joined \in 0 .. pos /\ base \in Nat
      /\ pos < Len(events) /\ ~panicked
      /\ pos' = pos + 1 /\ joined' = joined /\ base' = base
      /\ log' = log /\ events' = events /\ hist' = hist
  BY DEF IInv, TypeOK, Replay, producer
<1>2. event \in BlockEvent /\ Mirrors(hist[pos + 1], event, hist[pos + 2])
  BY <1>1 DEF IInv, EventsMirror
<1>3. \/ ViewPanics(view, event) /\ panicked' = TRUE /\ view' = view
      \/ ~ViewPanics(view, event) /\ panicked' = panicked /\ view' = ViewApply(view, event)
  BY DEF Replay
<1>4. ViewSound(view')
  BY <1>2, <1>3, ViewApplySound DEF IInv
<1>5. TypeOK'
  <2>1. IsLog(log') /\ IsView(view')
    BY <1>1, <1>4 DEF IInv, TypeOK, ViewSound
  <2>2. DOMAIN hist' = 1 .. Len(events') + 1 /\ \A k \in DOMAIN hist' : IsLog(hist'[k])
    BY <1>1 DEF IInv, TypeOK
  <2>3. pos' \in 0 .. Len(events') /\ joined' \in 0 .. pos'
    BY <1>1
  <2>4. panicked' \in BOOLEAN
    BY <1>3 DEF IInv, TypeOK
  <2> QED BY <1>1, <2>1, <2>2, <2>3, <2>4 DEF TypeOK
<1>6. FreshViewMirrors'
  <2> SUFFICES ASSUME base = 0 PROVE ~panicked' /\ view' = ViewOf(hist[pos + 2])
    BY <1>1 DEF FreshViewMirrors
  <2>1. view = ViewOf(hist[pos + 1])
    BY DEF IInv, FreshViewMirrors
  <2> QED BY <1>1, <1>2, <1>3, <2>1 DEF Mirrors
<1> QED BY <1>1, <1>4, <1>5, <1>6 DEF IInv, EventsMirror

LEMMA StutterIInv == IInv /\ UNCHANGED vars => IInv'
  BY DEF IInv, vars, producer, consumer, TypeOK, EventsMirror, FreshViewMirrors

THEOREM InvariantHolds == Spec => []IInv
  BY InitIInv, ProduceIInv, SeedIInv, ReplayIInv, StutterIInv, PTL DEF Spec, Next

(* Every value the log, the stream and the view take is well typed:        *)
(* stream.rs:14-18 and 80-84, for every text, option, kind and bound.      *)
THEOREM TypeCorrect == Spec => []TypeOK
<1>1. IInv => TypeOK
  BY DEF IInv
<1> QED BY <1>1, InvariantHolds, PTL

(* The log's index always inverts its sequence of blocks (stream.rs:14-61). *)
THEOREM LogConsistent == Spec => []IndexConsistent
<1>1. IInv => IndexConsistent
  BY DEF IInv, TypeOK, IndexConsistent
<1> QED BY <1>1, InvariantHolds, PTL

(* A view built from the event stream alone never panics and is, after     *)
(* every event, exactly the log that event left (stream.rs:103-131).       *)
THEOREM ReplayIsExact == Spec => []FreshViewMirrors
<1>1. IInv => FreshViewMirrors
  BY DEF IInv
<1> QED BY <1>1, InvariantHolds, PTL

-----------------------------------------------------------------------------
(***************************************************************************)
(* The numbers an event carries: the id of its block and the revision.     *)
(***************************************************************************)
(* All events are about ids the log has given out, and a block's revision  *)
(* is the number of its edits in the stream.                               *)
EventsBelow == \A i \in 1 .. Len(events) : events[i].id < log.next_id

RevisionsCount ==
  \A id \in DOMAIN log.index : Rev(log, id) = Cardinality(Edits(id, Len(events)))

CountInv == EventsBelow /\ RevisionsCount /\ IdsNeverReused /\ RevisionsGapless

-----------------------------------------------------------------------------
(* Counting the edits of a block in a stream.                              *)
EditsIn(stream, id, k) == {i \in 1 .. k : IsEditOf(stream[i], id)}

LEMMA EditsAreIn == \A id, k : Edits(id, k) = EditsIn(events, id, k)
  BY DEF Edits, EditsIn, IsEditOf

LEMMA EditsFinite ==
  ASSUME NEW stream, NEW id, NEW k \in Nat
  PROVE  /\ IsFiniteSet(EditsIn(stream, id, k))
         /\ k + 1 \notin EditsIn(stream, id, k)
<1>1. IsFiniteSet(1 .. k)
  BY FS_Interval
<1>2. EditsIn(stream, id, k) \in SUBSET (1 .. k)
  BY DEF EditsIn
<1>3. k + 1 \notin 1 .. k
  OBVIOUS
<1> QED BY <1>1, <1>2, <1>3, FS_Subset

(* Publishing an event that advances the log keeps the numbers right.      *)
LEMMA PublishCounts ==
  ASSUME IInv, CountInv, NEW event \in BlockEvent, NEW after,
         IsLog(after), Advances(log, event, after), Publish(event, after)
  PROVE  CountInv'
<1> DEFINE n == Len(events)
           t == events'
<1>1. events \in Seq(BlockEvent) /\ n \in Nat /\ IsLog(log) /\ WellFormed(log)
  BY DEF IInv, TypeOK
<1>2. log' = after /\ t = Append(events, event)
  BY DEF Publish
<1>3. /\ Len(t) = n + 1
      /\ t[n + 1] = event
      /\ \A k \in 1 .. n : t[k] = events[k]
  BY <1>1, <1>2
<1>4. /\ \A k \in 1 .. n : events[k].id \in Nat
      /\ event.id \in Nat /\ log.next_id \in Nat /\ after.next_id \in Nat
  <2>1. \A k \in 1 .. n : events[k] \in BlockEvent
    BY <1>1
  <2> QED BY <1>1, <2>1 DEF BlockEvent, BlockId, IsLog
<1> HIDE DEF n, t
<1>5. /\ \A id : \A k \in 1 .. n : EditsIn(t, id, k) = EditsIn(events, id, k)
      /\ \A id : EditsIn(t, id, n + 1) =
                  IF IsEditOf(event, id) THEN EditsIn(events, id, n) \cup {n + 1}
                                         ELSE EditsIn(events, id, n)
  BY <1>1, <1>3 DEF EditsIn
<1> USE DEF n, t
<1>6. EventsBelow'
  BY <1>1, <1>2, <1>3, <1>4 DEF CountInv, EventsBelow, Advances
<1>7. ASSUME NEW i \in 1 .. n + 1, NEW j \in 1 .. n + 1, i < j,
             t[i].type = "Append", t[j].type = "Append"
      PROVE  t[i].id < t[j].id
  <2>1. i \in 1 .. n /\ t[i] = events[i]
    BY <1>1, <1>3, <1>7
  <2>2. CASE j \in 1 .. n
    BY <1>3, <1>7, <2>1, <2>2 DEF CountInv, IdsNeverReused
  <2>3. CASE j = n + 1
    BY <1>3, <1>7, <2>1, <2>3 DEF CountInv, EventsBelow, Advances
  <2> QED BY <1>1, <2>2, <2>3
<1>8. IdsNeverReused'
  BY <1>3, <1>7 DEF IdsNeverReused
<1>9. ASSUME NEW id \in DOMAIN after.index
      PROVE  Rev(after, id) = Cardinality(EditsIn(t, id, n + 1))
  <2>1. id \in DOMAIN log.index => Rev(log, id) = Cardinality(EditsIn(events, id, n))
    BY EditsAreIn DEF CountInv, RevisionsCount
  <2>2. CASE id \in DOMAIN log.index /\ Rev(after, id) = Rev(log, id) /\ ~IsEditOf(event, id)
    BY <1>1, <1>3, <2>1, <2>2, <1>5
  <2>3. CASE /\ id \in DOMAIN log.index
             /\ Rev(after, id) = Rev(log, id) + 1 /\ IsEditOf(event, id)
    <3>1. /\ Cardinality(EditsIn(events, id, n) \cup {n + 1})
               = Cardinality(EditsIn(events, id, n)) + 1
      BY <1>1, EditsFinite, FS_AddElement
    <3>2. EditsIn(t, id, n + 1) = EditsIn(events, id, n) \cup {n + 1}
      BY <1>1, <1>3, <2>3, <1>5
    <3> QED BY <2>1, <2>3, <3>1, <3>2
  <2>4. CASE id = log.next_id /\ Rev(after, id) = 0 /\ ~IsEditOf(event, id)
    <3>1. EditsIn(events, id, n) = {}
      BY <1>1, <1>4, <2>4 DEF EditsIn, IsEditOf, CountInv, EventsBelow
    <3>2. EditsIn(t, id, n + 1) = {}
      BY <1>1, <1>3, <2>4, <3>1, <1>5
    <3> QED BY <2>4, <3>2, FS_EmptySet
  <2> QED BY <2>2, <2>3, <2>4 DEF Advances
<1>10. \A id, k : EditsIn(t, id, k) = Edits(id, k)'
  BY DEF Edits, EditsIn, IsEditOf
<1>11. RevisionsCount'
  BY <1>2, <1>3, <1>9, <1>10 DEF RevisionsCount
<1>12. ASSUME NEW k \in 1 .. n + 1, t[k].type \in {"Update", "Finalize"}
       PROVE  t[k].rev = Cardinality(EditsIn(t, t[k].id, k))
  <2>1. CASE k \in 1 .. n
    <3>1. events[k].rev = Cardinality(EditsIn(events, events[k].id, k))
      BY <1>3, <1>12, <2>1, EditsAreIn DEF CountInv, RevisionsGapless
    <3> QED BY <1>1, <1>3, <2>1, <3>1, <1>5
  <2>2. CASE k = n + 1
    <3>1. event.id \in DOMAIN after.index /\ event.rev = Rev(after, event.id)
      BY <1>3, <1>12, <2>2 DEF Advances
    <3> QED BY <1>3, <1>9, <2>2, <3>1
  <2> QED BY <1>1, <2>1, <2>2
<1>13. RevisionsGapless'
  BY <1>3, <1>10, <1>12 DEF RevisionsGapless
<1> QED BY <1>6, <1>8, <1>11, <1>13 DEF CountInv

LEMMA InitCounts == Init => CountInv
<1> SUFFICES ASSUME Init PROVE CountInv
  OBVIOUS
<1>1. Len(events) = 0 /\ DOMAIN log.index = {}
  BY DEF Init, EmptyLog
<1> QED BY <1>1 DEF CountInv, EventsBelow, RevisionsCount, IdsNeverReused, RevisionsGapless

LEMMA ProduceCounts == IInv /\ CountInv /\ Produce => CountInv'
<1> SUFFICES ASSUME IInv, CountInv, Produce PROVE CountInv'
  OBVIOUS
<1>1. IsLog(log) /\ WellFormed(log) /\ log.next_id \in Nat
  BY DEF IInv, TypeOK, IsLog
<1>2. ASSUME NEW kind \in Kinds, AppendBlock(kind) PROVE CountInv'
  <2>1. kind \in BlockKind
    BY KindsAssumption
  <2>2. AppendEvent(log.next_id, kind) \in BlockEvent
    BY <1>1, <2>1 DEF AppendEvent, BlockEvent, BlockId
  <2> QED BY <1>1, <1>2, <2>1, <2>2, AppendSound, AppendAdvances, PublishCounts
          DEF AppendBlock
<1>3. ASSUME NEW id \in DOMAIN log.index, NEW patch \in BlockPatch, PatchBlock(id, patch)
      PROVE  CountInv'
  <2> DEFINE after == LogPatch(log, id, patch)
             event == UpdateEvent(id, Rev(after, id), patch)
  <2>1. IsLog(after) /\ WellFormed(after) /\ id \in DOMAIN after.index
    BY <1>1, PatchSound, EditShape, BlockAtType, ApplyPatchType DEF LogPatch
  <2>2. event \in BlockEvent
    BY <2>1, IndexShape DEF UpdateEvent, BlockEvent, BlockId
  <2>3. Advances(log, event, after)
    BY <1>1, BlockAtType, ApplyPatchType, EditAdvances DEF UpdateEvent, LogPatch
  <2> QED BY <1>3, <2>1, <2>2, <2>3, PublishCounts DEF PatchBlock
<1>4. ASSUME NEW id \in DOMAIN log.index, FinalizeBlock(id) PROVE CountInv'
  <2> DEFINE after == LogFinalize(log, id)
             event == FinalizeEvent(id, Rev(after, id))
  <2>1. IsLog(after) /\ WellFormed(after) /\ id \in DOMAIN after.index
    BY <1>1, FinalizeSound, EditShape, BlockAtType, SetCompleteType DEF LogFinalize
  <2>2. event \in BlockEvent
    BY <2>1, IndexShape DEF FinalizeEvent, BlockEvent, BlockId
  <2>3. Advances(log, event, after)
    BY <1>1, BlockAtType, SetCompleteType, EditAdvances DEF FinalizeEvent, LogFinalize
  <2> QED BY <1>4, <2>1, <2>2, <2>3, PublishCounts DEF FinalizeBlock
<1>5. ASSUME NEW id \in DOMAIN log.index, TruncateFrom(id) PROVE CountInv'
  <2>1. TruncateEvent(id) \in BlockEvent
    BY <1>1, IndexShape DEF TruncateEvent, BlockEvent, BlockId
  <2> QED BY <1>1, <1>5, <2>1, TruncateSound, TruncateAdvances, PublishCounts
          DEF TruncateFrom
<1> QED BY <1>2, <1>3, <1>4, <1>5 DEF Produce

LEMMA CountsInductive == IInv /\ CountInv /\ [Next]_vars => CountInv'
<1>1. UNCHANGED <<log, events>> /\ CountInv => CountInv'
  BY DEF CountInv, EventsBelow, RevisionsCount, IdsNeverReused, RevisionsGapless, Edits
<1>2. Seed \/ Replay \/ UNCHANGED vars => UNCHANGED <<log, events>>
  BY DEF Seed, Replay, vars, producer
<1> QED BY <1>1, <1>2, ProduceCounts DEF Next

-----------------------------------------------------------------------------
(* Ids and revisions keep to the log at every step of the stream           *)
(* (stream.rs:20-61).                                                      *)
THEOREM CountsHold == Spec => []CountInv
  BY InitCounts, CountsInductive, InvariantHolds, PTL DEF Spec

(* An id names one block for ever, also when a truncation dropped the      *)
(* newest blocks before the next append (block.rs:9, stream.rs:20-61).     *)
THEOREM IdsAreFresh == Spec => []IdsNeverReused
<1>1. CountInv => IdsNeverReused
  BY DEF CountInv
<1> QED BY <1>1, CountsHold, PTL

(* The revision an event carries is the number of the block's edits so     *)
(* far: none is skipped and none counted twice (block.rs:13).              *)
THEOREM RevisionsCountEdits == Spec => []RevisionsGapless
<1>1. CountInv => RevisionsGapless
  BY DEF CountInv
<1> QED BY <1>1, CountsHold, PTL

-----------------------------------------------------------------------------
(***************************************************************************)
(* A view seeded with a snapshot, beside the view that replayed the stream *)
(* from its start.                                                         *)
(***************************************************************************)
(* v has the blocks of w, except that the first b are still those of the   *)
(* snapshot, and it knows the ids of the others only.                      *)
Follows(v, w, b, seed) ==
  /\ b \in 0 .. Len(w.blocks)
  /\ Len(v.blocks) = Len(w.blocks)
  /\ \A i \in 1 .. Len(w.blocks) : v.blocks[i] = IF i =< b THEN seed[i] ELSE w.blocks[i]
  /\ DOMAIN v.index \subseteq DOMAIN w.index
  /\ \A id \in DOMAIN v.index : v.index[id] = w.index[id] /\ w.index[id] > b
  /\ \A id \in DOMAIN w.index \ DOMAIN v.index : w.index[id] =< b

Located(w) == IsView(w) /\ \A id \in DOMAIN w.index : w.index[id] \in 1 .. Len(w.blocks)

LEMMA FollowsAppend ==
  ASSUME NEW v, IsView(v), NEW w, Located(w), NEW b, NEW seed, Follows(v, w, b, seed),
         NEW id \in BlockId, NEW kind \in BlockKind
  PROVE  Follows(ViewAppend(v, id, kind), ViewAppend(w, id, kind), b, seed)
<1> DEFINE n == Len(w.blocks)
           x == ViewAppend(v, id, kind)
           y == ViewAppend(w, id, kind)
<1>1. v.blocks \in Seq(Block) /\ w.blocks \in Seq(Block) /\ n \in Nat /\ Len(v.blocks) = n
      /\ b \in 0 .. n
  BY DEF Located, IsView, Follows
<1>2. /\ x.blocks = Append(v.blocks, EmptyBlock(kind)) /\ x.index = Put(v.index, id, n + 1)
      /\ y.blocks = Append(w.blocks, EmptyBlock(kind)) /\ y.index = Put(w.index, id, n + 1)
  BY <1>1 DEF ViewAppend
<1>3. /\ Len(x.blocks) = n + 1 /\ Len(y.blocks) = n + 1
      /\ x.blocks[n + 1] = EmptyBlock(kind) /\ y.blocks[n + 1] = EmptyBlock(kind)
      /\ \A i \in 1 .. n : x.blocks[i] = v.blocks[i] /\ y.blocks[i] = w.blocks[i]
  BY <1>1, <1>2
<1>4. /\ DOMAIN x.index = DOMAIN v.index \cup {id}
      /\ DOMAIN y.index = DOMAIN w.index \cup {id}
      /\ x.index[id] = n + 1 /\ y.index[id] = n + 1
      /\ \A k \in DOMAIN v.index : k # id => x.index[k] = v.index[k]
      /\ \A k \in DOMAIN w.index : k # id => y.index[k] = w.index[k]
  BY <1>2 DEF Put
<1> HIDE DEF x, y, n
<1>5. \A i \in 1 .. n : v.blocks[i] = IF i =< b THEN seed[i] ELSE w.blocks[i]
  BY DEF Follows, n
<1>6. ASSUME NEW i \in 1 .. n + 1
      PROVE  x.blocks[i] = IF i =< b THEN seed[i] ELSE y.blocks[i]
  <2>1. CASE i = n + 1
    BY <1>1, <1>3, <2>1
  <2>2. CASE i \in 1 .. n
    BY <1>3, <1>5, <2>2
  <2> QED BY <1>1, <2>1, <2>2
<1>7. \A k \in DOMAIN x.index : x.index[k] = y.index[k] /\ y.index[k] > b
  <2> TAKE k \in DOMAIN x.index
  <2>1. CASE k = id
    BY <1>1, <1>4, <2>1
  <2>2. CASE k # id
    <3>1. k \in DOMAIN v.index /\ k \in DOMAIN w.index
      BY <1>4, <2>2 DEF Follows
    <3> QED BY <1>4, <2>2, <3>1 DEF Follows
  <2> QED BY <2>1, <2>2
<1>8. \A k \in DOMAIN y.index \ DOMAIN x.index : y.index[k] =< b
  BY <1>4 DEF Follows
<1>9. DOMAIN x.index \subseteq DOMAIN y.index
  BY <1>4 DEF Follows
<1>10. b \in 0 .. n + 1
  BY <1>1
<1> QED BY <1>3, <1>6, <1>7, <1>8, <1>9, <1>10 DEF Follows, x, y

LEMMA ViewEditShape ==
  ASSUME NEW v, IsView(v), NEW id \in DOMAIN v.index, NEW block
  PROVE  LET x == ViewEdit(v, id, block)
         IN /\ x.index = v.index /\ Len(x.blocks) = Len(v.blocks)
            /\ \A i \in 1 .. Len(v.blocks) :
                 x.blocks[i] = IF i = v.index[id] THEN block ELSE v.blocks[i]
<1>1. v.blocks \in Seq(Block)
  BY DEF IsView
<1> QED BY <1>1 DEF ViewEdit

(* An edit reaches both views, or only the one that knows the block. *)
LEMMA FollowsEdit ==
  ASSUME NEW v, IsView(v), NEW w, Located(w), NEW b, NEW seed, Follows(v, w, b, seed),
         NEW id \in DOMAIN w.index, NEW block
  PROVE  Follows(IF id \in DOMAIN v.index THEN ViewEdit(v, id, block) ELSE v,
                 ViewEdit(w, id, block), b, seed)
<1> DEFINE x == ViewEdit(v, id, block)
           y == ViewEdit(w, id, block)
           n == Len(w.blocks)
<1>1. /\ n \in Nat /\ Len(v.blocks) = n /\ b \in 0 .. n /\ w.index[id] \in 1 .. n
  BY DEF Located, IsView, Follows
<1>2. /\ y.index = w.index /\ Len(y.blocks) = n
      /\ \A i \in 1 .. n : y.blocks[i] = IF i = w.index[id] THEN block ELSE w.blocks[i]
  BY ViewEditShape DEF Located
<1>3. \A i \in 1 .. n : v.blocks[i] = IF i =< b THEN seed[i] ELSE w.blocks[i]
  BY DEF Follows
<1> HIDE DEF n, x, y
<1>4. CASE id \in DOMAIN v.index
  <2>1. /\ x.index = v.index /\ Len(x.blocks) = n
        /\ \A i \in 1 .. n : x.blocks[i] = IF i = v.index[id] THEN block ELSE v.blocks[i]
    BY <1>1, <1>4, ViewEditShape DEF x
  <2>2. v.index[id] = w.index[id] /\ w.index[id] > b
    BY <1>4 DEF Follows
  <2>3. \A i \in 1 .. n : x.blocks[i] = IF i =< b THEN seed[i] ELSE y.blocks[i]
    BY <1>1, <1>2, <1>3, <2>1, <2>2
  <2>4. Follows(x, y, b, seed)
    BY <1>1, <1>2, <2>1, <2>3 DEF Follows
  <2> QED BY <1>4, <2>4 DEF x, y
<1>5. CASE id \notin DOMAIN v.index
  <2>1. w.index[id] =< b
    BY <1>5 DEF Follows
  <2>2. \A i \in 1 .. n : v.blocks[i] = IF i =< b THEN seed[i] ELSE y.blocks[i]
    BY <1>1, <1>2, <1>3, <2>1
  <2>3. Follows(v, y, b, seed)
    BY <1>1, <1>2, <2>2 DEF Follows
  <2> QED BY <1>5, <2>3 DEF y
<1> QED BY <1>4, <1>5

(* The seeded view keeps following, up to the next truncation. *)
LEMMA FollowsApply ==
  ASSUME NEW v, IsView(v), NEW w, Located(w), NEW b, NEW seed, Follows(v, w, b, seed),
         NEW event \in BlockEvent, event.type # "Truncate"
  PROVE  ~ViewPanics(v, event) /\ Follows(ViewApply(v, event), ViewApply(w, event), b, seed)
<1>1. ~ViewPanics(v, event)
  BY DEF ViewPanics
<1>2. CASE event.type = "Append"
  <2>1. event.id \in BlockId /\ event.kind \in BlockKind
    BY <1>2 DEF BlockEvent
  <2>2. /\ ViewApply(v, event) = ViewAppend(v, event.id, event.kind)
        /\ ViewApply(w, event) = ViewAppend(w, event.id, event.kind)
    BY <1>2 DEF ViewApply
  <2> QED BY <1>1, <2>1, <2>2, FollowsAppend
<1>3. CASE event.type # "Append" /\ event.id \notin DOMAIN w.index
  <2>1. event.id \notin DOMAIN v.index
    BY <1>3 DEF Follows
  <2>2. ViewApply(v, event) = v /\ ViewApply(w, event) = w
    BY <1>3, <2>1 DEF ViewApply
  <2> QED BY <1>1, <2>2
<1>4. CASE event.type \in {"Update", "Finalize"} /\ event.id \in DOMAIN w.index
  <2> DEFINE id == event.id
             Change(old) == IF event.type = "Update" THEN ApplyPatch(old, event.patch)
                                                     ELSE SetComplete(old)
             block == Change(ViewAt(w, id))
  <2>1. ViewApply(w, event) = ViewEdit(w, id, block)
    BY <1>4 DEF ViewApply
  <2>2. id \in DOMAIN v.index => ViewAt(v, id) = ViewAt(w, id)
    BY DEF Follows, ViewAt, Located, IsView
  <2>3. ViewApply(v, event) = IF id \in DOMAIN v.index THEN ViewEdit(v, id, block) ELSE v
    BY <1>4, <2>2 DEF ViewApply
  <2> HIDE DEF block
  <2> QED BY <1>1, <1>4, <2>1, <2>3, FollowsEdit
<1> QED BY <1>2, <1>3, <1>4 DEF BlockEvent

SeedBlocks == [i \in 1 .. base |-> hist[joined + 1].blocks[i].block]

SeedInv ==
  ~TruncatedSinceJoined => ~panicked /\ Follows(view, ViewOf(hist[pos + 1]), base, SeedBlocks)

LEMMA ViewOfLocated ==
  ASSUME NEW l, IsLog(l), WellFormed(l)
  PROVE  /\ Located(ViewOf(l)) /\ ViewOf(l).index = l.index
         /\ Len(ViewOf(l).blocks) = Len(l.blocks)
         /\ \A i \in 1 .. Len(l.blocks) : ViewOf(l).blocks[i] = l.blocks[i].block
<1>1. l.blocks \in Seq(Entry) /\ Len(l.blocks) \in Nat /\ IsIndex(l.index)
  BY DEF IsLog
<1>2. \A i \in 1 .. Len(l.blocks) : l.blocks[i] \in Entry
  BY <1>1
<1>3. Snapshot(l) \in Seq(Block) /\ Len(Snapshot(l)) = Len(l.blocks)
      /\ \A i \in 1 .. Len(l.blocks) : Snapshot(l)[i] = l.blocks[i].block
  <2>1. \A i \in 1 .. Len(l.blocks) : l.blocks[i].block \in Block
    BY <1>2 DEF Entry
  <2> QED BY <1>1, <2>1 DEF Snapshot
<1>4. ViewOf(l).order \in Seq(BlockId)
  <2>1. \A i \in 1 .. Len(l.blocks) : l.blocks[i].id \in BlockId
    BY <1>2 DEF Entry
  <2> QED BY <1>1, <2>1 DEF ViewOf
<1>5. \A id \in DOMAIN l.index : l.index[id] \in 1 .. Len(l.blocks)
  BY DEF WellFormed
<1>6. ViewOf(l).blocks = Snapshot(l) /\ ViewOf(l).index = l.index
  BY DEF ViewOf
<1>7. IsView(ViewOf(l))
  BY <1>1, <1>3, <1>4, <1>6 DEF IsView, ViewOf
<1> QED BY <1>3, <1>5, <1>6, <1>7 DEF Located

LEMMA SeedInit == Init => SeedInv
<1> SUFFICES ASSUME Init PROVE SeedInv
  OBVIOUS
<1>1. /\ view = DefaultView /\ base = 0 /\ pos = 0 /\ ~panicked
      /\ hist[pos + 1] = EmptyLog
  BY DEF Init
<1>2. ViewOf(EmptyLog) = DefaultView
  BY EmptyViews
<1>3. Follows(DefaultView, DefaultView, 0, SeedBlocks)
  BY DEF Follows, DefaultView
<1> QED BY <1>1, <1>2, <1>3 DEF SeedInv

LEMMA SeedProduce ==
  ASSUME IInv, SeedInv, NEW event, NEW after, Publish(event, after)
  PROVE  SeedInv'
<1>1. /\ events \in Seq(BlockEvent) /\ DOMAIN hist = 1 .. Len(events) + 1
      /\ pos \in 0 .. Len(events) /\ joined \in 0 .. pos
  BY DEF IInv, TypeOK
<1>2. /\ events' = Append(events, event) /\ hist' = Append(hist, after)
      /\ UNCHANGED consumer
  BY DEF Publish
<1>3. /\ \A i \in 1 .. Len(events) : events'[i] = events[i]
      /\ hist'[pos + 1] = hist[pos + 1] /\ hist'[joined + 1] = hist[joined + 1]
  BY <1>1, <1>2
<1>4. TruncatedSinceJoined' <=> TruncatedSinceJoined
  BY <1>1, <1>2, <1>3 DEF TruncatedSinceJoined, consumer
<1>5. SeedBlocks' = SeedBlocks
  BY <1>2, <1>3 DEF SeedBlocks, consumer
<1> QED BY <1>2, <1>3, <1>4, <1>5 DEF SeedInv, consumer

LEMMA SeedSeed == IInv /\ Seed => SeedInv'
<1> SUFFICES ASSUME IInv, Seed PROVE SeedInv'
  OBVIOUS
<1> DEFINE n == Len(events)
           seeded == FromSnapshot(Snapshot(log))
           w == ViewOf(log)
<1>1. IsLog(log) /\ WellFormed(log) /\ n \in Nat /\ hist[n + 1] = log
  BY DEF IInv, TypeOK
<1>2. /\ view' = seeded /\ base' = Len(log.blocks) /\ ~panicked'
      /\ pos' = n /\ joined' = n /\ hist' = hist
  BY DEF Seed, producer
<1>3. hist'[pos' + 1] = log /\ hist'[joined' + 1] = log
  BY <1>1, <1>2
<1>4. SeedBlocks' = [i \in 1 .. Len(log.blocks) |-> log.blocks[i].block]
  BY <1>2, <1>3 DEF SeedBlocks
<1>5. /\ Located(w) /\ Len(w.blocks) = Len(log.blocks)
      /\ \A i \in 1 .. Len(log.blocks) : w.blocks[i] = log.blocks[i].block
  BY <1>1, ViewOfLocated
<1>6. seeded.blocks = w.blocks /\ DOMAIN seeded.index = {} /\ Len(w.blocks) \in Nat
  <2>1. DOMAIN <<>> = {}
    OBVIOUS
  <2> QED BY <1>5, <2>1 DEF FromSnapshot, ViewOf, Located, IsView
<1> HIDE DEF seeded, w
<1>7. Follows(seeded, w, Len(log.blocks), SeedBlocks')
  BY <1>4, <1>5, <1>6 DEF Follows, Located
<1> QED BY <1>2, <1>3, <1>7 DEF SeedInv, w

LEMMA SeedReplay == IInv /\ SeedInv /\ Replay => SeedInv'
<1> SUFFICES ASSUME IInv, SeedInv, Replay, ~TruncatedSinceJoined'
             PROVE  ~panicked' /\ Follows(view', ViewOf(hist[pos + 1])', base', SeedBlocks')
  BY DEF SeedInv
<1> DEFINE event == events[pos + 1]
<1>1. /\ events \in Seq(BlockEvent) /\ pos \in 0 .. Len(events) /\ joined \in 0 .. pos
      /\ DOMAIN hist = 1 .. Len(events) + 1 /\ pos < Len(events)
      /\ pos' = pos + 1
      /\ joined' = joined /\ base' = base /\ events' = events /\ hist' = hist
  BY DEF IInv, TypeOK, Replay, producer
<1>2. event \in BlockEvent /\ Mirrors(hist[pos + 1], event, hist[pos + 2])
  <2> DEFINE k == pos + 1
  <2>1. k \in 1 .. Len(events) /\ event = events[k] /\ k + 1 = pos + 2
    BY <1>1
  <2>2. event \in BlockEvent
    BY <1>1, <2>1
  <2> HIDE DEF k
  <2>3. Mirrors(hist[k], events[k], hist[k + 1])
    BY <2>1 DEF IInv, EventsMirror
  <2>4. hist[k] = hist[pos + 1] /\ hist[k + 1] = hist[pos + 2]
    BY <2>1 DEF k
  <2> QED BY <2>1, <2>2, <2>3, <2>4
<1>3. IsLog(hist[pos + 1]) /\ WellFormed(hist[pos + 1]) /\ IsView(view)
  BY <1>1 DEF IInv, TypeOK
<1>4. ~TruncatedSinceJoined /\ event.type # "Truncate"
  BY <1>1 DEF TruncatedSinceJoined
<1>5. ~panicked /\ Follows(view, ViewOf(hist[pos + 1]), base, SeedBlocks)
  BY <1>4 DEF SeedInv
<1>6. /\ ~ViewPanics(view, event)
      /\ Follows(ViewApply(view, event), ViewApply(ViewOf(hist[pos + 1]), event), base, SeedBlocks)
  BY <1>2, <1>3, <1>4, <1>5, ViewOfLocated, FollowsApply
<1>7. view' = ViewApply(view, event) /\ panicked' = panicked
  BY <1>6 DEF Replay
<1>8. ViewApply(ViewOf(hist[pos + 1]), event) = ViewOf(hist[pos + 2])
  BY <1>2 DEF Mirrors
<1>9. hist[pos + 1]' = hist[pos + 2] /\ SeedBlocks' = SeedBlocks
  BY <1>1 DEF SeedBlocks
<1> QED BY <1>1, <1>5, <1>6, <1>7, <1>8, <1>9

LEMMA SeedInductive == IInv /\ SeedInv /\ [Next]_vars => SeedInv'
<1>1. IInv /\ SeedInv /\ Produce => SeedInv'
  BY SeedProduce DEF Produce, AppendBlock, PatchBlock, FinalizeBlock, TruncateFrom
<1>2. SeedInv /\ UNCHANGED vars => SeedInv'
  BY DEF SeedInv, vars, producer, consumer, TruncatedSinceJoined, SeedBlocks
<1> QED BY <1>1, <1>2, SeedSeed, SeedReplay DEF Next

LEMMA SeedIsExact == IInv /\ SeedInv => SeededTailExact
<1> SUFFICES ASSUME IInv, SeedInv, ~TruncatedSinceJoined
             PROVE  /\ ~panicked
                    /\ Len(view.blocks) = Len(hist[pos + 1].blocks)
                    /\ \A i \in 1 .. Len(view.blocks) :
                         view.blocks[i] = IF i =< base THEN hist[joined + 1].blocks[i].block
                                          ELSE hist[pos + 1].blocks[i].block
  BY DEF SeededTailExact
<1>1. ~panicked /\ Follows(view, ViewOf(hist[pos + 1]), base, SeedBlocks)
  BY DEF SeedInv
<1>2. IsLog(hist[pos + 1]) /\ WellFormed(hist[pos + 1]) /\ base \in Nat
  BY DEF IInv, TypeOK
<1>3. /\ Len(ViewOf(hist[pos + 1]).blocks) = Len(hist[pos + 1].blocks)
      /\ \A i \in 1 .. Len(hist[pos + 1].blocks) :
           ViewOf(hist[pos + 1]).blocks[i] = hist[pos + 1].blocks[i].block
  BY <1>2, ViewOfLocated
<1>4. \A i \in 1 .. base : SeedBlocks[i] = hist[joined + 1].blocks[i].block
  BY DEF SeedBlocks
<1> QED BY <1>1, <1>2, <1>3, <1>4 DEF Follows

(* A view seeded late follows exactly the blocks that began after its      *)
(* snapshot, for any snapshot and any stream up to the first truncation    *)
(* (stream.rs:87-90).                                                      *)
THEOREM SeededViewFollows == Spec => []SeededTailExact
<1>1. Spec => []SeedInv
  BY SeedInit, SeedInductive, InvariantHolds, PTL DEF Spec
<1> QED BY <1>1, SeedIsExact, InvariantHolds, PTL
=============================================================================
