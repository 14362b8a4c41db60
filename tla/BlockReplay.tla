----------------------------- MODULE BlockReplay -----------------------------
(***************************************************************************)
(* One producer mutates a BlockLog; every mutation publishes the event it  *)
(* returned.  One consumer holds a BlockView, built either from the event  *)
(* stream alone or from a snapshot taken later, and replays the events in  *)
(* order (stream.rs).  The stream is the sequence of all events published, *)
(* with the position up to which the consumer has replayed it; its bounded *)
(* capacity is the business of SessionEngine.                              *)
(*                                                                         *)
(* hist is an auxiliary variable: hist[k + 1] is the log after k events.   *)
(***************************************************************************)
EXTENDS BlockLog, FiniteSets

CONSTANTS Kinds,      \* the kinds of block the producer appends
          MaxEvents   \* bound on the number of events published

ASSUME KindsAssumption == Kinds \subseteq BlockKind

VARIABLES log,        \* the authoritative log
          events,     \* every event published, in order
          hist,       \* the versions of the log
          view,       \* the consumer's BlockView
          pos,        \* how many events the consumer has replayed
          joined,     \* pos when the view was created
          base,       \* how many blocks the view was seeded with
          panicked    \* BlockView::apply panicked

producer == <<log, events, hist>>
consumer == <<view, pos, joined, base, panicked>>
vars == <<producer, consumer>>

Init ==
  /\ log = EmptyLog
  /\ events = <<>>
  /\ hist = <<EmptyLog>>
  /\ view = DefaultView
  /\ pos = 0
  /\ joined = 0
  /\ base = 0
  /\ panicked = FALSE

-----------------------------------------------------------------------------
Publish(event, after) ==
  /\ Len(events) < MaxEvents
  /\ log' = after
  /\ events' = Append(events, event)
  /\ hist' = Append(hist, after)
  /\ UNCHANGED consumer

AppendBlock(kind) ==
  Publish(AppendEvent(log.next_id, kind), LogAppend(log, kind))

PatchBlock(id, patch) ==
  /\ Known(log, id)
  /\ LET after == LogPatch(log, id, patch)
     IN Publish(UpdateEvent(id, Rev(after, id), patch), after)

FinalizeBlock(id) ==
  /\ Known(log, id)
  /\ LET after == LogFinalize(log, id)
     IN Publish(FinalizeEvent(id, Rev(after, id)), after)

TruncateFrom(id) ==
  /\ Known(log, id)
  /\ Publish(TruncateEvent(id), LogTruncate(log, id))

(* A consumer that joins late: the snapshot and the end of the stream are  *)
(* taken together, as SessionEngine::subscribe does.                       *)
Seed ==
  /\ view' = FromSnapshot(Snapshot(log))
  /\ pos' = Len(events)
  /\ joined' = Len(events)
  /\ base' = Len(log.blocks)
  /\ panicked' = FALSE
  /\ UNCHANGED producer

Replay ==
  /\ pos < Len(events)
  /\ ~panicked
  /\ LET event == events[pos + 1]
     IN IF ViewPanics(view, event)
          THEN panicked' = TRUE /\ UNCHANGED view
          ELSE view' = ViewApply(view, event) /\ UNCHANGED panicked
  /\ pos' = pos + 1
  /\ UNCHANGED <<producer, joined, base>>

Produce ==
  \/ \E kind \in Kinds : AppendBlock(kind)
  \/ \E id \in DOMAIN log.index :
       \/ \E patch \in BlockPatch : PatchBlock(id, patch)
       \/ FinalizeBlock(id)
       \/ TruncateFrom(id)

Next == Produce \/ Seed \/ Replay

Spec == Init /\ [][Next]_vars

-----------------------------------------------------------------------------
(* Types: log, events and view have the shape of the Rust values, and the  *)
(* version history goes with the event stream (stream.rs:14-18, 80-84).    *)
TypeOK ==
  /\ IsLog(log)
  /\ events \in Seq(BlockEvent)
  /\ DOMAIN hist = 1 .. Len(events) + 1
  /\ \A k \in DOMAIN hist : IsLog(hist[k])
  /\ IsView(view)
  /\ pos \in 0 .. Len(events)
  /\ joined \in 0 .. pos
  /\ base \in Nat
  /\ panicked \in BOOLEAN

(* In every reachable state the log's index finds each block where it is,  *)
(* after any mix of appends and truncations (stream.rs:14-61).             *)
IndexConsistent == WellFormed(log)

(* A view that started from nothing, whatever edits and truncations it has *)
(* replayed, equals the log as it was at that point of the stream, and     *)
(* never panics (stream.rs:103-131).                                       *)
FreshViewMirrors ==
  base = 0 => ~panicked /\ view = ViewOf(hist[pos + 1])

(* Ids are never reused, not even after a truncation dropped the newest    *)
(* blocks: a late event can not touch a younger block (block.rs:9).        *)
IdsNeverReused ==
  \A i, j \in 1 .. Len(events) :
    i < j /\ events[i].type = "Append" /\ events[j].type = "Append"
      => events[i].id < events[j].id

Edits(id, k) ==
  {i \in 1 .. k : events[i].type \in {"Update", "Finalize"} /\ events[i].id = id}

(* The revision an event carries counts the edits of its block, so that a  *)
(* consumer that compares revisions notices every missed one (block.rs:13). *)
RevisionsGapless ==
  \A k \in 1 .. Len(events) :
    events[k].type \in {"Update", "Finalize"} =>
      events[k].rev = Cardinality(Edits(events[k].id, k))

TruncatedSinceJoined ==
  \E i \in joined + 1 .. pos : events[i].type = "Truncate"

(* A seeded view follows exactly the blocks that began after its snapshot, *)
(* as long as no truncation reaches it; the snapshot's own blocks stay as  *)
(* they were (stream.rs:87-90).                                            *)
SeededTailExact ==
  ~TruncatedSinceJoined =>
    /\ ~panicked
    /\ Len(view.blocks) = Len(hist[pos + 1].blocks)
    /\ \A i \in 1 .. Len(view.blocks) :
         view.blocks[i] = IF i <= base THEN hist[joined + 1].blocks[i].block
                                       ELSE hist[pos + 1].blocks[i].block

-----------------------------------------------------------------------------
(* Replaying the stream never panics (stream.rs:103-104: unknown ids are   *)
(* ignored).                                                               *)
ReplayNeverPanics == ~panicked
=============================================================================
