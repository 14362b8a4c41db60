------------------------- MODULE SessionEngineProofs -------------------------
(***************************************************************************)
(* Proofs about SessionEngine, for every set of renderers, every capacity  *)
(* of the broadcast channel and every bound.                               *)
(***************************************************************************)
EXTENDS SessionEngine, TLAPS

(* Who holds the log's lock, and what a renderer inside subscribe knows.   *)
LockInv ==
  /\ \A r \in Reader : pc[r] = "subscribing" <=> log_lock = r
  /\ \A r \in Reader : pc[r] = "subscribing" => rx[r] = tail

(* Receivers never run ahead of the channel, nor pictures ahead of the     *)
(* state they picture.                                                     *)
BehindInv ==
  /\ \A r \in Reader : pc[r] = "new" <=> rx[r] = Unsubscribed
  /\ \A r \in Reader : rx[r] =< tail
  /\ \A r \in Reader : blocks[r] =< log
  /\ \A r \in Reader : drawn[r].blocks =< blocks[r] /\ drawn[r].screen =< screen
  /\ \A r \in Reader : pc[r] = "wait" => drawn[r].blocks = blocks[r]

(* A frame is on its way to the screen while the pump feeds it, and an     *)
(* edit made but not sent has no event yet.                                *)
CountInv ==
  /\ screen = IF pump \in {"feed", "screen"} THEN frames - 1 ELSE frames
  /\ tail + Unsent =< log

(* The inductive invariant: NoEventSlips alone is not inductive, because a *)
(* subscription or a resync is exact only under the lock.                  *)
IInv == TypeOK /\ LockInv /\ BehindInv /\ CountInv /\ NoEventSlips

LEMMA InitIInv == Init => IInv
  BY TaskAssumption
  DEF Init, IInv, TypeOK, LockInv, BehindInv, CountInv, NoEventSlips, Unsubscribed, Blank,
      Unsent

LEMMA PumpStepIInv ==
  ASSUME IInv, FeedOutput \/ AdapterReturns \/ ScreenProcess \/ Finish
               \/ FlushReturns \/ AbortPump
  PROVE  IInv'
  BY DEF IInv, TypeOK, LockInv, BehindInv, CountInv, NoEventSlips, Pending, Unsent, reading,
         FeedOutput, AdapterReturns, ScreenProcess, Finish, FlushReturns, AbortPump

LEMMA SinkMutateIInv == IInv /\ SinkMutate => IInv'
  BY TaskAssumption
  DEF IInv, TypeOK, LockInv, BehindInv, CountInv, NoEventSlips, Pending, Unsent, reading, SinkMutate

LEMMA SinkSendIInv == IInv /\ SinkSend => IInv'
<1> SUFFICES ASSUME IInv, SinkSend PROVE IInv'
  OBVIOUS
<1>1. /\ log_lock = Feeder /\ log_lock' = NoOne
      /\ \A r \in Reader : rx[r] # Unsubscribed => tail' = tail + 1
      /\ tail' \in 0 .. log /\ tail =< tail'
      /\ UNCHANGED <<pump, frames, log, screen, pc, rx, blocks, drawn>>
  BY DEF IInv, TypeOK, CountInv, Unsent, SinkSend, reading
<1>2. TypeOK'
  BY <1>1 DEF IInv, TypeOK
<1>3. LockInv'
  BY <1>1, TaskAssumption DEF IInv, LockInv
<1>4. BehindInv'
  BY <1>1 DEF IInv, TypeOK, BehindInv, Unsubscribed
<1>5. CountInv'
  <2>1. Unsent' = 0 /\ tail' =< log /\ tail' \in Nat
    BY <1>1, TaskAssumption DEF IInv, TypeOK, Unsent
  <2>2. screen = IF pump \in {"feed", "screen"} THEN frames - 1 ELSE frames
    BY DEF IInv, CountInv
  <2> QED BY <1>1, <2>1, <2>2 DEF CountInv
<1>6. NoEventSlips'
  <2> SUFFICES ASSUME NEW r \in Reader, pc[r] \in {"draw", "wait"}
               PROVE  log - blocks[r] =< tail' - rx[r] + 0
    BY <1>1, TaskAssumption DEF NoEventSlips, Pending, Unsent
  <2>1. rx[r] # Unsubscribed /\ tail' = tail + 1
    BY <1>1 DEF IInv, BehindInv
  <2>2. log - blocks[r] =< tail - rx[r] + 1
    BY <1>1 DEF IInv, NoEventSlips, Pending, Unsent
  <2> QED BY <2>1, <2>2 DEF IInv, TypeOK, Unsubscribed
<1> QED BY <1>2, <1>3, <1>4, <1>5, <1>6 DEF IInv

LEMMA SubscribeIInv ==
  ASSUME IInv, NEW r \in Reader, Subscribe(r)
  PROVE  IInv'
  BY TaskAssumption
  DEF IInv, TypeOK, LockInv, BehindInv, CountInv, NoEventSlips, Pending, Unsent, feeding,
      Subscribe, Unsubscribed

LEMMA SubscribeSnapshotIInv ==
  ASSUME IInv, NEW r \in Reader, SubscribeSnapshot(r)
  PROVE  IInv'
  BY TaskAssumption
  DEF IInv, TypeOK, LockInv, BehindInv, CountInv, NoEventSlips, Pending, Unsent, feeding,
      SubscribeSnapshot, Unsubscribed

LEMMA DrawIInv ==
  ASSUME IInv, NEW r \in Reader, Draw(r)
  PROVE  IInv'
  BY DEF IInv, TypeOK, LockInv, BehindInv, CountInv, NoEventSlips, Pending, Unsent, feeding, Draw

LEMMA RecvIInv ==
  ASSUME IInv, NEW r \in Reader, Recv(r)
  PROVE  IInv'
<1>1. /\ pc[r] = "wait" /\ rx[r] \in Nat /\ tail \in Nat /\ rx[r] < tail
      /\ pc' = [pc EXCEPT ![r] = "resync"]
      /\ UNCHANGED <<pump, frames, log, tail, screen, log_lock, blocks, drawn>>
  <2>1. /\ pc[r] = "wait" /\ rx[r] # tail
        /\ pc' = [pc EXCEPT ![r] = "resync"]
        /\ UNCHANGED <<pump, frames, log, tail, screen, log_lock, blocks, drawn>>
    BY DEF Recv, feeding
  <2>2. rx[r] # Unsubscribed /\ rx[r] =< tail
    BY <2>1 DEF IInv, BehindInv
  <2>3. rx[r] \in Nat /\ tail \in Nat
    BY <2>2 DEF IInv, TypeOK
  <2> QED BY <2>1, <2>2, <2>3
<1>2. PICK next \in 0 .. tail : rx' = [rx EXCEPT ![r] = next]
  <2>1. tail - rx[r] > Capacity => tail - Capacity \in 0 .. tail
    BY <1>1, CapacityAssumption
  <2>2. rx[r] + 1 \in 0 .. tail
    BY <1>1
  <2> QED BY <2>1, <2>2 DEF Recv
<1>3. TypeOK'
  BY <1>1, <1>2 DEF IInv, TypeOK
<1>4. LockInv'
  BY <1>1, <1>2 DEF IInv, TypeOK, LockInv
<1>5. BehindInv'
  BY <1>1, <1>2 DEF IInv, TypeOK, BehindInv, Unsubscribed
<1>6. NoEventSlips'
  BY <1>1, <1>2 DEF IInv, TypeOK, NoEventSlips, Pending, Unsent
<1>7. CountInv'
  BY <1>1 DEF IInv, CountInv, Unsent
<1> QED BY <1>3, <1>4, <1>5, <1>6, <1>7 DEF IInv

LEMMA ResyncIInv ==
  ASSUME IInv, NEW r \in Reader, Resync(r)
  PROVE  IInv'
  BY TaskAssumption
  DEF IInv, TypeOK, LockInv, BehindInv, CountInv, NoEventSlips, Pending, Unsent, feeding, Resync,
      Unsubscribed

LEMMA KeyIInv ==
  ASSUME IInv, NEW r \in Reader, Key(r)
  PROVE  IInv'
  BY DEF IInv, TypeOK, LockInv, BehindInv, CountInv, NoEventSlips, Pending, Unsent, feeding, Key

LEMMA LeaveIInv ==
  ASSUME IInv, NEW r \in Reader, Leave(r)
  PROVE  IInv'
  BY DEF IInv, TypeOK, LockInv, BehindInv, CountInv, NoEventSlips, Pending, Unsent, feeding, Leave,
         Unsubscribed

LEMMA RenderIInv ==
  ASSUME IInv, NEW r \in Reader, Render(r)
  PROVE  IInv'
  BY SubscribeIInv, SubscribeSnapshotIInv, DrawIInv, RecvIInv, ResyncIInv, KeyIInv,
     LeaveIInv DEF Render

LEMMA StepIInv == IInv /\ [Next]_vars => IInv'
<1>1. IInv /\ Pump => IInv'
  BY PumpStepIInv, SinkMutateIInv, SinkSendIInv DEF Pump
<1>2. IInv /\ UNCHANGED vars => IInv'
  BY DEF IInv, TypeOK, LockInv, BehindInv, CountInv, NoEventSlips, Pending, Unsent, vars, feeding,
         reading
<1> QED BY <1>1, <1>2, RenderIInv DEF Next

THEOREM InvariantHolds == Spec => []IInv
  BY InitIInv, StepIInv, PTL DEF Spec

-----------------------------------------------------------------------------
(* Every variable keeps its type (engine.rs:22-27, session_ui.rs:104-212). *)
THEOREM TypeCorrect == Spec => []TypeOK
<1>1. IInv => TypeOK
  BY DEF IInv
<1> QED BY <1>1, InvariantHolds, PTL

(* No event slips between the snapshot and the receiver, for any number of *)
(* renderers and any capacity, lag included (engine.rs:94-101, 116-118).   *)
THEOREM NoEventIsLost == Spec => []NoEventSlips
<1>1. IInv => NoEventSlips
  BY DEF IInv
<1> QED BY <1>1, InvariantHolds, PTL

(* A renderer that sleeps with an empty receiver shows the current         *)
(* document (session_ui.rs:159-169).                                       *)
THEOREM NoWakeupIsLost == Spec => []NoLostWakeup
<1>1. IInv => NoLostWakeup
  <2> SUFFICES ASSUME IInv, NEW r \in Reader,
                      pc[r] = "wait", Pending(r) = 0, log_lock # Feeder
               PROVE  drawn[r].blocks = log
    BY DEF NoLostWakeup
  <2>1. log - blocks[r] =< 0
    BY DEF IInv, NoEventSlips, Unsent
  <2>2. blocks[r] =< log /\ drawn[r].blocks = blocks[r] /\ blocks[r] \in Nat /\ log \in Nat
    BY DEF IInv, TypeOK, BehindInv
  <2> QED BY <2>1, <2>2
<1> QED BY <1>1, InvariantHolds, PTL

(* No renderer ever goes back to an older document or screen               *)
(* (session_ui.rs:144-169).                                                *)
THEOREM PicturesMoveForward == Spec => DrawnMonotone
<1>1. IInv /\ [Next]_vars => [\A r \in Reader : drawn'[r].blocks >= drawn[r].blocks
                                   /\ drawn'[r].screen >= drawn[r].screen]_vars
  <2> SUFFICES ASSUME IInv, Next, NEW r \in Reader
               PROVE  drawn'[r].blocks >= drawn[r].blocks
                      /\ drawn'[r].screen >= drawn[r].screen
    BY DEF vars
  <2>1. drawn[r].blocks \in Nat /\ drawn[r].screen \in Nat
    BY DEF IInv, TypeOK
  <2>2. CASE drawn' = drawn
    BY <2>1, <2>2
  <2>3. ASSUME NEW q \in Reader, Draw(q)
        PROVE  drawn'[r].blocks >= drawn[r].blocks /\ drawn'[r].screen >= drawn[r].screen
    <3>1. drawn' = [drawn EXCEPT ![q] = [blocks |-> blocks[q], screen |-> screen]]
      BY <2>3 DEF Draw
    <3>2. drawn[q].blocks =< blocks[q] /\ drawn[q].screen =< screen
          /\ blocks[q] \in Nat /\ screen \in Nat
      BY DEF IInv, TypeOK, BehindInv
    <3> QED BY <2>1, <3>1, <3>2 DEF IInv, TypeOK
  <2> QED BY <2>2, <2>3 DEF Next, Pump, Render, reading, FeedOutput, SinkMutate, SinkSend,
             AdapterReturns, ScreenProcess, Finish, FlushReturns, AbortPump, Subscribe,
             SubscribeSnapshot, Recv, Resync, Key, Leave
<1> QED BY <1>1, InvariantHolds, PTL DEF Spec, DrawnMonotone

-----------------------------------------------------------------------------
(* The engine's steps are steps of the abstract document: a renderer's     *)
(* snapshots are versions that existed, taken in order (engine.rs:94-106). *)
LEMMA InitRefines == Init => Promise!Init
  BY DEF Init, Promise!Init, Seen, Promise!Absent

LEMMA StepRefines == IInv /\ [Next]_vars => [Promise!Next]_<<log, Seen>>
<1> SUFFICES ASSUME IInv, [Next]_vars PROVE Promise!Next \/ UNCHANGED <<log, Seen>>
  OBVIOUS
<1>1. CASE UNCHANGED vars
  BY <1>1 DEF vars, feeding, reading, Seen
<1>2. CASE SinkMutate
  <2>1. log' = log + 1 /\ Seen' = Seen
    BY <1>2 DEF SinkMutate, reading, Seen
  <2> QED BY <2>1 DEF Promise!Next, Promise!Edit
<1>3. CASE FeedOutput \/ SinkSend \/ AdapterReturns \/ ScreenProcess \/ Finish
           \/ FlushReturns \/ AbortPump
  BY <1>3 DEF FeedOutput, SinkSend, AdapterReturns, ScreenProcess, Finish, FlushReturns,
              AbortPump, reading, Seen
<1>4. ASSUME NEW r \in Reader, Subscribe(r) \/ Draw(r) \/ Recv(r) \/ Key(r)
      PROVE  UNCHANGED <<log, Seen>>
  <2>1. log' = log /\ blocks' = blocks
    BY <1>4 DEF Subscribe, Draw, Recv, Key, feeding
  <2>2. \A q \in Reader :
          pc'[q] \in {"new", "subscribing"} <=> pc[q] \in {"new", "subscribing"}
    BY <1>4 DEF IInv, TypeOK, Subscribe, Draw, Recv, Key
  <2> QED BY <2>1, <2>2 DEF Seen
<1>5. ASSUME NEW r \in Reader, SubscribeSnapshot(r) \/ Resync(r)
      PROVE  Promise!Next \/ UNCHANGED <<log, Seen>>
  <2>1. log' = log /\ log \in Nat /\ blocks' = [blocks EXCEPT ![r] = log]
    BY <1>5 DEF IInv, TypeOK, SubscribeSnapshot, Resync, feeding
  <2>2. \A q \in Reader : q # r =>
          (pc'[q] \in {"new", "subscribing"} <=> pc[q] \in {"new", "subscribing"})
    BY <1>5 DEF IInv, TypeOK, SubscribeSnapshot, Resync
  <2>3. pc'[r] = "draw"
    BY <1>5 DEF IInv, TypeOK, SubscribeSnapshot, Resync
  <2>4. Seen' = [Seen EXCEPT ![r] = log]
    BY <2>1, <2>2, <2>3 DEF Seen, IInv, TypeOK
  <2>5. CASE Seen[r] = log
    <3>1. Seen' = Seen
      BY <2>4, <2>5 DEF Seen
    <3> QED BY <2>1, <3>1
  <2>6. CASE Seen[r] # log
    BY <2>1, <2>4, <2>6 DEF Promise!Next, Promise!Refresh
  <2> QED BY <2>5, <2>6
<1>6. ASSUME NEW r \in Reader, Leave(r)
      PROVE  Promise!Next
  <2>1. log' = log /\ blocks' = blocks /\ pc[r] = "wait" /\ pc' = [pc EXCEPT ![r] = "new"]
    BY <1>6 DEF Leave, feeding
  <2>2. Seen[r] = blocks[r] /\ blocks[r] \in Nat
    BY <2>1 DEF Seen, IInv, TypeOK
  <2>3. Seen' = [Seen EXCEPT ![r] = -1]
    BY <2>1 DEF Seen, IInv, TypeOK
  <2>4. Promise!Leave(r)
    BY <2>1, <2>2, <2>3 DEF Promise!Leave, Promise!Absent
  <2> QED BY <2>4 DEF Promise!Next
<1> QED BY <1>1, <1>2, <1>3, <1>4, <1>5, <1>6 DEF Next, Pump, Render

(* The safety part of ImplementsDocument.                                  *)
THEOREM EngineImplementsDocument == Spec => Promise!SafeSpec
  BY InitRefines, StepRefines, InvariantHolds, PTL DEF Spec, Promise!SafeSpec
=============================================================================
